--------------------------- MODULE ApprovalQueue ---------------------------
(***************************************************************************)
(* internal/approval/queue.go: the blocking approval queue.                *)
(*                                                                         *)
(* A Submit call registers a waiter under the mutex, publishes             *)
(* "approval.enqueued", then selects on its one-slot channel, its timer    *)
(* and the request context; a deferred delete, under the mutex again,      *)
(* removes the waiter after the select has chosen.  A Resolve call looks   *)
(* the waiter up under the mutex, releases it, and only then sends on the  *)
(* channel, so that everything may happen between its steps.               *)
(***************************************************************************)
EXTENDS Naturals, Sequences

CONSTANTS Cards,      \* Submit calls, one fresh id each (newID)
          Calls,      \* Resolve calls
          Reasons,    \* operator explanations of a deny
          NoReason,   \* the empty reason
          Unresolved, \* Submit has not selected yet
          NoCard      \* a Resolve call that has not started

ASSUME ApprovalAssumption ==
  /\ NoReason \notin Reasons
  /\ NoCard \notin Cards
  /\ \A r \in Reasons \cup {NoReason}, b \in BOOLEAN :
        Unresolved # [approved |-> b, reason |-> r]

VARIABLES
  waiters,    \* keys of Queue.waiters
  ch,         \* ch[c]: the content of the waiter's buffered channel
  submit,     \* submit[c]: where Submit is
  answer,     \* answer[c]: the Decision Submit returns
  resolve,    \* resolve[k]: where Resolve is, its card and its decision
  published,  \* the bus events published so far
  sent        \* history: sent[c], every decision put into ch[c], in order

vars == <<waiters, ch, submit, answer, resolve, published, sent>>

-----------------------------------------------------------------------------
(* Slips the properties below must catch; no specification uses them.       *)

\* An unbuffered channel.
ChanUnbuffered == 0

\* A timeout that fails open.
NoVerdictFailsOpen == [approved |-> TRUE, reason |-> NoReason]

\* Submit forgets its timer and its context.
SelectNeverExpires(c) == FALSE

\* Submit returns without its deferred delete.
SubmitReturnKeepsWaiter(c) ==
  /\ submit[c] = "leaving"
  /\ submit' = [submit EXCEPT ![c] = "returned"]
  /\ UNCHANGED <<waiters, ch, answer, resolve, published, sent>>

\* Resolve replaces a decision nobody has read yet.
ResolveSendReplaces(k) ==
  LET c == resolve[k].card
      d == resolve[k].decision IN
  /\ resolve[k].at = "found"
  /\ ch' = [ch EXCEPT ![c] = <<d>>]
  /\ sent' = [sent EXCEPT ![c] = Append(@, d)]
  /\ resolve' = [resolve EXCEPT ![k].at = "delivered"]
  /\ UNCHANGED <<waiters, submit, answer, published>>

-----------------------------------------------------------------------------
\* Type Decision.
Decision == [approved : BOOLEAN, reason : Reasons \cup {NoReason}]

\* The zero Decision a timeout or a cancellation returns.
NoVerdict == [approved |-> FALSE, reason |-> NoReason]

\* Resolve clears the reason of an approval before it sends.
Verdict(approve, reason) ==
  [approved |-> approve, reason |-> IF approve THEN NoReason ELSE reason]

\* make(chan Decision, 1)
ChanCap == 1

SubmitStates  == {"new", "registered", "parked", "leaving", "returned"}
ResolveStates == {"idle", "found", "delivered", "ok", "notFound"}
ResolveCall   == [at : ResolveStates, card : Cards \cup {NoCard}, decision : Decision]
Event         == [kind : {"approval.enqueued", "approval.resolved"},
                  card : Cards, approved : BOOLEAN]

Init ==
  /\ waiters   = {}
  /\ ch        = [c \in Cards |-> <<>>]
  /\ submit    = [c \in Cards |-> "new"]
  /\ answer    = [c \in Cards |-> Unresolved]
  /\ resolve   = [k \in Calls |-> [at |-> "idle", card |-> NoCard, decision |-> NoVerdict]]
  /\ published = {}
  /\ sent      = [c \in Cards |-> <<>>]

-----------------------------------------------------------------------------
\* Submit: the waiter enters the map under the mutex.
SubmitRegister(c) ==
  /\ submit[c] = "new"
  /\ waiters' = waiters \cup {c}
  /\ submit' = [submit EXCEPT ![c] = "registered"]
  /\ UNCHANGED <<ch, answer, resolve, published, sent>>

\* Submit: "approval.enqueued", outside the mutex, before the select.
SubmitPublish(c) ==
  /\ submit[c] = "registered"
  /\ published' = published \cup
        {[kind |-> "approval.enqueued", card |-> c, approved |-> FALSE]}
  /\ submit' = [submit EXCEPT ![c] = "parked"]
  /\ UNCHANGED <<waiters, ch, answer, resolve, sent>>

\* The select takes the channel arm.
SelectDecision(c) ==
  /\ submit[c] = "parked"
  /\ ch[c] # <<>>
  /\ ch' = [ch EXCEPT ![c] = Tail(@)]
  /\ answer' = [answer EXCEPT ![c] = Head(ch[c])]
  /\ submit' = [submit EXCEPT ![c] = "leaving"]
  /\ UNCHANGED <<waiters, resolve, published, sent>>

\* The select takes the timer or the context arm.  When several arms are
\* ready it picks any of them, so a decision in the channel does not prevent
\* this step.
SelectExpired(c) ==
  /\ submit[c] = "parked"
  /\ answer' = [answer EXCEPT ![c] = NoVerdict]
  /\ submit' = [submit EXCEPT ![c] = "leaving"]
  /\ UNCHANGED <<waiters, ch, resolve, published, sent>>

\* The deferred delete, and the return.
SubmitReturn(c) ==
  /\ submit[c] = "leaving"
  /\ waiters' = waiters \ {c}
  /\ submit' = [submit EXCEPT ![c] = "returned"]
  /\ UNCHANGED <<ch, answer, resolve, published, sent>>

\* Resolve: the lookup, under the mutex.
ResolveLookup(k, c, approve, reason) ==
  /\ resolve[k].at = "idle"
  /\ resolve' = [resolve EXCEPT ![k] =
        [at |-> IF c \in waiters THEN "found" ELSE "notFound",
         card |-> c, decision |-> Verdict(approve, reason)]]
  /\ UNCHANGED <<waiters, ch, submit, answer, published, sent>>

\* Resolve: the send.  It blocks while the slot is taken.
ResolveSend(k) ==
  LET c == resolve[k].card
      d == resolve[k].decision IN
  /\ resolve[k].at = "found"
  /\ Len(ch[c]) < ChanCap
  /\ ch' = [ch EXCEPT ![c] = Append(@, d)]
  /\ sent' = [sent EXCEPT ![c] = Append(@, d)]
  /\ resolve' = [resolve EXCEPT ![k].at = "delivered"]
  /\ UNCHANGED <<waiters, submit, answer, published>>

\* Resolve: "approval.resolved", then nil.
ResolvePublish(k) ==
  /\ resolve[k].at = "delivered"
  /\ published' = published \cup
        {[kind |-> "approval.resolved", card |-> resolve[k].card,
          approved |-> resolve[k].decision.approved]}
  /\ resolve' = [resolve EXCEPT ![k].at = "ok"]
  /\ UNCHANGED <<waiters, ch, submit, answer, sent>>

SubmitStep(c) ==
  \/ SubmitPublish(c) \/ SelectDecision(c) \/ SelectExpired(c) \/ SubmitReturn(c)

ResolveStep(k) == ResolveSend(k) \/ ResolvePublish(k)

Next ==
  \/ \E c \in Cards : SubmitRegister(c) \/ SubmitStep(c)
  \/ \E k \in Calls :
        \/ ResolveStep(k)
        \/ \E c \in Cards, approve \in BOOLEAN, reason \in Reasons \cup {NoReason} :
              ResolveLookup(k, c, approve, reason)

Spec == Init /\ [][Next]_vars

\* A goroutine that can run runs; the timer of a parked Submit fires.  No
\* request and no operator call has to happen.
FairSpec ==
  /\ Spec
  /\ \A c \in Cards : WF_vars(SubmitStep(c))
  /\ \A k \in Calls : WF_vars(ResolveStep(k))

-----------------------------------------------------------------------------
\* Every variable has its type; no channel ever holds more than one decision.
TypeOK ==
  /\ waiters \subseteq Cards
  /\ ch \in [Cards -> Seq(Decision)]
  /\ \A c \in Cards : Len(ch[c]) <= 1
  /\ submit \in [Cards -> SubmitStates]
  /\ answer \in [Cards -> Decision \cup {Unresolved}]
  /\ resolve \in [Calls -> ResolveCall]
  /\ published \subseteq Event
  /\ sent \in [Cards -> Seq(Decision)]

\* A call has put its decision into the channel of its card.
HasSent(k) == resolve[k].at \in {"delivered", "ok"}

\* A request is never told "approved" unless some operator call approved that
\* very card: neither the timer, nor a cancellation, nor a verdict on another
\* card can let it through (Submit's three select arms).
ApprovedByOperator ==
  \A c \in Cards :
     (answer[c] # Unresolved /\ answer[c].approved)
        => \E k \in Calls : /\ HasSent(k)
                            /\ resolve[k].card = c
                            /\ resolve[k].decision = answer[c]

\* When operators race on one card the request gets the verdict that was sent
\* first, or none at all: a later, contradicting Resolve never replaces it.
FirstVerdictWins ==
  \A c \in Cards :
     answer[c] \in {Unresolved, NoVerdict} \/ (sent[c] # <<>> /\ answer[c] = Head(sent[c]))

\* The map holds exactly the cards of the Submit calls that have registered
\* and not returned: an operator is never shown a card nobody waits on any
\* more, and a parked request can always be found.
WaitersAreParked ==
  \A c \in Cards : c \in waiters <=> submit[c] \in {"registered", "parked", "leaving"}

\* A Resolve whose send cannot proceed shares its card with another Resolve
\* that was acknowledged: one operator alone never hangs.
BlockedOnlyByRival ==
  \A k \in Calls :
     (resolve[k].at = "found" /\ ~ (Len(ch[resolve[k].card]) < ChanCap))
        => \E j \in Calls \ {k} : HasSent(j) /\ resolve[j].card = resolve[k].card

\* The queue implements the one-shot decision: refinement mapping.
Promise == INSTANCE ApprovalDecision WITH
             votes <- sent, Verdicts <- Decision

\* Every step of the queue is a step of ApprovalDecision or leaves its
\* variables alone.
ImplementsPromise == Promise!Spec

\* Every parked request is answered in the end: decided, timed out or canceled
\* (Submit's timer).
SubmitReturns ==
  \A c \in Cards : (submit[c] # "new") ~> (submit[c] = "returned")

=============================================================================
