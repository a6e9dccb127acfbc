----------------------------- MODULE AccessPoll -----------------------------
(***************************************************************************)
(* internal/mcpsvc GetAccess and internal/events: an agent's long poll on  *)
(* one upstream while the operator decides.                                *)
(*                                                                         *)
(* A poll reads the rules and then the latest request row, in two          *)
(* statements; it sleeps on a bus subscription with a bounded buffer that  *)
(* drops what does not fit, a ticker and a deadline.  An operator's        *)
(* decision is three steps (rules, row, queue) and only the last one       *)
(* publishes.                                                              *)
(***************************************************************************)
EXTENDS Naturals, FiniteSets

CONSTANTS Polls,    \* get_access calls of the agent
          Ops,      \* operator calls
          Buffer,   \* subBuffer
          MaxAsks   \* bound on the agent's requests

ASSUME PollAssumption == Buffer \in Nat \ {0} /\ MaxAsks \in Nat

VARIABLES
  rule,    \* what the live rules say of the agent: "none", "allow" or "deny"
  row,     \* status of the latest access request, or "none"
  parked,  \* the request's card is in the queue
  asks,
  op,      \* op[o]: [at, kind]
  poll,    \* poll[p]: [at, rule, row, answer]
  subs,    \* Bus.subs
  buf,     \* buf[p]: events in the poll's channel
  quiet    \* history: some change was never announced on the bus

pollVars == <<rule, row, parked, asks, op, poll, subs, buf, quiet>>

NewPoll == [at |-> "new", rule |-> "none", row |-> "none", answer |-> "none"]

PollInit ==
  /\ rule = "none" /\ row = "none" /\ parked = FALSE /\ asks = 0
  /\ op = [o \in Ops |-> [at |-> "idle", kind |-> "deny"]]
  /\ poll = [p \in Polls |-> NewPoll]
  /\ subs = {} /\ buf = [p \in Polls |-> 0]
  /\ quiet = FALSE

-----------------------------------------------------------------------------
(* internal/events.                                                         *)

\* A channel after one more event: full means dropped.
Fed(n) == IF n < Buffer THEN n + 1 ELSE n

\* Bus.Publish: every subscriber, under the bus's mutex.
Publish == buf' = [p \in Polls |-> IF p \in subs THEN Fed(buf[p]) ELSE buf[p]]

\* Any event of another part of the daemon.
Noise ==
  /\ subs # {}
  /\ Publish
  /\ UNCHANGED <<rule, row, parked, asks, op, poll, subs, quiet>>

-----------------------------------------------------------------------------
(* The request and the operator.                                            *)

\* A request call: its row, its card, approval.enqueued.
RequestAccess ==
  /\ asks < MaxAsks /\ ~ parked
  /\ asks' = asks + 1 /\ row' = "pending" /\ parked' = TRUE
  /\ Publish
  /\ UNCHANGED <<rule, op, poll, subs, quiet>>

\* The card's timer fires: Submit leaves, the row stays pending.
CardExpires ==
  /\ parked /\ parked' = FALSE
  /\ UNCHANGED <<rule, row, asks, op, poll, subs, buf, quiet>>

\* hApprovalResolve starts on a parked card: a deny, an approval that writes a
\* rule, or the approval of a host card, which writes none.
ResolveBegin(o, kind) ==
  /\ op[o].at = "idle" /\ parked
  /\ op' = [op EXCEPT ![o] = [at |-> IF kind = "allow" THEN "write" ELSE "mark", kind |-> kind]]
  /\ UNCHANGED <<rule, row, parked, asks, poll, subs, buf, quiet>>

ResolveWrite(o) ==
  /\ op[o].at = "write"
  /\ rule' = "allow"
  /\ op' = [op EXCEPT ![o].at = "mark"]
  /\ UNCHANGED <<row, parked, asks, poll, subs, buf, quiet>>

\* GrantLatest or DenyLatest: only a pending row changes.
ResolveMark(o) ==
  /\ op[o].at = "mark"
  /\ row' = IF row # "pending" THEN row ELSE IF op[o].kind = "deny" THEN "denied" ELSE "granted"
  /\ op' = [op EXCEPT ![o].at = "publish"]
  /\ UNCHANGED <<rule, parked, asks, poll, subs, buf, quiet>>

\* Queue.Resolve: approval.resolved, unless the card has left meanwhile.
ResolvePublish(o) ==
  /\ op[o].at = "publish"
  /\ \/ parked /\ Publish /\ parked' = FALSE /\ UNCHANGED quiet
     \/ ~ parked /\ quiet' = TRUE /\ UNCHANGED <<buf, parked>>
  /\ op' = [op EXCEPT ![o].at = "done"]
  /\ UNCHANGED <<rule, row, asks, poll, subs>>

\* hRuleCreate writes its rule, then publishes; the operator may also deny.
RuleCreate(o, outcome) ==
  /\ op[o].at = "idle"
  /\ rule' = IF rule = "deny" THEN "deny" ELSE outcome
  /\ op' = [op EXCEPT ![o] = [at |-> "created", kind |-> "allow"]]
  /\ UNCHANGED <<row, parked, asks, poll, subs, buf, quiet>>

RuleCreated(o) ==
  /\ op[o].at = "created"
  /\ Publish
  /\ op' = [op EXCEPT ![o].at = "done"]
  /\ UNCHANGED <<rule, row, parked, asks, poll, subs, quiet>>

\* hAccessRequestResolve (hRuleDelete is alike): no event at all.
RowResolve(o, status) ==
  /\ op[o].at = "idle" /\ row # "none"
  /\ row' = status /\ quiet' = TRUE
  /\ op' = [op EXCEPT ![o].at = "done"]
  /\ UNCHANGED <<rule, parked, asks, poll, subs, buf>>

RuleGone(o) ==
  /\ op[o].at = "idle" /\ rule # "none"
  /\ rule' = "none" /\ quiet' = TRUE
  /\ op' = [op EXCEPT ![o].at = "done"]
  /\ UNCHANGED <<row, parked, asks, poll, subs, buf>>

-----------------------------------------------------------------------------
(* GetAccess.                                                               *)

\* accessStatus: the rules' verdict, and a denied request turns "pending" into
\* "denied".
Status(ruleSeen, rowSeen) ==
  CASE ruleSeen = "allow" -> "granted"
    [] ruleSeen = "deny"  -> "denied"
    [] OTHER              -> IF rowSeen = "denied" THEN "denied" ELSE "pending"

\* The call returns; the deferred cancel unsubscribes it.
Return(p, answer) ==
  /\ poll' = [poll EXCEPT ![p].at = "returned", ![p].answer = answer, ![p].row = row]
  /\ subs' = subs \ {p}
  /\ buf' = [buf EXCEPT ![p] = 0]

\* statusFor: the rules.
ReadRules(p) ==
  /\ poll[p].at \in {"new", "check", "last"}
  /\ poll' = [poll EXCEPT ![p].rule = rule,
       ![p].at = CASE @ = "new" -> "newRow" [] @ = "check" -> "checkRow" [] @ = "last" -> "lastRow"]
  /\ UNCHANGED <<rule, row, parked, asks, op, subs, buf, quiet>>

\* access.Latest, and what follows from both.
ReadRow(p) ==
  LET res == Status(poll[p].rule, row) IN
  /\ poll[p].at \in {"newRow", "checkRow", "lastRow"}
  /\ \/ /\ res # "pending" \/ poll[p].at = "lastRow"
        /\ Return(p, res)
     \/ /\ res = "pending" /\ poll[p].at # "lastRow"
        /\ poll' = [poll EXCEPT ![p].row = row,
                                ![p].at = IF @ = "newRow" THEN "ask" ELSE "select"]
        /\ UNCHANGED <<subs, buf>>
  /\ UNCHANGED <<rule, row, parked, asks, op, quiet>>

\* hasPendingRequest: nothing to wait for, no wait.
HasPending(p) ==
  /\ poll[p].at = "ask"
  /\ \/ row # "pending" /\ Return(p, "pending")
     \/ /\ row = "pending"
        /\ poll' = [poll EXCEPT ![p].at = "subscribe"]
        /\ UNCHANGED <<subs, buf>>
  /\ UNCHANGED <<rule, row, parked, asks, op, quiet>>

\* (slip) The status is not checked again once subscribed.
SubscribeAndWait(p) ==
  /\ poll[p].at = "subscribe"
  /\ subs' = subs \cup {p}
  /\ poll' = [poll EXCEPT ![p].at = "select"]
  /\ UNCHANGED <<rule, row, parked, asks, op, buf, quiet>>

\* waitForDecision: the subscription comes before the first check.
Subscribe(p) ==
  /\ poll[p].at = "subscribe"
  /\ subs' = subs \cup {p}
  /\ poll' = [poll EXCEPT ![p].at = "check"]
  /\ UNCHANGED <<rule, row, parked, asks, op, buf, quiet>>

\* The select takes an event.
Wake(p) ==
  /\ poll[p].at = "select" /\ buf[p] > 0
  /\ buf' = [buf EXCEPT ![p] = @ - 1]
  /\ poll' = [poll EXCEPT ![p].at = "check"]
  /\ UNCHANGED <<rule, row, parked, asks, op, subs, quiet>>

\* The select takes the ticker.
Ticker(p) ==
  /\ poll[p].at = "select"
  /\ poll' = [poll EXCEPT ![p].at = "check"]
  /\ UNCHANGED <<rule, row, parked, asks, op, subs, buf, quiet>>

\* (slip) At the deadline the last status seen is returned.
DeadlineStale(p) ==
  /\ poll[p].at = "select"
  /\ Return(p, "pending")
  /\ UNCHANGED <<rule, row, parked, asks, op, quiet>>

\* The select takes the deadline: one last check.
Deadline(p) ==
  /\ poll[p].at = "select"
  /\ poll' = [poll EXCEPT ![p].at = "last"]
  /\ UNCHANGED <<rule, row, parked, asks, op, subs, buf, quiet>>

PollStep(p) == ReadRules(p) \/ ReadRow(p) \/ HasPending(p) \/ Subscribe(p) \/ Wake(p) \/ Ticker(p)

PollNext ==
  \/ \E p \in Polls : PollStep(p) \/ Deadline(p)
  \/ \E o \in Ops :
        \/ \E k \in {"allow", "host", "deny"} : ResolveBegin(o, k)
        \/ ResolveWrite(o) \/ ResolveMark(o) \/ ResolvePublish(o)
        \/ \E outcome \in {"allow", "deny"} : RuleCreate(o, outcome)
        \/ RuleCreated(o)
        \/ \E s \in {"granted", "denied", "dismissed"} : RowResolve(o, s)
        \/ RuleGone(o)
  \/ RequestAccess \/ CardExpires \/ Noise

PollSpec == PollInit /\ [][PollNext]_pollVars

\* A poll that can run runs.  Its deadline is a timer: it cannot be put off for
\* ever by the ticks and events that come before it, each of which leads back
\* to the select.
PollFairSpec == PollSpec /\ \A p \in Polls : WF_pollVars(PollStep(p)) /\ SF_pollVars(Deadline(p))

-----------------------------------------------------------------------------
PollPhases == {"new", "newRow", "ask", "subscribe", "check", "checkRow", "select", "last", "lastRow",
               "returned"}

\* Every variable has its type; no channel holds more than its buffer.
PollTypeOK ==
  /\ rule \in {"none", "allow", "deny"}
  /\ row \in {"none", "pending", "granted", "denied", "dismissed"}
  /\ parked \in BOOLEAN /\ quiet \in BOOLEAN /\ asks \in 0 .. MaxAsks
  /\ \A o \in Ops : op[o].at \in {"idle", "write", "mark", "publish", "created", "done"}
  /\ \A p \in Polls : /\ poll[p].at \in PollPhases /\ buf[p] \in 0 .. Buffer
                      /\ poll[p].answer \in {"none", "pending", "granted", "denied"}
  /\ subs \subseteq Polls

\* A poll never sleeps through a decision: whenever it is asleep although the
\* status is no longer pending, an event waits in its channel, or the call that
\* decided has yet to publish, or the decision came without an event (the
\* ticker's case).  Dropping events on a full buffer does not break this.
WakeupNotLost ==
  \A p \in Polls :
     (poll[p].at = "select" /\ Status(rule, row) # "pending") =>
        \/ buf[p] > 0
        \/ \E o \in Ops : op[o].at \in {"mark", "publish", "created"}
        \/ quiet

\* A sleeping poll learns of a grant that lasts, with or without its event: it
\* returns "granted", unless the rule is withdrawn or overruled first.
GrantReachesPoll ==
  \A p \in Polls :
     (poll[p].at = "select" /\ rule = "allow") ~> (poll[p].answer = "granted" \/ rule # "allow")

\* No poll sleeps through a decision on a bus of bounded buffers.
PollInv == PollTypeOK /\ WakeupNotLost
=============================================================================
