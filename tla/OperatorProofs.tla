--------------------------- MODULE OperatorProofs ---------------------------
(***************************************************************************)
(* Proofs about the operator's side of outwall: the approval queue         *)
(* (ApprovalQueue) for every set of cards, of Resolve calls and of         *)
(* reasons, and the vault and session (OperatorGate) for every set of      *)
(* passwords and calls and every idle window.                              *)
(*                                                                         *)
(* QueueInv strengthens the queue's checked invariants with what ties the  *)
(* channel to its history: before the select nothing was received, so the  *)
(* slot still holds the whole history, and every decision in the history   *)
(* was sent by a call on that card.                                        *)
(*                                                                         *)
(* GateInv adds to the gate's that a call past its check still holds the   *)
(* stored password, which stays true because the verifier is written once  *)
(* (ProofsHold), and that the window of an open session starts at the last *)
(* activity (WindowIsActivity).                                            *)
(***************************************************************************)
EXTENDS ApprovalQueue, OperatorGate, SequenceTheorems, TLAPS

-----------------------------------------------------------------------------
(* The approval queue.                                                      *)

\* Submit has not selected yet exactly while it has no answer.
AnswerPhase ==
  \A c \in Cards :
     answer[c] = Unresolved <=> submit[c] \in {"new", "registered", "parked"}

\* Until the select, the slot holds all that was ever sent on the card.
SlotIsHistory ==
  \A c \in Cards : answer[c] = Unresolved => ch[c] = sent[c]

\* What is in the slot has been recorded as sent, and its sender is known.
HistoryHasSender ==
  \A c \in Cards :
     /\ ch[c] # <<>> => sent[c] # <<>>
     /\ sent[c] # <<>> => \E k \in Calls : /\ HasSent(k)
                                           /\ resolve[k].card = c
                                           /\ resolve[k].decision = Head(sent[c])

\* A call that is past its lookup has a card.
CallHasCard ==
  \A k \in Calls : resolve[k].at # "idle" => resolve[k].card \in Cards

QueueInv ==
  /\ TypeOK
  /\ WaitersAreParked
  /\ AnswerPhase
  /\ SlotIsHistory
  /\ HistoryHasSender
  /\ CallHasCard
  /\ FirstVerdictWins

\* What Resolve sends is a Decision.
LEMMA VerdictType ==
  ASSUME NEW approve \in BOOLEAN, NEW reason \in Reasons \cup {NoReason}
  PROVE  Verdict(approve, reason) \in Decision
BY DEF Verdict, Decision

\* The zero Decision is a Decision and is not the unanswered mark.
LEMMA NoVerdictType == NoVerdict \in Decision
BY DEF NoVerdict, Decision

\* No Decision is the unanswered mark.
LEMMA DecisionIsAnswer ==
  ASSUME NEW d \in Decision
  PROVE  d # Unresolved
BY ApprovalAssumption DEF Decision

\* Appending to a sequence keeps a first element that is already there.
LEMMA AppendFacts ==
  ASSUME NEW S, NEW s \in Seq(S), NEW d \in S
  PROVE  /\ Append(s, d) \in Seq(S)
         /\ Append(s, d) # <<>>
         /\ Len(Append(s, d)) = Len(s) + 1
         /\ s # <<>> => Head(Append(s, d)) = Head(s)
         /\ s = <<>> => Head(Append(s, d)) = d
<1>1. Len(s) \in Nat /\ Append(s, d) \in Seq(S) /\ Len(Append(s, d)) = Len(s) + 1
  BY AppendProperties
<1>2. Append(s, d) # <<>>
  BY <1>1
<1>3. ASSUME s # <<>> PROVE Head(Append(s, d)) = Head(s)
  <2>1. Len(s) > 0 BY <1>3, <1>1, EmptySeq
  <2>2. Append(s, d)[1] = s[1] BY <2>1, <1>1, AppendProperties
  <2>3. QED BY <2>2, <1>2, <1>3
<1>4. ASSUME s = <<>> PROVE Head(Append(s, d)) = d
  BY <1>4
<1>5. QED BY <1>1, <1>2, <1>3, <1>4

\* Receiving from the slot yields a decision and shortens it.
LEMMA TailFacts ==
  ASSUME NEW S, NEW s \in Seq(S), s # <<>>
  PROVE  /\ Tail(s) \in Seq(S)
         /\ Head(s) \in S
         /\ Len(Tail(s)) = Len(s) - 1
         /\ Len(s) \in Nat
BY HeadTailProperties

-----------------------------------------------------------------------------
\* The empty queue satisfies the invariant.
LEMMA InitQueueInv == Init => QueueInv
<1> SUFFICES ASSUME Init PROVE QueueInv
  OBVIOUS
<1>1. TypeOK
  <2>1. NoVerdict \in Decision BY NoVerdictType
  <2>2. QED BY <2>1 DEF Init, TypeOK, SubmitStates, ResolveStates, ResolveCall
<1>2. WaitersAreParked /\ AnswerPhase /\ SlotIsHistory /\ CallHasCard /\ FirstVerdictWins
  BY DEF Init, WaitersAreParked, AnswerPhase, SlotIsHistory, CallHasCard, FirstVerdictWins
<1>3. HistoryHasSender
  BY DEF Init, HistoryHasSender
<1>4. QED BY <1>1, <1>2, <1>3 DEF QueueInv

\* Submit's registration, its publication and its deferred delete touch no
\* channel and no answer.
LEMMA SubmitMovesPreserve ==
  ASSUME QueueInv, NEW c \in Cards,
         SubmitRegister(c) \/ SubmitPublish(c) \/ SubmitReturn(c)
  PROVE  QueueInv'
<1> USE DEF QueueInv
<1>1. CASE SubmitRegister(c)
  <2>1. TypeOK'
    BY <1>1 DEF SubmitRegister, TypeOK, SubmitStates
  <2>2. WaitersAreParked' /\ AnswerPhase' /\ SlotIsHistory' /\ CallHasCard' /\ FirstVerdictWins'
    BY <1>1 DEF SubmitRegister, TypeOK, WaitersAreParked, AnswerPhase, SlotIsHistory,
                CallHasCard, FirstVerdictWins
  <2>3. HistoryHasSender'
    BY <1>1 DEF SubmitRegister, HistoryHasSender, HasSent
  <2>4. QED BY <2>1, <2>2, <2>3
<1>2. CASE SubmitPublish(c)
  <2>0. published' \subseteq Event
    <3>1. [kind |-> "approval.enqueued", card |-> c, approved |-> FALSE] \in Event
      BY DEF Event
    <3>2. QED BY <1>2, <3>1 DEF SubmitPublish, TypeOK
  <2>1. TypeOK'
    BY <1>2, <2>0 DEF SubmitPublish, TypeOK, SubmitStates
  <2>2. WaitersAreParked' /\ AnswerPhase' /\ SlotIsHistory' /\ CallHasCard' /\ FirstVerdictWins'
    BY <1>2 DEF SubmitPublish, TypeOK, WaitersAreParked, AnswerPhase, SlotIsHistory,
                CallHasCard, FirstVerdictWins
  <2>3. HistoryHasSender'
    BY <1>2 DEF SubmitPublish, HistoryHasSender, HasSent
  <2>4. QED BY <2>1, <2>2, <2>3
<1>3. CASE SubmitReturn(c)
  <2>1. TypeOK'
    BY <1>3 DEF SubmitReturn, TypeOK, SubmitStates
  <2>2. WaitersAreParked' /\ AnswerPhase' /\ SlotIsHistory' /\ CallHasCard' /\ FirstVerdictWins'
    BY <1>3 DEF SubmitReturn, TypeOK, WaitersAreParked, AnswerPhase, SlotIsHistory,
                CallHasCard, FirstVerdictWins
  <2>3. HistoryHasSender'
    BY <1>3 DEF SubmitReturn, HistoryHasSender, HasSent
  <2>4. QED BY <2>1, <2>2, <2>3
<1>4. QED BY <1>1, <1>2, <1>3

\* The channel arm: the answer is the only, hence the first, decision sent.
LEMMA SelectDecisionPreserves ==
  ASSUME QueueInv, NEW c \in Cards, SelectDecision(c)
  PROVE  QueueInv'
<1> USE DEF QueueInv
<1>1. /\ ch[c] \in Seq(Decision) /\ ch[c] # <<>>
      /\ Tail(ch[c]) \in Seq(Decision)
      /\ Head(ch[c]) \in Decision
      /\ Len(Tail(ch[c])) <= 1
  <2>1. ch[c] \in Seq(Decision) /\ ch[c] # <<>> /\ Len(ch[c]) <= 1
    BY DEF SelectDecision, TypeOK
  <2>2. QED BY <2>1, TailFacts
<1>2. Head(ch[c]) # Unresolved
  BY <1>1, DecisionIsAnswer
<1>3. answer[c] = Unresolved /\ ch[c] = sent[c]
  BY DEF SelectDecision, AnswerPhase, SlotIsHistory
<1>4. TypeOK'
  BY <1>1 DEF SelectDecision, TypeOK, SubmitStates
<1>5. WaitersAreParked' /\ AnswerPhase' /\ SlotIsHistory' /\ CallHasCard'
  BY <1>2 DEF SelectDecision, TypeOK, WaitersAreParked, AnswerPhase, SlotIsHistory, CallHasCard
<1>6. FirstVerdictWins'
  BY <1>1, <1>3 DEF SelectDecision, TypeOK, FirstVerdictWins
<1>7. HistoryHasSender'
  BY <1>1, <1>3 DEF SelectDecision, TypeOK, HistoryHasSender, HasSent
<1>8. QED BY <1>4, <1>5, <1>6, <1>7

\* The timer and context arms answer "not approved" and leave the channel.
LEMMA SelectExpiredPreserves ==
  ASSUME QueueInv, NEW c \in Cards, SelectExpired(c)
  PROVE  QueueInv'
<1> USE DEF QueueInv
<1>1. NoVerdict \in Decision /\ NoVerdict # Unresolved
  BY NoVerdictType, DecisionIsAnswer
<1>2. TypeOK'
  BY <1>1 DEF SelectExpired, TypeOK, SubmitStates
<1>3. WaitersAreParked' /\ AnswerPhase' /\ SlotIsHistory' /\ CallHasCard' /\ FirstVerdictWins'
  BY <1>1 DEF SelectExpired, TypeOK, WaitersAreParked, AnswerPhase, SlotIsHistory,
              CallHasCard, FirstVerdictWins
<1>4. HistoryHasSender'
  BY DEF SelectExpired, HistoryHasSender, HasSent
<1>5. QED BY <1>2, <1>3, <1>4

\* The lookup only starts a call.
LEMMA ResolveLookupPreserves ==
  ASSUME QueueInv, NEW k \in Calls, NEW c \in Cards, NEW approve \in BOOLEAN,
         NEW reason \in Reasons \cup {NoReason}, ResolveLookup(k, c, approve, reason)
  PROVE  QueueInv'
<1> USE DEF QueueInv
<1>1. Verdict(approve, reason) \in Decision
  BY VerdictType
<1> DEFINE new == [at |-> IF c \in waiters THEN "found" ELSE "notFound",
                   card |-> c, decision |-> Verdict(approve, reason)]
<1>2. new \in ResolveCall
  BY <1>1 DEF ResolveCall, ResolveStates
<1>3. resolve' = [resolve EXCEPT ![k] = new]
  BY DEF ResolveLookup
<1>4. TypeOK'
  BY <1>2, <1>3 DEF ResolveLookup, TypeOK
<1>5. WaitersAreParked' /\ AnswerPhase' /\ SlotIsHistory' /\ FirstVerdictWins'
  BY DEF ResolveLookup, WaitersAreParked, AnswerPhase, SlotIsHistory, FirstVerdictWins
<1>6. CallHasCard'
  BY <1>3 DEF CallHasCard, TypeOK
<1>7. HistoryHasSender'
  <2>1. ~ HasSent(k)
    BY DEF ResolveLookup, HasSent
  <2>2. \A j \in Calls : HasSent(j) => resolve'[j] = resolve[j]
    BY <2>1, <1>3 DEF TypeOK
  <2>3. QED
    BY <2>2 DEF ResolveLookup, HistoryHasSender, HasSent
<1>8. QED BY <1>4, <1>5, <1>6, <1>7

\* The send extends slot and history together; the slot was empty.
LEMMA ResolveSendPreserves ==
  ASSUME QueueInv, NEW k \in Calls, ResolveSend(k)
  PROVE  QueueInv'
<1> USE DEF QueueInv
<1> DEFINE c == resolve[k].card
           d == resolve[k].decision
<1>1. c \in Cards /\ d \in Decision
  BY DEF ResolveSend, CallHasCard, TypeOK, ResolveCall
<1>2. /\ ch[c] \in Seq(Decision) /\ sent[c] \in Seq(Decision)
      /\ Len(ch[c]) \in Nat /\ Len(ch[c]) < 1
  BY <1>1, LenProperties DEF ResolveSend, ChanCap, TypeOK
<1>3. ch[c] = <<>>
  BY <1>2, EmptySeq
<1>4. /\ ch' = [ch EXCEPT ![c] = Append(ch[c], d)]
      /\ sent' = [sent EXCEPT ![c] = Append(sent[c], d)]
      /\ resolve' = [resolve EXCEPT ![k].at = "delivered"]
      /\ UNCHANGED <<waiters, submit, answer, published>>
  BY DEF ResolveSend
<1>5. /\ Append(ch[c], d) \in Seq(Decision) /\ Append(sent[c], d) \in Seq(Decision)
      /\ Len(Append(ch[c], d)) = 1
      /\ Append(sent[c], d) # <<>> /\ Append(ch[c], d) # <<>>
      /\ sent[c] # <<>> => Head(Append(sent[c], d)) = Head(sent[c])
      /\ sent[c] = <<>> => Head(Append(sent[c], d)) = d
  <2>1. Len(ch[c]) = 0 BY <1>2
  <2>2. QED BY <1>1, <1>2, <2>1, AppendFacts
<1>6. TypeOK'
  <2>1. resolve' \in [Calls -> ResolveCall]
    BY <1>4 DEF TypeOK, ResolveCall, ResolveStates
  <2>2. ch' \in [Cards -> Seq(Decision)] /\ sent' \in [Cards -> Seq(Decision)]
    BY <1>1, <1>4, <1>5 DEF TypeOK
  <2>3. \A e \in Cards : Len(ch'[e]) <= 1
    BY <1>1, <1>4, <1>5 DEF TypeOK
  <2>4. QED BY <1>4, <2>1, <2>2, <2>3 DEF TypeOK
<1>7. WaitersAreParked' /\ AnswerPhase'
  BY <1>4 DEF WaitersAreParked, AnswerPhase
<1>8. SlotIsHistory'
  BY <1>1, <1>4 DEF SlotIsHistory, TypeOK
<1>9. CallHasCard'
  BY <1>1, <1>4 DEF CallHasCard, TypeOK
<1>10. FirstVerdictWins'
  <2> SUFFICES ASSUME NEW e \in Cards, answer[e] \notin {Unresolved, NoVerdict}
               PROVE  sent'[e] # <<>> /\ answer[e] = Head(sent'[e])
    BY <1>4 DEF FirstVerdictWins
  <2>1. sent[e] # <<>> /\ answer[e] = Head(sent[e])
    BY DEF FirstVerdictWins
  <2>2. CASE e = c BY <2>1, <2>2, <1>1, <1>4, <1>5 DEF TypeOK
  <2>3. CASE e # c BY <2>1, <2>3, <1>1, <1>4 DEF TypeOK
  <2>4. QED BY <2>2, <2>3
<1>11. HistoryHasSender'
  <2> SUFFICES ASSUME NEW e \in Cards
               PROVE  /\ ch'[e] # <<>> => sent'[e] # <<>>
                      /\ sent'[e] # <<>> =>
                           \E j \in Calls : /\ HasSent(j)'
                                            /\ resolve'[j].card = e
                                            /\ resolve'[j].decision = Head(sent'[e])
    BY DEF HistoryHasSender
  <2>0. \A j \in Calls : /\ HasSent(j) => HasSent(j)'
                         /\ resolve'[j].card = resolve[j].card
                         /\ resolve'[j].decision = resolve[j].decision
    BY <1>4 DEF HasSent, TypeOK, ResolveCall
  <2>1. CASE e # c
    BY <2>0, <2>1, <1>1, <1>4 DEF HistoryHasSender, TypeOK
  <2>2. CASE e = c /\ sent[c] # <<>>
    <3>1. PICK j \in Calls : /\ HasSent(j) /\ resolve[j].card = c
                            /\ resolve[j].decision = Head(sent[c])
      BY <2>2, <1>1 DEF HistoryHasSender
    <3>2. sent'[c] # <<>> /\ Head(sent'[c]) = Head(sent[c])
      BY <2>2, <1>1, <1>4, <1>5 DEF TypeOK
    <3>3. QED BY <2>0, <2>2, <3>1, <3>2
  <2>3. CASE e = c /\ sent[c] = <<>>
    <3>1. sent'[c] # <<>> /\ Head(sent'[c]) = d
      BY <2>3, <1>1, <1>4, <1>5 DEF TypeOK
    <3>2. HasSent(k)'
      BY <1>4 DEF HasSent, TypeOK, ResolveCall
    <3>3. QED BY <2>0, <2>3, <3>1, <3>2
  <2>4. QED BY <2>1, <2>2, <2>3
<1>12. QED BY <1>6, <1>7, <1>8, <1>9, <1>10, <1>11

\* The publication ends a call that has already sent.
LEMMA ResolvePublishPreserves ==
  ASSUME QueueInv, NEW k \in Calls, ResolvePublish(k)
  PROVE  QueueInv'
<1> USE DEF QueueInv
<1>1. resolve[k].card \in Cards /\ resolve[k].decision.approved \in BOOLEAN
  BY DEF ResolvePublish, CallHasCard, TypeOK, ResolveCall, Decision
<1>2. TypeOK'
  <2>1. resolve' \in [Calls -> ResolveCall]
    BY DEF ResolvePublish, TypeOK, ResolveCall, ResolveStates
  <2>2. [kind |-> "approval.resolved", card |-> resolve[k].card,
         approved |-> resolve[k].decision.approved] \in Event
    BY <1>1 DEF Event
  <2>3. published' \subseteq Event
    BY <2>2 DEF ResolvePublish, TypeOK
  <2>4. QED BY <2>1, <2>3 DEF ResolvePublish, TypeOK
<1>3. WaitersAreParked' /\ AnswerPhase' /\ SlotIsHistory' /\ FirstVerdictWins'
  BY DEF ResolvePublish, WaitersAreParked, AnswerPhase, SlotIsHistory, FirstVerdictWins
<1>4. CallHasCard'
  BY <1>1 DEF ResolvePublish, CallHasCard, TypeOK
<1>5. HistoryHasSender'
  <2>1. \A j \in Calls : /\ HasSent(j) => HasSent(j)'
                         /\ resolve'[j].card = resolve[j].card
                         /\ resolve'[j].decision = resolve[j].decision
    BY DEF ResolvePublish, HasSent, TypeOK, ResolveCall
  <2>2. QED BY <2>1 DEF ResolvePublish, HistoryHasSender
<1>6. QED BY <1>2, <1>3, <1>4, <1>5

\* QueueInv holds in every reachable state.
THEOREM QueueInvariant == Spec => []QueueInv
<1>1. QueueInv /\ [Next]_vars => QueueInv'
  <2> SUFFICES ASSUME QueueInv, [Next]_vars PROVE QueueInv'
    OBVIOUS
  <2>1. ASSUME NEW c \in Cards, SubmitRegister(c) \/ SubmitStep(c) PROVE QueueInv'
    BY <2>1, SubmitMovesPreserve, SelectDecisionPreserves, SelectExpiredPreserves DEF SubmitStep
  <2>2. ASSUME NEW k \in Calls, ResolveStep(k) PROVE QueueInv'
    BY <2>2, ResolveSendPreserves, ResolvePublishPreserves DEF ResolveStep
  <2>3. ASSUME NEW k \in Calls, NEW c \in Cards, NEW approve \in BOOLEAN,
               NEW reason \in Reasons \cup {NoReason}, ResolveLookup(k, c, approve, reason)
        PROVE QueueInv'
    BY <2>3, ResolveLookupPreserves
  <2>4. CASE UNCHANGED vars
    BY <2>4 DEF vars, QueueInv, TypeOK, WaitersAreParked, AnswerPhase, SlotIsHistory,
                HistoryHasSender, HasSent, CallHasCard, FirstVerdictWins
  <2>5. QED BY <2>1, <2>2, <2>3, <2>4 DEF Next
<1>2. QED BY <1>1, InitQueueInv, PTL DEF Spec

-----------------------------------------------------------------------------
\* Types, for any number of cards and calls.
THEOREM TypeCorrect == Spec => []TypeOK
BY QueueInvariant, PTL DEF QueueInv

\* The waiters map is exactly the set of unreturned Submit calls.
THEOREM WaitersExact == Spec => []WaitersAreParked
BY QueueInvariant, PTL DEF QueueInv

\* A contradicting second verdict never replaces the first.
THEOREM FirstVerdict == Spec => []FirstVerdictWins
BY QueueInvariant, PTL DEF QueueInv

\* No request is let through without an operator's approval of its own card:
\* an approving answer is not NoVerdict, so it heads the history, and the
\* history has a sender.
THEOREM ApprovalNeedsOperator == Spec => []ApprovedByOperator
<1>1. QueueInv => ApprovedByOperator
  <2> SUFFICES ASSUME QueueInv, NEW c \in Cards, answer[c] # Unresolved, answer[c].approved
               PROVE  \E k \in Calls : /\ HasSent(k) /\ resolve[k].card = c
                                       /\ resolve[k].decision = answer[c]
    BY DEF ApprovedByOperator
  <2>1. answer[c] # NoVerdict
    BY DEF NoVerdict
  <2>2. sent[c] # <<>> /\ answer[c] = Head(sent[c])
    BY <2>1 DEF QueueInv, FirstVerdictWins
  <2>3. QED BY <2>2 DEF QueueInv, HistoryHasSender
<1>2. QED BY <1>1, QueueInvariant, PTL

\* A lone operator never hangs: a full slot was filled by a call that has
\* sent, and the blocked call has not.
THEOREM BlockingNeedsRival == Spec => []BlockedOnlyByRival
<1>1. QueueInv => BlockedOnlyByRival
  <2> SUFFICES ASSUME QueueInv, NEW k \in Calls, resolve[k].at = "found",
                      ~ (Len(ch[resolve[k].card]) < ChanCap)
               PROVE  \E j \in Calls \ {k} : HasSent(j) /\ resolve[j].card = resolve[k].card
    BY DEF BlockedOnlyByRival
  <2>1. resolve[k].card \in Cards
    BY DEF QueueInv, CallHasCard
  <2>2. ch[resolve[k].card] # <<>>
    BY DEF ChanCap
  <2>3. PICK j \in Calls : HasSent(j) /\ resolve[j].card = resolve[k].card
    BY <2>1, <2>2 DEF QueueInv, HistoryHasSender
  <2>4. j # k
    BY <2>3 DEF HasSent
  <2>5. QED BY <2>3, <2>4
<1>2. QED BY <1>1, QueueInvariant, PTL

-----------------------------------------------------------------------------
\* Every step of the queue is a step of the one-shot decision, or changes
\* neither the history nor an answer.
LEMMA StepRefines ==
  ASSUME QueueInv, [Next]_vars
  PROVE  [Promise!Next]_Promise!vars
<1> USE DEF Promise!Next, Promise!vars
<1>1. ASSUME NEW c \in Cards,
             SubmitRegister(c) \/ SubmitPublish(c) \/ SubmitReturn(c)
      PROVE  UNCHANGED <<sent, answer>>
  BY <1>1 DEF SubmitRegister, SubmitPublish, SubmitReturn
<1>2. ASSUME NEW c \in Cards, SelectDecision(c) PROVE Promise!Decide(c)
  BY <1>2 DEF SelectDecision, Promise!Decide, QueueInv, AnswerPhase, SlotIsHistory
<1>3. ASSUME NEW c \in Cards, SelectExpired(c) PROVE Promise!GiveUp(c)
  BY <1>3 DEF SelectExpired, Promise!GiveUp, QueueInv, AnswerPhase
<1>4. ASSUME NEW k \in Calls, ResolveSend(k)
      PROVE  \E c \in Cards, v \in Decision : Promise!Cast(c, v)
  <2>1. resolve[k].card \in Cards /\ resolve[k].decision \in Decision
    BY <1>4 DEF ResolveSend, QueueInv, CallHasCard, TypeOK, ResolveCall
  <2>2. Promise!Cast(resolve[k].card, resolve[k].decision)
    BY <1>4 DEF ResolveSend, Promise!Cast
  <2>3. QED BY <2>1, <2>2
<1>5. ASSUME NEW k \in Calls, ResolvePublish(k) PROVE UNCHANGED <<sent, answer>>
  BY <1>5 DEF ResolvePublish
<1>6. ASSUME NEW k \in Calls, NEW c \in Cards, NEW approve \in BOOLEAN,
             NEW reason \in Reasons \cup {NoReason}, ResolveLookup(k, c, approve, reason)
      PROVE  UNCHANGED <<sent, answer>>
  BY <1>6 DEF ResolveLookup
<1>7. CASE UNCHANGED vars
  BY <1>7 DEF vars
<1>8. QED
  BY <1>1, <1>2, <1>3, <1>4, <1>5, <1>6, <1>7 DEF Next, SubmitStep, ResolveStep

\* The queue implements ApprovalDecision.
THEOREM QueueImplementsPromise == Spec => ImplementsPromise
<1>1. Init => Promise!Init
  BY DEF Init, Promise!Init
<1>2. QueueInv /\ [Next]_vars => [Promise!Next]_Promise!vars
  BY StepRefines
<1>3. QED
  BY <1>1, <1>2, QueueInvariant, PTL DEF Spec, ImplementsPromise, Promise!Spec

-----------------------------------------------------------------------------
(* The vault and the session.                                               *)

\* A call that has typed something typed a password; one that passed its check
\* against the store, or wrote the store itself, holds the stored password.
ProofsHold ==
  \A p \in Provers :
     /\ prover[p].at # "idle" => prover[p].pw \in Passwords
     /\ (\/ prover[p].at \in {"keyed", "opening", "done"}
         \/ prover[p].at = "proved" /\ prover[p].kind # "init")
           => prover[p].pw = stored

\* The window of an open session starts at the last proof or admitted call.
WindowIsActivity == session.open => session.lastUsed = active

GateInv == GateTypeOK /\ ProofsHold /\ WindowIsActivity /\ KeyMatchesStore /\ OpenNeedsProof

\* Nothing is stored, open or typed at the start.
LEMMA GateInitially == GateInit => GateInv
<1> SUFFICES ASSUME GateInit PROVE GateInv
  OBVIOUS
<1>1. GateTypeOK
  BY GateAssumption DEF GateInit, GateTypeOK, Closed
<1>2. ProofsHold /\ WindowIsActivity /\ KeyMatchesStore /\ OpenNeedsProof
  BY DEF GateInit, Closed, ProofsHold, WindowIsActivity, KeyMatchesStore, OpenNeedsProof
<1> QED
  BY <1>1, <1>2 DEF GateInv

\* A password check changes only its own call, and passes only on the stored
\* password unless there is none yet.
LEMMA CheckKeeps ==
  ASSUME GateInv, NEW p \in Provers, NEW k \in {"init", "unlock", "session"},
         NEW pw \in Passwords, Check(p, k, pw)
  PROVE  GateInv'
<1> USE DEF GateInv
<1>1. GateTypeOK'
  BY DEF GateTypeOK, Check
<1>2. ProofsHold'
  BY DEF GateTypeOK, Check, Proves, ProofsHold
<1>3. (WindowIsActivity /\ KeyMatchesStore)'
  BY DEF Check, WindowIsActivity, KeyMatchesStore
<1>4. OpenNeedsProof'
  BY DEF GateTypeOK, Check, OpenNeedsProof
<1> QED
  BY <1>1, <1>2, <1>3, <1>4

\* The verifier is written only when there is none, so nobody who relied on a
\* stored one is contradicted.
LEMMA InitStoreKeeps ==
  ASSUME GateInv, NEW p \in Provers, InitStore(p)
  PROVE  GateInv'
<1> USE DEF GateInv
<1>1. GateTypeOK'
  BY DEF GateTypeOK, InitStore, ProofsHold
<1>2. ProofsHold'
  BY GateAssumption DEF GateTypeOK, InitStore, ProofsHold
<1>3. WindowIsActivity' /\ KeyMatchesStore'
  BY DEF InitStore, WindowIsActivity, KeyMatchesStore
<1>4. OpenNeedsProof'
  BY GateAssumption DEF GateTypeOK, InitStore, OpenNeedsProof, ProofsHold
<1> QED
  BY <1>1, <1>2, <1>3, <1>4

\* The key set is the stored password's.
LEMMA SetKeyKeeps ==
  ASSUME GateInv, NEW p \in Provers, SetKey(p)
  PROVE  GateInv'
<1> USE DEF GateInv
<1>1. GateTypeOK'
  BY DEF GateTypeOK, SetKey, ProofsHold
<1>2. ProofsHold'
  BY DEF GateTypeOK, SetKey, ProofsHold
<1>3. WindowIsActivity' /\ KeyMatchesStore'
  BY DEF GateTypeOK, SetKey, WindowIsActivity, KeyMatchesStore, ProofsHold
<1>4. OpenNeedsProof'
  BY DEF GateTypeOK, SetKey, OpenNeedsProof
<1> QED
  BY <1>1, <1>2, <1>3, <1>4

\* Opening the session leaves the proof behind and starts the window.
LEMMA SessionOpenKeeps ==
  ASSUME GateInv, NEW p \in Provers, SessionOpen(p)
  PROVE  GateInv'
<1> USE DEF GateInv
<1>1. GateTypeOK'
  BY DEF GateTypeOK, SessionOpen
<1>2. ProofsHold'
  BY DEF GateTypeOK, SessionOpen, ProofsHold
<1>3. WindowIsActivity' /\ KeyMatchesStore'
  BY DEF SessionOpen, WindowIsActivity, KeyMatchesStore
<1>4. prover'[p].at = "done" /\ prover'[p].pw = stored'
  BY DEF GateTypeOK, SessionOpen, ProofsHold
<1>5. OpenNeedsProof'
  BY <1>4 DEF OpenNeedsProof
<1> QED
  BY <1>1, <1>2, <1>3, <1>5

\* A gated call slides the window it found open, or closes an idle session.
LEMMA GateKeeps ==
  ASSUME GateInv, NEW o \in Ops, Gate(o)
  PROVE  GateInv'
<1> USE DEF GateInv
<1>1. op' \in [Ops -> {"idle", "admitted", "refused", "granted", "stored", "errLocked", "done"}]
  BY DEF GateTypeOK, Gate
<1>2. /\ session' \in [open : BOOLEAN, lastUsed : 0 .. MaxTime]
      /\ session'.lastUsed <= now /\ active' \in 0 .. MaxTime
  <2>1. Closed \in [open : BOOLEAN, lastUsed : 0 .. MaxTime] /\ Closed.lastUsed <= now
    BY GateAssumption DEF GateTypeOK, Closed
  <2>2. LET s == [session EXCEPT !.lastUsed = now]
        IN  s \in [open : BOOLEAN, lastUsed : 0 .. MaxTime] /\ s.lastUsed <= now
    BY DEF GateTypeOK
  <2> QED
    BY <2>1, <2>2 DEF GateTypeOK, Gate
<1>3. GateTypeOK'
  BY <1>1, <1>2 DEF GateTypeOK, Gate
<1>4. ProofsHold' /\ KeyMatchesStore'
  BY DEF Gate, ProofsHold, KeyMatchesStore
<1>5. WindowIsActivity'
  BY DEF GateTypeOK, Gate, Closed, WindowIsActivity
<1>6. OpenNeedsProof'
  BY DEF GateTypeOK, Gate, Closed, OpenNeedsProof
<1> QED
  BY <1>3, <1>4, <1>5, <1>6

\* The handlers behind the gate run only for an admitted call.
LEMMA HandlerKeeps ==
  ASSUME GateInv, NEW o \in Ops, Grant(o) \/ StoreSecret(o) \/ VaultLock(o)
  PROVE  GateInv'
<1> USE DEF GateInv
<1>1. GateTypeOK'
  <2>1. CASE Grant(o)
    BY <2>1 DEF GateTypeOK, Grant
  <2>2. CASE StoreSecret(o)
    BY <2>2 DEF GateTypeOK, StoreSecret
  <2>3. CASE VaultLock(o)
    BY <2>3 DEF GateTypeOK, VaultLock
  <2> QED
    BY <2>1, <2>2, <2>3
<1>2. ProofsHold' /\ WindowIsActivity' /\ KeyMatchesStore'
  BY DEF Grant, StoreSecret, VaultLock, ProofsHold, WindowIsActivity, KeyMatchesStore
<1>3. OpenNeedsProof'
  BY DEF GateTypeOK, Grant, StoreSecret, VaultLock, OpenNeedsProof
<1> QED
  BY <1>1, <1>2, <1>3

\* A restart forgets what memory held and keeps the proofs already made.
LEMMA RestartKeeps ==
  ASSUME GateInv, Restart
  PROVE  GateInv'
<1> USE DEF GateInv
<1>1. prover' \in [Provers -> [at : {"idle", "proved", "refused", "keyed", "opening", "done"},
                              kind : {"init", "unlock", "session"}, pw : Passwords \cup {NoKey}]]
  BY DEF GateTypeOK, Restart
<1>2. op' \in [Ops -> {"idle", "admitted", "refused", "granted", "stored", "errLocked", "done"}]
  BY DEF GateTypeOK, Restart
<1>3. GateTypeOK'
  BY <1>1, <1>2, GateAssumption DEF GateTypeOK, Restart, Closed
<1>4. \A p \in Provers : IF prover[p].at \in {"idle", "done"} THEN prover'[p] = prover[p]
                         ELSE prover'[p].at = "refused" /\ prover'[p].pw = prover[p].pw
  BY DEF GateTypeOK, Restart
<1>5. ProofsHold'
  <2>1. stored' = stored
    BY DEF Restart
  <2>2. ASSUME NEW p \in Provers
        PROVE  /\ prover'[p].at # "idle" => prover'[p].pw \in Passwords
               /\ (\/ prover'[p].at \in {"keyed", "opening", "done"}
                   \/ prover'[p].at = "proved" /\ prover'[p].kind # "init")
                     => prover'[p].pw = stored'
    BY <1>4, <2>1 DEF ProofsHold
  <2> QED
    BY <2>2 DEF ProofsHold
<1>6. WindowIsActivity' /\ KeyMatchesStore'
  BY DEF Restart, Closed, WindowIsActivity, KeyMatchesStore
<1>7. OpenNeedsProof'
  <2>1. \A o \in Ops : op'[o] \notin {"idle", "refused"} => op[o] \notin {"idle", "refused"}
    BY DEF GateTypeOK, Restart
  <2> QED
    BY <1>4, <2>1 DEF Restart, Closed, OpenNeedsProof
<1> QED
  BY <1>3, <1>5, <1>6, <1>7

\* Every step keeps GateInv.
LEMMA GateStep == GateInv /\ [GateNext]_gateVars => GateInv'
<1> SUFFICES ASSUME GateInv, [GateNext]_gateVars PROVE GateInv'
  OBVIOUS
<1>1. CASE SessionLock
  <2>1. GateTypeOK'
    BY <1>1, GateAssumption DEF GateInv, SessionLock, Closed, GateTypeOK
  <2>2. (ProofsHold /\ WindowIsActivity /\ KeyMatchesStore /\ OpenNeedsProof)'
    BY <1>1 DEF GateInv, SessionLock, Closed, ProofsHold, WindowIsActivity, KeyMatchesStore,
                OpenNeedsProof
  <2> QED
    BY <2>1, <2>2 DEF GateInv
<1>2. CASE Tick
  <2>1. GateTypeOK'
    BY <1>2, GateAssumption DEF GateInv, Tick, GateTypeOK
  <2>2. (ProofsHold /\ WindowIsActivity /\ KeyMatchesStore /\ OpenNeedsProof)'
    BY <1>2 DEF GateInv, Tick, ProofsHold, WindowIsActivity, KeyMatchesStore, OpenNeedsProof
  <2> QED
    BY <2>1, <2>2 DEF GateInv
<1>3. CASE SessionStatus \/ UNCHANGED gateVars
  BY <1>3 DEF GateInv, SessionStatus, gateVars, GateTypeOK, ProofsHold, WindowIsActivity, KeyMatchesStore,
              OpenNeedsProof
<1> QED
  BY <1>1, <1>2, <1>3, CheckKeeps, InitStoreKeeps, SetKeyKeeps, SessionOpenKeeps, GateKeeps,
     HandlerKeeps, RestartKeeps DEF GateNext, ProverStep

\* GateInv holds throughout every behaviour.
THEOREM GateInvariant == GateSpec => []GateInv
BY GateInitially, GateStep, PTL DEF GateSpec

\* Types: the idle window never starts in the future, whatever opens, slides
\* or resets it (opsession.go).
THEOREM GateTypeCorrect == GateSpec => []GateTypeOK
BY GateInvariant, PTL DEF GateInv

\* Two racing first-time setups, unlocks, locks and restarts never leave a key
\* in memory that the stored verifier would refuse (vault.go).
THEOREM KeyIsStored == GateSpec => []KeyMatchesStore
BY GateInvariant, PTL DEF GateInv

\* Nothing gets past operatorGate before somebody proved the password that is
\* stored (admin.go).
THEOREM NothingWithoutProof == GateSpec => []OpenNeedsProof
BY GateInvariant, PTL DEF GateInv

\* An open session inside its window was used inside that window.
LEMMA WindowMeansUse == GateInv => UnusedSessionExpires
BY DEF GateInv, WindowIsActivity, UnusedSessionExpires

\* Polling the status never keeps a session alive (opsession.go Status).
THEOREM IdleSessionsExpire == GateSpec => []UnusedSessionExpires
BY GateInvariant, WindowMeansUse, PTL

\* The gate admits a call only within TTL of the previous use (Authorized).
LEMMA AdmitStep ==
  ASSUME GateInv, [GateNext]_gateVars, NEW o \in Ops, op[o] = "idle", op'[o] = "admitted"
  PROVE  now - active < TTL
<1>1. PICK q \in Ops : Gate(q)
  BY DEF GateInv, GateTypeOK, GateNext, ProverStep, gateVars, Check, InitStore, SetKey, SessionOpen, Grant,
         StoreSecret, VaultLock, SessionLock, SessionStatus, Restart, Tick
<1>2. session.open /\ ~ Idle
  BY <1>1 DEF GateInv, GateTypeOK, Gate
<1> QED
  BY <1>2, GateAssumption DEF GateInv, GateTypeOK, WindowIsActivity, Idle

\* The same as a property of every step.
THEOREM AdmittedWithinWindow == GateSpec => AdmittedInWindow
<1>1. GateInv /\ [GateNext]_gateVars
        => [\A o \in Ops : (op[o] = "idle" /\ op'[o] = "admitted") => now - active < TTL]_gateVars
  BY AdmitStep
<1> QED
  BY <1>1, GateInvariant, PTL DEF GateSpec, AdmittedInWindow
=============================================================================
