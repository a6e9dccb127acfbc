-------------------------- MODULE ApprovalDecision --------------------------
(***************************************************************************)
(* What the approval queue promises, with no channel, no map and no        *)
(* goroutine: a parked request is closed at most once, either by the first *)
(* verdict an operator cast for it or, without any verdict being used, as  *)
(* not approved.  ApprovalQueue is shown to implement it.                  *)
(***************************************************************************)
EXTENDS Sequences

CONSTANTS Cards,       \* the Submit calls of a run, one fresh id each
          Verdicts,    \* what an operator may decide: [approved, reason]
          Unresolved,  \* no answer yet
          NoVerdict    \* Decision{}: a timeout or a cancellation

VARIABLES votes,    \* votes[c]: the verdicts cast on card c, in order
          answer    \* answer[c]: what the parked request was told

vars == <<votes, answer>>

Init ==
  /\ votes  = [c \in Cards |-> <<>>]
  /\ answer = [c \in Cards |-> Unresolved]

\* An operator casts a verdict; a card may collect several, even late ones.
Cast(c, v) ==
  /\ votes' = [votes EXCEPT ![c] = Append(@, v)]
  /\ UNCHANGED answer

\* The request is answered with the first verdict cast ...
Decide(c) ==
  /\ answer[c] = Unresolved
  /\ votes[c] # <<>>
  /\ answer' = [answer EXCEPT ![c] = Head(votes[c])]
  /\ UNCHANGED votes

\* ... or gives up, whatever was cast.
GiveUp(c) ==
  /\ answer[c] = Unresolved
  /\ answer' = [answer EXCEPT ![c] = NoVerdict]
  /\ UNCHANGED votes

Next == \E c \in Cards : Decide(c) \/ GiveUp(c) \/ \E v \in Verdicts : Cast(c, v)

Spec == Init /\ [][Next]_vars
=============================================================================
