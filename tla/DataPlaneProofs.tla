-------------------------- MODULE DataPlaneProofs --------------------------
(***************************************************************************)
(* Proofs about DataPlane, for any agents, requests, rules and calls.      *)
(*                                                                         *)
(* The checked invariants speak of calls that were forwarded or have       *)
(* ended.  CallOK says the same of a call at every point before: what it   *)
(* has read and been granted by then.  RulesAsWritten ties a rule that is  *)
(* in the table to what the operator wrote, which DefaultDeny is about.    *)
(***************************************************************************)
EXTENDS DataPlane, TLAPS

\* A rule is what the operator wrote, but for its values.
RulesAsWritten ==
  \A r \in rules : \E b \in RuleBodies[kind] :
     r = [id |-> r.id, subject |-> b.subject, kind |-> b.kind, op |-> b.op, outcome |-> b.outcome,
          values |-> r.values]

\* Somebody once granted the operation (for discovery, anything) to the agent.
GrantedTo(a, s) ==
  \E b \in RuleBodies[kind] :
     /\ b.subject \in {a, Everyone} /\ b.outcome # "deny"
     /\ s.kind = "discovery" \/ (b.kind = s.kind /\ b.op = s.op)

Permitted(c) == call[c].outcome = "allow" \/ call[c].approved

\* The states of a call before it reads the row, with a snapshot of it, and
\* after a decision other than deny.
Early   == {"new", "token", "route"}
Routed  == {"decide", "parked", "extend", "answer", "limit", "forwarded"}
Granted == {"parked", "extend", "limit", "forwarded"}

\* What a call at each point relies on.
CallOK(c) ==
  /\ call[c].at \in Early => call[c].up = Gone
  /\ call[c].at \in Routed => call[c].up \in pairs
  /\ call[c].approved => call[c].at \in {"extend", "limit", "forwarded", "done"}
  /\ call[c].at = "extend" => call[c].approved
  /\ call[c].at = "limit" => Permitted(c)
  /\ call[c].at = "forwarded" => sent[c].done
  /\ call[c].at \in Granted => GrantedTo(call[c].agent, call[c].shape)
  /\ call[c].at # "done" => records[c] = 0
  /\ sent[c].done => /\ call[c].at \in {"forwarded", "done"} /\ Permitted(c)
                     /\ GrantedTo(call[c].agent, call[c].shape)
                     /\ [base |-> sent[c].base, cred |-> sent[c].cred] \in pairs

PlaneInv ==
  /\ TypeOK /\ RulesAsWritten /\ ValuesApprovedForRule /\ PlainEndsRecorded
  /\ \A c \in Calls : CallOK(c)

\* The types of the call table and of what was sent.
CallRec == [at : CallStates, agent : Agents \cup {NoRule}, shape : Shapes[kind] \cup {NoRule},
            up : pairs \cup {Gone}, outcome : Outcomes, rule : (1 .. nextId - 1) \cup {NoRule},
            fresh : BOOLEAN, approved : BOOLEAN, status : Nat]
SendRec == [done : BOOLEAN, base : Nat, cred : Nat, locked : BOOLEAN]

\* PlainEndsRecorded, of one call.
PlainOK(c) ==
  (/\ call[c].at = "done" /\ call[c].up # Gone
   /\ call[c].status \in {403, 429} \/ (~ call[c].shape.upgrade /\ (sent[c].done \/ call[c].status = 200)))
     => records[c] = 1

-----------------------------------------------------------------------------
(* Lemmas.                                                                  *)

\* The status codes are numbers; the provers want to be told.
LEMMA Statuses ==
  /\ 101 \in Nat /\ 200 \in Nat /\ 401 \in Nat /\ 403 \in Nat /\ 404 \in Nat
  /\ 429 \in Nat /\ 500 \in Nat /\ 502 \in Nat /\ 503 \in Nat /\ 504 \in Nat
  OBVIOUS

\* A step of one call leaves the others as they are: what they rely on still
\* holds, and the tables keep their types.
LEMMA CallsApart ==
  ASSUME PlaneInv, NEW c \in Calls, UNCHANGED <<kind, nextId, pairs>>,
         \A d \in Calls \ {c} : call'[d] = call[d] /\ sent'[d] = sent[d] /\ records'[d] = records[d],
         CallOK(c)', PlainOK(c)'
  PROVE  (\A d \in Calls : CallOK(d))' /\ PlainEndsRecorded'
<1>1. ASSUME NEW d \in Calls \ {c} PROVE CallOK(d)' /\ PlainOK(d)'
  <2>1. CallOK(d)'
    BY <1>1 DEF PlaneInv, CallOK, GrantedTo, Permitted
  <2>2. PlainOK(d)'
    BY <1>1 DEF PlaneInv, PlainEndsRecorded, PlainOK
  <2> QED
    BY <2>1, <2>2
<1>2. \A d \in Calls : CallOK(d)' /\ PlainOK(d)'
  BY <1>1
<1>3. PlainEndsRecorded'
  BY <1>2 DEF PlainEndsRecorded, PlainOK
<1> QED
  BY <1>2, <1>3

\* A step of one call that leaves the rules alone and withdraws no approval.
LEMMA OneCallMoves ==
  ASSUME PlaneInv, NEW c \in Calls, UNCHANGED <<kind, locked, agents, up, rules, nextId, pairs>>,
         call' \in [Calls -> CallRec], sent' \in [Calls -> SendRec], records' \in [Calls -> 0 .. 1],
         \A d \in Calls \ {c} : call'[d] = call[d] /\ sent'[d] = sent[d] /\ records'[d] = records[d],
         call[c].approved => /\ call'[c].approved /\ call'[c].rule = call[c].rule
                             /\ call'[c].shape = call[c].shape,
         CallOK(c)', PlainOK(c)'
  PROVE  PlaneInv'
<1>1. (\A d \in Calls : CallOK(d))' /\ PlainEndsRecorded'
  BY CallsApart
<1>2. RulesAsWritten'
  BY DEF PlaneInv, RulesAsWritten
<1>3. ValuesApprovedForRule'
  <2>1. \A d \in Calls : call[d].approved =>
           call'[d].approved /\ call'[d].rule = call[d].rule /\ call'[d].shape = call[d].shape
    OBVIOUS
  <2> QED
    BY <2>1 DEF PlaneInv, ValuesApprovedForRule
<1>4. TypeOK'
  BY DEF PlaneInv, TypeOK, CallRec, SendRec
<1> QED
  BY <1>1, <1>2, <1>3, <1>4 DEF PlaneInv

\* The end of a call, with or without a record: what must be audited is.
LEMMA FinishKeeps ==
  ASSUME PlaneInv, NEW c \in Calls, call[c].at \notin {"new", "done"},
         NEW status \in Nat, NEW audited \in BOOLEAN, Finish(c, status, audited),
         UNCHANGED <<kind, locked, agents, up, rules, nextId, sent, pairs>>,
         (/\ call[c].up # Gone
          /\ status \in {403, 429} \/ (~ call[c].shape.upgrade /\ (sent[c].done \/ status = 200)))
            => audited
  PROVE  PlaneInv'
<1>0. call \in [Calls -> CallRec] /\ sent \in [Calls -> SendRec] /\ records \in [Calls -> 0 .. 1]
  BY DEF PlaneInv, TypeOK, CallRec, SendRec
<1>1. /\ call'[c] = [call[c] EXCEPT !.at = "done", !.status = status]
      /\ records'[c] = records[c] + (IF audited THEN 1 ELSE 0)
      /\ \A d \in Calls \ {c} : call'[d] = call[d] /\ sent'[d] = sent[d] /\ records'[d] = records[d]
  BY <1>0 DEF Finish
<1>2. CallOK(c) /\ records[c] = 0
  BY DEF PlaneInv, CallOK
<1>3. call' \in [Calls -> CallRec]
  <2>1. [call[c] EXCEPT !.at = "done", !.status = status] \in CallRec
    BY <1>0 DEF CallRec, CallStates
  <2>2. call' = [call EXCEPT ![c] = [call[c] EXCEPT !.at = "done", !.status = status]]
    BY <1>0 DEF Finish
  <2> QED
    BY <1>0, <2>1, <2>2
<1>4. sent' \in [Calls -> SendRec] /\ records' \in [Calls -> 0 .. 1]
  BY <1>0, <1>2 DEF Finish
<1>5. /\ call'[c].at = "done" /\ call'[c].status = status /\ call'[c].up = call[c].up
      /\ call'[c].agent = call[c].agent /\ call'[c].shape = call[c].shape /\ call'[c].rule = call[c].rule
      /\ call'[c].approved = call[c].approved /\ call'[c].outcome = call[c].outcome
  BY <1>0, <1>1 DEF CallRec
<1>6. CallOK(c)'
  BY <1>2, <1>5 DEF CallOK, GrantedTo, Permitted, Early, Routed, Granted
<1>7. PlainOK(c)'
  BY <1>1, <1>2, <1>5 DEF PlainOK
<1> QED
  BY <1>1, <1>3, <1>4, <1>5, <1>6, <1>7, OneCallMoves

\* An end that is recorded.
LEMMA FinishRecorded ==
  ASSUME PlaneInv, NEW c \in Calls, call[c].at \notin {"new", "done"},
         NEW status \in Nat, Finish(c, status, TRUE),
         UNCHANGED <<kind, locked, agents, up, rules, nextId, sent, pairs>>
  PROVE  PlaneInv'
  BY FinishKeeps, Zenon

\* An end that is not recorded, and need not be.
LEMMA FinishSilent ==
  ASSUME PlaneInv, NEW c \in Calls, call[c].at \notin {"new", "done"},
         NEW status \in Nat, Finish(c, status, FALSE),
         UNCHANGED <<kind, locked, agents, up, rules, nextId, sent, pairs>>,
         \/ call[c].up = Gone
         \/ status \notin {403, 429} /\ (call[c].shape.upgrade \/ (~ sent[c].done /\ status # 200))
  PROVE  PlaneInv'
  BY FinishKeeps, Zenon

\* What CallOK asks of a call record x before it is forwarded.
StageOK(x) ==
  /\ x.at \in Early => x.up = Gone
  /\ x.at \in Routed => x.up \in pairs
  /\ x.approved => x.at \in {"extend", "limit", "done"}
  /\ x.at = "extend" => x.approved
  /\ x.at = "limit" => x.outcome = "allow" \/ x.approved
  /\ x.at # "forwarded" /\ (x.at = "done" => x.up = Gone)
  /\ x.at \in Granted => GrantedTo(x.agent, x.shape)

\* A call that was not forwarded goes on to x and nothing else changes.
LEMMA CallBecomes ==
  ASSUME PlaneInv, NEW c \in Calls, call[c].at \in {"new", "token", "route", "decide", "parked"},
         NEW x \in CallRec, StageOK(x), call' = [call EXCEPT ![c] = x],
         UNCHANGED <<kind, locked, agents, up, rules, nextId, sent, records, pairs>>
  PROVE  PlaneInv'
<1>0. call \in [Calls -> CallRec] /\ sent \in [Calls -> SendRec] /\ records \in [Calls -> 0 .. 1]
  BY DEF PlaneInv, TypeOK, CallRec, SendRec
<1>1. call'[c] = x /\ \A d \in Calls \ {c} : call'[d] = call[d] /\ sent'[d] = sent[d] /\ records'[d] = records[d]
  BY <1>0
<1>2. CallOK(c)
  BY DEF PlaneInv
<1>3. ~ sent[c].done /\ records[c] = 0 /\ ~ call[c].approved
  BY <1>2 DEF CallOK
<1>4. CallOK(c)'
  BY <1>1, <1>3 DEF CallOK, StageOK, GrantedTo, Permitted, Early, Routed, Granted
<1>5. PlainOK(c)'
  BY <1>1, <1>3 DEF PlainOK, StageOK
<1>6. call' \in [Calls -> CallRec] /\ sent' \in [Calls -> SendRec] /\ records' \in [Calls -> 0 .. 1]
  BY <1>0
<1> QED
  BY <1>1, <1>3, <1>4, <1>5, <1>6, OneCallMoves

\* A rule in the table that grants something was written by the operator.
LEMMA RuleGrants ==
  ASSUME PlaneInv, NEW a, NEW s, NEW r \in rules, r.subject \in {a, Everyone}, r.outcome # "deny",
         s.kind = "discovery" \/ (r.kind = s.kind /\ r.op = s.op)
  PROVE  GrantedTo(a, s)
<1>1. PICK b \in RuleBodies[kind] :
        r = [id |-> r.id, subject |-> b.subject, kind |-> b.kind, op |-> b.op, outcome |-> b.outcome,
             values |-> r.values]
  BY DEF PlaneInv, RulesAsWritten
<1>2. b.subject = r.subject /\ b.kind = r.kind /\ b.op = r.op /\ b.outcome = r.outcome
  BY <1>1
<1> QED
  BY <1>2 DEF GrantedTo

\* Decide: what is not denied was granted.
LEMMA DecisionGrants ==
  ASSUME PlaneInv, NEW a, NEW s, NEW d \in Decision(a, s)
  PROVE  /\ d.outcome \in Outcomes /\ d.rule \in (1 .. nextId - 1) \cup {NoRule} /\ d.fresh \in BOOLEAN
         /\ d.outcome # "deny" => GrantedTo(a, s)
<1>1. CASE s.kind = "discovery"
  <2>1. d = [outcome |-> IF agentHasAnyGrant(a) THEN "allow" ELSE "deny", rule |-> NoRule, fresh |-> FALSE]
    BY <1>1 DEF Decision
  <2>2. d.outcome # "deny" => \E r \in rules : r.subject \in {a, Everyone} /\ r.outcome # "deny"
    BY <2>1 DEF agentHasAnyGrant, ForAgent
  <2> QED
    BY <1>1, <2>1, <2>2, RuleGrants DEF Outcomes
<1>2. CASE s.kind # "discovery"
  <2>1. d \in Decide(a, s)
    BY <1>2 DEF Decision
  <2>2. CASE d = [outcome |-> "deny", rule |-> NoRule, fresh |-> FALSE]
    BY <2>2 DEF Outcomes
  <2>3. CASE d # [outcome |-> "deny", rule |-> NoRule, fresh |-> FALSE]
    <3>1. PICK r \in FirstTier(a, s) :
             d = [outcome |-> RuleOutcome(r, s), rule |-> r.id, fresh |-> NewValue(r, s)]
      BY <2>1, <2>3 DEF Decide
    <3>2. r \in rules /\ r.subject \in {a, Everyone} /\ r.kind = s.kind /\ r.op = s.op
      BY <3>1 DEF FirstTier
    <3>3. r.id \in 1 .. nextId - 1 /\ r.outcome \in Outcomes
      BY <3>2 DEF PlaneInv, TypeOK
    <3>4. RuleOutcome(r, s) \in Outcomes /\ (RuleOutcome(r, s) # "deny" => r.outcome # "deny")
      BY <3>3 DEF RuleOutcome, NewValue, Outcomes
    <3>5. NewValue(r, s) \in BOOLEAN
      BY DEF NewValue
    <3>6. d.outcome # "deny" => GrantedTo(a, s)
      BY <3>1, <3>2, <3>4, RuleGrants
    <3> QED
      BY <3>1, <3>3, <3>4, <3>5, <3>6
  <2> QED
    BY <2>2, <2>3
<1> QED
  BY <1>1, <1>2

-----------------------------------------------------------------------------
(* Init, and one lemma per group of actions.                                *)

\* No call, no rule, and the row the upstream was created with.
LEMMA PlaneInitially == Init => PlaneInv
<1> SUFFICES ASSUME Init PROVE PlaneInv
  OBVIOUS
<1>1. call \in [Calls -> CallRec]
  <2>1. NewCall \in CallRec
    BY DEF NewCall, CallRec, CallStates, Outcomes
  <2> QED
    BY <2>1 DEF Init
<1>2. sent \in [Calls -> SendRec] /\ records \in [Calls -> 0 .. 1]
  BY DEF Init, NoSend, SendRec
<1>3. locked \in BOOLEAN
  BY DEF Init
<1>4. TypeOK
  BY <1>1, <1>2, <1>3, PlaneAssumption DEF Init, TypeOK, CallRec, SendRec
<1>5. RulesAsWritten /\ ValuesApprovedForRule
  BY DEF Init, RulesAsWritten, ValuesApprovedForRule
<1>6. PlainEndsRecorded
  BY DEF Init, PlainEndsRecorded, NewCall
<1>7. \A c \in Calls : CallOK(c)
  BY DEF Init, CallOK, NewCall, NoSend, Early, Routed, Granted
<1> QED
  BY <1>4, <1>5, <1>6, <1>7 DEF PlaneInv

\* A call arrives.
LEMMA BeginKeeps ==
  ASSUME PlaneInv, NEW c \in Calls, NEW a \in Agents, NEW s \in Shapes[kind], Begin(c, a, s)
  PROVE  PlaneInv'
<1> DEFINE x == IF locked
                THEN [NewCall EXCEPT !.at = "done", !.agent = a, !.shape = s, !.status = 503]
                ELSE [NewCall EXCEPT !.at = "token", !.agent = a, !.shape = s]
<1>1. x \in CallRec
  <2>1. {"token", "done"} \subseteq CallStates /\ "deny" \in Outcomes
    BY DEF CallStates, Outcomes
  <2>2. ASSUME NEW n \in Nat
        PROVE  [NewCall EXCEPT !.at = "done", !.agent = a, !.shape = s, !.status = n] \in CallRec
    BY <2>1 DEF NewCall, CallRec
  <2>3. [NewCall EXCEPT !.at = "token", !.agent = a, !.shape = s] \in CallRec
    BY <2>1 DEF NewCall, CallRec
  <2> QED
    BY <2>2, <2>3, Statuses
<1>2. StageOK(x)
  BY DEF NewCall, StageOK, Early, Routed, Granted
<1>3. call' = [call EXCEPT ![c] = x] /\ call[c].at = "new"
  BY DEF Begin
<1> HIDE DEF x
<1> QED
  BY <1>1, <1>2, <1>3, CallBecomes DEF Begin

\* The token is known; the row is read; an approval arrives.
LEMMA AuthenticateRouteApprovedKeep ==
  ASSUME PlaneInv, NEW c \in Calls, Authenticate(c) \/ Route(c) \/ Approved(c)
  PROVE  PlaneInv'
<1>0. call \in [Calls -> CallRec] /\ CallOK(c)
  BY DEF PlaneInv, TypeOK, CallRec
<1>1. CASE Authenticate(c)
  <2> DEFINE x == [call[c] EXCEPT !.at = "route"]
  <2>1. x \in CallRec
    BY <1>0 DEF CallRec, CallStates
  <2>2. call[c].at = "token" /\ StageOK(x)
    BY <1>0, <1>1 DEF Authenticate, CallRec, CallOK, StageOK, Early, Routed, Granted
  <2>3. call' = [call EXCEPT ![c] = x]
    BY <1>0, <1>1 DEF Authenticate
  <2> HIDE DEF x
  <2> QED
    BY <1>1, <2>1, <2>2, <2>3, CallBecomes DEF Authenticate
<1>2. CASE Route(c) /\ up # Gone /\ ~ locked
  <2> DEFINE x == [call[c] EXCEPT !.at = "decide", !.up = up]
  <2>1. x \in CallRec
    BY <1>0, <1>2 DEF PlaneInv, TypeOK, CallRec, CallStates
  <2>2. call[c].at = "route" /\ StageOK(x)
    BY <1>0, <1>2 DEF PlaneInv, TypeOK, Route, CallRec, CallOK, StageOK, Early, Routed, Granted
  <2>3. call' = [call EXCEPT ![c] = x] /\ UNCHANGED records
    BY <1>0, <1>2 DEF Route
  <2> HIDE DEF x
  <2> QED
    BY <1>2, <2>1, <2>2, <2>3, CallBecomes DEF Route
<1>3. CASE Route(c) /\ (up = Gone \/ locked)
  <2>1. call[c].at = "route" /\ Finish(c, 404, FALSE) /\ call[c].up = Gone
    BY <1>0, <1>3 DEF Route, CallOK, Early
  <2> QED
    BY <1>3, <2>1, FinishSilent, Statuses DEF Route
<1>4. CASE Approved(c)
  <2> DEFINE x == [call[c] EXCEPT !.at = IF call[c].fresh THEN "extend" ELSE "limit", !.approved = TRUE]
  <2>1. x \in CallRec
    BY <1>0 DEF CallRec, CallStates
  <2>2. call[c].at = "parked" /\ StageOK(x)
    BY <1>0, <1>4 DEF Approved, CallRec, CallOK, StageOK, Early, Routed, Granted
  <2>3. call' = [call EXCEPT ![c] = x]
    BY <1>0, <1>4 DEF Approved
  <2> HIDE DEF x
  <2> QED
    BY <1>4, <2>1, <2>2, <2>3, CallBecomes DEF Approved
<1> QED
  BY <1>1, <1>2, <1>3, <1>4 DEF Route

\* The switch on the decision.
LEMMA EvaluateKeeps ==
  ASSUME PlaneInv, NEW c \in Calls, Evaluate(c)
  PROVE  PlaneInv'
<1>0. call \in [Calls -> CallRec] /\ CallOK(c) /\ records \in [Calls -> 0 .. 1] /\ sent \in [Calls -> SendRec]
  BY DEF PlaneInv, TypeOK, CallRec, SendRec
<1> DEFINE Decided(e) == [call EXCEPT ![c].outcome = e.outcome, ![c].rule = e.rule, ![c].fresh = e.fresh]
<1>d. PICK d \in Decision(call[c].agent, call[c].shape) :
        \/ /\ Emptied(call[c].shape, d)
           /\ call' = [call EXCEPT ![c].at = "answer", ![c].outcome = "allow"]
           /\ UNCHANGED records
        \/ /\ d.outcome = "deny" /\ ~ Emptied(call[c].shape, d)
           /\ call' = [Decided(d) EXCEPT ![c].at = "done", ![c].status = 403]
           /\ records' = [records EXCEPT ![c] = @ + 1]
        \/ /\ d.outcome = "require-approval"
           /\ call' = [Decided(d) EXCEPT ![c].at = "parked"]
           /\ UNCHANGED records
        \/ /\ d.outcome = "allow"
           /\ call' = [Decided(d) EXCEPT ![c].at = "limit"]
           /\ UNCHANGED records
  BY Zenon DEF Evaluate
<1>1. /\ d.outcome \in Outcomes /\ d.rule \in (1 .. nextId - 1) \cup {NoRule} /\ d.fresh \in BOOLEAN
      /\ d.outcome # "deny" => GrantedTo(call[c].agent, call[c].shape)
  BY DecisionGrants
<1>2. call[c].at = "decide" /\ UNCHANGED <<kind, locked, agents, up, rules, nextId, sent, pairs>>
  BY DEF Evaluate
<1>3. ~ call[c].approved /\ call[c].up \in pairs /\ ~ sent[c].done /\ records[c] = 0
  BY <1>0, <1>2 DEF CallOK, Routed
<1>4. ASSUME NEW at \in {"parked", "limit"}, d.outcome # "deny", at = "limit" => d.outcome = "allow",
             call' = [Decided(d) EXCEPT ![c].at = at],
             UNCHANGED records
      PROVE  PlaneInv'
  <2> DEFINE x == [call[c] EXCEPT !.outcome = d.outcome, !.rule = d.rule, !.fresh = d.fresh, !.at = at]
  <2>0. at \in CallStates
    BY DEF CallStates
  <2>1. x \in CallRec
    BY <1>0, <1>1, <2>0 DEF CallRec
  <2>2. /\ x.at = at /\ x.up = call[c].up /\ x.approved = call[c].approved /\ x.outcome = d.outcome
        /\ x.agent = call[c].agent /\ x.shape = call[c].shape
    BY <1>0 DEF CallRec
  <2> HIDE DEF x
  <2>3. StageOK(x)
    BY <1>1, <1>3, <1>4, <2>2 DEF StageOK, Early, Routed, Granted
  <2>4. call' = [call EXCEPT ![c] = x]
    BY <1>0, <1>4 DEF x, CallRec
  <2> QED
    BY <1>2, <1>4, <2>1, <2>3, <2>4, CallBecomes
<1>5. CASE call' = [call EXCEPT ![c].at = "answer", ![c].outcome = "allow"] /\ UNCHANGED records
  <2> DEFINE x == [call[c] EXCEPT !.at = "answer", !.outcome = "allow"]
  <2>0. "answer" \in CallStates /\ "allow" \in Outcomes
    BY DEF CallStates, Outcomes
  <2>1. x \in CallRec
    BY <1>0, <2>0 DEF CallRec
  <2>2. StageOK(x)
    BY <1>0, <1>3 DEF CallRec, StageOK, Early, Routed, Granted
  <2>3. call' = [call EXCEPT ![c] = x]
    BY <1>0, <1>5
  <2> HIDE DEF x
  <2> QED
    BY <1>2, <1>5, <2>1, <2>2, <2>3, CallBecomes
<1>6. CASE /\ d.outcome = "deny"
           /\ call' = [Decided(d) EXCEPT ![c].at = "done", ![c].status = 403]
           /\ records' = [records EXCEPT ![c] = @ + 1]
  <2> DEFINE x == [call[c] EXCEPT !.outcome = d.outcome, !.rule = d.rule, !.fresh = d.fresh,
                                  !.at = "done", !.status = 403]
  <2>0. "done" \in CallStates
    BY DEF CallStates
  <2>1. x \in CallRec
    <3>1. ASSUME NEW n \in Nat
          PROVE  [call[c] EXCEPT !.outcome = d.outcome, !.rule = d.rule, !.fresh = d.fresh,
                                 !.at = "done", !.status = n] \in CallRec
      BY <1>0, <1>1, <2>0 DEF CallRec
    <3> QED
      BY <3>1, Statuses
  <2>2. x.at = "done" /\ x.approved = call[c].approved
    BY <1>0 DEF CallRec
  <2> HIDE DEF x
  <2>3. call' = [call EXCEPT ![c] = x]
    BY <1>0, <1>6 DEF x, CallRec
  <2>4. /\ call'[c] = x /\ records'[c] = 1
        /\ \A e \in Calls \ {c} : call'[e] = call[e] /\ sent'[e] = sent[e] /\ records'[e] = records[e]
    BY <1>0, <1>2, <1>3, <1>6, <2>3
  <2>5. CallOK(c)'
    BY <1>2, <1>3, <2>2, <2>4 DEF CallOK, Early, Routed, Granted
  <2>6. PlainOK(c)'
    BY <2>4 DEF PlainOK
  <2>7. call' \in [Calls -> CallRec] /\ sent' \in [Calls -> SendRec]
    BY <1>0, <1>2, <2>1, <2>3
  <2>8. records' \in [Calls -> 0 .. 1]
    BY <1>0, <1>3, <1>6
  <2> QED
    BY <1>2, <1>3, <2>4, <2>5, <2>6, <2>7, <2>8, OneCallMoves
<1> QED
  BY <1>d, <1>4, <1>5, <1>6

\* AddAllowedValue: ids stay unique, and the new value is one the operator
\* approved for this rule.
LEMMA ExtendKeeps ==
  ASSUME PlaneInv, NEW c \in Calls, Extend(c)
  PROVE  PlaneInv'
<1> DEFINE v == call[c].shape.value
           Ext(r) == IF r.id = call[c].rule THEN [r EXCEPT !.values = @ \cup {v}] ELSE r
<1>0. /\ call \in [Calls -> CallRec] /\ CallOK(c)
      /\ records \in [Calls -> 0 .. 1] /\ sent \in [Calls -> SendRec]
  BY DEF PlaneInv, TypeOK, CallRec, SendRec
<1>1. /\ call[c].at = "extend" /\ call[c].approved /\ call' = [call EXCEPT ![c].at = "limit"]
      /\ rules' = {Ext(r) : r \in rules}
      /\ UNCHANGED <<kind, locked, agents, up, nextId, sent, records, pairs>>
  BY <1>0 DEF Extend, CallOK
<1>2. \A r \in rules :
        /\ Ext(r).id = r.id /\ Ext(r).subject = r.subject /\ Ext(r).kind = r.kind /\ Ext(r).op = r.op
        /\ Ext(r).outcome = r.outcome
        /\ Ext(r).values = r.values \/ (r.id = call[c].rule /\ Ext(r).values = r.values \cup {v})
        /\ \E b \in RuleBodies[kind] :
              Ext(r) = [id |-> r.id, subject |-> b.subject, kind |-> b.kind, op |-> b.op,
                        outcome |-> b.outcome, values |-> Ext(r).values]
  <2>1. TAKE r \in rules
  <2>2. PICK b \in RuleBodies[kind] :
          r = [id |-> r.id, subject |-> b.subject, kind |-> b.kind, op |-> b.op, outcome |-> b.outcome,
               values |-> r.values]
    BY DEF PlaneInv, RulesAsWritten
  <2>3. CASE r.id = call[c].rule
    <3>1. Ext(r) = [id |-> r.id, subject |-> b.subject, kind |-> b.kind, op |-> b.op,
                    outcome |-> b.outcome, values |-> r.values \cup {v}]
      BY <2>2, <2>3
    <3> QED
      BY <2>2, <2>3, <3>1
  <2>4. CASE r.id # call[c].rule
    BY <2>2, <2>4
  <2> QED
    BY <2>3, <2>4
<1> HIDE DEF Ext
<1>3. \A q \in rules' : \E r \in rules : q = Ext(r)
  BY <1>1
<1>4. RulesAsWritten'
  <2>1. ASSUME NEW q \in rules'
        PROVE \E b \in RuleBodies[kind]' :
                 q = [id |-> q.id, subject |-> b.subject, kind |-> b.kind, op |-> b.op,
                      outcome |-> b.outcome, values |-> q.values]
    BY <1>1, <1>2, <1>3
  <2> QED
    BY <2>1 DEF RulesAsWritten
<1>5. \A q \in rules' : /\ q.id \in 1 .. nextId - 1 /\ q.outcome \in Outcomes
                        /\ \A x \in rules' : x.id = q.id => x = q
  BY <1>2, <1>3 DEF PlaneInv, TypeOK
<1>6. call' \in [Calls -> CallRec]
  BY <1>0, <1>1 DEF CallRec, CallStates
<1>7. /\ call'[c] = [call[c] EXCEPT !.at = "limit"]
      /\ \A d \in Calls \ {c} : call'[d] = call[d] /\ sent'[d] = sent[d] /\ records'[d] = records[d]
  BY <1>0, <1>1
<1>8. /\ call'[c].at = "limit" /\ call'[c].up = call[c].up /\ call'[c].approved /\ call'[c].rule = call[c].rule
      /\ call'[c].agent = call[c].agent /\ call'[c].shape = call[c].shape
  BY <1>0, <1>1, <1>7 DEF CallRec
<1>9. TypeOK'
  BY <1>0, <1>1, <1>5, <1>6 DEF PlaneInv, TypeOK, CallRec, SendRec
<1>10. ValuesApprovedForRule'
  <2>1. SUFFICES ASSUME NEW q \in rules', NEW w \in q.values
        PROVE \/ \E b \in RuleBodies[kind] : b.kind = q.kind /\ b.op = q.op /\ b.subject = q.subject
                                  /\ b.outcome = q.outcome /\ w \in b.values
              \/ \E d \in Calls : call'[d].approved /\ call'[d].rule = q.id /\ call'[d].shape.value = w
    BY <1>1 DEF ValuesApprovedForRule
  <2>2. PICK r \in rules : q = Ext(r)
    BY <1>3
  <2>3. CASE w \in r.values
    <3>1. \/ \E b \in RuleBodies[kind] : b.kind = r.kind /\ b.op = r.op /\ b.subject = r.subject
                                  /\ b.outcome = r.outcome /\ w \in b.values
          \/ \E d \in Calls : call[d].approved /\ call[d].rule = r.id /\ call[d].shape.value = w
      BY <2>3 DEF PlaneInv, ValuesApprovedForRule
    <3>2. \A d \in Calls : call[d].approved =>
             call'[d].approved /\ call'[d].rule = call[d].rule /\ call'[d].shape = call[d].shape
      BY <1>7, <1>8
    <3> QED
      BY <1>2, <2>2, <3>1, <3>2
  <2>4. CASE w \notin r.values
    BY <1>2, <1>8, <2>1, <2>2, <2>4
  <2> QED
    BY <2>3, <2>4
<1>11. CallOK(c)'
  BY <1>0, <1>1, <1>8 DEF CallOK, GrantedTo, Permitted, Early, Routed, Granted
<1>12. PlainOK(c)'
  BY <1>8 DEF PlainOK
<1>13. (\A d \in Calls : CallOK(d))' /\ PlainEndsRecorded'
  BY <1>1, <1>7, <1>11, <1>12, CallsApart
<1> QED
  BY <1>4, <1>9, <1>10, <1>13 DEF PlaneInv

\* Rewrite: base and credential are those of the snapshot.
LEMMA RewriteKeeps ==
  ASSUME PlaneInv, NEW c \in Calls, Rewrite(c)
  PROVE  PlaneInv'
<1> DEFINE z == [done |-> TRUE, base |-> call[c].up.base, cred |-> call[c].up.cred, locked |-> locked]
<1>0. /\ call \in [Calls -> CallRec] /\ CallOK(c) /\ pairs \subseteq [base : Nat, cred : Nat]
      /\ records \in [Calls -> 0 .. 1] /\ sent \in [Calls -> SendRec]
  BY DEF PlaneInv, TypeOK, CallRec, SendRec
<1>1. /\ call[c].at = "limit" /\ call' = [call EXCEPT ![c].at = "forwarded"]
      /\ sent' = [sent EXCEPT ![c] = z]
      /\ UNCHANGED <<kind, locked, agents, up, rules, nextId, records, pairs>>
  BY DEF Rewrite
<1>2. call[c].up \in pairs /\ records[c] = 0 /\ Permitted(c) /\ GrantedTo(call[c].agent, call[c].shape)
  BY <1>0, <1>1 DEF CallOK, Routed, Granted
<1>3. [base |-> call[c].up.base, cred |-> call[c].up.cred] = call[c].up
  BY <1>0, <1>2
<1>4. z \in SendRec
  <2>1. locked \in BOOLEAN
    BY DEF PlaneInv, TypeOK
  <2>2. call[c].up.base \in Nat /\ call[c].up.cred \in Nat
    BY <1>0, <1>2
  <2> QED
    BY <2>1, <2>2 DEF SendRec
<1>5. z.done /\ z.base = call[c].up.base /\ z.cred = call[c].up.cred
  OBVIOUS
<1> HIDE DEF z
<1>6. call' \in [Calls -> CallRec]
  BY <1>0, <1>1 DEF CallRec, CallStates
<1>7. sent' \in [Calls -> SendRec] /\ records' \in [Calls -> 0 .. 1]
  BY <1>0, <1>1, <1>4
<1>8. /\ call'[c] = [call[c] EXCEPT !.at = "forwarded"] /\ sent'[c] = z
      /\ \A d \in Calls \ {c} : call'[d] = call[d] /\ sent'[d] = sent[d] /\ records'[d] = records[d]
  BY <1>0, <1>1
<1>9. /\ call'[c].at = "forwarded" /\ call'[c].up = call[c].up /\ call'[c].rule = call[c].rule
      /\ call'[c].approved = call[c].approved /\ call'[c].outcome = call[c].outcome
      /\ call'[c].agent = call[c].agent /\ call'[c].shape = call[c].shape
  BY <1>0, <1>8 DEF CallRec
<1>10. CallOK(c)'
  BY <1>1, <1>2, <1>3, <1>5, <1>8, <1>9 DEF CallOK, GrantedTo, Permitted, Early, Routed, Granted
<1>11. PlainOK(c)'
  BY <1>9 DEF PlainOK
<1> QED
  BY <1>1, <1>6, <1>7, <1>8, <1>9, <1>10, <1>11, OneCallMoves

\* Every end of a call that records what has to be recorded.
LEMMA EndsKeep ==
  ASSUME PlaneInv, NEW c \in Calls,
         \/ Refused(c) \/ DecideFails(c) \/ NotApproved(c) \/ Canceled(c) \/ Answer(c) \/ Limited(c)
         \/ BadAuth(c) \/ Respond(c) \/ UpstreamError(c) \/ UpgradeEnds(c)
  PROVE  PlaneInv'
<1>0. CallOK(c)
  BY DEF PlaneInv
<1>1. CASE Refused(c)
  <2>1. call[c].at = "token" /\ call[c].up = Gone
    BY <1>0, <1>1 DEF Refused, CallOK, Early
  <2>2. PICK status \in {401, 403} : Finish(c, status, FALSE)
    BY <1>1 DEF Refused
  <2>3. UNCHANGED <<kind, locked, agents, up, rules, nextId, sent, pairs>> /\ status \in Nat
    BY <1>1, <2>2 DEF Refused
  <2> QED
    BY <2>1, <2>2, <2>3, FinishSilent
<1>2. CASE DecideFails(c)
  <2>1. call[c].at \notin {"new", "done"} /\ ~ sent[c].done
    BY <1>0, <1>2 DEF DecideFails, CallOK
  <2> DEFINE status == 500
  <2>2. status \in Nat /\ status \notin {403, 429} /\ status # 200
    OBVIOUS
  <2>3. Finish(c, status, FALSE)
    BY <1>2 DEF DecideFails
  <2>4. UNCHANGED <<kind, locked, agents, up, rules, nextId, sent, pairs>>
    BY <1>2 DEF DecideFails
  <2> HIDE DEF status
  <2> QED
    BY <2>1, <2>2, <2>3, <2>4, FinishSilent
<1>3. CASE NotApproved(c)
  BY <1>3, FinishRecorded, Statuses DEF NotApproved
<1>4. CASE Canceled(c)
  <2>1. call[c].at \notin {"new", "done"} /\ ~ sent[c].done
    BY <1>0, <1>4 DEF Canceled, CallOK
  <2> DEFINE status == 504
  <2>2. status \in Nat /\ status \notin {403, 429} /\ status # 200
    OBVIOUS
  <2>3. Finish(c, status, FALSE)
    BY <1>4 DEF Canceled
  <2>4. UNCHANGED <<kind, locked, agents, up, rules, nextId, sent, pairs>>
    BY <1>4 DEF Canceled
  <2> HIDE DEF status
  <2> QED
    BY <2>1, <2>2, <2>3, <2>4, FinishSilent
<1>5. CASE Answer(c)
  BY <1>5, FinishRecorded, Statuses DEF Answer
<1>6. CASE Limited(c)
  BY <1>6, FinishRecorded, Statuses DEF Limited
<1>7. CASE BadAuth(c)
  <2>1. call[c].at \notin {"new", "done"} /\ ~ sent[c].done
    BY <1>0, <1>7 DEF BadAuth, CallOK
  <2> DEFINE status == 500
  <2>2. status \in Nat /\ status \notin {403, 429} /\ status # 200
    OBVIOUS
  <2>3. Finish(c, status, FALSE)
    BY <1>7 DEF BadAuth
  <2>4. UNCHANGED <<kind, locked, agents, up, rules, nextId, sent, pairs>>
    BY <1>7 DEF BadAuth
  <2> HIDE DEF status
  <2> QED
    BY <2>1, <2>2, <2>3, <2>4, FinishSilent
<1>8. CASE Respond(c)
  BY <1>8, FinishRecorded, Statuses DEF Respond
<1>9. CASE UpstreamError(c)
  BY <1>9, FinishRecorded, Statuses DEF UpstreamError
<1>10. CASE UpgradeEnds(c) /\ Finish(c, 101, TRUE)
  <2>1. call[c].at = "forwarded" /\ UNCHANGED <<kind, locked, agents, up, rules, nextId, sent, pairs>> /\ 101 \in Nat
    BY <1>10 DEF UpgradeEnds
  <2> QED
    BY <1>10, <2>1, FinishRecorded
<1>11. CASE UpgradeEnds(c) /\ Finish(c, 200, FALSE)
  <2>1. call[c].at \notin {"new", "done"} /\ call[c].shape.upgrade /\ UNCHANGED <<kind, locked, agents, up, rules, nextId, sent, pairs>>
    BY <1>11 DEF UpgradeEnds
  <2> DEFINE status == 200
  <2>2. status \in Nat /\ status \notin {403, 429}
    OBVIOUS
  <2>3. Finish(c, status, FALSE)
    BY <1>11
  <2> HIDE DEF status
  <2> QED
    BY <2>1, <2>2, <2>3, FinishSilent
<1> QED
  BY <1>1, <1>2, <1>3, <1>4, <1>5, <1>6, <1>7, <1>8, <1>9, <1>10, <1>11 DEF UpgradeEnds

\* The operator works on the vault and on the upstream's row: what was read
\* from the row before stays one of the pairs.
LEMMA RowStepsKeep ==
  ASSUME PlaneInv, VaultLock \/ VaultUnlock \/ SetAuth \/ UpdateTarget \/ UpstreamDelete
  PROVE  PlaneInv'
<1>1. UNCHANGED <<kind, agents, rules, nextId, call, sent, records>> /\ pairs \subseteq pairs'
  BY DEF VaultLock, VaultUnlock, SetAuth, UpdateTarget, UpstreamDelete
<1>2. locked' \in BOOLEAN
  BY DEF PlaneInv, TypeOK, VaultLock, VaultUnlock, SetAuth, UpdateTarget, UpstreamDelete
<1>3. pairs' \subseteq [base : Nat, cred : Nat] /\ up' \in pairs' \cup {Gone}
  <2>0. pairs \subseteq [base : Nat, cred : Nat] /\ up \in pairs \cup {Gone}
    BY DEF PlaneInv, TypeOK
  <2>1. CASE VaultLock \/ VaultUnlock \/ UpstreamDelete
    BY <2>0, <2>1 DEF VaultLock, VaultUnlock, UpstreamDelete
  <2>2. CASE SetAuth \/ UpdateTarget
    <3>1. up \in [base : Nat, cred : Nat] /\ pairs' = pairs \cup {up'}
      BY <2>0, <2>2 DEF SetAuth, UpdateTarget
    <3>2. up' \in [base : Nat, cred : Nat]
      BY <2>2, <3>1 DEF SetAuth, UpdateTarget
    <3> QED
      BY <2>0, <3>1, <3>2
  <2> QED
    BY <2>1, <2>2
<1>4. call' \in [Calls -> CallRec']
  <2>1. CallRec \subseteq CallRec'
    BY <1>1 DEF CallRec
  <2>2. call \in [Calls -> CallRec]
    BY DEF PlaneInv, TypeOK, CallRec
  <2> QED
    BY <1>1, <2>1, <2>2
<1>5. TypeOK'
  BY <1>1, <1>2, <1>3, <1>4 DEF PlaneInv, TypeOK, CallRec
<1>6. RulesAsWritten' /\ ValuesApprovedForRule' /\ PlainEndsRecorded'
  BY <1>1 DEF PlaneInv, RulesAsWritten, ValuesApprovedForRule, PlainEndsRecorded
<1>7. ASSUME NEW c \in Calls PROVE CallOK(c)'
  BY <1>1 DEF PlaneInv, CallOK, GrantedTo, Permitted
<1> QED
  BY <1>5, <1>6, <1>7 DEF PlaneInv

\* Rules disappear: one by hRuleDelete, all of an agent's with the agent.
LEMMA RulesGoKeeps ==
  ASSUME PlaneInv, rules' \subseteq rules, agents' \subseteq agents,
         UNCHANGED <<kind, locked, up, nextId, call, sent, records, pairs>>
  PROVE  PlaneInv'
<1>1. locked' \in BOOLEAN
  BY DEF PlaneInv, TypeOK
<1>2. TypeOK'
  BY <1>1 DEF PlaneInv, TypeOK
<1>3. RulesAsWritten' /\ PlainEndsRecorded'
  BY DEF PlaneInv, RulesAsWritten, PlainEndsRecorded
<1>4. ValuesApprovedForRule'
  BY DEF PlaneInv, ValuesApprovedForRule
<1>5. ASSUME NEW c \in Calls PROVE CallOK(c)'
  BY DEF PlaneInv, CallOK, GrantedTo, Permitted
<1> QED
  BY <1>2, <1>3, <1>4, <1>5 DEF PlaneInv

\* hRuleCreate: the id is new, the values are those it was written with.
LEMMA RuleCreateKeeps ==
  ASSUME PlaneInv, NEW b \in RuleBodies[kind], RuleCreate(b)
  PROVE  PlaneInv'
<1> DEFINE n == [id |-> nextId, subject |-> b.subject, kind |-> b.kind, op |-> b.op,
                 outcome |-> b.outcome, values |-> b.values]
<1>1. /\ rules' = rules \cup {n} /\ nextId' = nextId + 1 /\ nextId <= MaxRules
      /\ UNCHANGED <<kind, locked, agents, up, call, sent, records, pairs>>
  BY DEF RuleCreate
<1>2. /\ n.id = nextId /\ n.subject = b.subject /\ n.kind = b.kind /\ n.op = b.op
      /\ n.outcome = b.outcome /\ n.values = b.values
  OBVIOUS
<1>3. b.outcome \in Outcomes /\ nextId \in 1 .. MaxRules + 1
  BY PlaneAssumption DEF PlaneInv, TypeOK
<1>4. RulesAsWritten'
  BY <1>1 DEF PlaneInv, RulesAsWritten
<1> HIDE DEF n
<1>5. \A r \in rules' : /\ r.id \in 1 .. nextId' - 1 /\ r.outcome \in Outcomes
                        /\ \A x \in rules' : x.id = r.id => x = r
  BY <1>1, <1>2, <1>3, PlaneAssumption DEF PlaneInv, TypeOK
<1>6. call' \in [Calls -> CallRec']
  <2>1. 1 .. nextId - 1 \subseteq 1 .. nextId' - 1
    BY <1>1, <1>3, PlaneAssumption
  <2>2. CallRec \subseteq CallRec'
    BY <1>1, <2>1 DEF CallRec
  <2>3. call \in [Calls -> CallRec]
    BY DEF PlaneInv, TypeOK, CallRec
  <2> QED
    BY <1>1, <2>2, <2>3
<1>7. locked' \in BOOLEAN
  BY <1>1 DEF PlaneInv, TypeOK
<1>8. nextId' \in 1 .. MaxRules + 1
  BY <1>1, <1>3, PlaneAssumption
<1>9. TypeOK'
  BY <1>1, <1>5, <1>6, <1>7, <1>8 DEF PlaneInv, TypeOK, CallRec
<1>10. ValuesApprovedForRule'
  BY <1>1, <1>2 DEF PlaneInv, ValuesApprovedForRule
<1>11. PlainEndsRecorded'
  BY <1>1 DEF PlaneInv, PlainEndsRecorded
<1>12. ASSUME NEW c \in Calls PROVE CallOK(c)'
  BY <1>1 DEF PlaneInv, CallOK, GrantedTo, Permitted
<1> QED
  BY <1>4, <1>9, <1>10, <1>11, <1>12 DEF PlaneInv

-----------------------------------------------------------------------------
\* PlaneInv holds whatever the calls and the operator do in whatever order.
THEOREM PlaneInvariant == Spec => []PlaneInv
<1>1. PlaneInv /\ [Next]_vars => PlaneInv'
  <2> SUFFICES ASSUME PlaneInv, [Next]_vars PROVE PlaneInv'
    OBVIOUS
  <2>1. CASE \E c \in Calls : CallStep(c)
    <3> PICK c \in Calls : CallStep(c)
      BY <2>1
    <3>1. CASE Authenticate(c) \/ Route(c) \/ Approved(c)
      BY <3>1, AuthenticateRouteApprovedKeep
    <3>2. CASE Evaluate(c)
      BY <3>2, EvaluateKeeps
    <3>3. CASE Extend(c)
      BY <3>3, ExtendKeeps
    <3>4. CASE Rewrite(c)
      BY <3>4, RewriteKeeps
    <3>5. CASE \/ Refused(c) \/ DecideFails(c) \/ NotApproved(c) \/ Canceled(c) \/ Answer(c) \/ Limited(c)
               \/ BadAuth(c) \/ Respond(c) \/ UpstreamError(c) \/ UpgradeEnds(c)
      BY <3>5, EndsKeep
    <3> QED
      BY <3>1, <3>2, <3>3, <3>4, <3>5 DEF CallStep
  <2>2. CASE \E c \in Calls : \E a \in Agents, s \in Shapes[kind] : Begin(c, a, s)
    BY <2>2, BeginKeeps
  <2>3. CASE VaultLock \/ VaultUnlock \/ SetAuth \/ UpdateTarget \/ UpstreamDelete
    BY <2>3, RowStepsKeep
  <2>4. CASE \E b \in RuleBodies[kind] : RuleCreate(b)
    BY <2>4, RuleCreateKeeps
  <2>5. CASE \E r \in rules : RuleDelete(r)
    BY <2>5, RulesGoKeeps DEF RuleDelete
  <2>6. CASE \E a \in Agents : AgentDelete(a)
    BY <2>6, RulesGoKeeps DEF AgentDelete
  <2>7. CASE UNCHANGED vars
    BY <2>7, RulesGoKeeps DEF vars
  <2> QED
    BY <2>1, <2>2, <2>3, <2>4, <2>5, <2>6, <2>7 DEF Next
<1> QED
  BY <1>1, PlaneInitially, PTL DEF Spec

\* ServeHTTP's switch: nothing is forwarded that no rule allowed and no
\* operator approved.
THEOREM ForwardedIsPermitted == Spec => []SentOnlyIfPermitted
<1>1. PlaneInv => SentOnlyIfPermitted
  BY DEF PlaneInv, CallOK, Permitted, SentOnlyIfPermitted
<1> QED
  BY <1>1, PlaneInvariant, PTL

\* Decide: nothing is forwarded for an agent to whom nobody ever granted it.
THEOREM ForwardedWasGranted == Spec => []DefaultDeny
<1>1. PlaneInv => DefaultDeny
  BY DEF PlaneInv, CallOK, GrantedTo, DefaultDeny
<1> QED
  BY <1>1, PlaneInvariant, PTL

\* Rewrite: a credential only goes to an address it was stored with.
THEOREM CredentialsStay == Spec => []CredentialStaysWithAddress
<1>1. PlaneInv => CredentialStaysWithAddress
  BY DEF PlaneInv, CallOK, CredentialStaysWithAddress
<1> QED
  BY <1>1, PlaneInvariant, PTL

\* AddAllowedValue: rule ids stay unique and a rule has no value that was
\* neither written nor approved for it.
THEOREM ValuesWereApproved == Spec => []RulesInv
<1>1. PlaneInv => RulesInv
  BY DEF PlaneInv, RulesInv
<1> QED
  BY <1>1, PlaneInvariant, PTL

\* recordOutcome, ModifyResponse, ErrorHandler: what ends by policy, or is
\* forwarded as a plain request and ends, is recorded exactly once.
THEOREM EndsAreRecorded == Spec => []PlainEndsRecorded
<1>1. PlaneInv => PlainEndsRecorded
  BY DEF PlaneInv
<1> QED
  BY <1>1, PlaneInvariant, PTL
=============================================================================
