----------------------------- MODULE DataPlane -----------------------------
(***************************************************************************)
(* internal/proxy/proxy.go: one ServeHTTP call per data-plane request.     *)
(*                                                                         *)
(* A call checks the vault, authenticates the agent, snapshots the         *)
(* upstream row (address and decrypted credential together), decides,      *)
(* maybe parks for the operator, maybe extends the matched rule, passes    *)
(* the rate limiter, and is forwarded; the audit record is written when it *)
(* ends.  Nothing is checked twice, so whatever the operator does between  *)
(* two of those steps (lock the vault, delete the rule, the agent or the   *)
(* upstream, rotate its credential) races with the call.                   *)
(***************************************************************************)
EXTENDS Naturals, FiniteSets

CONSTANTS
  Agents,     \* agents, each with its token
  Everyone,   \* the empty subject
  Shapes,     \* Shapes[kind], requests: [kind, op, value, upgrade]
  RuleBodies, \* RuleBodies[kind], rules the operator may add:
              \* [subject, kind, op, outcome, values]
  MaxRules,   \* bound on the rules added
  MaxVersion, \* bound on the changes of the upstream's row
  Calls,      \* data-plane calls
  Gone,       \* no upstream row
  NoRule      \* Decision.Rule = nil

Outcomes == {"allow", "deny", "require-approval"}

ASSUME PlaneAssumption ==
  /\ MaxRules \in Nat /\ MaxVersion \in Nat
  /\ NoRule \notin Nat /\ Gone \notin [base : Nat, cred : Nat]
  /\ \A k \in {"http", "k8s"} : \A b \in RuleBodies[k] : b.outcome \in Outcomes

VARIABLES
  kind,       \* the upstream's kind, "http" or "k8s"; it never changes
  locked,     \* Vault.Locked
  agents,     \* agents whose token is known
  up,         \* the upstream row: [base, cred], or Gone; a version stands for each
  rules,      \* the upstream's rule table; ids are never reused
  nextId,
  call,       \* call[c]
  sent,       \* history: sent[c], what was sent to the upstream, with the vault's state then
  pairs,      \* history: every row the upstream has had
  records     \* records[c]: audit entries written for the call

vars == <<kind, locked, agents, up, rules, nextId, call, sent, pairs, records>>

NoSend  == [done |-> FALSE, base |-> 0, cred |-> 0, locked |-> FALSE]
NewCall == [at |-> "new", agent |-> NoRule, shape |-> NoRule, up |-> Gone, outcome |-> "deny",
            rule |-> NoRule, fresh |-> FALSE, approved |-> FALSE, status |-> 0]

Init ==
  /\ kind    \in {"http", "k8s"}
  /\ locked  = FALSE
  /\ agents  = Agents
  /\ up      = [base |-> 1, cred |-> 1]
  /\ pairs   = {up}
  /\ rules   = {}
  /\ nextId  = 1
  /\ call    = [c \in Calls |-> NewCall]
  /\ sent    = [c \in Calls |-> NoSend]
  /\ records = [c \in Calls |-> 0]

-----------------------------------------------------------------------------
(* internal/policy, as far as this module needs it.                         *)

\* The rules that speak about an agent: its own and everyone's.
ForAgent(a) == {r \in rules : r.subject \in {a, Everyone}}

\* (slip) The rules of all agents are one tier.
FirstTierAll(a, s) == {r \in rules : r.kind = s.kind /\ r.op = s.op}

\* The rules of the first tier that has a match: the agent's own, else everyone's.
FirstTier(a, s) ==
  LET hit(subject) == {r \in rules : r.subject = subject /\ r.kind = s.kind /\ r.op = s.op}
  IN  IF hit(a) # {} THEN hit(a) ELSE hit(Everyone)

\* The request carries a text value the matched rule does not know yet.
NewValue(r, s) == r.outcome # "deny" /\ s.kind = "http" /\ s.value \notin r.values

\* The outcome of a matched rule: a new value needs approval.
RuleOutcome(r, s) == IF NewValue(r, s) THEN "require-approval" ELSE r.outcome

\* Decide: deny over require-approval over allow; no rule, deny.
Decide(a, s) ==
  LET tier == FirstTier(a, s)
      with(o) == {r \in tier : RuleOutcome(r, s) = o}
      pick == IF with("deny") # {} THEN with("deny")
              ELSE IF with("require-approval") # {} THEN with("require-approval") ELSE tier
  IN  IF tier = {} THEN {[outcome |-> "deny", rule |-> NoRule, fresh |-> FALSE]}
      ELSE {[outcome |-> RuleOutcome(r, s), rule |-> r.id, fresh |-> NewValue(r, s)] : r \in pick}

\* agentHasAnyGrant.
agentHasAnyGrant(a) ==
  /\ \E r \in ForAgent(a) : r.outcome # "deny"
  /\ ~ \E r \in rules : r.subject = a /\ r.outcome = "deny"

\* What ServeHTTP decides; discovery needs no rule of its own.
Decision(a, s) ==
  IF s.kind = "discovery"
  THEN {[outcome |-> IF agentHasAnyGrant(a) THEN "allow" ELSE "deny",
         rule |-> NoRule, fresh |-> FALSE]}
  ELSE Decide(a, s)

\* A browser's read query of which the profile leaves nothing (CiteckProfile):
\* the decision is allow, with a response of its own and no rule.
Emptied(s, d) == s.kind = "records" /\ d.outcome = "deny"

-----------------------------------------------------------------------------
(* ServeHTTP.                                                               *)

\* The call ends with a status; an audited end writes one record.
Finish(c, status, audited) ==
  /\ call' = [call EXCEPT ![c].at = "done", ![c].status = status]
  /\ records' = [records EXCEPT ![c] = @ + (IF audited THEN 1 ELSE 0)]

\* The vault check.
Begin(c, a, s) ==
  /\ call[c].at = "new"
  /\ call' = [call EXCEPT ![c] =
        IF locked
        THEN [NewCall EXCEPT !.at = "done", !.agent = a, !.shape = s, !.status = 503]
        ELSE [NewCall EXCEPT !.at = "token", !.agent = a, !.shape = s]]
  /\ UNCHANGED <<kind, locked, agents, up, rules, nextId, sent, records, pairs>>

\* Authenticate.
Authenticate(c) ==
  /\ call[c].at = "token" /\ call[c].agent \in agents
  /\ call' = [call EXCEPT ![c].at = "route"]
  /\ UNCHANGED <<kind, locked, agents, up, rules, nextId, sent, records, pairs>>

\* No token, an unknown one, or a cookie that comes from another site.
Refused(c) ==
  /\ call[c].at = "token"
  /\ \E status \in {401, 403} : Finish(c, status, FALSE)
  /\ UNCHANGED <<kind, locked, agents, up, rules, nextId, sent, pairs>>

\* Upstreams.GetByName: the row, its credential decrypted with the vault's key.
Route(c) ==
  /\ call[c].at = "route"
  /\ \/ /\ up # Gone /\ ~ locked
        /\ call' = [call EXCEPT ![c].at = "decide", ![c].up = up]
        /\ UNCHANGED records
     \/ (up = Gone \/ locked) /\ Finish(c, 404, FALSE)
  /\ UNCHANGED <<kind, locked, agents, up, rules, nextId, sent, pairs>>

\* The decision, and its switch.
Evaluate(c) ==
  /\ call[c].at = "decide"
  /\ \E d \in Decision(call[c].agent, call[c].shape) :
        LET decided == [call EXCEPT ![c].outcome = d.outcome, ![c].rule = d.rule,
                                    ![c].fresh = d.fresh] IN
        \/ /\ Emptied(call[c].shape, d)
           /\ call' = [call EXCEPT ![c].at = "answer", ![c].outcome = "allow"]
           /\ UNCHANGED records
        \/ /\ d.outcome = "deny" /\ ~ Emptied(call[c].shape, d)
           /\ call' = [decided EXCEPT ![c].at = "done", ![c].status = 403]
           /\ records' = [records EXCEPT ![c] = @ + 1]
        \/ /\ d.outcome = "require-approval"
           /\ call' = [decided EXCEPT ![c].at = "parked"]
           /\ UNCHANGED records
        \/ /\ d.outcome = "allow"
           /\ call' = [decided EXCEPT ![c].at = "limit"]
           /\ UNCHANGED records
  /\ UNCHANGED <<kind, locked, agents, up, rules, nextId, sent, pairs>>

\* The request body cannot be read, or the rules cannot: not audited.
DecideFails(c) ==
  /\ call[c].at = "decide"
  /\ Finish(c, 500, FALSE)
  /\ UNCHANGED <<kind, locked, agents, up, rules, nextId, sent, pairs>>

\* Submit returns an approval.
Approved(c) ==
  /\ call[c].at = "parked"
  /\ call' = [call EXCEPT ![c].at = IF call[c].fresh THEN "extend" ELSE "limit",
                          ![c].approved = TRUE]
  /\ UNCHANGED <<kind, locked, agents, up, rules, nextId, sent, records, pairs>>

\* (slip) A timeout falls through the switch.
NotApprovedFallsThrough(c) ==
  /\ call[c].at = "parked"
  /\ call' = [call EXCEPT ![c].at = "limit"]
  /\ UNCHANGED <<kind, locked, agents, up, rules, nextId, sent, records, pairs>>

\* Submit returns a deny, or nothing before its timer.
NotApproved(c) ==
  /\ call[c].at = "parked"
  /\ Finish(c, 403, TRUE)
  /\ UNCHANGED <<kind, locked, agents, up, rules, nextId, sent, pairs>>

\* The agent hangs up while it waits.
Canceled(c) ==
  /\ call[c].at = "parked"
  /\ Finish(c, 504, FALSE)
  /\ UNCHANGED <<kind, locked, agents, up, rules, nextId, sent, pairs>>

\* (slip) The new value goes to every rule of the operation.
ExtendAll(c) ==
  /\ call[c].at = "extend"
  /\ rules' = {IF r.kind = "http" THEN [r EXCEPT !.values = @ \cup {call[c].shape.value}] ELSE r : r \in rules}
  /\ call' = [call EXCEPT ![c].at = "limit"]
  /\ UNCHANGED <<kind, locked, agents, up, nextId, sent, records, pairs>>

\* AddAllowedValue on the matched rule; when that rule is gone the error is
\* logged and the call goes on.
Extend(c) ==
  /\ call[c].at = "extend"
  /\ rules' = {IF r.id = call[c].rule THEN [r EXCEPT !.values = @ \cup {call[c].shape.value}] ELSE r :
                 r \in rules}
  /\ call' = [call EXCEPT ![c].at = "limit"]
  /\ UNCHANGED <<kind, locked, agents, up, nextId, sent, records, pairs>>

\* (slip) The synthetic response is written, and the call goes on.
AnswerFallsThrough(c) ==
  /\ call[c].at = "answer"
  /\ call' = [call EXCEPT ![c].at = "limit"]
  /\ records' = [records EXCEPT ![c] = @ + 1]
  /\ UNCHANGED <<kind, locked, agents, up, rules, nextId, sent, pairs>>

\* dec.Response: the call is answered here and the upstream never sees it.
Answer(c) ==
  /\ call[c].at = "answer"
  /\ Finish(c, 200, TRUE)
  /\ UNCHANGED <<kind, locked, agents, up, rules, nextId, sent, pairs>>

\* Limiter.Allow says no (RateLimiter); it is only asked when a rule matched.
Limited(c) ==
  /\ call[c].at = "limit" /\ call[c].rule # NoRule
  /\ Finish(c, 429, TRUE)
  /\ UNCHANGED <<kind, locked, agents, up, rules, nextId, sent, pairs>>

\* Authenticator or Transport cannot be built from the row: not audited.
BadAuth(c) ==
  /\ call[c].at = "limit"
  /\ Finish(c, 500, FALSE)
  /\ UNCHANGED <<kind, locked, agents, up, rules, nextId, sent, pairs>>

\* (slip) The row is read again for the credential.
RewriteRereads(c) ==
  /\ call[c].at = "limit"
  /\ call' = [call EXCEPT ![c].at = "forwarded"]
  /\ sent' = [sent EXCEPT ![c] = [done |-> TRUE, base |-> call[c].up.base,
                                  cred |-> IF up = Gone THEN 0 ELSE up.cred, locked |-> locked]]
  /\ UNCHANGED <<kind, locked, agents, up, rules, nextId, records, pairs>>

\* Rewrite: base URL and credential both from the snapshot; the agent's token
\* is dropped.
Rewrite(c) ==
  /\ call[c].at = "limit"
  /\ call' = [call EXCEPT ![c].at = "forwarded"]
  /\ sent' = [sent EXCEPT ![c] = [done |-> TRUE, base |-> call[c].up.base,
                                  cred |-> call[c].up.cred, locked |-> locked]]
  /\ UNCHANGED <<kind, locked, agents, up, rules, nextId, records, pairs>>

\* (slip) The response of a plain request is not captured.
RespondUnrecorded(c) ==
  /\ call[c].at = "forwarded" /\ ~ call[c].shape.upgrade
  /\ Finish(c, 200, FALSE)
  /\ UNCHANGED <<kind, locked, agents, up, rules, nextId, sent, pairs>>

\* The upstream answers a plain request; its body is closed, which records it.
Respond(c) ==
  /\ call[c].at = "forwarded" /\ ~ call[c].shape.upgrade
  /\ Finish(c, 200, TRUE)
  /\ UNCHANGED <<kind, locked, agents, up, rules, nextId, sent, pairs>>

\* The upstream cannot be reached: ErrorHandler.
UpstreamError(c) ==
  /\ call[c].at = "forwarded"
  /\ Finish(c, 502, TRUE)
  /\ UNCHANGED <<kind, locked, agents, up, rules, nextId, sent, pairs>>

\* An upgrade succeeds and its connection is closed (countingConn), or the
\* upstream answers it without switching protocols, which records nothing.
UpgradeEnds(c) ==
  /\ call[c].at = "forwarded" /\ call[c].shape.upgrade
  /\ Finish(c, 101, TRUE) \/ Finish(c, 200, FALSE)
  /\ UNCHANGED <<kind, locked, agents, up, rules, nextId, sent, pairs>>

-----------------------------------------------------------------------------
(* Everything else that happens meanwhile.                                  *)

VaultLock ==
  /\ ~ locked /\ locked' = TRUE
  /\ UNCHANGED <<kind, agents, up, rules, nextId, call, sent, records, pairs>>

VaultUnlock ==
  /\ locked /\ locked' = FALSE
  /\ UNCHANGED <<kind, agents, up, rules, nextId, call, sent, records, pairs>>

\* hRuleCreate.
RuleCreate(b) ==
  /\ nextId <= MaxRules
  /\ rules' = rules \cup {[id |-> nextId, subject |-> b.subject, kind |-> b.kind, op |-> b.op,
                           outcome |-> b.outcome, values |-> b.values]}
  /\ nextId' = nextId + 1
  /\ UNCHANGED <<kind, locked, agents, up, call, sent, records, pairs>>

RuleDelete(r) ==
  /\ rules' = rules \ {r}
  /\ UNCHANGED <<kind, locked, agents, up, nextId, call, sent, records, pairs>>

\* hAgentDelete, both of its statements.
AgentDelete(a) ==
  /\ a \in agents
  /\ agents' = agents \ {a}
  /\ rules' = {r \in rules : r.subject # a}
  /\ UNCHANGED <<kind, locked, up, nextId, call, sent, records, pairs>>

\* hUpstreamSetAuth: a new credential for the same address.
SetAuth ==
  /\ up # Gone /\ ~ locked /\ up.cred < MaxVersion
  /\ up' = [up EXCEPT !.cred = @ + 1]
  /\ pairs' = pairs \cup {up'}
  /\ UNCHANGED <<kind, locked, agents, rules, nextId, call, sent, records>>

\* UpdateTarget: a new address and credential (cluster re-import).
UpdateTarget ==
  /\ up # Gone /\ ~ locked /\ up.cred < MaxVersion
  /\ up' = [base |-> up.base + 1, cred |-> up.cred + 1]
  /\ pairs' = pairs \cup {up'}
  /\ UNCHANGED <<kind, locked, agents, rules, nextId, call, sent, records>>

\* hUpstreamDelete: the rules stay.
UpstreamDelete ==
  /\ up # Gone /\ up' = Gone
  /\ UNCHANGED <<kind, locked, agents, rules, nextId, call, sent, records, pairs>>

CallStep(c) ==
  \/ Authenticate(c) \/ Refused(c) \/ Route(c) \/ Evaluate(c) \/ DecideFails(c)
  \/ Approved(c) \/ NotApproved(c) \/ Canceled(c) \/ Extend(c) \/ Answer(c)
  \/ Limited(c) \/ BadAuth(c) \/ Rewrite(c)
  \/ Respond(c) \/ UpstreamError(c) \/ UpgradeEnds(c)

Next ==
  \/ \E c \in Calls : CallStep(c) \/ \E a \in Agents, s \in Shapes[kind] : Begin(c, a, s)
  \/ VaultLock \/ VaultUnlock \/ SetAuth \/ UpdateTarget \/ UpstreamDelete
  \/ \E b \in RuleBodies[kind] : RuleCreate(b)
  \/ \E r \in rules : RuleDelete(r)
  \/ \E a \in Agents : AgentDelete(a)

Spec == Init /\ [][Next]_vars

-----------------------------------------------------------------------------
CallStates == {"new", "token", "route", "decide", "parked", "extend", "answer", "limit", "forwarded", "done"}

\* Every variable has its type; a rule id names one rule.
TypeOK ==
  /\ kind \in {"http", "k8s"} /\ locked \in BOOLEAN /\ agents \subseteq Agents
  /\ pairs \subseteq [base : Nat, cred : Nat] /\ up \in pairs \cup {Gone}
  /\ nextId \in 1 .. MaxRules + 1
  /\ \A r \in rules : /\ r.id \in 1 .. nextId - 1 /\ r.outcome \in Outcomes
                      /\ \A x \in rules : x.id = r.id => x = r
  /\ call \in [Calls -> [at : CallStates, agent : Agents \cup {NoRule}, shape : Shapes[kind] \cup {NoRule},
                         up : pairs \cup {Gone}, outcome : Outcomes, rule : (1 .. nextId - 1) \cup {NoRule},
                         fresh : BOOLEAN, approved : BOOLEAN, status : Nat]]
  /\ records \in [Calls -> 0 .. 1]
  /\ sent \in [Calls -> [done : BOOLEAN, base : Nat, cred : Nat, locked : BOOLEAN]]

\* Nothing reaches the upstream that was not allowed by a rule or approved by
\* the operator: a deny, a timeout and a hang-up all end the call before it is
\* forwarded (ServeHTTP's switch).
SentOnlyIfPermitted ==
  \A c \in Calls : sent[c].done => call[c].outcome = "allow" \/ call[c].approved

\* Default deny, across every order of rule edits and requests: a request is
\* only forwarded for an agent to whom some rule ever granted that operation,
\* and discovery only for one that was ever granted anything.
DefaultDeny ==
  \A c \in Calls : sent[c].done =>
     \E b \in RuleBodies[kind] :
        /\ b.subject \in {call[c].agent, Everyone} /\ b.outcome # "deny"
        /\ call[c].shape.kind = "discovery"
             \/ (b.kind = call[c].shape.kind /\ b.op = call[c].shape.op)

\* A credential only ever travels to an address it was stored with, even when
\* the row is rotated, re-targeted or deleted while the call waits for the
\* operator (one snapshot in ServeHTTP, used by Rewrite).
CredentialStaysWithAddress ==
  \A c \in Calls : sent[c].done => [base |-> sent[c].base, cred |-> sent[c].cred] \in pairs

\* A rule only admits the values it was written with and those an operator
\* approved for that very rule: an approval under one rule never widens
\* another (AddAllowedValue by Decision.Rule).
ValuesApprovedForRule ==
  \A r \in rules : \A v \in r.values :
     \/ \E b \in RuleBodies[kind] : b.kind = r.kind /\ b.op = r.op /\ b.subject = r.subject
                              /\ b.outcome = r.outcome /\ v \in b.values
     \/ \E c \in Calls : call[c].approved /\ call[c].rule = r.id /\ call[c].shape.value = v

\* What ended by policy, was answered in place of the upstream, or was forwarded
\* as a plain request and ended, is in the audit log exactly once (recordOutcome, ModifyResponse, ErrorHandler).
PlainEndsRecorded ==
  \A c \in Calls :
     (/\ call[c].at = "done" /\ call[c].up # Gone
      /\ call[c].status \in {403, 429} \/ (~ call[c].shape.upgrade /\ (sent[c].done \/ call[c].status = 200)))
        => records[c] = 1

\* Rule ids stay unique while rules come and go, and so a value approved for a
\* rule reaches that rule alone.
RulesInv == TypeOK /\ ValuesApprovedForRule
=============================================================================
