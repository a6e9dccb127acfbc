---------------------------- MODULE AccessGrants ----------------------------
(***************************************************************************)
(* The life of a grant: an agent asks (internal/mcpsvc), a card is parked  *)
(* (internal/approval), the operator resolves it (hApprovalResolve and the *)
(* approve functions of internal/daemon), rules appear (internal/policy),  *)
(* the request's history row follows (internal/access), and the operator   *)
(* renews, revokes or deletes the agent.                                   *)
(*                                                                         *)
(* Each SQL statement and each locked section of the queue is one step:    *)
(* the handlers hold no lock across them, so every handler interleaves     *)
(* with every other, with the card's timeout and with a daemon restart     *)
(* (rules and rows are in SQLite, cards and handlers are not).             *)
(*                                                                         *)
(* The queue is used through its contract (ApprovalQueue): a card is in    *)
(* the queue from its registration until it is unparked by a verdict or by *)
(* its timer.                                                              *)
(***************************************************************************)
EXTENDS Naturals, Sequences, FiniteSets, FiniteSetsExt

CONSTANTS
  Agents,    \* agent ids
  Everyone,  \* the empty subject: every agent
  Asks,      \* what may be asked: [kind, upstream, name, items, body, value]
  Narrowings,\* item sets a preset's bindings may be narrowed to by the operator
  Reqs,      \* request calls of the agents
  Handlers,  \* operator resolve calls
  Revokers,  \* operator revoke and agent-delete calls
  MaxUpsets, \* bound on what else happens: revokes, deletions, renewals, row
             \* edits, SQL errors and restarts
  Expiries,  \* absolute expiry times an operator may choose
  Never,     \* no expiry
  TrustAny,  \* the value policy "any"
  MaxTime,   \* bound on the clock
  Nil

Upstreams == {ask.upstream : ask \in Asks}
Items     == UNION ({ask.items : ask \in Asks} \cup Narrowings)

\* The placeholders are no values; calls are finitely many; an operation asks for
\* itself, and RequestK8sAccess refuses a request that names no tuple.
ASSUME GrantAssumption ==
  /\ Everyone \notin Agents /\ Never \notin Nat
  /\ Expiries \subseteq Nat \cup {Never} /\ MaxTime \in Nat /\ MaxUpsets \in Nat
  /\ IsFiniteSet(Handlers) /\ IsFiniteSet(Revokers)
  /\ Nil \notin [id : Handlers \X Items, expires : Expiries \cup {Never}]
  /\ \A ask \in Asks : /\ ask.body \in BOOLEAN
                       /\ ask.kind = "operation" => ask.items = {ask.name}
                       /\ ask.kind = "k8s-access" => ask.items # {}

VARIABLES
  agents,    \* registered agents
  host,      \* host[u]: "unknown", "lazy" (made by a host request) or "registered"
  cred,      \* upstreams that carry a credential
  rules,     \* the rule table; a rule's id is its <<by, item>>
  rows,      \* access_requests in created_at order
  req,       \* req[q]: a Request* call, its goroutine and its card
  handler,   \* handler[h]: an hApprovalResolve call
  revoker,   \* revoker[v]: a revoke or delete call
  now,       \* the clock
  upsets,    \* how many upsets there were
  withdrawn  \* history: the <<kind, upstream, item>> of rules that were removed

vars == <<agents, host, cred, rules, rows, req, handler, revoker, now, upsets, withdrawn>>

IdleReq     == [at |-> "idle", agent |-> Nil, ask |-> Nil, items |-> {}]
IdleHandler == [at |-> "idle", card |-> Nil, approve |-> FALSE, attach |-> FALSE,
                trust |-> FALSE, final |-> {}, expires |-> Never, todo |-> {}, target |-> Nil]
IdleRevoker == [at |-> "idle", agent |-> Nil, upstream |-> Nil, row |-> 0]

Init ==
  /\ agents  = Agents
  /\ host    \in [Upstreams -> {"unknown", "registered"}]
  /\ cred    = {}
  /\ rules   = {}
  /\ rows    = <<>>
  /\ req     = [q \in Reqs |-> IdleReq]
  /\ handler = [h \in Handlers |-> IdleHandler]
  /\ revoker = [v \in Revokers |-> IdleRevoker]
  /\ now     = 0
  /\ upsets  = 0
  /\ withdrawn = {}

\* The queue's map: a card is in it from its registration until Submit returns.
Queue == {q \in Reqs : req[q].at \in {"parked", "decided"}}

\* expiryFromTTL: an expiry is computed from the clock, so it is in the future.
Choosable == {e \in Expiries : e = Never \/ e > now}

Id(r) == <<r.by, r.item>>

\* One more disturbance, within the bound.
Upset == upsets < MaxUpsets /\ upsets' = upsets + 1

\* A DELETE on the rule table.
Withdraw(gone) ==
  /\ rules' = rules \ gone
  /\ withdrawn' = withdrawn \cup {<<r.kind, r.upstream, r.item>> : r \in gone}

-----------------------------------------------------------------------------
(* internal/mcpsvc: asking.                                                 *)

\* policy.LiveRules: a rule is dropped once its expiry is before now.
Live(r) == r.expires = Never \/ ~ (r.expires < now)

\* statusFor is "open": a live rule of this module's only outcome, allow, for
\* the agent or for any agent.
Open(a, u) == \E r \in rules : r.subject \in {a, Everyone} /\ r.upstream = u /\ Live(r)

\* k8sRuleCovers, over the live rules: exactly this tuple.
k8sRuleCovers(a, u, i) ==
  \E r \in rules : /\ r.kind = "k8s-access" /\ r.subject \in {a, Everyone}
                   /\ r.upstream = u /\ r.item = i /\ Live(r)

\* What the card will ask for: k8s drops the tuples that are covered.
Wanted(a, ask) ==
  IF ask.kind = "k8s-access"
  THEN {i \in ask.items : ~ k8sRuleCovers(a, ask.upstream, i)}
  ELSE ask.items

\* The early returns that leave nothing for the operator to decide.
Settled(a, ask) ==
  \/ ask.kind = "k8s-access" /\ Wanted(a, ask) = {}
  \/ ask.kind = "host-access" /\ (ask.upstream \in cred \/ Open(a, ask.upstream))

\* pendingExists with the match of each kind: same tuples, same preset or same
\* path, or just a host card.
pendingExists(a, ask) ==
  \E q \in Queue :
     /\ req[q].agent = a
     /\ req[q].ask.kind = ask.kind /\ req[q].ask.upstream = ask.upstream
     /\ CASE ask.kind = "k8s-access"  -> req[q].items = Wanted(a, ask)
          [] ask.kind = "host-access" -> TRUE
          [] OTHER                    -> req[q].ask.name = ask.name

\* GetOrCreateByHost: a host request makes the upstream it does not find.
Registered(ask) ==
  IF ask.kind = "host-access" /\ host[ask.upstream] = "unknown"
  THEN [host EXCEPT ![ask.upstream] = "lazy"] ELSE host

\* RequestHostAccess, RequestAccess, RequestK8sAccess and RequestPreset up to
\* the dedupe check; an early return ends the call.
RequestCheck(q, a, ask) ==
  /\ req[q].at = "idle" /\ a \in agents
  /\ host' = Registered(ask)
  /\ req' = [req EXCEPT ![q] =
        [at |-> IF host'[ask.upstream] = "unknown" THEN "noSuchHost"
                ELSE IF Settled(a, ask) \/ pendingExists(a, ask) THEN "answered" ELSE "checked",
         agent |-> a, ask |-> ask, items |-> Wanted(a, ask)]]
  /\ UNCHANGED <<agents, cred, rules, rows, handler, revoker, now, upsets, withdrawn>>

\* access.Create, then enqueue: the call returns, its goroutine is on its way.
RequestLog(q) ==
  /\ req[q].at = "checked"
  /\ rows' = Append(rows, [card |-> q, agent |-> req[q].agent,
                           upstream |-> req[q].ask.upstream,
                           status |-> "pending", edited |-> FALSE, created |-> now])
  /\ req' = [req EXCEPT ![q].at = "spawned"]
  /\ UNCHANGED <<agents, host, cred, rules, handler, revoker, now, upsets, withdrawn>>

\* The goroutine's Submit registers the card.
Park(q) ==
  /\ req[q].at = "spawned"
  /\ req' = [req EXCEPT ![q].at = "parked"]
  /\ UNCHANGED <<agents, host, cred, rules, rows, handler, revoker, now, upsets, withdrawn>>

\* Submit returns, on a verdict or on its timer; the goroutine discards the
\* result.  The row is not touched.
Leave(q) ==
  /\ q \in Queue
  /\ req' = [req EXCEPT ![q].at = "left"]
  /\ UNCHANGED <<agents, host, cred, rules, rows, handler, revoker, now, upsets, withdrawn>>

-----------------------------------------------------------------------------
(* internal/daemon: resolving a card.                                       *)

\* hApprovalResolve: approvals.Get.  A card that is gone skips the side effects
\* and meets ErrNotFound in Resolve.  The operator may narrow a preset.
ResolveGet(h, q, approve, final, attach, trust, e) ==
  /\ handler[h].at = "idle"
  /\ req[q].at \in {"parked", "decided", "left"}
  /\ IF req[q].ask.kind = "preset" THEN final \in Narrowings \cup {req[q].items}
                                   ELSE final = req[q].items
  /\ attach => req[q].ask.kind = "host-access"
  /\ trust => req[q].ask.kind = "operation"
  /\ ~ approve => final = req[q].items /\ ~ attach /\ ~ trust /\ e = Never  \* ignored on a deny
  /\ handler' = [handler EXCEPT ![h] =
        IF q \notin Queue THEN [IdleHandler EXCEPT !.at = "gone", !.card = q]
        ELSE [IdleHandler EXCEPT
                !.at = IF approve THEN "apply" ELSE "mark",
                !.card = q, !.approve = approve, !.final = final,
                !.attach = attach, !.trust = trust, !.expires = e]]
  /\ UNCHANGED <<agents, host, cred, rules, rows, req, revoker, now, upsets, withdrawn>>

Card(h) == req[handler[h].card]
Ask(h)  == Card(h).ask

\* (slip) Rules of any agent count.
existsForAnyone(h, i) ==
  \E r \in rules : /\ r.kind = Ask(h).kind /\ r.upstream = Ask(h).upstream /\ r.item = i

\* exists / isDup: the agent already holds this rule on the upstream, expired
\* or not.
exists(h, i) ==
  \E r \in rules : /\ r.kind = Ask(h).kind /\ r.subject = Card(h).agent
                   /\ r.upstream = Ask(h).upstream /\ r.item = i

\* findRuleByTemplateKey: the stored template is parsed without its body, so
\* its key equals that of an ask without a body and of no ask with one.
SameKey(h) ==
  {r \in rules : /\ r.kind = "operation" /\ r.upstream = Ask(h).upstream
                 /\ r.item = Ask(h).name /\ ~ Ask(h).body}

\* (slip) The operator's narrowing is ignored.
TodoAsRequested(h) == {i \in Card(h).items : ~ exists(h, i)}

\* The rules approveK8sAccess and approvePreset find missing.
Todo(h) == {i \in handler[h].final : ~ exists(h, i)}

\* applyApprovalSideEffects, host card: the credential, if one was entered.
ApplyHost(h) ==
  /\ handler[h].at = "apply" /\ Ask(h).kind = "host-access"
  /\ cred' = IF handler[h].attach THEN cred \cup {Ask(h).upstream} ELSE cred
  /\ handler' = [handler EXCEPT ![h].at = "mark"]
  /\ UNCHANGED <<agents, host, rules, rows, req, revoker, now, upsets, withdrawn>>

\* approveK8sAccess, approvePreset: ForUpstream, and what is missing in it.
ApplyRead(h) ==
  /\ handler[h].at = "apply" /\ Ask(h).kind \in {"k8s-access", "preset"}
  /\ handler' = [handler EXCEPT ![h].at = "write", ![h].todo = Todo(h)]
  /\ UNCHANGED <<agents, host, cred, rules, rows, req, revoker, now, upsets, withdrawn>>

\* approveOperation: findRuleByTemplateKey.
ApplyFind(h) ==
  /\ handler[h].at = "apply" /\ Ask(h).kind = "operation"
  /\ \/ /\ SameKey(h) = {}
        /\ handler' = [handler EXCEPT ![h].at = "write", ![h].todo = handler[h].final]
     \/ \E r \in SameKey(h) :
           handler' = [handler EXCEPT ![h].at = "extend",
                                      ![h].target = [id |-> Id(r), expires |-> r.expires]]
  /\ UNCHANGED <<agents, host, cred, rules, rows, req, revoker, now, upsets, withdrawn>>

\* A grant is bound to the requesting agent, an operation rule to nobody.
Subject(h) == IF Ask(h).kind = "operation" THEN Everyone ELSE Card(h).agent

\* CreateMany (one transaction) or Create of what was missing.
ApplyWrite(h) ==
  /\ handler[h].at = "write"
  /\ rules' = rules \cup
        {[by |-> h, subject |-> Subject(h), upstream |-> Ask(h).upstream,
          kind |-> Ask(h).kind, item |-> i, body |-> Ask(h).body,
          values |-> IF handler[h].trust THEN {TrustAny} ELSE {Ask(h).value},
          expires |-> handler[h].expires] : i \in handler[h].todo}
  /\ handler' = [handler EXCEPT ![h].at = "mark"]
  /\ UNCHANGED <<agents, host, cred, rows, req, revoker, now, upsets, withdrawn>>

\* The rule set with the rule of that id, if there is one, given a new value set
\* or a new expiry.
WithValues(id, new) ==
  {IF Id(r) = id THEN [r EXCEPT !.values = (IF TrustAny \in new THEN {} ELSE @) \cup new] ELSE r
     : r \in rules}
WithExpiry(id, e) == {IF Id(r) = id THEN [r EXCEPT !.expires = e] ELSE r : r \in rules}

\* SetVariableAny or AddAllowedValue on the rule that was found; it may have
\* been deleted since, which fails the approval.
ApplyExtend(h) ==
  LET id == handler[h].target.id IN
  /\ handler[h].at = "extend"
  /\ IF \E r \in rules : Id(r) = id
     THEN /\ rules' = WithValues(id, {IF handler[h].trust THEN TrustAny ELSE Ask(h).value})
          /\ handler' = [handler EXCEPT ![h].at = "renew"]
     ELSE /\ handler' = [handler EXCEPT ![h].at = "failed"]
          /\ UNCHANGED rules
  /\ UNCHANGED <<agents, host, cred, rows, req, revoker, now, upsets, withdrawn>>

\* (slip) The new expiry always replaces the old one.
OutlivesAlways(e, old) == TRUE

\* !rule.ExpiresAt.IsZero() && (expiresAt.IsZero() || expiresAt.After(...))
Outlives(e, old) == old # Never /\ (e = Never \/ (e # Never /\ e > old))

\* approveOperation's Renew, decided on the expiry the rule had when found.
ApplyRenew(h) ==
  LET t == handler[h].target IN
  /\ handler[h].at = "renew"
  /\ rules' = IF Outlives(handler[h].expires, t.expires) 
              THEN WithExpiry(t.id, handler[h].expires) ELSE rules
  /\ handler' = [handler EXCEPT ![h].at = "mark"]
  /\ UNCHANGED <<agents, host, cred, rows, req, revoker, now, upsets, withdrawn>>

\* An SQL error in a side effect, maybe after the rule was extended: nothing is
\* marked and nobody is unparked.
ApplyFails(h) ==
  /\ Upset
  /\ handler[h].at \in {"apply", "write", "extend", "renew"}
  /\ handler' = [handler EXCEPT ![h].at = "failed"]
  /\ UNCHANGED <<agents, host, cred, rules, rows, req, revoker, now, withdrawn>>

\* The pending rows of an agent on an upstream.
PendingRows(a, u) ==
  {i \in DOMAIN rows : /\ rows[i].agent = a /\ rows[i].upstream = u
                       /\ rows[i].status = "pending"}

\* (slip) The UPDATE without its LIMIT 1.
LatestPendingAll(a, u) == PendingRows(a, u)

\* The row GrantLatest and DenyLatest pick, if there is one.
LatestPending(a, u) ==
  {i \in PendingRows(a, u) : \A j \in PendingRows(a, u) : j <= i}

\* GrantLatest with the slots the operator narrowed, or DenyLatest.
MarkRow(h) ==
  LET hit == LatestPending(Card(h).agent, Ask(h).upstream) IN
  /\ handler[h].at = "mark"
  /\ rows' = [i \in DOMAIN rows |->
        IF i \notin hit THEN rows[i]
        ELSE [rows[i] EXCEPT
                !.status = IF handler[h].approve THEN "granted" ELSE "denied",
                !.edited = handler[h].approve /\ handler[h].final # Card(h).items]]
  /\ handler' = [handler EXCEPT ![h].at = "deliver"]
  /\ UNCHANGED <<agents, host, cred, rules, req, revoker, now, upsets, withdrawn>>

\* approvals.Resolve: 200, or 404 when the card has left meanwhile.
Deliver(h) ==
  LET q == handler[h].card IN
  /\ handler[h].at = "deliver"
  /\ handler' = [handler EXCEPT ![h].at = IF q \in Queue THEN "ok" ELSE "gone"]
  /\ req' = [req EXCEPT ![q].at = IF q \in Queue THEN "decided" ELSE @]
  /\ UNCHANGED <<agents, host, cred, rules, rows, revoker, now, upsets, withdrawn>>

-----------------------------------------------------------------------------
(* internal/daemon: taking access away, and the operator's edits.           *)

\* hGrantRevoke: DeleteBySubjectUpstream.
GrantRevoke(v, a, u) ==
  /\ revoker[v].at = "idle"
  /\ Upset /\ Withdraw({r \in rules : r.subject = a /\ r.upstream = u})
  /\ revoker' = [revoker EXCEPT ![v] = [at |-> "grant", agent |-> a, upstream |-> u, row |-> 0]]
  /\ UNCHANGED <<agents, host, cred, rows, req, handler, now>>

\* hGrantRevoke: MarkRevokedBySubjectUpstream.
GrantRevokeMark(v) ==
  /\ revoker[v].at = "grant"
  /\ rows' = [i \in DOMAIN rows |->
        IF /\ rows[i].agent = revoker[v].agent /\ rows[i].upstream = revoker[v].upstream
           /\ rows[i].status = "granted"
        THEN [rows[i] EXCEPT !.status = "revoked"] ELSE rows[i]]
  /\ revoker' = [revoker EXCEPT ![v].at = "revoked"]
  /\ UNCHANGED <<agents, host, cred, rules, req, handler, now, upsets, withdrawn>>

\* hAccessRequestRevoke: the row's agent and upstream lose their rules.
RequestRevoke(v, i) ==
  /\ revoker[v].at = "idle"
  /\ Upset
  /\ Withdraw({r \in rules : r.subject = rows[i].agent /\ r.upstream = rows[i].upstream})
  /\ revoker' = [revoker EXCEPT ![v] =
        [at |-> "row", agent |-> rows[i].agent, upstream |-> rows[i].upstream, row |-> i]]
  /\ UNCHANGED <<agents, host, cred, rows, req, handler, now>>

\* hAccessRequestRevoke: MarkRevoked.
RequestRevokeMark(v) ==
  /\ revoker[v].at = "row"
  /\ rows' = [rows EXCEPT ![revoker[v].row].status = "revoked"]
  /\ revoker' = [revoker EXCEPT ![v].at = "revoked"]
  /\ UNCHANGED <<agents, host, cred, rules, req, handler, now, upsets, withdrawn>>

\* hAgentDelete: DeleteBySubject.
AgentDelete(v, a) ==
  /\ revoker[v].at = "idle" /\ a \in agents
  /\ Upset /\ Withdraw({r \in rules : r.subject = a})
  /\ revoker' = [revoker EXCEPT ![v] = [at |-> "agent", agent |-> a, upstream |-> Nil, row |-> 0]]
  /\ UNCHANGED <<agents, host, cred, rows, req, handler, now>>

\* hAgentDelete: the agent itself.
AgentDeleteRow(v) ==
  /\ revoker[v].at = "agent"
  /\ agents' = agents \ {revoker[v].agent}
  /\ revoker' = [revoker EXCEPT ![v].at = "deleted"]
  /\ UNCHANGED <<host, cred, rules, rows, req, handler, now, upsets, withdrawn>>

\* hRuleRenew.
RuleRenew(r, e) ==
  /\ Upset
  /\ rules' = (rules \ {r}) \cup {[r EXCEPT !.expires = e]}
  /\ UNCHANGED <<agents, host, cred, rows, req, handler, revoker, now, withdrawn>>

\* hRuleDelete.
RuleDelete(r) ==
  /\ Upset /\ Withdraw({r})
  /\ UNCHANGED <<agents, host, cred, rows, req, handler, revoker, now>>

\* hAccessRequestResolve: any row, whatever its status was.
AccessRequestResolve(i, status) ==
  /\ Upset
  /\ rows' = [rows EXCEPT ![i].status = status]
  /\ UNCHANGED <<agents, host, cred, rules, req, handler, revoker, now, withdrawn>>

-----------------------------------------------------------------------------
Tick ==
  /\ now < MaxTime
  /\ now' = now + 1
  /\ UNCHANGED <<agents, host, cred, rules, rows, req, handler, revoker, upsets, withdrawn>>

\* The daemon stops and starts again: every call and every card is lost,
\* every table is kept.  Cut calls never run again under their name.
Restart ==
  /\ Upset
  /\ req' = [q \in Reqs |-> IF req[q].at = "idle" THEN req[q] ELSE [req[q] EXCEPT !.at = "lost"]]
  /\ handler' = [h \in Handlers |->
        IF handler[h].at \in {"idle", "ok", "gone", "failed"} THEN handler[h]
        ELSE [handler[h] EXCEPT !.at = "cut"]]
  /\ revoker' = [v \in Revokers |->
        IF revoker[v].at \in {"idle", "revoked", "deleted"} THEN revoker[v]
        ELSE [revoker[v] EXCEPT !.at = "cut"]]
  /\ UNCHANGED <<agents, host, cred, rules, rows, now, withdrawn>>

RequestStep(q) == RequestLog(q) \/ Park(q) \/ Leave(q)

HandlerStep(h) ==
  \/ ApplyHost(h) \/ ApplyRead(h) \/ ApplyFind(h) \/ ApplyWrite(h)
  \/ ApplyExtend(h) \/ ApplyRenew(h) \/ ApplyFails(h) \/ MarkRow(h) \/ Deliver(h)

RevokerStep(v) == GrantRevokeMark(v) \/ RequestRevokeMark(v) \/ AgentDeleteRow(v)

Next ==
  \/ \E q \in Reqs : RequestStep(q) \/ \E a \in Agents, ask \in Asks : RequestCheck(q, a, ask)
  \/ \E h \in Handlers :
        \/ HandlerStep(h)
        \/ \E q \in Reqs, e \in Choosable, approve, attach, trust \in BOOLEAN :
              \E final \in Narrowings \cup {req[q].items} :
                 ResolveGet(h, q, approve, final, attach, trust, e)
  \/ \E v \in Revokers :
        \/ RevokerStep(v)
        \/ \E a \in Agents : AgentDelete(v, a) \/ \E u \in Upstreams : GrantRevoke(v, a, u)
        \/ \E i \in DOMAIN rows : RequestRevoke(v, i)
  \/ \E r \in rules : RuleDelete(r) \/ \E e \in Choosable : RuleRenew(r, e)
  \/ \E i \in DOMAIN rows, s \in {"granted", "denied", "dismissed"} : AccessRequestResolve(i, s)
  \/ Tick
  \/ Restart

Spec == Init /\ [][Next]_vars

-----------------------------------------------------------------------------
Statuses == {"pending", "granted", "denied", "dismissed", "revoked"}

\* Every variable has its type and no two rules share an id.
TypeOK ==
  /\ agents \subseteq Agents /\ cred \subseteq Upstreams
  /\ host \in [Upstreams -> {"unknown", "lazy", "registered"}]
  /\ \A r \in rules : /\ r.by \in Handlers /\ r.subject \in Agents \cup {Everyone}
                      /\ r.upstream \in Upstreams /\ r.item \in Items
                      /\ r.expires \in Expiries \cup {Never}
                      /\ \A x \in rules : Id(x) = Id(r) => x = r
  /\ \A i \in DOMAIN rows : /\ rows[i].card \in Reqs /\ rows[i].agent \in Agents
                            /\ rows[i].status \in Statuses /\ rows[i].edited \in BOOLEAN
  /\ \A q \in Reqs : req[q].items \subseteq Items
  /\ \A h \in Handlers : handler[h].final \subseteq Items /\ handler[h].todo \subseteq Items
  /\ now \in 0 .. MaxTime

\* A rule is never more than an operator approved: it was made by an approving
\* call, for that card's upstream, out of the final (maybe narrowed) bindings,
\* and is bound to the agent that asked, whatever other agents asked or
\* operators decided meanwhile.  Only operation rules are for everyone
\* (approveK8sAccess, approvePreset, approveOperation).
GrantWithinApproval ==
  \A r \in rules : LET h == r.by IN
     /\ handler[h].approve
     /\ r.upstream = Ask(h).upstream /\ r.item \in handler[h].final
     /\ r.subject = IF r.kind = "operation" THEN Everyone ELSE Card(h).agent

\* An agent holds an item: a live rule of its own, or an operation rule that
\* admits its value.
Holds(a, ask, i) ==
  \E r \in rules :
     /\ r.kind = ask.kind /\ r.upstream = ask.upstream /\ r.item = i /\ Live(r)
     /\ \/ ask.kind # "operation" /\ r.subject = a
        \/ ask.kind = "operation" /\ r.body = ask.body /\ r.values \cap {TrustAny, ask.value} # {}

\* The rule findRuleByTemplateKey gave an approval to extend.
ExtendedBy(h, r) == handler[h].target # Nil /\ Id(r) = handler[h].target.id

\* Side effects come before the answer: once an approval has passed its side
\* effects, and for ever after, the agent holds everything the operator left
\* on the card, even when the rule was somebody else's work, when operators
\* race, or when the daemon restarts (hApprovalResolve: "run their side
\* effects before we unpark the waiter").  The only ways out: a rule for that
\* item was withdrawn, or one of the agent's is there and has run out (exists
\* skips an expired rule too), or the rule that was found and extended has a
\* body template, which the operation asked for has not (findRuleByTemplateKey
\* compares without it).
ApprovalTakesEffect ==
  \A h \in Handlers :
     (handler[h].approve /\ handler[h].at \in {"mark", "deliver", "ok"} /\ Ask(h).kind # "host-access")
        => \A i \in handler[h].final :
              \/ Holds(Card(h).agent, Ask(h), i)
              \/ <<Ask(h).kind, Ask(h).upstream, i>> \in withdrawn
              \/ \E r \in rules : /\ r.kind = Ask(h).kind /\ r.upstream = Ask(h).upstream
                                  /\ r.item = i /\ r.subject = Subject(h)
                                  /\ ~ Live(r) \/ (ExtendedBy(h, r) /\ r.body)

\* The decided rows of an agent on an upstream, and the calls that saw a card
\* of that agent there.
Decided(a, u)  == {i \in DOMAIN rows : /\ rows[i].agent = a /\ rows[i].upstream = u
                                       /\ rows[i].status # "pending"}
Deciders(a, u) == {h \in Handlers : /\ handler[h].at # "idle"
                                    /\ Card(h).agent = a /\ Ask(h).upstream = u}

\* One decision closes at most one request of the history: an agent that asked
\* twice never sees both answered by a single verdict (GrantLatest, DenyLatest).
\* An operator's revoke or edit of a row is an upset and closes one more.
OneRowPerDecision ==
  \A a \in Agents, u \in Upstreams :
     Cardinality(Decided(a, u)) <= Cardinality(Deciders(a, u)) + upsets

\* A call that was told "already granted" or "already submitted" belongs to an
\* agent that has a request of its own in the history, so get_access has an
\* outcome to wait for (the dedupe of RequestK8sAccess, RequestPreset and
\* RequestAccess).
AnsweredHasRow ==
  \A q \in Reqs :
     (req[q].at = "answered" /\ req[q].ask.kind # "host-access")
        => \E i \in DOMAIN rows : /\ rows[i].agent = req[q].agent
                                  /\ rows[i].upstream = req[q].ask.upstream

\* Another call re-approves the rule h found.
Rivalled(h) ==
  \E g \in Handlers \ {h} : /\ handler[g].target # Nil /\ handler[h].target # Nil
                            /\ handler[g].target.id = handler[h].target.id

\* A re-approval never shortens a grant: an operation approved until e is
\* allowed until e, unless its rule was withdrawn or the operator renewed it by
\* hand (approveOperation: "extend (never shrink) the rule's expiry").  Two
\* re-approvals of one rule may shorten each other's, the comparison being with
\* the expiry each found; what the rule was made with stands even then.
ApprovedUntil ==
  \A h \in Handlers :
     (/\ handler[h].approve /\ handler[h].at = "ok" /\ Ask(h).kind = "operation"
      /\ upsets = 0 /\ ~ Rivalled(h))
        => \E r \in rules : /\ r.kind = "operation" /\ r.upstream = Ask(h).upstream
                            /\ r.item = Ask(h).name
                            /\ \/ r.expires = Never
                               \/ handler[h].expires # Never /\ r.expires >= handler[h].expires

\* The history is sound: well-typed, at most one row closed per decision, and a
\* row for every request that was answered without a card of its own.
HistoryInv == TypeOK /\ OneRowPerDecision /\ AnsweredHasRow
=============================================================================
