--------------------------- MODULE PolicyRegistry ---------------------------
(***************************************************************************)
(* internal/policy/registry.go: the rule table and everything that writes  *)
(* it, evaluated by PolicyDecide.  Each SQL statement is one step (the     *)
(* store has a single connection).  The value-policy updates are a SELECT, *)
(* a computation and an UPDATE that are not in a transaction, so two of    *)
(* them, a Renew or a Delete may come in between.  templateFor's cache of  *)
(* parsed templates, keyed by rule id and never invalidated, is the        *)
(* variable cache.                                                         *)
(***************************************************************************)
EXTENDS PolicyDecide, Integers

CONSTANTS
  RuleIds,    \* the ids newID may draw in a run
  Catalog,    \* the rule bodies that may be created (every field but id)
  Requests,   \* the requests that arrive
  Updates,    \* calls of AddAllowedValue / SetVariableAny / SetVariablePolicy
  UpdateOps,  \* which of the three the run makes
  Values,     \* values an update may add
  Expiries,   \* expiry times an operator may choose
  MaxTime,    \* bound on the clock
  Absent      \* no row

\* A row of the table: its columns, of which an UPDATE writes the expiry or the
\* policies.
RowOf(b, i, expires, policies) ==
  [id |-> i, subject |-> b.subject, upstream |-> b.upstream, outcome |-> b.outcome, expires |-> expires,
   profile |-> b.profile, params |-> b.params, browsePath |-> b.browsePath,
   browseMethods |-> b.browseMethods, template |-> b.template, policies |-> policies,
   namespace |-> b.namespace, resource |-> b.resource, verb |-> b.verb]

\* The row insertRule writes.
Row(b, i) == RowOf(b, i, b.expires, b.policies)

\* What the two columns may hold.
Times       == Nat \cup {Never}
VarNames    == UNION {DOMAIN b.policies : b \in Catalog}
GivenValues == UNION {UNION {b.policies[v].values : v \in DOMAIN b.policies} : b \in Catalog}
VarPolicies == [type : VarTypes, mode : {"any", "set", "range"}, values : SUBSET (Values \cup GivenValues),
                min : Int \cup {NoBound}, max : Int \cup {NoBound}]
IsPolicies(p) == DOMAIN p \subseteq VarNames /\ p \in [DOMAIN p -> VarPolicies]

\* Rule bodies carry well-formed policies and a time or no expiry (their outcome
\* is what insertRule checks), and the ids drawn and the inputs of an update are
\* of the types the code's signatures give them.
ASSUME RuleAssumption ==
  /\ \A b \in Catalog : b.expires \in Times /\ IsPolicies(b.policies)
  /\ NoRule.id \notin RuleIds
  /\ Expiries \subseteq Times /\ Absent \notin Times /\ MaxTime \in Nat
  /\ UpdateOps \subseteq {"add", "any", "set"}
  /\ NumberOf \in [DOMAIN NumberOf -> Int]
  /\ "set" \in UpdateOps => Values \subseteq DOMAIN NumberOf

\* Every request has a resolved agent; its path is a sequence of texts, decoded
\* or not, and so are the values of a parameter.
ASSUME RequestAssumption ==
  /\ Empty = ""
  /\ \A q \in Requests :
        /\ q.agent # Empty
        /\ q.path \in Seq(STRING) /\ Unescaped(q.path) \in Seq(STRING)
        /\ \A n \in DOMAIN q.query : q.query[n] \in Seq(STRING)
        /\ q.body # NoJSON => \A p \in DOMAIN q.body : q.body[p] \in [scalar : BOOLEAN, text : STRING]
  /\ \A n \in DOMAIN Templates : Templates[n].path \in Seq(Range(Templates[n].path))

VARIABLES
  table,      \* table[i]: the row of rule i, or Absent
  used,       \* ids drawn so far: newID never repeats one
  cache,      \* tmplCache: the template parsed for rule i, or Absent
  update,     \* update[w]: an in-flight updatePolicies call
  now,        \* the clock
  expiry      \* history: the expiry last asked for rule i

vars == <<table, used, cache, update, now, expiry>>

Present == {i \in RuleIds : table[i] # Absent}
Rules   == {table[i] : i \in Present}
IdleUpdate == [at |-> "idle", id |-> Absent, row |-> Absent, op |-> "", var |-> Absent, val |-> Absent]

\* The requests as Decide is asked about them.
InputOf == [q \in Requests |-> Input(q)]

Init ==
  /\ table  = [i \in RuleIds |-> Absent]
  /\ used   = {}
  /\ cache  = [i \in RuleIds |-> Absent]
  /\ update = [w \in Updates |-> IdleUpdate]
  /\ now    = 0
  /\ expiry = [i \in RuleIds |-> Absent]

-----------------------------------------------------------------------------

\* insertRule's check of the outcome.
ValidOutcome(o) == o \in Outcomes

\* newID: eight random bytes; a repetition is taken to be impossible.
FreshIds == RuleIds \ used

\* CreateMany: one transaction, all rows or none; Create is its one-row case.
CreateMany(ids, bodies) ==
  /\ ids \subseteq FreshIds /\ ids # {}
  /\ \A i \in ids : ValidOutcome(bodies[i].outcome)
  /\ table'  = [i \in RuleIds |-> IF i \in ids THEN Row(bodies[i], i) ELSE table[i]]
  /\ expiry' = [i \in RuleIds |-> IF i \in ids THEN bodies[i].expires ELSE expiry[i]]
  /\ used'   = used \cup ids
  /\ UNCHANGED <<cache, update, now>>

\* A DELETE of the rows that satisfy a condition.
DeleteRows(gone) ==
  /\ gone # {}
  /\ table' = [i \in RuleIds |-> IF i \in gone THEN Absent ELSE table[i]]
  /\ UNCHANGED <<used, cache, update, now, expiry>>

Delete(i) == DeleteRows({i} \cap Present)

DeleteBySubject(a) == DeleteRows({i \in Present : table[i].subject = a})

DeleteBySubjectUpstream(a, u) ==
  DeleteRows({i \in Present : table[i].subject = a /\ table[i].upstream = u})

\* An UPDATE of the expires_at column.
Renew(i, e) ==
  /\ i \in Present
  /\ table'  = [table EXCEPT ![i].expires = e]
  /\ expiry' = [expiry EXCEPT ![i] = e]
  /\ UNCHANGED <<used, cache, update, now>>

-----------------------------------------------------------------------------

\* mutate of one variable's policy, which keeps its type.
\*   "add": AddAllowedValue;  "any": SetVariableAny;  "set": SetVariablePolicy
NewPolicy(vp, op, val) ==
  CASE op = "add" -> [vp EXCEPT !.values = @ \cup {val}]
    [] op = "any" -> [vp EXCEPT !.mode = "any", !.values = {}]
    [] op = "set" -> IF vp.type = "number"
                     THEN [vp EXCEPT !.mode = "range", !.min = NumberOf[val], !.max = NumberOf[val], !.values = {}]
                     ELSE [vp EXCEPT !.mode = "set", !.values = {val}, !.min = NoBound, !.max = NoBound]

Mutated(policies, op, v, val) == [policies EXCEPT ![v] = NewPolicy(@, op, val)]

\* updatePolicies, first half: the SELECT and mutate; an unknown rule or
\* variable is an error, an update that changes nothing skips the write.
UpdateLoad(w, i, op, v, val) ==
  /\ update[w].at = "idle"
  /\ i \in Present
  /\ v \in DOMAIN table[i].policies
  /\ LET noop == op # "set" /\ Mutated(table[i].policies, op, v, val) = table[i].policies IN
     update' = [update EXCEPT ![w] =
        [at |-> IF noop THEN "done" ELSE "loaded", id |-> i, row |-> table[i],
         op |-> op, var |-> v, val |-> val]]
  /\ UNCHANGED <<table, used, cache, now, expiry>>

\* (slip) The UPDATE writes the whole row it loaded.
UpdateStoreRow(w) ==
  LET u == update[w] IN
  /\ u.at = "loaded"
  /\ table' = [table EXCEPT ![u.id] =
        IF @ = Absent THEN @
        ELSE [u.row EXCEPT !.policies = Mutated(u.row.policies, u.op, u.var, u.val)]]
  /\ update' = [update EXCEPT ![w].at = "done"]
  /\ UNCHANGED <<used, cache, now, expiry>>

\* (slip) The write is an upsert.
UpdateStoreUpsert(w) ==
  LET u == update[w] IN
  /\ u.at = "loaded"
  /\ table' = [table EXCEPT ![u.id] =
        [u.row EXCEPT !.policies = Mutated(u.row.policies, u.op, u.var, u.val)]]
  /\ update' = [update EXCEPT ![w].at = "done"]
  /\ UNCHANGED <<used, cache, now, expiry>>

\* updatePolicies, second half: the UPDATE of one column with the policies
\* computed from the row as it was loaded; no row, no effect.
UpdateStore(w) ==
  LET u == update[w] IN
  /\ u.at = "loaded"
  /\ table' = [table EXCEPT ![u.id] =
        IF @ = Absent THEN @
        ELSE [@ EXCEPT !.policies = Mutated(u.row.policies, u.op, u.var, u.val)]]
  /\ update' = [update EXCEPT ![w].at = "done"]
  /\ UNCHANGED <<used, cache, now, expiry>>

-----------------------------------------------------------------------------
\* templateFor on a cache miss, while some request is being decided.
ParseTemplate(i) ==
  /\ i \in Present
  /\ table[i].template \in DOMAIN Templates /\ Parses(Templates[table[i].template])
  /\ cache[i] = Absent
  /\ cache' = [cache EXCEPT ![i] = table[i].template]
  /\ UNCHANGED <<table, used, update, now, expiry>>

Tick ==
  /\ now < MaxTime
  /\ now' = now + 1
  /\ UNCHANGED <<table, used, cache, update, expiry>>

Next ==
  \/ \E ids \in SUBSET RuleIds : \E bodies \in [ids -> Catalog] : CreateMany(ids, bodies)
  \/ \E i \in RuleIds :
        \/ Delete(i)
        \/ ParseTemplate(i)
        \/ \E e \in Expiries : Renew(i, e)
  \/ \E b \in Catalog :
        \/ DeleteBySubject(b.subject)
        \/ DeleteBySubjectUpstream(b.subject, b.upstream)
  \/ \E w \in Updates :
        \/ UpdateStore(w)
        \/ \E i \in Present, op \in UpdateOps, val \in Values :
              \E v \in DOMAIN table[i].policies : UpdateLoad(w, i, op, v, val)
  \/ Tick

Spec == Init /\ [][Next]_vars
-----------------------------------------------------------------------------
\* A rule of the catalog, but for what updates and renewals may have written.
IsRow(r) ==
  /\ r.expires \in Times /\ IsPolicies(r.policies)
  /\ \E b \in Catalog : ValidOutcome(b.outcome) /\ r = RowOf(b, r.id, r.expires, r.policies)

\* Every row is a well-formed rule under its own id, and so is what an update in
\* flight has loaded; an id is a row's only once it was drawn.
TypeOK ==
  /\ DOMAIN table = RuleIds /\ \A i \in Present : IsRow(table[i]) /\ table[i].id = i
  /\ used \subseteq RuleIds /\ Present \subseteq used
  /\ cache \in [RuleIds -> DOMAIN Templates \cup {Absent}]
  /\ DOMAIN update = Updates
  /\ \A w \in Updates : update[w] # IdleUpdate =>
        /\ IsRow(update[w].row)
        /\ update[w] \in [at : {"loaded", "done"}, id : RuleIds, row : {update[w].row},
                          op : UpdateOps, var : VarNames, val : Values]
  /\ now \in 0..MaxTime
  /\ expiry \in [RuleIds -> Times \cup {Absent}]

\* What a template would have to be filled with to give each request.
TextsOf(q) ==
  {Unescape(q.path[i]) : i \in DOMAIN q.path}
    \cup (UNION {Range(q.query[n]) : n \in DOMAIN q.query})
    \cup (IF q.body = NoJSON THEN {} ELSE {q.body[p].text : p \in DOMAIN q.body})
Reading == [q \in Requests |-> [n \in DOMAIN Templates |->
              IF Parses(Templates[n]) THEN Renderings(Templates[n], q, TextsOf(q)) ELSE {}]]

\* The domain a policy gives a variable.
InDomain(vp, val) ==
  \/ vp.type = "date" \/ vp.mode = "any"
  \/ vp.type # "number" /\ val \in vp.values
  \/ vp.type = "number" /\ inNumberRange(val, vp)

\* A request is allowed only by a rule that is in the table, names its agent or
\* any agent, has not expired and says allow.  An http request allowed by a
\* template is that template with values of the right types written into it,
\* every one inside the domain the rule gives its variable, and nothing more: no
\* further parameter, no segment split or joined by decoding (Match,
\* ExtractBody, evalHTTPRule).
AllowNeedsLiveGrant(q, d) ==
  (d.outcome = "allow" /\ d.rule # NoRule) =>
     /\ d.rule \in Rules
     /\ d.rule.subject \in {q.agent, Empty} /\ d.rule.upstream = q.upstream
     /\ d.rule.outcome = "allow"
     /\ d.rule.expires = Never \/ now <= d.rule.expires
     /\ IsTemplateMatch(d.rule, InputOf[q]) =>
          \E sigma \in Reading[q][d.rule.template] :
             \A v \in DOMAIN sigma \cap DOMAIN d.rule.policies : InDomain(d.rule.policies[v], sigma[v])

\* A k8s rule for some namespaces lets through or asks about nothing but what
\* lies inside a namespace it names: not the namespace object itself, not a
\* cluster-scoped resource, not a list over all namespaces (k8s.Parse and
\* nsMatches: "never a concrete-namespace rule").
ConfinedToNamespace(q, d) ==
  (InputOf[q].kind = "k8s" /\ d.outcome # "deny" /\ d.rule.namespace # Wild) =>
     LET path == Unescaped(q.path) IN  \* as it is forwarded
     \E i \in DOMAIN path :
        /\ path[i] = "namespaces" /\ MatchGlob(d.rule.namespace, path[i + 1])
        /\ \E j \in i + 2 .. Len(path) : path[j] # Empty

\* What an approval may add to a rule is a text value outside its set: a closed
\* enum set and a number range never grow by approval (evalHTTPRule).
OnlyTextGrows(q, d) ==
  d.outcome = "require-approval" =>
     \A nv \in NewValues(d.rule, InputOf[q]) : d.rule.policies[nv[1]].type = "text"

\* Whatever rules are in the table: an allow is earned by a live grant that says
\* all the request says, a cluster-wide request by a rule for every namespace, and
\* an approval can only ever grow a text set.
AllowIsEarned ==
  \A q \in Requests : \A d \in Decide(Rules, InputOf[q], now) :
     AllowNeedsLiveGrant(q, d) /\ ConfinedToNamespace(q, d) /\ OnlyTextGrows(q, d)

\* The deciding tier is the agent's own when it has any live match, and no
\* rule of the deciding tier is stricter than the decision (Decide,
\* resolveTier: "deny > require-approval > allow"); rules written for other
\* agents change nothing.
MostRestrictiveWins ==
  \A q \in Requests :
     LET rank(o) == CASE o = "allow" -> 0 [] o = "require-approval" -> 1 [] o = "deny" -> 2
         live == LiveRules(Rules, now)
         in == InputOf[q]
         decisions == Decide(Rules, in, now)
     IN /\ \A d \in decisions : (~ Claimed(in) /\ d.rule # NoRule) =>
             /\ \A r \in live : (Matches(r, in) /\ r.subject = d.rule.subject)
                                  => rank(EffectiveOutcome(r, in)) <= rank(d.outcome)
             /\ d.rule.subject = Empty
                  => \A r \in live : r.subject = in.agent => ~ Matches(r, in)
        /\ decisions = Decide({r \in Rules : r.subject \in {in.agent, Empty}}, in, now)

\* What the profile's live rules say of reading one source in one workspace:
\* some rule for the agent allows it, no rule of the agent's own denies it, and
\* a rule for everyone that denies it is outranked by the agent's own allow.
Readable(q, pair) ==
  LET on(subject, o) == \E r \in LiveRules(Rules, now) :
        /\ r.upstream = q.upstream /\ r.profile = InputOf[q].profile
        /\ r.subject = subject /\ r.outcome = o /\ Covers(r.params, "read", pair)
  IN /\ on(q.agent, "allow") \/ (on(Empty, "allow") /\ ~ on(Empty, "deny"))
     /\ ~ on(q.agent, "deny")

\* A Records operation goes to the upstream as it came only under one rule that
\* covers everything it touches, or when every workspace it names is readable in
\* every source.  What is forwarded of a query that was narrowed is readable to
\* the last pair, narrowing never adds a workspace to a list the caller gave,
\* never touches an API caller's list or a write, and never leaves a query over
\* all workspaces open; the empty answer is given only when nothing of what was
\* asked is readable (Authorize, filterReadQuery).
NarrowedToGrants ==
  \A q \in Requests : Claimed(InputOf[q]) =>
     LET op == InputOf[q].op
         listed == requestedScopes(op) # {ScopeAll}
     IN \A d \in Decide(Rules, InputOf[q], now) : d.outcome = "allow" =>
          IF d.rule # NoRule
          THEN /\ d.rewrite = Unchanged /\ ~ d.response
               /\ \A pair \in op.res : Covers(d.rule.params, op.kind, pair)
          ELSE /\ op.kind = "read" /\ op.res # {}
               /\ ~ d.response =>
                    LET sent == IF d.rewrite = Unchanged THEN requestedScopes(op) ELSE d.rewrite IN
                    /\ \A s \in uniqueSources(op), w \in sent : Readable(q, <<s, w>>)
                    /\ d.rewrite = Unchanged => listed
                    /\ listed => sent \subseteq requestedScopes(op)
               /\ (listed /\ ~ q.browser) => d.rewrite = Unchanged /\ ~ d.response
               /\ (listed /\ d.response) =>
                    \A w \in requestedScopes(op) : \E s \in uniqueSources(op) : ~ Readable(q, <<s, w>>)

\* The never-invalidated template cache always agrees with the stored rule
\* (templateFor: "a template is immutable per rule").
CacheCoherent ==
  \A i \in Present : cache[i] \in {Absent, table[i].template}

\* Two templates of one key are one operation: findRuleByTemplateKey may extend
\* the rule of either for the other (Key: "two requests with the same shape share
\* one rule").
KeyIdentifies ==
  \A m, n \in DOMAIN Templates :
     (Parses(Templates[m]) /\ Parses(Templates[n]) /\ Key(Templates[m]) = Key(Templates[n])) =>
     \A q \in Requests : (m \in DOMAIN InputOf[q].match) = (n \in DOMAIN InputOf[q].match)

\* An update that was loaded before a delete does not bring the rule back.
DeletedStaysDeleted ==
  [][\A i \in used : table[i] = Absent => table'[i] = Absent]_vars

\* A rule's expiry is always the last one an operator asked for, whatever value
\* updates were in flight across the Renew.
ExpirySticks == \A i \in Present : table[i].expires = expiry[i]

\* registry.go, comment of AddAllowedValue: on approval "the same operation
\* template's set grows".  An AddAllowedValue that returned has its value in the
\* rule's set, as long as the rule exists and only values are being added.
AddedValueStays ==
  \A w \in Updates :
     (update[w].at = "done" /\ update[w].op = "add" /\ update[w].id \in Present)
        => update[w].val \in table[update[w].id].policies[update[w].var].values

\* The table's integrity across updates in flight: rows are well-formed, the
\* template cache agrees with them, a renewed expiry is not undone, and a
\* template's key stands for the requests it matches.
TableInv == TypeOK /\ CacheCoherent /\ ExpirySticks /\ KeyIdentifies
=============================================================================
