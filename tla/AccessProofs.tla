---------------------------- MODULE AccessProofs ----------------------------
(***************************************************************************)
(* What holds of grants (AccessGrants) and of polls (AccessPoll) for any   *)
(* agents, requests, operator calls and bounds.                            *)
(***************************************************************************)
EXTENDS AccessGrants, AccessPoll, FiniteSetTheorems, SequenceTheorems, TLAPS

-----------------------------------------------------------------------------
(* The inductive invariant of the grants.                                   *)

Times   == Expiries \cup {Never}
Rule    == [by : Handlers, subject : Agents \cup {Everyone}, upstream : Upstreams,
            kind : {ask.kind : ask \in Asks}, item : Items, body : BOOLEAN,
            values : SUBSET ({TrustAny} \cup {ask.value : ask \in Asks}), expires : Times]
Row     == [card : Reqs, agent : Agents, upstream : Upstreams, status : Statuses,
            edited : BOOLEAN, created : Nat]
Call    == [at : {"idle", "noSuchHost", "answered", "checked", "spawned", "parked", "decided",
                  "left", "lost"},
            agent : Agents \cup {Nil}, ask : Asks \cup {Nil}, items : SUBSET Items]
Target  == [id : Handlers \X Items, expires : Times]
Resolve == [at : {"idle", "apply", "write", "extend", "renew", "mark", "deliver", "ok", "gone",
                  "failed", "cut"},
            card : Reqs \cup {Nil}, approve : BOOLEAN, attach : BOOLEAN, trust : BOOLEAN,
            final : SUBSET Items, expires : Times, todo : SUBSET Items, target : Target \cup {Nil}]
Revoke  == [at : {"idle", "grant", "row", "agent", "revoked", "deleted", "cut"},
            agent : Agents \cup {Nil}, upstream : Upstreams \cup {Nil}, row : Nat]

\* Every variable is a function, sequence or set of such records.
GrantTypes ==
  /\ agents \subseteq Agents /\ cred \subseteq Upstreams
  /\ host \in [Upstreams -> {"unknown", "lazy", "registered"}]
  /\ rules \subseteq Rule /\ rows \in Seq(Row)
  /\ req \in [Reqs -> Call] /\ handler \in [Handlers -> Resolve] /\ revoker \in [Revokers -> Revoke]
  /\ now \in 0 .. MaxTime /\ upsets \in 0 .. MaxUpsets

\* A call that has begun knows who asks for what; a resolve that has begun has
\* such a call's card.
CardsOK ==
  /\ \A q \in Reqs : req[q].at # "idle" =>
        /\ req[q].agent \in Agents /\ req[q].ask \in Asks
        /\ req[q].ask.kind = "operation" => req[q].items = req[q].ask.items
  /\ \A h \in Handlers : handler[h].at # "idle" =>
        handler[h].card \in Reqs /\ Card(h).at # "idle"

\* What a resolve has decided and found by each of its steps.
HandlerOK(h) ==
  LET t == handler[h].target IN
  /\ handler[h].at = "idle" => ~ handler[h].approve
  /\ handler[h].approve /\ Ask(h).kind = "operation" => handler[h].final = {Ask(h).name}
  /\ handler[h].at \in {"apply", "write", "extend", "renew"} => handler[h].approve
  /\ handler[h].at = "write" =>
        /\ handler[h].todo \subseteq handler[h].final
        /\ Ask(h).kind = "operation" => handler[h].todo = handler[h].final
  /\ handler[h].at \in {"extend", "renew"} => t # Nil
  /\ t # Nil => /\ handler[h].at \notin {"idle", "apply", "write"}
                /\ Ask(h).kind = "operation" /\ ~ Ask(h).body /\ t.id[2] = Ask(h).name
                /\ handler[t.id[1]].at # "idle"
                /\ Ask(t.id[1]).kind = "operation" /\ Ask(t.id[1]).upstream = Ask(h).upstream

\* The resolve calls that have done, or will no longer do, their side effects.
Late == {"mark", "deliver", "ok", "gone", "cut"}

\* A rule is what its maker's card asked for; ids are unique.
Owned(r) ==
  LET h == r.by IN
  /\ handler[h].approve /\ handler[h].at \in Late
  /\ r.kind = Ask(h).kind /\ r.upstream = Ask(h).upstream /\ r.body = Ask(h).body
  /\ r.item \in handler[h].final /\ r.subject = Subject(h)

RulesOwned == \A r \in rules : Owned(r) /\ \A x \in rules : Id(x) = Id(r) => x = r

\* Rule r gives what h approved: to the agent that asked or, an operation, with its
\* value and (unless a rule was found to extend) its body.
Serves(h, i, r) ==
  /\ r.kind = Ask(h).kind /\ r.upstream = Ask(h).upstream /\ r.item = i /\ r.subject = Subject(h)
  /\ Ask(h).kind = "operation" =>
        /\ r.values \cap {TrustAny, Ask(h).value} # {}
        /\ IF handler[h].target = Nil THEN r.body = Ask(h).body ELSE Id(r) = handler[h].target.id

Given(h, i) ==
  \/ <<Ask(h).kind, Ask(h).upstream, i>> \in withdrawn
  \/ \E r \in rules : Serves(h, i, r)

\* What an approval has given, from the moment it is known not to be missing.
EffectOK ==
  \A h \in Handlers :
     (handler[h].approve /\ Ask(h).kind # "host-access" /\ handler[h].at \in
        {"write", "renew", "mark", "deliver", "ok"})
     => \A i \in handler[h].final :
           Given(h, i) \/ (handler[h].at = "write" /\ i \in handler[h].todo)

\* e is no earlier than f.
NoEarlier(e, f) == e = Never \/ (f # Never /\ e >= f)

\* While nothing but requests and resolves happens: a rule lives at least as long
\* as it was made to; and the rule an unrivalled approval has found is there, with
\* the expiry it had, until the approval has renewed it.
UntilOK ==
  upsets = 0 =>
  /\ \A r \in rules : NoEarlier(r.expires, handler[r.by].expires)
  /\ \A h \in Handlers : LET t == handler[h].target IN
        t # Nil => NoEarlier(t.expires, handler[t.id[1]].expires)
  /\ \A h \in Handlers :
        (handler[h].approve /\ Ask(h).kind = "operation" /\ handler[h].target = Nil
           /\ handler[h].at \in {"mark", "deliver", "ok"})
        => \E r \in rules : r.by = h
  /\ \A h \in Handlers : LET t == handler[h].target IN
        (t # Nil /\ ~ Rivalled(h) /\ handler[h].at \in {"extend", "renew", "mark", "deliver", "ok"})
        => \E r \in rules :
             /\ Id(r) = t.id
             /\ IF handler[h].at \in {"extend", "renew"} THEN r.expires = t.expires
                ELSE NoEarlier(r.expires, handler[h].expires)

\* The agent has a row on the upstream.
HasRow(a, u) == \E i \in DOMAIN rows : rows[i].agent = a /\ rows[i].upstream = u

\* Calls that were logged, cards that were seen and calls that were answered have
\* a row; a revoker's row is its agent's.
RowsOK ==
  /\ \A q \in Reqs : req[q].at \in {"spawned", "parked", "decided", "left"} =>
        HasRow(req[q].agent, req[q].ask.upstream)
  /\ \A h \in Handlers : handler[h].at # "idle" => HasRow(Card(h).agent, Ask(h).upstream)
  /\ AnsweredHasRow
  /\ \A v \in Revokers : revoker[v].at = "row" =>
        /\ revoker[v].row \in DOMAIN rows
        /\ rows[revoker[v].row].agent = revoker[v].agent
        /\ rows[revoker[v].row].upstream = revoker[v].upstream

\* The resolves that may have closed a row, and the revokes that are about to.
Closers(a, u)  == {h \in Handlers : /\ handler[h].at \in Late \ {"mark"}
                                    /\ Card(h).agent = a /\ Ask(h).upstream = u}
Revoking(a, u) == {v \in Revokers : /\ revoker[v].at = "row"
                                    /\ revoker[v].agent = a /\ revoker[v].upstream = u}

CountOK ==
  \A a \in Agents, u \in Upstreams :
     Cardinality(Decided(a, u)) + Cardinality(Revoking(a, u)) <= Cardinality(Closers(a, u)) + upsets

GrantInv ==
  /\ GrantTypes /\ CardsOK /\ (\A h \in Handlers : HandlerOK(h)) /\ RulesOwned
  /\ EffectOK /\ UntilOK /\ RowsOK /\ CountOK

-----------------------------------------------------------------------------
(* What a step leaves alone.                                                *)

\* Rules are written by approvals, withdrawn or renewed by operators, and by
\* nothing else.
LEMMA RulesFrame ==
  ASSUME [Next]_vars
  PROVE  \/ rules' = rules /\ withdrawn' = withdrawn
         \/ \E h \in Handlers : ApplyWrite(h) \/ ApplyExtend(h) \/ ApplyRenew(h)
         \/ Upset /\ UNCHANGED <<rows, req, handler>> /\ \E gone \in SUBSET rules : Withdraw(gone)
         \/ \E r \in rules, e \in Choosable : RuleRenew(r, e)
<1>1. CASE UNCHANGED vars
  BY <1>1 DEF vars
<1>2. ASSUME NEW q \in Reqs, RequestStep(q) \/ \E a \in Agents, ask \in Asks : RequestCheck(q, a, ask)
      PROVE  rules' = rules /\ withdrawn' = withdrawn
  BY <1>2 DEF RequestStep, RequestCheck, RequestLog, Park, Leave
<1>3. ASSUME NEW h \in Handlers, HandlerStep(h)
      PROVE  \/ rules' = rules /\ withdrawn' = withdrawn
             \/ ApplyWrite(h) \/ ApplyExtend(h) \/ ApplyRenew(h)
  BY <1>3 DEF HandlerStep, ApplyHost, ApplyRead, ApplyFind, ApplyFails, MarkRow, Deliver
<1>4. ASSUME NEW h \in Handlers, NEW q \in Reqs, NEW e, NEW approve, NEW attach, NEW trust, NEW final,
             ResolveGet(h, q, approve, final, attach, trust, e)
      PROVE  rules' = rules /\ withdrawn' = withdrawn
  BY <1>4 DEF ResolveGet
<1>5. ASSUME NEW v \in Revokers, RevokerStep(v)
      PROVE  rules' = rules /\ withdrawn' = withdrawn
  BY <1>5 DEF RevokerStep, GrantRevokeMark, RequestRevokeMark, AgentDeleteRow
<1>6. ASSUME NEW v \in Revokers,
             \/ \E a \in Agents : AgentDelete(v, a) \/ \E u \in Upstreams : GrantRevoke(v, a, u)
             \/ \E i \in DOMAIN rows : RequestRevoke(v, i)
      PROVE  Upset /\ UNCHANGED <<rows, req, handler>> /\ \E gone \in SUBSET rules : Withdraw(gone)
  BY <1>6 DEF AgentDelete, GrantRevoke, RequestRevoke
<1>7. ASSUME NEW r \in rules, RuleDelete(r)
      PROVE  Upset /\ UNCHANGED <<rows, req, handler>> /\ \E gone \in SUBSET rules : Withdraw(gone)
  BY <1>7 DEF RuleDelete
<1>8. ASSUME \/ \E i \in DOMAIN rows, s \in {"granted", "denied", "dismissed"} : AccessRequestResolve(i, s)
             \/ Tick \/ Restart
      PROVE  rules' = rules /\ withdrawn' = withdrawn
  BY <1>8 DEF AccessRequestResolve, Tick, Restart
<1> QED
  BY <1>1, <1>2, <1>3, <1>4, <1>5, <1>6, <1>7, <1>8 DEF Next

\* Rows are appended by requests and changed by verdicts, revokes and edits.
LEMMA RowsFrame ==
  ASSUME [Next]_vars
  PROVE  \/ rows' = rows
         \/ \E q \in Reqs : RequestLog(q)
         \/ \E h \in Handlers : MarkRow(h)
         \/ \E v \in Revokers : GrantRevokeMark(v) \/ RequestRevokeMark(v)
         \/ \E i \in DOMAIN rows, s \in {"granted", "denied", "dismissed"} : AccessRequestResolve(i, s)
<1>1. CASE UNCHANGED vars
  BY <1>1 DEF vars
<1>2. ASSUME NEW q \in Reqs, RequestStep(q) \/ \E a \in Agents, ask \in Asks : RequestCheck(q, a, ask)
      PROVE  rows' = rows \/ RequestLog(q)
  BY <1>2 DEF RequestStep, RequestCheck, Park, Leave
<1>3. ASSUME NEW h \in Handlers, HandlerStep(h)
      PROVE  rows' = rows \/ MarkRow(h)
  BY <1>3 DEF HandlerStep, ApplyHost, ApplyRead, ApplyFind, ApplyWrite, ApplyExtend, ApplyRenew,
              ApplyFails, Deliver
<1>4. ASSUME NEW h \in Handlers, NEW q \in Reqs, NEW e, NEW approve, NEW attach, NEW trust, NEW final,
             ResolveGet(h, q, approve, final, attach, trust, e)
      PROVE  rows' = rows
  BY <1>4 DEF ResolveGet
<1>5. ASSUME NEW v \in Revokers, RevokerStep(v)
      PROVE  rows' = rows \/ GrantRevokeMark(v) \/ RequestRevokeMark(v)
  BY <1>5 DEF RevokerStep, AgentDeleteRow
<1>6. ASSUME NEW v \in Revokers,
             \/ \E a \in Agents : AgentDelete(v, a) \/ \E u \in Upstreams : GrantRevoke(v, a, u)
             \/ \E i \in DOMAIN rows : RequestRevoke(v, i)
      PROVE  rows' = rows
  BY <1>6 DEF AgentDelete, GrantRevoke, RequestRevoke
<1>7. ASSUME NEW r \in rules, RuleDelete(r) \/ \E e \in Choosable : RuleRenew(r, e)
      PROVE  rows' = rows
  BY <1>7 DEF RuleDelete, RuleRenew
<1>8. ASSUME Tick \/ Restart
      PROVE  rows' = rows
  BY <1>8 DEF Tick, Restart
<1> QED
  BY <1>1, <1>2, <1>3, <1>4, <1>5, <1>6, <1>7, <1>8 DEF Next

\* Request and resolve calls move by their own steps and are lost together.
LEMMA CallsFrame ==
  ASSUME [Next]_vars
  PROVE  \/ req' = req /\ handler' = handler
         \/ \E q \in Reqs : RequestStep(q) \/ \E a \in Agents, ask \in Asks : RequestCheck(q, a, ask)
         \/ \E h \in Handlers :
               \/ HandlerStep(h)
               \/ \E q \in Reqs, e \in Choosable, approve, attach, trust \in BOOLEAN :
                     \E final \in Narrowings \cup {req[q].items} :
                        ResolveGet(h, q, approve, final, attach, trust, e)
         \/ Restart
<1>1. CASE UNCHANGED vars
  BY <1>1 DEF vars
<1>5. ASSUME NEW v \in Revokers, RevokerStep(v)
      PROVE  req' = req /\ handler' = handler
  BY <1>5 DEF RevokerStep, AgentDeleteRow, GrantRevokeMark, RequestRevokeMark
<1>6. ASSUME NEW v \in Revokers,
             \/ \E a \in Agents : AgentDelete(v, a) \/ \E u \in Upstreams : GrantRevoke(v, a, u)
             \/ \E i \in DOMAIN rows : RequestRevoke(v, i)
      PROVE  req' = req /\ handler' = handler
  BY <1>6 DEF AgentDelete, GrantRevoke, RequestRevoke
<1>7. ASSUME NEW r \in rules, RuleDelete(r) \/ \E e \in Choosable : RuleRenew(r, e)
      PROVE  req' = req /\ handler' = handler
  BY <1>7 DEF RuleDelete, RuleRenew
<1>8. ASSUME \/ \E i \in DOMAIN rows, s \in {"granted", "denied", "dismissed"} : AccessRequestResolve(i, s)
             \/ Tick
      PROVE  req' = req /\ handler' = handler
  BY <1>8 DEF AccessRequestResolve, Tick
<1> QED
  BY <1>1, <1>5, <1>6, <1>7, <1>8 DEF Next

\* Who asked for what on which card does not change once the call has begun.
LEMMA CardsStay ==
  ASSUME GrantTypes, [Next]_vars, NEW q \in Reqs, req[q].at # "idle"
  PROVE  /\ req'[q].at # "idle" /\ req'[q].agent = req[q].agent
         /\ req'[q].ask = req[q].ask /\ req'[q].items = req[q].items
<1> DEFINE Same == /\ req'[q].at # "idle" /\ req'[q].agent = req[q].agent
                   /\ req'[q].ask = req[q].ask /\ req'[q].items = req[q].items
<1>0. req \in [Reqs -> Call]
  BY DEF GrantTypes
<1>1. ASSUME NEW p \in Reqs, NEW at \in {"spawned", "parked", "decided", "left"},
             req' = [req EXCEPT ![p].at = at]
      PROVE  Same
  BY <1>0, <1>1 DEF Call
<1>2. ASSUME NEW p \in Reqs, RequestStep(p)
      PROVE  Same
  BY <1>1, <1>2 DEF RequestStep, RequestLog, Park, Leave
<1>3. ASSUME NEW p \in Reqs, NEW a, NEW ask, RequestCheck(p, a, ask)
      PROVE  Same
  BY <1>0, <1>3 DEF RequestCheck
<1>4. ASSUME NEW h \in Handlers, HandlerStep(h), ~ Deliver(h)
      PROVE  req' = req
  BY <1>4 DEF HandlerStep, ApplyHost, ApplyRead, ApplyFind, ApplyWrite, ApplyExtend, ApplyRenew,
              ApplyFails, MarkRow
<1>5. ASSUME NEW h \in Handlers, Deliver(h)
      PROVE  Same
  BY <1>0, <1>5 DEF Deliver, Call
<1>6. ASSUME NEW h \in Handlers, NEW p \in Reqs, NEW e, NEW approve, NEW attach, NEW trust, NEW final,
             ResolveGet(h, p, approve, final, attach, trust, e)
      PROVE  req' = req
  BY <1>6 DEF ResolveGet
<1>7. CASE Restart
  BY <1>0, <1>7 DEF Restart, Call
<1> QED
  BY <1>2, <1>3, <1>4, <1>5, <1>6, <1>7, CallsFrame

\* What a resolve call was told does not change, nor does the rule it found.
LEMMA HandlersStay ==
  ASSUME GrantTypes, \A g \in Handlers : HandlerOK(g), [Next]_vars, NEW h \in Handlers,
         handler[h].at # "idle"
  PROVE  /\ handler'[h].at # "idle" /\ handler'[h].card = handler[h].card
         /\ handler'[h].approve = handler[h].approve /\ handler'[h].trust = handler[h].trust
         /\ handler'[h].final = handler[h].final /\ handler'[h].expires = handler[h].expires
         /\ handler[h].target # Nil => handler'[h].target = handler[h].target
         /\ handler[h].at \in Late => handler'[h].at \in Late
         /\ handler[h].at \in Late \ {"mark"} => handler'[h].at \in Late \ {"mark"}
<1> DEFINE Same == /\ handler'[h].at # "idle" /\ handler'[h].card = handler[h].card
                   /\ handler'[h].approve = handler[h].approve /\ handler'[h].trust = handler[h].trust
                   /\ handler'[h].final = handler[h].final /\ handler'[h].expires = handler[h].expires
                   /\ handler[h].target # Nil => handler'[h].target = handler[h].target
                   /\ handler[h].at \in Late => handler'[h].at \in Late
                   /\ handler[h].at \in Late \ {"mark"} => handler'[h].at \in Late \ {"mark"}
<1>0. handler \in [Handlers -> Resolve]
  BY DEF GrantTypes
<1>1. ASSUME NEW p \in Reqs, RequestStep(p) \/ \E a \in Agents, ask \in Asks : RequestCheck(p, a, ask)
      PROVE  handler' = handler
  BY <1>1 DEF RequestStep, RequestCheck, RequestLog, Park, Leave
<1>2. ASSUME NEW g \in Handlers, HandlerStep(g)
      PROVE  Same
  <2>1. ASSUME NEW at \in {"mark", "renew", "failed", "deliver", "ok", "gone"},
               handler' = [handler EXCEPT ![g].at = at], handler[g].at \in Late => at \in Late,
               handler[g].at \in Late \ {"mark"} => at \in Late \ {"mark"}
        PROVE  Same
    BY <1>0, <2>1 DEF Resolve
  <2>2. CASE ApplyHost(g) \/ ApplyWrite(g) \/ ApplyRenew(g) \/ ApplyFails(g) \/ MarkRow(g)
    BY <2>1, <2>2 DEF ApplyHost, ApplyWrite, ApplyRenew, ApplyFails, MarkRow, Late
  <2>3. CASE Deliver(g) \/ ApplyExtend(g)
    BY <2>1, <2>3 DEF Deliver, ApplyExtend, Late
  <2>4. CASE ApplyRead(g)
    BY <1>0, <2>4 DEF ApplyRead, Resolve, Late
  <2>5. CASE ApplyFind(g)
    <3>1. handler[g].target = Nil /\ handler[g].at \notin Late
      BY <2>5 DEF ApplyFind, HandlerOK, Late
    <3>2. /\ \A f \in Handlers : f # g => handler'[f] = handler[f]
          /\ handler'[g].at \in {"write", "extend"} /\ handler'[g].card = handler[g].card
          /\ handler'[g].approve = handler[g].approve /\ handler'[g].trust = handler[g].trust
          /\ handler'[g].final = handler[g].final /\ handler'[g].expires = handler[g].expires
      BY <1>0, <2>5 DEF ApplyFind, Resolve
    <3> QED
      BY <3>1, <3>2
  <2> QED
    BY <1>2, <2>2, <2>3, <2>4, <2>5 DEF HandlerStep
<1>3. ASSUME NEW g \in Handlers, NEW p \in Reqs, NEW e, NEW approve, NEW attach, NEW trust, NEW final,
             ResolveGet(g, p, approve, final, attach, trust, e)
      PROVE  Same
  BY <1>0, <1>3 DEF ResolveGet
<1>4. CASE Restart
  BY <1>0, <1>4 DEF Restart, Resolve, Late
<1> QED
  BY <1>1, <1>2, <1>3, <1>4, CallsFrame

\* Nor, therefore, does its card.
LEMMA AskStays ==
  ASSUME GrantTypes, CardsOK, \A g \in Handlers : HandlerOK(g), [Next]_vars, NEW h \in Handlers,
         handler[h].at # "idle"
  PROVE  /\ handler'[h].card \in Reqs /\ Card(h)'.at # "idle" /\ Ask(h)' = Ask(h)
         /\ Card(h)'.agent = Card(h).agent /\ Card(h)'.items = Card(h).items /\ Subject(h)' = Subject(h)
<1>1. handler[h].card \in Reqs /\ Card(h).at # "idle" /\ handler'[h].card = handler[h].card
  BY HandlersStay DEF CardsOK
<1>2. /\ Card(h)'.at # "idle" /\ Card(h)'.agent = Card(h).agent
      /\ Card(h)'.ask = Card(h).ask /\ Card(h)'.items = Card(h).items
  BY <1>1, CardsStay DEF Card
<1> QED
  BY <1>1, <1>2 DEF Ask, Subject

\* What may happen to a resolve call.
LEMMA Moves ==
  ASSUME GrantTypes, [Next]_vars, NEW h \in Handlers
  PROVE  \/ handler'[h] = handler[h]
         \/ HandlerStep(h)
         \/ \E q \in Reqs, e \in Choosable, approve, attach, trust \in BOOLEAN :
               \E final \in Narrowings \cup {req[q].items} :
                  ResolveGet(h, q, approve, final, attach, trust, e)
         \/ handler'[h] = [handler[h] EXCEPT !.at = "cut"] /\ handler[h].at # "idle"
<1>0. handler \in [Handlers -> Resolve]
  BY DEF GrantTypes
<1>1. ASSUME NEW p \in Reqs, RequestStep(p) \/ \E a \in Agents, ask \in Asks : RequestCheck(p, a, ask)
      PROVE  handler' = handler
  BY <1>1 DEF RequestStep, RequestCheck, RequestLog, Park, Leave
<1>2. ASSUME NEW g \in Handlers \ {h}, HandlerStep(g)
      PROVE  handler'[h] = handler[h]
  BY <1>0, <1>2 DEF HandlerStep, ApplyHost, ApplyRead, ApplyFind, ApplyWrite, ApplyExtend, ApplyRenew,
                    ApplyFails, MarkRow, Deliver
<1>3. ASSUME NEW g \in Handlers \ {h}, NEW p \in Reqs, NEW e, NEW approve, NEW attach, NEW trust, NEW final,
             ResolveGet(g, p, approve, final, attach, trust, e)
      PROVE  handler'[h] = handler[h]
  BY <1>0, <1>3 DEF ResolveGet
<1>4. CASE Restart
  BY <1>0, <1>4 DEF Restart
<1> QED
  BY <1>1, <1>2, <1>3, <1>4, CallsFrame

\* A function on the rows' positions whose values are rows is a table again.
LEMMA IsTable ==
  ASSUME rows \in Seq(Row), NEW f, f \in [DOMAIN rows -> Row]
  PROVE  f \in Seq(Row)
<1>1. Len(rows) \in Nat /\ DOMAIN rows = 1 .. Len(rows)
  BY LenProperties
<1>2. Seq(Row) = UNION {[1 .. n -> Row] : n \in Nat}
  BY SeqDef
<1> QED
  BY <1>1, <1>2

\* Rows are never removed and never change their agent or upstream.
LEMMA RowsStay ==
  ASSUME GrantTypes, CardsOK, RowsOK, [Next]_vars
  PROVE  /\ rows' \in Seq(Row) /\ DOMAIN rows \subseteq DOMAIN rows'
         /\ \A i \in DOMAIN rows : /\ rows'[i].agent = rows[i].agent
                                   /\ rows'[i].upstream = rows[i].upstream
<1> DEFINE Kept == /\ rows' \in Seq(Row) /\ DOMAIN rows \subseteq DOMAIN rows'
                   /\ \A i \in DOMAIN rows : /\ rows'[i].agent = rows[i].agent
                                             /\ rows'[i].upstream = rows[i].upstream
<1>0. /\ rows \in Seq(Row) /\ Len(rows) \in Nat /\ DOMAIN rows = 1 .. Len(rows)
      /\ \A i \in DOMAIN rows : rows[i] \in Row
  BY LenProperties, ElementOfSeq DEF GrantTypes
<1>1. ASSUME NEW q \in Reqs, RequestLog(q)
      PROVE  Kept
  <2> DEFINE new == [card |-> q, agent |-> req[q].agent, upstream |-> req[q].ask.upstream,
                     status |-> "pending", edited |-> FALSE, created |-> now]
  <2>1. new \in Row
    BY <1>1, GrantAssumption DEF RequestLog, CardsOK, Upstreams, Row, Statuses, GrantTypes
  <2>2. rows' = Append(rows, new)
    BY <1>1 DEF RequestLog
  <2>3. /\ rows' \in Seq(Row) /\ Len(rows') = Len(rows) + 1
        /\ \A i \in 1 .. Len(rows) : rows'[i] = rows[i]
    BY <1>0, <2>1, <2>2, AppendProperties
  <2>4. DOMAIN rows' = 1 .. Len(rows')
    BY <2>3, LenProperties
  <2> QED
    BY <1>0, <2>3, <2>4
<1>2. ASSUME NEW h \in Handlers, MarkRow(h)
      PROVE  Kept
  <2>1. /\ rows' \in [DOMAIN rows -> Row]
        /\ \A i \in DOMAIN rows : rows'[i].agent = rows[i].agent /\ rows'[i].upstream = rows[i].upstream
    BY <1>0, <1>2 DEF MarkRow, Row, Statuses, GrantTypes, Resolve
  <2> QED
    BY <1>0, <2>1, IsTable
<1>3. ASSUME NEW v \in Revokers, GrantRevokeMark(v)
      PROVE  Kept
  <2>1. /\ rows' \in [DOMAIN rows -> Row]
        /\ \A i \in DOMAIN rows : rows'[i].agent = rows[i].agent /\ rows'[i].upstream = rows[i].upstream
    BY <1>0, <1>3 DEF GrantRevokeMark, Row, Statuses
  <2> QED
    BY <1>0, <2>1, IsTable
<1>4. ASSUME NEW i \in DOMAIN rows, NEW s \in Statuses, rows' = [rows EXCEPT ![i].status = s]
      PROVE  Kept
  <2>0. rows \in [DOMAIN rows -> Row]
    BY <1>0, LenProperties
  <2>1. /\ rows' \in [DOMAIN rows -> Row]
        /\ \A j \in DOMAIN rows : rows'[j].agent = rows[j].agent /\ rows'[j].upstream = rows[j].upstream
    BY <2>0, <1>4 DEF Row
  <2> QED
    BY <1>0, <2>1, IsTable
<1>5. ASSUME NEW v \in Revokers, RequestRevokeMark(v)
      PROVE  Kept
  BY <1>4, <1>5 DEF RequestRevokeMark, RowsOK, Statuses
<1>6. ASSUME NEW i \in DOMAIN rows, NEW s \in {"granted", "denied", "dismissed"}, AccessRequestResolve(i, s)
      PROVE  Kept
  BY <1>4, <1>6 DEF AccessRequestResolve, Statuses
<1>7. CASE rows' = rows
  BY <1>0, <1>7
<1> QED
  BY <1>1, <1>2, <1>3, <1>5, <1>6, <1>7, RowsFrame

-----------------------------------------------------------------------------
(* What a step does to the rules.                                           *)

Values == {TrustAny} \cup {ask.value : ask \in Asks}

\* s is r with another expiry or with values that admit no less.
SameGrant(r, s) ==
  /\ s.by = r.by /\ s.subject = r.subject /\ s.upstream = r.upstream
  /\ s.kind = r.kind /\ s.item = r.item /\ s.body = r.body
  /\ \A v : r.values \cap {TrustAny, v} # {} => s.values \cap {TrustAny, v} # {}

\* One rule under WithValues and under WithExpiry.
Extended(r, id, new) ==
  IF Id(r) = id THEN [r EXCEPT !.values = (IF TrustAny \in new THEN {} ELSE @) \cup new] ELSE r
Renewed(r, id, e) == IF Id(r) = id THEN [r EXCEPT !.expires = e] ELSE r

\* A rule that has been extended is the same grant with the same expiry, and has
\* the new values.
LEMMA ExtendedIs ==
  ASSUME NEW r \in Rule, NEW id, NEW new \in SUBSET Values
  PROVE  /\ Extended(r, id, new) \in Rule /\ SameGrant(r, Extended(r, id, new))
         /\ Id(Extended(r, id, new)) = Id(r) /\ Extended(r, id, new).expires = r.expires
         /\ Id(r) = id => new \subseteq Extended(r, id, new).values
<1> DEFINE s == [r EXCEPT !.values = (IF TrustAny \in new THEN {} ELSE @) \cup new]
<1>1. s \in Rule /\ s.values = (IF TrustAny \in new THEN {} ELSE r.values) \cup new
  BY DEF Rule, Values
<1>2. /\ s.by = r.by /\ s.subject = r.subject /\ s.upstream = r.upstream /\ s.kind = r.kind
      /\ s.item = r.item /\ s.body = r.body /\ s.expires = r.expires
  BY DEF Rule
<1> QED
  BY <1>1, <1>2 DEF Extended, SameGrant, Id

\* A rule that has been renewed is the same grant.
LEMMA RenewedIs ==
  ASSUME NEW r \in Rule, NEW id, NEW e \in Times
  PROVE  /\ Renewed(r, id, e) \in Rule /\ SameGrant(r, Renewed(r, id, e))
         /\ Id(Renewed(r, id, e)) = Id(r)
         /\ Renewed(r, id, e).expires = IF Id(r) = id THEN e ELSE r.expires
<1> DEFINE s == [r EXCEPT !.expires = e]
<1>1. /\ s \in Rule /\ s.by = r.by /\ s.subject = r.subject /\ s.upstream = r.upstream
      /\ s.kind = r.kind /\ s.item = r.item /\ s.body = r.body /\ s.values = r.values /\ s.expires = e
  BY DEF Rule
<1> QED
  BY <1>1 DEF Renewed, SameGrant, Id

\* The rule that approval h writes for item i.
Made(h, i) ==
  [by |-> h, subject |-> Subject(h), upstream |-> Ask(h).upstream, kind |-> Ask(h).kind, item |-> i,
   body |-> Ask(h).body, values |-> IF handler[h].trust THEN {TrustAny} ELSE {Ask(h).value},
   expires |-> handler[h].expires]

\* What an approval writes are rules.
LEMMA MadeIs ==
  ASSUME GrantTypes, CardsOK, NEW h \in Handlers, handler[h].at # "idle", NEW i \in handler[h].todo
  PROVE  Made(h, i) \in Rule
<1>1. Card(h) \in Call /\ Card(h).agent \in Agents /\ Ask(h) \in Asks
  BY DEF GrantTypes, CardsOK, Card, Ask
<1>2. /\ Ask(h).upstream \in Upstreams /\ Ask(h).kind \in {ask.kind : ask \in Asks}
      /\ Ask(h).body \in BOOLEAN /\ Ask(h).value \in {ask.value : ask \in Asks}
  BY <1>1, GrantAssumption DEF Upstreams
<1>3. Subject(h) \in Agents \cup {Everyone}
  BY <1>1 DEF Subject
<1>4. handler[h] \in Resolve
  BY DEF GrantTypes
<1>5. i \in Items /\ handler[h].expires \in Times
  BY <1>4 DEF Resolve
<1> QED
  BY <1>2, <1>3, <1>5 DEF Made, Rule

\* A value an approval adds.
LEMMA AddedIs ==
  ASSUME GrantTypes, CardsOK, NEW h \in Handlers, handler[h].at # "idle"
  PROVE  {IF handler[h].trust THEN TrustAny ELSE Ask(h).value} \in SUBSET Values
<1>1. Ask(h) \in Asks
  BY DEF GrantTypes, CardsOK, Card, Ask
<1> QED
  BY <1>1 DEF Values

\* What approval h adds to the rule it has found.
Added(h) == {IF handler[h].trust THEN TrustAny ELSE Ask(h).value}

\* The steps that change the rules, one by one.
LEMMA RulesStep ==
  ASSUME [Next]_vars
  PROVE  \/ rules' = rules /\ withdrawn' = withdrawn
         \/ \E h \in Handlers : /\ ApplyWrite(h) /\ withdrawn' = withdrawn
                                /\ rules' = rules \cup {Made(h, i) : i \in handler[h].todo}
         \/ \E h \in Handlers :
               /\ ApplyExtend(h) /\ withdrawn' = withdrawn
               /\ handler' = [handler EXCEPT ![h].at = "renew"]
               /\ \E r \in rules : Id(r) = handler[h].target.id
               /\ rules' = {Extended(r, handler[h].target.id, Added(h)) : r \in rules}
         \/ \E h \in Handlers :
               /\ ApplyRenew(h) /\ withdrawn' = withdrawn
               /\ Outlives(handler[h].expires, handler[h].target.expires)
               /\ rules' = {Renewed(r, handler[h].target.id, handler[h].expires) : r \in rules}
         \/ /\ Upset /\ UNCHANGED <<rows, req, handler>>
            /\ \E gone \in SUBSET rules : Withdraw(gone)
         \/ /\ Upset /\ UNCHANGED <<rows, req, handler, withdrawn>>
            /\ \E x \in rules, e \in Times : rules' = (rules \ {x}) \cup {[x EXCEPT !.expires = e]}
<1>1. ASSUME NEW h \in Handlers, ApplyWrite(h)
      PROVE  withdrawn' = withdrawn /\ rules' = rules \cup {Made(h, i) : i \in handler[h].todo}
  BY <1>1 DEF ApplyWrite, Made
<1>2. ASSUME NEW h \in Handlers, ApplyExtend(h)
      PROVE  \/ rules' = rules /\ withdrawn' = withdrawn
             \/ /\ withdrawn' = withdrawn /\ handler' = [handler EXCEPT ![h].at = "renew"]
                /\ \E r \in rules : Id(r) = handler[h].target.id
                /\ rules' = {Extended(r, handler[h].target.id, Added(h)) : r \in rules}
  <2>1. WithValues(handler[h].target.id, Added(h))
          = {Extended(r, handler[h].target.id, Added(h)) : r \in rules}
    BY DEF WithValues, Extended
  <2>2. CASE \E r \in rules : Id(r) = handler[h].target.id
    BY <1>2, <2>1, <2>2 DEF ApplyExtend, Added
  <2>3. CASE ~ \E r \in rules : Id(r) = handler[h].target.id
    BY <1>2, <2>3 DEF ApplyExtend
  <2> QED
    BY <2>2, <2>3
<1>3. ASSUME NEW h \in Handlers, ApplyRenew(h)
      PROVE  \/ rules' = rules /\ withdrawn' = withdrawn
             \/ /\ withdrawn' = withdrawn
                /\ Outlives(handler[h].expires, handler[h].target.expires)
                /\ rules' = {Renewed(r, handler[h].target.id, handler[h].expires) : r \in rules}
  <2>1. WithExpiry(handler[h].target.id, handler[h].expires)
          = {Renewed(r, handler[h].target.id, handler[h].expires) : r \in rules}
    BY DEF WithExpiry, Renewed
  <2> QED
    BY <1>3, <2>1 DEF ApplyRenew
<1>4. ASSUME NEW x \in rules, NEW e \in Choosable, RuleRenew(x, e)
      PROVE  /\ Upset /\ UNCHANGED <<rows, req, handler, withdrawn>> /\ e \in Times
             /\ rules' = (rules \ {x}) \cup {[x EXCEPT !.expires = e]}
  BY <1>4 DEF RuleRenew, Choosable, Times
<1> QED
  BY <1>1, <1>2, <1>3, <1>4, RulesFrame

\* Rules stay rules; a rule that is gone is known as withdrawn; and a rule is an
\* old one or has just been written.
LEMMA RulesStay ==
  ASSUME GrantTypes, CardsOK, [Next]_vars
  PROVE  /\ rules' \subseteq Rule /\ withdrawn \subseteq withdrawn'
         /\ \A r \in rules : \/ <<r.kind, r.upstream, r.item>> \in withdrawn'
                             \/ \E s \in rules' : SameGrant(r, s)
         /\ \A s \in rules' : \/ \E r \in rules : SameGrant(r, s)
                              \/ \E h \in Handlers : /\ ApplyWrite(h)
                                                     /\ \E i \in handler[h].todo : s = Made(h, i)
<1> DEFINE Stay == /\ rules' \subseteq Rule /\ withdrawn \subseteq withdrawn'
                   /\ \A r \in rules : \/ <<r.kind, r.upstream, r.item>> \in withdrawn'
                                       \/ \E s \in rules' : SameGrant(r, s)
                   /\ \A s \in rules' : \/ \E r \in rules : SameGrant(r, s)
                                        \/ \E h \in Handlers : /\ ApplyWrite(h)
                                                               /\ \E i \in handler[h].todo : s = Made(h, i)
<1>0. rules \subseteq Rule /\ \A r \in rules : SameGrant(r, r)
  BY DEF GrantTypes, SameGrant
<1>1. CASE rules' = rules /\ withdrawn' = withdrawn
  BY <1>0, <1>1
<1>2. ASSUME NEW h \in Handlers, ApplyWrite(h), withdrawn' = withdrawn,
             rules' = rules \cup {Made(h, i) : i \in handler[h].todo}
      PROVE  Stay
  <2>1. \A i \in handler[h].todo : Made(h, i) \in Rule
    BY <1>2, MadeIs DEF ApplyWrite
  <2> QED
    BY <1>0, <1>2, <2>1
<1>3. ASSUME NEW h \in Handlers, ApplyExtend(h), withdrawn' = withdrawn,
             rules' = {Extended(r, handler[h].target.id, Added(h)) : r \in rules}
      PROVE  Stay
  <2>1. Added(h) \in SUBSET Values
    BY <1>3, AddedIs DEF ApplyExtend, Added
  <2>2. \A r \in rules : /\ Extended(r, handler[h].target.id, Added(h)) \in Rule
                         /\ SameGrant(r, Extended(r, handler[h].target.id, Added(h)))
    BY <1>0, <2>1, ExtendedIs
  <2> QED
    BY <1>0, <1>3, <2>2
<1>4. ASSUME NEW h \in Handlers, withdrawn' = withdrawn,
             rules' = {Renewed(r, handler[h].target.id, handler[h].expires) : r \in rules}
      PROVE  Stay
  <2>1. handler[h].expires \in Times
    BY DEF GrantTypes, Resolve
  <2>2. \A r \in rules : /\ Renewed(r, handler[h].target.id, handler[h].expires) \in Rule
                         /\ SameGrant(r, Renewed(r, handler[h].target.id, handler[h].expires))
    BY <1>0, <2>1, RenewedIs
  <2> QED
    BY <1>0, <1>4, <2>2
<1>5. ASSUME NEW gone \in SUBSET rules, Withdraw(gone)
      PROVE  Stay
  BY <1>0, <1>5 DEF Withdraw
<1>6. ASSUME NEW x \in rules, NEW e \in Times, withdrawn' = withdrawn,
             rules' = (rules \ {x}) \cup {[x EXCEPT !.expires = e]}
      PROVE  Stay
  <2>1. [x EXCEPT !.expires = e] = Renewed(x, Id(x), e)
    BY DEF Renewed
  <2>2. [x EXCEPT !.expires = e] \in Rule /\ SameGrant(x, [x EXCEPT !.expires = e])
    BY <1>0, <2>1, RenewedIs
  <2> QED
    BY <1>0, <1>6, <2>2
<1> QED
  BY <1>1, <1>2, <1>3, <1>4, <1>5, <1>6, RulesStep

-----------------------------------------------------------------------------
(* The invariant, part by part.                                             *)

\* The items of an ask are items.
LEMMA ItemsOfAsks ==
  /\ \A ask \in Asks : ask.items \subseteq Items /\ ask.upstream \in Upstreams
  /\ \A s \in Narrowings : s \subseteq Items
  BY DEF Items, Upstreams

\* Requests keep their type, and know who asks for what once they have begun.
LEMMA RequestsStep ==
  ASSUME GrantTypes, CardsOK, [Next]_vars
  PROVE  /\ req' \in [Reqs -> Call]
         /\ \A q \in Reqs : req'[q].at # "idle" =>
              /\ req'[q].agent \in Agents /\ req'[q].ask \in Asks
              /\ req'[q].ask.kind = "operation" => req'[q].items = req'[q].ask.items
<1> DEFINE Fine == \A q \in Reqs : req'[q].at # "idle" =>
              /\ req'[q].agent \in Agents /\ req'[q].ask \in Asks
              /\ req'[q].ask.kind = "operation" => req'[q].items = req'[q].ask.items
<1>0. /\ req \in [Reqs -> Call]
      /\ \A q \in Reqs : req[q].at # "idle" =>
            /\ req[q].agent \in Agents /\ req[q].ask \in Asks
            /\ req[q].ask.kind = "operation" => req[q].items = req[q].ask.items
  BY DEF GrantTypes, CardsOK
<1>1. ASSUME NEW p \in Reqs, NEW at \in {"spawned", "parked", "decided", "left"}, req[p].at # "idle",
             req' = [req EXCEPT ![p].at = at]
      PROVE  req' \in [Reqs -> Call] /\ Fine
  BY <1>0, <1>1 DEF Call
<1>2. ASSUME NEW p \in Reqs, RequestStep(p)
      PROVE  req' \in [Reqs -> Call] /\ Fine
  BY <1>1, <1>2 DEF RequestStep, RequestLog, Park, Leave, Queue
<1>3. ASSUME NEW p \in Reqs, NEW a \in Agents, NEW ask \in Asks, RequestCheck(p, a, ask)
      PROVE  req' \in [Reqs -> Call] /\ Fine
  <2>1. Wanted(a, ask) \subseteq Items /\ (ask.kind = "operation" => Wanted(a, ask) = ask.items)
    BY ItemsOfAsks DEF Wanted
  <2>2. PICK at \in {"noSuchHost", "answered", "checked"} :
           req' = [req EXCEPT ![p] = [at |-> at, agent |-> a, ask |-> ask, items |-> Wanted(a, ask)]]
    BY <1>3 DEF RequestCheck
  <2> QED
    BY <1>0, <2>1, <2>2 DEF Call
<1>4. ASSUME NEW h \in Handlers, HandlerStep(h), ~ Deliver(h)
      PROVE  req' = req
  BY <1>4 DEF HandlerStep, ApplyHost, ApplyRead, ApplyFind, ApplyWrite, ApplyExtend, ApplyRenew,
              ApplyFails, MarkRow
<1>5. ASSUME NEW h \in Handlers, Deliver(h)
      PROVE  req' \in [Reqs -> Call] /\ Fine
  <2>1. handler[h].card \in Reqs /\ req[handler[h].card].at # "idle"
    BY <1>5 DEF Deliver, CardsOK, Card
  <2>2. CASE handler[h].card \in Queue
    BY <1>1, <1>5, <2>1, <2>2 DEF Deliver
  <2>3. CASE handler[h].card \notin Queue
    <3>1. req' = req
      BY <1>0, <1>5, <2>1, <2>3 DEF Deliver, Call
    <3> QED
      BY <1>0, <3>1
  <2> QED
    BY <2>2, <2>3
<1>6. ASSUME NEW h \in Handlers, NEW p \in Reqs, NEW e, NEW approve, NEW attach, NEW trust, NEW final,
             ResolveGet(h, p, approve, final, attach, trust, e)
      PROVE  req' = req
  BY <1>6 DEF ResolveGet
<1>7. CASE Restart
  BY <1>0, <1>7 DEF Restart, Call
<1> QED
  BY <1>0, <1>2, <1>3, <1>4, <1>5, <1>6, <1>7, CallsFrame

\* A resolve call keeps its type and has a card.
LEMMA HandlersStep ==
  ASSUME GrantTypes, CardsOK, [Next]_vars, NEW h \in Handlers
  PROVE  /\ handler' \in [Handlers -> Resolve]
         /\ handler'[h].at # "idle" /\ handler[h].at = "idle" =>
              /\ handler'[h].card \in Reqs /\ req[handler'[h].card].at \in {"parked", "decided", "left"}
<1>0. handler \in [Handlers -> Resolve] /\ rules \subseteq Rule
  BY DEF GrantTypes
<1> DEFINE Fine == handler'[h].at # "idle" /\ handler[h].at = "idle" =>
              /\ handler'[h].card \in Reqs /\ req[handler'[h].card].at \in {"parked", "decided", "left"}
<1>1. ASSUME NEW p \in Reqs, RequestStep(p) \/ \E a \in Agents, ask \in Asks : RequestCheck(p, a, ask)
      PROVE  handler' = handler
  BY <1>1 DEF RequestStep, RequestCheck, RequestLog, Park, Leave
<1>2. ASSUME NEW g \in Handlers, HandlerStep(g)
      PROVE  handler' \in [Handlers -> Resolve] /\ Fine
  <2>1. ASSUME NEW at \in {"mark", "renew", "failed", "deliver", "ok", "gone"},
               handler' = [handler EXCEPT ![g].at = at], handler[g].at # "idle"
        PROVE  handler' \in [Handlers -> Resolve] /\ Fine
    BY <1>0, <2>1 DEF Resolve
  <2>2. CASE ApplyHost(g) \/ ApplyWrite(g) \/ ApplyRenew(g) \/ ApplyFails(g) \/ MarkRow(g)
    BY <2>1, <2>2 DEF ApplyHost, ApplyWrite, ApplyRenew, ApplyFails, MarkRow
  <2>3. CASE Deliver(g) \/ ApplyExtend(g)
    BY <2>1, <2>3 DEF Deliver, ApplyExtend
  <2>4. CASE ApplyRead(g)
    <3>1. Todo(g) \in SUBSET Items
      BY <1>0 DEF Todo, Resolve
    <3>2. handler[g].at # "idle" /\ handler' = [handler EXCEPT ![g].at = "write", ![g].todo = Todo(g)]
      BY <2>4 DEF ApplyRead
    <3>3. ASSUME NEW todo \in SUBSET Items
          PROVE  [handler EXCEPT ![g].at = "write", ![g].todo = todo] \in [Handlers -> Resolve]
      <4>1. [handler[g] EXCEPT !.at = "write", !.todo = todo] \in Resolve
        BY <1>0 DEF Resolve
      <4>2. [handler EXCEPT ![g].at = "write", ![g].todo = todo]
              = [handler EXCEPT ![g] = [handler[g] EXCEPT !.at = "write", !.todo = todo]]
        BY <1>0
      <4> QED
        BY <1>0, <4>1, <4>2
    <3>4. handler' \in [Handlers -> Resolve] /\ \A f \in Handlers \ {g} : handler'[f] = handler[f]
      BY <1>0, <3>1, <3>2, <3>3
    <3> QED
      BY <3>2, <3>4
  <2>5. CASE ApplyFind(g)
    <3>1. \A r \in SameKey(g) : [id |-> Id(r), expires |-> r.expires] \in Target
      BY <1>0 DEF SameKey, Target, Id, Rule
    <3> QED
      BY <1>0, <2>5, <3>1 DEF ApplyFind, Resolve
  <2> QED
    BY <1>2, <2>2, <2>3, <2>4, <2>5 DEF HandlerStep
<1>3. ASSUME NEW g \in Handlers, NEW p \in Reqs, NEW e \in Choosable,
             NEW approve \in BOOLEAN, NEW attach \in BOOLEAN, NEW trust \in BOOLEAN,
             NEW final \in Narrowings \cup {req[p].items},
             ResolveGet(g, p, approve, final, attach, trust, e)
      PROVE  handler' \in [Handlers -> Resolve] /\ Fine
  <2>1. final \subseteq Items /\ e \in Times
    BY ItemsOfAsks DEF GrantTypes, Call, Choosable, Times
  <2>2. IdleHandler \in Resolve
    BY DEF IdleHandler, Resolve, Times
  <2>3. PICK new \in Resolve : /\ new.card = p
                               /\ handler' = [handler EXCEPT ![g] = new]
    <3>1. CASE p \notin Queue
      BY <1>3, <2>2, <3>1 DEF ResolveGet, IdleHandler, Resolve
    <3>2. CASE p \in Queue
      BY <1>3, <2>1, <2>2, <3>2 DEF ResolveGet, IdleHandler, Resolve
    <3> QED
      BY <3>1, <3>2
  <2>4. req[p].at \in {"parked", "decided", "left"}
    BY <1>3 DEF ResolveGet
  <2> QED
    BY <1>0, <2>3, <2>4
<1>4. CASE Restart
  BY <1>0, <1>4 DEF Restart, Resolve
<1> QED
  BY <1>0, <1>1, <1>2, <1>3, <1>4, CallsFrame

\* The other variables keep their types.
LEMMA OthersStep ==
  ASSUME GrantTypes, CardsOK, [Next]_vars
  PROVE  /\ agents' \subseteq Agents /\ cred' \subseteq Upstreams
         /\ host' \in [Upstreams -> {"unknown", "lazy", "registered"}]
         /\ revoker' \in [Revokers -> Revoke] /\ now' \in 0 .. MaxTime
         /\ upsets' \in 0 .. MaxUpsets /\ upsets' >= upsets
<1> DEFINE Fine == /\ agents' \subseteq Agents /\ cred' \subseteq Upstreams
                   /\ host' \in [Upstreams -> {"unknown", "lazy", "registered"}]
                   /\ revoker' \in [Revokers -> Revoke] /\ now' \in 0 .. MaxTime
                   /\ upsets' \in 0 .. MaxUpsets /\ upsets' >= upsets
<1>0. /\ agents \subseteq Agents /\ cred \subseteq Upstreams
      /\ host \in [Upstreams -> {"unknown", "lazy", "registered"}]
      /\ revoker \in [Revokers -> Revoke] /\ now \in 0 .. MaxTime /\ upsets \in 0 .. MaxUpsets
      /\ MaxTime \in Nat /\ MaxUpsets \in Nat
  BY GrantAssumption DEF GrantTypes
<1>a. Upset => upsets' \in 0 .. MaxUpsets /\ upsets' >= upsets
  BY <1>0 DEF Upset
<1>1. CASE UNCHANGED <<agents, cred, host, revoker, now, upsets>>
  BY <1>0, <1>1
<1>2. ASSUME NEW q \in Reqs, RequestStep(q)
      PROVE  Fine
  BY <1>1, <1>2 DEF RequestStep, RequestLog, Park, Leave
<1>3. ASSUME NEW q \in Reqs, NEW a \in Agents, NEW ask \in Asks, RequestCheck(q, a, ask)
      PROVE  Fine
  <2>1. Registered(ask) \in [Upstreams -> {"unknown", "lazy", "registered"}]
    BY <1>0 DEF Registered
  <2> QED
    BY <1>0, <1>3, <2>1 DEF RequestCheck
<1>4. ASSUME NEW h \in Handlers, HandlerStep(h)
      PROVE  Fine
  <2>1. CASE ApplyHost(h)
    <3>1. Ask(h) \in Asks
      BY <2>1 DEF ApplyHost, CardsOK, Card, Ask
    <3> QED
      BY <1>0, <2>1, <3>1, ItemsOfAsks DEF ApplyHost
  <2>2. CASE ApplyFails(h)
    BY <1>0, <1>a, <2>2 DEF ApplyFails
  <2>3. CASE ApplyRead(h) \/ ApplyFind(h) \/ ApplyWrite(h) \/ ApplyExtend(h) \/ ApplyRenew(h)
             \/ MarkRow(h) \/ Deliver(h)
    BY <1>1, <2>3 DEF ApplyRead, ApplyFind, ApplyWrite, ApplyExtend, ApplyRenew, MarkRow, Deliver
  <2> QED
    BY <1>4, <2>1, <2>2, <2>3 DEF HandlerStep
<1>5. ASSUME NEW h \in Handlers, NEW q \in Reqs, NEW e, NEW approve, NEW attach, NEW trust, NEW final,
             ResolveGet(h, q, approve, final, attach, trust, e)
      PROVE  Fine
  BY <1>1, <1>5 DEF ResolveGet
<1>b. ASSUME NEW v \in Revokers, NEW a \in Agents, NEW u \in Upstreams \cup {Nil},
             NEW at \in {"grant", "agent"}, NEW i \in Nat, Upset,
             revoker' = [revoker EXCEPT ![v] = [at |-> at, agent |-> a, upstream |-> u, row |-> i]],
             UNCHANGED <<agents, host, cred, now>>
      PROVE  Fine
  BY <1>0, <1>a, <1>b DEF Revoke
<1>6. ASSUME NEW v \in Revokers, NEW a \in Agents, AgentDelete(v, a) \/ \E u \in Upstreams : GrantRevoke(v, a, u)
      PROVE  Fine
  <2>1. CASE AgentDelete(v, a)
    BY <1>b, <2>1 DEF AgentDelete
  <2>2. ASSUME NEW u \in Upstreams, GrantRevoke(v, a, u)
        PROVE  Fine
    BY <1>b, <2>2 DEF GrantRevoke
  <2> QED
    BY <1>6, <2>1, <2>2
<1>7. ASSUME NEW v \in Revokers, NEW i \in DOMAIN rows, RequestRevoke(v, i)
      PROVE  Fine
  <2>1. i \in Nat /\ rows[i] \in Row
    BY LenProperties, ElementOfSeq DEF GrantTypes
  <2> QED
    BY <1>0, <1>a, <1>7, <2>1 DEF RequestRevoke, Revoke, Row
<1>8. ASSUME NEW v \in Revokers, RevokerStep(v)
      PROVE  Fine
  BY <1>0, <1>8 DEF RevokerStep, GrantRevokeMark, RequestRevokeMark, AgentDeleteRow, Revoke
<1>9. ASSUME NEW r \in rules, RuleDelete(r) \/ \E e \in Choosable : RuleRenew(r, e)
      PROVE  Fine
  BY <1>0, <1>a, <1>9 DEF RuleDelete, RuleRenew
<1>10. ASSUME NEW i, NEW s, AccessRequestResolve(i, s)
       PROVE  Fine
  BY <1>0, <1>a, <1>10 DEF AccessRequestResolve
<1>11. CASE Tick
  BY <1>0, <1>11 DEF Tick
<1>12. CASE Restart
  BY <1>0, <1>a, <1>12 DEF Restart, Revoke
<1>13. CASE UNCHANGED vars
  BY <1>1, <1>13 DEF vars
<1> QED
  BY <1>2, <1>3, <1>4, <1>5, <1>6, <1>7, <1>8, <1>9, <1>10, <1>11, <1>12, <1>13 DEF Next

\* The types and the cards.
LEMMA TypesStep ==
  ASSUME GrantTypes, CardsOK, \A g \in Handlers : HandlerOK(g), RowsOK, [Next]_vars
  PROVE  GrantTypes' /\ CardsOK'
<1>1. GrantTypes'
  <2>1. handler' \in [Handlers -> Resolve]
    <3>1. CASE Handlers = {}
      <4>1. handler' = handler
        BY <3>1, CallsFrame DEF GrantTypes, RequestStep, RequestCheck, RequestLog, Park, Leave, Restart
      <4> QED
        BY <4>1 DEF GrantTypes
    <3>2. CASE Handlers # {}
      BY <3>2, HandlersStep
    <3> QED
      BY <3>1, <3>2
  <2> QED
    BY <2>1, RulesStay, RowsStay, RequestsStep, OthersStep DEF GrantTypes
<1>2. ASSUME NEW h \in Handlers, handler'[h].at # "idle"
      PROVE  handler'[h].card \in Reqs /\ Card(h)'.at # "idle"
  <2>1. CASE handler[h].at # "idle"
    BY <2>1, AskStays
  <2>2. CASE handler[h].at = "idle"
    BY <1>2, <2>2, HandlersStep, CardsStay DEF Card
  <2> QED
    BY <2>1, <2>2
<1>3. CardsOK'
  BY <1>2, RequestsStep DEF CardsOK
<1> QED
  BY <1>1, <1>3

\* What a resolve call has decided and found.
LEMMA HandlerOKStep ==
  ASSUME GrantTypes, CardsOK, \A g \in Handlers : HandlerOK(g), RulesOwned, [Next]_vars,
         NEW h \in Handlers
  PROVE  HandlerOK(h)'
<1>0. handler \in [Handlers -> Resolve] /\ rules \subseteq Rule /\ handler[h] \in Resolve
  BY DEF GrantTypes
<1>1. ASSUME NEW g \in Handlers, handler[g].at # "idle"
      PROVE  handler'[g].at # "idle" /\ Ask(g)' = Ask(g)
  BY <1>1, AskStays, HandlersStay
<1>2. ASSUME handler[h].target # Nil
      PROVE  /\ Ask(h)'.kind = "operation" /\ ~ Ask(h)'.body /\ handler[h].target.id[2] = Ask(h)'.name
             /\ \E g \in Handlers :
                   /\ g = handler[h].target.id[1] /\ handler'[g].at # "idle"
                   /\ Ask(g)'.kind = "operation" /\ Ask(g)'.upstream = Ask(h)'.upstream
  <2>1. PICK g \in Handlers : g = handler[h].target.id[1]
    BY <1>0, <1>2 DEF Resolve, Target
  <2>2. /\ handler[g].at # "idle" /\ handler[h].at # "idle" /\ Ask(g).kind = "operation"
        /\ Ask(g).upstream = Ask(h).upstream
    BY <1>2, <2>1 DEF HandlerOK
  <2>3. Ask(g)' = Ask(g) /\ Ask(h)' = Ask(h) /\ handler'[g].at # "idle"
    BY <1>1, <2>2
  <2> QED
    BY <1>2, <2>1, <2>2, <2>3 DEF HandlerOK
<1>3. CASE handler'[h] = handler[h]
  <2>1. CASE handler[h].at = "idle"
    BY <1>3, <2>1 DEF HandlerOK
  <2>2. CASE handler[h].at # "idle"
    BY <1>1, <1>2, <1>3, <2>2 DEF HandlerOK
  <2> QED
    BY <2>1, <2>2
<1>4. ASSUME NEW at \in {"mark", "renew", "failed", "deliver", "ok", "gone", "cut"},
             handler[h].at # "idle", handler'[h] = [handler[h] EXCEPT !.at = at],
             at = "renew" => handler[h].at = "extend"
      PROVE  HandlerOK(h)'
  <2>1. /\ handler'[h].at = at /\ handler'[h].approve = handler[h].approve
        /\ handler'[h].final = handler[h].final /\ handler'[h].target = handler[h].target
    BY <1>0, <1>4 DEF Resolve
  <2> QED
    BY <1>1, <1>2, <1>4, <2>1 DEF HandlerOK
<1>5. CASE HandlerStep(h)
  <2>1. ASSUME NEW at, handler' = [handler EXCEPT ![h].at = at]
        PROVE  handler'[h] = [handler[h] EXCEPT !.at = at]
    BY <1>0, <2>1
  <2>2. CASE ApplyHost(h) \/ ApplyWrite(h) \/ ApplyRenew(h) \/ ApplyFails(h) \/ MarkRow(h)
    BY <1>4, <2>1, <2>2 DEF ApplyHost, ApplyWrite, ApplyRenew, ApplyFails, MarkRow
  <2>3. CASE Deliver(h) \/ ApplyExtend(h)
    BY <1>4, <2>1, <2>3 DEF Deliver, ApplyExtend
  <2>4. CASE ApplyRead(h)
    <3>1. /\ handler[h].at = "apply" /\ Ask(h)' = Ask(h) /\ Ask(h).kind \in {"k8s-access", "preset"}
          /\ handler[h].target = Nil
      BY <1>1, <2>4 DEF ApplyRead, HandlerOK
    <3>2. /\ handler'[h].at = "write" /\ handler'[h].approve = handler[h].approve
          /\ handler'[h].final = handler[h].final /\ handler'[h].target = Nil
          /\ handler'[h].todo = Todo(h)
      BY <1>0, <2>4, <3>1 DEF ApplyRead, Resolve
    <3>3. Todo(h) \subseteq handler[h].final
      BY DEF Todo
    <3> QED
      BY <3>1, <3>2, <3>3 DEF HandlerOK
  <2>5. CASE ApplyFind(h)
    <3>1. /\ handler[h].at = "apply" /\ Ask(h)' = Ask(h) /\ Ask(h).kind = "operation"
          /\ handler[h].target = Nil
      BY <1>1, <2>5 DEF ApplyFind, HandlerOK
    <3>2. CASE handler' = [handler EXCEPT ![h].at = "write", ![h].todo = handler[h].final]
      <4>1. /\ handler'[h].at = "write" /\ handler'[h].approve = handler[h].approve
            /\ handler'[h].final = handler[h].final /\ handler'[h].target = Nil
            /\ handler'[h].todo = handler[h].final
        BY <1>0, <3>1, <3>2 DEF Resolve
      <4> QED
        BY <3>1, <4>1 DEF HandlerOK
    <3>3. ASSUME NEW r \in SameKey(h),
                 handler' = [handler EXCEPT ![h].at = "extend",
                                            ![h].target = [id |-> Id(r), expires |-> r.expires]]
          PROVE  HandlerOK(h)'
      <4>1. /\ handler'[h].at = "extend" /\ handler'[h].approve = handler[h].approve
            /\ handler'[h].final = handler[h].final
            /\ handler'[h].target = [id |-> Id(r), expires |-> r.expires]
        BY <1>0, <3>1, <3>3 DEF Resolve
      <4>2. /\ r \in rules /\ r.kind = "operation" /\ r.upstream = Ask(h).upstream
            /\ r.item = Ask(h).name /\ ~ Ask(h).body
        BY DEF SameKey
      <4>3. r.by \in Handlers /\ handler[r.by].at # "idle"
        BY <1>0, <4>2 DEF Rule, RulesOwned, Owned, Late
      <4>4. Ask(r.by).kind = "operation" /\ Ask(r.by).upstream = Ask(h).upstream
        BY <4>2 DEF RulesOwned, Owned
      <4>5. handler'[r.by].at # "idle" /\ Ask(r.by)' = Ask(r.by)
        BY <1>1, <4>3
      <4>6. handler'[h].target.id[1] = r.by /\ handler'[h].target.id[2] = r.item
        BY <4>1 DEF Id
      <4>7. handler'[h].target # Nil
        BY <1>0, <4>1, <4>2, GrantAssumption DEF Id, Rule, Times
      <4> QED
        BY <3>1, <4>1, <4>2, <4>4, <4>5, <4>6, <4>7 DEF HandlerOK
    <3> QED
      BY <2>5, <3>2, <3>3 DEF ApplyFind
  <2> QED
    BY <1>5, <2>2, <2>3, <2>4, <2>5 DEF HandlerStep
<1>6. ASSUME NEW q \in Reqs, NEW e \in Choosable,
             NEW approve \in BOOLEAN, NEW attach \in BOOLEAN, NEW trust \in BOOLEAN,
             NEW final \in Narrowings \cup {req[q].items},
             ResolveGet(h, q, approve, final, attach, trust, e)
      PROVE  HandlerOK(h)'
  <2>1. /\ handler'[h].card = q /\ handler'[h].target = Nil
        /\ \/ handler'[h].at = "gone" /\ ~ handler'[h].approve
           \/ /\ handler'[h].at = (IF approve THEN "apply" ELSE "mark")
              /\ handler'[h].approve = approve /\ handler'[h].final = final
    BY <1>0, <1>6 DEF ResolveGet, IdleHandler
  <2>2. Ask(h)' = req[q].ask /\ req[q].at # "idle"
    BY <1>6, <2>1 DEF ResolveGet, Ask, Card
  <2>3. req[q].ask.kind = "operation" => final = {req[q].ask.name}
    BY <1>6, <2>2, GrantAssumption DEF ResolveGet, CardsOK
  <2> QED
    BY <2>1, <2>2, <2>3 DEF HandlerOK
<1> QED
  BY <1>3, <1>4, <1>5, <1>6, Moves

\* Rules belong to the approval that made them.
LEMMA OwnedStep ==
  ASSUME GrantTypes, CardsOK, \A g \in Handlers : HandlerOK(g), RulesOwned, [Next]_vars
  PROVE  RulesOwned'
<1>0. rules \subseteq Rule /\ handler \in [Handlers -> Resolve]
  BY DEF GrantTypes
<1>1. ASSUME NEW s \in rules'
      PROVE  Owned(s)'
  <2>1. ASSUME NEW r \in rules, SameGrant(r, s)
        PROVE  Owned(s)'
    <3>1. PICK h \in Handlers : h = r.by
      BY <1>0 DEF Rule
    <3>2. handler[h].at # "idle" /\ handler[h].at \in Late /\ Owned(r)
      BY <3>1 DEF RulesOwned, Owned, Late
    <3>3. /\ handler'[h].at \in Late /\ handler'[h].approve = handler[h].approve
          /\ handler'[h].final = handler[h].final /\ Ask(h)' = Ask(h) /\ Subject(h)' = Subject(h)
      BY <3>2, HandlersStay, AskStays
    <3>4. s.by = h
      BY <2>1, <3>1 DEF SameGrant
    <3> QED
      BY <2>1, <3>1, <3>2, <3>3, <3>4 DEF Owned, SameGrant
  <2>2. ASSUME NEW h \in Handlers, ApplyWrite(h), NEW i \in handler[h].todo, s = Made(h, i)
        PROVE  Owned(s)'
    <3>1. handler[h].at = "write" /\ handler[h].approve /\ i \in handler[h].final
      BY <2>2 DEF ApplyWrite, HandlerOK
    <3>2. handler'[h].at = "mark"
      BY <1>0, <2>2 DEF ApplyWrite, Resolve
    <3>3. /\ handler'[h].approve = handler[h].approve /\ handler'[h].final = handler[h].final
          /\ Ask(h)' = Ask(h) /\ Subject(h)' = Subject(h)
      BY <3>1, HandlersStay, AskStays
    <3>4. /\ s.by = h /\ s.kind = Ask(h).kind /\ s.upstream = Ask(h).upstream
          /\ s.body = Ask(h).body /\ s.item = i /\ s.subject = Subject(h)
      BY <2>2 DEF Made
    <3> QED
      BY <3>1, <3>2, <3>3, <3>4 DEF Owned, Late
  <2> QED
    BY <2>1, <2>2, RulesStay
<1>2. \A s, x \in rules' : Id(x) = Id(s) => x = s
  <2>0. \A s, x \in rules : Id(x) = Id(s) => x = s
    BY DEF RulesOwned
  <2>1. ASSUME NEW h \in Handlers, ApplyWrite(h), rules' = rules \cup {Made(h, i) : i \in handler[h].todo}
        PROVE  \A s, x \in rules' : Id(x) = Id(s) => x = s
    <3>1. \A r \in rules : r.by # h
      BY <2>1 DEF ApplyWrite, RulesOwned, Owned, Late
    <3>2. \A i \in handler[h].todo : Made(h, i).by = h /\ Made(h, i).item = i
      BY DEF Made
    <3> QED
      BY <2>0, <2>1, <3>1, <3>2 DEF Id
  <2>2. ASSUME NEW h \in Handlers, ApplyExtend(h),
               rules' = {Extended(r, handler[h].target.id, Added(h)) : r \in rules}
        PROVE  \A s, x \in rules' : Id(x) = Id(s) => x = s
    <3>1. Added(h) \in SUBSET Values
      BY <2>2, AddedIs DEF ApplyExtend, Added
    <3>2. \A r \in rules : Id(Extended(r, handler[h].target.id, Added(h))) = Id(r)
      BY <1>0, <3>1, ExtendedIs
    <3> QED
      BY <2>0, <2>2, <3>2
  <2>3. ASSUME NEW h \in Handlers,
               rules' = {Renewed(r, handler[h].target.id, handler[h].expires) : r \in rules}
        PROVE  \A s, x \in rules' : Id(x) = Id(s) => x = s
    <3>1. handler[h].expires \in Times
      BY <1>0 DEF Resolve
    <3>2. \A r \in rules : Id(Renewed(r, handler[h].target.id, handler[h].expires)) = Id(r)
      BY <1>0, <3>1, RenewedIs
    <3> QED
      BY <2>0, <2>3, <3>2
  <2>4. ASSUME NEW x \in rules, NEW e \in Times,
               rules' = (rules \ {x}) \cup {[x EXCEPT !.expires = e]}
        PROVE  \A s, y \in rules' : Id(y) = Id(s) => y = s
    <3>1. Id([x EXCEPT !.expires = e]) = Id(x)
      BY <1>0, RenewedIs DEF Renewed
    <3> QED
      BY <2>0, <2>4, <3>1
  <2>5. ASSUME NEW gone \in SUBSET rules, Withdraw(gone)
        PROVE  \A s, y \in rules' : Id(y) = Id(s) => y = s
    BY <2>0, <2>5 DEF Withdraw
  <2> QED
    BY <2>0, <2>1, <2>2, <2>3, <2>4, <2>5, RulesStep
<1>3. \A s \in rules' : \A x \in rules' : Id(x)' = Id(s)' => x = s
  BY <1>2 DEF Id
<1> QED
  BY <1>1, <1>3 DEF RulesOwned

\* A grant that was given stays given or is known as withdrawn.
LEMMA GivenStays ==
  ASSUME GrantTypes, CardsOK, \A g \in Handlers : HandlerOK(g), [Next]_vars, NEW h \in Handlers,
         handler[h].at # "idle", handler'[h].target = handler[h].target, NEW i, Given(h, i)
  PROVE  Given(h, i)'
<1>1. Ask(h)' = Ask(h) /\ Subject(h)' = Subject(h)
  BY AskStays
<1>2. CASE <<Ask(h).kind, Ask(h).upstream, i>> \in withdrawn
  BY <1>1, <1>2, RulesStay DEF Given
<1>3. ASSUME NEW r \in rules, Serves(h, i, r)
      PROVE  Given(h, i)'
  <2>1. CASE <<r.kind, r.upstream, r.item>> \in withdrawn'
    BY <1>1, <1>3, <2>1 DEF Given, Serves
  <2>2. ASSUME NEW s \in rules', SameGrant(r, s)
        PROVE  Given(h, i)'
    <3>1. Serves(h, i, s)'
      BY <1>1, <1>3, <2>2 DEF Serves, SameGrant, Id
    <3> QED
      BY <3>1 DEF Given
  <2> QED
    BY <2>1, <2>2, RulesStay
<1> QED
  BY <1>2, <1>3 DEF Given

\* The rule an approval has found is an operation rule for what the approval is
\* about.
LEMMA FoundIs ==
  ASSUME GrantTypes, \A g \in Handlers : HandlerOK(g), RulesOwned, NEW h \in Handlers,
         handler[h].target # Nil, NEW r \in rules, Id(r) = handler[h].target.id
  PROVE  /\ r.kind = "operation" /\ r.upstream = Ask(h).upstream /\ r.item = Ask(h).name
         /\ r.subject = Everyone /\ Subject(h) = Everyone /\ Ask(h).kind = "operation"
<1>1. r.by = handler[h].target.id[1] /\ r.item = handler[h].target.id[2]
  BY DEF Id
<1>2. /\ Ask(h).kind = "operation" /\ r.item = Ask(h).name /\ Ask(r.by).kind = "operation"
      /\ Ask(r.by).upstream = Ask(h).upstream
  BY <1>1 DEF HandlerOK
<1>3. r.kind = Ask(r.by).kind /\ r.upstream = Ask(r.by).upstream /\ r.subject = Subject(r.by)
  BY DEF RulesOwned, Owned
<1> QED
  BY <1>2, <1>3 DEF Subject

\* What an approval has given.
LEMMA EffectStep ==
  ASSUME GrantTypes, CardsOK, \A g \in Handlers : HandlerOK(g), RulesOwned, EffectOK, [Next]_vars
  PROVE  EffectOK'
<1> SUFFICES ASSUME NEW h \in Handlers, handler'[h].approve, Ask(h)'.kind # "host-access",
                    handler'[h].at \in {"write", "renew", "mark", "deliver", "ok"},
                    NEW i \in handler'[h].final
             PROVE  Given(h, i)' \/ (handler'[h].at = "write" /\ i \in handler'[h].todo)
  BY DEF EffectOK
<1>0. /\ handler \in [Handlers -> Resolve] /\ handler[h] \in Resolve /\ rules \subseteq Rule
      /\ rules' \subseteq Rule
  BY RulesStay DEF GrantTypes
<1>1. handler[h].at # "idle"
  <2>1. ASSUME NEW q \in Reqs, NEW e, NEW approve \in BOOLEAN, NEW attach, NEW trust, NEW final,
               ResolveGet(h, q, approve, final, attach, trust, e)
        PROVE  FALSE
    <3>1. \/ ~ handler'[h].approve
          \/ handler'[h].at = "apply"
      BY <1>0, <2>1 DEF ResolveGet, IdleHandler
    <3> QED
      BY <3>1
  <2>2. CASE HandlerStep(h)
    BY <2>2 DEF HandlerStep, ApplyHost, ApplyRead, ApplyFind, ApplyWrite, ApplyExtend, ApplyRenew,
                ApplyFails, MarkRow, Deliver
  <2>3. CASE handler'[h] = handler[h]
    BY <2>3 DEF HandlerOK
  <2> QED
    BY <2>1, <2>2, <2>3, Moves
<1>2. /\ Ask(h)' = Ask(h) /\ Subject(h)' = Subject(h) /\ handler[h].approve
      /\ i \in handler[h].final /\ handler'[h].trust = handler[h].trust
  BY <1>1, AskStays, HandlersStay
<1>3. ASSUME Given(h, i), handler'[h].target = handler[h].target
      PROVE  Given(h, i)'
  BY <1>1, <1>3, GivenStays
<1>4. CASE handler'[h] = handler[h]
  BY <1>2, <1>3, <1>4 DEF EffectOK
<1>5. ASSUME NEW at, handler' = [handler EXCEPT ![h].at = at]
      PROVE  handler'[h].at = at /\ handler'[h].target = handler[h].target
  BY <1>0, <1>5 DEF Resolve
<1>6. CASE HandlerStep(h)
  <2>1. CASE ApplyHost(h)
    BY <1>2, <2>1 DEF ApplyHost
  <2>2. CASE ApplyRead(h)
    <3>1. /\ Ask(h).kind \in {"k8s-access", "preset"} /\ handler'[h].at = "write"
          /\ handler'[h].todo = Todo(h) /\ handler'[h].target = handler[h].target
      BY <1>0, <2>2 DEF ApplyRead, Resolve
    <3>2. CASE exists(h, i)
      <4>1. Given(h, i)
        BY <3>1, <3>2 DEF exists, Given, Serves, Subject
      <4> QED
        BY <1>3, <3>1, <4>1
    <3>3. CASE ~ exists(h, i)
      BY <1>2, <3>1, <3>3 DEF Todo
    <3> QED
      BY <3>2, <3>3
  <2>3. CASE ApplyFind(h)
    <3>1. \/ handler' = [handler EXCEPT ![h].at = "write", ![h].todo = handler[h].final]
          \/ handler'[h].at = "extend"
      BY <1>0, <2>3 DEF ApplyFind, Resolve
    <3> QED
      BY <1>0, <1>2, <3>1 DEF Resolve
  <2>4. CASE ApplyWrite(h)
    <3>1. /\ handler[h].at = "write" /\ handler'[h].target = handler[h].target /\ handler[h].target = Nil
      BY <1>5, <2>4 DEF ApplyWrite, HandlerOK
    <3>2. CASE i \in handler[h].todo
      <4>1. Made(h, i) \in rules'
        BY <2>4, <3>2 DEF ApplyWrite, Made
      <4>2. PICK s \in rules' : s = Made(h, i)
        BY <4>1
      <4>3. /\ s.kind = Ask(h).kind /\ s.upstream = Ask(h).upstream /\ s.item = i
            /\ s.subject = Subject(h) /\ s.body = Ask(h).body
            /\ s.values \cap {TrustAny, Ask(h).value} # {}
        BY <4>2 DEF Made
      <4>4. Serves(h, i, s)'
        BY <1>2, <3>1, <4>3 DEF Serves
      <4> QED
        BY <4>4 DEF Given
    <3>3. CASE i \notin handler[h].todo
      <4>1. Given(h, i)
        BY <1>2, <3>1, <3>3 DEF EffectOK
      <4> QED
        BY <1>3, <3>1, <4>1
    <3> QED
      BY <3>2, <3>3
  <2>5. CASE ApplyExtend(h)
    <3>1. handler[h].at = "extend" /\ handler'[h].target = handler[h].target /\ handler[h].target # Nil
      BY <1>5, <2>5 DEF ApplyExtend, HandlerOK
    <3>2. PICK r \in rules : Id(r) = handler[h].target.id
      BY <1>5, <2>5 DEF ApplyExtend
    <3>3. rules' = {Extended(x, handler[h].target.id, Added(h)) : x \in rules}
      BY <2>5, <3>2 DEF ApplyExtend, WithValues, Extended, Added
    <3>4. PICK s \in rules' : s = Extended(r, handler[h].target.id, Added(h))
      BY <3>3
    <3>5. Added(h) \in SUBSET Values
      BY <1>1, AddedIs DEF Added
    <3>6. SameGrant(r, s) /\ Id(s) = Id(r) /\ Added(h) \subseteq s.values
      BY <1>0, <3>2, <3>4, <3>5, ExtendedIs
    <3>7. s.values \cap {TrustAny, Ask(h).value} # {}
      BY <3>6 DEF Added
    <3>8. /\ r.kind = "operation" /\ r.upstream = Ask(h).upstream /\ r.item = Ask(h).name
          /\ r.subject = Everyone /\ Subject(h) = Everyone /\ Ask(h).kind = "operation"
      BY <3>1, <3>2, FoundIs
    <3>9. i = Ask(h).name
      BY <1>2, <3>8 DEF HandlerOK
    <3>10. Id(s)' = handler'[h].target.id
      BY <3>1, <3>2, <3>6 DEF Id
    <3>11. Serves(h, i, s)'
      BY <1>2, <3>1, <3>6, <3>7, <3>8, <3>9, <3>10 DEF Serves, SameGrant
    <3> QED
      BY <3>11 DEF Given
  <2>6. CASE ApplyRenew(h) \/ MarkRow(h) \/ Deliver(h)
    <3>1. /\ handler[h].at \in {"renew", "mark", "deliver"} /\ handler'[h].target = handler[h].target
      BY <1>5, <2>6 DEF ApplyRenew, MarkRow, Deliver
    <3>2. Given(h, i)
      BY <1>2, <3>1 DEF EffectOK
    <3> QED
      BY <1>3, <3>1, <3>2
  <2>7. CASE ApplyFails(h)
    BY <1>5, <2>7 DEF ApplyFails
  <2> QED
    BY <1>6, <2>1, <2>2, <2>3, <2>4, <2>5, <2>6, <2>7 DEF HandlerStep
<1>7. CASE handler'[h] = [handler[h] EXCEPT !.at = "cut"]
  BY <1>0, <1>7 DEF Resolve
<1>8. ASSUME NEW q \in Reqs, NEW e, NEW approve, NEW attach, NEW trust, NEW final
      PROVE  ~ ResolveGet(h, q, approve, final, attach, trust, e)
  BY <1>1 DEF ResolveGet
<1> QED
  BY <1>4, <1>6, <1>7, <1>8, Moves

\* Expiries are ordered, with Never after all of them.
LEMMA TimesOrder ==
  /\ \A e \in Times : NoEarlier(e, e)
  /\ \A e, f, g \in Times : NoEarlier(e, f) /\ NoEarlier(f, g) => NoEarlier(e, g)
  /\ \A e, f \in Times : Outlives(e, f) => NoEarlier(e, f)
  /\ \A e, f \in Times : ~ Outlives(e, f) => NoEarlier(f, e)
<1>1. Times \subseteq Nat \cup {Never} /\ Never \notin Nat
  BY GrantAssumption DEF Times
<1>2. \A e \in Times : NoEarlier(e, e)
  BY <1>1 DEF NoEarlier
<1>3. \A e, f, g \in Times : NoEarlier(e, f) /\ NoEarlier(f, g) => NoEarlier(e, g)
  BY <1>1 DEF NoEarlier
<1>4. \A e, f \in Times : Outlives(e, f) => NoEarlier(e, f)
  BY <1>1 DEF NoEarlier, Outlives
<1>5. \A e, f \in Times : ~ Outlives(e, f) => NoEarlier(f, e)
  BY <1>1 DEF NoEarlier, Outlives
<1> QED
  BY <1>2, <1>3, <1>4, <1>5

\* While there is no upset, every rule stays and only a re-approval moves its expiry.
LEMMA QuietRules ==
  ASSUME GrantTypes, CardsOK, [Next]_vars, upsets' = 0
  PROVE  /\ \A r \in rules : \E s \in rules' :
              /\ Id(s) = Id(r) /\ s.by = r.by
              /\ \/ s.expires = r.expires
                 \/ \E h \in Handlers : ApplyRenew(h) /\ Id(r) = handler[h].target.id
         /\ \A s \in rules' :
              \/ \E h \in Handlers : /\ s.by = h /\ handler[h].at # "idle"
                                     /\ s.expires = handler[h].expires
              \/ \E r \in rules :
                   /\ Id(s) = Id(r) /\ s.by = r.by
                   /\ \/ s.expires = r.expires
                      \/ \E h \in Handlers :
                           /\ ApplyRenew(h) /\ Id(r) = handler[h].target.id
                           /\ s.expires = handler[h].expires
                           /\ Outlives(handler[h].expires, handler[h].target.expires)
<1> DEFINE Quiet ==
         /\ \A r \in rules : \E s \in rules' :
              /\ Id(s) = Id(r) /\ s.by = r.by
              /\ \/ s.expires = r.expires
                 \/ \E h \in Handlers : ApplyRenew(h) /\ Id(r) = handler[h].target.id
         /\ \A s \in rules' :
              \/ \E h \in Handlers : /\ s.by = h /\ handler[h].at # "idle"
                                     /\ s.expires = handler[h].expires
              \/ \E r \in rules :
                   /\ Id(s) = Id(r) /\ s.by = r.by
                   /\ \/ s.expires = r.expires
                      \/ \E h \in Handlers :
                           /\ ApplyRenew(h) /\ Id(r) = handler[h].target.id
                           /\ s.expires = handler[h].expires
                           /\ Outlives(handler[h].expires, handler[h].target.expires)
<1>0. rules \subseteq Rule /\ handler \in [Handlers -> Resolve] /\ upsets \in Nat
  BY GrantAssumption DEF GrantTypes
<1>1. ~ Upset
  BY <1>0 DEF Upset
<1>2. CASE rules' = rules
  BY <1>2
<1>3. ASSUME NEW h \in Handlers, ApplyWrite(h), rules' = rules \cup {Made(h, i) : i \in handler[h].todo}
      PROVE  Quiet
  <2>1. \A i \in handler[h].todo : Made(h, i).by = h /\ Made(h, i).expires = handler[h].expires
    BY DEF Made
  <2>2. handler[h].at # "idle"
    BY <1>3 DEF ApplyWrite
  <2> QED
    BY <1>3, <2>1, <2>2
<1>4. ASSUME NEW h \in Handlers, ApplyExtend(h),
             rules' = {Extended(r, handler[h].target.id, Added(h)) : r \in rules}
      PROVE  Quiet
  <2>1. Added(h) \in SUBSET Values
    BY <1>4, AddedIs DEF ApplyExtend, Added
  <2>2. \A r \in rules : LET s == Extended(r, handler[h].target.id, Added(h)) IN
           Id(s) = Id(r) /\ s.by = r.by /\ s.expires = r.expires
    BY <1>0, <2>1, ExtendedIs DEF SameGrant
  <2> QED
    BY <1>4, <2>2
<1>5. ASSUME NEW h \in Handlers, ApplyRenew(h), Outlives(handler[h].expires, handler[h].target.expires),
             rules' = {Renewed(r, handler[h].target.id, handler[h].expires) : r \in rules}
      PROVE  Quiet
  <2>1. handler[h].expires \in Times
    BY <1>0 DEF Resolve
  <2>2. \A r \in rules : LET s == Renewed(r, handler[h].target.id, handler[h].expires) IN
           /\ Id(s) = Id(r) /\ s.by = r.by
           /\ s.expires = IF Id(r) = handler[h].target.id THEN handler[h].expires ELSE r.expires
    BY <1>0, <2>1, RenewedIs DEF SameGrant
  <2> QED
    BY <1>5, <2>2
<1> QED
  BY <1>1, <1>2, <1>3, <1>4, <1>5, RulesStep

\* How long approvals last while there is no upset.
LEMMA UntilStep ==
  ASSUME GrantTypes, CardsOK, \A g \in Handlers : HandlerOK(g), RulesOwned, UntilOK, [Next]_vars
  PROVE  UntilOK'
<1> SUFFICES ASSUME upsets' = 0
             PROVE  UntilOK'
  BY DEF UntilOK
<1>0. /\ handler \in [Handlers -> Resolve]
      /\ rules \subseteq Rule /\ rules' \subseteq Rule /\ upsets = 0
  BY GrantAssumption, OthersStep, RulesStay DEF GrantTypes
<1>1. \A r \in rules : NoEarlier(r.expires, handler[r.by].expires)
  BY <1>0 DEF UntilOK
<1>2. \A h \in Handlers : handler[h].target # Nil =>
         /\ handler[h].target \in Target
         /\ NoEarlier(handler[h].target.expires, handler[handler[h].target.id[1]].expires)
  BY <1>0 DEF UntilOK, GrantTypes, Resolve
<1>3. \A h \in Handlers : handler[h].expires \in Times
  BY DEF GrantTypes, Resolve
<1>4. ASSUME NEW h \in Handlers, handler[h].at # "idle"
      PROVE  /\ handler'[h].expires = handler[h].expires
             /\ handler[h].target # Nil => handler'[h].target = handler[h].target
  BY <1>4, HandlersStay
<1>5. ASSUME NEW s \in rules'
      PROVE  NoEarlier(s.expires, handler'[s.by].expires)
  <2>1. ASSUME NEW h \in Handlers, s.by = h, handler[h].at # "idle", s.expires = handler[h].expires
        PROVE  NoEarlier(s.expires, handler'[s.by].expires)
    BY <1>3, <1>4, <2>1, TimesOrder
  <2>2. ASSUME NEW r \in rules, s.by = r.by, s.expires = r.expires
        PROVE  NoEarlier(s.expires, handler'[s.by].expires)
    <3>1. r.by \in Handlers /\ handler[r.by].at # "idle"
      BY <1>0 DEF Rule, RulesOwned, Owned, Late
    <3> QED
      BY <1>1, <1>4, <2>2, <3>1
  <2>3. ASSUME NEW r \in rules, Id(s) = Id(r), s.by = r.by,
               NEW h \in Handlers, ApplyRenew(h), Id(r) = handler[h].target.id,
               s.expires = handler[h].expires, Outlives(handler[h].expires, handler[h].target.expires)
        PROVE  NoEarlier(s.expires, handler'[s.by].expires)
    <3>1. r.by \in Handlers /\ handler[r.by].at # "idle"
      BY <1>0 DEF Rule, RulesOwned, Owned, Late
    <3>2. handler[h].target # Nil /\ r.by = handler[h].target.id[1]
      BY <2>3 DEF ApplyRenew, HandlerOK, Id
    <3>3. NoEarlier(handler[h].target.expires, handler[r.by].expires) /\ handler[h].target.expires \in Times
      BY <1>2, <3>2 DEF Target
    <3>4. NoEarlier(handler[h].expires, handler[r.by].expires)
      BY <1>3, <2>3, <3>1, <3>3, TimesOrder
    <3> QED
      BY <1>4, <2>3, <3>1, <3>4
  <2> QED
    BY <2>1, <2>2, <2>3, QuietRules
<1>6. ASSUME NEW h \in Handlers, handler'[h].target # Nil
      PROVE  NoEarlier(handler'[h].target.expires, handler'[handler'[h].target.id[1]].expires)
  <2>1. CASE handler'[h].target = handler[h].target
    <3>1. handler[h].target.id[1] \in Handlers /\ handler[handler[h].target.id[1]].at # "idle"
      BY <1>2, <1>6, <2>1 DEF Target, HandlerOK
    <3> QED
      BY <1>2, <1>4, <1>6, <2>1, <3>1
  <2>2. CASE handler'[h].target # handler[h].target
    <3>1. HandlerStep(h)
      <4>1. ASSUME NEW q \in Reqs, NEW e, NEW approve, NEW attach, NEW trust, NEW final,
                   ResolveGet(h, q, approve, final, attach, trust, e)
            PROVE  FALSE
        <5>1. handler'[h].target = Nil
          BY <1>0, <4>1 DEF ResolveGet, IdleHandler
        <5> QED
          BY <1>6, <5>1
      <4>2. handler'[h] # [handler[h] EXCEPT !.at = "cut"]
        BY <1>0, <2>2 DEF Resolve
      <4> QED
        BY <2>2, <4>1, <4>2, Moves
    <3>2. ApplyFind(h)
      <4>1. ASSUME NEW at, handler' = [handler EXCEPT ![h].at = at]
            PROVE  FALSE
        BY <1>0, <2>2, <4>1 DEF Resolve
      <4>2. ~ ApplyRead(h)
        BY <1>0, <2>2 DEF ApplyRead, Resolve
      <4>3. ~ (ApplyHost(h) \/ ApplyWrite(h) \/ ApplyRenew(h) \/ ApplyFails(h) \/ MarkRow(h))
        BY <4>1 DEF ApplyHost, ApplyWrite, ApplyRenew, ApplyFails, MarkRow
      <4>4. ~ (ApplyExtend(h) \/ Deliver(h))
        BY <4>1 DEF ApplyExtend, Deliver
      <4> QED
        BY <3>1, <4>2, <4>3, <4>4 DEF HandlerStep
    <3>3. PICK r \in SameKey(h) : handler'[h].target = [id |-> Id(r), expires |-> r.expires]
      BY <1>0, <2>2, <3>2 DEF ApplyFind, Resolve
    <3>4. r \in rules /\ r.by \in Handlers /\ handler[r.by].at # "idle"
      BY <1>0 DEF SameKey, Rule, RulesOwned, Owned, Late
    <3>5. handler'[h].target.id[1] = r.by /\ handler'[h].target.expires = r.expires
      BY <3>3 DEF Id
    <3> QED
      BY <1>1, <1>4, <3>4, <3>5
  <2> QED
    BY <2>1, <2>2
<1>7. ASSUME NEW h \in Handlers, handler'[h].approve, Ask(h)'.kind = "operation",
             handler'[h].target = Nil, handler'[h].at \in {"mark", "deliver", "ok"}
      PROVE  \E s \in rules' : s.by = h
  <2>1. ASSUME handler[h].at # "idle", handler[h].at \in {"mark", "deliver", "ok"}
        PROVE  \E s \in rules' : s.by = h
    <3>1. handler[h].approve /\ Ask(h).kind = "operation" /\ handler[h].target = Nil
      BY <1>4, <1>7, <2>1, AskStays, HandlersStay
    <3>2. PICK r \in rules : r.by = h
      BY <1>0, <2>1, <3>1 DEF UntilOK
    <3> QED
      BY <3>2, QuietRules
  <2>2. CASE handler'[h] = handler[h]
    BY <1>7, <2>1, <2>2
  <2>3. ASSUME NEW q \in Reqs, NEW e, NEW approve \in BOOLEAN, NEW attach, NEW trust, NEW final,
               ResolveGet(h, q, approve, final, attach, trust, e)
        PROVE  FALSE
    <3>1. ~ handler'[h].approve \/ handler'[h].at = "apply"
      BY <1>0, <2>3 DEF ResolveGet, IdleHandler
    <3> QED
      BY <1>7, <3>1
  <2>4. handler'[h] # [handler[h] EXCEPT !.at = "cut"]
    BY <1>0, <1>7 DEF Resolve
  <2>5. CASE HandlerStep(h)
    <3>0. handler[h].at # "idle"
      BY <2>5 DEF HandlerStep, ApplyHost, ApplyRead, ApplyFind, ApplyWrite, ApplyExtend, ApplyRenew,
                  ApplyFails, MarkRow, Deliver
    <3>a. Ask(h)' = Ask(h) /\ handler[h].approve /\ Ask(h).kind = "operation"
      BY <1>7, <3>0, AskStays, HandlersStay
    <3>1. CASE ApplyWrite(h)
      <4>1. handler[h].todo = {Ask(h).name}
        BY <3>1, <3>a DEF ApplyWrite, HandlerOK
      <4>2. Made(h, Ask(h).name) \in rules' /\ Made(h, Ask(h).name).by = h
        BY <3>1, <4>1 DEF ApplyWrite, Made
      <4> QED
        BY <4>2
    <3>2. CASE MarkRow(h) \/ Deliver(h)
      BY <2>1, <3>2 DEF MarkRow, Deliver
    <3>3. CASE ApplyHost(h)
      BY <3>3, <3>a DEF ApplyHost
    <3>4. CASE ApplyRead(h) \/ ApplyFind(h) \/ ApplyExtend(h) \/ ApplyFails(h)
      BY <1>0, <1>7, <3>4 DEF ApplyRead, ApplyFind, ApplyExtend, ApplyFails, Resolve
    <3>5. CASE ApplyRenew(h)
      <4>1. handler[h].target # Nil
        BY <3>5 DEF ApplyRenew, HandlerOK
      <4> QED
        BY <1>4, <1>7, <3>0, <4>1
    <3> QED
      BY <2>5, <3>1, <3>2, <3>3, <3>4, <3>5 DEF HandlerStep
  <2> QED
    BY <2>2, <2>3, <2>4, <2>5, Moves
<1>8. ASSUME NEW h \in Handlers, handler'[h].target # Nil, ~ Rivalled(h)',
             handler'[h].at \in {"extend", "renew", "mark", "deliver", "ok"}
      PROVE  \E s \in rules' :
                /\ Id(s) = handler'[h].target.id
                /\ IF handler'[h].at \in {"extend", "renew"} THEN s.expires = handler'[h].target.expires
                   ELSE NoEarlier(s.expires, handler'[h].expires)
  <2> DEFINE Goal == \E s \in rules' :
                /\ Id(s) = handler'[h].target.id
                /\ IF handler'[h].at \in {"extend", "renew"} THEN s.expires = handler'[h].target.expires
                   ELSE NoEarlier(s.expires, handler'[h].expires)
  <2>1. ASSUME handler'[h].target = handler[h].target
        PROVE  ~ Rivalled(h) /\ handler[h].at # "idle"
    <3>1. handler[h].at # "idle"
      BY <1>8, <2>1 DEF HandlerOK
    <3>2. ASSUME NEW g \in Handlers \ {h}, handler[g].target # Nil,
                 handler[g].target.id = handler[h].target.id
          PROVE  FALSE
      <4>1. handler'[g].target = handler[g].target
        BY <1>4, <3>2 DEF HandlerOK
      <4> QED
        BY <1>8, <2>1, <3>2, <4>1 DEF Rivalled
    <3> QED
      BY <3>1, <3>2 DEF Rivalled
  <2>2. ASSUME handler'[h].target = handler[h].target, ~ ApplyRenew(h),
               handler[h].at \in {"extend", "renew", "mark", "deliver", "ok"},
               handler[h].at \in {"extend", "renew"} <=> handler'[h].at \in {"extend", "renew"}
        PROVE  Goal
    <3>1. PICK r \in rules :
             /\ Id(r) = handler[h].target.id
             /\ IF handler[h].at \in {"extend", "renew"} THEN r.expires = handler[h].target.expires
                ELSE NoEarlier(r.expires, handler[h].expires)
      BY <1>0, <1>8, <2>1, <2>2 DEF UntilOK
    <3>2. ASSUME NEW g \in Handlers, ApplyRenew(g), Id(r) = handler[g].target.id
          PROVE  FALSE
      <4>1. g # h /\ handler[g].target # Nil
        BY <2>2, <3>2 DEF ApplyRenew, HandlerOK
      <4> QED
        BY <1>8, <2>1, <2>2, <3>1, <3>2, <4>1 DEF Rivalled
    <3>3. PICK s \in rules' : Id(s) = Id(r) /\ s.expires = r.expires
      BY <3>2, QuietRules
    <3>4. handler'[h].expires = handler[h].expires
      BY <1>4, <2>1, <2>2
    <3> QED
      BY <2>2, <3>1, <3>3, <3>4
  <2>3. CASE handler'[h] = handler[h]
    <3>1. ~ ApplyRenew(h)
      BY <1>0, <2>3 DEF ApplyRenew, Resolve
    <3> QED
      BY <1>8, <2>2, <2>3, <3>1
  <2>4. ASSUME NEW q \in Reqs, NEW e, NEW approve, NEW attach, NEW trust, NEW final,
               ResolveGet(h, q, approve, final, attach, trust, e)
        PROVE  FALSE
    <3>1. handler'[h].target = Nil
      BY <1>0, <2>4 DEF ResolveGet, IdleHandler
    <3> QED
      BY <1>8, <3>1
  <2>5. handler'[h] # [handler[h] EXCEPT !.at = "cut"]
    BY <1>0, <1>8 DEF Resolve
  <2>6. ASSUME NEW at, handler' = [handler EXCEPT ![h].at = at]
        PROVE  handler'[h].at = at /\ handler'[h].target = handler[h].target
    BY <1>0, <2>6 DEF Resolve
  <2>7. CASE HandlerStep(h)
    <3>1. CASE ApplyHost(h) \/ ApplyWrite(h)
      BY <1>8, <2>6, <3>1 DEF ApplyHost, ApplyWrite, HandlerOK
    <3>2. CASE ApplyRead(h)
      BY <1>0, <1>8, <3>2 DEF ApplyRead, Resolve
    <3>3. CASE ApplyFind(h)
      <4>1. PICK r \in SameKey(h) :
               /\ handler'[h].target = [id |-> Id(r), expires |-> r.expires] /\ handler'[h].at = "extend"
        BY <1>0, <1>8, <3>3 DEF ApplyFind, Resolve
      <4>2. r \in rules'
        BY <3>3 DEF ApplyFind, SameKey
      <4> QED
        BY <4>1, <4>2
    <3>4. CASE ApplyExtend(h)
      <4>1. /\ handler[h].at = "extend" /\ handler'[h].at = "renew"
            /\ handler'[h].target = handler[h].target
        BY <1>8, <2>6, <3>4 DEF ApplyExtend
      <4> QED
        BY <2>2, <4>1 DEF ApplyRenew
    <3>5. CASE ApplyRenew(h)
      <4>1. /\ handler[h].at = "renew" /\ handler'[h].at = "mark"
            /\ handler'[h].target = handler[h].target /\ handler[h].target # Nil
        BY <1>8, <2>6, <3>5 DEF ApplyRenew
      <4>2. PICK r \in rules : Id(r) = handler[h].target.id /\ r.expires = handler[h].target.expires
        BY <1>0, <1>8, <2>1, <4>1 DEF UntilOK
      <4>3. handler'[h].expires = handler[h].expires /\ handler[h].expires \in Times
        BY <1>3, <1>4, <4>1
      <4>4. r.expires \in Times /\ handler[h].target.expires \in Times
        BY <1>0, <4>2 DEF Rule
      <4>5. CASE Outlives(handler[h].expires, handler[h].target.expires)
        <5>1. rules' = {Renewed(x, handler[h].target.id, handler[h].expires) : x \in rules}
          BY <3>5, <4>5 DEF ApplyRenew, WithExpiry, Renewed
        <5>2. PICK s \in rules' : s = Renewed(r, handler[h].target.id, handler[h].expires)
          BY <5>1
        <5>3. Id(s) = Id(r) /\ s.expires = handler[h].expires
          BY <1>0, <4>2, <4>3, <5>2, RenewedIs
        <5> QED
          BY <4>1, <4>2, <4>3, <5>3, TimesOrder
      <4>6. CASE ~ Outlives(handler[h].expires, handler[h].target.expires)
        <5>1. r \in rules'
          BY <3>5, <4>6 DEF ApplyRenew
        <5>2. NoEarlier(r.expires, handler[h].expires)
          BY <4>2, <4>3, <4>4, <4>6, TimesOrder
        <5> QED
          BY <4>1, <4>2, <4>3, <5>1, <5>2
      <4> QED
        BY <4>5, <4>6
    <3>6. CASE MarkRow(h) \/ Deliver(h)
      <4>1. /\ handler[h].at \in {"mark", "deliver"} /\ handler'[h].at \notin {"extend", "renew"}
            /\ handler'[h].target = handler[h].target
        BY <1>8, <2>6, <3>6 DEF MarkRow, Deliver
      <4> QED
        BY <2>2, <4>1 DEF ApplyRenew
    <3>7. CASE ApplyFails(h)
      BY <1>8, <2>6, <3>7 DEF ApplyFails
    <3> QED
      BY <2>7, <3>1, <3>2, <3>3, <3>4, <3>5, <3>6, <3>7 DEF HandlerStep
  <2> QED
    BY <2>3, <2>4, <2>5, <2>7, Moves
<1>9. \A s : Id(s)' = Id(s)
  BY DEF Id
<1> QED
  BY <1>5, <1>6, <1>7, <1>8, <1>9 DEF UntilOK

-----------------------------------------------------------------------------
(* The history.                                                             *)

\* A revoker keeps its row until it has marked it; a revoke that begins is an
\* upset.
LEMMA RevokersMove ==
  ASSUME GrantTypes, [Next]_vars, NEW v \in Revokers
  PROVE  \/ revoker'[v] = revoker[v]
         \/ revoker'[v].at # "row"
         \/ \E i \in DOMAIN rows : RequestRevoke(v, i)
<1>0. revoker \in [Revokers -> Revoke]
  BY DEF GrantTypes
<1>1. CASE revoker' = revoker
  BY <1>1
<1>2. ASSUME NEW w \in Revokers, RevokerStep(w)
      PROVE  revoker'[v] = revoker[v] \/ revoker'[v].at # "row"
  BY <1>0, <1>2 DEF RevokerStep, GrantRevokeMark, RequestRevokeMark, AgentDeleteRow, Revoke
<1>3. ASSUME NEW w \in Revokers, NEW a,
             AgentDelete(w, a) \/ \E u \in Upstreams : GrantRevoke(w, a, u)
      PROVE  revoker'[v] = revoker[v] \/ revoker'[v].at # "row"
  <2>1. CASE AgentDelete(w, a)
    BY <1>0, <2>1 DEF AgentDelete
  <2>2. ASSUME NEW u \in Upstreams, GrantRevoke(w, a, u)
        PROVE  revoker'[v] = revoker[v] \/ revoker'[v].at # "row"
    BY <1>0, <2>2 DEF GrantRevoke
  <2> QED
    BY <1>3, <2>1, <2>2
<1>4. ASSUME NEW w \in Revokers \ {v}, NEW i, RequestRevoke(w, i)
      PROVE  revoker'[v] = revoker[v]
  BY <1>0, <1>4 DEF RequestRevoke
<1>5. CASE Restart
  BY <1>0, <1>5 DEF Restart, Revoke
<1>6. ASSUME NEW q, RequestStep(q) \/ \E a \in Agents, ask \in Asks : RequestCheck(q, a, ask)
      PROVE  revoker' = revoker
  BY <1>6 DEF RequestStep, RequestCheck, RequestLog, Park, Leave
<1>7. ASSUME NEW h, HandlerStep(h)
      PROVE  revoker' = revoker
  BY <1>7 DEF HandlerStep, ApplyHost, ApplyRead, ApplyFind, ApplyWrite, ApplyExtend, ApplyRenew,
              ApplyFails, MarkRow, Deliver
<1>8. ASSUME NEW h, NEW q, NEW e, NEW approve, NEW attach, NEW trust, NEW final,
             ResolveGet(h, q, approve, final, attach, trust, e)
      PROVE  revoker' = revoker
  BY <1>8 DEF ResolveGet
<1>9. ASSUME NEW r \in rules, RuleDelete(r) \/ \E e \in Choosable : RuleRenew(r, e)
      PROVE  revoker' = revoker
  BY <1>9 DEF RuleDelete, RuleRenew
<1>10. ASSUME \/ \E i \in DOMAIN rows, s \in {"granted", "denied", "dismissed"} : AccessRequestResolve(i, s)
              \/ Tick
       PROVE  revoker' = revoker
  BY <1>10 DEF AccessRequestResolve, Tick
<1>11. CASE UNCHANGED vars
  BY <1>1, <1>11 DEF vars
<1> QED
  BY <1>1, <1>2, <1>3, <1>4, <1>5, <1>6, <1>7, <1>8, <1>9, <1>10, <1>11 DEF Next

\* A call is in the queue, or was, only if it has been logged.
LEMMA LoggedBefore ==
  ASSUME GrantTypes, CardsOK, [Next]_vars, NEW q \in Reqs,
         req'[q].at \in {"spawned", "parked", "decided", "left"}
  PROVE  req[q].at \in {"spawned", "parked", "decided", "left"} \/ RequestLog(q)
<1>0. req \in [Reqs -> Call]
  BY DEF GrantTypes
<1>1. ASSUME NEW p \in Reqs, RequestStep(p)
      PROVE  req[q].at \in {"spawned", "parked", "decided", "left"} \/ RequestLog(q)
  BY <1>0, <1>1 DEF RequestStep, RequestLog, Park, Leave, Queue, Call
<1>2. ASSUME NEW p \in Reqs, NEW a, NEW ask, RequestCheck(p, a, ask)
      PROVE  req[q].at \in {"spawned", "parked", "decided", "left"}
  <2>1. PICK at \in {"noSuchHost", "answered", "checked"} :
           req' = [req EXCEPT ![p] = [at |-> at, agent |-> a, ask |-> ask, items |-> Wanted(a, ask)]]
    BY <1>2 DEF RequestCheck
  <2> QED
    BY <1>0, <2>1
<1>3. ASSUME NEW h \in Handlers, HandlerStep(h), ~ Deliver(h)
      PROVE  req' = req
  BY <1>3 DEF HandlerStep, ApplyHost, ApplyRead, ApplyFind, ApplyWrite, ApplyExtend, ApplyRenew,
              ApplyFails, MarkRow
<1>4. ASSUME NEW h \in Handlers, Deliver(h)
      PROVE  req[q].at \in {"spawned", "parked", "decided", "left"}
  <2>1. \/ req' = [req EXCEPT ![handler[h].card].at = "decided"] /\ handler[h].card \in Queue
        \/ req' = [req EXCEPT ![handler[h].card].at = req[handler[h].card].at]
    BY <1>0, <1>4 DEF Deliver
  <2> QED
    BY <1>0, <2>1 DEF Queue, Call
<1>5. ASSUME NEW h \in Handlers, NEW p \in Reqs, NEW e, NEW approve, NEW attach, NEW trust, NEW final,
             ResolveGet(h, p, approve, final, attach, trust, e)
      PROVE  req' = req
  BY <1>5 DEF ResolveGet
<1>6. CASE Restart
  BY <1>0, <1>6 DEF Restart, Call
<1> QED
  BY <1>1, <1>2, <1>3, <1>4, <1>5, <1>6, CallsFrame

\* A request is answered at once only if it begins now.
LEMMA AnsweredNow ==
  ASSUME GrantTypes, CardsOK, [Next]_vars, NEW q \in Reqs, req'[q].at = "answered"
  PROVE  \/ req[q].at = "answered"
         \/ \E a \in Agents, ask \in Asks :
               /\ RequestCheck(q, a, ask) /\ (Settled(a, ask) \/ pendingExists(a, ask))
               /\ req'[q].agent = a /\ req'[q].ask = ask
<1>0. req \in [Reqs -> Call]
  BY DEF GrantTypes
<1>1. ASSUME NEW p \in Reqs, RequestStep(p)
      PROVE  req[q].at = "answered"
  BY <1>0, <1>1 DEF RequestStep, RequestLog, Park, Leave, Call
<1>2. ASSUME NEW p \in Reqs, NEW a \in Agents, NEW ask \in Asks, RequestCheck(p, a, ask)
      PROVE  \/ req[q].at = "answered"
             \/ /\ p = q /\ (Settled(a, ask) \/ pendingExists(a, ask))
                /\ req'[q].agent = a /\ req'[q].ask = ask
  <2>1. PICK at \in {"noSuchHost", "answered", "checked"} :
           /\ req' = [req EXCEPT ![p] = [at |-> at, agent |-> a, ask |-> ask, items |-> Wanted(a, ask)]]
           /\ at = "answered" => Settled(a, ask) \/ pendingExists(a, ask)
    BY <1>2 DEF RequestCheck
  <2> QED
    BY <1>0, <2>1
<1>3. ASSUME NEW h \in Handlers, HandlerStep(h), ~ Deliver(h)
      PROVE  req' = req
  BY <1>3 DEF HandlerStep, ApplyHost, ApplyRead, ApplyFind, ApplyWrite, ApplyExtend, ApplyRenew,
              ApplyFails, MarkRow
<1>4. ASSUME NEW h \in Handlers, Deliver(h)
      PROVE  req[q].at = "answered"
  BY <1>0, <1>4 DEF Deliver, Call
<1>5. ASSUME NEW h \in Handlers, NEW p \in Reqs, NEW e, NEW approve, NEW attach, NEW trust, NEW final,
             ResolveGet(h, p, approve, final, attach, trust, e)
      PROVE  req' = req
  BY <1>5 DEF ResolveGet
<1>6. CASE Restart
  BY <1>0, <1>6 DEF Restart, Call
<1> QED
  BY <1>1, <1>2, <1>3, <1>4, <1>5, <1>6, CallsFrame

\* The rows that requests, verdicts and revokes rely on.
LEMMA RowsOKStep ==
  ASSUME GrantTypes, CardsOK, \A g \in Handlers : HandlerOK(g), RulesOwned, RowsOK, [Next]_vars
  PROVE  RowsOK'
<1>0. rules \subseteq Rule
  BY DEF GrantTypes
<1>1. ASSUME NEW a, NEW u, HasRow(a, u)
      PROVE  HasRow(a, u)'
  BY <1>1, RowsStay DEF HasRow
<1>2. ASSUME NEW q \in Reqs, req[q].at # "idle", HasRow(req[q].agent, req[q].ask.upstream)
      PROVE  HasRow(req[q].agent, req[q].ask.upstream)'
  <2>1. PICK a, u : a = req[q].agent /\ u = req[q].ask.upstream
    OBVIOUS
  <2>2. req'[q].agent = a /\ req'[q].ask.upstream = u
    BY <1>2, <2>1, CardsStay
  <2>3. HasRow(a, u)'
    BY <1>1, <1>2, <2>1
  <2> QED
    BY <2>2, <2>3 DEF HasRow
<1>3. ASSUME NEW q \in Reqs, req'[q].at \in {"spawned", "parked", "decided", "left"}
      PROVE  HasRow(req[q].agent, req[q].ask.upstream)'
  <2>1. CASE req[q].at \in {"spawned", "parked", "decided", "left"}
    BY <1>2, <2>1 DEF RowsOK
  <2>2. CASE RequestLog(q)
    <3> DEFINE new == [card |-> q, agent |-> req[q].agent, upstream |-> req[q].ask.upstream,
                       status |-> "pending", edited |-> FALSE, created |-> now]
    <3>1. new \in Row
      BY <2>2, GrantAssumption DEF RequestLog, CardsOK, Upstreams, Row, Statuses, GrantTypes
    <3>2. rows \in Seq(Row) /\ rows' = Append(rows, new)
      BY <2>2 DEF RequestLog, GrantTypes
    <3>3. /\ rows' \in Seq(Row) /\ Len(rows') = Len(rows) + 1 /\ Len(rows) \in Nat
          /\ rows'[Len(rows) + 1] = new
      BY <3>1, <3>2, AppendProperties, LenProperties
    <3>4. Len(rows) + 1 \in DOMAIN rows'
      BY <3>3, LenProperties
    <3>5. /\ rows'[Len(rows) + 1].agent = req'[q].agent
          /\ rows'[Len(rows) + 1].upstream = req'[q].ask.upstream
      BY <2>2, <3>3, CardsStay DEF RequestLog
    <3> QED
      BY <3>4, <3>5 DEF HasRow
  <2> QED
    BY <1>3, <2>1, <2>2, LoggedBefore
<1>4. ASSUME NEW h \in Handlers, handler'[h].at # "idle"
      PROVE  HasRow(Card(h).agent, Ask(h).upstream)'
  <2>1. CASE handler[h].at # "idle"
    <3>1. PICK q \in Reqs : q = handler[h].card /\ handler'[h].card = q /\ req[q].at # "idle"
      BY <2>1, HandlersStay DEF CardsOK, Card
    <3>2. HasRow(req[q].agent, req[q].ask.upstream)
      BY <2>1, <3>1 DEF RowsOK, Card, Ask
    <3>3. HasRow(req[q].agent, req[q].ask.upstream)'
      BY <1>2, <3>1, <3>2
    <3> QED
      BY <3>1, <3>3 DEF Card, Ask
  <2>2. CASE handler[h].at = "idle"
    <3>1. PICK q \in Reqs : q = handler'[h].card /\ req[q].at \in {"parked", "decided", "left"}
      BY <1>4, <2>2, HandlersStep
    <3>2. HasRow(req[q].agent, req[q].ask.upstream)'
      BY <1>2, <3>1 DEF RowsOK
    <3> QED
      BY <3>1, <3>2 DEF Card, Ask
  <2> QED
    BY <2>1, <2>2
<1>5. ASSUME NEW q \in Reqs, req'[q].at = "answered", req'[q].ask.kind # "host-access"
      PROVE  HasRow(req[q].agent, req[q].ask.upstream)'
  <2>1. CASE req[q].at = "answered"
    <3>1. HasRow(req[q].agent, req[q].ask.upstream)
      BY <1>5, <2>1, CardsStay DEF RowsOK, AnsweredHasRow, HasRow
    <3> QED
      BY <1>2, <2>1, <3>1
  <2>2. ASSUME NEW a \in Agents, NEW ask \in Asks, Settled(a, ask) \/ pendingExists(a, ask),
               req'[q].agent = a, req'[q].ask = ask
        PROVE  HasRow(req[q].agent, req[q].ask.upstream)'
    <3>1. HasRow(a, ask.upstream)
      <4>1. CASE Settled(a, ask)
        <5>1. ask.kind = "k8s-access" /\ Wanted(a, ask) = {}
          BY <1>5, <2>2, <4>1 DEF Settled
        <5>2. PICK i \in ask.items : k8sRuleCovers(a, ask.upstream, i)
          BY <5>1, GrantAssumption DEF Wanted
        <5>3. PICK r \in rules : /\ r.kind = "k8s-access" /\ r.subject \in {a, Everyone}
                                 /\ r.upstream = ask.upstream
          BY <5>2 DEF k8sRuleCovers
        <5>4. PICK h \in Handlers : h = r.by
          BY <1>0 DEF Rule
        <5>5. /\ handler[h].at # "idle" /\ r.subject = Card(h).agent /\ r.upstream = Ask(h).upstream
          BY <5>3, <5>4 DEF RulesOwned, Owned, Subject, Late
        <5>6. Card(h).agent \in Agents
          BY <5>5 DEF CardsOK, Card
        <5>7. Card(h).agent = a
          BY <5>3, <5>5, <5>6, GrantAssumption
        <5> QED
          BY <5>3, <5>5, <5>7 DEF RowsOK
      <4>2. CASE pendingExists(a, ask)
        <5>1. PICK p \in Queue : req[p].agent = a /\ req[p].ask.upstream = ask.upstream
          BY <4>2 DEF pendingExists
        <5> QED
          BY <5>1 DEF RowsOK, Queue
      <4> QED
        BY <2>2, <4>1, <4>2
    <3>2. PICK u : u = ask.upstream
      OBVIOUS
    <3>3. HasRow(a, u)'
      BY <1>1, <3>1, <3>2
    <3> QED
      BY <2>2, <3>2, <3>3 DEF HasRow
  <2> QED
    BY <1>5, <2>1, <2>2, AnsweredNow
<1>6. ASSUME NEW v \in Revokers, revoker'[v].at = "row"
      PROVE  /\ revoker'[v].row \in DOMAIN rows'
             /\ rows'[revoker'[v].row].agent = revoker'[v].agent
             /\ rows'[revoker'[v].row].upstream = revoker'[v].upstream
  <2>1. CASE revoker'[v] = revoker[v]
    BY <1>6, <2>1, RowsStay DEF RowsOK
  <2>2. ASSUME NEW i \in DOMAIN rows, RequestRevoke(v, i)
        PROVE  /\ revoker'[v].row \in DOMAIN rows'
               /\ rows'[revoker'[v].row].agent = revoker'[v].agent
               /\ rows'[revoker'[v].row].upstream = revoker'[v].upstream
    <3>1. revoker \in [Revokers -> Revoke] /\ rows' = rows
      BY <2>2 DEF GrantTypes, RequestRevoke
    <3> QED
      BY <2>2, <3>1 DEF RequestRevoke
  <2> QED
    BY <1>6, <2>1, <2>2, RevokersMove
<1> QED
  BY <1>3, <1>4, <1>5, <1>6 DEF RowsOK, AnsweredHasRow, HasRow

\* Adding at most one element adds at most one to the count.
LEMMA OneMore ==
  ASSUME NEW X, IsFiniteSet(X), NEW x, NEW Y, Y \subseteq X \cup {x}
  PROVE  /\ IsFiniteSet(Y) /\ Cardinality(Y) \in Nat /\ Cardinality(X) \in Nat
         /\ Cardinality(Y) <= Cardinality(X) + 1
<1>1. /\ IsFiniteSet(X \cup {x}) /\ Cardinality(X) \in Nat
      /\ Cardinality(X \cup {x}) \in {Cardinality(X), Cardinality(X) + 1}
  BY FS_AddElement, FS_CardinalityType
<1>2. Y \in SUBSET (X \cup {x})
  OBVIOUS
<1>3. IsFiniteSet(Y) /\ Cardinality(Y) <= Cardinality(X \cup {x})
  BY <1>1, <1>2, FS_Subset
<1>4. Cardinality(Y) \in Nat
  BY <1>3, FS_CardinalityType
<1> QED
  BY <1>1, <1>3, <1>4

\* The sets that are counted are finite.
LEMMA CountedFinite ==
  ASSUME GrantTypes, NEW a, NEW u
  PROVE  /\ IsFiniteSet(Decided(a, u)) /\ IsFiniteSet(Revoking(a, u)) /\ IsFiniteSet(Closers(a, u))
         /\ Cardinality(Decided(a, u)) \in Nat /\ Cardinality(Revoking(a, u)) \in Nat
         /\ Cardinality(Closers(a, u)) \in Nat
<1>1. IsFiniteSet(DOMAIN rows)
  <2>1. DOMAIN rows = 1 .. Len(rows) /\ Len(rows) \in Nat
    BY LenProperties DEF GrantTypes
  <2> QED
    BY <2>1, FS_Interval
<1>2. Decided(a, u) \in SUBSET DOMAIN rows
  BY DEF Decided
<1>3. Revoking(a, u) \in SUBSET Revokers /\ IsFiniteSet(Revokers)
  BY GrantAssumption DEF Revoking
<1>4. Closers(a, u) \in SUBSET Handlers /\ IsFiniteSet(Handlers)
  BY GrantAssumption DEF Closers
<1>5. IsFiniteSet(Decided(a, u)) /\ IsFiniteSet(Revoking(a, u)) /\ IsFiniteSet(Closers(a, u))
  BY <1>1, <1>2, <1>3, <1>4, FS_Subset
<1> QED
  BY <1>5, FS_CardinalityType

\* One row per verdict, per revoke and per edit.
LEMMA CountStep ==
  ASSUME GrantTypes, CardsOK, \A g \in Handlers : HandlerOK(g), RowsOK, CountOK, [Next]_vars, GrantTypes'
  PROVE  CountOK'
<1> SUFFICES ASSUME NEW a \in Agents, NEW u \in Upstreams
             PROVE  Cardinality(Decided(a, u)') + Cardinality(Revoking(a, u)')
                      <= Cardinality(Closers(a, u)') + upsets'
  BY DEF CountOK
<1> DEFINE D  == Decided(a, u)
           R  == Revoking(a, u)
           C  == Closers(a, u)
<1>0. /\ IsFiniteSet(D) /\ IsFiniteSet(R) /\ IsFiniteSet(C)
      /\ Cardinality(D) \in Nat /\ Cardinality(R) \in Nat /\ Cardinality(C) \in Nat
      /\ Cardinality(D) + Cardinality(R) <= Cardinality(C) + upsets
  BY CountedFinite DEF CountOK
<1>1. /\ IsFiniteSet(D') /\ IsFiniteSet(R') /\ IsFiniteSet(C')
      /\ Cardinality(D') \in Nat /\ Cardinality(R') \in Nat /\ Cardinality(C') \in Nat
  <2>1. IsFiniteSet(DOMAIN rows')
    <3>1. DOMAIN rows' = 1 .. Len(rows') /\ Len(rows') \in Nat
      BY LenProperties DEF GrantTypes
    <3> QED
      BY <3>1, FS_Interval
  <2>2. /\ D' \in SUBSET DOMAIN rows' /\ R' \in SUBSET Revokers /\ C' \in SUBSET Handlers
        /\ IsFiniteSet(Revokers) /\ IsFiniteSet(Handlers)
    BY GrantAssumption DEF Decided, Revoking, Closers
  <2>3. IsFiniteSet(D') /\ IsFiniteSet(R') /\ IsFiniteSet(C')
    BY <2>1, <2>2, FS_Subset
  <2> QED
    BY <2>3, FS_CardinalityType
<1>2. upsets \in Nat /\ upsets' \in Nat /\ upsets' >= upsets
  BY OthersStep, GrantAssumption DEF GrantTypes
<1>3. C \subseteq C'
  <2> SUFFICES ASSUME NEW h \in C
               PROVE  h \in C'
    OBVIOUS
  <2>1. /\ h \in Handlers /\ handler[h].at # "idle" /\ handler[h].at \in Late \ {"mark"}
        /\ Card(h).agent = a /\ Ask(h).upstream = u
    BY DEF Closers, Late
  <2>2. handler'[h].at \in Late \ {"mark"} /\ Card(h)'.agent = a /\ Ask(h)'.upstream = u
    BY <2>1, HandlersStay, AskStays
  <2> QED
    BY <2>1, <2>2 DEF Closers
<1>4. Cardinality(C) <= Cardinality(C')
  <2>1. C \in SUBSET C'
    BY <1>3
  <2> QED
    BY <1>1, <2>1, FS_Subset
<1>5. ASSUME NEW X, NEW Y, IsFiniteSet(X), Y \subseteq X
      PROVE  Cardinality(Y) <= Cardinality(X)
  BY <1>5, FS_Subset
<1>6. CASE rows' = rows
  <2>1. D' = D
    BY <1>6 DEF Decided
  <2>2. CASE \E v \in Revokers, i \in DOMAIN rows : RequestRevoke(v, i)
    <3>1. PICK v \in Revokers, i \in DOMAIN rows : RequestRevoke(v, i)
      BY <2>2
    <3>2. upsets' = upsets + 1
      BY <3>1 DEF RequestRevoke, Upset
    <3>3. R' \subseteq R \cup {v}
      BY <3>1 DEF RequestRevoke, Revoking, GrantTypes
    <3>4. Cardinality(R') <= Cardinality(R) + 1
      BY <1>0, <3>3, OneMore
    <3> QED
      BY <1>0, <1>1, <1>2, <1>4, <2>1, <3>2, <3>4
  <2>3. CASE ~ \E v \in Revokers, i \in DOMAIN rows : RequestRevoke(v, i)
    <3>1. R' \subseteq R
      BY <2>3, RevokersMove DEF Revoking
    <3>2. Cardinality(R') <= Cardinality(R)
      BY <1>0, <1>5, <3>1
    <3> QED
      BY <1>0, <1>1, <1>2, <1>4, <2>1, <3>2
  <2> QED
    BY <2>2, <2>3
<1>7. ASSUME NEW q \in Reqs, RequestLog(q)
      PROVE  Cardinality(D') + Cardinality(R') <= Cardinality(C') + upsets'
  <2> DEFINE new == [card |-> q, agent |-> req[q].agent, upstream |-> req[q].ask.upstream,
                     status |-> "pending", edited |-> FALSE, created |-> now]
  <2>1. new \in Row /\ new.status = "pending"
    BY <1>7, GrantAssumption DEF RequestLog, CardsOK, Upstreams, Row, Statuses, GrantTypes
  <2>2. rows \in Seq(Row) /\ rows' = Append(rows, new) /\ revoker' = revoker
    BY <1>7 DEF RequestLog, GrantTypes
  <2>3. /\ rows' \in Seq(Row) /\ Len(rows') = Len(rows) + 1 /\ Len(rows) \in Nat
        /\ rows'[Len(rows) + 1] = new /\ \A i \in 1 .. Len(rows) : rows'[i] = rows[i]
    BY <2>1, <2>2, AppendProperties, LenProperties
  <2>4. DOMAIN rows' = 1 .. Len(rows) + 1 /\ DOMAIN rows = 1 .. Len(rows)
    BY <2>2, <2>3, LenProperties
  <2>5. \A i \in DOMAIN rows' : i = Len(rows) + 1 \/ i \in DOMAIN rows
    BY <2>3, <2>4
  <2>6. D' \subseteq D /\ R' = R
    BY <2>1, <2>2, <2>3, <2>4, <2>5 DEF Decided, Revoking
  <2>7. Cardinality(D') <= Cardinality(D)
    BY <1>0, <1>5, <2>6
  <2> QED
    BY <1>0, <1>1, <1>2, <1>4, <2>6, <2>7
<1>8. ASSUME NEW h \in Handlers, MarkRow(h)
      PROVE  Cardinality(D') + Cardinality(R') <= Cardinality(C') + upsets'
  <2>1. /\ handler[h].at = "mark" /\ revoker' = revoker /\ DOMAIN rows' = DOMAIN rows
        /\ \A i \in DOMAIN rows : i \notin LatestPending(Card(h).agent, Ask(h).upstream) => rows'[i] = rows[i]
    BY <1>8 DEF MarkRow
  <2>2. R' = R
    BY <2>1 DEF Revoking
  <2>3. D' \subseteq D \cup LatestPending(Card(h).agent, Ask(h).upstream)
    BY <2>1 DEF Decided
  <2>4. CASE a = Card(h).agent /\ u = Ask(h).upstream
    <3>1. h \notin C
      BY <2>1 DEF Closers, Late
    <3>2. h \in C'
      <4>1. handler'[h].at = "deliver"
        BY <1>8 DEF MarkRow, GrantTypes, Resolve
      <4>2. Card(h)'.agent = a /\ Ask(h)'.upstream = u
        BY <2>1, <2>4, AskStays
      <4> QED
        BY <4>1, <4>2 DEF Closers, Late
    <3>3. C \cup {h} \in SUBSET C'
      BY <1>3, <3>2
    <3>4. Cardinality(C \cup {h}) = Cardinality(C) + 1
      BY <1>0, <3>1, FS_AddElement
    <3>5. Cardinality(C) + 1 <= Cardinality(C')
      BY <1>1, <3>3, <3>4, FS_Subset
    <3>6. Cardinality(D') <= Cardinality(D) + 1
      <4>1. \A i, j \in LatestPending(a, u) : i = j
        <5>1. DOMAIN rows \subseteq Nat
          BY LenProperties DEF GrantTypes
        <5>2. \A i, j \in LatestPending(a, u) : i \in Nat /\ j \in Nat /\ i <= j /\ j <= i
          BY <5>1 DEF LatestPending, PendingRows
        <5> QED
          BY <5>2
      <4>2. PICK x : LatestPending(a, u) \subseteq {x}
        BY <4>1
      <4>3. D' \subseteq D \cup {x}
        BY <2>3, <2>4, <4>2
      <4> QED
        BY <1>0, <4>3, OneMore
    <3> QED
      BY <1>0, <1>1, <1>2, <2>2, <3>5, <3>6
  <2>5. CASE ~ (a = Card(h).agent /\ u = Ask(h).upstream)
    <3>1. D' \subseteq D
      <4>1. \A i \in LatestPending(Card(h).agent, Ask(h).upstream) :
               /\ i \in DOMAIN rows /\ rows[i].agent = Card(h).agent /\ rows[i].upstream = Ask(h).upstream
        BY DEF LatestPending, PendingRows
      <4>2. \A i \in LatestPending(Card(h).agent, Ask(h).upstream) :
               rows'[i].agent = Card(h).agent /\ rows'[i].upstream = Ask(h).upstream
        BY <4>1, RowsStay
      <4>3. \A i \in LatestPending(Card(h).agent, Ask(h).upstream) : i \notin D'
        BY <2>5, <4>2 DEF Decided
      <4> QED
        BY <2>3, <4>3
    <3>2. Cardinality(D') <= Cardinality(D)
      BY <1>0, <1>5, <3>1
    <3> QED
      BY <1>0, <1>1, <1>2, <1>4, <2>2, <3>2
  <2> QED
    BY <2>4, <2>5
<1>9. ASSUME NEW v \in Revokers, GrantRevokeMark(v)
      PROVE  Cardinality(D') + Cardinality(R') <= Cardinality(C') + upsets'
  <2>0. \A i \in DOMAIN rows : rows[i] \in Row
    BY LenProperties, ElementOfSeq DEF GrantTypes
  <2>1. DOMAIN rows' = DOMAIN rows /\ \A i \in DOMAIN rows : rows'[i] = rows[i] \/ rows[i].status # "pending"
    BY <1>9 DEF GrantRevokeMark
  <2>2. D' \subseteq D
    BY <2>1, RowsStay DEF Decided
  <2>3. R' \subseteq R
    <3>1. \A i \in DOMAIN rows : ~ RequestRevoke(v, i)
      BY <1>9 DEF GrantRevokeMark, RequestRevoke
    <3>2. revoker'[v].at # "row" /\ \A w \in Revokers \ {v} : revoker'[w] = revoker[w]
      BY <1>9 DEF GrantRevokeMark, GrantTypes, Revoke
    <3> QED
      BY <3>2 DEF Revoking
  <2>4. Cardinality(D') <= Cardinality(D) /\ Cardinality(R') <= Cardinality(R)
    BY <1>0, <1>5, <2>2, <2>3
  <2> QED
    BY <1>0, <1>1, <1>2, <1>4, <2>4
<1>10. ASSUME NEW v \in Revokers, RequestRevokeMark(v)
       PROVE  Cardinality(D') + Cardinality(R') <= Cardinality(C') + upsets'
  <2> DEFINE x == revoker[v].row
  <2>1. /\ revoker[v].at = "row" /\ x \in DOMAIN rows
        /\ rows[x].agent = revoker[v].agent /\ rows[x].upstream = revoker[v].upstream
    BY <1>10 DEF RequestRevokeMark, RowsOK
  <2>2. DOMAIN rows' = DOMAIN rows /\ \A i \in DOMAIN rows : i # x => rows'[i] = rows[i]
    BY <1>10, <2>1 DEF RequestRevokeMark
  <2>3. revoker'[v].at # "row" /\ \A w \in Revokers \ {v} : revoker'[w] = revoker[w]
    BY <1>10 DEF RequestRevokeMark, GrantTypes, Revoke
  <2>4. CASE revoker[v].agent = a /\ revoker[v].upstream = u
    <3>1. v \in R /\ R' \subseteq R \ {v}
      BY <2>1, <2>3, <2>4 DEF Revoking
    <3>2. IsFiniteSet(R \ {v}) /\ Cardinality(R \ {v}) = Cardinality(R) - 1
      BY <1>0, <3>1, FS_RemoveElement
    <3>3. Cardinality(R') <= Cardinality(R) - 1
      BY <1>5, <3>1, <3>2
    <3>4. D' \subseteq D \cup {x}
      BY <2>2 DEF Decided
    <3>5. Cardinality(D') <= Cardinality(D) + 1
      BY <1>0, <3>4, OneMore
    <3> QED
      BY <1>0, <1>1, <1>2, <1>4, <3>3, <3>5
  <2>5. CASE ~ (revoker[v].agent = a /\ revoker[v].upstream = u)
    <3>1. ~ (rows'[x].agent = a /\ rows'[x].upstream = u)
      BY <2>1, <2>5, RowsStay
    <3>2. D' \subseteq D /\ R' \subseteq R
      BY <2>2, <2>3, <3>1 DEF Decided, Revoking
    <3>3. Cardinality(D') <= Cardinality(D) /\ Cardinality(R') <= Cardinality(R)
      BY <1>0, <1>5, <3>2
    <3> QED
      BY <1>0, <1>1, <1>2, <1>4, <3>3
  <2> QED
    BY <2>4, <2>5
<1>11. ASSUME NEW x \in DOMAIN rows, NEW s, AccessRequestResolve(x, s)
       PROVE  Cardinality(D') + Cardinality(R') <= Cardinality(C') + upsets'
  <2>1. /\ DOMAIN rows' = DOMAIN rows /\ \A i \in DOMAIN rows : i # x => rows'[i] = rows[i]
        /\ revoker' = revoker /\ upsets' = upsets + 1
    BY <1>11 DEF AccessRequestResolve, Upset
  <2>2. D' \subseteq D \cup {x} /\ R' = R
    BY <2>1 DEF Decided, Revoking
  <2>3. Cardinality(D') <= Cardinality(D) + 1
    BY <1>0, <2>2, OneMore
  <2> QED
    BY <1>0, <1>1, <1>2, <1>4, <2>1, <2>2, <2>3
<1> QED
  BY <1>6, <1>7, <1>8, <1>9, <1>10, <1>11, RowsFrame

-----------------------------------------------------------------------------
(* The theorems.                                                            *)

\* Nothing has been asked, granted or logged at the start.
LEMMA GrantInit == Init => GrantInv
<1> SUFFICES ASSUME Init
             PROVE  GrantInv
  OBVIOUS
<1>1. rows \in Seq(Row) /\ DOMAIN rows = {}
  BY EmptySeq DEF Init
<1>2. /\ \A q \in Reqs : req[q] = IdleReq
      /\ \A h \in Handlers : handler[h] = IdleHandler
      /\ \A v \in Revokers : revoker[v] = IdleRevoker
      /\ rules = {} /\ upsets = 0
  BY DEF Init
<1>3. IdleReq \in Call /\ IdleHandler \in Resolve /\ IdleRevoker \in Revoke
  BY DEF IdleReq, Call, IdleHandler, Resolve, IdleRevoker, Revoke, Times
<1>4. GrantTypes
  BY <1>1, <1>3, GrantAssumption DEF Init, GrantTypes
<1>5. CardsOK /\ \A h \in Handlers : HandlerOK(h)
  BY <1>2 DEF CardsOK, HandlerOK, IdleReq, IdleHandler
<1>6. RulesOwned /\ EffectOK /\ UntilOK
  BY <1>2 DEF RulesOwned, EffectOK, UntilOK, IdleHandler
<1>7. RowsOK
  BY <1>2 DEF RowsOK, AnsweredHasRow, IdleReq, IdleHandler, IdleRevoker
<1>8. CountOK
  <2> SUFFICES ASSUME NEW a \in Agents, NEW u \in Upstreams
               PROVE  Cardinality(Decided(a, u)) + Cardinality(Revoking(a, u))
                        <= Cardinality(Closers(a, u)) + upsets
    BY DEF CountOK
  <2>1. Decided(a, u) = {} /\ Revoking(a, u) = {} /\ Closers(a, u) = {}
    BY <1>1, <1>2 DEF Decided, Revoking, Closers, IdleRevoker, IdleHandler, Late
  <2> QED
    BY <1>2, <2>1, FS_EmptySet
<1> QED
  BY <1>4, <1>5, <1>6, <1>7, <1>8 DEF GrantInv

\* GrantInv is an inductive invariant of the grants: of every request, resolve and
\* revoke call, of the rules and of the history.
THEOREM GrantInvariant == Spec => []GrantInv
<1>1. ASSUME GrantInv, [Next]_vars
      PROVE  GrantInv'
  <2>1. /\ GrantTypes /\ CardsOK /\ (\A h \in Handlers : HandlerOK(h)) /\ RulesOwned
        /\ EffectOK /\ UntilOK /\ RowsOK /\ CountOK
    BY <1>1 DEF GrantInv
  <2>2. GrantTypes' /\ CardsOK'
    BY <1>1, <2>1, TypesStep
  <2>3. \A h \in Handlers : HandlerOK(h)'
    BY <1>1, <2>1, HandlerOKStep
  <2>4. RulesOwned' /\ EffectOK' /\ UntilOK'
    BY <1>1, <2>1, OwnedStep, EffectStep, UntilStep
  <2>5. RowsOK' /\ CountOK'
    BY <1>1, <2>1, <2>2, RowsOKStep, CountStep
  <2> QED
    BY <2>2, <2>3, <2>4, <2>5 DEF GrantInv
<1> QED
  BY <1>1, GrantInit, PTL DEF Spec

\* A rule is never more than an operator approved: made by an approving call, for
\* its card's upstream, out of the final bindings, for the agent that asked.
THEOREM GrantsWereApproved == Spec => []GrantWithinApproval
<1>1. GrantInv => GrantWithinApproval
  BY DEF GrantInv, RulesOwned, Owned, Subject, GrantWithinApproval
<1> QED
  BY <1>1, GrantInvariant, PTL

\* What an operator approves is in force before the agent is told, and for ever
\* after, but for the ways out that ApprovalTakesEffect names.
THEOREM ApprovalsTakeEffect == Spec => []ApprovalTakesEffect
<1>1. ASSUME GrantInv
      PROVE  ApprovalTakesEffect
  <2> SUFFICES ASSUME NEW h \in Handlers, handler[h].approve, handler[h].at \in {"mark", "deliver", "ok"},
                      Ask(h).kind # "host-access", NEW i \in handler[h].final
               PROVE  \/ Holds(Card(h).agent, Ask(h), i)
                      \/ <<Ask(h).kind, Ask(h).upstream, i>> \in withdrawn
                      \/ \E r \in rules : /\ r.kind = Ask(h).kind /\ r.upstream = Ask(h).upstream
                                          /\ r.item = i /\ r.subject = Subject(h)
                                          /\ ~ Live(r) \/ (ExtendedBy(h, r) /\ r.body)
    BY DEF ApprovalTakesEffect
  <2>1. Given(h, i)
    BY <1>1 DEF GrantInv, EffectOK
  <2>2. ASSUME NEW r \in rules, Serves(h, i, r), Live(r), ~ (ExtendedBy(h, r) /\ r.body)
        PROVE  Holds(Card(h).agent, Ask(h), i)
    <3>1. CASE Ask(h).kind # "operation"
      BY <2>2, <3>1 DEF Holds, Serves, Subject
    <3>2. CASE Ask(h).kind = "operation"
      <4>1. Ask(h) \in Asks
        BY <1>1 DEF GrantInv, CardsOK, Card, Ask
      <4>2. r.body \in BOOLEAN /\ Ask(h).body \in BOOLEAN
        BY <1>1, <4>1, GrantAssumption DEF GrantInv, GrantTypes, Rule
      <4>3. handler[h].target # Nil => Id(r) = handler[h].target.id /\ ~ Ask(h).body
        BY <1>1, <2>2, <3>2 DEF GrantInv, HandlerOK, Serves
      <4>4. r.body = Ask(h).body
        BY <2>2, <3>2, <4>2, <4>3 DEF Serves, ExtendedBy
      <4> QED
        BY <2>2, <3>2, <4>4 DEF Holds, Serves
    <3> QED
      BY <3>1, <3>2
  <2> QED
    BY <2>1, <2>2 DEF Given, Serves
<1> QED
  BY <1>1, GrantInvariant, PTL

\* The history is sound: every variable has its type, one decision closes at most
\* one row, and whoever was told that there is nothing to ask has a row.
THEOREM HistoryIsSound == Spec => []HistoryInv
<1>1. ASSUME GrantInv
      PROVE  HistoryInv
  <2>0. GrantTypes /\ RulesOwned /\ RowsOK /\ CountOK
    BY <1>1 DEF GrantInv
  <2>1. TypeOK
    <3>1. \A r \in rules : /\ r.by \in Handlers /\ r.subject \in Agents \cup {Everyone}
                           /\ r.upstream \in Upstreams /\ r.item \in Items
                           /\ r.expires \in Expiries \cup {Never}
                           /\ \A x \in rules : Id(x) = Id(r) => x = r
      BY <2>0 DEF GrantTypes, RulesOwned, Rule, Times
    <3>2. \A i \in DOMAIN rows : rows[i] \in Row
      BY <2>0, LenProperties, ElementOfSeq DEF GrantTypes
    <3>3. \A q \in Reqs : req[q].items \subseteq Items
      BY <2>0 DEF GrantTypes, Call
    <3>4. \A h \in Handlers : handler[h].final \subseteq Items /\ handler[h].todo \subseteq Items
      BY <2>0 DEF GrantTypes, Resolve
    <3>5. \A i \in DOMAIN rows : /\ rows[i].card \in Reqs /\ rows[i].agent \in Agents
                                 /\ rows[i].status \in Statuses /\ rows[i].edited \in BOOLEAN
      BY <3>2 DEF Row
    <3> QED
      BY <2>0, <3>1, <3>3, <3>4, <3>5 DEF TypeOK, GrantTypes
  <2>2. OneRowPerDecision
    <3> SUFFICES ASSUME NEW a \in Agents, NEW u \in Upstreams
                 PROVE  Cardinality(Decided(a, u)) <= Cardinality(Deciders(a, u)) + upsets
      BY DEF OneRowPerDecision
    <3>1. Closers(a, u) \in SUBSET Deciders(a, u) /\ Deciders(a, u) \in SUBSET Handlers
      BY DEF Closers, Deciders, Late
    <3>2. IsFiniteSet(Deciders(a, u))
      BY <3>1, GrantAssumption, FS_Subset
    <3>3. Cardinality(Closers(a, u)) <= Cardinality(Deciders(a, u)) /\ Cardinality(Deciders(a, u)) \in Nat
      BY <3>1, <3>2, FS_Subset, FS_CardinalityType
    <3>4. /\ Cardinality(Decided(a, u)) + Cardinality(Revoking(a, u)) <= Cardinality(Closers(a, u)) + upsets
          /\ upsets \in Nat
      BY <2>0, GrantAssumption DEF CountOK, GrantTypes
    <3> QED
      BY <2>0, <3>3, <3>4, CountedFinite
  <2> QED
    BY <2>0, <2>1, <2>2 DEF HistoryInv, RowsOK
<1> QED
  BY <1>1, GrantInvariant, PTL

\* A re-approval never shortens a grant: an operation approved until e is allowed
\* until e, unless an operator intervened or two re-approvals of the rule raced.
THEOREM ApprovalsLast == Spec => []ApprovedUntil
<1>1. ASSUME GrantInv
      PROVE  ApprovedUntil
  <2> SUFFICES ASSUME NEW h \in Handlers, handler[h].approve, handler[h].at = "ok",
                      Ask(h).kind = "operation", upsets = 0, ~ Rivalled(h)
               PROVE  \E r \in rules : /\ r.kind = "operation" /\ r.upstream = Ask(h).upstream
                                       /\ r.item = Ask(h).name
                                       /\ NoEarlier(r.expires, handler[h].expires)
    BY DEF ApprovedUntil, NoEarlier
  <2>0. GrantTypes /\ (\A g \in Handlers : HandlerOK(g)) /\ RulesOwned /\ UntilOK
    BY <1>1 DEF GrantInv
  <2>1. CASE handler[h].target = Nil
    <3>1. PICK r \in rules : r.by = h
      BY <2>0, <2>1 DEF UntilOK
    <3>2. r.kind = "operation" /\ r.upstream = Ask(h).upstream /\ r.item \in handler[h].final
      BY <2>0, <3>1 DEF RulesOwned, Owned
    <3>3. handler[h].final = {Ask(h).name} /\ NoEarlier(r.expires, handler[h].expires)
      BY <2>0, <3>1 DEF HandlerOK, UntilOK
    <3> QED
      BY <3>2, <3>3
  <2>2. CASE handler[h].target # Nil
    <3>1. PICK r \in rules : Id(r) = handler[h].target.id /\ NoEarlier(r.expires, handler[h].expires)
      BY <2>0, <2>2 DEF UntilOK
    <3> QED
      BY <2>0, <2>2, <3>1, FoundIs
  <2> QED
    BY <2>1, <2>2
<1> QED
  BY <1>1, GrantInvariant, PTL

-----------------------------------------------------------------------------
(* Polls (AccessPoll), which share no state with the model of the grants.   *)

Verdicts == {"none", "allow", "deny"}
RowStatuses == {"none", "pending", "granted", "denied", "dismissed"}

\* Every variable is a function or set of such records.
PollTypes ==
  /\ rule \in Verdicts /\ row \in RowStatuses /\ parked \in BOOLEAN /\ quiet \in BOOLEAN
  /\ asks \in 0 .. MaxAsks
  /\ op \in [Ops -> [at : {"idle", "write", "mark", "publish", "created", "done"},
                     kind : {"allow", "host", "deny"}]]
  /\ poll \in [Polls -> [at : PollPhases, rule : Verdicts, row : RowStatuses,
                         answer : {"none", "pending", "granted", "denied"}]]
  /\ buf \in [Polls -> 0 .. Buffer] /\ subs \subseteq Polls

\* Whoever waits is subscribed.
Waiting    == {"check", "checkRow", "select", "last", "lastRow"}
Subscribed == \A p \in Polls : poll[p].at \in Waiting => p \in subs

\* There is, or will be, an event for the poll, or the decision came without one.
Announced(p) ==
  buf[p] > 0 \/ (\E o \in Ops : op[o].at \in {"mark", "publish", "created"}) \/ quiet

\* A poll that sleeps, or is about to because the rules it has read say so, has
\* not missed a decision.
Undecided(p) ==
  \/ Status(rule, row) = "pending"
  \/ poll[p].at = "checkRow" /\ Status(poll[p].rule, row) # "pending"
NoneMissed == \A p \in Polls : poll[p].at \in {"checkRow", "select"} => Undecided(p) \/ Announced(p)

WakeInv == PollTypes /\ Subscribed /\ NoneMissed

\* An event reaches every subscriber, whose channel is not empty then.
LEMMA PublishWakes ==
  ASSUME PollTypes, Publish
  PROVE  /\ buf' \in [Polls -> 0 .. Buffer]
         /\ \A p \in Polls : p \in subs => buf'[p] > 0
  BY PollAssumption DEF PollTypes, Publish, Fed

\* Every variable keeps its type.
LEMMA PollTypesStep ==
  ASSUME PollTypes, [PollNext]_pollVars
  PROVE  PollTypes'
<1>0. /\ buf \in [Polls -> 0 .. Buffer] /\ Buffer \in Nat /\ MaxAsks \in Nat
  BY PollAssumption DEF PollTypes
<1>1. ASSUME NEW p \in Polls, ReadRules(p)
      PROVE  PollTypes'
  <2>1. PICK at \in PollPhases :
           poll' = [poll EXCEPT ![p].rule = rule, ![p].at = at]
    BY <1>1 DEF ReadRules, PollPhases, PollTypes
  <2>2. [poll[p] EXCEPT !.rule = rule, !.at = at]
           \in [at : PollPhases, rule : Verdicts, row : RowStatuses,
                answer : {"none", "pending", "granted", "denied"}]
    BY DEF PollTypes
  <2>3. poll' = [poll EXCEPT ![p] = [poll[p] EXCEPT !.rule = rule, !.at = at]]
    BY <2>1 DEF PollTypes
  <2> QED
    BY <1>1, <2>2, <2>3 DEF ReadRules, PollTypes
<1>2. ASSUME NEW p \in Polls, NEW answer \in {"pending", "granted", "denied"}, Return(p, answer),
             UNCHANGED <<rule, row, parked, asks, op, quiet>>
      PROVE  PollTypes'
  <2>1. [poll[p] EXCEPT !.at = "returned", !.answer = answer, !.row = row]
           \in [at : PollPhases, rule : Verdicts, row : RowStatuses,
                answer : {"none", "pending", "granted", "denied"}]
    BY DEF PollTypes, PollPhases
  <2>2. poll' = [poll EXCEPT ![p] = [poll[p] EXCEPT !.at = "returned", !.answer = answer, !.row = row]]
    BY <1>2 DEF Return, PollTypes
  <2>3. buf' \in [Polls -> 0 .. Buffer] /\ subs' \subseteq Polls
    BY <1>0, <1>2 DEF Return, PollTypes
  <2> QED
    BY <1>2, <2>1, <2>2, <2>3 DEF PollTypes
<1>3. ASSUME NEW p \in Polls, NEW at \in PollPhases, poll' = [poll EXCEPT ![p].at = at],
             subs' \subseteq Polls, buf' \in [Polls -> 0 .. Buffer],
             UNCHANGED <<rule, row, parked, asks, op, quiet>>
      PROVE  PollTypes'
  BY <1>3 DEF PollTypes
<1>4. ASSUME NEW p \in Polls, ReadRow(p)
      PROVE  PollTypes'
  <2>1. Status(poll[p].rule, row) \in {"pending", "granted", "denied"}
    BY DEF PollTypes, Status, Verdicts
  <2>2. CASE Return(p, Status(poll[p].rule, row))
    BY <1>2, <1>4, <2>1, <2>2 DEF ReadRow
  <2>3. CASE ~ Return(p, Status(poll[p].rule, row))
    <3>1. PICK at \in {"ask", "select"} : poll' = [poll EXCEPT ![p].row = row, ![p].at = at]
      BY <1>4, <2>3 DEF ReadRow, PollTypes
    <3>2. [poll[p] EXCEPT !.row = row, !.at = at]
             \in [at : PollPhases, rule : Verdicts, row : RowStatuses,
                  answer : {"none", "pending", "granted", "denied"}]
      BY DEF PollTypes, PollPhases
    <3>3. poll' = [poll EXCEPT ![p] = [poll[p] EXCEPT !.row = row, !.at = at]]
      BY <3>1 DEF PollTypes
    <3>4. UNCHANGED <<rule, row, parked, asks, op, quiet, subs, buf>>
      BY <1>4, <2>3 DEF ReadRow
    <3> QED
      BY <3>2, <3>3, <3>4 DEF PollTypes
  <2> QED
    BY <2>2, <2>3
<1>5. ASSUME NEW p \in Polls, HasPending(p)
      PROVE  PollTypes'
  BY <1>2, <1>3, <1>5 DEF HasPending, PollTypes, PollPhases
<1>6. ASSUME NEW p \in Polls, Subscribe(p) \/ Ticker(p) \/ Deadline(p)
      PROVE  PollTypes'
  BY <1>3, <1>6 DEF Subscribe, Ticker, Deadline, PollTypes, PollPhases
<1>7. ASSUME NEW p \in Polls, Wake(p)
      PROVE  PollTypes'
  <2>1. buf' \in [Polls -> 0 .. Buffer]
    BY <1>0, <1>7 DEF Wake
  <2> QED
    BY <1>3, <1>7, <2>1 DEF Wake, PollTypes, PollPhases
<1>8. ASSUME NEW o \in Ops, NEW at \in {"idle", "write", "mark", "publish", "created", "done"},
             \/ op' = [op EXCEPT ![o].at = at]
             \/ \E k \in {"allow", "host", "deny"} : op' = [op EXCEPT ![o] = [at |-> at, kind |-> k]],
             rule' \in Verdicts, row' \in RowStatuses, parked' \in BOOLEAN, quiet' \in BOOLEAN,
             buf' \in [Polls -> 0 .. Buffer], UNCHANGED <<asks, poll, subs>>
      PROVE  PollTypes'
  BY <1>8 DEF PollTypes
<1>9. ASSUME NEW o \in Ops, NEW k \in {"allow", "host", "deny"}, ResolveBegin(o, k)
      PROVE  PollTypes'
  BY <1>8, <1>9 DEF ResolveBegin, PollTypes
<1>10. ASSUME NEW o \in Ops, ResolveWrite(o) \/ ResolveMark(o)
       PROVE  PollTypes'
  BY <1>8, <1>10 DEF ResolveWrite, ResolveMark, PollTypes, Verdicts, RowStatuses
<1>11. ASSUME NEW o \in Ops, ResolvePublish(o) \/ RuleCreated(o)
       PROVE  PollTypes'
  BY <1>8, <1>11, PublishWakes DEF ResolvePublish, RuleCreated, PollTypes
<1>12. ASSUME NEW o \in Ops, NEW outcome \in {"allow", "deny"}, RuleCreate(o, outcome)
       PROVE  PollTypes'
  BY <1>8, <1>12 DEF RuleCreate, PollTypes, Verdicts
<1>13. ASSUME NEW o \in Ops, NEW s \in {"granted", "denied", "dismissed"}, RowResolve(o, s)
       PROVE  PollTypes'
  BY <1>8, <1>13 DEF RowResolve, PollTypes, RowStatuses
<1>14. ASSUME NEW o \in Ops, RuleGone(o)
       PROVE  PollTypes'
  BY <1>8, <1>14 DEF RuleGone, PollTypes, Verdicts
<1>15. CASE RequestAccess
  BY <1>0, <1>15, PublishWakes DEF RequestAccess, PollTypes, RowStatuses
<1>16. CASE CardExpires
  BY <1>16 DEF CardExpires, PollTypes
<1>17. CASE Noise
  BY <1>17, PublishWakes DEF Noise, PollTypes
<1>18. CASE UNCHANGED pollVars
  BY <1>18 DEF pollVars, PollTypes
<1> QED
  BY <1>1, <1>4, <1>5, <1>6, <1>7, <1>9, <1>10, <1>11, <1>12, <1>13, <1>14, <1>15, <1>16, <1>17, <1>18
  DEF PollNext, PollStep

\* Where a step of a poll leads: the other polls stay as they are, a poll that
\* waits is on the bus, and one that goes to sleep has just read "pending".
LEMMA PollMoves ==
  ASSUME PollTypes, Subscribed, NEW p \in Polls, PollStep(p) \/ Deadline(p)
  PROVE  /\ \A q \in Polls \ {p} : poll'[q] = poll[q] /\ buf'[q] = buf[q] /\ (q \in subs => q \in subs')
         /\ UNCHANGED <<rule, row, op, quiet>>
         /\ poll'[p].at \in Waiting => p \in subs'
         /\ \/ poll'[p].at \notin {"checkRow", "select"}
            \/ poll'[p].at = "checkRow" /\ poll'[p].rule = rule
            \/ /\ poll'[p].at = "select" /\ poll[p].at = "checkRow"
               /\ Status(poll[p].rule, row) = "pending" /\ buf' = buf
<1>0. /\ poll \in [Polls -> [at : PollPhases, rule : Verdicts, row : RowStatuses,
                             answer : {"none", "pending", "granted", "denied"}]]
      /\ buf \in [Polls -> 0 .. Buffer] /\ subs \subseteq Polls
  BY DEF PollTypes
<1>1. CASE ReadRules(p)
  BY <1>0, <1>1 DEF ReadRules, Subscribed, Waiting
<1>2. ASSUME NEW answer, Return(p, answer)
      PROVE  /\ \A q \in Polls \ {p} : poll'[q] = poll[q] /\ buf'[q] = buf[q] /\ (q \in subs => q \in subs')
             /\ poll'[p].at = "returned"
  BY <1>0, <1>2 DEF Return
<1>3. CASE ReadRow(p)
  <2>1. CASE Return(p, Status(poll[p].rule, row))
    BY <1>2, <1>3, <2>1 DEF ReadRow, Waiting
  <2>2. CASE ~ Return(p, Status(poll[p].rule, row))
    BY <1>0, <1>3, <2>2 DEF ReadRow, Subscribed, Waiting
  <2> QED
    BY <2>1, <2>2
<1>4. CASE HasPending(p)
  <2>1. CASE Return(p, "pending")
    BY <1>2, <1>4, <2>1 DEF HasPending, Waiting
  <2>2. CASE ~ Return(p, "pending")
    BY <1>0, <1>4, <2>2 DEF HasPending, Waiting
  <2> QED
    BY <2>1, <2>2
<1>5. CASE Subscribe(p)
  BY <1>0, <1>5 DEF Subscribe
<1>6. CASE Wake(p)
  BY <1>0, <1>6 DEF Wake, Subscribed, Waiting
<1>7. CASE Ticker(p) \/ Deadline(p)
  BY <1>0, <1>7 DEF Ticker, Deadline, Subscribed, Waiting
<1> QED
  BY <1>1, <1>3, <1>4, <1>5, <1>6, <1>7 DEF PollStep

\* An operator's step leaves the polls alone.  It tells every poll of what it
\* changes, or still has to, or nobody is told.
LEMMA OperatorMoves ==
  ASSUME PollTypes, NEW o \in Ops,
         \/ \E k \in {"allow", "host", "deny"} : ResolveBegin(o, k)
         \/ ResolveWrite(o) \/ ResolveMark(o) \/ ResolvePublish(o)
         \/ \E outcome \in {"allow", "deny"} : RuleCreate(o, outcome)
         \/ RuleCreated(o)
         \/ \E s \in {"granted", "denied", "dismissed"} : RowResolve(o, s)
         \/ RuleGone(o)
  PROVE  /\ UNCHANGED <<poll, subs>>
         /\ \/ /\ UNCHANGED <<rule, row, buf, quiet>>
               /\ \A x \in Ops : op[x].at \in {"mark", "publish", "created"} =>
                                 op'[x].at \in {"mark", "publish", "created"}
            \/ \E x \in Ops : op'[x].at \in {"mark", "publish", "created"}
            \/ \A p \in Polls : p \in subs => buf'[p] > 0
            \/ quiet'
<1>0. op \in [Ops -> [at : {"idle", "write", "mark", "publish", "created", "done"},
                      kind : {"allow", "host", "deny"}]]
  BY DEF PollTypes
<1>1. ASSUME NEW k \in {"allow", "host", "deny"}, ResolveBegin(o, k)
      PROVE  /\ UNCHANGED <<rule, row, buf, quiet, poll, subs>>
             /\ \A x \in Ops : op[x].at \in {"mark", "publish", "created"} =>
                               op'[x].at \in {"mark", "publish", "created"}
  BY <1>0, <1>1 DEF ResolveBegin
<1>2. CASE ResolveWrite(o) \/ ResolveMark(o)
  BY <1>0, <1>2 DEF ResolveWrite, ResolveMark
<1>3. CASE ResolvePublish(o) \/ RuleCreated(o)
  BY <1>3, PublishWakes DEF ResolvePublish, RuleCreated
<1>4. ASSUME NEW outcome \in {"allow", "deny"}, RuleCreate(o, outcome)
      PROVE  UNCHANGED <<poll, subs>> /\ op'[o].at = "created"
  BY <1>0, <1>4 DEF RuleCreate
<1>5. ASSUME NEW s \in {"granted", "denied", "dismissed"}, RowResolve(o, s)
      PROVE  UNCHANGED <<poll, subs>> /\ quiet'
  BY <1>5 DEF RowResolve
<1>6. CASE RuleGone(o)
  BY <1>6 DEF RuleGone
<1> QED
  BY <1>1, <1>2, <1>3, <1>4, <1>5, <1>6

\* No step makes a poll miss a decision.
LEMMA WakeStep ==
  ASSUME WakeInv, [PollNext]_pollVars
  PROVE  WakeInv'
<1>0. PollTypes /\ Subscribed /\ NoneMissed
  BY DEF WakeInv
<1>1. PollTypes'
  BY <1>0, PollTypesStep
<1>2. ASSUME NEW p \in Polls, PollStep(p) \/ Deadline(p)
      PROVE  Subscribed' /\ NoneMissed'
  <2>1. /\ \A q \in Polls \ {p} : poll'[q] = poll[q] /\ buf'[q] = buf[q] /\ (q \in subs => q \in subs')
        /\ UNCHANGED <<rule, row, op, quiet>>
        /\ poll'[p].at \in Waiting => p \in subs'
        /\ \/ poll'[p].at \notin {"checkRow", "select"}
           \/ poll'[p].at = "checkRow" /\ poll'[p].rule = rule
           \/ /\ poll'[p].at = "select" /\ poll[p].at = "checkRow"
              /\ Status(poll[p].rule, row) = "pending" /\ buf' = buf
    BY <1>0, <1>2, PollMoves
  <2>2. Subscribed'
    BY <1>0, <2>1 DEF Subscribed
  <2>3. Status(rule, row)' = Status(rule, row)
    BY <2>1 DEF Status
  <2>4. ASSUME NEW q \in Polls \ {p}, poll'[q].at \in {"checkRow", "select"}
        PROVE  (Undecided(q) \/ Announced(q))'
    <3>1. Status(poll[q].rule, row)' = Status(poll[q].rule, row)
      BY <2>1 DEF Status
    <3> QED
      BY <1>0, <2>1, <2>3, <2>4, <3>1 DEF NoneMissed, Undecided, Announced
  <2>5. ASSUME poll'[p].at \in {"checkRow", "select"}
        PROVE  (Undecided(p) \/ Announced(p))'
    <3>1. CASE poll'[p].at = "checkRow" /\ poll'[p].rule = rule
      <4>1. Status(poll[p].rule, row)' = Status(rule, row)'
        BY <2>1, <3>1 DEF Status
      <4> QED
        BY <3>1, <4>1 DEF Undecided
    <3>2. CASE /\ poll'[p].at = "select" /\ poll[p].at = "checkRow"
               /\ Status(poll[p].rule, row) = "pending" /\ buf' = buf
      BY <1>0, <2>1, <2>3, <3>2 DEF NoneMissed, Undecided, Announced
    <3> QED
      BY <2>1, <2>5, <3>1, <3>2
  <2>6. NoneMissed'
    BY <2>4, <2>5 DEF NoneMissed
  <2> QED
    BY <2>2, <2>6
<1>3. ASSUME UNCHANGED <<poll, subs>>,
             \A p \in Polls : p \in subs => buf'[p] > 0
      PROVE  Subscribed' /\ NoneMissed'
  BY <1>0, <1>3 DEF Subscribed, NoneMissed, Announced, Waiting
<1>4. ASSUME UNCHANGED <<rule, row, poll, subs, buf, quiet>>,
             \A x \in Ops : op[x].at \in {"mark", "publish", "created"} =>
                            op'[x].at \in {"mark", "publish", "created"}
      PROVE  Subscribed' /\ NoneMissed'
  <2>1. ASSUME NEW p \in Polls
        PROVE  (Undecided(p)' <=> Undecided(p)) /\ (Announced(p) => Announced(p)')
    BY <1>4 DEF Undecided, Announced, Status
  <2> QED
    BY <1>0, <1>4, <2>1 DEF Subscribed, NoneMissed
<1>5. ASSUME NEW o \in Ops,
             \/ \E k \in {"allow", "host", "deny"} : ResolveBegin(o, k)
             \/ ResolveWrite(o) \/ ResolveMark(o) \/ ResolvePublish(o)
             \/ \E outcome \in {"allow", "deny"} : RuleCreate(o, outcome)
             \/ RuleCreated(o)
             \/ \E s \in {"granted", "denied", "dismissed"} : RowResolve(o, s)
             \/ RuleGone(o)
      PROVE  Subscribed' /\ NoneMissed'
  <2>1. /\ UNCHANGED <<poll, subs>>
        /\ \/ /\ UNCHANGED <<rule, row, buf, quiet>>
              /\ \A x \in Ops : op[x].at \in {"mark", "publish", "created"} =>
                                op'[x].at \in {"mark", "publish", "created"}
           \/ \E x \in Ops : op'[x].at \in {"mark", "publish", "created"}
           \/ \A p \in Polls : p \in subs => buf'[p] > 0
           \/ quiet'
    BY <1>0, <1>5, OperatorMoves
  <2>2. CASE quiet' \/ \E x \in Ops : op'[x].at \in {"mark", "publish", "created"}
    BY <1>0, <2>1, <2>2 DEF Subscribed, NoneMissed, Announced
  <2> QED
    BY <1>3, <1>4, <2>1, <2>2
<1>6. ASSUME RequestAccess \/ Noise
      PROVE  Subscribed' /\ NoneMissed'
  <2>1. Publish /\ UNCHANGED <<poll, subs>>
    BY <1>6 DEF RequestAccess, Noise
  <2>2. \A p \in Polls : p \in subs => buf'[p] > 0
    BY <1>0, <2>1, PublishWakes
  <2> QED
    BY <1>3, <2>1, <2>2
<1>7. ASSUME CardExpires \/ UNCHANGED pollVars
      PROVE  Subscribed' /\ NoneMissed'
  <2>1. UNCHANGED <<rule, row, poll, subs, buf, quiet, op>>
    BY <1>7 DEF CardExpires, pollVars
  <2> QED
    BY <1>4, <2>1
<1>8. Subscribed' /\ NoneMissed'
  <2>1. CASE \E p \in Polls : PollStep(p) \/ Deadline(p)
    BY <1>2, <2>1
  <2>2. CASE \E o \in Ops :
               \/ \E k \in {"allow", "host", "deny"} : ResolveBegin(o, k)
               \/ ResolveWrite(o) \/ ResolveMark(o) \/ ResolvePublish(o)
               \/ \E outcome \in {"allow", "deny"} : RuleCreate(o, outcome)
               \/ RuleCreated(o)
               \/ \E s \in {"granted", "denied", "dismissed"} : RowResolve(o, s)
               \/ RuleGone(o)
    BY <1>5, <2>2
  <2> QED
    BY <1>6, <1>7, <2>1, <2>2 DEF PollNext
<1> QED
  BY <1>1, <1>8 DEF WakeInv

\* No poll sleeps through a decision, whatever the number of polls, of operator
\* calls and the size of the buffer (GetAccess subscribes before it checks, and
\* a channel too full for an event is not empty).
THEOREM DecisionsReachPolls == PollSpec => []PollInv
<1>1. PollInit => WakeInv
  <2> SUFFICES ASSUME PollInit PROVE WakeInv
    OBVIOUS
  <2>1. PollTypes
    <3>1. NewPoll \in [at : PollPhases, rule : Verdicts, row : RowStatuses,
                         answer : {"none", "pending", "granted", "denied"}]
      BY DEF NewPoll, PollPhases, Verdicts, RowStatuses
    <3>2. 0 \in 0 .. Buffer /\ 0 \in 0 .. MaxAsks
      BY PollAssumption
    <3> QED
      BY <3>1, <3>2 DEF PollInit, PollTypes, Verdicts, RowStatuses
  <2>2. Subscribed /\ NoneMissed
    BY DEF PollInit, NewPoll, Subscribed, NoneMissed, Waiting
  <2> QED
    BY <2>1, <2>2 DEF WakeInv
<1>2. WakeInv /\ [PollNext]_pollVars => WakeInv'
  BY WakeStep
<1>3. WakeInv => PollInv
  <2> SUFFICES ASSUME WakeInv PROVE PollInv
    OBVIOUS
  <2>1. PollTypeOK
    BY DEF WakeInv, PollTypes, PollTypeOK, Verdicts, RowStatuses
  <2>2. WakeupNotLost
    BY DEF WakeInv, NoneMissed, Undecided, Announced, WakeupNotLost
  <2> QED
    BY <2>1, <2>2 DEF PollInv
<1> QED
  BY <1>1, <1>2, <1>3, PTL DEF PollSpec
=============================================================================
