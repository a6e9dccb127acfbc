------------------------ MODULE PolicyRegistryProofs ------------------------
(***************************************************************************)
(* Proofs about the rule table and what is decided from it, for every      *)
(* catalog of rules, every request and every template.                     *)
(***************************************************************************)
EXTENDS PolicyRegistry, TLAPS, WellFoundedInduction, SequenceTheorems

(* The slashes at both ends of a path (SplitPath).                          *)

\* A non-empty set of naturals has a least element.
LEMMA LeastExists ==
  ASSUME NEW S, S \subseteq Nat, S # {}
  PROVE  \E i \in S : \A j \in S : i <= j
<1> DEFINE R == OpToRel(<, Nat)
<1>1. IsWellFoundedOn(R, Nat)
  BY NatLessThanWellFounded
<1>2. \A i, j \in Nat : (i < j) => <<i, j>> \in R
  BY DEF OpToRel
<1> HIDE DEF R
<1>3. \E i \in S : \A j \in S : ~ (<<j, i>> \in R)
  BY <1>1, WFMin
<1>4. PICK i \in S : \A j \in S : ~ (<<j, i>> \in R)
  BY <1>3
<1>5. ASSUME NEW j \in S PROVE i <= j
  <2>1. i \in Nat /\ j \in Nat
    OBVIOUS
  <2>2. ~ (j < i)
    BY <1>2, <1>4, <2>1
  <2>3. QED
    BY <2>1, <2>2
<1>6. QED
  BY <1>5

\* A bounded one has a greatest.
LEMMA GreatestExists ==
  ASSUME NEW n \in Nat, NEW S, S \subseteq 0 .. n, S # {}
  PROVE  \E i \in S : \A j \in S : j <= i
<1> DEFINE T == {k \in Nat : n - k \in S}
<1>1. PICK s \in S : TRUE
  OBVIOUS
<1>2. n - s \in T
  BY <1>1
<1>3. PICK k \in T : \A l \in T : k <= l
  BY <1>2, LeastExists
<1>4. \A j \in S : n - j \in T
  OBVIOUS
<1>5. \A j \in S : j <= n - k
  BY <1>3, <1>4
<1>6. n - k \in S
  BY <1>3
<1>7. QED
  BY <1>5, <1>6

\* A stretch of a path, by what it was cut out of.
LEMMA StretchIs ==
  ASSUME NEW path \in Seq(STRING), NEW m \in 1 .. Len(path), NEW n \in 1 .. Len(path), m <= n
  PROVE  /\ SubSeq(path, m, n) \in Seq(STRING) /\ n <= Len(path)
         /\ \E k \in Nat :
              /\ k + Len(SubSeq(path, m, n)) = n
              /\ \A i \in 1 .. Len(SubSeq(path, m, n)) : SubSeq(path, m, n)[i] = path[k + i]
<1>1. Len(path) \in Nat
  OBVIOUS
<1>2. m \in 1 .. Len(path) + 1 /\ n \in m - 1 .. Len(path)
  BY <1>1
<1>3. /\ SubSeq(path, m, n) \in Seq(STRING)
      /\ Len(SubSeq(path, m, n)) = n - m + 1
      /\ \A i \in 1 .. n - m + 1 : SubSeq(path, m, n)[i] = path[m + i - 1]
  BY <1>2, SubSeqProperties
<1>4. m - 1 \in Nat /\ m - 1 + (n - m + 1) = n /\ \A i \in Int : m - 1 + i = m + i - 1
  BY <1>1
<1>5. \A i \in 1 .. n - m + 1 : i \in Int
  BY <1>1
<1>6. QED
  BY <1>3, <1>4, <1>5

\* SplitPath is a stretch of the path that ends in a named segment.
LEMMA SplitPathIs ==
  ASSUME NEW path \in Seq(STRING)
  PROVE  /\ SplitPath(path) \in Seq(STRING)
         /\ \E k \in Nat :
              /\ k + Len(SplitPath(path)) <= Len(path)
              /\ \A i \in 1 .. Len(SplitPath(path)) : SplitPath(path)[i] = path[k + i]
              /\ Len(SplitPath(path)) > 0 => path[k + Len(SplitPath(path))] # Empty
<1> DEFINE named == {i \in DOMAIN path : path[i] # ""}
           first == CHOOSE i \in named : \A j \in named : i <= j
           last  == CHOOSE i \in named : \A j \in named : j <= i
<1>1. CASE named = {}
  <2>1. SplitPath(path) = <<>>
    BY <1>1 DEF SplitPath
  <2>2. QED
    BY <2>1
<1>2. CASE named # {}
  <2>1. Len(path) \in Nat /\ DOMAIN path = 1 .. Len(path)
    OBVIOUS
  <2>2. named \subseteq Nat /\ named \subseteq 0 .. Len(path)
    <3>1. 1 .. Len(path) \subseteq Nat /\ 1 .. Len(path) \subseteq 0 .. Len(path)
      BY <2>1
    <3>2. QED
      BY <2>1, <3>1
  <2>3. \E i \in named : \A j \in named : i <= j
    BY <1>2, <2>2, LeastExists
  <2>4. \E i \in named : \A j \in named : j <= i
    BY <1>2, <2>1, <2>2, GreatestExists
  <2>5. first \in named /\ (\A j \in named : first <= j)
    BY <2>3
  <2>6. last \in named /\ (\A j \in named : j <= last)
    BY <2>4
  <2>7. SplitPath(path) = SubSeq(path, first, last)
    BY <1>2 DEF SplitPath
  <2>8. first \in 1 .. Len(path) /\ last \in 1 .. Len(path) /\ first <= last /\ path[last] # Empty
    BY <2>1, <2>5, <2>6, RequestAssumption
  <2> HIDE DEF named, first, last
  <2>9. /\ SubSeq(path, first, last) \in Seq(STRING) /\ last <= Len(path)
        /\ \E k \in Nat :
             /\ k + Len(SubSeq(path, first, last)) = last
             /\ \A i \in 1 .. Len(SubSeq(path, first, last)) : SubSeq(path, first, last)[i] = path[k + i]
    BY <2>8, StretchIs
  <2>10. QED
    BY <2>7, <2>8, <2>9
<1>3. QED
  BY <1>1, <1>2

-----------------------------------------------------------------------------
(* The table.                                                               *)

\* What the policies may become under an update.
LEMMA MutatedIsPolicies ==
  ASSUME NEW p, IsPolicies(p), NEW op \in UpdateOps, NEW v, NEW val \in Values
  PROVE  IsPolicies(Mutated(p, op, v, val))
<1>1. ASSUME NEW vp \in VarPolicies PROVE NewPolicy(vp, op, val) \in VarPolicies
  <2> DEFINE one  == [vp EXCEPT !.values = @ \cup {val}]
             any  == [vp EXCEPT !.mode = "any", !.values = {}]
             num  == [vp EXCEPT !.mode = "range", !.min = NumberOf[val], !.max = NumberOf[val], !.values = {}]
             text == [vp EXCEPT !.mode = "set", !.values = {val}, !.min = NoBound, !.max = NoBound]
  <2>1. op = "add" \/ op = "any" \/ op = "set"
    BY RuleAssumption
  <2>2. op = "set" => NumberOf[val] \in Int
    BY RuleAssumption
  <2>3. one \in VarPolicies /\ any \in VarPolicies /\ text \in VarPolicies
    BY <1>1 DEF VarPolicies
  <2>4. op = "set" => num \in VarPolicies
    BY <1>1, <2>2 DEF VarPolicies
  <2>5. /\ op = "add" => NewPolicy(vp, op, val) = one
        /\ op = "any" => NewPolicy(vp, op, val) = any
        /\ op = "set" => NewPolicy(vp, op, val) = IF vp.type = "number" THEN num ELSE text
    BY DEF NewPolicy
  <2> HIDE DEF one, any, num, text
  <2>6. QED
    BY <2>1, <2>3, <2>4, <2>5
<1>2. Mutated(p, op, v, val) = [p EXCEPT ![v] = NewPolicy(p[v], op, val)]
  BY DEF Mutated
<1>3. QED
  BY <1>1, <1>2 DEF IsPolicies

\* A new row is a row.
LEMMA NewRow ==
  ASSUME NEW b \in Catalog, ValidOutcome(b.outcome), NEW i \in RuleIds
  PROVE  /\ IsRow(Row(b, i)) /\ Row(b, i).id = i /\ Row(b, i).expires = b.expires
         /\ Row(b, i).template = b.template
BY RuleAssumption DEF IsRow, Row, RowOf

\* An UPDATE of one column leaves a row, with the other columns as they were.
LEMMA UpdatedRow ==
  ASSUME NEW r, IsRow(r), NEW e \in Times, NEW p, IsPolicies(p)
  PROVE  /\ IsRow([r EXCEPT !.expires = e]) /\ [r EXCEPT !.expires = e].expires = e
         /\ [r EXCEPT !.expires = e].id = r.id /\ [r EXCEPT !.expires = e].template = r.template
         /\ IsRow([r EXCEPT !.policies = p]) /\ [r EXCEPT !.policies = p].expires = r.expires
         /\ [r EXCEPT !.policies = p].id = r.id /\ [r EXCEPT !.policies = p].template = r.template
<1>1. PICK b \in Catalog : ValidOutcome(b.outcome) /\ r = RowOf(b, r.id, r.expires, r.policies)
  BY DEF IsRow
<1>2. /\ [r EXCEPT !.expires = e] = RowOf(b, r.id, e, r.policies)
      /\ [r EXCEPT !.policies = p] = RowOf(b, r.id, r.expires, p)
  BY <1>1 DEF RowOf
<1>3. \A x, y, z : /\ RowOf(b, x, y, z).id = x /\ RowOf(b, x, y, z).expires = y
                   /\ RowOf(b, x, y, z).policies = z /\ RowOf(b, x, y, z).template = b.template
  BY DEF RowOf
<1>4. r.template = b.template
  BY <1>1, <1>3
<1>5. IsRow([r EXCEPT !.expires = e]) /\ IsRow([r EXCEPT !.policies = p])
  BY <1>1, <1>2, <1>3 DEF IsRow
<1>6. QED
  BY <1>2, <1>3, <1>4, <1>5

-----------------------------------------------------------------------------
(* The inductive invariant.                                                 *)

\* A template is cached only for an id that was drawn, so a new rule finds none.
CacheIsDrawn == \A i \in RuleIds \ used : cache[i] = Absent

\* What every step preserves.
RuleInv == TypeOK /\ CacheCoherent /\ ExpirySticks /\ CacheIsDrawn

\* Nothing is stored at first.
LEMMA InitRuleInv == Init => RuleInv
<1> SUFFICES ASSUME Init PROVE RuleInv
  OBVIOUS
<1>1. Present = {}
  BY DEF Init, Present
<1>2. 0 \in 0 .. MaxTime
  BY RuleAssumption
<1>3. TypeOK
  BY <1>1, <1>2 DEF Init, TypeOK
<1>4. QED
  BY <1>1, <1>3 DEF Init, RuleInv, CacheCoherent, ExpirySticks, CacheIsDrawn

\* New rows come under ids never drawn before.
LEMMA CreateManyStep ==
  ASSUME RuleInv, NEW ids \in SUBSET RuleIds, NEW bodies \in [ids -> Catalog], CreateMany(ids, bodies)
  PROVE  RuleInv'
<1>1. \A i \in ids : /\ IsRow(Row(bodies[i], i)) /\ Row(bodies[i], i).id = i
                     /\ Row(bodies[i], i).expires = bodies[i].expires /\ bodies[i].expires \in Times
  <2> TAKE i \in ids
  <2>1. bodies[i] \in Catalog /\ ValidOutcome(bodies[i].outcome) /\ i \in RuleIds
    BY DEF CreateMany
  <2>2. QED
    BY <2>1, NewRow, RuleAssumption
<1>2. Present' \subseteq Present \cup ids
  BY DEF CreateMany, Present
<1>3. \A i \in Present' : IF i \in ids THEN table'[i] = Row(bodies[i], i)
                          ELSE i \in Present /\ table'[i] = table[i]
  BY DEF CreateMany, Present
<1>4. TypeOK'
  <2>1. DOMAIN table' = RuleIds /\ \A i \in Present' : IsRow(table'[i]) /\ table'[i].id = i
    BY <1>1, <1>3 DEF CreateMany, RuleInv, TypeOK
  <2>2. used' \subseteq RuleIds /\ Present' \subseteq used'
    BY <1>2 DEF CreateMany, RuleInv, TypeOK
  <2>3. expiry' \in [RuleIds -> Times \cup {Absent}]
    BY <1>1 DEF CreateMany, RuleInv, TypeOK
  <2>4. UNCHANGED <<cache, update, now>>
    BY DEF CreateMany
  <2>5. QED
    BY <2>1, <2>2, <2>3, <2>4 DEF RuleInv, TypeOK
<1>5. CacheCoherent' /\ CacheIsDrawn'
  BY <1>3 DEF CreateMany, RuleInv, TypeOK, CacheCoherent, CacheIsDrawn, FreshIds
<1>6. ExpirySticks'
  BY <1>1, <1>3 DEF CreateMany, RuleInv, TypeOK, ExpirySticks
<1>7. QED
  BY <1>4, <1>5, <1>6 DEF RuleInv

\* Rows go, nothing else.
LEMMA DeleteRowsStep ==
  ASSUME RuleInv, NEW gone, DeleteRows(gone)
  PROVE  RuleInv'
<1>1. \A i \in Present' : i \in Present /\ table'[i] = table[i]
  BY DEF DeleteRows, Present
<1>2. DOMAIN table' = RuleIds /\ UNCHANGED <<used, cache, update, now, expiry>>
  BY DEF DeleteRows
<1>3. TypeOK'
  BY <1>1, <1>2 DEF RuleInv, TypeOK
<1>4. QED
  BY <1>1, <1>2, <1>3 DEF RuleInv, CacheCoherent, ExpirySticks, CacheIsDrawn

\* One row has one of its columns written.
LEMMA OneRowStep ==
  ASSUME RuleInv, NEW i \in Present, NEW r, IsRow(r), r.id = i, r.template = table[i].template,
         table' = [table EXCEPT ![i] = r],
         DOMAIN expiry' = RuleIds, expiry'[i] = r.expires, \A j \in RuleIds \ {i} : expiry'[j] = expiry[j],
         expiry' \in [RuleIds -> Times \cup {Absent}],
         UNCHANGED <<used, cache, now>>
  PROVE  /\ DOMAIN table' = RuleIds /\ \A j \in Present' : IsRow(table'[j]) /\ table'[j].id = j
         /\ used' \subseteq RuleIds /\ Present' \subseteq used'
         /\ CacheCoherent' /\ ExpirySticks' /\ CacheIsDrawn'
<1>1. \A j \in Present' : j \in Present /\ table'[j] = IF j = i THEN r ELSE table[j]
  BY DEF Present, RuleInv, TypeOK
<1>2. DOMAIN table' = RuleIds /\ Present \subseteq RuleIds
  BY DEF RuleInv, TypeOK, Present
<1>3. QED
  BY <1>1, <1>2 DEF RuleInv, TypeOK, CacheCoherent, ExpirySticks, CacheIsDrawn

\* Renew writes the expiry that is asked for.
LEMMA RenewStep ==
  ASSUME RuleInv, NEW i \in RuleIds, NEW e \in Expiries, Renew(i, e)
  PROVE  RuleInv'
<1> DEFINE r == [table[i] EXCEPT !.expires = e]
<1>1. i \in Present /\ e \in Times /\ IsRow(table[i]) /\ table[i].id = i /\ IsPolicies(table[i].policies)
  BY RuleAssumption DEF Renew, RuleInv, TypeOK, IsRow
<1>2. IsRow(r) /\ r.id = i /\ r.expires = e /\ r.template = table[i].template
  BY <1>1, UpdatedRow
<1>3. table' = [table EXCEPT ![i] = r] /\ UNCHANGED <<used, cache, update, now>>
  BY DEF Renew
<1> HIDE DEF r
<1>4. /\ DOMAIN expiry' = RuleIds /\ expiry'[i] = r.expires
      /\ \A j \in RuleIds \ {i} : expiry'[j] = expiry[j]
      /\ expiry' \in [RuleIds -> Times \cup {Absent}]
  BY <1>1, <1>2 DEF Renew, RuleInv, TypeOK
<1>5. /\ DOMAIN table' = RuleIds /\ \A j \in Present' : IsRow(table'[j]) /\ table'[j].id = j
      /\ used' \subseteq RuleIds /\ Present' \subseteq used'
      /\ CacheCoherent' /\ ExpirySticks' /\ CacheIsDrawn'
  BY <1>1, <1>2, <1>3, <1>4, OneRowStep
<1>6. TypeOK'
  BY <1>3, <1>4, <1>5 DEF RuleInv, TypeOK
<1>7. QED
  BY <1>5, <1>6 DEF RuleInv

\* An update loads a row of the table.
LEMMA UpdateLoadStep ==
  ASSUME RuleInv, NEW w \in Updates, NEW i \in Present, NEW op \in UpdateOps, NEW val \in Values,
         NEW v \in DOMAIN table[i].policies, UpdateLoad(w, i, op, v, val)
  PROVE  RuleInv'
<1> DEFINE u == update'[w]
<1>1. PICK s \in {"loaded", "done"} : update' = [update EXCEPT ![w] =
        [at |-> s, id |-> i, row |-> table[i], op |-> op, var |-> v, val |-> val]]
  BY DEF UpdateLoad
<1>2. IsRow(table[i]) /\ v \in VarNames /\ i \in RuleIds
  BY DEF RuleInv, TypeOK, IsRow, IsPolicies, Present
<1>3. UNCHANGED <<table, used, cache, now, expiry>> /\ Present' = Present
  BY DEF UpdateLoad, Present
<1>4. DOMAIN update' = Updates /\ \A x \in Updates \ {w} : update'[x] = update[x]
  BY <1>1 DEF RuleInv, TypeOK
<1>5. u = [at |-> s, id |-> i, row |-> table[i], op |-> op, var |-> v, val |-> val]
  BY <1>1 DEF RuleInv, TypeOK
<1>6. /\ IsRow(u.row)
      /\ u \in [at : {"loaded", "done"}, id : RuleIds, row : {u.row}, op : UpdateOps, var : VarNames, val : Values]
  BY <1>2, <1>5
<1>7. TypeOK'
  BY <1>3, <1>4, <1>6 DEF RuleInv, TypeOK
<1>8. QED
  BY <1>3, <1>7 DEF RuleInv, CacheCoherent, ExpirySticks, CacheIsDrawn

\* A loaded update writes the policies of the row that is there, and of no other.
LEMMA UpdateStoreStep ==
  ASSUME RuleInv, NEW w \in Updates, UpdateStore(w)
  PROVE  RuleInv'
<1> DEFINE u == update[w]
           p == Mutated(u.row.policies, u.op, u.var, u.val)
           r == [table[u.id] EXCEPT !.policies = p]
<1>1. u.at = "loaded" /\ UNCHANGED <<used, cache, now, expiry>>
  BY DEF UpdateStore
<1>2. update[w] # IdleUpdate
  <2>1. IdleUpdate.at = "idle"
    BY DEF IdleUpdate
  <2>2. QED
    BY <1>1, <2>1
<1>3. /\ IsRow(u.row)
      /\ u \in [at : {"loaded", "done"}, id : RuleIds, row : {u.row}, op : UpdateOps, var : VarNames, val : Values]
  BY <1>2 DEF RuleInv, TypeOK
<1>4. DOMAIN update' = Updates /\ (\A x \in Updates \ {w} : update'[x] = update[x])
      /\ update'[w] = [u EXCEPT !.at = "done"]
  BY DEF UpdateStore, RuleInv, TypeOK
<1>5. update'[w] # IdleUpdate =>
         /\ IsRow(update'[w].row)
         /\ update'[w] \in [at : {"loaded", "done"}, id : RuleIds, row : {update'[w].row},
                            op : UpdateOps, var : VarNames, val : Values]
  BY <1>3, <1>4
<1>6. u.op \in UpdateOps /\ u.val \in Values /\ u.id \in RuleIds
  BY <1>3
<1>7. IsPolicies(p)
  BY <1>3, <1>6, MutatedIsPolicies DEF IsRow
<1>8. table' = [table EXCEPT ![u.id] = IF table[u.id] = Absent THEN table[u.id] ELSE r]
  BY DEF UpdateStore
<1> HIDE DEF u, p
<1>9. CASE table[u.id] = Absent
  <2>1. DOMAIN table' = RuleIds /\ \A j \in RuleIds : table'[j] = table[j]
    BY <1>8, <1>9 DEF RuleInv, TypeOK
  <2>2. Present' = Present /\ Present \subseteq RuleIds
    BY <2>1 DEF Present
  <2>3. TypeOK'
    BY <1>1, <1>4, <1>5, <2>1, <2>2 DEF RuleInv, TypeOK
  <2>4. QED
    BY <1>1, <2>1, <2>2, <2>3 DEF RuleInv, CacheCoherent, ExpirySticks, CacheIsDrawn
<1>10. CASE table[u.id] # Absent
  <2>1. u.id \in Present
    BY <1>6, <1>10 DEF Present
  <2>2. IsRow(table[u.id]) /\ table[u.id].id = u.id /\ table[u.id].expires \in Times
    BY <2>1 DEF RuleInv, TypeOK, IsRow
  <2>3. IsRow(r) /\ r.id = u.id /\ r.expires = table[u.id].expires /\ r.template = table[u.id].template
    BY <1>7, <2>2, UpdatedRow
  <2>4. table' = [table EXCEPT ![u.id] = r]
    BY <1>8, <1>10
  <2> HIDE DEF r
  <2>5. /\ DOMAIN expiry' = RuleIds /\ expiry'[u.id] = r.expires
        /\ \A j \in RuleIds \ {u.id} : expiry'[j] = expiry[j]
        /\ expiry' \in [RuleIds -> Times \cup {Absent}]
    BY <1>1, <2>1, <2>3 DEF RuleInv, TypeOK, ExpirySticks
  <2>6. /\ DOMAIN table' = RuleIds /\ \A j \in Present' : IsRow(table'[j]) /\ table'[j].id = j
        /\ used' \subseteq RuleIds /\ Present' \subseteq used'
        /\ CacheCoherent' /\ ExpirySticks' /\ CacheIsDrawn'
    BY <1>1, <2>1, <2>3, <2>4, <2>5, OneRowStep
  <2>7. TypeOK'
    BY <1>1, <1>4, <1>5, <2>5, <2>6 DEF RuleInv, TypeOK
  <2>8. QED
    BY <2>6, <2>7 DEF RuleInv
<1>11. QED
  BY <1>9, <1>10

\* The template a rule has is the one that is cached for it.
LEMMA ParseTemplateStep ==
  ASSUME RuleInv, NEW i \in RuleIds, ParseTemplate(i)
  PROVE  RuleInv'
<1>1. UNCHANGED <<table, used, update, now, expiry>> /\ Present' = Present
  BY DEF ParseTemplate, Present
<1>2. TypeOK'
  BY <1>1 DEF RuleInv, TypeOK, ParseTemplate
<1>3. CacheCoherent' /\ CacheIsDrawn'
  BY <1>1 DEF RuleInv, TypeOK, ParseTemplate, CacheCoherent, CacheIsDrawn
<1>4. QED
  BY <1>1, <1>2, <1>3 DEF RuleInv, ExpirySticks

\* The clock alone moves.
LEMMA TickStep ==
  ASSUME RuleInv, Tick \/ UNCHANGED vars
  PROVE  RuleInv'
<1>1. UNCHANGED <<table, used, cache, update, expiry>> /\ Present' = Present
  BY DEF Tick, vars, Present
<1>2. now' \in 0 .. MaxTime
  BY RuleAssumption DEF RuleInv, TypeOK, Tick, vars
<1>3. TypeOK'
  BY <1>1, <1>2 DEF RuleInv, TypeOK
<1>4. QED
  BY <1>1, <1>3 DEF RuleInv, CacheCoherent, ExpirySticks, CacheIsDrawn

\* The invariant is inductive.
LEMMA RuleInvStep == RuleInv /\ [Next]_vars => RuleInv'
<1> SUFFICES ASSUME RuleInv, [Next]_vars PROVE RuleInv'
  OBVIOUS
<1>1. ASSUME NEW ids \in SUBSET RuleIds, NEW bodies \in [ids -> Catalog], CreateMany(ids, bodies) PROVE RuleInv'
  BY <1>1, CreateManyStep
<1>2. ASSUME NEW i \in RuleIds, Delete(i) PROVE RuleInv'
  BY <1>2, DeleteRowsStep DEF Delete
<1>3. ASSUME NEW i \in RuleIds, ParseTemplate(i) PROVE RuleInv'
  BY <1>3, ParseTemplateStep
<1>4. ASSUME NEW i \in RuleIds, NEW e \in Expiries, Renew(i, e) PROVE RuleInv'
  BY <1>4, RenewStep
<1>5. ASSUME NEW b \in Catalog, DeleteBySubject(b.subject) PROVE RuleInv'
  BY <1>5, DeleteRowsStep DEF DeleteBySubject
<1>6. ASSUME NEW b \in Catalog, DeleteBySubjectUpstream(b.subject, b.upstream) PROVE RuleInv'
  BY <1>6, DeleteRowsStep DEF DeleteBySubjectUpstream
<1>7. ASSUME NEW w \in Updates, UpdateStore(w) PROVE RuleInv'
  BY <1>7, UpdateStoreStep
<1>8. ASSUME NEW w \in Updates, NEW i \in Present, NEW op \in UpdateOps, NEW val \in Values,
             NEW v \in DOMAIN table[i].policies, UpdateLoad(w, i, op, v, val)
      PROVE  RuleInv'
  BY <1>8, UpdateLoadStep
<1>9. ASSUME Tick \/ UNCHANGED vars PROVE RuleInv'
  BY <1>9, TickStep
<1>10. QED
  BY <1>1, <1>2, <1>3, <1>4, <1>5, <1>6, <1>7, <1>8, <1>9 DEF Next

\* RuleInv holds in every reachable state: the rows, the updates in flight, the
\* expiries and the template cache stay as the registry's writes intend them.
THEOREM RuleInvariant == Spec => []RuleInv
<1>1. Init => RuleInv
  BY InitRuleInv
<1>2. RuleInv /\ [Next]_vars => RuleInv'
  BY RuleInvStep
<1>3. QED
  BY <1>1, <1>2, PTL DEF Spec

\* DeletedStaysDeleted: an update or a renewal that was on its way when the rule
\* was deleted does not bring it back, and its id is not drawn again.
THEOREM DeletesStick == Spec => DeletedStaysDeleted
<1> DEFINE Step == \A i \in used : table[i] = Absent => table'[i] = Absent
<1>1. RuleInv /\ [Next]_vars => [Step]_vars
  <2> SUFFICES ASSUME RuleInv, Next, NEW i \in used, table[i] = Absent PROVE table'[i] = Absent
    BY DEF vars
  <2>1. i \in RuleIds /\ i \notin Present /\ DOMAIN table = RuleIds
    BY DEF RuleInv, TypeOK, Present
  <2>2. ASSUME NEW gone, DeleteRows(gone) PROVE table'[i] = Absent
    BY <2>1, <2>2 DEF DeleteRows
  <2>3. ASSUME NEW ids \in SUBSET RuleIds, NEW bodies \in [ids -> Catalog], CreateMany(ids, bodies)
        PROVE table'[i] = Absent
    BY <2>1, <2>3 DEF CreateMany, FreshIds
  <2>4. ASSUME NEW j \in RuleIds, NEW e \in Expiries, Renew(j, e) PROVE table'[i] = Absent
    BY <2>1, <2>4 DEF Renew
  <2>5. ASSUME NEW w \in Updates, UpdateStore(w) PROVE table'[i] = Absent
    BY <2>1, <2>5 DEF UpdateStore
  <2>6. ASSUME UNCHANGED table PROVE table'[i] = Absent
    BY <2>6
  <2>7. QED
    BY <2>2, <2>3, <2>4, <2>5, <2>6
    DEF Next, Delete, DeleteBySubject, DeleteBySubjectUpstream, ParseTemplate, UpdateLoad, Tick
<1>2. QED
  BY <1>1, RuleInvariant, PTL DEF Spec, DeletedStaysDeleted

-----------------------------------------------------------------------------
(* What Decide is asked.                                                    *)

\* A template's key fixes what its tokens admit.
LEMMA KeyFixesMatch ==
  ASSUME NEW t, NEW s, Key(t) = Key(s), NEW q, Match(t, q) /\ ExtractBody(t, q.body)
  PROVE  Match(s, q) /\ ExtractBody(s, q.body)
<1> DEFINE shape(part) == [x \in DOMAIN part |-> <<part[x].kind, part[x].text, part[x].type>>]
<1>1. Upper(t.method) = Upper(s.method) /\ t.path = s.path /\ shape(t.query) = shape(s.query)
      /\ shape(t.body) = shape(s.body)
  BY DEF Key
<1>2. ASSUME NEW p1, NEW p2, shape(p1) = shape(p2)
      PROVE  /\ DOMAIN p1 = DOMAIN p2
             /\ \A x \in DOMAIN p1 : \A val : Fits(p1[x], val) <=> Fits(p2[x], val)
  <2>1. DOMAIN p1 = DOMAIN p2
    BY <1>2
  <2>2. ASSUME NEW x \in DOMAIN p1, NEW val PROVE Fits(p1[x], val) <=> Fits(p2[x], val)
    <3>1. shape(p1)[x] = shape(p2)[x]
      BY <1>2
    <3>2. p1[x].kind = p2[x].kind /\ p1[x].text = p2[x].text /\ p1[x].type = p2[x].type
      BY <2>1, <3>1
    <3>3. QED
      BY <3>2 DEF Fits
  <2>3. QED
    BY <2>1, <2>2
<1> HIDE DEF shape
<1>3. /\ DOMAIN t.query = DOMAIN s.query
      /\ \A x \in DOMAIN t.query : \A val : Fits(t.query[x], val) <=> Fits(s.query[x], val)
  BY <1>1, <1>2
<1>4. /\ DOMAIN t.body = DOMAIN s.body
      /\ \A x \in DOMAIN t.body : \A val : Fits(t.body[x], val) <=> Fits(s.body[x], val)
  BY <1>1, <1>2
<1>5. Match(s, q)
  BY <1>1, <1>3 DEF Match, QueryCovered
<1>6. ExtractBody(s, q.body)
  BY <1>4 DEF ExtractBody
<1>7. QED
  BY <1>5, <1>6

\* What of a request reaches the rules.
LEMMA InputIs ==
  ASSUME NEW q \in Requests
  PROVE  /\ InputOf[q].agent = q.agent /\ InputOf[q].upstream = q.upstream
         /\ InputOf[q].agent # Empty
         /\ \/ /\ InputOf[q].kind = "k8s" /\ ~ Claimed(InputOf[q])
               /\ InputOf[q].namespace = Parse(q.method, Unescaped(q.path), q.query).namespace
            \/ /\ InputOf[q].kind = "http" /\ InputOf[q].match = Matching(q)
               /\ InputOf[q].browser = q.browser
               /\ Claimed(InputOf[q]) => InputOf[q].profile # Empty
<1>1. InputOf[q] = Input(q)
  BY DEF InputOf
<1>2. q.agent # Empty /\ Empty = ""
  BY RequestAssumption
<1> DEFINE up == Upstreams[q.upstream]
           ri == Parse(q.method, Unescaped(q.path), q.query)
           text == PathText(q.path)
           fits == Matching(q)
           op == IF up.profile = "citeck" THEN classify(q.method, q.path, q.records) ELSE Unclaimed
           none == <<>>
           raw == Unclaimed
<1>3. CASE up.kind = "k8s"
  <2>1. InputOf[q] =
          [agent |-> q.agent, upstream |-> q.upstream, kind |-> "k8s", profile |-> Empty,
           method |-> Empty, path |-> Empty, match |-> none, op |-> raw, browser |-> FALSE,
           namespace |-> ri.namespace, resource |-> ri.resource,
           subresource |-> ri.subresource, verb |-> ri.verb]
    BY <1>1, <1>3 DEF Input
  <2> HIDE DEF up, ri, none, raw
  <2>2. /\ InputOf[q].agent = q.agent /\ InputOf[q].upstream = q.upstream
        /\ InputOf[q].kind = "k8s" /\ InputOf[q].op = raw /\ InputOf[q].namespace = ri.namespace
    BY <2>1
  <2>3. QED
    BY <1>2, <2>2 DEF Claimed, raw, ri
<1>4. CASE up.kind # "k8s"
  <2>1. InputOf[q] =
          [agent |-> q.agent, upstream |-> q.upstream, kind |-> "http", profile |-> up.profile,
           method |-> q.method, path |-> text, match |-> fits, op |-> op, browser |-> q.browser,
           namespace |-> Empty, resource |-> Empty, subresource |-> Empty, verb |-> Empty]
    BY <1>1, <1>4 DEF Input
  <2>2. op # Unclaimed => up.profile = "citeck"
    OBVIOUS
  <2> HIDE DEF up, text, fits, op
  <2>3. /\ InputOf[q].agent = q.agent /\ InputOf[q].upstream = q.upstream
        /\ InputOf[q].kind = "http" /\ InputOf[q].op = op /\ InputOf[q].match = fits
        /\ InputOf[q].browser = q.browser /\ InputOf[q].profile = up.profile
    BY <2>1
  <2>4. QED
    BY <1>2, <2>2, <2>3 DEF Claimed, fits
<1>5. QED
  BY <1>3, <1>4

\* KeyIdentifies: templates of one key admit the same requests.
LEMMA KeysIdentify == KeyIdentifies
<1> SUFFICES ASSUME NEW m \in DOMAIN Templates, NEW n \in DOMAIN Templates,
                    Parses(Templates[m]), Parses(Templates[n]), Key(Templates[m]) = Key(Templates[n]),
                    NEW q \in Requests
             PROVE  (m \in DOMAIN InputOf[q].match) = (n \in DOMAIN InputOf[q].match)
  BY DEF KeyIdentifies
<1>1. CASE InputOf[q].kind = "k8s"
  <2>1. Upstreams[q.upstream].kind = "k8s"
    BY <1>1 DEF InputOf, Input
  <2>2. InputOf[q].match = <<>>
    BY <2>1 DEF InputOf, Input
  <2>3. QED
    BY <2>2
<1>2. CASE InputOf[q].match = Matching(q)
  <2>1. \A l \in DOMAIN Templates : Parses(Templates[l]) =>
           (l \in DOMAIN Matching(q) <=> Match(Templates[l], q) /\ ExtractBody(Templates[l], q.body))
    BY DEF Matching
  <2>2. m \in DOMAIN Matching(q) <=> n \in DOMAIN Matching(q)
    BY <2>1, KeyFixesMatch
  <2>3. QED
    BY <1>2, <2>2
<1>3. QED
  BY <1>1, <1>2, InputIs

\* TableInv: rows stay well-formed and keep the expiry last asked for whatever
\* updates are in flight, the never-invalidated cache agrees with them, and
\* templates of one key are one operation.
THEOREM TableIntegrity == Spec => []TableInv
<1>1. RuleInv => TableInv
  BY KeysIdentify DEF RuleInv, TableInv
<1>2. QED
  BY <1>1, RuleInvariant, PTL

-----------------------------------------------------------------------------
(* Decisions.                                                               *)

\* What every rule of the table says is an outcome, and a rule is not NoRule.
LEMMA RulesAre ==
  ASSUME RuleInv, NEW r \in Rules
  PROVE  /\ r.outcome \in Outcomes /\ r.expires \in Times /\ IsPolicies(r.policies) /\ r # NoRule
<1>1. PICK i \in RuleIds : IsRow(r) /\ r.id = i
  BY DEF RuleInv, TypeOK, Rules, Present
<1>2. PICK b \in Catalog : ValidOutcome(b.outcome) /\ r = RowOf(b, r.id, r.expires, r.policies)
  BY <1>1 DEF IsRow
<1>3. r.outcome = b.outcome
  BY <1>2 DEF RowOf
<1>4. r # NoRule
  BY <1>1, RuleAssumption
<1>5. QED
  BY <1>1, <1>2, <1>3, <1>4 DEF IsRow, ValidOutcome

\* A decided outcome is one, whatever the values in the request.
LEMMA EffectiveIsOutcome ==
  ASSUME NEW r, r.outcome \in Outcomes, NEW in
  PROVE  EffectiveOutcome(r, in) \in Outcomes
BY DEF EffectiveOutcome, templateOutcome, Outcomes

\* The parts of a decision.
LEMMA DecidedIs ==
  ASSUME NEW o, NEW r
  PROVE  /\ Decided(o, r).outcome = o /\ Decided(o, r).rule = r
         /\ Decided(o, r).rewrite = Unchanged /\ Decided(o, r).response = FALSE
BY DEF Decided

\* resolveTier answers for one of the tier's rules, and none of them is stricter.
LEMMA TierIsResolved ==
  ASSUME NEW tier, NEW in, \A r \in tier : r.outcome \in Outcomes, NEW d \in resolveTier(tier, in)
  PROVE  /\ d.rule \in tier /\ d.outcome = EffectiveOutcome(d.rule, in) /\ d.outcome \in Outcomes
         /\ \A r \in tier : EffectiveOutcome(r, in) = "deny" => d.outcome = "deny"
         /\ \A r \in tier : EffectiveOutcome(r, in) = "require-approval" => d.outcome # "allow"
<1> DEFINE said  == {EffectiveOutcome(r, in) : r \in tier}
           worst == Strictest(said)
<1>1. PICK r \in tier : EffectiveOutcome(r, in) = worst /\ d = Decided(worst, r)
  BY DEF resolveTier
<1>2. d.rule = r /\ d.outcome = worst
  BY <1>1, DecidedIs
<1>3. /\ worst \in Outcomes /\ ("deny" \in said => worst = "deny")
      /\ ("require-approval" \in said => worst # "allow")
  BY DEF Strictest, Outcomes
<1>4. QED
  BY <1>1, <1>2, <1>3

\* Where an unclaimed request's decision comes from.
LEMMA DecidedByTier ==
  ASSUME NEW rules, \A r \in rules : r.outcome \in Outcomes, NEW in, ~ Claimed(in), NEW time,
         NEW d \in Decide(rules, in, time)
  PROVE  \/ d = Decided("deny", NoRule)
         \/ \E subject \in {in.agent, Empty} :
              /\ d \in resolveTier(Tier(LiveRules(rules, time), in, subject), in)
              /\ subject # in.agent => Tier(LiveRules(rules, time), in, in.agent) = {}
BY DEF Decide

\* MostRestrictiveWins: a decision is the strictest of its tier, the agent's own
\* tier decides when it matches, and rules for other agents change nothing.
THEOREM StrictestRuleDecides == Spec => []MostRestrictiveWins
<1>1. ASSUME RuleInv PROVE MostRestrictiveWins
  <2> DEFINE rank(o) == CASE o = "allow" -> 0 [] o = "require-approval" -> 1 [] o = "deny" -> 2
             live == LiveRules(Rules, now)
  <2>1. ASSUME NEW q \in Requests, NEW d \in Decide(Rules, InputOf[q], now),
               ~ Claimed(InputOf[q]), d.rule # NoRule
        PROVE  /\ \A r \in live : (Matches(r, InputOf[q]) /\ r.subject = d.rule.subject)
                                    => rank(EffectiveOutcome(r, InputOf[q])) <= rank(d.outcome)
               /\ d.rule.subject = Empty => \A r \in live : r.subject = InputOf[q].agent => ~ Matches(r, InputOf[q])
    <3> DEFINE in == InputOf[q]
    <3>1. in.agent # Empty
      BY InputIs
    <3> HIDE DEF in
    <3>2. \A r \in Rules : r.outcome \in Outcomes
      BY <1>1, RulesAre
    <3>3. PICK subject \in {in.agent, Empty} :
              /\ d \in resolveTier(Tier(live, in, subject), in)
              /\ subject # in.agent => Tier(live, in, in.agent) = {}
      <4>1. d # Decided("deny", NoRule)
        <5>1. Decided("deny", NoRule).rule = NoRule
          BY DecidedIs
        <5>2. QED
          BY <2>1, <5>1
      <4>2. d \in Decide(Rules, in, now) /\ ~ Claimed(in)
        BY <2>1 DEF in
      <4>3. QED
        BY <3>2, <4>1, <4>2, DecidedByTier
    <3> DEFINE tier == Tier(live, in, subject)
    <3>4. \A r \in tier : r.outcome \in Outcomes /\ r.subject = subject
      BY <3>2 DEF Tier, LiveRules
    <3> HIDE DEF tier
    <3>5. /\ d.rule \in tier /\ d.outcome \in Outcomes
          /\ \A r \in tier : EffectiveOutcome(r, in) = "deny" => d.outcome = "deny"
          /\ \A r \in tier : EffectiveOutcome(r, in) = "require-approval" => d.outcome # "allow"
      BY <3>3, <3>4, TierIsResolved DEF tier
    <3>6. d.rule.subject = subject
      BY <3>4, <3>5
    <3>7. ASSUME NEW r \in live, Matches(r, in), r.subject = d.rule.subject
          PROVE  rank(EffectiveOutcome(r, in)) <= rank(d.outcome)
      <4>1. r \in tier
        BY <3>6, <3>7 DEF tier, Tier
      <4>2. EffectiveOutcome(r, in) \in Outcomes
        BY <3>4, <4>1, EffectiveIsOutcome
      <4>3. rank("allow") = 0 /\ rank("require-approval") = 1 /\ rank("deny") = 2
        OBVIOUS
      <4> HIDE DEF rank
      <4>4. QED
        BY <3>5, <4>1, <4>2, <4>3 DEF Outcomes
    <3>8. ASSUME d.rule.subject = Empty, NEW r \in live, r.subject = in.agent PROVE ~ Matches(r, in)
      BY <3>1, <3>3, <3>6, <3>8 DEF Tier
    <3>9. QED
      BY <3>7, <3>8 DEF in
  <2>2. ASSUME NEW q \in Requests
        PROVE  Decide(Rules, InputOf[q], now)
                 = Decide({r \in Rules : r.subject \in {InputOf[q].agent, Empty}}, InputOf[q], now)
    <3> DEFINE in == InputOf[q]
               some == {r \in Rules : r.subject \in {in.agent, Empty}}
               few == LiveRules(some, now)
    <3> HIDE DEF in
    <3>1. \A s \in {in.agent, Empty} : Tier(live, in, s) = Tier(few, in, s)
      BY DEF Tier, LiveRules
    <3>2. \A s \in {in.agent, Empty} :
            {r \in live : r.upstream = in.upstream /\ r.profile = in.profile /\ r.subject = s}
              = {r \in few : r.upstream = in.upstream /\ r.profile = in.profile /\ r.subject = s}
      BY DEF LiveRules
    <3> HIDE DEF live, few
    <3>3. decideProfile(live, in) = decideProfile(few, in)
      BY <3>2 DEF decideProfile
    <3>4. QED
      BY <3>1, <3>3 DEF Decide, in, live, few
  <2>3. QED
    BY <2>1, <2>2 DEF MostRestrictiveWins
<1>2. QED
  BY <1>1, RuleInvariant, PTL

-----------------------------------------------------------------------------
(* The profile's decisions.                                                 *)

\* resolveLegacy answers for one rule that covers the whole operation, or denies.
LEMMA LegacyIs ==
  ASSUME NEW op, NEW agent, NEW any, NEW d \in resolveLegacy(op, agent, any)
  PROVE  \/ d = Decided("deny", NoRule)
         \/ /\ d.rule \in agent \cup any /\ ruleMatches(d.rule.params, op)
            /\ d.outcome = d.rule.outcome /\ d = Decided(d.outcome, d.rule)
<1> DEFINE hits(t) == {r \in t : ruleMatches(r.params, op)}
           tier == IF hits(agent) # {} THEN hits(agent) ELSE hits(any)
           worst == Strictest({r.outcome : r \in tier})
<1>1. CASE tier = {}
  BY <1>1 DEF resolveLegacy
<1>2. CASE tier # {}
  <2>1. PICK r \in tier : r.outcome = worst /\ d = Decided(worst, r)
    BY <1>2 DEF resolveLegacy
  <2>2. r \in agent \cup any /\ ruleMatches(r.params, op)
    BY <2>1
  <2> HIDE DEF tier, worst
  <2>3. d.rule = r /\ d.outcome = worst
    BY <2>1, DecidedIs
  <2>4. QED
    BY <2>1, <2>2, <2>3
<1>3. QED
  BY <1>1, <1>2

\* A query no rule covers as a whole: what filterReadQuery may answer.
LEMMA FilterIs ==
  ASSUME NEW op, NEW agent, NEW any, NEW browser, NEW d,
         d = filterReadQuery(op, agent, any, browser), d.outcome = "allow"
  PROVE  LET asked == IF requestedScopes(op) = {ScopeAll} THEN concreteWorkspaces(agent, any)
                      ELSE requestedScopes(op)
             ok(w) == \A s \in uniqueSources(op) : wsAllowedForRead(s, w, agent, any)
         IN /\ d.rule = NoRule
            /\ \/ /\ requestedScopes(op) # {ScopeAll} /\ d.rewrite = Unchanged /\ ~ d.response
                  /\ \A w \in requestedScopes(op) : ok(w)
               \/ /\ browser /\ d.rewrite = Unchanged /\ d.response
                  /\ \A w \in asked : ~ ok(w)
               \/ /\ requestedScopes(op) = {ScopeAll} \/ browser
                  /\ ~ d.response /\ d.rewrite # Unchanged
                  /\ d.rewrite \subseteq asked /\ \A w \in d.rewrite : ok(w)
<1> DEFINE absent == requestedScopes(op) = {ScopeAll}
           asked  == IF absent THEN concreteWorkspaces(agent, any) ELSE requestedScopes(op)
           ok(w)  == \A s \in uniqueSources(op) : wsAllowedForRead(s, w, agent, any)
           keep   == {w \in asked : ok(w)}
           whole  == ~ absent /\ keep = asked
<1>1. d = CASE whole                          -> Decided("allow", NoRule)
            [] ~ whole /\ keep = {} /\ browser -> [Decided("allow", NoRule) EXCEPT !.response = TRUE]
            [] ~ whole /\ keep # {} /\ (absent \/ browser) -> [Decided("allow", NoRule) EXCEPT !.rewrite = keep]
            [] OTHER                          -> Decided("deny", NoRule)
  BY DEF filterReadQuery
<1>2. d # Decided("deny", NoRule)
  <2>1. Decided("deny", NoRule).outcome = "deny"
    BY DecidedIs
  <2>2. QED
    BY <2>1
<1>3. CASE whole
  <2>1. d = Decided("allow", NoRule)
    <3> HIDE DEF keep, whole, absent
    <3> QED BY <1>1, <1>3
  <2>2. d.rule = NoRule /\ d.rewrite = Unchanged /\ d.response = FALSE
    <3> DEFINE a == Decided("allow", NoRule)
    <3>1. a.rule = NoRule /\ a.rewrite = Unchanged /\ a.response = FALSE
      BY DEF Decided
    <3>2. d = a
      BY <2>1
    <3> HIDE DEF a
    <3>3. QED
      BY <3>1, <3>2
  <2>3. requestedScopes(op) # {ScopeAll} /\ \A w \in requestedScopes(op) : ok(w)
    BY <1>3
  <2>4. QED
    BY <2>2, <2>3
<1>4. CASE ~ whole /\ keep = {} /\ browser
  <2>1. d = [Decided("allow", NoRule) EXCEPT !.response = TRUE]
    <3> HIDE DEF keep, whole, absent
    <3> QED BY <1>1, <1>4
  <2>2. d.rule = NoRule /\ d.rewrite = Unchanged /\ d.response = TRUE
    <3> DEFINE a == [Decided("allow", NoRule) EXCEPT !.response = TRUE]
    <3>1. a.rule = NoRule /\ a.rewrite = Unchanged /\ a.response = TRUE
      BY DEF Decided
    <3>2. d = a
      BY <2>1
    <3> HIDE DEF a
    <3>3. QED
      BY <3>1, <3>2
  <2>3. \A w \in asked : ~ ok(w)
    BY <1>4
  <2>4. QED
    BY <1>4, <2>2, <2>3
<1>5. CASE ~ whole /\ keep # {} /\ (absent \/ browser)
  <2>1. d = [Decided("allow", NoRule) EXCEPT !.rewrite = keep]
    <3> HIDE DEF keep, whole, absent
    <3> QED BY <1>1, <1>5
  <2>2. d.rule = NoRule /\ d.rewrite = keep /\ d.response = FALSE
    <3> HIDE DEF keep, whole, absent
    <3> DEFINE a == [Decided("allow", NoRule) EXCEPT !.rewrite = keep]
    <3>1. a.rule = NoRule /\ a.rewrite = keep /\ a.response = FALSE
      BY DEF Decided
    <3>2. d = a
      BY <2>1
    <3> HIDE DEF a
    <3>3. QED
      BY <3>1, <3>2
  <2>3. keep \subseteq asked /\ (\A w \in keep : ok(w)) /\ keep # Unchanged
    BY <1>5 DEF Unchanged
  <2>4. QED
    BY <1>5, <2>2, <2>3
<1>6. CASE ~ whole /\ ~ (keep = {} /\ browser) /\ ~ (keep # {} /\ (absent \/ browser))
  <2> HIDE DEF keep, whole, absent
  <2> QED BY <1>1, <1>2, <1>6
<1>7. QED
  BY <1>3, <1>4, <1>5, <1>6

\* wsAllowedForRead says what the rules say of the pair, tier by tier.
LEMMA ReadableIs ==
  ASSUME NEW q \in Requests, NEW s, NEW w, NEW agent, NEW any,
         agent = {r \in LiveRules(Rules, now) : /\ r.upstream = InputOf[q].upstream
                                                /\ r.profile = InputOf[q].profile /\ r.subject = InputOf[q].agent},
         any = {r \in LiveRules(Rules, now) : /\ r.upstream = InputOf[q].upstream
                                              /\ r.profile = InputOf[q].profile /\ r.subject = Empty}
  PROVE  wsAllowedForRead(s, w, agent, any) <=> Readable(q, <<s, w>>)
<1> DEFINE says(tier, o) == \E r \in tier : r.outcome = o /\ Covers(r.params, "read", <<s, w>>)
           on(subject, o) == \E r \in LiveRules(Rules, now) :
              /\ r.upstream = q.upstream /\ r.profile = InputOf[q].profile
              /\ r.subject = subject /\ r.outcome = o /\ Covers(r.params, "read", <<s, w>>)
<1>1. InputOf[q].agent = q.agent /\ InputOf[q].upstream = q.upstream
  BY InputIs
<1>2. \A o : (says(agent, o) <=> on(q.agent, o)) /\ (says(any, o) <=> on(Empty, o))
  BY <1>1
<1>3. wsAllowedForRead(s, w, agent, any) <=>
         LET tier == IF says(agent, "deny") \/ says(agent, "allow") THEN agent ELSE any
         IN says(tier, "allow") /\ ~ says(tier, "deny")
  BY DEF wsAllowedForRead
<1>4. Readable(q, <<s, w>>) <=>
         /\ on(q.agent, "allow") \/ (on(Empty, "allow") /\ ~ on(Empty, "deny"))
         /\ ~ on(q.agent, "deny")
  BY DEF Readable
<1> HIDE DEF says, on
<1>5. QED
  BY <1>2, <1>3, <1>4

\* NarrowedToGrants: a Records operation is forwarded as it came only under one
\* rule that covers all of it; a narrowed query holds nothing unreadable.
THEOREM NarrowedIsReadable == Spec => []NarrowedToGrants
<1>1. ASSUME RuleInv PROVE NarrowedToGrants
  <2> SUFFICES ASSUME NEW q \in Requests, Claimed(InputOf[q]),
                      NEW d \in Decide(Rules, InputOf[q], now), d.outcome = "allow"
               PROVE  LET op == InputOf[q].op
                          listed == requestedScopes(op) # {ScopeAll}
                          sent == IF d.rewrite = Unchanged THEN requestedScopes(op) ELSE d.rewrite
                      IN IF d.rule # NoRule
                         THEN /\ d.rewrite = Unchanged /\ ~ d.response
                              /\ \A pair \in op.res : Covers(d.rule.params, op.kind, pair)
                         ELSE /\ op.kind = "read" /\ op.res # {}
                              /\ ~ d.response =>
                                   /\ \A s \in uniqueSources(op), w \in sent : Readable(q, <<s, w>>)
                                   /\ d.rewrite = Unchanged => listed
                                   /\ listed => sent \subseteq requestedScopes(op)
                              /\ (listed /\ ~ q.browser) => d.rewrite = Unchanged /\ ~ d.response
                              /\ (listed /\ d.response) =>
                                   \A w \in requestedScopes(op) : \E s \in uniqueSources(op) : ~ Readable(q, <<s, w>>)
    BY DEF NarrowedToGrants
  <2> DEFINE in == InputOf[q]
             op == in.op
             mine(subject) == {r \in LiveRules(Rules, now) :
                                 r.upstream = in.upstream /\ r.profile = in.profile /\ r.subject = subject}
             agent == mine(in.agent)
             any == mine(Empty)
  <2>1. in.browser = q.browser
    BY InputIs
  <2>2. PICK l \in resolveLegacy(op, agent, any) :
          d = IF l.outcome = "deny" /\ filterableRead(op) THEN filterReadQuery(op, agent, any, in.browser) ELSE l
    BY DEF Decide, decideProfile, Authorize
  <2>3. \A s, w : wsAllowedForRead(s, w, agent, any) <=> Readable(q, <<s, w>>)
    BY ReadableIs
  <2>4. \A r \in agent \cup any : r \in Rules
    BY DEF LiveRules
  <2> HIDE DEF agent, any, mine, op
  <2>5. CASE l.outcome = "deny" /\ filterableRead(op)
    <3>1. d = filterReadQuery(op, agent, any, in.browser)
      BY <2>2, <2>5
    <3> DEFINE asked == IF requestedScopes(op) = {ScopeAll} THEN concreteWorkspaces(agent, any)
                        ELSE requestedScopes(op)
               ok(w) == \A s \in uniqueSources(op) : wsAllowedForRead(s, w, agent, any)
    <3>2. /\ d.rule = NoRule
          /\ \/ /\ requestedScopes(op) # {ScopeAll} /\ d.rewrite = Unchanged /\ ~ d.response
                /\ \A w \in requestedScopes(op) : ok(w)
             \/ /\ in.browser /\ d.rewrite = Unchanged /\ d.response
                /\ \A w \in asked : ~ ok(w)
             \/ /\ requestedScopes(op) = {ScopeAll} \/ in.browser
                /\ ~ d.response /\ d.rewrite # Unchanged
                /\ d.rewrite \subseteq asked /\ \A w \in d.rewrite : ok(w)
      BY <3>1, FilterIs
    <3>3. op.kind = "read" /\ op.res # {}
      BY <2>5 DEF filterableRead
    <3>4. QED
      BY <2>1, <2>3, <3>2, <3>3 DEF op
  <2>6. CASE ~ (l.outcome = "deny" /\ filterableRead(op))
    <3>1. d = l
      BY <2>2, <2>6
    <3>2. /\ d.rule \in agent \cup any /\ ruleMatches(d.rule.params, op)
          /\ d = Decided(d.outcome, d.rule)
      <4>1. Decided("deny", NoRule).outcome = "deny"
        BY DecidedIs
      <4>2. d # Decided("deny", NoRule)
        BY <4>1
      <4>3. QED
        BY <2>2, <3>1, <4>2, LegacyIs
    <3>3. d.rule # NoRule
      BY <1>1, <2>4, <3>2, RulesAre
    <3>4. d.rewrite = Unchanged /\ ~ d.response
      BY <3>2 DEF Decided
    <3>5. QED
      BY <3>2, <3>3, <3>4 DEF ruleMatches, op
  <2>7. QED
    BY <2>5, <2>6
<1>2. QED
  BY <1>1, RuleInvariant, PTL

-----------------------------------------------------------------------------
(* What a request that matches a template says.                             *)

\* A variable named once has one slot.
LEMMA SlotIs ==
  ASSUME NEW part, NamedOnce(part), NEW x \in Slots(part)
  PROVE  /\ (CHOOSE y \in Slots(part) : part[y].name = part[x].name) = x
         /\ part[x].name \in VarsOf(part)
BY DEF NamedOnce, VarsOf

\* The value a matching request has in each slot.
LEMMA ExtractedIs ==
  ASSUME NEW t, Parses(t), NEW q
  PROVE  /\ DOMAIN Extracted(t, q) = TemplateVars(t)
         /\ \A x \in Slots(t.path)  : /\ t.path[x].name \in TemplateVars(t)
                                      /\ Extracted(t, q)[t.path[x].name] = Unescape(SplitPath(q.path)[x])
         /\ \A x \in Slots(t.query) : /\ t.query[x].name \in TemplateVars(t)
                                      /\ Extracted(t, q)[t.query[x].name] = q.query[x][1]
         /\ \A x \in Slots(t.body)  : /\ t.body[x].name \in TemplateVars(t)
                                      /\ Extracted(t, q)[t.body[x].name] = q.body[x].text
<1> DEFINE slot(part, v) == CHOOSE x \in Slots(part) : part[x].name = v
           segs == SplitPath(q.path)
           value(v) == IF v \in VarsOf(t.path) THEN Unescape(segs[slot(t.path, v)])
                       ELSE IF v \in VarsOf(t.query) THEN q.query[slot(t.query, v)][1]
                       ELSE q.body[slot(t.body, v)].text
<1>1. Extracted(t, q) = [v \in TemplateVars(t) |-> value(v)]
  BY DEF Extracted
<1>2. /\ \A x \in Slots(t.path)  : slot(t.path, t.path[x].name) = x /\ t.path[x].name \in VarsOf(t.path)
      /\ \A x \in Slots(t.query) : slot(t.query, t.query[x].name) = x /\ t.query[x].name \in VarsOf(t.query)
      /\ \A x \in Slots(t.body)  : slot(t.body, t.body[x].name) = x /\ t.body[x].name \in VarsOf(t.body)
  BY SlotIs DEF Parses
<1>3. /\ VarsOf(t.path) \cap VarsOf(t.query) = {}
      /\ (VarsOf(t.path) \cup VarsOf(t.query)) \cap VarsOf(t.body) = {}
  BY DEF Parses
<1>4. TemplateVars(t) = VarsOf(t.path) \cup VarsOf(t.query) \cup VarsOf(t.body)
  BY DEF TemplateVars
<1> HIDE DEF slot, segs
<1>5. ASSUME NEW x \in Slots(t.path) PROVE value(t.path[x].name) = Unescape(segs[x])
  BY <1>2
<1>6. ASSUME NEW x \in Slots(t.query) PROVE value(t.query[x].name) = q.query[x][1]
  BY <1>2, <1>3
<1>7. ASSUME NEW x \in Slots(t.body) PROVE value(t.body[x].name) = q.body[x].text
  BY <1>2, <1>3
<1> HIDE DEF value
<1>8. QED
  BY <1>1, <1>2, <1>4, <1>5, <1>6, <1>7 DEF segs

\* What stands in the body is a text of the request.
LEMMA BodyIsText ==
  ASSUME NEW q, q.body # NoJSON, NEW x \in DOMAIN q.body
  PROVE  q.body[x].text \in TextsOf(q)
BY DEF TextsOf

\* A request that matches is what its values, written into the template, say.
LEMMA MatchRenders ==
  ASSUME NEW n \in DOMAIN Templates, NEW q \in Requests, Parses(Templates[n]), Match(Templates[n], q),
         ExtractBody(Templates[n], q.body)
  PROVE  Extracted(Templates[n], q) \in Renderings(Templates[n], q, TextsOf(q))
<1> DEFINE t == Templates[n]
           sigma == Extracted(t, q)
           segs == SplitPath(q.path)
<1>1. /\ DOMAIN sigma = TemplateVars(t)
      /\ \A x \in Slots(t.path)  : t.path[x].name \in TemplateVars(t) /\ sigma[t.path[x].name] = Unescape(segs[x])
      /\ \A x \in Slots(t.query) : t.query[x].name \in TemplateVars(t) /\ sigma[t.query[x].name] = q.query[x][1]
      /\ \A x \in Slots(t.body)  : t.body[x].name \in TemplateVars(t) /\ sigma[t.body[x].name] = q.body[x].text
  BY ExtractedIs
<1>2. sigma = [v \in TemplateVars(t) |-> sigma[v]]
  BY DEF Extracted
<1>3. /\ q.path \in Seq(STRING) /\ t.path \in Seq(Range(t.path))
      /\ \A x \in DOMAIN q.query : q.query[x] \in Seq(STRING)
      /\ q.body # NoJSON => \A p \in DOMAIN q.body : q.body[p] \in [scalar : BOOLEAN, text : STRING]
  BY RequestAssumption
<1>4. segs \in Seq(STRING) /\ \A i \in DOMAIN segs : \E j \in DOMAIN q.path : segs[i] = q.path[j]
  <2>1. PICK k \in Nat : /\ segs \in Seq(STRING) /\ k + Len(segs) <= Len(q.path)
                         /\ \A i \in 1 .. Len(segs) : segs[i] = q.path[k + i]
    BY <1>3, SplitPathIs
  <2> HIDE DEF segs
  <2>2. ASSUME NEW i \in DOMAIN segs PROVE k + i \in DOMAIN q.path /\ segs[i] = q.path[k + i]
    <3>1. i \in 1 .. Len(segs) /\ Len(segs) \in Nat /\ DOMAIN q.path = 1 .. Len(q.path) /\ Len(q.path) \in Nat
      BY <1>3, <2>1
    <3>2. QED
      BY <2>1, <3>1
  <2>3. QED
    BY <2>1, <2>2
<1>5. /\ Upper(q.method) = Upper(t.method) /\ Len(segs) = Len(t.path)
      /\ \A i \in DOMAIN segs : SegmentFits(t.path[i], segs[i])
      /\ QueryCovered(t, q.query)
      /\ \A x \in DOMAIN t.query : Len(q.query[x]) > 0 /\ Fits(t.query[x], q.query[x][1])
  BY DEF Match
<1>6. \A p \in DOMAIN t.body : q.body # NoJSON /\ p \in DOMAIN q.body /\ q.body[p].scalar /\ Fits(t.body[p], q.body[p].text)
  BY DEF ExtractBody
<1>7. /\ \A tok \in Tokens(t) : tok.kind = "lit" \/ tok.kind = "var"
      /\ \A x \in DOMAIN t.path : t.path[x] \in Tokens(t)
      /\ \A x \in DOMAIN t.query : t.query[x] \in Tokens(t)
      /\ \A x \in DOMAIN t.body : t.body[x] \in Tokens(t)
  BY DEF Parses, parsePlaceholder, Tokens, Range
<1> HIDE DEF segs, sigma, t
<1>8. DOMAIN segs = DOMAIN t.path
  <2>1. DOMAIN segs = 1 .. Len(segs) /\ DOMAIN t.path = 1 .. Len(t.path)
    BY <1>3, <1>4
  <2>2. QED
    BY <1>5, <2>1
<1>9. /\ \A x \in DOMAIN t.path  : (x \in Slots(t.path))  <=> t.path[x].kind = "var"
      /\ \A x \in DOMAIN t.query : (x \in Slots(t.query)) <=> t.query[x].kind = "var"
      /\ \A x \in DOMAIN t.body  : (x \in Slots(t.body))  <=> t.body[x].kind = "var"
  BY DEF Slots
<1>10. \A x \in DOMAIN t.query : /\ x \in DOMAIN q.query /\ q.query[x] # <<>>
                                 /\ Head(q.query[x]) = q.query[x][1] /\ 1 \in DOMAIN q.query[x]
  <2> TAKE x \in DOMAIN t.query
  <2>1. x \in DOMAIN q.query /\ q.query[x] \in Seq(STRING) /\ Len(q.query[x]) > 0
    BY <1>3, <1>5 DEF QueryCovered
  <2>2. QED
    BY <2>1
<1>11. /\ \A i \in DOMAIN segs :
            IF t.path[i].kind = "lit" THEN segs[i] = t.path[i].text
            ELSE segs[i] \notin Malformed /\ Unescape(segs[i]) = sigma[t.path[i].name]
       /\ \A i \in Slots(t.path) : typeValid(t.path[i].type, sigma[t.path[i].name])
  BY <1>1, <1>5, <1>7, <1>8, <1>9 DEF SegmentFits, Fits, Slots
<1>12. /\ \A x \in DOMAIN t.query : Head(q.query[x]) = Written(t.query[x], sigma)
       /\ \A x \in Slots(t.query) : typeValid(t.query[x].type, sigma[t.query[x].name])
  BY <1>1, <1>5, <1>7, <1>9, <1>10 DEF Fits, Written, Slots
<1>13. /\ \A p \in DOMAIN t.body : /\ q.body[p].text = Written(t.body[p], sigma)
                                   /\ q.body[p] = [scalar |-> TRUE, text |-> Written(t.body[p], sigma)]
       /\ \A p \in Slots(t.body) : typeValid(t.body[p].type, sigma[t.body[p].name])
  <2>1. ASSUME NEW p \in DOMAIN t.body
        PROVE  /\ q.body[p].text = Written(t.body[p], sigma)
               /\ p \in Slots(t.body) => typeValid(t.body[p].type, sigma[t.body[p].name])
    BY <1>1, <1>6, <1>7, <1>9 DEF Fits, Written
  <2>2. ASSUME NEW p \in DOMAIN t.body
        PROVE  q.body[p] = [scalar |-> TRUE, text |-> q.body[p].text]
    <3>1. q.body[p] \in [scalar : BOOLEAN, text : STRING] /\ q.body[p].scalar
      BY <1>3, <1>6
    <3>2. q.body[p].scalar = TRUE
      BY <3>1
    <3>3. QED
      BY <3>1, <3>2
  <2>3. QED
    BY <2>1, <2>2 DEF Slots
<1>14. Renders(t, sigma, q)
  BY <1>5, <1>6, <1>8, <1>10, <1>11, <1>12, <1>13 DEF Renders, QueryCovered, segs
<1>15. \A tok \in Tokens(t) : tok.kind = "var" => typeValid(tok.type, sigma[tok.name])
  BY <1>9, <1>11, <1>12, <1>13 DEF Tokens, Range
<1>16. sigma \in [TemplateVars(t) -> TextsOf(q)]
  <2>1. ASSUME NEW v \in TemplateVars(t) PROVE sigma[v] \in TextsOf(q)
    <3>1. \/ \E x \in Slots(t.path)  : v = t.path[x].name
          \/ \E x \in Slots(t.query) : v = t.query[x].name
          \/ \E x \in Slots(t.body)  : v = t.body[x].name
      BY <2>1 DEF TemplateVars, VarsOf
    <3>2. ASSUME NEW x \in Slots(t.path), v = t.path[x].name PROVE sigma[v] \in TextsOf(q)
      <4>1. x \in DOMAIN segs
        BY <1>8, <3>2 DEF Slots
      <4>2. PICK j \in DOMAIN q.path : segs[x] = q.path[j]
        BY <1>4, <4>1
      <4>3. sigma[v] = Unescape(q.path[j])
        BY <1>1, <3>2, <4>2
      <4>4. QED
        BY <4>3 DEF TextsOf
    <3>3. ASSUME NEW x \in Slots(t.query), v = t.query[x].name PROVE sigma[v] \in TextsOf(q)
      <4>1. x \in DOMAIN q.query /\ 1 \in DOMAIN q.query[x]
        BY <1>10, <3>3 DEF Slots
      <4>2. q.query[x][1] \in Range(q.query[x])
        BY <4>1 DEF Range
      <4>3. QED
        BY <1>1, <3>3, <4>1, <4>2 DEF TextsOf
    <3>4. ASSUME NEW x \in Slots(t.body), v = t.body[x].name PROVE sigma[v] \in TextsOf(q)
      <4>1. q.body # NoJSON /\ x \in DOMAIN q.body
        BY <1>6, <3>4 DEF Slots
      <4>2. q.body[x].text \in TextsOf(q)
        BY <4>1, BodyIsText
      <4>3. QED
        BY <1>1, <3>4, <4>2
    <3>5. QED
      BY <3>1, <3>2, <3>3, <3>4
  <2>2. QED
    BY <1>2, <2>1
<1>17. QED
  BY <1>14, <1>15, <1>16 DEF Renderings, t, sigma

\* segs stands in path after its first k segments, and does not end with an
\* empty one.
StandsIn(segs, path, k) ==
  /\ k + Len(segs) <= Len(path)
  /\ \A i \in 1 .. Len(segs) : segs[i] = path[k + i]
  /\ Len(segs) > 0 => path[k + Len(segs)] # Empty

\* The path names ns, and something that is in it.
NamesInside(path, ns) ==
  \E i \in DOMAIN path :
     /\ path[i] = "namespaces" /\ path[i + 1] = ns
     /\ \E j \in i + 2 .. Len(path) : path[j] # Empty

\* What stands in the rest of a split path stands in the path.
LEMMA RestIsInPath ==
  ASSUME NEW path \in Seq(STRING), NEW segs \in Seq(STRING), NEW k \in Nat, StandsIn(segs, path, k),
         NEW f \in Nat \ {0}, NEW rest, rest = SubSeq(segs, f, Len(segs)), AfterNamespace(rest)
  PROVE  NamesInside(path, rest[2])
<1> DEFINE name == "namespaces"
           ns == rest[2]
<1>0. Len(rest) >= 3 /\ rest[1] = name
  BY DEF AfterNamespace
<1> HIDE DEF name, ns
<1>1. Len(segs) \in Nat /\ Len(path) \in Nat /\ DOMAIN path = 1 .. Len(path)
  OBVIOUS
<1>2. /\ Len(rest) = IF f <= Len(segs) THEN Len(segs) - f + 1 ELSE 0
      /\ \A i \in 1 .. Len(segs) - f + 1 : rest[i] = segs[f + i - 1]
  <2>1. \A i \in f .. Len(segs) : segs[i] \in STRING
    BY <1>1
  <2>2. f \in Int /\ Len(segs) \in Int
    BY <1>1
  <2>3. QED
    BY <2>1, <2>2, SubSeqProperties
<1>3. f + 2 <= Len(segs)
  BY <1>0, <1>1, <1>2
<1>4. segs[f] = name /\ segs[f + 1] = ns
  <2>1. /\ 1 \in 1 .. Len(segs) - f + 1 /\ 2 \in 1 .. Len(segs) - f + 1
        /\ f + 1 - 1 = f /\ f + 2 - 1 = f + 1
    BY <1>1, <1>3
  <2>2. rest[1] = segs[f + 1 - 1] /\ rest[2] = segs[f + 2 - 1]
    BY <1>2, <2>1
  <2>3. QED
    BY <1>0, <2>1, <2>2 DEF ns
<1>5. path[k + f] = name /\ path[k + f + 1] = ns
  <2>1. f \in 1 .. Len(segs) /\ f + 1 \in 1 .. Len(segs)
    BY <1>1, <1>3
  <2>2. k + (f + 1) = k + f + 1
    OBVIOUS
  <2>3. QED
    BY <1>4, <2>1, <2>2 DEF StandsIn
<1>6. /\ k + f \in DOMAIN path /\ Len(segs) > 0
      /\ k + Len(segs) \in k + f + 2 .. Len(path)
  BY <1>1, <1>3 DEF StandsIn
<1>7. path[k + Len(segs)] # Empty
  BY <1>6 DEF StandsIn
<1>8. QED
  BY <1>5, <1>6, <1>7 DEF NamesInside, name, ns

\* Where Parse finds a namespace.
LEMMA NamespaceIsParsed ==
  ASSUME NEW path, NEW method, NEW query, Parse(method, path, query).namespace # ""
  PROVE  \E f \in {3, 4} : LET rest == SubSeq(SplitPath(path), f, Len(SplitPath(path))) IN
            AfterNamespace(rest) /\ Parse(method, path, query).namespace = rest[2]
<1> DEFINE segs == SplitPath(path)
           from == IF At(segs, 1) = "api" THEN 3 ELSE 4
           rest == SubSeq(segs, from, Len(segs))
<1>1. AfterNamespace(rest) /\ Parse(method, path, query).namespace = rest[2]
  BY DEF Parse, NoResource
<1>2. from = 3 \/ from = 4
  BY Zenon
<1> HIDE DEF from, segs
<1>3. QED
  BY <1>1, <1>2, Zenon DEF segs

\* The namespace Parse finds stands in the path, with something named after it.
LEMMA NamespaceIsInPath ==
  ASSUME NEW path \in Seq(STRING), NEW method, NEW query, NEW ns,
         ns = Parse(method, path, query).namespace, ns # Empty
  PROVE  NamesInside(path, ns)
<1> DEFINE segs == SplitPath(path)
<1>1. ns # ""
  BY RequestAssumption
<1>2. PICK f \in {3, 4} : AfterNamespace(SubSeq(segs, f, Len(segs))) /\ ns = SubSeq(segs, f, Len(segs))[2]
  BY <1>1, NamespaceIsParsed, Zenon
<1>3. f \in Nat \ {0}
  OBVIOUS
<1>4. PICK k \in Nat : segs \in Seq(STRING) /\ StandsIn(segs, path, k)
  BY SplitPathIs DEF StandsIn
<1> HIDE DEF segs
<1>5. QED
  BY <1>2, <1>3, <1>4, RestIsInPath

\* A request allowed by a template rule has every value inside its domain.
LEMMA AllowedInDomain ==
  ASSUME NEW r, IsPolicies(r.policies), NEW in, templateOutcome(r, in) = "allow"
  PROVE  /\ r.outcome = "allow"
         /\ \A v \in DOMAIN in.match[r.template] \cap DOMAIN r.policies :
               InDomain(r.policies[v], in.match[r.template][v])
<1>1. Gated(r, in, "deny") = {} /\ Gated(r, in, "new") = {} /\ r.outcome = "allow"
  BY DEF templateOutcome
<1>2. ASSUME NEW v \in DOMAIN in.match[r.template] \cap DOMAIN r.policies
      PROVE  InDomain(r.policies[v], in.match[r.template][v])
  <2> DEFINE vp == r.policies[v]
             val == in.match[r.template][v]
  <2>1. ValueGate(vp, val) # "deny" /\ ValueGate(vp, val) # "new"
    BY <1>1, <1>2 DEF Gated
  <2>2. vp.type \in VarTypes
    BY <1>2 DEF IsPolicies, VarPolicies
  <2> HIDE DEF vp, val
  <2>3. QED
    BY <2>1, <2>2 DEF ValueGate, InDomain, VarTypes, vp, val
<1>3. QED
  BY <1>1, <1>2

\* Only a text outside its set is ever put to the operator.
LEMMA NewIsText ==
  ASSUME NEW r, IsPolicies(r.policies), NEW in, NEW v \in Gated(r, in, "new")
  PROVE  r.policies[v].type = "text"
<1>1. r.policies[v].type \in VarTypes /\ ValueGate(r.policies[v], in.match[r.template][v]) = "new"
  BY DEF Gated, IsPolicies, VarPolicies
<1>2. QED
  BY <1>1 DEF ValueGate, VarTypes

\* The rules not yet expired, by the clock of the table.
LEMMA LiveIs ==
  ASSUME RuleInv, NEW r \in LiveRules(Rules, now)
  PROVE  r \in Rules /\ (r.expires = Never \/ now <= r.expires)
<1>1. r \in Rules /\ (r.expires = Never \/ ~ (r.expires < now))
  BY DEF LiveRules
<1>2. r.expires \in Nat \cup {Never} /\ now \in Nat
  <2>1. r.expires \in Times
    BY <1>1, RulesAre
  <2>2. now \in 0 .. MaxTime
    BY DEF RuleInv, TypeOK
  <2>3. QED
    BY <2>1, <2>2, RuleAssumption DEF Times
<1>3. QED
  BY <1>1, <1>2

\* A decision by the raw rules is the default deny or that of a live rule that
\* matches.
LEMMA RawDecision ==
  ASSUME RuleInv, NEW q \in Requests, ~ Claimed(InputOf[q]), NEW d \in Decide(Rules, InputOf[q], now)
  PROVE  \/ d.rule = NoRule /\ d.outcome = "deny"
         \/ /\ d.rule \in LiveRules(Rules, now) /\ d.rule.subject \in {q.agent, Empty}
            /\ Matches(d.rule, InputOf[q]) /\ d.outcome = EffectiveOutcome(d.rule, InputOf[q])
<1> DEFINE in == InputOf[q]
           live == LiveRules(Rules, now)
<1>1. in.agent = q.agent
  BY InputIs
<1>2. \A r \in Rules : r.outcome \in Outcomes
  BY RulesAre
<1>3. \A r \in live : r \in Rules
  BY DEF LiveRules
<1> HIDE DEF live, in
<1>4. CASE d = Decided("deny", NoRule)
  BY <1>4, DecidedIs
<1>5. CASE d # Decided("deny", NoRule)
  <2>1. d \in Decide(Rules, in, now) /\ ~ Claimed(in)
    BY DEF in
  <2>2. PICK subject \in {in.agent, Empty} : d \in resolveTier(Tier(live, in, subject), in)
    BY <1>2, <1>5, <2>1, DecidedByTier DEF live
  <2> DEFINE tier == Tier(live, in, subject)
  <2>3. \A r \in tier : r \in live /\ r.subject = subject /\ Matches(r, in) /\ r.outcome \in Outcomes
    BY <1>2, <1>3 DEF Tier
  <2> HIDE DEF tier
  <2>4. d.rule \in tier /\ d.outcome = EffectiveOutcome(d.rule, in)
    BY <2>2, <2>3, TierIsResolved DEF tier
  <2>5. QED
    BY <1>1, <2>3, <2>4 DEF in, live
<1>6. QED
  BY <1>4, <1>5

\* A narrowed query is allowed or denied, in the name of no rule.
LEMMA FilterNeverAsks ==
  ASSUME NEW op, NEW agent, NEW any, NEW browser, NEW d, d = filterReadQuery(op, agent, any, browser)
  PROVE  d.rule = NoRule /\ d.outcome # "require-approval"
<1> DEFINE a == Decided("allow", NoRule)
           b == [Decided("allow", NoRule) EXCEPT !.response = TRUE]
           c(keep) == [Decided("allow", NoRule) EXCEPT !.rewrite = keep]
           n == Decided("deny", NoRule)
<1>1. d = a \/ d = b \/ (\E keep : d = c(keep)) \/ d = n
  BY Zenon DEF filterReadQuery
<1>2. /\ a.rule = NoRule /\ a.outcome = "allow"
      /\ b.rule = NoRule /\ b.outcome = "allow"
      /\ n.rule = NoRule /\ n.outcome = "deny"
  BY DEF Decided
<1>3. \A keep : c(keep).rule = NoRule /\ c(keep).outcome = "allow"
  BY DEF Decided
<1> HIDE DEF a, b, c, n
<1>4. QED
  BY <1>1, <1>2, <1>3

\* A decision by the profile names no rule or is that of a live rule of the
\* profile.
LEMMA ProfileDecision ==
  ASSUME RuleInv, NEW q \in Requests, Claimed(InputOf[q]), NEW d \in Decide(Rules, InputOf[q], now)
  PROVE  \/ d.rule = NoRule /\ d.outcome # "require-approval"
         \/ /\ d.rule \in LiveRules(Rules, now) /\ d.rule.subject \in {q.agent, Empty}
            /\ d.rule.upstream = q.upstream /\ d.rule.profile # Empty
            /\ d.outcome = d.rule.outcome
<1> DEFINE in == InputOf[q]
           op == in.op
           mine(subject) == {r \in LiveRules(Rules, now) :
                               r.upstream = in.upstream /\ r.profile = in.profile /\ r.subject = subject}
           agent == mine(in.agent)
           any == mine(Empty)
<1>1. in.agent = q.agent /\ in.upstream = q.upstream /\ in.profile # Empty
  BY InputIs
<1>2. PICK l \in resolveLegacy(op, agent, any) :
        d = IF l.outcome = "deny" /\ filterableRead(op) THEN filterReadQuery(op, agent, any, in.browser) ELSE l
  BY DEF Decide, decideProfile, Authorize
<1>3. \A r \in agent \cup any :
        /\ r \in LiveRules(Rules, now) /\ r.subject \in {q.agent, Empty}
        /\ r.upstream = q.upstream /\ r.profile # Empty
  BY <1>1
<1> HIDE DEF in, op, mine, agent, any
<1>4. CASE l.outcome = "deny" /\ filterableRead(op)
  BY <1>2, <1>4, FilterNeverAsks
<1>5. CASE ~ (l.outcome = "deny" /\ filterableRead(op))
  <2>1. d = l
    BY <1>2, <1>5
  <2>2. \/ d = Decided("deny", NoRule)
        \/ d.rule \in agent \cup any /\ d.outcome = d.rule.outcome
    BY <1>2, <2>1, LegacyIs
  <2>3. Decided("deny", NoRule).rule = NoRule /\ Decided("deny", NoRule).outcome = "deny"
    BY DecidedIs
  <2>4. QED
    BY <1>3, <2>2, <2>3
<1>6. QED
  BY <1>4, <1>5

\* The request of a template rule that matched is the template with the values
\* the rule is asked about written into it.
LEMMA MatchedIsRead ==
  ASSUME NEW q \in Requests, NEW r, IsTemplateMatch(r, InputOf[q]), Matches(r, InputOf[q])
  PROVE  InputOf[q].match[r.template] \in Reading[q][r.template]
<1> DEFINE n == r.template
           in == InputOf[q]
<1>1. in.kind # "k8s" /\ n \in DOMAIN in.match
  BY DEF IsTemplateMatch, Matches, templateMatches
<1>2. in.match = Matching(q)
  BY <1>1, InputIs
<1> HIDE DEF n, in
<1>3. /\ n \in DOMAIN Templates /\ Parses(Templates[n]) /\ Match(Templates[n], q)
      /\ ExtractBody(Templates[n], q.body) /\ in.match[n] = Extracted(Templates[n], q)
  BY <1>1, <1>2 DEF Matching
<1>4. Extracted(Templates[n], q) \in Renderings(Templates[n], q, TextsOf(q))
  BY <1>3, MatchRenders
<1>5. Reading[q][n] = Renderings(Templates[n], q, TextsOf(q))
  BY <1>3 DEF Reading
<1>6. QED
  BY <1>3, <1>4, <1>5 DEF n, in

\* AllowNeedsLiveGrant, from what is known of the table.
LEMMA AllowIsGranted ==
  ASSUME RuleInv, NEW q \in Requests, NEW d \in Decide(Rules, InputOf[q], now)
  PROVE  AllowNeedsLiveGrant(q, d)
<1> SUFFICES ASSUME d.outcome = "allow", d.rule # NoRule
             PROVE  /\ d.rule \in Rules
                    /\ d.rule.subject \in {q.agent, Empty} /\ d.rule.upstream = q.upstream
                    /\ d.rule.outcome = "allow"
                    /\ d.rule.expires = Never \/ now <= d.rule.expires
                    /\ IsTemplateMatch(d.rule, InputOf[q]) =>
                         \E sigma \in Reading[q][d.rule.template] :
                            \A v \in DOMAIN sigma \cap DOMAIN d.rule.policies : InDomain(d.rule.policies[v], sigma[v])
  BY DEF AllowNeedsLiveGrant
<1> DEFINE in == InputOf[q]
<1>1. CASE Claimed(in)
  <2>1. /\ d.rule \in LiveRules(Rules, now) /\ d.rule.subject \in {q.agent, Empty}
        /\ d.rule.upstream = q.upstream /\ d.rule.profile # Empty /\ d.outcome = d.rule.outcome
    BY <1>1, ProfileDecision
  <2>2. ~ IsTemplateMatch(d.rule, in)
    BY <2>1 DEF IsTemplateMatch
  <2>3. QED
    BY <2>1, <2>2, LiveIs
<1>2. CASE ~ Claimed(in)
  <2>1. /\ d.rule \in LiveRules(Rules, now) /\ d.rule.subject \in {q.agent, Empty}
        /\ Matches(d.rule, in) /\ EffectiveOutcome(d.rule, in) = "allow"
    BY <1>2, RawDecision
  <2>2. d.rule \in Rules /\ (d.rule.expires = Never \/ now <= d.rule.expires)
    BY <2>1, LiveIs
  <2>3. d.rule.upstream = q.upstream
    BY <2>1, InputIs DEF Matches
  <2>4. IsPolicies(d.rule.policies)
    BY <2>2, RulesAre
  <2>5. CASE IsTemplateMatch(d.rule, in)
    <3>1. templateOutcome(d.rule, in) = "allow"
      BY <2>1, <2>5 DEF EffectiveOutcome
    <3>2. /\ d.rule.outcome = "allow"
          /\ \A v \in DOMAIN in.match[d.rule.template] \cap DOMAIN d.rule.policies :
                InDomain(d.rule.policies[v], in.match[d.rule.template][v])
      BY <2>4, <3>1, AllowedInDomain
    <3>3. in.match[d.rule.template] \in Reading[q][d.rule.template]
      BY <2>1, <2>5, MatchedIsRead
    <3> HIDE DEF in
    <3>4. \E sigma \in Reading[q][d.rule.template] :
             \A v \in DOMAIN sigma \cap DOMAIN d.rule.policies : InDomain(d.rule.policies[v], sigma[v])
      BY <3>2, <3>3
    <3>5. QED
      BY <2>1, <2>2, <2>3, <3>2, <3>4
  <2>6. CASE ~ IsTemplateMatch(d.rule, in)
    BY <2>1, <2>2, <2>3, <2>6 DEF EffectiveOutcome
  <2>7. QED
    BY <2>5, <2>6
<1>3. QED
  BY <1>1, <1>2

\* ConfinedToNamespace, from what is known of the table.
LEMMA NamespaceConfines ==
  ASSUME RuleInv, NEW q \in Requests, NEW d \in Decide(Rules, InputOf[q], now)
  PROVE  ConfinedToNamespace(q, d)
<1> DEFINE in == InputOf[q]
           path == Unescaped(q.path)
           ns == Parse(q.method, path, q.query).namespace
<1> SUFFICES ASSUME in.kind = "k8s", d.outcome # "deny", d.rule.namespace # Wild
             PROVE  \E i \in DOMAIN path :
                       /\ path[i] = "namespaces" /\ MatchGlob(d.rule.namespace, path[i + 1])
                       /\ \E j \in i + 2 .. Len(path) : path[j] # Empty
  BY DEF ConfinedToNamespace
<1>1. ~ Claimed(in) /\ in.namespace = ns
  BY InputIs
<1>2. Matches(d.rule, in)
  BY <1>1, RawDecision
<1>3. ns # Empty /\ MatchGlob(d.rule.namespace, ns)
  BY <1>1, <1>2 DEF Matches, k8sMatches, nsMatches
<1>4. path \in Seq(STRING)
  BY RequestAssumption
<1>5. NamesInside(path, ns)
  <2> HIDE DEF path
  <2> QED BY <1>3, <1>4, NamespaceIsInPath
<1> HIDE DEF path, ns, in
<1>6. QED
  BY <1>3, <1>5 DEF NamesInside

\* OnlyTextGrows, from what is known of the table.
LEMMA ApprovalGrowsText ==
  ASSUME RuleInv, NEW q \in Requests, NEW d \in Decide(Rules, InputOf[q], now)
  PROVE  OnlyTextGrows(q, d)
<1> DEFINE in == InputOf[q]
<1> SUFFICES ASSUME d.outcome = "require-approval", NEW nv \in NewValues(d.rule, in)
             PROVE  d.rule.policies[nv[1]].type = "text"
  BY DEF OnlyTextGrows
<1>1. CASE Claimed(in)
  <2>1. d.rule.profile # Empty
    BY <1>1, ProfileDecision
  <2>2. QED
    BY <2>1 DEF NewValues, IsTemplateMatch
<1>2. CASE ~ Claimed(in)
  <2>1. d.rule \in LiveRules(Rules, now)
    BY <1>2, RawDecision
  <2>2. IsPolicies(d.rule.policies)
    BY <2>1, LiveIs, RulesAre
  <2>3. PICK v \in Gated(d.rule, in, "new") : nv = <<v, in.match[d.rule.template][v]>>
    BY DEF NewValues
  <2>4. d.rule.policies[v].type = "text"
    BY <2>2, <2>3, NewIsText
  <2>5. QED
    BY <2>3, <2>4
<1>3. QED
  BY <1>1, <1>2

\* AllowIsEarned: whatever rules were created, renewed, updated and deleted, in
\* whatever order, a request is let through by a live grant that says all of it.
THEOREM AllowsAreEarned == Spec => []AllowIsEarned
<1>1. RuleInv => AllowIsEarned
  BY AllowIsGranted, NamespaceConfines, ApprovalGrowsText DEF AllowIsEarned
<1>2. QED
  BY <1>1, RuleInvariant, PTL
=============================================================================
