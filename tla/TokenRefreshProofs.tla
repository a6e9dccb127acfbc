------------------------- MODULE TokenRefreshProofs -------------------------
(***************************************************************************)
(* Proofs about TokenRefresh and the registry under it: for any number of  *)
(* calls and editors, any kubeconfigs and any bounds, a secret stays with  *)
(* its address, the Manager's cache is never staler than its caller, and   *)
(* the row holds the latest tokens whenever no refresh is under way.       *)
(***************************************************************************)
EXTENDS TokenRefresh, TLAPS

-----------------------------------------------------------------------------
(* The inductive invariant.                                                 *)

\* A row, or a copy of one: its tokens are not ahead of generation g and, unless
\* a stale credential was stored on it, its secret is for its address.
KeptIn(r, g, stale) ==
  r # None =>
    /\ r.auth.gen <= g
    /\ r.id \notin stale =>
         r.auth.given = r.base /\ (r.auth.insecure => ToldUnchecked(r.base))

\* The registry's part, below generation g.
RegInv(g) ==
  /\ RegistryTypeOK
  /\ KeptIn(row, g, overtaken)
  /\ \A e \in Editors :
       KeptIn(editor[e].snap, g, overtaken) /\ (editor[e].at = "loaded" => editor[e].snap # None)

\* The login callback stores what it has loaded.
LoginOK == KeptIn(login.snap, idp.gen, overtaken) /\ (login.at = "store" => login.snap # None)

\* An authenticator is at least as new as the config it was built from, and it
\* is cached for its own upstream.
BuiltOK ==
  /\ \A i \in DOMAIN built : built[i].from.gen <= built[i].gen
  /\ \A i \in 1 .. MaxIds : cached[i] # 0 => built[cached[i]].id = i

Persisting == {"load", "store", "release"}

\* One call, by where it is, over the authenticators auths.
CallIn(k, auths, g, stale) ==
  /\ KeptIn(k.snap, g, stale) /\ KeptIn(k.load, g, stale)
  /\ k.at = "new" => k = NewCall
  /\ k.at = "snap" => k.auth = 0 /\ k.snap # None
  /\ k.at \in Persisting \cup {"apply"} => k.auth # 0
  /\ k.at \in Persisting \cup {"apply", "snap"} => k.sent = 0
  /\ k.at = "store" => k.load # None
  /\ k.auth # 0 =>
       /\ k.snap # None
       /\ [auths[k.auth].from EXCEPT !.insecure = k.snap.auth.insecure] = k.snap.auth
       /\ auths[k.auth].id = k.snap.id
       /\ k.sent # 0 => k.sent >= k.snap.auth.gen
  /\ k.at \in Persisting => k.new >= k.snap.auth.gen /\ auths[k.auth].busy

CallsOK == \A c \in Calls : CallIn(call[c], built, idp.gen, overtaken)

\* The mutex of an authenticator: one call refreshes it at a time.
MutexHeld ==
  \A c, d \in Calls :
     call[c].at \in Persisting /\ call[d].at \in Persisting /\ call[c].auth = call[d].auth => c = d

\* The calls with a pair that is not stored yet.
Unsaved == {c \in Calls : call[c].at \in {"load", "store"}}

\* While c has the only unsaved pair, every other copy is older.
OnlyCopy(c) ==
  /\ \A d \in Unsaved : d = c
  /\ call[c].new = idp.gen /\ row.auth.gen < idp.gen
  /\ call[c].at = "store" => call[c].load = row
  /\ \A i \in DOMAIN built : i # call[c].auth => built[i].gen < idp.gen
  /\ \A d \in Calls : call[d].snap # None => call[d].snap.auth.gen < idp.gen

\* As long as only calls write the row.
QuietInv ==
  quiet =>
    /\ ~ locked /\ row # None /\ row.id = 1 /\ login.at = "new"
    /\ \A i \in DOMAIN built : built[i].id = 1
    /\ \A c \in Calls : call[c].snap # None => call[c].snap.id = 1
    /\ \A c \in Unsaved : OnlyCopy(c)
    /\ Unsaved = {} => row.auth.gen = idp.gen

TokenInv ==
  /\ TypeOK /\ RegInv(idp.gen) /\ LoginOK /\ BuiltOK
  /\ CallsOK /\ MutexHeld /\ QuietInv

-----------------------------------------------------------------------------
(* What the operators yield.                                                *)

\* An import's target is a credential for its own address, without tokens, and
\* unchecked only if a kubeconfig says so (Target, BuildAuthConfig, Insecure).
LEMMA TargetFacts ==
  ASSUME NEW t \in Targets
  PROVE  /\ t.server \in Bases /\ t.auth \in Creds
         /\ t.auth.gen = 0 /\ t.auth.given = t.server
         /\ t.auth.insecure => ToldUnchecked(t.server)
<1>1. PICK x \in Contexts : Usable(x[1], x[2], x[3]) /\ t = Target(x[1], x[2], x[3])
  BY DEF Targets
<1>2. PICK i \in DOMAIN x[1].clusters : ByName(x[1].clusters, x[2].cluster) = x[1].clusters[i]
  BY <1>1, TargetsAssumption
<1> DEFINE cl == x[1].clusters[i]
           ca == ResolveDataOrFile(cl.caData, cl.caFile, x[3])
<1>3. /\ t.server = cl.server
      /\ t.auth.type = "none" /\ t.auth.gen = 0
      /\ t.auth.insecure = (cl.insecure /\ ca = "")
  BY <1>1, <1>2 DEF Target, BuildAuthConfig, Insecure
<1>4. t.auth.given = t.server
  BY DocumentsAssumption
<1>5. t.server \in Bases /\ t.auth.cfg \in {u.auth.cfg : u \in Targets}
  BY DEF Bases
<1>6. t.auth = [type |-> t.auth.type, cfg |-> t.auth.cfg, gen |-> t.auth.gen,
                given |-> t.auth.given, insecure |-> t.auth.insecure]
  BY <1>1 DEF Target, BuildAuthConfig
<1>7. t.auth.insecure \in BOOLEAN
  BY <1>3
<1>8. t.auth \in Creds
  <2>1. t.auth.type = "none" /\ t.auth.gen = 0
    BY <1>3
  <2>2. t.auth.given \in Bases
    BY <1>4, <1>5
  <2> QED
    BY <1>5, <1>6, <1>7, <2>1, <2>2 DEF Creds
<1>9. ASSUME t.auth.insecure PROVE ToldUnchecked(t.server)
  <2>1. cl.insecure /\ ca = ""
    BY <1>3, <1>9
  <2>2. cl.caData = "" /\ (cl.caFile # <<>> => ReadFileRel(cl.caFile, x[3]) = "")
    BY <2>1 DEF ResolveDataOrFile
  <2>3. cl.caFile # <<>> => ReadFileRel(cl.caFile, x[3]) # ""
    BY DocumentsAssumption
  <2>4. x[1] \in Documents
    BY DEF Contexts
  <2> QED
    BY <1>3, <2>1, <2>2, <2>3, <2>4 DEF ToldUnchecked
<1> QED
  BY <1>3, <1>4, <1>5, <1>8, <1>9

\* A credential made from a form is one (Auth).
LEMMA AuthFacts ==
  ASSUME NEW type \in {"oidc", "none"}, NEW cfg \in {"created", "edited"}, NEW gen \in Nat, NEW base \in Bases
  PROVE  /\ Auth(type, cfg, gen, base) \in Creds
         /\ Auth(type, cfg, gen, base).gen = gen /\ Auth(type, cfg, gen, base).given = base
         /\ Auth(type, cfg, gen, base).insecure = FALSE
BY DEF Auth, Creds

\* A form merged with what was loaded is for the address that was loaded, with
\* no newer tokens (MergeKeepSecrets).
LEMMA MergeFacts ==
  ASSUME NEW snap \in Rows, NEW type \in {"oidc", "none"}
  PROVE  LET auth == MergeKeepSecrets(snap.auth, Auth(type, "edited", 0, snap.base))
         IN /\ auth \in Creds /\ auth.gen <= snap.auth.gen /\ auth.insecure = FALSE
            /\ auth.given \in {snap.base, snap.auth.given}
<1> DEFINE in   == Auth(type, "edited", 0, snap.base)
           kept == [in EXCEPT !.gen = snap.auth.gen, !.given = snap.auth.given]
<1>1. snap.base \in Bases /\ snap.auth \in Creds
  BY DEF Rows
<1>2. snap.auth.gen \in Nat /\ snap.auth.given \in Bases
  BY <1>1 DEF Creds
<1>3. in \in Creds /\ in.gen = 0 /\ in.given = snap.base /\ in.insecure = FALSE
  BY <1>1 DEF Auth, Creds
<1>4. kept \in Creds /\ kept.gen = snap.auth.gen /\ kept.given = snap.auth.given /\ kept.insecure = FALSE
  <2> HIDE DEF in
  <2> QED
    BY <1>2, <1>3 DEF Creds
<1>5. MergeKeepSecrets(snap.auth, in) = IF snap.auth.type # in.type THEN in ELSE kept
  BY DEF MergeKeepSecrets
<1> HIDE DEF in, kept
<1>6. CASE snap.auth.type # in.type
  BY <1>2, <1>3, <1>5, <1>6 DEF in
<1>7. CASE ~ (snap.auth.type # in.type)
  BY <1>2, <1>4, <1>5, <1>7 DEF in
<1> QED
  BY <1>6, <1>7

\* Tokens only get newer at the provider, and an overtaken id stays one.
LEMMA KeptGrows ==
  ASSUME NEW r \in Rows \cup {None}, NEW g \in Nat, NEW h \in Nat, NEW stale, NEW later,
         g <= h, stale \subseteq later, KeptIn(r, g, stale)
  PROVE  KeptIn(r, h, later)
<1>1. r # None => r.auth.gen \in Nat
  BY DEF Rows, Creds
<1> QED
  BY <1>1 DEF KeptIn

\* SetAuth of a credential that suits the row that was loaded: it suits the row
\* it is stored on, or the id is overtaken; the id stays.
LEMMA SetAuthFacts ==
  ASSUME row \in Rows \cup {None}, overtaken \subseteq 1 .. MaxIds,
         NEW snap \in Rows, NEW auth \in Creds, NEW g \in Nat,
         KeptIn(row, g, overtaken), auth.gen <= g,
         snap.id \notin overtaken => auth.given = snap.base /\ (auth.insecure => ToldUnchecked(snap.base)),
         SetAuth(snap, auth)
  PROVE  /\ row' \in Rows \cup {None} /\ overtaken' \subseteq 1 .. MaxIds
         /\ KeptIn(row', g, overtaken') /\ overtaken \subseteq overtaken'
         /\ row = None <=> row' = None
         /\ row # None => row'.id = row.id
<1>1. overtaken \subseteq overtaken' /\ overtaken' \subseteq 1 .. MaxIds
  BY DEF SetAuth, Rows
<1>2. CASE ~ (HasId(snap.id) /\ ~ locked)
  <2>1. row' = row
    BY <1>2 DEF SetAuth
  <2>2. KeptIn(row, g, overtaken')
    BY <1>1 DEF KeptIn
  <2> QED
    BY <1>1, <2>1, <2>2
<1>3. CASE HasId(snap.id) /\ ~ locked
  <2>1. row \in Rows /\ row # None /\ row.id = snap.id /\ row' = [row EXCEPT !.auth = auth]
    BY <1>3 DEF SetAuth, HasId
  <2>2. row' \in Rows /\ row'.id = row.id /\ row'.base = row.base /\ row'.auth = auth
    BY <2>1 DEF Rows
  <2>3. row' # None
    BY <2>2, RegistryAssumption
  <2>4. snap.id \notin overtaken' => row.base = snap.base /\ snap.id \notin overtaken
    BY <1>3 DEF SetAuth
  <2>5. KeptIn(row', g, overtaken')
    BY <2>1, <2>2, <2>4 DEF KeptIn
  <2> QED
    BY <1>1, <2>1, <2>2, <2>3, <2>5
<1> QED
  BY <1>2, <1>3

-----------------------------------------------------------------------------
(* The registry's steps.                                                    *)

\* A registered target, or a form's credential, makes a row that is kept.
LEMMA FreshRow ==
  ASSUME NEW g \in Nat, NEW id \in 1 .. MaxIds, NEW kind \in {"http", "k8s"}, NEW base \in Bases,
         NEW auth \in Creds, NEW stale,
         auth.gen = 0, auth.given = base, auth.insecure => ToldUnchecked(base)
  PROVE  LET r == [id |-> id, kind |-> kind, base |-> base, auth |-> auth]
         IN r \in Rows /\ r # None /\ KeptIn(r, g, stale)
<1> DEFINE r == [id |-> id, kind |-> kind, base |-> base, auth |-> auth]
<1>1. r \in Rows
  BY DEF Rows
<1>2. r # None
  BY <1>1, RegistryAssumption
<1>3. KeptIn(r, g, stale)
  BY DEF KeptIn
<1> QED
  BY <1>1, <1>2, <1>3

\* What is registered is such a row, on a new id or on the one it had.
LEMMA RegisterFacts ==
  ASSUME NEW g \in Nat, RegInv(g), NEW t \in Targets, nextId <= MaxIds, ~ RegisterFails, Register(t)
  PROVE  /\ row' \in Rows \cup {None} /\ KeptIn(row', g, overtaken)
         /\ nextId' \in 2 .. MaxIds + 1
         /\ row' # None => row'.id < nextId'
         /\ row # None /\ ~ importer.update => row' = row
         /\ row # None /\ row' # None => row'.id = row.id
<1>1. /\ row \in Rows \cup {None} /\ KeptIn(row, g, overtaken)
      /\ nextId \in 2 .. MaxIds + 1 /\ (row # None => row.id < nextId)
  BY DEF RegInv, RegistryTypeOK
<1>2. /\ t.server \in Bases /\ t.auth \in Creds /\ t.auth.gen = 0 /\ t.auth.given = t.server
      /\ t.auth.insecure => ToldUnchecked(t.server)
  BY TargetFacts
<1>3. CASE row' = row /\ nextId' = nextId
  BY <1>1, <1>3
<1>4. CASE /\ row # None /\ HasId(importer.have.id) /\ importer.update
           /\ row' = [row EXCEPT !.base = t.server, !.auth = t.auth] /\ nextId' = nextId
  <2>1. row \in Rows /\ row.id \in 1 .. MaxIds /\ row.kind \in {"http", "k8s"}
    BY <1>1, <1>4 DEF Rows
  <2>2. row' = [id |-> row.id, kind |-> row.kind, base |-> t.server, auth |-> t.auth]
    BY <1>4, <2>1 DEF Rows
  <2>3. row' \in Rows /\ row' # None /\ KeptIn(row', g, overtaken)
    BY <1>2, <2>1, <2>2, FreshRow
  <2> QED
    BY <1>1, <1>4, <2>2, <2>3
<1>5. CASE /\ row = None /\ nextId' = nextId + 1
           /\ row' = [id |-> nextId, kind |-> "k8s", base |-> t.server, auth |-> t.auth]
  <2>1. nextId \in 1 .. MaxIds
    BY <1>1, RegistryAssumption
  <2>2. row' \in Rows /\ KeptIn(row', g, overtaken)
    BY <1>2, <1>5, <2>1, FreshRow
  <2>3. nextId' \in 2 .. MaxIds + 1 /\ row'.id < nextId'
    BY <1>1, <1>5, <2>1, RegistryAssumption
  <2> QED
    BY <1>5, <2>2, <2>3
<1> QED
  BY <1>3, <1>4, <1>5 DEF Register, RegisterFails, UpdateTarget, Create, HasId

\* An import that has ended (NewImporter).
LEMMA DoneImporter ==
  [NewImporter EXCEPT !.at = "done"]
    \in [at : {"new", "listed", "done"}, update : BOOLEAN, have : Rows \cup {None}, todo : Seq(Targets)]
<1>1. <<>> \in Seq(Targets)
  OBVIOUS
<1> DEFINE empty == <<>>
           new   == [at |-> "new", update |-> FALSE, have |-> None, todo |-> empty]
<1>2. NewImporter = new
  BY DEF NewImporter
<1> HIDE DEF empty
<1>3. [new EXCEPT !.at = "done"]
        \in [at : {"new", "listed", "done"}, update : BOOLEAN, have : Rows \cup {None}, todo : Seq(Targets)]
  BY <1>1 DEF empty
<1> QED
  BY <1>2, <1>3

\* A step of the registry keeps its part of the invariant.
LEMMA RegistryStepKeeps ==
  ASSUME NEW g \in Nat, RegInv(g), RegistryStep
  PROVE  RegInv(g)' /\ overtaken \subseteq overtaken'
<1>1. /\ locked \in BOOLEAN /\ nextId \in 2 .. MaxIds + 1 /\ overtaken \subseteq 1 .. MaxIds
      /\ row \in Rows \cup {None} /\ (row # None => row.id < nextId)
      /\ editor \in [Editors -> [at : {"new", "loaded", "done"}, snap : Rows \cup {None}]]
      /\ importer \in [at : {"new", "listed", "done"}, update : BOOLEAN, have : Rows \cup {None}, todo : Seq(Targets)]
  BY DEF RegInv, RegistryTypeOK
<1>2. /\ KeptIn(row, g, overtaken)
      /\ \A e \in Editors : KeptIn(editor[e].snap, g, overtaken) /\ (editor[e].at = "loaded" => editor[e].snap # None)
  BY DEF RegInv
<1>3. CASE UpstreamCreate
  <2>1. /\ ~ locked /\ nextId <= MaxIds /\ Create("http", NewBase, Auth("oidc", "created", 0, NewBase))
        /\ UNCHANGED <<locked, editor, importer, overtaken>>
    BY <1>3 DEF UpstreamCreate
  <2>2. NewBase \in Bases
    BY DEF Bases
  <2> DEFINE auth == Auth("oidc", "created", 0, NewBase)
  <2>3. auth \in Creds /\ auth.gen = 0 /\ auth.given = NewBase /\ auth.insecure = FALSE
    BY <2>2 DEF Auth, Creds
  <2>4. nextId \in 1 .. MaxIds
    BY <1>1, <2>1, RegistryAssumption
  <2> HIDE DEF auth
  <2> DEFINE r == [id |-> nextId, kind |-> "http", base |-> NewBase, auth |-> auth]
  <2>5. r \in Rows /\ KeptIn(r, g, overtaken)
    BY <2>2, <2>3, <2>4, FreshRow
  <2>6. (row' = row /\ nextId' = nextId) \/ (row' = r /\ nextId' = nextId + 1)
    BY <2>1 DEF Create, auth
  <2>7. r.id = nextId
    OBVIOUS
  <2> HIDE DEF r
  <2>8. /\ row' \in Rows \cup {None} /\ KeptIn(row', g, overtaken)
        /\ nextId' \in 2 .. MaxIds + 1 /\ (row' # None => row'.id < nextId')
    BY <1>1, <1>2, <2>4, <2>5, <2>6, <2>7, RegistryAssumption
  <2> QED
    BY <1>1, <1>2, <2>1, <2>8 DEF RegInv, RegistryTypeOK
<1>4. CASE UpstreamDelete
  <2>1. KeptIn(None, g, overtaken)
    BY DEF KeptIn
  <2> QED
    BY <1>1, <1>2, <1>4, <2>1 DEF RegInv, RegistryTypeOK, UpstreamDelete
<1>5. ASSUME NEW e \in Editors, EditLoad(e) PROVE RegInv(g)' /\ overtaken' = overtaken
  <2>1. /\ row # None /\ UNCHANGED <<locked, row, nextId, importer, overtaken>>
        /\ editor' = [editor EXCEPT ![e] = [at |-> "loaded", snap |-> row]]
    BY <1>5 DEF EditLoad
  <2>2. editor' \in [Editors -> [at : {"new", "loaded", "done"}, snap : Rows \cup {None}]]
    BY <1>1, <2>1
  <2>3. \A d \in Editors : KeptIn(editor'[d].snap, g, overtaken) /\ (editor'[d].at = "loaded" => editor'[d].snap # None)
    BY <1>1, <1>2, <2>1
  <2> QED
    BY <1>1, <1>2, <2>1, <2>2, <2>3 DEF RegInv, RegistryTypeOK
<1>6. ASSUME NEW e \in Editors, NEW type \in {"oidc", "none"}, EditStore(e, type)
      PROVE  RegInv(g)' /\ overtaken \subseteq overtaken'
  <2> DEFINE snap == editor[e].snap
             auth == MergeKeepSecrets(snap.auth, Auth(type, "edited", 0, snap.base))
  <2>1. /\ editor[e].at = "loaded" /\ SetAuth(snap, auth) /\ UNCHANGED <<locked, nextId, importer>>
        /\ editor' = [editor EXCEPT ![e] = [at |-> "done", snap |-> None]]
    BY <1>6 DEF EditStore
  <2>2. snap \in Rows /\ snap # None /\ KeptIn(snap, g, overtaken)
    BY <1>1, <1>2, <2>1
  <2> HIDE DEF snap
  <2>3. auth \in Creds /\ auth.gen <= snap.auth.gen /\ auth.insecure = FALSE /\ auth.given \in {snap.base, snap.auth.given}
    BY <2>2, MergeFacts
  <2>4. snap.auth.gen \in Nat /\ snap.auth.gen <= g
    BY <2>2 DEF KeptIn, Rows, Creds
  <2> HIDE DEF auth
  <2>5. auth.gen <= g
    BY <2>3, <2>4 DEF Creds
  <2>6. snap.id \notin overtaken => auth.given = snap.base
    BY <2>2, <2>3 DEF KeptIn
  <2>7. /\ row' \in Rows \cup {None} /\ overtaken' \subseteq 1 .. MaxIds
        /\ KeptIn(row', g, overtaken') /\ overtaken \subseteq overtaken'
        /\ (row = None <=> row' = None) /\ (row # None => row'.id = row.id)
    BY <1>1, <1>2, <2>1, <2>2, <2>3, <2>5, <2>6, SetAuthFacts
  <2>8. editor' \in [Editors -> [at : {"new", "loaded", "done"}, snap : Rows \cup {None}]]
    BY <1>1, <2>1
  <2>9. ASSUME NEW d \in Editors
        PROVE  KeptIn(editor'[d].snap, g, overtaken') /\ (editor'[d].at = "loaded" => editor'[d].snap # None)
    <3>1. CASE d = e
      BY <1>1, <2>1, <3>1 DEF KeptIn
    <3>2. CASE d # e
      <4>1. editor'[d] = editor[d] /\ editor[d].snap \in Rows \cup {None}
        BY <1>1, <2>1, <3>2
      <4>2. KeptIn(editor[d].snap, g, overtaken')
        BY <1>2, <2>7 DEF KeptIn
      <4> QED
        BY <1>2, <4>1, <4>2
    <3> QED
      BY <3>1, <3>2
  <2> QED
    BY <1>1, <2>1, <2>7, <2>8, <2>9 DEF RegInv, RegistryTypeOK
<1>7. ASSUME NEW update \in BOOLEAN, NEW todo \in Seq(Targets),
             importer' = [at |-> "listed", update |-> update, have |-> row, todo |-> todo],
             UNCHANGED <<locked, row, nextId, editor, overtaken>>
      PROVE  RegInv(g)'
  BY <1>1, <1>2, <1>7 DEF RegInv, RegistryTypeOK
<1>8. ASSUME NEW update \in BOOLEAN, ImportScan(update) PROVE RegInv(g)' /\ overtaken' = overtaken
  <2> DEFINE todo == SelectSeq(ParseFiles(Discover(Env, KubeDir)), LAMBDA t : t.name = Name)
  <2>1. todo \in Seq(Targets)
    BY TargetsAssumption
  <2>2. /\ importer' = [at |-> "listed", update |-> update, have |-> row, todo |-> todo]
        /\ UNCHANGED <<locked, row, nextId, editor, overtaken>>
    BY <1>8 DEF ImportScan, ImportList
  <2> HIDE DEF todo
  <2> QED
    BY <1>7, <2>1, <2>2
<1>9. ASSUME NEW doc \in Uploads, ImportUpload(doc) PROVE RegInv(g)' /\ overtaken' = overtaken
  <2> DEFINE todo == SelectSeq(ParseKubeconfig(doc, ""), LAMBDA t : t.name = Name)
  <2>1. todo \in Seq(Targets)
    BY <1>9, TargetsAssumption DEF ImportUpload
  <2>2. /\ importer' = [at |-> "listed", update |-> TRUE, have |-> row, todo |-> todo]
        /\ UNCHANGED <<locked, row, nextId, editor, overtaken>>
    BY <1>9 DEF ImportUpload, ImportList
  <2> HIDE DEF todo
  <2> QED
    BY <1>7, <2>1, <2>2
<1>10. CASE ImportRegister
  <2>1. /\ importer.todo # <<>> /\ nextId <= MaxIds /\ UNCHANGED <<locked, editor, overtaken>>
    BY <1>10 DEF ImportRegister
  <2>2. CASE RegisterFails /\ importer' = [NewImporter EXCEPT !.at = "done"] /\ UNCHANGED <<row, nextId>>
    <3>1. importer' \in [at : {"new", "listed", "done"}, update : BOOLEAN, have : Rows \cup {None}, todo : Seq(Targets)]
      BY <2>2, DoneImporter
    <3> QED
      BY <1>1, <1>2, <2>1, <2>2, <3>1 DEF RegInv, RegistryTypeOK
  <2>3. CASE /\ ~ RegisterFails /\ Register(Head(importer.todo))
             /\ importer' = [importer EXCEPT !.todo = Tail(@), !.have = IF @ = None THEN row' ELSE @]
    <3>1. Head(importer.todo) \in Targets /\ Tail(importer.todo) \in Seq(Targets)
      BY <1>1, <2>1
    <3>2. /\ row' \in Rows \cup {None} /\ KeptIn(row', g, overtaken)
          /\ nextId' \in 2 .. MaxIds + 1 /\ (row' # None => row'.id < nextId')
      BY <2>1, <2>3, <3>1, RegisterFacts
    <3>3. importer' \in [at : {"new", "listed", "done"}, update : BOOLEAN, have : Rows \cup {None}, todo : Seq(Targets)]
      BY <1>1, <2>3, <3>1, <3>2
    <3> QED
      BY <1>1, <1>2, <2>1, <3>2, <3>3 DEF RegInv, RegistryTypeOK
  <2> QED
    BY <1>10, <2>1, <2>2, <2>3 DEF ImportRegister
<1>11. CASE ImportEnds
  <2>1. importer' \in [at : {"new", "listed", "done"}, update : BOOLEAN, have : Rows \cup {None}, todo : Seq(Targets)]
    BY <1>11, DoneImporter DEF ImportEnds
  <2> QED
    BY <1>1, <1>2, <1>11, <2>1 DEF RegInv, RegistryTypeOK, ImportEnds
<1>12. CASE VaultLock
  <2>1. locked' \in BOOLEAN
    BY <1>12 DEF VaultLock
  <2> QED
    BY <1>1, <1>2, <1>12, <2>1 DEF RegInv, RegistryTypeOK, VaultLock
<1> QED
  BY <1>3, <1>4, <1>5, <1>6, <1>8, <1>9, <1>10, <1>11, <1>12 DEF RegistryStep

-----------------------------------------------------------------------------
(* One call moves.                                                          *)

\* A call that does not move stays as it was: the authenticators keep what they
\* were built from, tokens only get newer.
LEMMA CallGrows ==
  ASSUME NEW k \in CallRecords, NEW auths, NEW bigger, NEW g \in Nat, NEW h \in Nat, NEW stale, NEW later,
         g <= h, stale \subseteq later, CallIn(k, auths, g, stale),
         k.auth # 0 => bigger[k.auth].from = auths[k.auth].from /\ bigger[k.auth].id = auths[k.auth].id,
         k.at \in Persisting => bigger[k.auth].busy
  PROVE  CallIn(k, bigger, h, later)
<1>1. k.snap \in Rows \cup {None} /\ k.load \in Rows \cup {None}
  BY DEF CallRecords
<1>2. KeptIn(k.snap, h, later) /\ KeptIn(k.load, h, later)
  BY <1>1, KeptGrows DEF CallIn
<1> QED
  BY <1>2 DEF CallIn

\* The parts of the type invariant that the calls' steps read.
LEMMA Types ==
  ASSUME TypeOK
  PROVE  /\ idp \in [gen : 1 .. MaxGen, expired : 0 .. MaxGen] /\ idp.gen \in Nat /\ idp.expired \in Nat
         /\ idp.expired <= idp.gen
         /\ built \in Seq(Authenticators) /\ Len(built) \in Nat /\ Len(built) <= MaxBuilt
         /\ DOMAIN built = 1 .. Len(built)
         /\ \A i \in DOMAIN built : built[i] \in Authenticators /\ built[i].gen \in Nat /\ built[i].from \in Creds
                                    /\ built[i].id \in 1 .. MaxIds /\ built[i].from.gen \in Nat /\ built[i].gen <= idp.gen
         /\ cached \in [1 .. MaxIds -> 0 .. Len(built)]
         /\ call \in [Calls -> CallRecords]
         /\ \A c \in Calls : /\ call[c] \in CallRecords /\ call[c].auth \in Nat /\ call[c].new \in Nat /\ call[c].sent \in Nat
                             /\ call[c].snap \in Rows \cup {None} /\ call[c].load \in Rows \cup {None}
                             /\ call[c].auth <= Len(built) /\ call[c].new <= idp.gen /\ call[c].sent <= idp.gen
                             /\ call[c].at \in States
                             /\ call[c].auth # 0 => call[c].auth \in DOMAIN built
<1>1. /\ idp \in [gen : 1 .. MaxGen, expired : 0 .. MaxGen] /\ idp.expired <= idp.gen
      /\ built \in Seq(Authenticators) /\ Len(built) <= MaxBuilt
      /\ \A i \in DOMAIN built : built[i].gen <= idp.gen
      /\ cached \in [1 .. MaxIds -> 0 .. Len(built)]
      /\ call \in [Calls -> CallRecords]
      /\ \A c \in Calls : call[c].auth <= Len(built) /\ call[c].new <= idp.gen /\ call[c].sent <= idp.gen
  BY DEF TypeOK
<1>2. idp.gen \in Nat /\ idp.expired \in Nat
  BY <1>1, TokenAssumption
<1>3. Len(built) \in Nat /\ DOMAIN built = 1 .. Len(built) /\ \A i \in DOMAIN built : built[i] \in Authenticators
  BY <1>1
<1>4. \A i \in DOMAIN built : built[i].gen \in Nat /\ built[i].from \in Creds /\ built[i].id \in 1 .. MaxIds
  BY <1>3 DEF Authenticators
<1>5. \A i \in DOMAIN built : built[i].from.gen \in Nat
  BY <1>4 DEF Creds
<1>6. \A c \in Calls : /\ call[c] \in CallRecords /\ call[c].auth \in Nat /\ call[c].new \in Nat /\ call[c].sent \in Nat
                       /\ call[c].snap \in Rows \cup {None} /\ call[c].load \in Rows \cup {None} /\ call[c].at \in States
  BY <1>1 DEF CallRecords
<1>7. \A c \in Calls : call[c].auth # 0 => call[c].auth \in DOMAIN built
  BY <1>1, <1>3, <1>6
<1> QED
  BY <1>1, <1>2, <1>3, <1>4, <1>5, <1>6, <1>7

\* What one call's step has to show for the invariant to hold after it.
LEMMA CallMoves ==
  ASSUME TokenInv, NEW c \in Calls, NEW n \in CallRecords, call' = [call EXCEPT ![c] = n],
         UNCHANGED <<login, quiet>>,
         RegInv(idp.gen)', overtaken \subseteq overtaken',
         idp' \in [gen : 1 .. MaxGen, expired : 0 .. MaxGen], idp'.expired <= idp'.gen, idp.gen <= idp'.gen,
         built' \in Seq(Authenticators), Len(built) <= Len(built'), Len(built') <= MaxBuilt,
         \A i \in DOMAIN built' : built'[i].gen <= idp'.gen /\ built'[i].from.gen <= built'[i].gen,
         \A i \in DOMAIN built :
            /\ built'[i].from = built[i].from /\ built'[i].id = built[i].id
            /\ built[i].busy => built'[i].busy \/ (call[c].at \in Persisting /\ call[c].auth = i),
         cached' \in [1 .. MaxIds -> 0 .. Len(built')],
         \A i \in 1 .. MaxIds : cached'[i] # 0 => built'[cached'[i]].id = i,
         n.auth <= Len(built'), n.new <= idp'.gen, n.sent <= idp'.gen,
         CallIn(n, built', idp'.gen, overtaken'),
         n.at \in Persisting => \A d \in Calls : d # c /\ call[d].at \in Persisting => call[d].auth # n.auth,
         QuietInv'
  PROVE  TokenInv'
<1>1. TypeOK /\ RegInv(idp.gen) /\ LoginOK /\ CallsOK /\ MutexHeld
  BY DEF TokenInv
<1>2. /\ idp.gen \in Nat /\ built \in Seq(Authenticators) /\ Len(built) \in Nat
      /\ DOMAIN built = 1 .. Len(built) /\ call \in [Calls -> CallRecords]
      /\ \A d \in Calls : /\ call[d] \in CallRecords /\ call[d].auth \in Nat /\ call[d].new \in Nat /\ call[d].sent \in Nat
                          /\ call[d].auth <= Len(built) /\ call[d].new <= idp.gen /\ call[d].sent <= idp.gen
                          /\ call[d].auth # 0 => call[d].auth \in DOMAIN built
  BY <1>1, Types
<1>3. idp'.gen \in Nat /\ Len(built') \in Nat
  BY TokenAssumption
<1>4. call' \in [Calls -> CallRecords] /\ call'[c] = n /\ \A d \in Calls \ {c} : call'[d] = call[d]
  BY <1>2
<1>5. \A d \in Calls : call'[d].auth <= Len(built') /\ call'[d].new <= idp'.gen /\ call'[d].sent <= idp'.gen
  BY <1>2, <1>3, <1>4
<1>6. /\ login \in [at : {"new", "load", "store", "done"}, id : 0 .. MaxIds, snap : Rows \cup {None}, new : Nat]
      /\ login.new <= idp.gen /\ quiet \in BOOLEAN
  BY <1>1 DEF TypeOK
<1>7. TypeOK'
  <2>1. RegistryTypeOK'
    BY DEF RegInv
  <2>2. login'.new <= idp'.gen
    BY <1>2, <1>3, <1>6
  <2>3. quiet' \in BOOLEAN
    BY <1>6
  <2> QED
    BY <1>4, <1>5, <1>6, <2>1, <2>2, <2>3 DEF TypeOK
<1>8. LoginOK'
  <2>1. login.snap \in Rows \cup {None}
    BY <1>6
  <2>2. KeptIn(login.snap, idp'.gen, overtaken')
    BY <1>1, <1>2, <1>3, <2>1, KeptGrows DEF LoginOK
  <2> QED
    BY <1>1, <2>2 DEF LoginOK
<1>9. BuiltOK'
  BY DEF BuiltOK
<1>10. ASSUME NEW d \in Calls PROVE CallIn(call'[d], built', idp'.gen, overtaken')
  <2>1. CASE d = c
    BY <1>4, <2>1
  <2>2. CASE d # c
    <3>1. CallIn(call[d], built, idp.gen, overtaken)
      BY <1>1 DEF CallsOK
    <3>2. call[d].auth # 0 => /\ built'[call[d].auth].from = built[call[d].auth].from
                              /\ built'[call[d].auth].id = built[call[d].auth].id
      BY <1>2
    <3>3. ASSUME call[d].at \in Persisting PROVE built'[call[d].auth].busy
      <4>1. call[d].auth \in DOMAIN built /\ built[call[d].auth].busy
        BY <1>2, <3>1, <3>3 DEF CallIn
      <4>2. ~ (call[c].at \in Persisting /\ call[c].auth = call[d].auth)
        BY <1>1, <2>2, <3>3 DEF MutexHeld
      <4> QED
        BY <4>1, <4>2
    <3>4. CallIn(call[d], built', idp'.gen, overtaken')
      BY <1>2, <1>3, <3>1, <3>2, <3>3, CallGrows
    <3> QED
      BY <1>4, <2>2, <3>4
  <2> QED
    BY <2>1, <2>2
<1>11. MutexHeld'
  BY <1>1, <1>4 DEF MutexHeld
<1> QED
  BY <1>7, <1>8, <1>9, <1>10, <1>11 DEF TokenInv, CallsOK

\* A call that has no unsaved pair, before or after, disturbs nobody's.
LEMMA QuietCall ==
  ASSUME TokenInv, NEW c \in Calls, NEW n \in CallRecords, call' = [call EXCEPT ![c] = n],
         UNCHANGED <<locked, row, idp, login, quiet>>,
         call[c].at \notin {"load", "store"}, n.at \notin {"load", "store"}, n.snap \in {call[c].snap, row},
         \A i \in DOMAIN built' :
            \/ i \in DOMAIN built /\ built'[i].id = built[i].id /\ built'[i].gen = built[i].gen
            \/ call[c].snap # None /\ built'[i].id = call[c].snap.id /\ built'[i].gen = call[c].snap.auth.gen
  PROVE  QuietInv'
<1> SUFFICES ASSUME quiet PROVE QuietInv'
  BY DEF QuietInv
<1>1. call \in [Calls -> CallRecords] /\ QuietInv
  BY Types DEF TokenInv
<1>2. call'[c] = n /\ \A d \in Calls \ {c} : call'[d] = call[d]
  BY <1>1
<1>3. Unsaved' = Unsaved /\ c \notin Unsaved
  BY <1>2 DEF Unsaved
<1>4. ASSUME NEW d \in Unsaved PROVE OnlyCopy(d)'
  <2>1. OnlyCopy(d) /\ d \in Calls /\ call'[d] = call[d]
    BY <1>1, <1>2, <1>3 DEF QuietInv, Unsaved
  <2>2. \A i \in DOMAIN built' : i # call[d].auth => built'[i].gen < idp.gen
    BY <2>1 DEF OnlyCopy
  <2>3. \A e \in Calls : call'[e].snap # None => call'[e].snap.auth.gen < idp.gen
    BY <1>2, <2>1 DEF OnlyCopy
  <2> QED
    BY <1>3, <2>1, <2>2, <2>3 DEF OnlyCopy
<1>5. \A i \in DOMAIN built' : built'[i].id = 1
  BY <1>1 DEF QuietInv
<1>6. \A d \in Calls : call'[d].snap # None => call'[d].snap.id = 1
  BY <1>1, <1>2 DEF QuietInv
<1> QED
  BY <1>1, <1>3, <1>4, <1>5, <1>6 DEF QuietInv

\* A step that moves one call and leaves everything else alone.
LEMMA CallOnly ==
  ASSUME TokenInv, NEW c \in Calls, NEW n \in CallRecords, call' = [call EXCEPT ![c] = n],
         UNCHANGED <<registryVars, idp, built, cached, login, quiet>>,
         n.auth <= Len(built), n.new <= idp.gen, n.sent <= idp.gen,
         CallIn(n, built, idp.gen, overtaken),
         n.at \in Persisting => call[c].at \in Persisting /\ n.auth = call[c].auth,
         QuietInv'
  PROVE  TokenInv'
<1>1. TypeOK /\ RegInv(idp.gen) /\ BuiltOK /\ MutexHeld
  BY DEF TokenInv
<1>2. RegInv(idp.gen)'
  BY <1>1 DEF RegInv, RegistryTypeOK, registryVars
<1>3. /\ idp \in [gen : 1 .. MaxGen, expired : 0 .. MaxGen] /\ idp.expired <= idp.gen /\ idp.gen \in Nat
      /\ built \in Seq(Authenticators) /\ Len(built) \in Nat /\ Len(built) <= MaxBuilt
      /\ \A i \in DOMAIN built : built[i].gen <= idp.gen
      /\ cached \in [1 .. MaxIds -> 0 .. Len(built)]
  BY <1>1, Types
<1>4. n.at \in Persisting => \A d \in Calls : d # c /\ call[d].at \in Persisting => call[d].auth # n.auth
  BY <1>1 DEF MutexHeld
<1>5. overtaken' = overtaken
  BY DEF registryVars
<1>6. \A i \in DOMAIN built : built[i].from.gen <= built[i].gen
  BY <1>1 DEF BuiltOK
<1>7. \A i \in 1 .. MaxIds : cached[i] # 0 => built[cached[i]].id = i
  BY <1>1 DEF BuiltOK
<1>8. /\ idp' \in [gen : 1 .. MaxGen, expired : 0 .. MaxGen] /\ idp'.expired <= idp'.gen /\ idp.gen <= idp'.gen
      /\ built' \in Seq(Authenticators) /\ Len(built) <= Len(built') /\ Len(built') <= MaxBuilt
      /\ cached' \in [1 .. MaxIds -> 0 .. Len(built')]
      /\ overtaken \subseteq overtaken'
  BY <1>3, <1>5
<1>9. \A i \in DOMAIN built' : built'[i].gen <= idp'.gen /\ built'[i].from.gen <= built'[i].gen
  BY <1>3, <1>6
<1>10. \A i \in DOMAIN built :
          /\ built'[i].from = built[i].from /\ built'[i].id = built[i].id
          /\ built[i].busy => built'[i].busy \/ (call[c].at \in Persisting /\ call[c].auth = i)
  OBVIOUS
<1>11. \A i \in 1 .. MaxIds : cached'[i] # 0 => built'[cached'[i]].id = i
  BY <1>7
<1>12. n.auth <= Len(built') /\ n.new <= idp'.gen /\ n.sent <= idp'.gen /\ CallIn(n, built', idp'.gen, overtaken')
  BY <1>5
<1>13. UNCHANGED <<login, quiet>>
  OBVIOUS
<1> QED
  BY ONLY TokenInv, c \in Calls, n \in CallRecords, call' = [call EXCEPT ![c] = n], QuietInv',
     <1>2, <1>4, <1>8, <1>9, <1>10, <1>11, <1>12, <1>13, CallMoves

\* Snapshot: the row is read.
LEMMA SnapshotKeeps ==
  ASSUME TokenInv, NEW c \in Calls, Snapshot(c)
  PROVE  TokenInv'
<1> DEFINE n == [call[c] EXCEPT !.at = "snap", !.snap = row]
<1>1. /\ call[c].at = "new" /\ row # None
      /\ call' = [call EXCEPT ![c].at = "snap", ![c].snap = row]
      /\ UNCHANGED <<registryVars, idp, built, cached, login, quiet>>
  BY DEF Snapshot
<1>2. TypeOK /\ RegInv(idp.gen) /\ CallsOK
  BY DEF TokenInv
<1>3. /\ row \in Rows \cup {None} /\ KeptIn(row, idp.gen, overtaken)
  BY <1>2 DEF RegInv, RegistryTypeOK
<1>4. call[c] = NewCall /\ call[c] \in CallRecords /\ idp.gen \in Nat /\ Len(built) \in Nat /\ call \in [Calls -> CallRecords]
  BY <1>1, <1>2, Types DEF CallsOK, CallIn
<1>5. /\ n.at = "snap" /\ n.snap = row /\ n.auth = 0 /\ n.new = 0 /\ n.load = None /\ n.sent = 0
  BY <1>4 DEF NewCall
<1>6. n \in CallRecords
  BY <1>3, <1>4 DEF CallRecords, States
<1>7. call' = [call EXCEPT ![c] = n]
  BY <1>1, <1>4 DEF CallRecords
<1> HIDE DEF n
<1>8. KeptIn(None, idp.gen, overtaken)
  BY DEF KeptIn
<1>9. CallIn(n, built, idp.gen, overtaken)
  BY <1>1, <1>3, <1>5, <1>8 DEF CallIn, Persisting
<1>10. QuietInv'
  <2>1. UNCHANGED <<locked, row, idp, login, quiet, built>>
    BY <1>1 DEF registryVars
  <2> QED
    BY <1>1, <1>5, <1>6, <1>7, <2>1, QuietCall
<1>11. n.auth <= Len(built) /\ n.new <= idp.gen /\ n.sent <= idp.gen /\ n.at \notin Persisting
  BY <1>4, <1>5 DEF Persisting
<1> QED
  BY <1>1, <1>6, <1>7, <1>9, <1>10, <1>11, CallOnly

\* Two configs of one fingerprint differ in the flag only.
LEMMA SameFingerprint ==
  ASSUME NEW a \in Creds, NEW b \in Creds, Fingerprint(a) = Fingerprint(b)
  PROVE  [a EXCEPT !.insecure = b.insecure] = b
<1>1. /\ a = [type |-> a.type, cfg |-> a.cfg, gen |-> a.gen, given |-> a.given, insecure |-> a.insecure]
      /\ b = [type |-> b.type, cfg |-> b.cfg, gen |-> b.gen, given |-> b.given, insecure |-> b.insecure]
  BY DEF Creds
<1>2. a.type = b.type /\ a.cfg = b.cfg /\ a.gen = b.gen /\ a.given = b.given
  <2>1. /\ Fingerprint(a).type = a.type /\ Fingerprint(a).cfg = a.cfg
        /\ Fingerprint(a).gen = a.gen /\ Fingerprint(a).given = a.given
    BY <1>1 DEF Fingerprint
  <2>2. /\ Fingerprint(b).type = b.type /\ Fingerprint(b).cfg = b.cfg
        /\ Fingerprint(b).gen = b.gen /\ Fingerprint(b).given = b.given
    BY <1>1 DEF Fingerprint
  <2> QED
    BY <2>1, <2>2
<1>3. [a EXCEPT !.insecure = b.insecure]
        = [type |-> a.type, cfg |-> a.cfg, gen |-> a.gen, given |-> a.given, insecure |-> b.insecure]
  BY <1>1
<1> QED
  BY <1>1, <1>2, <1>3

\* What a call that has an authenticator knows of it.
LEMMA CallFacts ==
  ASSUME TokenInv, NEW c \in Calls
  PROVE  /\ call[c] \in CallRecords /\ CallIn(call[c], built, idp.gen, overtaken)
         /\ call[c].snap # None => call[c].snap \in Rows /\ call[c].snap.auth \in Creds /\ call[c].snap.auth.gen \in Nat
                                   /\ call[c].snap.id \in 1 .. MaxIds
         /\ call[c].auth # 0 => call[c].auth \in DOMAIN built /\ built[call[c].auth].from.gen = call[c].snap.auth.gen
<1>1. TypeOK /\ CallsOK
  BY DEF TokenInv
<1>2. /\ call[c] \in CallRecords /\ call[c].snap \in Rows \cup {None}
      /\ call[c].auth # 0 => call[c].auth \in DOMAIN built
      /\ \A i \in DOMAIN built : built[i].from \in Creds
  BY <1>1, Types
<1>3. CallIn(call[c], built, idp.gen, overtaken)
  BY <1>1 DEF CallsOK
<1>4. call[c].snap # None => call[c].snap \in Rows /\ call[c].snap.auth \in Creds /\ call[c].snap.id \in 1 .. MaxIds
  BY <1>2 DEF Rows
<1>5. call[c].snap # None => call[c].snap.auth.gen \in Nat
  BY <1>4 DEF Creds
<1>6. ASSUME call[c].auth # 0 PROVE built[call[c].auth].from.gen = call[c].snap.auth.gen
  <2> DEFINE a == built[call[c].auth].from
             b == call[c].snap.auth
  <2>1. a \in Creds /\ [a EXCEPT !.insecure = b.insecure] = b
    BY <1>2, <1>3, <1>6 DEF CallIn
  <2>2. [a EXCEPT !.insecure = b.insecure].gen = a.gen
    BY <2>1 DEF Creds
  <2> QED
    BY <2>1, <2>2
<1> QED
  BY <1>2, <1>3, <1>4, <1>5, <1>6

\* ApplyStatic, ApplyFresh, ApplyFails: the call ends, with nothing or with its
\* authenticator's token.
LEMMA ApplyEndsCall ==
  ASSUME TokenInv, NEW c \in Calls, NEW sent \in Nat, call[c].at = "apply",
         sent # 0 => sent = built[call[c].auth].gen,
         call' = [call EXCEPT ![c].at = "done", ![c].sent = sent],
         UNCHANGED <<registryVars, idp, built, cached, login, quiet>>
  PROVE  TokenInv'
<1> DEFINE k == call[c]
           n == [k EXCEPT !.at = "done", !.sent = sent]
<1>1. /\ k \in CallRecords /\ CallIn(k, built, idp.gen, overtaken) /\ k.auth # 0
      /\ k.snap.auth.gen \in Nat
      /\ k.auth \in DOMAIN built /\ built[k.auth].from.gen = k.snap.auth.gen
  BY CallFacts DEF CallIn
<1>2. TypeOK /\ BuiltOK
  BY DEF TokenInv
<1>3. /\ call \in [Calls -> CallRecords] /\ built[k.auth].gen \in Nat /\ built[k.auth].gen <= idp.gen
      /\ k.auth <= Len(built) /\ k.new <= idp.gen /\ idp.gen \in Nat
  BY <1>1, <1>2, Types
<1>4. built[k.auth].gen >= k.snap.auth.gen
  BY <1>1, <1>2, <1>3 DEF BuiltOK
<1>5. /\ n \in CallRecords /\ n.at = "done" /\ n.sent = sent /\ n.snap = k.snap /\ n.auth = k.auth
      /\ n.new = k.new /\ n.load = k.load
  BY <1>1 DEF CallRecords, States
<1>6. call' = [call EXCEPT ![c] = n]
  BY <1>3 DEF CallRecords
<1> HIDE DEF n
<1>7. n.sent # 0 => n.sent >= n.snap.auth.gen
  BY <1>4, <1>5
<1>8. CallIn(n, built, idp.gen, overtaken)
  BY <1>1, <1>5, <1>7 DEF CallIn, Persisting
<1>9. QuietInv'
  <2>1. UNCHANGED <<locked, row, idp, login, quiet, built>>
    BY DEF registryVars
  <2>2. k.at \notin {"load", "store"} /\ n.at \notin {"load", "store"} /\ n.snap \in {k.snap, row}
    BY <1>5
  <2> QED
    BY <1>5, <1>6, <2>1, <2>2, QuietCall
<1>10. n.auth <= Len(built) /\ n.new <= idp.gen /\ n.sent <= idp.gen /\ n.at \notin Persisting
  BY <1>3, <1>5 DEF Persisting
<1> QED
  BY <1>5, <1>6, <1>8, <1>9, <1>10, CallOnly

\* The three ends of Apply without a refresh keep the invariant.
LEMMA ApplyKeeps ==
  ASSUME TokenInv, NEW c \in Calls, ApplyStatic(c) \/ ApplyFresh(c) \/ ApplyFails(c)
  PROVE  TokenInv'
<1>1. call[c].at = "apply"
  BY DEF ApplyStatic, ApplyFresh, ApplyFails, Applying
<1>2. /\ call \in [Calls -> CallRecords] /\ call[c] \in CallRecords /\ call[c].sent = 0 /\ call[c].auth # 0
      /\ \A i \in DOMAIN built : built[i].gen \in Nat
      /\ call[c].auth \in DOMAIN built
  BY <1>1, Types, CallFacts DEF TokenInv, CallIn
<1>3. CASE ApplyStatic(c)
  <2>1. call' = [call EXCEPT ![c].at = "done", ![c].sent = 0]
    <3>1. [call[c] EXCEPT !.at = "done"] = [call[c] EXCEPT !.at = "done", !.sent = 0]
      BY <1>2 DEF CallRecords
    <3> QED
      BY <1>2, <1>3, <3>1 DEF ApplyStatic
  <2>2. UNCHANGED <<registryVars, idp, built, cached, login, quiet>>
    BY <1>3 DEF ApplyStatic
  <2> QED
    BY <1>1, <2>1, <2>2, ApplyEndsCall
<1>4. CASE ApplyFresh(c)
  BY <1>1, <1>2, <1>4, ApplyEndsCall DEF ApplyFresh
<1>5. CASE ApplyFails(c)
  <2>1. /\ call' = [call EXCEPT ![c].at = "done", ![c].sent = 0]
        /\ UNCHANGED <<registryVars, idp, built, cached, login, quiet>>
    BY <1>5 DEF ApplyFails
  <2> QED
    BY <1>1, <2>1, ApplyEndsCall
<1> QED
  BY <1>3, <1>4, <1>5

\* A call with its authenticator.
LEMMA CallWithAuth ==
  ASSUME NEW k \in CallRecords, NEW i \in Nat
  PROVE  LET n == [k EXCEPT !.at = "apply", !.auth = i]
         IN /\ n \in CallRecords /\ n.at = "apply" /\ n.auth = i
            /\ n.snap = k.snap /\ n.sent = k.sent /\ n.new = k.new /\ n.load = k.load
BY DEF CallRecords, States

\* managedFor: a hit was built from the caller's config, and so is a new entry.
LEMMA ManagedForKeeps ==
  ASSUME TokenInv, NEW c \in Calls, ManagedFor(c)
  PROVE  TokenInv'
<1> DEFINE k == call[c]
           s == k.snap
<1>1. k.at = "snap" /\ UNCHANGED <<registryVars, idp, login, quiet>>
  BY DEF ManagedFor
<1>2. /\ k \in CallRecords /\ CallIn(k, built, idp.gen, overtaken) /\ k.auth = 0 /\ k.sent = 0 /\ s # None
      /\ s \in Rows /\ s.auth \in Creds /\ s.auth.gen \in Nat /\ s.id \in 1 .. MaxIds
  BY <1>1, CallFacts DEF CallIn
<1>3. TypeOK /\ BuiltOK /\ RegInv(idp.gen)
  BY DEF TokenInv
<1>4. /\ idp \in [gen : 1 .. MaxGen, expired : 0 .. MaxGen] /\ idp.gen \in Nat /\ idp.expired <= idp.gen
      /\ built \in Seq(Authenticators) /\ Len(built) \in Nat /\ Len(built) <= MaxBuilt
      /\ DOMAIN built = 1 .. Len(built)
      /\ \A i \in DOMAIN built : built[i] \in Authenticators /\ built[i].from \in Creds /\ built[i].gen <= idp.gen
      /\ cached \in [1 .. MaxIds -> 0 .. Len(built)]
      /\ call \in [Calls -> CallRecords]
      /\ k.auth \in Nat /\ k.auth <= Len(built) /\ k.new <= idp.gen /\ k.sent <= idp.gen
  BY <1>3, Types
<1>5. k.at \notin {"load", "store"} /\ UNCHANGED <<locked, row, idp, login, quiet>>
  BY <1>1 DEF registryVars
<1>6. ASSUME NEW i \in DOMAIN built, built[i].id = s.id, Fingerprint(built[i].from) = Fingerprint(s.auth),
             call' = [call EXCEPT ![c].at = "apply", ![c].auth = i], UNCHANGED <<built, cached>>
      PROVE  TokenInv'
  <2> DEFINE n == [k EXCEPT !.at = "apply", !.auth = i]
  <2>1. /\ n \in CallRecords /\ n.at = "apply" /\ n.auth = i /\ n.snap = s /\ n.sent = k.sent
        /\ n.new = k.new /\ n.load = k.load
    <3>1. i \in Nat
      BY <1>4
    <3> QED
      BY <1>2, <3>1, CallWithAuth
  <2>2. call' = [call EXCEPT ![c] = n]
    BY <1>4, <1>6 DEF CallRecords
  <2> HIDE DEF n
  <2>3. [built[i].from EXCEPT !.insecure = s.auth.insecure] = s.auth
    BY <1>2, <1>4, <1>6, SameFingerprint
  <2>4. i \in Nat /\ i # 0 /\ i <= Len(built)
    BY <1>4
  <2>5. CallIn(n, built, idp.gen, overtaken)
    BY <1>2, <1>6, <2>1, <2>3, <2>4 DEF CallIn, Persisting
  <2>6. QuietInv'
    BY <1>5, <1>6, <2>1, <2>2, QuietCall
  <2>7. n.auth <= Len(built) /\ n.new <= idp.gen /\ n.sent <= idp.gen /\ n.at \notin Persisting
    BY <1>4, <2>1, <2>4 DEF Persisting
  <2> QED
    BY <1>1, <1>6, <2>1, <2>2, <2>5, <2>6, <2>7, CallOnly
<1>7. ASSUME Hit(s), call' = [call EXCEPT ![c].at = "apply", ![c].auth = cached[s.id]], UNCHANGED <<built, cached>>
      PROVE  TokenInv'
  <2>1. cached[s.id] # 0 /\ Fingerprint(built[cached[s.id]].from) = Fingerprint(s.auth)
    BY <1>7 DEF Hit
  <2>2. cached[s.id] \in DOMAIN built
    BY <1>2, <1>4, <2>1
  <2>3. built[cached[s.id]].id = s.id
    BY <1>2, <1>3, <2>1 DEF BuiltOK
  <2> QED
    BY <1>6, <1>7, <2>1, <2>2, <2>3
<1>8. ASSUME call' = [call EXCEPT ![c].at = "done"], UNCHANGED <<built, cached>>
      PROVE  TokenInv'
  <2> DEFINE n == [k EXCEPT !.at = "done"]
  <2>1. /\ n \in CallRecords /\ n.at = "done" /\ n.auth = 0 /\ n.snap = s /\ n.sent = 0
        /\ n.new = k.new /\ n.load = k.load
    BY <1>2, <1>4 DEF CallRecords, States
  <2>2. call' = [call EXCEPT ![c] = n]
    BY <1>4, <1>8 DEF CallRecords
  <2> HIDE DEF n
  <2>3. CallIn(n, built, idp.gen, overtaken)
    BY <1>2, <2>1 DEF CallIn, Persisting
  <2>4. QuietInv'
    BY <1>5, <1>8, <2>1, <2>2, QuietCall
  <2>5. n.auth <= Len(built) /\ n.new <= idp.gen /\ n.sent <= idp.gen /\ n.at \notin Persisting
    BY <1>4, <2>1 DEF Persisting
  <2> QED
    BY <1>1, <1>8, <2>1, <2>2, <2>3, <2>4, <2>5, CallOnly
<1>9. ASSUME Len(built) < MaxBuilt,
             built' = Append(built, [id |-> s.id, from |-> s.auth, gen |-> s.auth.gen, busy |-> FALSE]),
             cached' = [cached EXCEPT ![s.id] = Len(built) + 1],
             call' = [call EXCEPT ![c].at = "apply", ![c].auth = Len(built) + 1]
      PROVE  TokenInv'
  <2> DEFINE a   == [id |-> s.id, from |-> s.auth, gen |-> s.auth.gen, busy |-> FALSE]
             top == Len(built) + 1
             n   == [k EXCEPT !.at = "apply", !.auth = top]
  <2>1. a \in Authenticators /\ a.id = s.id /\ a.from = s.auth /\ a.gen = s.auth.gen
    BY <1>2 DEF Authenticators
  <2>2. built' = Append(built, a)
    BY <1>9
  <2> HIDE DEF a
  <2>3. /\ built' \in Seq(Authenticators) /\ Len(built') = top /\ DOMAIN built' = 1 .. top
        /\ built'[top] = a /\ \A i \in DOMAIN built : built'[i] = built[i]
    BY <1>4, <2>1, <2>2
  <2>4. top \in Nat /\ top # 0 /\ top <= MaxBuilt /\ \A i \in DOMAIN built' : i = top \/ i \in DOMAIN built
    BY <1>4, <1>9, <2>3, TokenAssumption
  <2>5. /\ n \in CallRecords /\ n.at = "apply" /\ n.auth = top /\ n.snap = s /\ n.sent = 0
        /\ n.new = k.new /\ n.load = k.load
    BY <1>2, <2>4, CallWithAuth
  <2>6. call' = [call EXCEPT ![c] = n]
    BY <1>4, <1>9 DEF CallRecords
  <2> HIDE DEF n
  <2>7. s.auth.gen <= idp.gen
    BY <1>2 DEF CallIn, KeptIn
  <2>8. \A i \in DOMAIN built' : built'[i].gen <= idp.gen /\ built'[i].from.gen <= built'[i].gen
    BY <1>2, <1>3, <1>4, <2>1, <2>3, <2>4, <2>7 DEF BuiltOK
  <2>9. cached' \in [1 .. MaxIds -> 0 .. Len(built')]
    BY <1>2, <1>4, <1>9, <2>3, <2>4
  <2>10. \A i \in 1 .. MaxIds : cached'[i] # 0 => built'[cached'[i]].id = i
    <3> TAKE i \in 1 .. MaxIds
    <3>1. CASE i = s.id
      BY <1>2, <1>4, <1>9, <2>1, <2>3, <3>1
    <3>2. CASE i # s.id
      <4>1. cached'[i] = cached[i]
        BY <1>4, <1>9, <3>2
      <4>2. cached[i] # 0 => cached[i] \in DOMAIN built /\ built[cached[i]].id = i
        BY <1>3, <1>4 DEF BuiltOK
      <4> QED
        BY <2>3, <4>1, <4>2
    <3> QED
      BY <3>1, <3>2
  <2>11. CallIn(n, built', idp.gen, overtaken)
    <3>1. [s.auth EXCEPT !.insecure = s.auth.insecure] = s.auth
      BY <1>2, SameFingerprint
    <3> QED
      BY <1>2, <2>1, <2>3, <2>4, <2>5, <3>1 DEF CallIn, Persisting
  <2>12. QuietInv'
    <3>1. \A i \in DOMAIN built' :
             \/ i \in DOMAIN built /\ built'[i].id = built[i].id /\ built'[i].gen = built[i].gen
             \/ k.snap # None /\ built'[i].id = k.snap.id /\ built'[i].gen = k.snap.auth.gen
      BY <1>2, <2>1, <2>3, <2>4
    <3>2. n.at \notin {"load", "store"} /\ n.snap \in {k.snap, row}
      BY <2>5
    <3> QED
      BY <1>5, <2>5, <2>6, <3>1, <3>2, QuietCall
  <2>13. RegInv(idp.gen)' /\ overtaken' = overtaken
    BY <1>1, <1>3 DEF RegInv, RegistryTypeOK, registryVars
  <2>14. /\ idp' \in [gen : 1 .. MaxGen, expired : 0 .. MaxGen] /\ idp'.expired <= idp'.gen /\ idp.gen <= idp'.gen
         /\ Len(built) <= Len(built') /\ Len(built') <= MaxBuilt /\ overtaken \subseteq overtaken'
         /\ n.auth <= Len(built') /\ n.new <= idp'.gen /\ n.sent <= idp'.gen /\ n.at \notin Persisting
         /\ UNCHANGED <<login, quiet>>
    BY <1>1, <1>4, <2>3, <2>4, <2>5, <2>13 DEF Persisting
  <2>15. \A i \in DOMAIN built' : built'[i].gen <= idp'.gen /\ built'[i].from.gen <= built'[i].gen
    BY <1>5, <2>8
  <2>16. CallIn(n, built', idp'.gen, overtaken')
    BY <1>5, <2>11, <2>13
  <2>17. \A i \in DOMAIN built :
            /\ built'[i].from = built[i].from /\ built'[i].id = built[i].id
            /\ built[i].busy => built'[i].busy \/ (call[c].at \in Persisting /\ call[c].auth = i)
    BY <2>3
  <2> QED
    BY <2>3, <2>5, <2>6, <2>9, <2>10, <2>12, <2>13, <2>14, <2>15, <2>16, <2>17, CallMoves
<1> QED
  BY <1>7, <1>8, <1>9 DEF ManagedFor

\* persistOAuthTokens: new tokens on the credential that was loaded leave its
\* address alone (WithTokens, SetAuth).
LEMMA StoreKeeps ==
  ASSUME NEW g \in Nat, RegInv(g), NEW snap \in Rows, snap # None, KeptIn(snap, g, overtaken), NEW gen \in Nat, gen <= g,
         SetAuth(snap, WithTokens(snap.auth, gen)), UNCHANGED <<locked, nextId, editor, importer>>
  PROVE  /\ RegInv(g)' /\ overtaken \subseteq overtaken'
         /\ row = None <=> row' = None
         /\ row # None => row'.id = row.id
<1> DEFINE auth == WithTokens(snap.auth, gen)
<1>1. /\ auth \in Creds /\ auth.gen = gen /\ auth.given = snap.auth.given /\ auth.insecure = snap.auth.insecure
  <2>1. snap.auth \in Creds
    BY DEF Rows
  <2> QED
    BY <2>1 DEF WithTokens, Creds
<1>2. snap.id \notin overtaken => auth.given = snap.base /\ (auth.insecure => ToldUnchecked(snap.base))
  BY <1>1 DEF KeptIn
<1>3. RegistryTypeOK /\ KeptIn(row, g, overtaken) /\ row \in Rows \cup {None} /\ overtaken \subseteq 1 .. MaxIds
  BY DEF RegInv, RegistryTypeOK
<1> HIDE DEF auth
<1>4. /\ row' \in Rows \cup {None} /\ overtaken' \subseteq 1 .. MaxIds
      /\ KeptIn(row', g, overtaken') /\ overtaken \subseteq overtaken'
      /\ row = None <=> row' = None
      /\ row # None => row'.id = row.id
  <2>1. SetAuth(snap, auth) /\ auth.gen <= g
    BY <1>1 DEF auth
  <2> QED
    BY <1>1, <1>2, <1>3, <2>1, SetAuthFacts
<1>5. RegistryTypeOK'
  BY <1>3, <1>4 DEF RegistryTypeOK
<1>6. ASSUME NEW e \in Editors
      PROVE  KeptIn(editor'[e].snap, g, overtaken') /\ (editor'[e].at = "loaded" => editor'[e].snap # None)
  BY <1>4 DEF RegInv, KeptIn
<1> QED
  BY <1>4, <1>5, <1>6 DEF RegInv

\* Apply refreshes: the mutex was free, so nobody else has an unsaved pair of
\* this authenticator; and no other authenticator has the latest one.
LEMMA ApplyRefreshKeeps ==
  ASSUME TokenInv, NEW c \in Calls, ApplyRefresh(c)
  PROVE  TokenInv'
<1> DEFINE k == call[c]
           i == k.auth
           g == idp.gen + 1
           n == [k EXCEPT !.at = "load", !.new = g]
           a == [built[i] EXCEPT !.gen = g, !.busy = TRUE]
<1>1. /\ k.at = "apply" /\ ~ built[i].busy /\ built[i].gen = idp.gen /\ idp.gen < MaxGen
      /\ idp' = [idp EXCEPT !.gen = @ + 1]
      /\ built' = [built EXCEPT ![i].gen = idp.gen + 1, ![i].busy = TRUE]
      /\ call' = [call EXCEPT ![c].at = "load", ![c].new = idp.gen + 1]
      /\ UNCHANGED <<registryVars, cached, login, quiet>>
  BY DEF ApplyRefresh, Applying
<1>2. TypeOK /\ BuiltOK /\ RegInv(idp.gen) /\ CallsOK /\ QuietInv
  BY DEF TokenInv
<1>3. /\ idp \in [gen : 1 .. MaxGen, expired : 0 .. MaxGen] /\ idp.gen \in Nat /\ idp.expired \in Nat
      /\ idp.expired <= idp.gen
      /\ built \in Seq(Authenticators) /\ Len(built) \in Nat /\ Len(built) <= MaxBuilt
      /\ DOMAIN built = 1 .. Len(built)
      /\ \A j \in DOMAIN built : built[j] \in Authenticators /\ built[j].gen \in Nat /\ built[j].from.gen \in Nat /\ built[j].gen <= idp.gen
      /\ cached \in [1 .. MaxIds -> 0 .. Len(built)]
      /\ call \in [Calls -> CallRecords]
      /\ k.auth \in Nat /\ k.auth <= Len(built) /\ k.sent <= idp.gen
  BY <1>2, Types
<1>4. /\ k \in CallRecords /\ CallIn(k, built, idp.gen, overtaken) /\ k.auth # 0 /\ k.sent = 0 /\ k.snap # None
      /\ k.snap.auth.gen \in Nat /\ k.snap.auth.gen <= idp.gen
      /\ i \in DOMAIN built
  BY <1>1, CallFacts DEF CallIn, KeptIn
<1>5. /\ g \in Nat /\ g \in 1 .. MaxGen /\ idp.gen < g
      /\ idp' \in [gen : 1 .. MaxGen, expired : 0 .. MaxGen] /\ idp'.gen = g /\ idp'.expired = idp.expired
      /\ idp'.expired <= idp'.gen /\ idp.gen <= idp'.gen
  BY <1>1, <1>3, TokenAssumption
<1>6. /\ a \in Authenticators /\ a.gen = g /\ a.busy = TRUE /\ a.id = built[i].id /\ a.from = built[i].from
  BY <1>3, <1>4, <1>5 DEF Authenticators
<1>7. built' = [built EXCEPT ![i] = a]
  BY <1>1, <1>3, <1>4 DEF Authenticators
<1>8. /\ n \in CallRecords /\ n.at = "load" /\ n.new = g /\ n.auth = i /\ n.snap = k.snap /\ n.load = k.load /\ n.sent = 0
  BY <1>4, <1>5 DEF CallRecords, States
<1>9. call' = [call EXCEPT ![c] = n]
  BY <1>1, <1>3 DEF CallRecords
<1> HIDE DEF a, n, g
<1>10. /\ built' \in Seq(Authenticators) /\ Len(built') = Len(built) /\ DOMAIN built' = DOMAIN built
       /\ built'[i] = a /\ \A j \in DOMAIN built \ {i} : built'[j] = built[j]
  BY <1>3, <1>4, <1>6, <1>7
<1>11. \A j \in DOMAIN built' : built'[j].gen <= idp'.gen /\ built'[j].from.gen <= built'[j].gen
  <2> TAKE j \in DOMAIN built'
  <2>1. built[j].from.gen <= built[j].gen /\ j \in DOMAIN built
    BY <1>2, <1>10 DEF BuiltOK
  <2>2. CASE j = i
    BY <1>3, <1>5, <1>6, <1>10, <2>1, <2>2
  <2>3. CASE j # i
    BY <1>3, <1>5, <1>10, <2>1, <2>3
  <2> QED
    BY <2>2, <2>3
<1>12. \A j \in DOMAIN built :
          /\ built'[j].from = built[j].from /\ built'[j].id = built[j].id
          /\ built[j].busy => built'[j].busy \/ (call[c].at \in Persisting /\ call[c].auth = j)
  BY <1>6, <1>10
<1>13. cached' \in [1 .. MaxIds -> 0 .. Len(built')]
  BY <1>1, <1>3, <1>10
<1>14. \A j \in 1 .. MaxIds : cached'[j] # 0 => built'[cached'[j]].id = j
  <2> TAKE j \in 1 .. MaxIds
  <2>1. cached'[j] = cached[j] /\ (cached[j] # 0 => cached[j] \in DOMAIN built)
    BY <1>1, <1>3
  <2> QED
    BY <1>2, <1>12, <2>1 DEF BuiltOK
<1>15. CallIn(n, built', idp'.gen, overtaken')
  <2>1. overtaken' = overtaken
    BY <1>1 DEF registryVars
  <2>2. k.snap \in Rows \cup {None} /\ k.load \in Rows \cup {None}
    BY <1>4 DEF CallRecords
  <2>3. KeptIn(k.snap, idp'.gen, overtaken) /\ KeptIn(k.load, idp'.gen, overtaken)
    BY <1>3, <1>4, <1>5, <2>2, KeptGrows DEF CallIn
  <2>4. n.new >= n.snap.auth.gen
    BY <1>3, <1>4, <1>5, <1>8
  <2> QED
    BY <1>4, <1>6, <1>8, <1>10, <2>1, <2>3, <2>4 DEF CallIn, Persisting
<1>16. \A d \in Calls : d # c /\ call[d].at \in Persisting => call[d].auth # n.auth
  BY <1>1, <1>2, <1>8 DEF CallsOK, CallIn
<1>17. QuietInv'
  <2> SUFFICES ASSUME quiet PROVE QuietInv'
    BY <1>1 DEF QuietInv
  <2>1. Unsaved = {}
    <3>1. ASSUME NEW d \in Unsaved PROVE FALSE
      <4>1. d \in Calls /\ call[d].at \in Persisting /\ OnlyCopy(d)
        BY <1>2, <3>1 DEF QuietInv, Unsaved, Persisting
      <4>2. built[call[d].auth].busy
        BY <1>2, <4>1 DEF CallsOK, CallIn
      <4>3. built[i].gen < idp.gen
        BY <1>1, <1>4, <4>1, <4>2 DEF OnlyCopy
      <4> QED
        BY <1>1, <1>3, <4>3
    <3> QED
      BY <3>1
  <2>2. Unsaved' = {c} /\ call'[c] = n /\ \A d \in Calls \ {c} : call'[d] = call[d]
    BY <1>3, <1>8, <1>9, <2>1 DEF Unsaved
  <2>3. UNCHANGED <<locked, row, login, quiet>>
    BY <1>1 DEF registryVars
  <2>4. row.auth.gen < idp'.gen
    BY <1>2, <1>3, <1>5, <2>1 DEF QuietInv
  <2>5. \A j \in DOMAIN built' : j # n.auth => built'[j].gen < idp'.gen
    BY <1>3, <1>5, <1>8, <1>10
  <2>6. ASSUME NEW d \in Calls PROVE call'[d].snap # None => call'[d].snap.auth.gen < idp'.gen /\ call'[d].snap.id = 1
    <3>1. call'[d].snap = call[d].snap
      BY <1>8, <2>2
    <3>2. call[d].snap # None => call[d].snap.auth.gen \in Nat /\ call[d].snap.auth.gen <= idp.gen /\ call[d].snap.id = 1
      BY <1>2, CallFacts DEF CallIn, KeptIn, QuietInv
    <3> QED
      BY <1>3, <1>5, <3>1, <3>2
  <2>7. OnlyCopy(c)'
    BY <1>5, <1>8, <2>2, <2>3, <2>4, <2>5, <2>6 DEF OnlyCopy
  <2>8. \A j \in DOMAIN built' : built'[j].id = 1
    BY <1>2, <1>10, <1>12 DEF QuietInv
  <2> QED
    BY <1>2, <2>2, <2>3, <2>6, <2>7, <2>8 DEF QuietInv
<1>18. RegInv(idp.gen)' /\ overtaken \subseteq overtaken'
  <2>1. UNCHANGED registryVars
    BY <1>1
  <2>2. row \in Rows \cup {None} /\ \A e \in Editors : editor[e].snap \in Rows \cup {None}
    BY <1>2 DEF RegInv, RegistryTypeOK
  <2>3. KeptIn(row, idp'.gen, overtaken) /\ \A e \in Editors : KeptIn(editor[e].snap, idp'.gen, overtaken)
    BY <1>2, <1>3, <1>5, <2>2, KeptGrows DEF RegInv
  <2> QED
    BY <1>2, <2>1, <2>3 DEF RegInv, RegistryTypeOK, registryVars
<1>19. /\ Len(built) <= Len(built') /\ Len(built') <= MaxBuilt
       /\ n.auth <= Len(built') /\ n.new <= idp'.gen /\ n.sent <= idp'.gen /\ UNCHANGED <<login, quiet>>
  BY <1>1, <1>3, <1>5, <1>8, <1>10
<1> QED
  BY <1>5, <1>8, <1>9, <1>10, <1>11, <1>12, <1>13, <1>14, <1>15, <1>16, <1>17, <1>18, <1>19, CallMoves

\* persistOAuthTokens loads the row: in quiet times it is there.
LEMMA PersistLoadKeeps ==
  ASSUME TokenInv, NEW c \in Calls, PersistLoad(c)
  PROVE  TokenInv'
<1> DEFINE k    == call[c]
           gone == locked \/ ~ HasId(built[k.auth].id)
           at   == IF gone THEN "release" ELSE "store"
           load == IF gone THEN None ELSE row
           n    == [k EXCEPT !.at = at, !.load = load]
<1>1. /\ k.at = "load" /\ UNCHANGED <<registryVars, idp, built, cached, login, quiet>>
      /\ call' = [call EXCEPT ![c].at = at, ![c].load = load]
  BY DEF PersistLoad
<1>2. TypeOK /\ RegInv(idp.gen) /\ QuietInv
  BY DEF TokenInv
<1>3. row \in Rows \cup {None} /\ KeptIn(row, idp.gen, overtaken)
  BY <1>2 DEF RegInv, RegistryTypeOK
<1>4. /\ k \in CallRecords /\ CallIn(k, built, idp.gen, overtaken) /\ k.auth # 0 /\ k.sent = 0
      /\ k.auth \in DOMAIN built
  BY <1>1, CallFacts DEF CallIn, Persisting
<1>5. /\ call \in [Calls -> CallRecords] /\ k.auth <= Len(built) /\ k.new <= idp.gen /\ k.sent <= idp.gen
  BY <1>2, Types
<1>6. /\ at \in {"release", "store"} /\ load \in Rows \cup {None} /\ KeptIn(load, idp.gen, overtaken)
      /\ at = "store" => load # None /\ load = row
  BY <1>3 DEF KeptIn, HasId
<1> HIDE DEF at, load
<1>7. /\ n \in CallRecords /\ n.at = at /\ n.load = load /\ n.auth = k.auth /\ n.snap = k.snap /\ n.new = k.new /\ n.sent = k.sent
  BY <1>4, <1>6 DEF CallRecords, States
<1>8. call' = [call EXCEPT ![c] = n]
  BY <1>1, <1>5 DEF CallRecords
<1> HIDE DEF n
<1>9. CallIn(n, built, idp.gen, overtaken)
  BY <1>1, <1>4, <1>6, <1>7 DEF CallIn, Persisting
<1>10. QuietInv'
  <2> SUFFICES ASSUME quiet PROVE QuietInv'
    BY <1>1 DEF QuietInv
  <2>1. c \in Unsaved /\ OnlyCopy(c) /\ ~ gone
    BY <1>1, <1>2, <1>4 DEF QuietInv, Unsaved, HasId
  <2>2. n.at = "store" /\ n.load = row
    BY <1>6, <1>7, <2>1 DEF at
  <2>3. call'[c] = n /\ \A d \in Calls \ {c} : call'[d] = call[d]
    BY <1>5, <1>8
  <2>4. Unsaved' = {c} /\ \A d \in Unsaved : d = c
    BY <2>1, <2>2, <2>3 DEF Unsaved, OnlyCopy
  <2>5. \A d \in Calls : call'[d].snap = call[d].snap
    BY <1>7, <2>3
  <2>6. UNCHANGED <<locked, row, login, quiet, idp, built>>
    BY <1>1 DEF registryVars
  <2>7. OnlyCopy(c)'
    BY <1>7, <2>1, <2>2, <2>3, <2>4, <2>5, <2>6 DEF OnlyCopy
  <2> QED
    BY <1>2, <2>4, <2>5, <2>6, <2>7 DEF QuietInv
<1>11. n.auth <= Len(built) /\ n.new <= idp.gen /\ n.sent <= idp.gen /\ k.at \in Persisting /\ n.auth = k.auth
  BY <1>1, <1>5, <1>7 DEF Persisting
<1> QED
  BY <1>1, <1>7, <1>8, <1>9, <1>10, <1>11, CallOnly

\* persistOAuthTokens stores: in quiet times the row gets the latest pair.
LEMMA PersistStoreKeeps ==
  ASSUME TokenInv, NEW c \in Calls, PersistStore(c)
  PROVE  TokenInv'
<1> DEFINE k == call[c]
           n == [k EXCEPT !.at = "release", !.load = None]
<1>1. /\ k.at = "store" /\ SetAuth(k.load, WithTokens(k.load.auth, k.new))
      /\ call' = [call EXCEPT ![c].at = "release", ![c].load = None]
      /\ UNCHANGED <<locked, nextId, editor, importer, idp, built, cached, login, quiet>>
  BY DEF PersistStore
<1>2. TypeOK /\ RegInv(idp.gen) /\ QuietInv /\ BuiltOK /\ MutexHeld
  BY DEF TokenInv
<1>3. /\ k \in CallRecords /\ CallIn(k, built, idp.gen, overtaken) /\ k.auth # 0 /\ k.sent = 0 /\ k.load # None
      /\ k.auth \in DOMAIN built
  BY <1>1, CallFacts DEF CallIn, Persisting
<1>4. /\ call \in [Calls -> CallRecords] /\ k.auth \in Nat /\ k.auth <= Len(built) /\ k.new <= idp.gen /\ k.sent <= idp.gen
      /\ k.new \in Nat /\ k.load \in Rows \cup {None}
      /\ idp \in [gen : 1 .. MaxGen, expired : 0 .. MaxGen] /\ idp.expired <= idp.gen /\ idp.gen \in Nat
      /\ built \in Seq(Authenticators) /\ Len(built) \in Nat /\ Len(built) <= MaxBuilt
      /\ \A i \in DOMAIN built : built[i].gen <= idp.gen
      /\ cached \in [1 .. MaxIds -> 0 .. Len(built)]
  BY <1>2, Types
<1>5. k.load \in Rows /\ KeptIn(k.load, idp.gen, overtaken)
  BY <1>3, <1>4 DEF CallIn
<1>6. /\ RegInv(idp.gen)' /\ overtaken \subseteq overtaken'
      /\ row = None <=> row' = None
      /\ row # None => row'.id = row.id
  <2> DEFINE g == idp.gen
  <2>1. g \in Nat /\ RegInv(g) /\ KeptIn(k.load, g, overtaken) /\ k.new <= g
    BY <1>2, <1>4, <1>5
  <2> HIDE DEF g
  <2>2. /\ RegInv(g)' /\ overtaken \subseteq overtaken'
        /\ row = None <=> row' = None
        /\ row # None => row'.id = row.id
    <3>1. \A h \in Nat : RegInv(h) /\ KeptIn(k.load, h, overtaken) /\ k.new <= h =>
              /\ RegInv(h)' /\ overtaken \subseteq overtaken'
              /\ row = None <=> row' = None
              /\ row # None => row'.id = row.id
      BY <1>1, <1>3, <1>4, <1>5, StoreKeeps
    <3>2. idp' = idp
      BY <1>1
    <3> QED
      BY <2>1, <3>1, <3>2 DEF RegInv, g
  <2> QED
    BY <2>2 DEF g
<1>7. /\ n \in CallRecords /\ n.at = "release" /\ n.load = None /\ n.auth = k.auth /\ n.snap = k.snap /\ n.new = k.new /\ n.sent = k.sent
  BY <1>3 DEF CallRecords, States
<1>8. call' = [call EXCEPT ![c] = n]
  BY <1>1, <1>4 DEF CallRecords
<1> HIDE DEF n
<1>9. CallIn(n, built', idp'.gen, overtaken')
  <2>1. k.snap \in Rows \cup {None}
    BY <1>3 DEF CallRecords
  <2>2. KeptIn(k.snap, idp.gen, overtaken') /\ KeptIn(None, idp.gen, overtaken')
    BY <1>3, <1>6, <2>1 DEF CallIn, KeptIn
  <2>3. CallIn(n, built, idp.gen, overtaken')
    BY <1>1, <1>3, <1>7, <2>2 DEF CallIn, Persisting
  <2> QED
    BY <1>1, <2>3
<1>10. QuietInv'
  <2> SUFFICES ASSUME quiet PROVE QuietInv'
    BY <1>1 DEF QuietInv
  <2>1. c \in Unsaved /\ OnlyCopy(c) /\ ~ locked /\ row # None
    BY <1>1, <1>2 DEF QuietInv, Unsaved
  <2>2. k.load = row /\ k.new = idp.gen
    BY <1>1, <2>1 DEF OnlyCopy
  <2>3. row' = [row EXCEPT !.auth = WithTokens(row.auth, idp.gen)]
    BY <1>1, <2>1, <2>2 DEF SetAuth, HasId
  <2>4. row'.auth.gen = idp.gen
    <3>1. row \in Rows /\ row.auth \in Creds
      BY <1>5, <2>2 DEF Rows
    <3>2. WithTokens(row.auth, idp.gen).gen = idp.gen
      BY <3>1 DEF WithTokens, Creds
    <3> QED
      BY <2>3, <3>1, <3>2 DEF Rows
  <2>5. call'[c] = n /\ \A d \in Calls \ {c} : call'[d] = call[d]
    BY <1>4, <1>8
  <2>6. Unsaved' = {}
    BY <1>7, <2>1, <2>5 DEF Unsaved, OnlyCopy
  <2>7. \A d \in Calls : call'[d].snap = call[d].snap
    BY <1>7, <2>5
  <2> QED
    BY <1>1, <1>2, <1>6, <2>4, <2>6, <2>7 DEF QuietInv
<1>11. n.at \in Persisting => \A d \in Calls : d # c /\ call[d].at \in Persisting => call[d].auth # n.auth
  BY <1>1, <1>2, <1>7 DEF MutexHeld, Persisting
<1>12. /\ idp' \in [gen : 1 .. MaxGen, expired : 0 .. MaxGen] /\ idp'.expired <= idp'.gen /\ idp.gen <= idp'.gen
       /\ built' \in Seq(Authenticators) /\ Len(built) <= Len(built') /\ Len(built') <= MaxBuilt
       /\ cached' \in [1 .. MaxIds -> 0 .. Len(built')]
       /\ n.auth <= Len(built') /\ n.new <= idp'.gen /\ n.sent <= idp'.gen /\ UNCHANGED <<login, quiet>>
  BY <1>1, <1>4, <1>7
<1>13. \A i \in DOMAIN built' : built'[i].gen <= idp'.gen /\ built'[i].from.gen <= built'[i].gen
  BY <1>1, <1>2, <1>4 DEF BuiltOK
<1>14. \A i \in DOMAIN built :
          /\ built'[i].from = built[i].from /\ built'[i].id = built[i].id
          /\ built[i].busy => built'[i].busy \/ (call[c].at \in Persisting /\ call[c].auth = i)
  BY <1>1
<1>15. \A i \in 1 .. MaxIds : cached'[i] # 0 => built'[cached'[i]].id = i
  BY <1>1, <1>2 DEF BuiltOK
<1> QED
  BY <1>6, <1>7, <1>8, <1>9, <1>10, <1>11, <1>12, <1>13, <1>14, <1>15, CallMoves

\* Apply ends: the mutex is freed, the token sent.
LEMMA ApplyEndsKeeps ==
  ASSUME TokenInv, NEW c \in Calls, ApplyEnds(c)
  PROVE  TokenInv'
<1> DEFINE k == call[c]
           i == k.auth
           n == [k EXCEPT !.at = "done", !.new = 0, !.sent = k.new]
           a == [built[i] EXCEPT !.busy = FALSE]
<1>1. /\ k.at = "release" /\ built' = [built EXCEPT ![i].busy = FALSE]
      /\ call' = [call EXCEPT ![c].at = "done", ![c].new = 0, ![c].sent = call[c].new]
      /\ UNCHANGED <<registryVars, idp, cached, login, quiet>>
  BY DEF ApplyEnds
<1>2. TypeOK /\ RegInv(idp.gen) /\ BuiltOK
  BY DEF TokenInv
<1>3. /\ k \in CallRecords /\ CallIn(k, built, idp.gen, overtaken) /\ k.auth # 0 /\ i \in DOMAIN built
      /\ k.new >= k.snap.auth.gen
  BY <1>1, CallFacts DEF CallIn, Persisting
<1>4. /\ call \in [Calls -> CallRecords] /\ k.auth \in Nat /\ k.auth <= Len(built) /\ k.new <= idp.gen /\ k.new \in Nat
      /\ idp \in [gen : 1 .. MaxGen, expired : 0 .. MaxGen] /\ idp.expired <= idp.gen /\ idp.gen \in Nat
      /\ built \in Seq(Authenticators) /\ Len(built) \in Nat /\ Len(built) <= MaxBuilt
      /\ DOMAIN built = 1 .. Len(built)
      /\ \A j \in DOMAIN built : built[j] \in Authenticators /\ built[j].gen <= idp.gen
      /\ cached \in [1 .. MaxIds -> 0 .. Len(built)]
  BY <1>2, Types
<1>5. a \in Authenticators /\ a.gen = built[i].gen /\ a.id = built[i].id /\ a.from = built[i].from
  BY <1>3, <1>4 DEF Authenticators
<1>6. built' = [built EXCEPT ![i] = a]
  BY <1>1, <1>3, <1>4 DEF Authenticators
<1>7. /\ n \in CallRecords /\ n.at = "done" /\ n.load = k.load /\ n.auth = i /\ n.snap = k.snap /\ n.new = 0 /\ n.sent = k.new
  BY <1>3, <1>4 DEF CallRecords, States
<1>8. call' = [call EXCEPT ![c] = n]
  BY <1>1, <1>4 DEF CallRecords
<1> HIDE DEF n, a
<1>9. /\ built' \in Seq(Authenticators) /\ Len(built') = Len(built) /\ DOMAIN built' = DOMAIN built
      /\ built'[i] = a /\ \A j \in DOMAIN built \ {i} : built'[j] = built[j]
  BY <1>3, <1>4, <1>5, <1>6
<1>10. \A j \in DOMAIN built : built'[j].gen = built[j].gen /\ built'[j].from = built[j].from /\ built'[j].id = built[j].id
  BY <1>5, <1>9
<1>11. \A j \in DOMAIN built' : built'[j].gen <= idp'.gen /\ built'[j].from.gen <= built'[j].gen
  BY <1>1, <1>2, <1>4, <1>9, <1>10 DEF BuiltOK
<1>12. \A j \in DOMAIN built :
          /\ built'[j].from = built[j].from /\ built'[j].id = built[j].id
          /\ built[j].busy => built'[j].busy \/ (call[c].at \in Persisting /\ call[c].auth = j)
  BY <1>1, <1>9, <1>10 DEF Persisting
<1>13. cached' \in [1 .. MaxIds -> 0 .. Len(built')]
  BY <1>1, <1>4, <1>9
<1>14. \A j \in 1 .. MaxIds : cached'[j] # 0 => built'[cached'[j]].id = j
  <2> TAKE j \in 1 .. MaxIds
  <2>1. cached'[j] = cached[j] /\ (cached[j] # 0 => cached[j] \in DOMAIN built)
    BY <1>1, <1>4
  <2> QED
    BY <1>2, <1>12, <2>1 DEF BuiltOK
<1>15. CallIn(n, built', idp'.gen, overtaken')
  <2>1. overtaken' = overtaken
    BY <1>1 DEF registryVars
  <2>2. CallIn(n, built', idp.gen, overtaken)
    BY <1>3, <1>7, <1>10 DEF CallIn, Persisting
  <2> QED
    BY <1>1, <2>1, <2>2
<1>16. n.at \notin Persisting
  BY <1>7 DEF Persisting
<1>17. QuietInv'
  <2>1. UNCHANGED <<locked, row, idp, login, quiet>>
    BY <1>1 DEF registryVars
  <2>2. k.at \notin {"load", "store"} /\ n.at \notin {"load", "store"} /\ n.snap \in {k.snap, row}
    BY <1>1, <1>7
  <2>3. \A j \in DOMAIN built' :
             \/ j \in DOMAIN built /\ built'[j].id = built[j].id /\ built'[j].gen = built[j].gen
             \/ k.snap # None /\ built'[j].id = k.snap.id /\ built'[j].gen = k.snap.auth.gen
    BY <1>9, <1>10
  <2> QED
    BY <1>7, <1>8, <2>1, <2>2, <2>3, QuietCall
<1>18. RegInv(idp.gen)' /\ overtaken \subseteq overtaken'
  BY <1>1, <1>2 DEF RegInv, RegistryTypeOK, registryVars
<1>19. /\ idp' \in [gen : 1 .. MaxGen, expired : 0 .. MaxGen] /\ idp'.expired <= idp'.gen /\ idp.gen <= idp'.gen
       /\ Len(built) <= Len(built') /\ Len(built') <= MaxBuilt
       /\ n.auth <= Len(built') /\ n.new <= idp'.gen /\ n.sent <= idp'.gen /\ UNCHANGED <<login, quiet>>
  BY <1>1, <1>4, <1>7, <1>9
<1> QED
  BY <1>7, <1>8, <1>9, <1>11, <1>12, <1>13, <1>14, <1>15, <1>16, <1>17, <1>18, <1>19, CallMoves

-----------------------------------------------------------------------------
(* The other steps.                                                         *)

LoginRecords == [at : {"new", "load", "store", "done"}, id : 0 .. MaxIds, snap : Rows \cup {None}, new : Nat]

\* What a step that moves no call has to show.
LEMMA NoCallMoves ==
  ASSUME TokenInv, UNCHANGED <<built, cached, call>>,
         RegInv(idp.gen)', overtaken \subseteq overtaken',
         idp' \in [gen : 1 .. MaxGen, expired : 0 .. MaxGen], idp'.expired <= idp'.gen, idp.gen <= idp'.gen,
         login' \in LoginRecords, login'.new <= idp'.gen, LoginOK', quiet' \in BOOLEAN, QuietInv'
  PROVE  TokenInv'
<1>1. TypeOK /\ BuiltOK /\ CallsOK /\ MutexHeld
  BY DEF TokenInv
<1>2. /\ idp.gen \in Nat /\ idp'.gen \in Nat
      /\ \A i \in DOMAIN built : built[i].gen \in Nat /\ built[i].gen <= idp.gen
      /\ \A c \in Calls : /\ call[c] \in CallRecords /\ call[c].new \in Nat /\ call[c].sent \in Nat
                          /\ call[c].auth <= Len(built) /\ call[c].new <= idp.gen /\ call[c].sent <= idp.gen
  BY <1>1, Types, TokenAssumption
<1>3. TypeOK'
  <2>1. \A i \in DOMAIN built' : built'[i].gen <= idp'.gen
    BY <1>2
  <2>2. \A c \in Calls : call'[c].auth <= Len(built') /\ call'[c].new <= idp'.gen /\ call'[c].sent <= idp'.gen
    BY <1>2
  <2>3. RegistryTypeOK'
    BY DEF RegInv
  <2>4. built' \in Seq(Authenticators) /\ Len(built') <= MaxBuilt /\ call' \in [Calls -> CallRecords]
    BY <1>1 DEF TypeOK
  <2>5. cached' \in [1 .. MaxIds -> 0 .. Len(built')]
    BY <1>1 DEF TypeOK
  <2> QED
    BY <2>1, <2>2, <2>3, <2>4, <2>5 DEF TypeOK, LoginRecords
<1>4. CallsOK'
  <2>1. ASSUME NEW c \in Calls PROVE CallIn(call[c], built, idp'.gen, overtaken')
    <3>1. CallIn(call[c], built, idp.gen, overtaken)
      BY <1>1 DEF CallsOK
    <3>2. call[c].at \in Persisting => built[call[c].auth].busy
      BY <3>1 DEF CallIn
    <3> QED
      BY <1>2, <3>1, <3>2, CallGrows
  <2> QED
    BY <2>1 DEF CallsOK
<1>5. BuiltOK' /\ MutexHeld'
  BY <1>1 DEF BuiltOK, MutexHeld
<1> QED
  BY <1>3, <1>4, <1>5 DEF TokenInv

\* The registry's part holds below a newer generation.
LEMMA RegInvGrows ==
  ASSUME NEW g \in Nat, NEW h \in Nat, g <= h, RegInv(g)
  PROVE  RegInv(h)
<1>1. row \in Rows \cup {None} /\ \A e \in Editors : editor[e].snap \in Rows \cup {None}
  BY DEF RegInv, RegistryTypeOK
<1>2. KeptIn(row, h, overtaken) /\ \A e \in Editors : KeptIn(editor[e].snap, h, overtaken)
  BY <1>1, KeptGrows DEF RegInv
<1> QED
  BY <1>2 DEF RegInv

\* The login callback keeps the invariant: outside quiet times it stores what it loaded.
LEMMA LoginKeeps ==
  ASSUME TokenInv, LoginExchange \/ LoginLoad \/ LoginStore
  PROVE  TokenInv'
<1>1. TypeOK /\ RegInv(idp.gen) /\ LoginOK /\ QuietInv
  BY DEF TokenInv
<1>2. /\ idp \in [gen : 1 .. MaxGen, expired : 0 .. MaxGen] /\ idp.gen \in Nat /\ idp.expired \in Nat
      /\ idp.expired <= idp.gen
  BY <1>1, Types
<1>3. login \in LoginRecords /\ login.new <= idp.gen /\ quiet \in BOOLEAN /\ login.new \in Nat /\ login.snap \in Rows \cup {None}
  BY <1>1 DEF TypeOK, LoginRecords
<1>4. row \in Rows \cup {None} /\ KeptIn(row, idp.gen, overtaken)
  BY <1>1 DEF RegInv, RegistryTypeOK
<1>5. quiet => login.at = "new"
  BY <1>1 DEF QuietInv
<1>6. [NoLogin EXCEPT !.at = "done"] \in LoginRecords /\ [NoLogin EXCEPT !.at = "done"].new = 0
      /\ [NoLogin EXCEPT !.at = "done"].snap = None /\ [NoLogin EXCEPT !.at = "done"].at = "done"
  BY RegistryAssumption DEF NoLogin, LoginRecords
<1>7. \A g, stale : KeptIn(None, g, stale)
  BY DEF KeptIn
<1>8. CASE LoginExchange
  <2>1. /\ idp.gen < MaxGen /\ row # None /\ quiet' = FALSE /\ login.at = "new"
        /\ idp' = [idp EXCEPT !.gen = @ + 1]
        /\ login' = [login EXCEPT !.at = "load", !.id = row.id, !.new = idp.gen + 1]
        /\ UNCHANGED <<registryVars, built, cached, call>>
    BY <1>8 DEF LoginExchange
  <2>2. /\ idp'.gen \in Nat /\ idp'.gen = idp.gen + 1
        /\ idp' \in [gen : 1 .. MaxGen, expired : 0 .. MaxGen] /\ idp'.expired <= idp'.gen /\ idp.gen <= idp'.gen
    BY <1>2, <2>1, TokenAssumption
  <2>3. row.id \in 0 .. MaxIds
    BY <1>4, <2>1, RegistryAssumption DEF Rows
  <2>4. login' \in LoginRecords /\ login'.new = idp'.gen /\ login'.snap = login.snap /\ login'.at = "load"
    BY <1>2, <1>3, <2>1, <2>2, <2>3 DEF LoginRecords
  <2>5. overtaken' = overtaken
    BY <2>1 DEF registryVars
  <2>6. LoginOK'
    <3>1. KeptIn(login.snap, idp'.gen, overtaken)
      BY <1>1, <1>2, <1>3, <2>2, KeptGrows DEF LoginOK
    <3> QED
      BY <2>4, <2>5, <3>1 DEF LoginOK
  <2>7. RegInv(idp.gen)'
    <3> DEFINE h == idp'.gen
    <3>1. RegInv(h)
      BY <1>1, <1>2, <2>2, RegInvGrows
    <3> QED
      BY <2>1, <3>1 DEF RegInv, RegistryTypeOK, registryVars
  <2>8. QuietInv' /\ quiet' \in BOOLEAN
    BY <2>1 DEF QuietInv
  <2>9. login'.new <= idp'.gen /\ overtaken \subseteq overtaken'
    BY <2>2, <2>4, <2>5
  <2> QED
    BY <2>1, <2>2, <2>4, <2>6, <2>7, <2>8, <2>9, NoCallMoves
<1>9. CASE LoginLoad
  <2>1. /\ login.at = "load" /\ UNCHANGED <<registryVars, idp, built, cached, call, quiet>>
        /\ login' = IF locked \/ ~ HasId(login.id) THEN [NoLogin EXCEPT !.at = "done"]
                    ELSE [login EXCEPT !.at = "store", !.snap = row]
    BY <1>9 DEF LoginLoad
  <2>2. ~ quiet
    BY <1>5, <2>1
  <2>3. overtaken' = overtaken /\ row' = row
    BY <2>1 DEF registryVars
  <2>4. login' \in LoginRecords /\ login'.new <= idp.gen /\ KeptIn(login'.snap, idp.gen, overtaken)
        /\ (login'.at = "store" => login'.snap # None)
    <3>1. CASE locked \/ ~ HasId(login.id)
      BY <1>2, <1>6, <1>7, <2>1, <3>1
    <3>2. CASE ~ (locked \/ ~ HasId(login.id))
      <4>1. login' = [login EXCEPT !.at = "store", !.snap = row] /\ row # None
        BY <2>1, <3>2 DEF HasId
      <4>2. login' \in LoginRecords /\ login'.new = login.new /\ login'.snap = row
        BY <1>3, <1>4, <4>1 DEF LoginRecords
      <4> QED
        BY <1>3, <1>4, <4>1, <4>2
    <3> QED
      BY <3>1, <3>2
  <2>5. LoginOK'
    BY <2>1, <2>3, <2>4 DEF LoginOK
  <2>6. RegInv(idp.gen)'
    BY <1>1, <2>1 DEF RegInv, RegistryTypeOK, registryVars
  <2>7. QuietInv' /\ quiet' \in BOOLEAN
    BY <1>3, <2>1, <2>2 DEF QuietInv
  <2>8. /\ idp' \in [gen : 1 .. MaxGen, expired : 0 .. MaxGen] /\ idp'.expired <= idp'.gen /\ idp.gen <= idp'.gen
        /\ login'.new <= idp'.gen /\ overtaken \subseteq overtaken'
    BY <1>2, <2>1, <2>3, <2>4
  <2> QED
    BY <2>1, <2>4, <2>5, <2>6, <2>7, <2>8, NoCallMoves
<1>10. CASE LoginStore
  <2>1. /\ login.at = "store" /\ SetAuth(login.snap, WithTokens(login.snap.auth, login.new))
        /\ login' = [NoLogin EXCEPT !.at = "done"]
        /\ UNCHANGED <<locked, nextId, editor, importer, idp, built, cached, call, quiet>>
    BY <1>10 DEF LoginStore
  <2>2. ~ quiet
    BY <1>5, <2>1
  <2>3. login.snap # None /\ login.snap \in Rows /\ KeptIn(login.snap, idp.gen, overtaken)
    BY <1>1, <1>3, <2>1 DEF LoginOK
  <2>4. RegInv(idp.gen)' /\ overtaken \subseteq overtaken'
    <3>1. \A h \in Nat : RegInv(h) /\ KeptIn(login.snap, h, overtaken) /\ login.new <= h =>
              RegInv(h)' /\ overtaken \subseteq overtaken'
      BY <1>3, <2>1, <2>3, StoreKeeps
    <3> QED
      BY <1>1, <1>2, <1>3, <2>1, <2>3, <3>1 DEF RegInv
  <2>5. LoginOK'
    BY <1>6, <1>7, <2>1 DEF LoginOK
  <2>6. QuietInv' /\ quiet' \in BOOLEAN
    BY <1>3, <2>1, <2>2 DEF QuietInv
  <2>7. /\ idp' \in [gen : 1 .. MaxGen, expired : 0 .. MaxGen] /\ idp'.expired <= idp'.gen /\ idp.gen <= idp'.gen
        /\ login' \in LoginRecords /\ login'.new <= idp'.gen
    BY <1>2, <1>6, <2>1
  <2> QED
    BY <2>1, <2>4, <2>5, <2>6, <2>7, NoCallMoves
<1> QED
  BY <1>8, <1>9, <1>10

\* Expire and the registry's steps.
LEMMA OtherKeeps ==
  ASSUME TokenInv, Expire \/ Registry
  PROVE  TokenInv'
<1>1. TypeOK /\ RegInv(idp.gen) /\ LoginOK /\ QuietInv
  BY DEF TokenInv
<1>2. /\ idp \in [gen : 1 .. MaxGen, expired : 0 .. MaxGen] /\ idp.gen \in Nat /\ idp.expired \in Nat
      /\ idp.expired <= idp.gen
  BY <1>1, Types
<1>3. login \in LoginRecords /\ login.new <= idp.gen /\ quiet \in BOOLEAN /\ login.new \in Nat /\ login.snap \in Rows \cup {None}
  BY <1>1 DEF TypeOK, LoginRecords
<1>4. CASE Expire
  <2>1. /\ idp' = [idp EXCEPT !.expired = idp.gen]
        /\ UNCHANGED <<registryVars, built, cached, call, login, quiet>>
    BY <1>4 DEF Expire
  <2>2. /\ idp'.gen = idp.gen /\ idp' \in [gen : 1 .. MaxGen, expired : 0 .. MaxGen] /\ idp'.expired <= idp'.gen
        /\ idp.gen <= idp'.gen
    BY <1>2, <2>1, TokenAssumption
  <2>3. UNCHANGED <<locked, row, overtaken>>
    BY <2>1 DEF registryVars
  <2>4. RegInv(idp.gen)'
    BY <1>1, <2>1, <2>2 DEF RegInv, RegistryTypeOK, registryVars
  <2>5. LoginOK'
    BY <1>1, <2>1, <2>2, <2>3 DEF LoginOK
  <2>6. QuietInv'
    BY <1>1, <2>1, <2>2, <2>3 DEF QuietInv, Unsaved, OnlyCopy
  <2>7. login' \in LoginRecords /\ login'.new <= idp'.gen /\ quiet' \in BOOLEAN /\ overtaken \subseteq overtaken'
    BY <1>3, <2>1, <2>2, <2>3
  <2> QED
    BY <2>1, <2>2, <2>4, <2>5, <2>6, <2>7, NoCallMoves
<1>5. CASE Registry
  <2>1. RegistryStep /\ quiet' = FALSE /\ UNCHANGED <<idp, built, cached, call, login>>
    BY <1>5 DEF Registry, tokenVars
  <2>2. RegInv(idp.gen)' /\ overtaken \subseteq overtaken'
    <3>1. \A h \in Nat : RegInv(h) => RegInv(h)' /\ overtaken \subseteq overtaken'
      BY <2>1, RegistryStepKeeps
    <3> QED
      BY <1>1, <1>2, <2>1, <3>1 DEF RegInv
  <2>3. LoginOK'
    <3>1. KeptIn(login.snap, idp.gen, overtaken')
      BY <1>1, <2>2 DEF LoginOK, KeptIn
    <3> QED
      BY <1>1, <2>1, <3>1 DEF LoginOK
  <2>4. QuietInv' /\ quiet' \in BOOLEAN
    BY <2>1 DEF QuietInv
  <2>5. /\ idp' \in [gen : 1 .. MaxGen, expired : 0 .. MaxGen] /\ idp'.expired <= idp'.gen /\ idp.gen <= idp'.gen
        /\ login' \in LoginRecords /\ login'.new <= idp'.gen
    BY <1>2, <1>3, <2>1
  <2> QED
    BY <2>1, <2>2, <2>3, <2>4, <2>5, NoCallMoves
<1> QED
  BY <1>4, <1>5

\* Restart: the row is all that is left; what had not begun begins anew.
LEMMA RestartKeeps ==
  ASSUME TokenInv, Restart
  PROVE  TokenInv'
<1>1. TypeOK /\ RegInv(idp.gen) /\ LoginOK /\ CallsOK
  BY DEF TokenInv
<1>2. /\ RegistryRestart /\ quiet' = FALSE /\ idp' = idp
      /\ built' = <<>> /\ cached' = [i \in 1 .. MaxIds |-> 0]
      /\ call' = [c \in Calls |-> IF call[c].at = "new" THEN call[c] ELSE [NewCall EXCEPT !.at = "cut"]]
      /\ login' = IF login.at = "new" THEN login ELSE [NoLogin EXCEPT !.at = "done"]
  BY DEF Restart
<1>3. UNCHANGED <<locked, row, nextId, overtaken>>
  BY <1>2 DEF RegistryRestart
<1>4. /\ idp \in [gen : 1 .. MaxGen, expired : 0 .. MaxGen] /\ idp.gen \in Nat /\ idp.expired <= idp.gen
  BY <1>1, Types
<1>5. \A g, stale : KeptIn(None, g, stale)
  BY DEF KeptIn
<1>6. RegInv(idp.gen)'
  <2>1. /\ editor \in [Editors -> [at : {"new", "loaded", "done"}, snap : Rows \cup {None}]]
        /\ importer \in [at : {"new", "listed", "done"}, update : BOOLEAN, have : Rows \cup {None}, todo : Seq(Targets)]
        /\ locked \in BOOLEAN /\ nextId \in 2 .. MaxIds + 1 /\ overtaken \subseteq 1 .. MaxIds
        /\ row \in Rows \cup {None} /\ (row # None => row.id < nextId)
        /\ KeptIn(row, idp.gen, overtaken)
    BY <1>1 DEF RegInv, RegistryTypeOK
  <2>2. editor' = [e \in Editors |-> IF editor[e].at = "new" THEN NewEditor ELSE [NewEditor EXCEPT !.at = "done"]]
    BY <1>2 DEF RegistryRestart
  <2>3. \A e \in Editors : editor'[e].snap = None /\ editor'[e].at \in {"new", "done"}
    BY <2>2 DEF NewEditor
  <2>4. editor' \in [Editors -> [at : {"new", "loaded", "done"}, snap : Rows \cup {None}]]
    BY <2>2 DEF NewEditor
  <2>5. importer' \in [at : {"new", "listed", "done"}, update : BOOLEAN, have : Rows \cup {None}, todo : Seq(Targets)]
    BY <1>2, <2>1, DoneImporter DEF RegistryRestart
  <2>6. RegistryTypeOK'
    BY <1>3, <2>1, <2>4, <2>5 DEF RegistryTypeOK
  <2>7. KeptIn(row', idp'.gen, overtaken')
    BY <1>2, <1>3, <2>1
  <2>8. \A e \in Editors : KeptIn(editor'[e].snap, idp'.gen, overtaken') /\ (editor'[e].at = "loaded" => editor'[e].snap # None)
    BY <1>5, <2>3
  <2> QED
    BY <2>6, <2>7, <2>8 DEF RegInv
<1>7. [NoLogin EXCEPT !.at = "done"] \in LoginRecords /\ [NoLogin EXCEPT !.at = "done"].new = 0
      /\ [NoLogin EXCEPT !.at = "done"].snap = None /\ [NoLogin EXCEPT !.at = "done"].at = "done"
  BY RegistryAssumption DEF NoLogin, LoginRecords
<1>8. login \in LoginRecords /\ login.new <= idp.gen
  BY <1>1 DEF TypeOK, LoginRecords
<1>9. login' \in LoginRecords /\ login'.new <= idp'.gen /\ LoginOK'
  <2>1. CASE login.at = "new"
    BY <1>1, <1>2, <1>3, <1>8, <2>1 DEF LoginOK
  <2>2. CASE login.at # "new"
    <3>1. login' = [NoLogin EXCEPT !.at = "done"]
      BY <1>2, <2>2
    <3>2. login' \in LoginRecords /\ login'.new = 0 /\ login'.snap = None /\ login'.at = "done"
      BY <1>7, <3>1
    <3>3. LoginOK'
      BY <1>5, <3>2 DEF LoginOK
    <3> QED
      BY <1>2, <1>4, <3>2, <3>3
  <2> QED
    BY <2>1, <2>2
<1>10. \A c \in Calls :
         /\ call'[c].auth = 0 /\ call'[c].new = 0 /\ call'[c].sent = 0 /\ call'[c].snap = None /\ call'[c].load = None
         /\ call'[c].at \in {"new", "cut"} /\ (call'[c].at = "new" => call'[c] = NewCall)
         /\ call'[c] \in CallRecords
  <2> TAKE c \in Calls
  <2>1. call[c].at = "new" => call[c] = NewCall
    BY <1>1 DEF CallsOK, CallIn
  <2>2. call'[c] = NewCall \/ call'[c] = [NewCall EXCEPT !.at = "cut"]
    BY <1>2, <2>1
  <2> QED
    BY <2>2 DEF NewCall, CallRecords, States
<1>11. CallsOK'
  <2>1. ASSUME NEW c \in Calls PROVE CallIn(call'[c], built', idp'.gen, overtaken')
    BY <1>5, <1>10 DEF CallIn, Persisting
  <2> QED
    BY <2>1 DEF CallsOK
<1>12. MutexHeld'
  BY <1>10 DEF MutexHeld, Persisting
<1>13. built' \in Seq(Authenticators) /\ Len(built') = 0 /\ DOMAIN built' = {}
  BY <1>2
<1>14. BuiltOK'
  BY <1>2, <1>13 DEF BuiltOK
<1>15. TypeOK'
  <2>1. call' \in [Calls -> CallRecords]
    BY <1>2, <1>10
  <2>2. \A c \in Calls : call'[c].auth <= Len(built') /\ call'[c].new <= idp'.gen /\ call'[c].sent <= idp'.gen
    BY <1>2, <1>4, <1>10, <1>13
  <2>3. cached' \in [1 .. MaxIds -> 0 .. Len(built')] /\ Len(built') <= MaxBuilt
    BY <1>2, <1>13, TokenAssumption
  <2>4. RegistryTypeOK' /\ quiet' \in BOOLEAN
    BY <1>2, <1>6 DEF RegInv
  <2>5. idp' \in [gen : 1 .. MaxGen, expired : 0 .. MaxGen] /\ idp'.expired <= idp'.gen
    BY <1>2, <1>4
  <2>6. \A i \in DOMAIN built' : built'[i].gen <= idp'.gen
    BY <1>13
  <2> QED
    BY <1>9, <1>13, <2>1, <2>2, <2>3, <2>4, <2>5, <2>6 DEF TypeOK, LoginRecords
<1>16. QuietInv'
  BY <1>2 DEF QuietInv
<1> QED
  BY <1>6, <1>9, <1>11, <1>12, <1>14, <1>15, <1>16 DEF TokenInv

\* The invariant holds at the start.
LEMMA TokenInit ==
  ASSUME Init
  PROVE  TokenInv
<1>1. /\ RegistryInit /\ idp = [gen |-> 1, expired |-> 0] /\ built = <<>> /\ cached = [i \in 1 .. MaxIds |-> 0]
      /\ call = [c \in Calls |-> NewCall] /\ login = NoLogin /\ quiet = TRUE
  BY DEF Init
<1> DEFINE auth == Auth("oidc", "created", 1, Home)
<1>2. /\ auth \in Creds /\ auth.gen = 1 /\ auth.given = Home /\ auth.insecure = FALSE /\ Home \in Bases
  BY DEF Auth, Creds, Bases
<1>3. row = [id |-> 1, kind |-> "http", base |-> Home, auth |-> auth]
  BY <1>1 DEF RegistryInit
<1> HIDE DEF auth
<1>4. row \in Rows /\ row.id = 1 /\ row.auth.gen = 1 /\ row # None
  <2>1. row \in Rows /\ row.id = 1 /\ row.auth = auth
    BY <1>2, <1>3, RegistryAssumption DEF Rows
  <2> QED
    BY <1>2, <2>1, RegistryAssumption
<1>5. idp.gen = 1 /\ idp.expired = 0 /\ idp \in [gen : 1 .. MaxGen, expired : 0 .. MaxGen]
  BY <1>1, TokenAssumption
<1>6. \A g, stale : KeptIn(None, g, stale)
  BY DEF KeptIn
<1>7. KeptIn(row, idp.gen, overtaken)
  BY <1>2, <1>3, <1>5 DEF KeptIn
<1>8. \A e \in Editors : editor[e].snap = None /\ editor[e].at = "new"
  BY <1>1 DEF RegistryInit, NewEditor
<1>9. importer \in [at : {"new", "listed", "done"}, update : BOOLEAN, have : Rows \cup {None}, todo : Seq(Targets)]
  <2> DEFINE empty == <<>>
  <2>1. importer = [at |-> "new", update |-> FALSE, have |-> None, todo |-> empty] /\ empty \in Seq(Targets)
    BY <1>1 DEF RegistryInit, NewImporter
  <2> HIDE DEF empty
  <2> QED
    BY <2>1
<1>10. RegistryTypeOK
  <2>1. editor \in [Editors -> [at : {"new", "loaded", "done"}, snap : Rows \cup {None}]]
    BY <1>1 DEF RegistryInit, NewEditor
  <2>2. nextId = 2 /\ overtaken = {} /\ locked = FALSE
    BY <1>1 DEF RegistryInit
  <2>3. nextId \in 2 .. MaxIds + 1 /\ row.id < nextId
    BY <1>4, <2>2, RegistryAssumption
  <2>4. locked \in BOOLEAN
    BY <2>2
  <2> QED
    BY <1>4, <1>9, <2>1, <2>2, <2>3, <2>4 DEF RegistryTypeOK
<1>11. RegInv(idp.gen)
  BY <1>6, <1>7, <1>8, <1>10 DEF RegInv
<1>12. \A c \in Calls : call[c] = NewCall
  BY <1>1
<1>13. CallsOK /\ MutexHeld /\ Unsaved = {}
  <2>1. NewCall.at = "new" /\ NewCall.auth = 0 /\ NewCall.snap = None /\ NewCall.load = None
    BY DEF NewCall
  <2>2. CallIn(NewCall, built, idp.gen, overtaken)
    BY <1>6, <2>1 DEF CallIn, Persisting
  <2> QED
    BY <1>12, <2>1, <2>2 DEF CallsOK, MutexHeld, Persisting, Unsaved
<1>14. built \in Seq(Authenticators) /\ Len(built) = 0 /\ DOMAIN built = {}
  BY <1>1
<1>15. BuiltOK
  BY <1>1, <1>14 DEF BuiltOK
<1>16. LoginOK /\ login.at = "new" /\ login.new = 0 /\ login \in LoginRecords
  BY <1>1, <1>6, RegistryAssumption DEF LoginOK, NoLogin, LoginRecords
<1>17. TypeOK
  <2>1. NewCall \in CallRecords /\ NewCall.auth = 0 /\ NewCall.new = 0 /\ NewCall.sent = 0
    BY DEF NewCall, CallRecords, States
  <2>2. call \in [Calls -> CallRecords]
    BY <1>1, <2>1
  <2>3. \A c \in Calls : call[c].auth <= Len(built) /\ call[c].new <= idp.gen /\ call[c].sent <= idp.gen
    BY <1>5, <1>12, <1>14, <2>1
  <2>4. cached \in [1 .. MaxIds -> 0 .. Len(built)] /\ Len(built) <= MaxBuilt
    BY <1>1, <1>14, TokenAssumption
  <2>5. quiet \in BOOLEAN
    BY <1>1
  <2>6. login.new <= idp.gen /\ idp.expired <= idp.gen
    BY <1>5, <1>16
  <2>7. \A i \in DOMAIN built : built[i].gen <= idp.gen
    BY <1>14
  <2> QED
    BY <1>5, <1>10, <1>14, <1>16, <2>2, <2>3, <2>4, <2>5, <2>6, <2>7 DEF TypeOK, LoginRecords
<1>18. QuietInv
  <2>1. ~ locked /\ row # None /\ row.id = 1 /\ login.at = "new" /\ row.auth.gen = idp.gen
    BY <1>1, <1>4, <1>5, <1>16 DEF RegistryInit
  <2>2. \A c \in Calls : call[c].snap = None
    BY <1>12 DEF NewCall
  <2> QED
    BY <1>13, <1>14, <2>1, <2>2 DEF QuietInv
<1> QED
  BY <1>11, <1>13, <1>15, <1>16, <1>17, <1>18 DEF TokenInv

\* Every step keeps the invariant.
LEMMA TokenNext ==
  ASSUME TokenInv, [Next]_vars
  PROVE  TokenInv'
<1>1. CASE Next
  <2>1. ASSUME NEW c \in Calls, Snapshot(c) \/ CallStep(c) PROVE TokenInv'
    BY <2>1, SnapshotKeeps, ManagedForKeeps, ApplyKeeps, ApplyRefreshKeeps, PersistLoadKeeps, PersistStoreKeeps,
       ApplyEndsKeeps DEF CallStep
  <2> QED
    BY <1>1, <2>1, LoginKeeps, OtherKeeps, RestartKeeps DEF Next
<1>2. CASE UNCHANGED vars
  BY <1>2 DEF vars, registryVars, tokenVars, TokenInv, TypeOK, RegistryTypeOK, RegInv, LoginOK, BuiltOK, CallsOK,
     MutexHeld, QuietInv, Unsaved, OnlyCopy
<1> QED
  BY <1>1, <1>2

-----------------------------------------------------------------------------
(* The theorems.                                                            *)

\* The inductive invariant holds in every reachable state.
THEOREM TokenInvariant == Spec => []TokenInv
<1>1. Init => TokenInv
  BY TokenInit
<1>2. TokenInv /\ [Next]_vars => TokenInv'
  BY TokenNext
<1> QED
  BY <1>1, <1>2, PTL DEF Spec

\* The Manager's cache serves no stale authenticator and lets no second refresh
\* start over an unsaved one (authn.Manager, oidcAuthCode's mutex).
THEOREM CacheIsFresh == Spec => []CacheInv
<1>1. TokenInv => CacheInv
  <2> SUFFICES ASSUME TokenInv PROVE CacheInv
    OBVIOUS
  <2>1. TypeOK /\ CallsOK /\ QuietInv
    BY DEF TokenInv
  <2>2. NeverOlderToken
    BY <2>1 DEF NeverOlderToken, CallsOK, CallIn
  <2>3. OneUnsavedPair
    BY <2>1 DEF OneUnsavedPair, QuietInv, Unsaved, OnlyCopy
  <2> QED
    BY <2>1, <2>2, <2>3 DEF CacheInv
<1> QED
  BY <1>1, TokenInvariant, PTL

\* Between refreshes the row holds the provider's latest pair, as long as only
\* calls write it (persistOAuthTokens): a restart needs no new login.
THEOREM RestartNeedsNoLogin == Spec => []RowIsLatest
<1>1. TokenInv => RowIsLatest
  BY DEF TokenInv, QuietInv, Unsaved, RowIsLatest
<1> QED
  BY <1>1, TokenInvariant, PTL

\* A secret stays with the address it was given for, unless the upstream was
\* re-targeted between the load and the store of an edit or a refresh (SetAuth,
\* UpdateTarget, register); and a server goes unchecked only as told.
THEOREM SecretStays == Spec => []SecretAtItsAddress
<1>1. TokenInv => SecretAtItsAddress
  BY DEF TokenInv, RegInv, KeptIn, SecretAtItsAddress, UncheckedAsTold
<1> QED
  BY <1>1, TokenInvariant, PTL

\* A scan never touches a row that is there, and a name changes its id only
\* through a deletion (import.go's register, the registry's UNIQUE(name)).
THEOREM ScanSpares == Spec => RegistryKeeps
<1> DEFINE Spares ==
      row # None =>
        /\ importer.todo # importer'.todo /\ ~ importer.update => row' = row
        /\ row' # None => row'.id = row.id
<1>1. TokenInv /\ [Next]_vars => [Spares]_registryVars
  <2> SUFFICES ASSUME TokenInv, [Next]_vars, row # None PROVE Spares \/ UNCHANGED registryVars
    BY DEF registryVars
  <2>1. TypeOK /\ RegInv(idp.gen) /\ idp.gen \in Nat
    BY Types DEF TokenInv
  <2>2. row \in Rows
    BY <2>1 DEF RegInv, RegistryTypeOK
  <2>3. ASSUME NEW snap, NEW auth, SetAuth(snap, auth) PROVE row'.id = row.id
    BY <2>2, <2>3 DEF SetAuth, Rows
  <2>4. CASE UNCHANGED registryVars
    BY <2>4
  <2>5. ASSUME NEW c \in Calls, PersistStore(c) PROVE Spares
    BY <2>3, <2>5 DEF PersistStore
  <2>6. CASE LoginStore
    BY <2>3, <2>6 DEF LoginStore
  <2>7. CASE Restart
    BY <2>7 DEF Restart, RegistryRestart
  <2>8. CASE RegistryStep
    <3>1. CASE UpstreamCreate
      BY <3>1 DEF UpstreamCreate, Create
    <3>2. CASE UpstreamDelete
      BY <3>2 DEF UpstreamDelete
    <3>3. ASSUME NEW e \in Editors, NEW t \in {"oidc", "none"}, EditLoad(e) \/ EditStore(e, t) PROVE Spares
      BY <2>3, <3>3 DEF EditLoad, EditStore
    <3>4. ASSUME NEW u \in BOOLEAN, ImportScan(u) PROVE Spares
      BY <3>4 DEF ImportScan, ImportList
    <3>5. ASSUME NEW doc \in Uploads, ImportUpload(doc) PROVE Spares
      BY <3>5 DEF ImportUpload, ImportList
    <3>6. CASE ImportRegister
      <4>1. CASE UNCHANGED <<row, nextId>>
        BY <4>1
      <4>2. CASE ~ RegisterFails /\ Register(Head(importer.todo)) /\ nextId <= MaxIds /\ importer.todo # <<>>
        <5>1. importer.todo \in Seq(Targets)
          BY <2>1 DEF RegInv, RegistryTypeOK
        <5>2. Head(importer.todo) \in Targets
          BY <4>2, <5>1
        <5> QED
          BY <2>1, <4>2, <5>2, RegisterFacts
      <4> QED
        BY <3>6, <4>1, <4>2 DEF ImportRegister
    <3>7. CASE ImportEnds
      BY <3>7 DEF ImportEnds
    <3>8. CASE VaultLock
      BY <3>8 DEF VaultLock
    <3> QED
      BY <2>8, <3>1, <3>2, <3>3, <3>4, <3>5, <3>6, <3>7, <3>8 DEF RegistryStep
  <2>9. CASE Next
    <3>1. ASSUME NEW c \in Calls, Snapshot(c) \/ CallStep(c) PROVE Spares \/ UNCHANGED registryVars
      BY <2>5, <3>1 DEF Snapshot, CallStep, ManagedFor, ApplyStatic, ApplyFresh, ApplyRefresh, ApplyFails,
         PersistLoad, ApplyEnds
    <3> QED
      BY <2>6, <2>7, <2>8, <2>9, <3>1 DEF Next, LoginExchange, LoginLoad, Expire, Registry
  <2> QED
    BY <2>4, <2>9 DEF vars
<1>2. Spec => []TokenInv
  BY TokenInvariant
<1> QED
  BY <1>1, <1>2, PTL DEF Spec, RegistryKeeps
=============================================================================
