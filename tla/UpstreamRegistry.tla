-------------------------- MODULE UpstreamRegistry --------------------------
(***************************************************************************)
(* internal/upstream/registry.go, internal/k8s/import.go and the daemon's  *)
(* upstream handlers: the row of one name.  A name has at most one row     *)
(* (UNIQUE); the row's id is what rules and token refreshes refer to.  A   *)
(* handler that loads the row and stores a credential by its id does so in *)
(* two statements, and so does an import that lists the rows first.        *)
(*                                                                         *)
(* A credential is [type, cfg, gen, given, insecure]: its settings, the    *)
(* generation of its tokens (0 for none), (history) the address it was     *)
(* given for, and whether the server's certificate goes unchecked.         *)
(***************************************************************************)
EXTENDS Kubeconfig

CONSTANTS Editors,  \* hUpstreamSetAuth calls
          MaxIds,   \* bound on the rows ever created
          Home,     \* the address of the upstream at the start
          NewBase,  \* the address an operator registers the name for later
          Name,     \* the name, as a context of a kubeconfig
          Uploads,  \* documents an operator may upload
          Env, KubeDir,  \* the paths of $KUBECONFIG and of the files of ~/.kube
          None

VARIABLES
  locked,    \* Vault.Locked: nothing is encrypted or decrypted
  row,       \* the row of the name: [id, kind, base, auth], or None
  nextId,
  editor,    \* editor[e]: [at, snap]
  importer,  \* the kubeconfig import: [at, update, have, todo]
  overtaken  \* (history) ids a stale credential was stored on after a re-target

registryVars == <<locked, row, nextId, editor, importer, overtaken>>

Auth(type, cfg, gen, base) ==
  [type |-> type, cfg |-> <<cfg>>, gen |-> gen, given |-> base, insecure |-> FALSE]

NewEditor   == [at |-> "new", snap |-> None]
NewImporter == [at |-> "new", update |-> FALSE, have |-> None, todo |-> <<>>]

RegistryInit ==
  /\ locked = FALSE
  /\ row = [id |-> 1, kind |-> "http", base |-> Home, auth |-> Auth("oidc", "created", 1, Home)]
  /\ nextId = 2
  /\ editor = [e \in Editors |-> NewEditor]
  /\ importer = NewImporter
  /\ overtaken = {}

-----------------------------------------------------------------------------
(* The registry's statements.                                               *)

HasId(id) == row # None /\ row.id = id

\* CreateProfiled: UNIQUE(name) refuses a second row.
Create(kind, base, auth) ==
  IF row = None
  THEN row' = [id |-> nextId, kind |-> kind, base |-> base, auth |-> auth] /\ nextId' = nextId + 1
  ELSE UNCHANGED <<row, nextId>>

\* (slip) The row is found by its name again, not by the id that was loaded.
SetAuthByName(snap, auth) ==
  /\ row' = IF row # None /\ ~ locked THEN [row EXCEPT !.auth = auth] ELSE row
  /\ overtaken' = IF HasId(snap.id) /\ ~ locked /\ row.base # snap.base
                  THEN overtaken \cup {snap.id} ELSE overtaken

\* SetAuth by the id that was loaded; a locked vault cannot encrypt.
SetAuth(snap, auth) ==
  /\ row' = IF HasId(snap.id) /\ ~ locked THEN [row EXCEPT !.auth = auth] ELSE row
  /\ overtaken' = IF HasId(snap.id) /\ ~ locked /\ row.base # snap.base
                  THEN overtaken \cup {snap.id} ELSE overtaken

\* UpdateTarget: a new address and credential on the same id, whatever its kind.
UpdateTarget(id, base, auth) ==
  /\ row' = IF HasId(id) THEN [row EXCEPT !.base = base, !.auth = auth] ELSE row
  /\ UNCHANGED nextId

\* mergeKeepSecrets: a form of the same type that leaves the secrets blank keeps
\* them, and the tokens; another type is taken as sent.
MergeKeepSecrets(old, in) ==
  IF old.type # in.type THEN in ELSE [in EXCEPT !.gen = old.gen, !.given = old.given]

-----------------------------------------------------------------------------
(* The handlers.                                                            *)

\* hUpstreamCreate.
UpstreamCreate ==
  /\ ~ locked /\ nextId <= MaxIds
  /\ Create("http", NewBase, Auth("oidc", "created", 0, NewBase))
  /\ UNCHANGED <<locked, editor, importer, overtaken>>

\* hUpstreamDelete; no decryption, so it works on a locked vault.
UpstreamDelete ==
  /\ row # None
  /\ row' = None
  /\ UNCHANGED <<locked, nextId, editor, importer, overtaken>>

\* hUpstreamSetAuth: GetByName.
EditLoad(e) ==
  /\ editor[e].at = "new" /\ ~ locked /\ row # None
  /\ editor' = [editor EXCEPT ![e] = [at |-> "loaded", snap |-> row]]
  /\ UNCHANGED <<locked, row, nextId, importer, overtaken>>

\* hUpstreamSetAuth: SetAuth of the form, merged with what was loaded.
EditStore(e, type) ==
  LET snap == editor[e].snap
      in   == Auth(type, "edited", 0, snap.base)
  IN /\ editor[e].at = "loaded"
     /\ SetAuth(snap, MergeKeepSecrets(snap.auth, in))
     /\ editor' = [editor EXCEPT ![e] = [at |-> "done", snap |-> None]]
     /\ UNCHANGED <<locked, nextId, importer>>

\* existing(), and the targets of the name that the kubeconfigs describe.
ImportList(update, targets) ==
  /\ importer.at = "new" /\ ~ locked
  /\ importer' = [at |-> "listed", update |-> update, have |-> row,
                  todo |-> SelectSeq(targets, LAMBDA t : t.name = Name)]
  /\ UNCHANGED <<locked, row, nextId, editor, overtaken>>

\* autoImportClusters (no update) and hClustersImport without a body: Import.
ImportScan(update) == ImportList(update, ParseFiles(Discover(Env, KubeDir)))

\* hClustersImport with a body: ImportContent, which refuses what is no kubeconfig.
ImportUpload(doc) == doc # Junk /\ ImportList(TRUE, ParseKubeconfig(doc, ""))

\* (slip) A scan refreshes what it finds, too.
RegisterRefreshes(t) ==
  IF importer.have # None THEN UpdateTarget(importer.have.id, t.server, t.auth)
  ELSE Create("k8s", t.server, t.auth)

\* register: a name that is known is re-targeted or skipped, another created.
Register(t) ==
  IF importer.have # None
  THEN IF importer.update THEN UpdateTarget(importer.have.id, t.server, t.auth)
       ELSE UNCHANGED <<row, nextId>>
  ELSE Create("k8s", t.server, t.auth)

\* UpdateTarget's ErrNotFound, UNIQUE(name), or the vault: register returns.
RegisterFails ==
  \/ importer.have # None /\ importer.update /\ (locked \/ ~ HasId(importer.have.id))
  \/ importer.have = None /\ (locked \/ row # None)

\* One target: an error ends the import, a created row is remembered.
ImportRegister ==
  /\ importer.at = "listed" /\ importer.todo # <<>> /\ nextId <= MaxIds
  /\ \/ /\ RegisterFails
        /\ importer' = [NewImporter EXCEPT !.at = "done"]
        /\ UNCHANGED <<row, nextId>>
     \/ /\ ~ RegisterFails
        /\ Register(Head(importer.todo))
        /\ importer' = [importer EXCEPT !.todo = Tail(@), !.have = IF @ = None THEN row' ELSE @]
  /\ UNCHANGED <<locked, editor, overtaken>>

ImportEnds ==
  /\ importer.at = "listed" /\ importer.todo = <<>>
  /\ importer' = [NewImporter EXCEPT !.at = "done"]
  /\ UNCHANGED <<locked, row, nextId, editor, overtaken>>

VaultLock ==
  /\ locked' = ~ locked
  /\ UNCHANGED <<row, nextId, editor, importer, overtaken>>

RegistryStep ==
  \/ UpstreamCreate \/ UpstreamDelete
  \/ \E e \in Editors : EditLoad(e) \/ \E t \in {"oidc", "none"} : EditStore(e, t)
  \/ \E u \in BOOLEAN : ImportScan(u)
  \/ \E doc \in Uploads : ImportUpload(doc)
  \/ ImportRegister \/ ImportEnds
  \/ VaultLock

\* The daemon restarts: the row is all that is left.
RegistryRestart ==
  /\ editor' = [e \in Editors |-> IF editor[e].at = "new" THEN NewEditor ELSE [NewEditor EXCEPT !.at = "done"]]
  /\ importer' = IF importer.at = "new" THEN importer ELSE [NewImporter EXCEPT !.at = "done"]
  /\ UNCHANGED <<locked, row, nextId, overtaken>>

-----------------------------------------------------------------------------
\* The documents an import can read, and the contexts of them it can use, each
\* with the directory it is read in.
Documents == {d \in Uploads \cup {Disk[p] : p \in DOMAIN Disk \cap (Range(Env) \cup Range(KubeDir))} : d # Junk}
Dirs == {""} \cup {p[1] : p \in DOMAIN Disk \cap (Range(Env) \cup Range(KubeDir))}
Contexts == UNION {{<<d, d.contexts[i], dir>> : i \in DOMAIN d.contexts, dir \in Dirs} : d \in Documents}
Targets  == {Target(x[1], x[2], x[3]) : x \in {y \in Contexts : Usable(y[1], y[2], y[3])}}

\* What register is given is what the usable contexts describe: SelectSeq and
\* FlattenSeq add nothing, and the last entry of a name is an entry.  (Facts of
\* any finite documents, by induction on their length.)
ASSUME TargetsAssumption ==
  /\ \A read \in {ParseFiles(Discover(Env, KubeDir))} \cup {ParseKubeconfig(d, "") : d \in Uploads \ {Junk}} :
        SelectSeq(read, LAMBDA t : t.name = Name) \in Seq(Targets)
  /\ \A x \in Contexts : Usable(x[1], x[2], x[3]) =>
        \E i \in DOMAIN x[1].clusters : ByName(x[1].clusters, x[2].cluster) = x[1].clusters[i]

\* The kubeconfigs are right: a usable context has a user whose secret is for its
\* cluster; and a CA file that is named is not empty.
ASSUME DocumentsAssumption ==
  /\ \A t \in Targets : t.auth.given = t.server
  /\ \A x \in Contexts : \A i \in DOMAIN x[1].clusters :
        LET file == x[1].clusters[i].caFile IN file # <<>> => ReadFileRel(file, x[3]) # ""

\* Addresses, credentials and rows.
Bases == {Home, NewBase} \cup {t.server : t \in Targets}
Creds == [type : {"oidc", "none"}, cfg : {<<"created">>, <<"edited">>} \cup {t.auth.cfg : t \in Targets},
          gen : Nat, given : Bases, insecure : BOOLEAN]
Rows  == [id : 1 .. MaxIds, kind : {"http", "k8s"}, base : Bases, auth : Creds]

ASSUME RegistryAssumption == MaxIds \in Nat \ {0} /\ None \notin Rows

\* Every variable has its type.
RegistryTypeOK ==
  /\ locked \in BOOLEAN /\ nextId \in 2 .. MaxIds + 1 /\ overtaken \subseteq 1 .. MaxIds
  /\ row \in Rows \cup {None} /\ (row # None => row.id < nextId)
  /\ editor \in [Editors -> [at : {"new", "loaded", "done"}, snap : Rows \cup {None}]]
  /\ importer \in [at : {"new", "listed", "done"}, update : BOOLEAN, have : Rows \cup {None}, todo : Seq(Targets)]

\* A kubeconfig says of this server that its certificate goes unchecked, and
\* gives no CA to check it with.
ToldUnchecked(server) ==
  \E d \in Documents : \E i \in DOMAIN d.clusters :
     LET cl == d.clusters[i] IN
     cl.server = server /\ cl.insecure /\ cl.caData = "" /\ cl.caFile = <<>>

\* A server's certificate goes unchecked only if a kubeconfig says so for that
\* server and gives no CA to check it with (buildAuthConfig, k8sTransport:
\* "the CA always wins over the insecure flag").
UncheckedAsTold == row # None /\ row.auth.insecure => ToldUnchecked(row.base)

\* A secret stays with the address it was given for: it never reaches a row
\* made anew under the old name, nor an address it was not meant for, whatever
\* order a kubeconfig lists its users and clusters in, unless the same upstream
\* was re-targeted between the load and the store of an edit (or of a token
\* refresh).  Nor does it go to a server nobody has checked, unless told to.
SecretAtItsAddress ==
  row # None /\ row.id \notin overtaken => row.auth.given = row.base /\ UncheckedAsTold

\* A scan (update = false) never touches a row that was there when it began, nor
\* one made since, however stale its list ("re-running the scan never clobbers
\* operator state", import.go:15); and a name changes its id, and so loses its
\* rules, only through a deletion.
RegistryKeeps ==
  [][row # None =>
       /\ importer.todo # importer'.todo /\ ~ importer.update => row' = row
       /\ row' # None => row'.id = row.id]_registryVars
=============================================================================
