---------------------------- MODULE TokenRefresh ----------------------------
(***************************************************************************)
(* internal/authn (Manager, oidcAuthCode) and the daemon's                 *)
(* persistOAuthTokens over the registry's row: the OAuth tokens of one     *)
(* authorization-code upstream.                                            *)
(*                                                                         *)
(* A token pair is known by its generation: a refresh consumes the refresh *)
(* token of generation g at the identity provider and yields generation    *)
(* g + 1, and the provider accepts the latest refresh token only           *)
(* (rotation).  Three copies race: the encrypted row, the authenticators   *)
(* the Manager has built (one per upstream id cached under its             *)
(* fingerprint), and the row snapshots of the calls in flight.             *)
(***************************************************************************)
EXTENDS UpstreamRegistry

CONSTANTS Calls,   \* data-plane calls
          MaxGen,  \* bound on the provider's generations
          MaxBuilt \* bound on the authenticators built

ASSUME TokenAssumption == MaxGen \in Nat \ {0} /\ MaxBuilt \in Nat

VARIABLES
  idp,     \* [gen, expired]: the latest generation; access tokens <= expired are stale
  built,   \* authenticators, in the order they were built: [id, from, gen, busy]
  cached,  \* cached[id]: index of the Manager's entry, 0 if there is none
  call,    \* call[c]: [at, snap, auth, new, load, sent]
  login,   \* the login callback: [at, id, snap, new]
  quiet    \* history: no edit, no new login, no lock and no restart so far

tokenVars == <<idp, built, cached, call, login>>
vars == <<registryVars, tokenVars, quiet>>

NewCall == [at |-> "new", snap |-> None, auth |-> 0, new |-> 0, load |-> None, sent |-> 0]
NoLogin == [at |-> "new", id |-> 0, snap |-> None, new |-> 0]

Init ==
  /\ RegistryInit
  /\ idp    = [gen |-> 1, expired |-> 0]
  /\ built  = <<>>
  /\ cached = [i \in 1 .. MaxIds |-> 0]
  /\ call   = [c \in Calls |-> NewCall]
  /\ login  = NoLogin
  /\ quiet  = TRUE

-----------------------------------------------------------------------------
\* ServeHTTP: GetByName decrypts the row.
Snapshot(c) ==
  /\ call[c].at = "new" /\ ~ locked /\ row # None
  /\ call' = [call EXCEPT ![c].at = "snap", ![c].snap = row]
  /\ UNCHANGED <<registryVars, idp, built, cached, login, quiet>>

\* (slip) The cache ignores the config it was built from.
HitAlways(snap) == cached[snap.id] # 0

\* fingerprint: the flag for unchecked certificates is not part of it.
Fingerprint(auth) == [auth EXCEPT !.insecure = FALSE]

\* The upstream's cached entry was built from a config of this fingerprint.
Hit(snap) ==
  cached[snap.id] # 0 /\ Fingerprint(built[cached[snap.id]].from) = Fingerprint(snap.auth)

\* build's error: an authorization-code upstream nobody has logged in to, or a
\* cluster that was given such a credential.
CannotBuild(snap) == snap.auth.type = "oidc" /\ (snap.kind = "k8s" \/ snap.auth.gen = 0)

\* managedFor: the entry, or a new authenticator (and transport) that replaces it;
\* an error is BadAuth's, and nothing is sent.
ManagedFor(c) ==
  LET s == call[c].snap IN
  /\ call[c].at = "snap"
  /\ \/ /\ Hit(s)
        /\ call' = [call EXCEPT ![c].at = "apply", ![c].auth = cached[s.id]]
        /\ UNCHANGED <<built, cached>>
     \/ /\ ~ Hit(s) /\ CannotBuild(s)
        /\ call' = [call EXCEPT ![c].at = "done"]
        /\ UNCHANGED <<built, cached>>
     \/ /\ ~ Hit(s) /\ ~ CannotBuild(s) /\ Len(built) < MaxBuilt
        /\ built' = Append(built, [id |-> s.id, from |-> s.auth, gen |-> s.auth.gen, busy |-> FALSE])
        /\ cached' = [cached EXCEPT ![s.id] = Len(built) + 1]
        /\ call' = [call EXCEPT ![c].at = "apply", ![c].auth = Len(built) + 1]
  /\ UNCHANGED <<registryVars, idp, login, quiet>>

\* Apply of a credential without tokens (a cluster's, or none).
ApplyStatic(c) ==
  /\ call[c].at = "apply" /\ built[call[c].auth].from.type # "oidc"
  /\ call' = [call EXCEPT ![c].at = "done"]
  /\ UNCHANGED <<registryVars, idp, built, cached, login, quiet>>

\* The caller has the authenticator's mutex.
Applying(c) ==
  /\ call[c].at = "apply"
  /\ built[call[c].auth].from.type = "oidc" /\ ~ built[call[c].auth].busy

\* Apply, token still good: it is sent.
ApplyFresh(c) ==
  LET a == built[call[c].auth] IN
  /\ Applying(c)
  /\ a.gen > idp.expired
  /\ call' = [call EXCEPT ![c].at = "done", ![c].sent = a.gen]
  /\ UNCHANGED <<registryVars, idp, built, cached, login, quiet>>

\* Apply, token stale: the refresh token is spent, and the mutex stays taken
\* until the new pair is persisted.
ApplyRefresh(c) ==
  LET i == call[c].auth IN
  /\ Applying(c)
  /\ built[i].gen <= idp.expired /\ built[i].gen = idp.gen /\ idp.gen < MaxGen
  /\ idp' = [idp EXCEPT !.gen = @ + 1]
  /\ built' = [built EXCEPT ![i].gen = idp.gen + 1, ![i].busy = TRUE]
  /\ call' = [call EXCEPT ![c].at = "load", ![c].new = idp.gen + 1]
  /\ UNCHANGED <<registryVars, cached, login, quiet>>

\* Apply, the refresh token spent by somebody else: the error is logged and the
\* request goes out without a credential.
ApplyFails(c) ==
  LET a == built[call[c].auth] IN
  /\ Applying(c)
  /\ a.gen <= idp.expired /\ a.gen # idp.gen
  /\ call' = [call EXCEPT ![c].at = "done", ![c].sent = 0]
  /\ UNCHANGED <<registryVars, idp, built, cached, login, quiet>>

\* persistOAuthTokens: GetByID.  A locked vault cannot decrypt, and a deleted
\* upstream is not there: the new pair is not written.
PersistLoad(c) ==
  LET id == built[call[c].auth].id IN
  /\ call[c].at = "load"
  /\ call' = [call EXCEPT ![c].at = IF locked \/ ~ HasId(id) THEN "release" ELSE "store",
                         ![c].load = IF locked \/ ~ HasId(id) THEN None ELSE row]
  /\ UNCHANGED <<registryVars, idp, built, cached, login, quiet>>

\* (slip) Only the access token is written back: the refresh token stays.
WithoutTokens(auth, gen) == auth

\* The loaded credential with the new pair.
WithTokens(auth, gen) == [auth EXCEPT !.gen = gen]

\* persistOAuthTokens: SetAuth of the loaded config with the new pair.
PersistStore(c) ==
  /\ call[c].at = "store"
  /\ SetAuth(call[c].load, WithTokens(call[c].load.auth, call[c].new))
  /\ call' = [call EXCEPT ![c].at = "release", ![c].load = None]
  /\ UNCHANGED <<locked, nextId, editor, importer, idp, built, cached, login, quiet>>

\* Apply ends: the token is sent, the mutex freed.
ApplyEnds(c) ==
  /\ call[c].at = "release"
  /\ built' = [built EXCEPT ![call[c].auth].busy = FALSE]
  /\ call' = [call EXCEPT ![c].at = "done", ![c].new = 0, ![c].sent = call[c].new]
  /\ UNCHANGED <<registryVars, idp, cached, login, quiet>>

-----------------------------------------------------------------------------
\* hOAuthCallback for the upstream the login was started for: a new login at the
\* provider, then persistOAuthTokens.
LoginExchange ==
  /\ login.at = "new" /\ idp.gen < MaxGen /\ row # None /\ ~ locked /\ row.auth.type = "oidc"
  /\ quiet' = FALSE
  /\ idp' = [idp EXCEPT !.gen = @ + 1]
  /\ login' = [login EXCEPT !.at = "load", !.id = row.id, !.new = idp.gen + 1]
  /\ UNCHANGED <<registryVars, built, cached, call>>

LoginLoad ==
  /\ login.at = "load"
  /\ login' = IF locked \/ ~ HasId(login.id) THEN [NoLogin EXCEPT !.at = "done"]
              ELSE [login EXCEPT !.at = "store", !.snap = row]
  /\ UNCHANGED <<registryVars, idp, built, cached, call, quiet>>

LoginStore ==
  /\ login.at = "store"
  /\ SetAuth(login.snap, WithTokens(login.snap.auth, login.new))
  /\ login' = [NoLogin EXCEPT !.at = "done"]
  /\ UNCHANGED <<locked, nextId, editor, importer, idp, built, cached, call, quiet>>

\* Time passes: the latest access token goes stale.
Expire ==
  /\ idp.expired < idp.gen
  /\ idp' = [idp EXCEPT !.expired = idp.gen]
  /\ UNCHANGED <<registryVars, built, cached, call, login, quiet>>

\* An operator, an import or the vault's lock.
Registry == RegistryStep /\ quiet' = FALSE /\ UNCHANGED tokenVars

\* The daemon restarts: the row is all that is left; cut calls are over.
Restart ==
  /\ RegistryRestart
  /\ quiet' = FALSE
  /\ built' = <<>> /\ cached' = [i \in 1 .. MaxIds |-> 0]
  /\ call' = [c \in Calls |-> IF call[c].at = "new" THEN call[c] ELSE [NewCall EXCEPT !.at = "cut"]]
  /\ login' = IF login.at = "new" THEN login ELSE [NoLogin EXCEPT !.at = "done"]
  /\ UNCHANGED idp

CallStep(c) ==
  \/ ManagedFor(c) \/ ApplyStatic(c) \/ ApplyFresh(c) \/ ApplyRefresh(c) \/ ApplyFails(c)
  \/ PersistLoad(c) \/ PersistStore(c) \/ ApplyEnds(c)

Next ==
  \/ \E c \in Calls : Snapshot(c) \/ CallStep(c)
  \/ LoginExchange \/ LoginLoad \/ LoginStore
  \/ Expire \/ Registry \/ Restart

Spec == Init /\ [][Next]_vars

-----------------------------------------------------------------------------
States == {"new", "snap", "apply", "load", "store", "release", "done", "cut"}

Authenticators == [id : 1 .. MaxIds, from : Creds, gen : Nat, busy : BOOLEAN]
CallRecords    == [at : States, snap : Rows \cup {None}, auth : Nat, new : Nat, load : Rows \cup {None}, sent : Nat]

\* Every variable has its type; no copy of the tokens is ahead of the provider.
TypeOK ==
  /\ RegistryTypeOK
  /\ idp \in [gen : 1 .. MaxGen, expired : 0 .. MaxGen] /\ idp.expired <= idp.gen
  /\ built \in Seq(Authenticators) /\ Len(built) <= MaxBuilt
  /\ \A i \in DOMAIN built : built[i].gen <= idp.gen
  /\ cached \in [1 .. MaxIds -> 0 .. Len(built)]
  /\ call \in [Calls -> CallRecords]
  /\ \A c \in Calls : call[c].auth <= Len(built) /\ call[c].new <= idp.gen /\ call[c].sent <= idp.gen
  /\ login \in [at : {"new", "load", "store", "done"}, id : 0 .. MaxIds, snap : Rows \cup {None}, new : Nat]
  /\ login.new <= idp.gen
  /\ quiet \in BOOLEAN

\* A call never goes out with an older token than the one stored when it read
\* the row, nor through an authenticator or a transport of another upstream or
\* config: the Manager's cache is never staler than the caller, but for the
\* flag that fingerprint leaves out (oidc.go:164: "rebuilding it if the auth
\* config changed since last time").
NeverOlderToken ==
  \A c \in Calls :
     (call[c].auth # 0 /\ call[c].at # "cut")
        => /\ [built[call[c].auth].from EXCEPT !.insecure = call[c].snap.auth.insecure] = call[c].snap.auth
           /\ built[call[c].auth].id = call[c].snap.id
           /\ call[c].sent # 0 => call[c].sent >= call[c].snap.auth.gen

\* While a refreshed pair is not stored its authenticator stays locked, so no
\* other call can spend it: two unsaved generations never exist (oidcAuthCode's
\* mutex is held across persist), as long as only calls write the row.
OneUnsavedPair ==
  quiet => \A c, d \in Calls :
     (call[c].at \in {"load", "store"} /\ call[d].at \in {"load", "store"}) => c = d

\* Between refreshes the row holds the provider's latest generation, so a
\* restart needs no new login (oidc_authcode.go: "so the rotated refresh token
\* survives a restart").  Not so after an edit that had loaded the older pair,
\* nor after a refresh under a locked vault: hence quiet.
RowIsLatest ==
  (quiet /\ \A c \in Calls : call[c].at \notin {"load", "store"}) => row.auth.gen = idp.gen

\* The Manager's cache serves no stale authenticator and lets no second refresh
\* start over an unsaved one.
CacheInv == TypeOK /\ NeverOlderToken /\ OneUnsavedPair
=============================================================================
