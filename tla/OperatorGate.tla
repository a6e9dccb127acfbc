---------------------------- MODULE OperatorGate ----------------------------
(***************************************************************************)
(* internal/secret/vault.go, internal/opsession and the handlers of        *)
(* internal/daemon/admin.go that join them: the master password, the key   *)
(* in memory, the operator session with its sliding idle window, and the   *)
(* gate in front of every privileged route.                                *)
(*                                                                         *)
(* Key derivation is slow and runs outside every lock, so a password check *)
(* and its effect are two steps; so are the gate and the handler behind    *)
(* it.                                                                     *)
(***************************************************************************)
EXTENDS Naturals

CONSTANTS Passwords, \* what callers may type
          NoKey,     \* no key: vault not initialized, or locked
          Provers,   \* calls of init, unlock and session-open
          Ops,       \* calls of gated routes
          TTL,       \* idle window
          MaxTime    \* bound on the clock

ASSUME GateAssumption == TTL \in Nat \ {0} /\ MaxTime \in Nat /\ NoKey \notin Passwords

VARIABLES
  stored,   \* vault_meta: the password whose verifier is stored, or NoKey
  key,      \* Vault.key, as the password it was derived from
  session,  \* [open, lastUsed]
  prover,   \* prover[p]: [at, kind, pw]
  op,       \* op[o]: how far the gated call o has come
  now,
  active    \* history: when a password was last proved or a gated route last admitted

gateVars == <<stored, key, session, prover, op, now, active>>

Closed == [open |-> FALSE, lastUsed |-> 0]

GateInit ==
  /\ stored = NoKey /\ key = NoKey
  /\ session = Closed
  /\ prover = [p \in Provers |-> [at |-> "idle", kind |-> "init", pw |-> NoKey]]
  /\ op = [o \in Ops |-> "idle"]
  /\ now = 0 /\ active = 0

-----------------------------------------------------------------------------
(* Vault and session entry points.                                          *)

\* (slip) Unlock takes any password.
ProvesAny(kind, pw) == IF kind = "init" THEN stored = NoKey ELSE stored # NoKey

\* The check each call makes before it acts: Init wants no vault, Unlock and
\* Verify compare with the stored verifier.
Proves(kind, pw) == IF kind = "init" THEN stored = NoKey ELSE stored # NoKey /\ stored = pw

\* hVaultInit, hVaultUnlock, hOperatorSessionOpen up to the derived key.
Check(p, kind, pw) ==
  /\ prover[p].at = "idle"
  /\ prover' = [prover EXCEPT ![p] =
        [at |-> IF Proves(kind, pw) THEN "proved" ELSE "refused", kind |-> kind, pw |-> pw]]
  /\ UNCHANGED <<stored, key, session, op, now, active>>

\* (slip) The INSERT replaces.
InitStoreReplaces(p) ==
  /\ prover[p].at = "proved" /\ prover[p].kind = "init"
  /\ stored' = prover[p].pw
  /\ prover' = [prover EXCEPT ![p].at = "keyed"]
  /\ UNCHANGED <<key, session, op, now, active>>

\* Vault.Init: INSERT of row 1; a second one fails.
InitStore(p) ==
  /\ prover[p].at = "proved" /\ prover[p].kind = "init"
  /\ stored' = IF stored = NoKey THEN prover[p].pw ELSE stored
  /\ prover' = [prover EXCEPT ![p].at = IF stored = NoKey THEN "keyed" ELSE "refused"]
  /\ UNCHANGED <<key, session, op, now, active>>

\* Init and Unlock set the key.
SetKey(p) ==
  /\ prover[p].kind # "session"
  /\ prover[p].at = IF prover[p].kind = "init" THEN "keyed" ELSE "proved"
  /\ key' = prover[p].pw
  /\ prover' = [prover EXCEPT ![p].at = "opening"]
  /\ UNCHANGED <<stored, session, op, now, active>>

\* opsession.Open.
SessionOpen(p) ==
  /\ prover[p].at = IF prover[p].kind = "session" THEN "proved" ELSE "opening"
  /\ session' = [open |-> TRUE, lastUsed |-> now]
  /\ active' = now
  /\ prover' = [prover EXCEPT ![p].at = "done"]
  /\ UNCHANGED <<stored, key, op, now>>

\* hOperatorSessionLock.
SessionLock ==
  /\ session' = Closed
  /\ UNCHANGED <<stored, key, prover, op, now, active>>

\* hOperatorSessionStatus: a peek.
SessionStatus ==
  /\ session.open /\ now - session.lastUsed < TTL
  /\ UNCHANGED gateVars

\* (slip) An expired session answers once more before it closes.
IdleLate == now - session.lastUsed > TTL

\* Authorized: the idle window has passed.
Idle == now - session.lastUsed >= TTL

\* operatorGate: Authorized slides the window, or closes an idle session.
Gate(o) ==
  /\ op[o] = "idle"
  /\ \/ /\ session.open /\ ~ Idle
        /\ session' = [session EXCEPT !.lastUsed = now]
        /\ active' = now
        /\ op' = [op EXCEPT ![o] = "admitted"]
     \/ /\ session.open /\ Idle
        /\ session' = Closed
        /\ op' = [op EXCEPT ![o] = "refused"]
        /\ UNCHANGED active
     \/ /\ ~ session.open
        /\ op' = [op EXCEPT ![o] = "refused"]
        /\ UNCHANGED <<session, active>>
  /\ UNCHANGED <<stored, key, prover, now>>

\* The handler behind the gate: a grant (hRuleCreate, hApprovalResolve) does
\* not ask the vault.
Grant(o) ==
  /\ op[o] = "admitted"
  /\ op' = [op EXCEPT ![o] = "granted"]
  /\ UNCHANGED <<stored, key, session, prover, now, active>>

\* The handler behind the gate, when it stores a secret (hUpstreamCreate,
\* hUpstreamSetAuth): Encrypt needs the key.
StoreSecret(o) ==
  /\ op[o] = "admitted"
  /\ op' = [op EXCEPT ![o] = IF key = NoKey THEN "errLocked" ELSE "stored"]
  /\ UNCHANGED <<stored, key, session, prover, now, active>>

\* hVaultLock, a gated route: the key goes, the session stays as it is.
VaultLock(o) ==
  /\ op[o] = "admitted"
  /\ key' = NoKey
  /\ op' = [op EXCEPT ![o] = "done"]
  /\ UNCHANGED <<stored, session, prover, now, active>>

\* The process ends and starts again: the key, the session and the calls in
\* flight are gone, the stored verifier stays.
Restart ==
  /\ key' = NoKey /\ session' = Closed
  /\ prover' = [p \in Provers |->
        IF prover[p].at \in {"idle", "done"} THEN prover[p]
        ELSE [prover[p] EXCEPT !.at = "refused"]]
  /\ op' = [o \in Ops |-> IF op[o] = "admitted" THEN "refused" ELSE op[o]]
  /\ UNCHANGED <<stored, now, active>>

Tick ==
  /\ now < MaxTime /\ now' = now + 1
  /\ UNCHANGED <<stored, key, session, prover, op, active>>

ProverStep(p) == InitStore(p) \/ SetKey(p) \/ SessionOpen(p)

GateNext ==
  \/ \E p \in Provers :
        ProverStep(p) \/ \E k \in {"init", "unlock", "session"}, pw \in Passwords : Check(p, k, pw)
  \/ \E o \in Ops : Gate(o) \/ Grant(o) \/ StoreSecret(o) \/ VaultLock(o)
  \/ SessionLock \/ SessionStatus \/ Restart \/ Tick

GateSpec == GateInit /\ [][GateNext]_gateVars

-----------------------------------------------------------------------------
\* Every variable has its type; the idle window never starts in the future.
GateTypeOK ==
  /\ stored \in Passwords \cup {NoKey} /\ key \in Passwords \cup {NoKey}
  /\ session \in [open : BOOLEAN, lastUsed : 0 .. MaxTime]
  /\ now \in 0 .. MaxTime /\ session.lastUsed <= now
  /\ prover \in [Provers -> [at : {"idle", "proved", "refused", "keyed", "opening", "done"},
                             kind : {"init", "unlock", "session"}, pw : Passwords \cup {NoKey}]]
  /\ op \in [Ops -> {"idle", "admitted", "refused", "granted", "stored", "errLocked", "done"}]
  /\ active \in 0 .. MaxTime

\* The key in memory is always the one the stored verifier accepts, even when
\* two first-time setups race: otherwise secrets would be sealed with a key no
\* later unlock can derive.
KeyMatchesStore == key # NoKey => key = stored

\* No gated route is admitted, and no session opened, unless a caller proved
\* the master password first.
OpenNeedsProof ==
  (session.open \/ \E o \in Ops : op[o] \notin {"idle", "refused"})
     => \E p \in Provers : /\ prover[p].at = "done"
                           /\ prover[p].pw = stored

\* Only use keeps a session alive: once TTL has passed without a password or
\* an admitted call, the gate refuses, however often its status was polled.
UnusedSessionExpires ==
  (session.open /\ now - session.lastUsed < TTL) => now - active < TTL

\* A gated call is admitted only inside the idle window of the use before it.
AdmittedInWindow ==
  [][\A o \in Ops : (op[o] = "idle" /\ op'[o] = "admitted") => now - active < TTL]_gateVars
=============================================================================
