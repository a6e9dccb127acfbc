--------------------------- MODULE AgentIdentity ---------------------------
(***************************************************************************)
(* internal/agentid, doAgent of internal/cli and the agent plane of        *)
(* internal/agentapi: the agent token of one project, shared by every      *)
(* outwall process that runs in it, and what the daemon answers to it.     *)
(*                                                                         *)
(* The token file is filled under an exclusive flock and dropped, when the *)
(* daemon refuses its token, without one.  A process may die at any point; *)
(* the kernel then frees its lock.  The daemon's registry may forget the   *)
(* agent at any point (deleted by the operator, or the database reset).    *)
(***************************************************************************)
EXTENDS Naturals, FiniteSets

CONSTANTS Procs,      \* agent-plane commands, one process each
          Nobody,     \* the lock is free
          MaxForgets, \* bound on how often the registry forgets
          MaxCrashes  \* bound on the processes that die

ASSUME IdentityAssumption == Nobody \notin Procs /\ MaxForgets \in Nat /\ MaxCrashes \in Nat

VARIABLES
  file,     \* the token file's content; 0: there is none
  lock,     \* who holds the flock
  known,    \* tokens the daemon's registry accepts
  minted,   \* tokens registered so far: 1 .. minted
  locked,   \* the daemon's vault is locked
  proc,     \* proc[p]: [at, token, retried]
  forgets, crashes, drops   \* histories

identityVars == <<file, lock, known, minted, locked, proc, forgets, crashes, drops>>

Ended == {"ok", "failed", "refused", "dead"}

\* Agent-plane commands: who the agent is, the upstreams, one of them, one that
\* does not exist, a request for access, and one that does not say why.
Commands == {"whoami", "list", "get", "lost", "request", "blank"}

IdentityInit ==
  /\ file = 0 /\ lock = Nobody /\ known = {} /\ minted = 0 /\ locked = FALSE
  /\ proc = [p \in Procs |-> [at |-> "lock", token |-> 0, retried |-> FALSE]]
  /\ forgets = 0 /\ crashes = 0 /\ drops = 0

-----------------------------------------------------------------------------
\* (slip) The lock is asked for and not waited for.
AcquireAnyway(p) ==
  /\ proc[p].at = "lock"
  /\ lock' = p
  /\ proc' = [proc EXCEPT ![p].at = "read"]
  /\ UNCHANGED <<file, known, minted, locked, forgets, crashes, drops>>

\* LoadOrRegister: flock(LOCK_EX).
AcquireLock(p) ==
  /\ proc[p].at = "lock" /\ lock = Nobody
  /\ lock' = p
  /\ proc' = [proc EXCEPT ![p].at = "read"]
  /\ UNCHANGED <<file, known, minted, locked, forgets, crashes, drops>>

\* A token in the file is taken; the lock is released on return.
ReadToken(p) ==
  /\ proc[p].at = "read"
  /\ \/ /\ file # 0
        /\ proc' = [proc EXCEPT ![p].at = "call", ![p].token = file]
        /\ lock' = Nobody
     \/ file = 0 /\ proc' = [proc EXCEPT ![p].at = "register"] /\ UNCHANGED lock
  /\ UNCHANGED <<file, known, minted, locked, forgets, crashes, drops>>

\* hRegister: a new agent, whether or not the vault is locked.
hRegister == minted' = minted + 1 /\ known' = known \cup {minted + 1}

\* LoadOrRegister's POST /register; the daemon answers with the token.
Register(p) ==
  /\ proc[p].at = "register"
  /\ hRegister
  /\ proc' = [proc EXCEPT ![p].at = "write", ![p].token = minted + 1]
  /\ UNCHANGED <<file, lock, locked, forgets, crashes, drops>>

\* Temporary file and rename: the whole token or nothing.
WriteToken(p) ==
  /\ proc[p].at = "write"
  /\ file' = proc[p].token
  /\ lock' = Nobody
  /\ proc' = [proc EXCEPT ![p].at = "call"]
  /\ UNCHANGED <<known, minted, locked, forgets, crashes, drops>>

\* agentID: every call authenticates the token it presents.
agentID(t) == t \in known

\* hWhoAmI, hInstructions.
hWhoAmI(t) == IF agentID(t) THEN 200 ELSE 401

\* hListUpstreams: the vault comes after the token.
hListUpstreams(t) == IF ~ agentID(t) THEN 401 ELSE IF locked THEN 409 ELSE 200

\* hGetAccess, hKubeconfig: so it does here; a cluster nobody knows is refused.
hGetAccess(t, found) == IF hListUpstreams(t) = 200 /\ ~ found THEN 400 ELSE hListUpstreams(t)

\* hRequestHostAccess, hRequestAccess, hRequestK8sAccess, hRequestPreset: the
\* purpose comes between the two.
hRequestAccess(t, purpose) ==
  IF agentID(t) /\ ~ purpose THEN 400 ELSE hListUpstreams(t)

Answer(cmd, t) ==
  CASE cmd = "whoami"  -> hWhoAmI(t)
    [] cmd = "list"    -> hListUpstreams(t)
    [] cmd = "get"     -> hGetAccess(t, TRUE)
    [] cmd = "lost"    -> hGetAccess(t, FALSE)
    [] cmd = "request" -> hRequestAccess(t, TRUE)
    [] cmd = "blank"   -> hRequestAccess(t, FALSE)

\* (slip) Every refusal is taken for a stale token.
isStaleOnError(answer) == answer # 200

isStaleAgentToken(answer) == answer = 401

\* doAgent: the call; a stale token is retried once, after Invalidate.  A stale
\* token is refused whatever the command, so which one it is can be left open
\* until the last call.
Call(p, cmd) ==
  LET answer == Answer(cmd, proc[p].token) IN
  /\ proc[p].at = "call"
  /\ proc' = [proc EXCEPT ![p].at =
        IF answer = 200 THEN "ok"
        ELSE IF isStaleAgentToken(answer) /\ ~ proc[p].retried THEN "invalidate"
        ELSE IF answer = 401 THEN "failed" ELSE "refused"]
  /\ UNCHANGED <<file, lock, known, minted, locked, forgets, crashes, drops>>

\* (slip) The stale token stays in its file.
InvalidateKeeps(p) ==
  /\ proc[p].at = "invalidate"
  /\ drops' = drops + 1
  /\ proc' = [proc EXCEPT ![p].at = "lock", ![p].retried = TRUE]
  /\ UNCHANGED <<file, lock, known, minted, locked, forgets, crashes>>

\* Invalidate: the file is removed, whatever token it holds by now (it may be
\* the fresh one of a command that healed first).
Invalidate(p) ==
  /\ proc[p].at = "invalidate"
  /\ file' = 0
  /\ drops' = IF file = 0 THEN drops ELSE drops + 1
  /\ proc' = [proc EXCEPT ![p].at = "lock", ![p].retried = TRUE]
  /\ UNCHANGED <<lock, known, minted, locked, forgets, crashes>>

-----------------------------------------------------------------------------
\* hAgentDelete, or a new database.
Forget ==
  /\ forgets < MaxForgets /\ known # {}
  /\ known' = {} /\ forgets' = forgets + 1
  /\ UNCHANGED <<file, lock, minted, proc, crashes, drops, locked>>

\* The operator locks or unlocks the vault.
VaultLock ==
  /\ locked' = ~ locked
  /\ UNCHANGED <<file, lock, known, minted, proc, forgets, crashes, drops>>

\* (slip) The lock is a file that outlives its owner.
CrashKeepsLock(p) ==
  /\ crashes < MaxCrashes /\ proc[p].at \notin Ended
  /\ crashes' = crashes + 1
  /\ proc' = [proc EXCEPT ![p].at = "dead"]
  /\ UNCHANGED <<file, lock, known, minted, locked, forgets, drops>>

\* A process dies, or gives up on an error (the daemon or the disk refuses); its
\* flock goes with it.
Crash(p) ==
  /\ crashes < MaxCrashes /\ proc[p].at \notin Ended
  /\ crashes' = crashes + 1
  /\ lock' = IF lock = p THEN Nobody ELSE lock
  /\ proc' = [proc EXCEPT ![p].at = "dead"]
  /\ UNCHANGED <<file, known, minted, locked, forgets, drops>>

ProcStep(p) ==
  \/ AcquireLock(p) \/ ReadToken(p) \/ Register(p) \/ WriteToken(p) \/ Invalidate(p)
  \/ \E cmd \in Commands : Call(p, cmd)

IdentityNext == Forget \/ VaultLock \/ \E p \in Procs : ProcStep(p) \/ Crash(p)

IdentitySpec == IdentityInit /\ [][IdentityNext]_identityVars

\* A process that can run runs, and the kernel hands a lock that is freed again
\* and again to everyone who waits for it.
IdentityFairSpec == IdentitySpec /\ \A p \in Procs : WF_identityVars(ProcStep(p)) /\ SF_identityVars(AcquireLock(p))

-----------------------------------------------------------------------------
InSection(p) == proc[p].at \in {"read", "register", "write"}

\* Every variable has its type.
IdentityTypeOK ==
  /\ minted \in Nat /\ file \in 0 .. minted /\ known \subseteq 1 .. minted
  /\ lock \in Procs \cup {Nobody} /\ locked \in BOOLEAN
  /\ proc \in [Procs -> [at : {"lock", "read", "register", "write", "call", "invalidate"} \cup Ended,
                         token : 0 .. minted, retried : BOOLEAN]]
  /\ forgets \in Nat /\ crashes \in Nat /\ drops \in Nat

\* Agents are not multiplied: one for the project, and one more only for every
\* token that was dropped and every process that died before it had written
\* its token (LoadOrRegister: "exactly one agent is registered").
NoSpareAgents == minted <= 1 + drops + crashes

\* No answer but 401 costs the project its agent: a locked vault, a request
\* that is refused and a command that dies leave the token where it is, for the
\* grants are bound to it (isStaleAgentToken).
OnlyForgottenAreDropped ==
  /\ drops > 0 => forgets > 0
  /\ \A p \in Procs : proc[p].at = "refused" => proc[p].token # 0 /\ (forgets = 0 => file = proc[p].token)

\* Only the holder of the flock is between its look at the file and the end of
\* its write, so no process overwrites a token that another one is using.
FilledUnderLock == \A p \in Procs : InSection(p) => lock = p /\ (proc[p].at # "read" => file = 0)

\* A command survives the loss of its agent: it fails only if the registry
\* forgot twice, however many other commands heal at the same time (doAgent's
\* single retry is enough).
OneForgetIsHealed == \A p \in Procs : proc[p].at = "failed" => forgets >= 2

\* Every command ends, even if others die holding the lock.
CommandsEnd == \A p \in Procs : <>(proc[p].at \in Ended)

\* The token file is filled under its lock, and so one project is one agent.
FileInv == IdentityTypeOK /\ FilledUnderLock /\ NoSpareAgents /\ OnlyForgottenAreDropped
=============================================================================
