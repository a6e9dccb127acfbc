----------------------------- MODULE LoginProofs -----------------------------
(***************************************************************************)
(* Proofs about OAuthLogin, for any finite set of logins and any set of    *)
(* callbacks, and about AgentIdentity, for every number of processes,      *)
(* forgets and crashes.                                                    *)
(*                                                                         *)
(* OAuthLogin.  The count is exact only because a login that is released   *)
(* stays released and one that has not acquired was never released         *)
(* (Phases); the listener serves because the server is there exactly while *)
(* the count is not zero (ServerWhileHeld); a login is exchanged once      *)
(* because its state is pending, or with one callback, or spent            *)
(* (StateGoesOnce).                                                        *)
(*                                                                         *)
(* AgentIdentity.  NoSpareAgents is not inductive: it needs the count of   *)
(* tokens that are still in use (MintedAreUsed).  OnlyForgottenAreDropped  *)
(* needs that nothing is stale before the first forget (NothingForgotten), *)
(* and OneForgetIsHealed that after the first one a token from before it   *)
(* is handed on at most once (StaleOnce).  The two share no state.         *)
(***************************************************************************)
EXTENDS OAuthLogin, AgentIdentity, FiniteSetTheorems, TLAPS

\* A login is released, and its timer armed, only once it has acquired; a
\* callback has the login of a browser that was sent away.
Phases ==
  /\ \A l \in Logins : login[l].at \in {"new", "bindError"} => ~ login[l].released /\ login[l].timer = "off"
  /\ \A c \in Callbacks : cb[c].at \in {"exchange", "leave"} =>
        cb[c].login \in Logins /\ login[cb[c].login].at = "started"

\* The server is there exactly while somebody holds it, and it has the port.
ServerWhileHeld ==
  IF stopped THEN srv = 0 ELSE (srv # 0 <=> Holding # {}) /\ (srv # 0 => srv \in bound)

\* The state of a login is with nobody, pending, with one callback, or spent.
StateGoesOnce ==
  \A l \in Logins :
     /\ login[l].at # "started" => l \notin pending
     /\ (login[l].at # "started" \/ l \in pending) =>
           exchanged[l] = 0 /\ \A c \in Callbacks : ~ (cb[c].at = "exchange" /\ cb[c].login = l)
     /\ \A c, d \in Callbacks :
           (cb[c].at = "exchange" /\ cb[d].at = "exchange" /\ cb[c].login = l /\ cb[d].login = l) => c = d
     /\ \A c \in Callbacks : (cb[c].at = "exchange" /\ cb[c].login = l) => exchanged[l] = 0
     /\ exchanged[l] <= 1

PortInv == TypeOK /\ Phases /\ CountIsHolders /\ ServerWhileHeld /\ StateGoesOnce

-----------------------------------------------------------------------------
\* The holders are finitely many.
LEMMA HoldersFinite ==
  /\ IsFiniteSet(Holding) /\ Cardinality(Holding) \in Nat
  /\ Cardinality(Holding) <= Cardinality(Logins) /\ Cardinality(Logins) \in Nat
<1>1. Holding \in SUBSET Logins
  BY DEF Holding
<1> QED
  BY <1>1, LoginAssumption, FS_Subset, FS_CardinalityType

\* A login that has acquired lets go, whether by its timer or by its callback
\* and whether or not the other one did before: the count follows the holders.
LEMMA ReleaseCounts ==
  ASSUME PortInv, NEW l \in Logins, login[l].at \in {"acquired", "started"}, Release(l),
         login' \in [Logins -> [at : {"new", "acquired", "started", "bindError"},
                               timer : {"off", "armed", "fired"}, released : BOOLEAN]],
         login'[l].at = login[l].at, login'[l].released, \A k \in Logins \ {l} : login'[k] = login[k],
         UNCHANGED <<bound, servers, stopped>>
  PROVE  /\ active' \in 0 .. Cardinality(Logins) /\ srv' \in 0 .. servers
         /\ CountIsHolders' /\ ServerWhileHeld'
<1> USE DEF PortInv
<1>1. Holding' = Holding \ {l}
  BY DEF Holding
<1>2. CASE login[l].released
  <2>1. active' = active /\ srv' = srv
    BY <1>2 DEF Release
  <2>2. Holding' = Holding
    BY <1>1, <1>2 DEF Holding
  <2>3. active' \in 0 .. Cardinality(Logins) /\ srv' \in 0 .. servers
    BY <2>1 DEF TypeOK
  <2>4. CountIsHolders' /\ ServerWhileHeld'
    BY <2>1, <2>2 DEF CountIsHolders, ServerWhileHeld
  <2> QED
    BY <2>3, <2>4
<1>3. CASE ~ login[l].released /\ ~ stopped
  <2>1. l \in Holding /\ active = Cardinality(Holding)
    BY <1>3 DEF Holding, CountIsHolders
  <2>2. Cardinality(Holding') = Cardinality(Holding) - 1 /\ IsFiniteSet(Holding')
    BY <1>1, <2>1, HoldersFinite, FS_RemoveElement
  <2>3. Cardinality(Holding) # 0
    BY <2>1, HoldersFinite, FS_EmptySet
  <2>4. active' = active - 1 /\ srv' = IF active - 1 = 0 THEN 0 ELSE srv
    BY <1>3, <2>1, <2>3 DEF Release
  <2>5. active' = Cardinality(Holding') /\ (active' = 0 <=> Holding' = {})
    BY <2>1, <2>2, <2>4, FS_EmptySet
  <2>6. srv # 0 /\ srv \in bound
    BY <1>3, <2>1 DEF ServerWhileHeld
  <2>7. active' \in 0 .. Cardinality(Logins) /\ srv' \in 0 .. servers
    BY <2>1, <2>3, <2>4, HoldersFinite DEF TypeOK
  <2>8. CountIsHolders' /\ ServerWhileHeld'
    BY <1>3, <2>4, <2>5, <2>6 DEF CountIsHolders, ServerWhileHeld
  <2> QED
    BY <2>7, <2>8
<1>4. CASE ~ login[l].released /\ stopped
  <2>1. srv = 0 /\ srv' = 0
    BY <1>4 DEF Release, ServerWhileHeld
  <2>2. active' \in 0 .. Cardinality(Logins) /\ srv' \in 0 .. servers
    BY <1>4, <2>1, HoldersFinite DEF TypeOK, Release
  <2> QED
    BY <1>4, <2>1, <2>2 DEF CountIsHolders, ServerWhileHeld
<1> QED
  BY <1>2, <1>3, <1>4

\* Nobody has logged in.
LEMMA PortInitially == Init => PortInv
<1> SUFFICES ASSUME Init PROVE PortInv
  OBVIOUS
<1>1. Holding = {} /\ Cardinality({}) = 0
  BY FS_EmptySet DEF Init, Holding
<1>2. TypeOK
  <2>1. /\ login \in [Logins -> [at : {"new", "acquired", "started", "bindError"},
                                 timer : {"off", "armed", "fired"}, released : BOOLEAN]]
        /\ cb \in [Callbacks -> [at : {"new", "exchange", "leave", "done"}, login : Logins \cup {NoLogin}]]
        /\ exchanged \in [Logins -> Nat]
    BY DEF Init
  <2>2. servers \in Nat /\ srv \in 0 .. servers /\ bound \subseteq 1 .. servers /\ pending \subseteq Logins
    BY DEF Init
  <2>3. stopped \in BOOLEAN
    BY DEF Init
  <2> QED
    BY <2>1, <2>2, <2>3, HoldersFinite DEF Init, TypeOK
<1>3. Phases /\ StateGoesOnce
  BY DEF Init, Phases, StateGoesOnce
<1>4. CountIsHolders /\ ServerWhileHeld
  BY <1>1 DEF Init, CountIsHolders, ServerWhileHeld
<1> QED
  BY <1>2, <1>3, <1>4 DEF PortInv

\* acquire: the first holder brings the listener up, the others share it.
LEMMA AcquireKeeps ==
  ASSUME PortInv, NEW l \in Logins, Acquire(l)
  PROVE  PortInv'
<1> USE DEF PortInv
<1>1. CASE srv = 0 /\ bound # {}
  <2>1. login' = [login EXCEPT ![l].at = "bindError"] /\ UNCHANGED <<srv, active, bound, servers>>
    BY <1>1 DEF Acquire
  <2>2. TypeOK'
    BY <2>1 DEF TypeOK, Acquire
  <2>3. Holding' = Holding
    BY <2>1 DEF TypeOK, Acquire, Holding
  <2>4. Phases'
    BY <2>1 DEF TypeOK, Acquire, Phases
  <2>5. StateGoesOnce'
    BY <2>1 DEF TypeOK, Acquire, StateGoesOnce
  <2>6. CountIsHolders' /\ ServerWhileHeld'
    BY <2>1, <2>3 DEF Acquire, CountIsHolders, ServerWhileHeld
  <2> QED
    BY <2>2, <2>4, <2>5, <2>6
<1>2. CASE srv # 0 \/ bound = {}
  <2>1. login' = [login EXCEPT ![l].at = "acquired", ![l].timer = "armed"] /\ active' = active + 1
    BY <1>2 DEF Acquire
  <2>2. login[l].at = "new" /\ ~ login[l].released /\ ~ stopped /\ stopped' = stopped
    BY DEF Acquire, Phases
  <2>3. login' \in [Logins -> [at : {"new", "acquired", "started", "bindError"},
                              timer : {"off", "armed", "fired"}, released : BOOLEAN]]
    BY <2>1 DEF TypeOK
  <2>4. l \notin Holding /\ Holding' = Holding \cup {l}
    BY <2>1, <2>2 DEF TypeOK, Holding
  <2>5. IsFiniteSet(Holding') /\ Cardinality(Holding') = Cardinality(Holding) + 1
    BY <2>4, HoldersFinite, FS_AddElement
  <2>6. Cardinality(Holding') <= Cardinality(Logins)
    <3>1. Holding' \in SUBSET Logins
      BY DEF Holding
    <3> QED
      BY <3>1, LoginAssumption, FS_Subset
  <2>7. active' = Cardinality(Holding') /\ active' \in 0 .. Cardinality(Logins)
    BY <2>1, <2>2, <2>5, <2>6, HoldersFinite DEF CountIsHolders
  <2>8. /\ servers' \in Nat /\ srv' \in 0 .. servers' /\ bound' \subseteq 1 .. servers'
        /\ srv' # 0 /\ srv' \in bound'
    <3>1. CASE srv # 0
      BY <2>2, <3>1 DEF TypeOK, Acquire, ServerWhileHeld
    <3>2. CASE srv = 0 /\ bound = {}
      BY <3>2 DEF TypeOK, Acquire
    <3> QED
      BY <1>2, <3>1, <3>2
  <2>9. TypeOK'
    BY <2>2, <2>3, <2>7, <2>8 DEF TypeOK, Acquire
  <2>10. Phases'
    BY <2>1 DEF TypeOK, Acquire, Phases
  <2>11. StateGoesOnce'
    BY <2>1 DEF TypeOK, Acquire, StateGoesOnce
  <2>12. CountIsHolders' /\ ServerWhileHeld'
    BY <2>2, <2>4, <2>7, <2>8 DEF CountIsHolders, ServerWhileHeld
  <2> QED
    BY <2>9, <2>10, <2>11, <2>12
<1> QED
  BY <1>1, <1>2

\* The state becomes pending as the browser is sent away.
LEMMA PutKeeps ==
  ASSUME PortInv, NEW l \in Logins, Put(l)
  PROVE  PortInv'
<1> USE DEF PortInv
<1>1. TypeOK'
  BY DEF TypeOK, Put
<1>2. Holding' = Holding
  BY DEF TypeOK, Put, Holding
<1>3. Phases'
  BY DEF TypeOK, Put, Phases
<1>4. StateGoesOnce'
  BY DEF TypeOK, Put, StateGoesOnce
<1>5. CountIsHolders' /\ ServerWhileHeld'
  BY <1>2 DEF Put, CountIsHolders, ServerWhileHeld
<1> QED
  BY <1>1, <1>3, <1>4, <1>5

\* The timer releases what its login holds.
LEMMA TimerKeeps ==
  ASSUME PortInv, NEW l \in Logins, Timer(l)
  PROVE  PortInv'
<1> USE DEF PortInv
<1>1. login[l].at \in {"acquired", "started"}
  BY DEF TypeOK, Timer, Phases
<1>2. /\ login' \in [Logins -> [at : {"new", "acquired", "started", "bindError"},
                                timer : {"off", "armed", "fired"}, released : BOOLEAN]]
      /\ login'[l].at = login[l].at /\ login'[l].released
      /\ \A k \in Logins \ {l} : login'[k] = login[k]
  BY DEF TypeOK, Timer
<1>3. /\ active' \in 0 .. Cardinality(Logins) /\ srv' \in 0 .. servers
      /\ CountIsHolders' /\ ServerWhileHeld'
  BY <1>1, <1>2, ReleaseCounts DEF Timer
<1>4. TypeOK'
  BY <1>2, <1>3 DEF TypeOK, Timer
<1>5. Phases'
  BY <1>1, <1>2 DEF Timer, Phases
<1>6. StateGoesOnce'
  BY <1>2 DEF Timer, StateGoesOnce
<1> QED
  BY <1>3, <1>4, <1>5, <1>6

\* A callback takes the state away with it, or finds it gone.
LEMMA TakeStep ==
  ASSUME PortInv, NEW c \in Callbacks, NEW l \in Logins, Take(c, l) \/ CallbackError(c, l)
  PROVE  PortInv'
<1> USE DEF PortInv
<1>0. PICK at \in {"exchange", "done"} :
        /\ cb' = [cb EXCEPT ![c] = [at |-> at, login |-> l]]
        /\ at = "exchange" => l \in pending /\ pending' = pending \ {l}
        /\ pending' \in {pending, pending \ {l}}
  <2>1. CASE CallbackError(c, l)
    BY <2>1 DEF CallbackError
  <2>2. CASE Take(c, l)
    BY <2>2 DEF Take
  <2> QED
    BY <2>1, <2>2
<1>1. /\ cb'[c].at = at /\ cb'[c].login = l
      /\ \A d \in Callbacks : d # c => cb'[d] = cb[d]
      /\ at = "exchange" => l \in pending /\ l \notin pending'
      /\ pending' \subseteq pending /\ \A k \in Logins : k # l => (k \in pending' <=> k \in pending)
      /\ login[l].at = "started"
  BY <1>0 DEF TypeOK, Take, CallbackError, Redirectable
<1>2. UNCHANGED <<srv, active, bound, servers, login, exchanged, stopped>>
  BY DEF Take, CallbackError
<1>3. TypeOK'
  <2>1. cb' \in [Callbacks -> [at : {"new", "exchange", "leave", "done"}, login : Logins \cup {NoLogin}]]
    BY <1>0 DEF TypeOK
  <2> QED
    BY <1>1, <1>2, <2>1 DEF TypeOK
<1>4. Phases'
  BY <1>1, <1>2 DEF Phases
<1>5. StateGoesOnce'
  BY <1>1, <1>2 DEF TypeOK, StateGoesOnce
<1>6. CountIsHolders' /\ ServerWhileHeld'
  BY <1>2 DEF CountIsHolders, ServerWhileHeld, Holding
<1> QED
  BY <1>3, <1>4, <1>5, <1>6

\* The exchange spends the state its callback took.
LEMMA ExchangeKeeps ==
  ASSUME PortInv, NEW c \in Callbacks, Exchange(c)
  PROVE  PortInv'
<1> USE DEF PortInv
<1> DEFINE l == cb[c].login
<1>1. /\ cb[c].at = "exchange" /\ cb'[c].at = "leave" /\ cb'[c].login = l
      /\ \A d \in Callbacks : d # c => cb'[d] = cb[d]
      /\ UNCHANGED <<srv, active, bound, servers, login, pending, stopped>>
  BY DEF TypeOK, Exchange
<1>2. l \in Logins /\ login[l].at = "started" /\ exchanged[l] = 0 /\ l \notin pending
  BY <1>1 DEF Phases, StateGoesOnce
<1>3. /\ exchanged' \in [Logins -> Nat] /\ exchanged'[l] <= 1
      /\ \A k \in Logins : k # l => exchanged'[k] = exchanged[k]
  BY <1>2 DEF TypeOK, Exchange
<1>4. TypeOK'
  <2>1. cb' \in [Callbacks -> [at : {"new", "exchange", "leave", "done"}, login : Logins \cup {NoLogin}]]
    BY DEF TypeOK, Exchange
  <2> QED
    BY <1>1, <1>3, <2>1 DEF TypeOK
<1>5. Phases'
  BY <1>1, <1>2 DEF Phases
<1>6. StateGoesOnce'
  <2>1. \A d \in Callbacks : cb'[d].at = "exchange" => d # c /\ cb'[d] = cb[d] /\ cb[d].login # l
    BY <1>1, <1>2 DEF StateGoesOnce
  <2>2. ASSUME NEW k \in Logins, k # l
        PROVE  exchanged'[k] = exchanged[k]
    BY <1>3, <2>2
  <2> QED
    BY <1>1, <1>2, <1>3, <2>1, <2>2 DEF StateGoesOnce
<1>7. CountIsHolders' /\ ServerWhileHeld'
  BY <1>1 DEF CountIsHolders, ServerWhileHeld, Holding
<1> QED
  BY <1>4, <1>5, <1>6, <1>7

\* The handler's deferred release.
LEMMA LeaveKeeps ==
  ASSUME PortInv, NEW c \in Callbacks, Leave(c)
  PROVE  PortInv'
<1> USE DEF PortInv
<1> DEFINE l == cb[c].login
<1>1. l \in Logins /\ login[l].at = "started"
  BY DEF Leave, Phases
<1>2. /\ login' \in [Logins -> [at : {"new", "acquired", "started", "bindError"},
                                timer : {"off", "armed", "fired"}, released : BOOLEAN]]
      /\ login'[l].at = login[l].at /\ login'[l].released
      /\ \A k \in Logins \ {l} : login'[k] = login[k]
  BY <1>1 DEF TypeOK, Leave
<1>3. /\ active' \in 0 .. Cardinality(Logins) /\ srv' \in 0 .. servers
      /\ CountIsHolders' /\ ServerWhileHeld'
  BY <1>1, <1>2, ReleaseCounts DEF Leave
<1>4. /\ cb'[c].at = "done" /\ \A d \in Callbacks : d # c => cb'[d] = cb[d]
      /\ cb' \in [Callbacks -> [at : {"new", "exchange", "leave", "done"}, login : Logins \cup {NoLogin}]]
  BY DEF TypeOK, Leave
<1>5. TypeOK'
  BY <1>2, <1>3, <1>4 DEF TypeOK, Leave
<1>6. Phases'
  BY <1>1, <1>2, <1>4 DEF Leave, Phases
<1>7. StateGoesOnce'
  BY <1>1, <1>2, <1>4 DEF Leave, StateGoesOnce
<1> QED
  BY <1>3, <1>5, <1>6, <1>7

\* The old listener gives the port back, not the one in use.
LEMMA ShutdownDoneKeeps ==
  ASSUME PortInv, NEW s, ShutdownDone(s)
  PROVE  PortInv'
BY DEF PortInv, ShutdownDone, TypeOK, Phases, CountIsHolders, ServerWhileHeld, StateGoesOnce, Holding

\* After Stop nobody counts any more.
LEMMA StopKeeps ==
  ASSUME PortInv, Stop
  PROVE  PortInv'
<1> USE DEF PortInv
<1>1. TypeOK'
  BY HoldersFinite DEF Stop, TypeOK
<1>2. Phases' /\ StateGoesOnce'
  BY DEF Stop, Phases, StateGoesOnce
<1>3. CountIsHolders' /\ ServerWhileHeld'
  BY DEF Stop, CountIsHolders, ServerWhileHeld
<1> QED
  BY <1>1, <1>2, <1>3

\* Every step keeps PortInv.
LEMMA PortStep == PortInv /\ [Next]_vars => PortInv'
<1> SUFFICES ASSUME PortInv, [Next]_vars PROVE PortInv'
  OBVIOUS
<1>1. CASE UNCHANGED vars
  BY <1>1 DEF vars, PortInv, TypeOK, Phases, CountIsHolders, ServerWhileHeld, StateGoesOnce, Holding
<1> QED
  BY <1>1, AcquireKeeps, PutKeeps, TimerKeeps, TakeStep, ExchangeKeeps, LeaveKeeps,
     ShutdownDoneKeeps, StopKeeps DEF Next, LoginStep, CallbackStep

\* PortInv holds throughout every behaviour.
THEOREM PortInvariant == Spec => []PortInv
BY PortInitially, PortStep, PTL DEF Spec

\* For any number of overlapping logins, doubled callbacks and late timers: the
\* reference count of the callback port is the logins that hold it, no login
\* loses the listener to another's end, and no code is exchanged twice
\* (callbackServer, oauthLogins.take, hOAuthCallback).
THEOREM LoginsShareThePort == Spec => []LoginInv
<1>1. PortInv => LoginInv
  BY DEF PortInv, LoginInv, ServerWhileHeld, ListenerServesHolders, StateGoesOnce, ExchangedOnce
<1> QED
  BY <1>1, PortInvariant, PTL

-----------------------------------------------------------------------------
(* AgentIdentity.                                                           *)

\* A process that has come as far as a token has one.
HasToken == \A p \in Procs : proc[p].at \in {"write", "call", "invalidate", "ok", "refused"} => proc[p].token # 0

\* Of the tokens minted one at most is in the file or on its way there; every
\* other was dropped or died with its process.
InUse == file # 0 \/ \E p \in Procs : proc[p].at = "write"
MintedAreUsed == minted <= drops + crashes + (IF InUse THEN 1 ELSE 0)

\* Before the first forget every token is known, none is refused, and whoever
\* has one has the file's.
NothingForgotten ==
  forgets = 0 =>
     /\ known = 1 .. minted /\ drops = 0
     /\ \A p \in Procs : /\ proc[p].at \notin {"invalidate", "failed"} /\ ~ proc[p].retried
                         /\ proc[p].at \in {"call", "ok", "refused"} => file = proc[p].token

\* The registry forgot once.  A stale token about to be written has not been
\* used by anyone; once a process has retried, no stale token is in the file,
\* and what it calls with is known.
StaleOnce ==
  forgets <= 1 =>
     /\ \A q \in Procs : (proc[q].at = "write" /\ proc[q].token \notin known) =>
           \A p \in Procs : proc[p].at \notin {"call", "invalidate"} /\ ~ proc[p].retried
     /\ \A p \in Procs : proc[p].retried =>
           /\ file = 0 \/ file \in known
           /\ proc[p].at = "call" => proc[p].token \in known
           /\ proc[p].at # "invalidate"

IdentityInv ==
  /\ IdentityTypeOK /\ FilledUnderLock /\ HasToken /\ MintedAreUsed
  /\ NothingForgotten /\ StaleOnce /\ OneForgetIsHealed

-----------------------------------------------------------------------------
\* The agent plane answers 401 exactly to a token it does not know, whatever the
\* command, the vault and the arguments (agentID comes first in every handler).
LEMMA RefusalIsStale ==
  ASSUME NEW cmd \in Commands, NEW t
  PROVE  /\ Answer(cmd, t) \in {200, 400, 401, 409}
         /\ Answer(cmd, t) = 401 <=> t \notin known
<1>1. cmd = "whoami" => Answer(cmd, t) = hWhoAmI(t)
  BY DEF Answer
<1>2. cmd = "list" => Answer(cmd, t) = hListUpstreams(t)
  BY DEF Answer
<1>3. cmd = "get" => Answer(cmd, t) = hGetAccess(t, TRUE)
  BY DEF Answer
<1>4. cmd = "lost" => Answer(cmd, t) = hGetAccess(t, FALSE)
  BY DEF Answer
<1>5. cmd = "request" => Answer(cmd, t) = hRequestAccess(t, TRUE)
  BY DEF Answer
<1>6. cmd = "blank" => Answer(cmd, t) = hRequestAccess(t, FALSE)
  BY DEF Answer
<1> QED
  BY <1>1, <1>2, <1>3, <1>4, <1>5, <1>6
     DEF Commands, hWhoAmI, hListUpstreams, hGetAccess, hRequestAccess, agentID

\* There is no token and nobody has done anything.
LEMMA IdentityInitially == IdentityInit => IdentityInv
<1> SUFFICES ASSUME IdentityInit PROVE IdentityInv
  OBVIOUS
<1>1. IdentityTypeOK
  <2>1. minted = 0 /\ file = 0 /\ known = {} /\ locked \in BOOLEAN
    BY DEF IdentityInit
  <2>2. forgets \in Nat /\ crashes \in Nat /\ drops \in Nat /\ lock \in Procs \cup {Nobody}
    BY DEF IdentityInit
  <2>3. proc \in [Procs -> [at : {"lock", "read", "register", "write", "call", "invalidate"} \cup Ended,
                           token : 0 .. 0, retried : BOOLEAN]]
    BY DEF IdentityInit
  <2> QED
    BY <2>1, <2>2, <2>3 DEF IdentityTypeOK
<1>2. FilledUnderLock /\ HasToken /\ OneForgetIsHealed
  BY DEF IdentityInit, FilledUnderLock, InSection, HasToken, OneForgetIsHealed
<1>3. MintedAreUsed
  BY DEF IdentityInit, MintedAreUsed, InUse
<1>4. NothingForgotten /\ StaleOnce
  BY DEF IdentityInit, NothingForgotten, StaleOnce
<1> QED
  BY <1>1, <1>2, <1>3, <1>4 DEF IdentityInv

\* The lock goes to one process at a time.
LEMMA LockKeeps ==
  ASSUME IdentityInv, NEW p \in Procs, AcquireLock(p)
  PROVE  IdentityInv'
<1> USE IdentityAssumption DEF IdentityInv
<1>1. /\ proc'[p] = [proc[p] EXCEPT !.at = "read"]
      /\ \A q \in Procs : q # p => proc'[q] = proc[q]
  BY DEF IdentityTypeOK, AcquireLock
<1>2. IdentityTypeOK'
  BY DEF IdentityTypeOK, AcquireLock
<1>3. FilledUnderLock'
  BY <1>1 DEF IdentityTypeOK, AcquireLock, FilledUnderLock, InSection
<1>4. HasToken' /\ OneForgetIsHealed'
  BY <1>1 DEF IdentityTypeOK, AcquireLock, HasToken, OneForgetIsHealed
<1>5. MintedAreUsed'
  BY <1>1 DEF IdentityTypeOK, AcquireLock, MintedAreUsed, InUse
<1>6. NothingForgotten'
  BY <1>1 DEF IdentityTypeOK, AcquireLock, NothingForgotten
<1>7. StaleOnce'
  BY <1>1 DEF IdentityTypeOK, AcquireLock, StaleOnce
<1> QED
  BY <1>2, <1>3, <1>4, <1>5, <1>6, <1>7

\* A token read from the file is as fresh as the file.
LEMMA ReadTokenKeeps ==
  ASSUME IdentityInv, NEW p \in Procs, ReadToken(p)
  PROVE  IdentityInv'
<1> USE IdentityAssumption DEF IdentityInv
<1>1. \A q \in Procs : q # p => proc'[q] = proc[q] /\ ~ InSection(q)
  BY DEF IdentityTypeOK, ReadToken, FilledUnderLock, InSection
<1>2. IdentityTypeOK'
  BY DEF IdentityTypeOK, ReadToken
<1>3. CASE file # 0
  <2>1. proc'[p] = [proc[p] EXCEPT !.at = "call", !.token = file] /\ lock' = Nobody
    BY <1>3 DEF IdentityTypeOK, ReadToken
  <2>2. FilledUnderLock'
    BY <1>1, <2>1 DEF IdentityTypeOK, ReadToken, FilledUnderLock, InSection
  <2>3. HasToken' /\ OneForgetIsHealed'
    BY <1>1, <1>3, <2>1 DEF IdentityTypeOK, ReadToken, HasToken, OneForgetIsHealed
  <2>4. MintedAreUsed'
    BY <1>1, <1>3, <2>1 DEF IdentityTypeOK, ReadToken, MintedAreUsed, InUse
  <2>5. NothingForgotten'
    BY <1>1, <2>1 DEF IdentityTypeOK, ReadToken, NothingForgotten
  <2>6. StaleOnce'
    BY <1>1, <1>3, <2>1 DEF IdentityTypeOK, ReadToken, StaleOnce, InSection
  <2> QED
    BY <1>2, <2>2, <2>3, <2>4, <2>5, <2>6
<1>4. CASE file = 0
  <2>1. proc'[p] = [proc[p] EXCEPT !.at = "register"] /\ lock' = lock
    BY <1>4 DEF IdentityTypeOK, ReadToken
  <2>2. FilledUnderLock'
    BY <1>1, <1>4, <2>1 DEF IdentityTypeOK, ReadToken, FilledUnderLock, InSection
  <2>3. HasToken' /\ OneForgetIsHealed'
    BY <1>1, <2>1 DEF IdentityTypeOK, ReadToken, HasToken, OneForgetIsHealed
  <2>4. MintedAreUsed'
    BY <1>1, <2>1 DEF IdentityTypeOK, ReadToken, MintedAreUsed, InUse
  <2>5. NothingForgotten' /\ StaleOnce'
    BY <1>1, <2>1 DEF IdentityTypeOK, ReadToken, NothingForgotten, StaleOnce
  <2> QED
    BY <1>2, <2>2, <2>3, <2>4, <2>5
<1> QED
  BY <1>3, <1>4

\* A new agent is registered only when no token is in use.
LEMMA RegisterKeeps ==
  ASSUME IdentityInv, NEW p \in Procs, Register(p)
  PROVE  IdentityInv'
<1> USE IdentityAssumption DEF IdentityInv
<1>1. /\ proc'[p] = [proc[p] EXCEPT !.at = "write", !.token = minted + 1]
      /\ \A q \in Procs : q # p => proc'[q] = proc[q] /\ ~ InSection(q)
      /\ file = 0
  BY DEF IdentityTypeOK, Register, FilledUnderLock, InSection
<1>2. IdentityTypeOK'
  BY DEF IdentityTypeOK, Register, hRegister
<1>3. FilledUnderLock'
  BY <1>1 DEF IdentityTypeOK, Register, FilledUnderLock, InSection
<1>4. HasToken' /\ OneForgetIsHealed'
  BY <1>1 DEF IdentityTypeOK, Register, HasToken, OneForgetIsHealed
<1>5. MintedAreUsed'
  BY <1>1 DEF IdentityTypeOK, Register, hRegister, MintedAreUsed, InUse, InSection
<1>6. NothingForgotten'
  <2>1. forgets = 0 => known' = 1 .. minted'
    BY DEF IdentityTypeOK, Register, hRegister, NothingForgotten
  <2> QED
    BY <1>1, <2>1 DEF IdentityTypeOK, Register, NothingForgotten
<1>7. StaleOnce'
  BY <1>1 DEF IdentityTypeOK, Register, hRegister, StaleOnce, InSection
<1> QED
  BY <1>2, <1>3, <1>4, <1>5, <1>6, <1>7

\* The token written replaces none.
LEMMA WriteTokenKeeps ==
  ASSUME IdentityInv, NEW p \in Procs, WriteToken(p)
  PROVE  IdentityInv'
<1> USE IdentityAssumption DEF IdentityInv
<1>1. /\ proc'[p] = [proc[p] EXCEPT !.at = "call"]
      /\ \A q \in Procs : q # p => proc'[q] = proc[q] /\ ~ InSection(q)
      /\ file = 0 /\ file' = proc[p].token /\ proc[p].token # 0
  BY DEF IdentityTypeOK, WriteToken, FilledUnderLock, InSection, HasToken
<1>2. IdentityTypeOK'
  BY DEF IdentityTypeOK, WriteToken
<1>3. FilledUnderLock'
  BY <1>1 DEF IdentityTypeOK, WriteToken, FilledUnderLock, InSection
<1>4. HasToken' /\ OneForgetIsHealed'
  BY <1>1 DEF IdentityTypeOK, WriteToken, HasToken, OneForgetIsHealed
<1>5. MintedAreUsed'
  BY <1>1 DEF IdentityTypeOK, WriteToken, MintedAreUsed, InUse
<1>6. NothingForgotten'
  BY <1>1 DEF IdentityTypeOK, WriteToken, NothingForgotten, HasToken
<1>7. StaleOnce'
  BY <1>1 DEF IdentityTypeOK, WriteToken, StaleOnce, InSection
<1> QED
  BY <1>2, <1>3, <1>4, <1>5, <1>6, <1>7

\* Only a token the registry does not know is refused as stale.
LEMMA CallKeeps ==
  ASSUME IdentityInv, NEW p \in Procs, NEW cmd \in Commands, Call(p, cmd)
  PROVE  IdentityInv'
<1> USE IdentityAssumption DEF IdentityInv
<1> DEFINE at == proc'[p].at
           stale == proc[p].token \notin known
<1>1. /\ proc'[p] = [proc[p] EXCEPT !.at = at] /\ proc[p].at = "call"
      /\ \A q \in Procs : q # p => proc'[q] = proc[q]
      /\ at \in {"ok", "refused", "invalidate", "failed"}
      /\ stale <=> at \in {"invalidate", "failed"}
      /\ stale => (proc[p].retried <=> at = "failed")
  BY RefusalIsStale DEF IdentityTypeOK, Call, isStaleAgentToken
<1>2. IdentityTypeOK'
  BY <1>1 DEF IdentityTypeOK, Call, Ended
<1>3. FilledUnderLock'
  BY <1>1 DEF IdentityTypeOK, Call, FilledUnderLock, InSection
<1>4. HasToken'
  BY <1>1 DEF IdentityTypeOK, Call, HasToken
<1>5. MintedAreUsed'
  BY <1>1 DEF IdentityTypeOK, Call, MintedAreUsed, InUse
<1>6. NothingForgotten'
  BY <1>1 DEF IdentityTypeOK, Call, NothingForgotten, HasToken
<1>7. StaleOnce' /\ OneForgetIsHealed'
  BY <1>1 DEF IdentityTypeOK, Call, StaleOnce, OneForgetIsHealed
<1> QED
  BY <1>2, <1>3, <1>4, <1>5, <1>6, <1>7

\* A token is dropped only after a forget, and then nobody holds the lock with it.
LEMMA InvalidateStep ==
  ASSUME IdentityInv, NEW p \in Procs, Invalidate(p)
  PROVE  IdentityInv'
<1> USE IdentityAssumption DEF IdentityInv
<1>1. /\ proc'[p] = [proc[p] EXCEPT !.at = "lock", !.retried = TRUE] /\ proc[p].at = "invalidate"
      /\ \A q \in Procs : q # p => proc'[q] = proc[q]
      /\ forgets # 0
  BY DEF IdentityTypeOK, Invalidate, NothingForgotten
<1>2. IdentityTypeOK'
  <2>1. proc' \in [Procs -> [at : {"lock", "read", "register", "write", "call", "invalidate"} \cup Ended,
                            token : 0 .. minted, retried : BOOLEAN]]
    BY DEF IdentityTypeOK, Invalidate
  <2> QED
    BY <2>1 DEF IdentityTypeOK, Invalidate
<1>3. FilledUnderLock'
  BY <1>1 DEF IdentityTypeOK, Invalidate, FilledUnderLock, InSection
<1>4. HasToken' /\ OneForgetIsHealed'
  BY <1>1 DEF IdentityTypeOK, Invalidate, HasToken, OneForgetIsHealed
<1>5. MintedAreUsed'
  BY <1>1 DEF IdentityTypeOK, Invalidate, MintedAreUsed, InUse, FilledUnderLock, InSection
<1>6. NothingForgotten'
  BY <1>1 DEF IdentityTypeOK, Invalidate, NothingForgotten
<1>7. StaleOnce'
  BY <1>1 DEF IdentityTypeOK, Invalidate, StaleOnce
<1> QED
  BY <1>2, <1>3, <1>4, <1>5, <1>6, <1>7

\* The registry forgets: what was fresh until then is the only thing stale.
LEMMA ForgetKeeps ==
  ASSUME IdentityInv, Forget
  PROVE  IdentityInv'
<1> USE IdentityAssumption DEF IdentityInv
<1>1. IdentityTypeOK'
  BY DEF IdentityTypeOK, Forget
<1>2. FilledUnderLock' /\ HasToken'
  BY DEF Forget, FilledUnderLock, InSection, HasToken
<1>3. MintedAreUsed' /\ OneForgetIsHealed'
  BY DEF IdentityTypeOK, Forget, MintedAreUsed, InUse, OneForgetIsHealed
<1>4. NothingForgotten'
  BY DEF IdentityTypeOK, Forget, NothingForgotten
<1>5. StaleOnce'
  <2>1. forgets' <= 1 => forgets = 0
    BY DEF IdentityTypeOK, Forget
  <2>2. ASSUME forgets = 0, NEW q \in Procs, proc[q].at = "write", NEW p \in Procs
        PROVE  proc[p].at \notin {"call", "invalidate"}
    BY <2>2 DEF NothingForgotten, FilledUnderLock, InSection, HasToken
  <2> QED
    BY <2>1, <2>2 DEF Forget, NothingForgotten, StaleOnce
<1> QED
  BY <1>1, <1>2, <1>3, <1>4, <1>5

\* A death frees the lock and costs at most the token that was not written yet.
LEMMA CrashKeeps ==
  ASSUME IdentityInv, NEW p \in Procs, Crash(p)
  PROVE  IdentityInv'
<1> USE IdentityAssumption DEF IdentityInv
<1>1. /\ proc'[p] = [proc[p] EXCEPT !.at = "dead"]
      /\ \A q \in Procs : q # p => proc'[q] = proc[q]
  BY DEF IdentityTypeOK, Crash
<1>2. IdentityTypeOK'
  BY DEF IdentityTypeOK, Crash, Ended
<1>3. FilledUnderLock'
  BY <1>1 DEF IdentityTypeOK, Crash, FilledUnderLock, InSection
<1>4. HasToken' /\ OneForgetIsHealed'
  BY <1>1 DEF IdentityTypeOK, Crash, HasToken, OneForgetIsHealed
<1>5. MintedAreUsed'
  BY <1>1 DEF IdentityTypeOK, Crash, MintedAreUsed, InUse
<1>6. NothingForgotten'
  BY <1>1 DEF IdentityTypeOK, Crash, NothingForgotten
<1>7. StaleOnce'
  BY <1>1 DEF IdentityTypeOK, Crash, StaleOnce
<1> QED
  BY <1>2, <1>3, <1>4, <1>5, <1>6, <1>7

\* Every step keeps IdentityInv.
LEMMA IdentityStep == IdentityInv /\ [IdentityNext]_identityVars => IdentityInv'
<1> SUFFICES ASSUME IdentityInv, [IdentityNext]_identityVars PROVE IdentityInv'
  OBVIOUS
<1>1. CASE VaultLock \/ UNCHANGED identityVars
  BY <1>1 DEF VaultLock, identityVars, IdentityInv, IdentityTypeOK, FilledUnderLock, InSection, HasToken,
              MintedAreUsed, InUse, NothingForgotten, StaleOnce, OneForgetIsHealed
<1> QED
  BY <1>1, ForgetKeeps, LockKeeps, ReadTokenKeeps, RegisterKeeps, WriteTokenKeeps, CallKeeps,
     InvalidateStep, CrashKeeps DEF IdentityNext, ProcStep

\* IdentityInv holds throughout every behaviour.
THEOREM IdentityInvariant == IdentitySpec => []IdentityInv
BY IdentityInitially, IdentityStep, PTL DEF IdentitySpec

\* What the checked invariants say follows from it.
LEMMA IdentityImplies == IdentityInv => FileInv
<1> SUFFICES ASSUME IdentityInv PROVE FileInv
  OBVIOUS
<1> USE DEF IdentityInv
<1>1. NoSpareAgents
  BY DEF IdentityTypeOK, MintedAreUsed, NoSpareAgents
<1>2. OnlyForgottenAreDropped
  BY DEF IdentityTypeOK, NothingForgotten, HasToken, OnlyForgottenAreDropped
<1> QED
  BY <1>1, <1>2 DEF FileInv

\* However many commands of a project start, retry, crash and race, its token is
\* filled under the lock, no agent is registered needlessly, and nothing but a
\* refused token is dropped (LoadOrRegister, Invalidate, doAgent).
THEOREM OneAgentPerProject == IdentitySpec => []FileInv
BY IdentityInvariant, IdentityImplies, PTL

\* One retry is enough: a command fails for want of an agent only if the registry
\* forgot twice (doAgent).
THEOREM RetryHeals == IdentitySpec => []OneForgetIsHealed
BY IdentityInvariant, PTL DEF IdentityInv
=============================================================================
