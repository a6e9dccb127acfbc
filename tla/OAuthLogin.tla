----------------------------- MODULE OAuthLogin -----------------------------
(***************************************************************************)
(* internal/daemon/oauth.go: browser logins and the callback listener they *)
(* share.  The listener is bound while at least one login holds it; a      *)
(* login lets go on its callback or on its timer, whichever comes first.   *)
(* The old listener is closed by a goroutine of its own, after the server  *)
(* was already forgotten.                                                  *)
(***************************************************************************)
EXTENDS Integers, FiniteSets

CONSTANTS Logins,     \* POST /upstreams/{name}/oauth/login calls
          Callbacks   \* requests to /callback

ASSUME LoginAssumption == IsFiniteSet(Logins)

VARIABLES
  srv,       \* callbackServer.srv; 0 is nil
  active,    \* callbackServer.active
  bound,     \* servers whose listener still has the port
  servers,   \* servers started so far: 1 .. servers
  login,     \* login[l]: [at, timer, released]
  pending,   \* keys of oauthLogins.m
  cb,        \* cb[c]: [at, login]
  exchanged, \* history: exchanged[l], code exchanges for the login
  stopped    \* the daemon has shut the callback server down

vars == <<srv, active, bound, servers, login, pending, cb, exchanged, stopped>>

NoLogin == 0

Init ==
  /\ srv = 0 /\ active = 0 /\ bound = {} /\ servers = 0
  /\ login = [l \in Logins |-> [at |-> "new", timer |-> "off", released |-> FALSE]]
  /\ pending = {}
  /\ cb = [c \in Callbacks |-> [at |-> "new", login |-> NoLogin]]
  /\ exchanged = [l \in Logins |-> 0]
  /\ stopped = FALSE

-----------------------------------------------------------------------------
(* callbackServer.                                                          *)

\* (slip) Every call of release counts.
ReleaseTwice(l) ==
  LET n == IF active > 0 THEN active - 1 ELSE 0 IN
  /\ active' = n
  /\ srv' = IF n = 0 THEN 0 ELSE srv

\* The login's release, once: the last one forgets the server.
Release(l) ==
  LET n == IF login[l].released \/ active = 0 THEN active ELSE active - 1 IN
  /\ active' = n
  /\ srv' = IF ~ login[l].released /\ n = 0 THEN 0 ELSE srv

\* srv.Shutdown in its goroutine: the listener gives the port back.
ShutdownDone(s) ==
  /\ s \in bound \ {srv}
  /\ bound' = bound \ {s}
  /\ UNCHANGED <<srv, active, servers, login, pending, cb, exchanged, stopped>>

\* hOAuthLogin: acquire, and the timer; while an old listener still has the port
\* the bind fails and so does the login.
Acquire(l) ==
  /\ login[l].at = "new" /\ ~ stopped
  /\ \/ /\ srv # 0
        /\ active' = active + 1
        /\ login' = [login EXCEPT ![l].at = "acquired", ![l].timer = "armed"]
        /\ UNCHANGED <<srv, bound, servers>>
     \/ /\ srv = 0 /\ bound # {}
        /\ login' = [login EXCEPT ![l].at = "bindError"]
        /\ UNCHANGED <<srv, active, bound, servers>>
     \/ /\ srv = 0 /\ bound = {}
        /\ servers' = servers + 1 /\ srv' = servers + 1 /\ bound' = {servers + 1}
        /\ active' = active + 1
        /\ login' = [login EXCEPT ![l].at = "acquired", ![l].timer = "armed"]
  /\ UNCHANGED <<pending, cb, exchanged, stopped>>

\* hOAuthLogin: put; the browser is sent to the provider.
Put(l) ==
  /\ login[l].at = "acquired"
  /\ pending' = pending \cup {l}
  /\ login' = [login EXCEPT ![l].at = "started"]
  /\ UNCHANGED <<srv, active, bound, servers, cb, exchanged, stopped>>

\* (slip) Nobody arms the timer.
TimerNever(l) == FALSE

\* AfterFunc(oauthLoginTTL, release).
Timer(l) ==
  /\ login[l].timer = "armed"
  /\ Release(l)
  /\ login' = [login EXCEPT ![l].released = TRUE, ![l].timer = "fired"]
  /\ UNCHANGED <<bound, servers, pending, cb, exchanged, stopped>>

-----------------------------------------------------------------------------
(* hOAuthCallback; the provider may redirect twice, the user may reload.    *)

\* A login the browser can be redirected for: it was started, and the port answers.
Redirectable(l) == login[l].at = "started" /\ bound # {}

\* ?error=...: the page, and nothing else; the login stays until its timer.
CallbackError(c, l) ==
  /\ cb[c].at = "new" /\ Redirectable(l)
  /\ cb' = [cb EXCEPT ![c] = [at |-> "done", login |-> l]]
  /\ UNCHANGED <<srv, active, bound, servers, login, pending, exchanged, stopped>>

\* (slip) The state is looked up, not taken.
TakeKeeps(c, l) ==
  /\ cb[c].at = "new" /\ Redirectable(l)
  /\ cb' = [cb EXCEPT ![c] = [at |-> IF l \in pending THEN "exchange" ELSE "done", login |-> l]]
  /\ UNCHANGED <<srv, active, bound, servers, login, pending, exchanged, stopped>>

\* take: the state works once; past its expiry it is dropped.  The expiry is a
\* moment after the timer's, so a fired timer leaves both outcomes open.
Take(c, l) ==
  /\ cb[c].at = "new" /\ Redirectable(l)
  /\ \E expired \in (IF login[l].timer = "fired" THEN BOOLEAN ELSE {FALSE}) :
        cb' = [cb EXCEPT ![c] =
           [at |-> IF l \in pending /\ ~ expired THEN "exchange" ELSE "done", login |-> l]]
  /\ pending' = pending \ {l}
  /\ UNCHANGED <<srv, active, bound, servers, login, exchanged, stopped>>

\* The code is exchanged and the tokens persisted, or the exchange fails (or
\* the upstream is gone).
Exchange(c) ==
  /\ cb[c].at = "exchange"
  /\ \/ exchanged' = [exchanged EXCEPT ![cb[c].login] = @ + 1]
     \/ UNCHANGED exchanged
  /\ cb' = [cb EXCEPT ![c].at = "leave"]
  /\ UNCHANGED <<srv, active, bound, servers, login, pending, stopped>>

\* The handler's deferred release.
Leave(c) ==
  /\ cb[c].at = "leave"
  /\ Release(cb[c].login)
  /\ login' = [login EXCEPT ![cb[c].login].released = TRUE]
  /\ cb' = [cb EXCEPT ![c].at = "done"]
  /\ UNCHANGED <<bound, servers, pending, exchanged, stopped>>

\* Serve ends: shutdown, whatever is in flight.
Stop ==
  /\ ~ stopped /\ stopped' = TRUE
  /\ bound' = bound \ {srv}
  /\ srv' = 0
  /\ active' = IF srv = 0 THEN active ELSE 0
  /\ UNCHANGED <<servers, login, pending, cb, exchanged>>

LoginStep(l)    == Put(l) \/ Timer(l)
CallbackStep(c) == Exchange(c) \/ Leave(c)

Next ==
  \/ \E l \in Logins : Acquire(l) \/ LoginStep(l)
  \/ \E c \in Callbacks : CallbackStep(c) \/ \E l \in Logins : CallbackError(c, l) \/ Take(c, l)
  \/ \E s \in bound : ShutdownDone(s)
  \/ Stop

Spec == Init /\ [][Next]_vars

\* Handlers go on, timers fire, and Shutdown (bounded by its own timeout) ends;
\* nobody has to log in or to come back from the provider.
FairSpec ==
  /\ Spec
  /\ \A l \in Logins : WF_vars(Put(l)) /\ WF_vars(Timer(l))
  /\ \A c \in Callbacks : WF_vars(CallbackStep(c))
  /\ WF_vars(\E s \in bound : ShutdownDone(s))

-----------------------------------------------------------------------------
Holding == {l \in Logins : login[l].at \in {"acquired", "started"} /\ ~ login[l].released}

\* Every variable has its type.
TypeOK ==
  /\ servers \in Nat /\ srv \in 0 .. servers /\ bound \subseteq 1 .. servers
  /\ active \in 0 .. Cardinality(Logins)
  /\ pending \subseteq Logins /\ stopped \in BOOLEAN
  /\ login \in [Logins -> [at : {"new", "acquired", "started", "bindError"},
                           timer : {"off", "armed", "fired"}, released : BOOLEAN]]
  /\ cb \in [Callbacks -> [at : {"new", "exchange", "leave", "done"}, login : Logins \cup {NoLogin}]]
  /\ exchanged \in [Logins -> Nat]

\* The count is exactly the logins that still hold the listener, although a
\* login may be released by its callback and by its timer.
CountIsHolders == ~ stopped => active = Cardinality(Holding)

\* No login loses the listener to the end of another: while one holds it, the
\* server is there and has the port.
ListenerServesHolders == (~ stopped /\ Holding # {}) => srv # 0 /\ srv \in bound

\* A login is exchanged at most once, however often its redirect arrives.
ExchangedOnce == \A l \in Logins : exchanged[l] <= 1

\* The port is given back in the end, even if every login is abandoned.
PortFreed == <>[](bound = {})

\* The reference count is exact, and so the port is served while it is needed;
\* a redirect that arrives twice finds its login gone.
LoginInv == TypeOK /\ CountIsHolders /\ ListenerServesHolders /\ ExchangedOnce
=============================================================================
