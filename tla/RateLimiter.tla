---------------------------- MODULE RateLimiter -----------------------------
(***************************************************************************)
(* internal/policy/limiter.go: the fixed-window limiter of one key (an     *)
(* agent and a rule).  ServeHTTP reads the clock, then calls Allow, which  *)
(* takes the mutex: between the two the minute may change, and calls may   *)
(* overtake each other.                                                    *)
(***************************************************************************)
EXTENDS Naturals, FiniteSets

CONSTANTS Calls,      \* calls of Allow
          LimitPerMin,
          MaxMinute,  \* bound on the clock
          NoWindow    \* the key is not in the map

\* ServeHTTP only asks for a rule that has a limit.
ASSUME LimiterAssumption ==
  /\ LimitPerMin \in Nat \ {0} /\ MaxMinute \in Nat /\ IsFiniteSet(Calls)
  /\ NoWindow \notin [minute : 0 .. MaxMinute, count : 0 .. LimitPerMin]

VARIABLES
  minute,  \* the clock, in minutes
  w,       \* the key's window: [minute, count], or NoWindow
  call     \* call[c]: [at, now], now being the minute the caller read; at is
           \* "cut" when the daemon died under it

vars == <<minute, w, call>>

Init ==
  /\ minute = 0
  /\ w = NoWindow
  /\ call = [c \in Calls |-> [at |-> "idle", now |-> 0]]

\* time.Now() in ServeHTTP.
ReadClock(c) ==
  /\ call[c].at = "idle"
  /\ call' = [call EXCEPT ![c] = [at |-> "read", now |-> minute]]
  /\ UNCHANGED <<minute, w>>

\* (slip) The window is never reset.
WindowForever(now) == IF w = NoWindow THEN [minute |-> now, count |-> 0] ELSE w

\* The window Allow counts in: a fresh one unless it is of this very minute.
Window(now) ==
  IF w = NoWindow \/ (w # NoWindow /\ w.minute # now) THEN [minute |-> now, count |-> 0] ELSE w

\* (slip) Off by one.
WithinOneMore(win) == win.count <= LimitPerMin

\* Room for one more hit.
Within(win) == win.count < LimitPerMin

\* Allow, under the mutex.
Allow(c) ==
  LET win == Window(call[c].now) IN
  /\ call[c].at = "read"
  /\ \/ /\ Within(win)
        /\ w' = [win EXCEPT !.count = @ + 1]
        /\ call' = [call EXCEPT ![c].at = "admitted"]
     \/ /\ ~ Within(win)
        /\ w' = win
        /\ call' = [call EXCEPT ![c].at = "refused"]
  /\ UNCHANGED minute

Tick ==
  /\ minute < MaxMinute
  /\ minute' = minute + 1
  /\ UNCHANGED <<w, call>>

Next == Tick \/ \E c \in Calls : ReadClock(c) \/ Allow(c)

Spec == Init /\ [][Next]_vars

-----------------------------------------------------------------------------
InMinute(at, m) == {c \in Calls : call[c].at = at /\ call[c].now = m}

\* Every variable has its type.
TypeOK ==
  /\ minute \in 0 .. MaxMinute
  /\ w \in [minute : 0 .. MaxMinute, count : 0 .. LimitPerMin] \cup {NoWindow}
  /\ call \in [Calls -> [at : {"idle", "read", "cut", "admitted", "refused"}, now : 0 .. MaxMinute]]

\* The count of the current window never exceeds the calls really admitted in
\* that minute: the limiter forgets hits, it never invents any, so nobody is
\* refused before the limit was used up.
CountIsEarned ==
  w # NoWindow => w.count <= Cardinality(InMinute("admitted", w.minute))

\* A call is only refused in a minute in which the limit was really spent: an
\* earlier minute's hits are never held against it.
RefusedOnlyWhenSpent ==
  \A c \in Calls :
     call[c].at = "refused" => Cardinality(InMinute("admitted", call[c].now)) >= LimitPerMin

\* More than the limit is only admitted in a minute when a call that had read
\* another minute came to Allow too: one minute's traffic alone keeps to it.
OverLimitNeedsOvertaking ==
  \A m \in 0 .. MaxMinute :
     Cardinality(InMinute("admitted", m)) > LimitPerMin
        => \E c \in Calls : call[c].at \in {"admitted", "refused"} /\ call[c].now # m

\* The window never holds against a caller what was not spent in its minute.
WindowInv == TypeOK /\ CountIsEarned /\ RefusedOnlyWhenSpent
=============================================================================
