-------------------------- MODULE CallLedgerProofs --------------------------
(***************************************************************************)
(* Proofs about CallLedger, for any finite set of calls, any limit and any *)
(* settings of the retention.                                              *)
(*                                                                         *)
(* The limiter: while the calls that came to Allow were all of one minute, *)
(* the window counts exactly those it admitted (ExactWhenAlone).           *)
(* The journal: a Record in progress during a Prune is known as overlapped *)
(* (OverlapsKnown); any other entry is stripped of its bodies before its   *)
(* row goes (BodiesFirst), and until then it has those its Record wrote    *)
(* (WrittenStay).                                                          *)
(***************************************************************************)
EXTENDS CallLedger, Sequences, FiniteSetTheorems, TLAPS

Decided == {c \in Calls : call[c].at \in {"admitted", "refused"}}

\* Nobody has been counted without a window, and when all who came were of one
\* minute the window is that minute's and its count exact.
ExactWhenAlone ==
  ~ crashed =>
     /\ w = NoWindow <=> Decided = {}
     /\ \A c \in Decided : (\A d \in Decided : call[d].now = call[c].now) =>
           w.minute = call[c].now /\ w.count = Cardinality(InMinute("admitted", call[c].now))

\* How far a Record has come.
Stages ==
  \A e \in Calls :
     /\ rec[e].at \in {"none", "stamped"} => e \notin log
     /\ rec[e].at = "stamped" => rec[e].left = rec[e].kinds
     /\ rec[e].at = "bodies" => rec[e].left # {} /\ (e \in log \/ e \in overlapped)
     /\ rec[e].at = "done" => rec[e].left = {}

\* A Record in progress while a Prune is: it is overlapped.
OverlapsKnown == J!Pruning => \A e \in Calls : J!InProgress(e) => e \in overlapped

\* A Prune that is about to delete rows has deleted their bodies.
BodiesFirst ==
  \A p \in J!Pruners : prune[p].at = "rows" =>
     \A e \in J!Older(prune[p].cutoff) : e \notin overlapped => \A b \in bodies : b[1] # e

\* What a Record has written is there, or a Prune has begun to remove it.
WrittenStay ==
  \A e \in log : (rec[e].at \in {"bodies", "done"} /\ e \notin overlapped /\ ~ crashed) =>
     \/ \A k \in rec[e].kinds \ rec[e].left : <<e, k>> \in bodies
     \/ \E p \in J!Pruners : prune[p].at = "rows" /\ e \in J!Older(prune[p].cutoff)

\* A background pass works with a cutoff some setting justified.
CutoffIsOld ==
  prune["timer"].at # "idle" =>
     \E d \in Retentions \ {0} : prune["timer"].cutoff + d * J!SecondTicks <= now

LimiterInv == TypeOK /\ minute = now \div MinuteTicks /\ CountIsEarned /\ RefusedOnlyWhenSpent /\ ExactWhenAlone
LogInv == /\ J!TypeOK /\ Stages /\ OverlapsKnown /\ BodiesFirst /\ WrittenStay /\ CutoffIsOld
          /\ J!OrphansNeedOverlap
LedgerInv == LimiterInv /\ LogInv

-----------------------------------------------------------------------------
(* The text order of times.                                                 *)

\* A time's text begins with its second, and is longer than that.
LEMMA TextHead ==
  ASSUME NEW t \in Nat
  PROVE  Len(J!Text(t)) \in Nat \ {0} /\ J!Text(t)[1] = t \div 4
<1> DEFINE hi == (t % 4) \div 2
           lo == t % 2
<1>1. hi \in Nat /\ lo \in Nat /\ t \div 4 \in Nat
  OBVIOUS
<1>2. CASE lo # 0
  <2>1. J!Text(t) = (<<t \div 4>> \o <<hi, lo>>) \o <<2>>
    BY <1>2 DEF J!Text, J!SecondTicks, J!Z
  <2> HIDE DEF hi, lo
  <2> QED
    BY <1>1, <2>1
<1>3. CASE lo = 0 /\ hi # 0
  <2>1. J!Text(t) = (<<t \div 4>> \o <<hi>>) \o <<2>>
    BY <1>3 DEF J!Text, J!SecondTicks, J!Z
  <2> HIDE DEF hi, lo
  <2> QED
    BY <1>1, <2>1
<1>4. CASE lo = 0 /\ hi = 0
  <2>1. J!Text(t) = (<<t \div 4>> \o << >>) \o <<2>>
    BY <1>4 DEF J!Text, J!SecondTicks, J!Z
  <2> HIDE DEF hi, lo
  <2> QED
    BY <1>1, <2>1
<1> QED
  BY <1>2, <1>3, <1>4

\* The order of the texts agrees with the order of the seconds.
LEMMA TextOrder ==
  ASSUME NEW t \in Nat, NEW u \in Nat
  PROVE  /\ J!Before(t, u) => J!Second(t) <= J!Second(u)
         /\ J!Second(t) < J!Second(u) => J!Before(t, u)
<1>1. /\ Len(J!Text(t)) \in Nat \ {0} /\ J!Text(t)[1] = t \div 4
      /\ Len(J!Text(u)) \in Nat \ {0} /\ J!Text(u)[1] = u \div 4
  BY TextHead
<1>2. J!Second(t) = t \div 4 /\ J!Second(u) = u \div 4 /\ t \div 4 \in Nat /\ u \div 4 \in Nat
  BY DEF J!Second, J!SecondTicks
<1>3. ASSUME J!Before(t, u) PROVE J!Second(t) <= J!Second(u)
  <2>1. PICK i \in 1 .. Len(J!Text(t)) :
           /\ i <= Len(J!Text(u)) /\ J!Text(t)[i] < J!Text(u)[i]
           /\ \A j \in 1 .. i - 1 : J!Text(t)[j] = J!Text(u)[j]
    BY <1>3 DEF J!Before, J!TextLess
  <2>2. CASE i = 1
    BY <1>1, <1>2, <2>1, <2>2
  <2>3. CASE i # 1
    <3>1. 1 \in 1 .. i - 1
      BY <1>1, <2>1, <2>3
    <3> QED
      BY <1>1, <1>2, <2>1, <3>1
  <2> QED
    BY <2>2, <2>3
<1>4. ASSUME J!Second(t) < J!Second(u) PROVE J!Before(t, u)
  <2>1. 1 \in 1 .. Len(J!Text(t)) /\ 1 <= Len(J!Text(u)) /\ J!Text(t)[1] < J!Text(u)[1]
    BY <1>1, <1>2, <1>4
  <2>2. \A j \in 1 .. 1 - 1 : J!Text(t)[j] = J!Text(u)[j]
    OBVIOUS
  <2> QED
    BY <2>1, <2>2 DEF J!Before, J!TextLess
<1> QED
  BY <1>3, <1>4

-----------------------------------------------------------------------------
(* The limiter.                                                             *)

\* The calls of a minute are finitely many.
LEMMA MinuteFinite ==
  ASSUME NEW at, NEW m
  PROVE  IsFiniteSet(InMinute(at, m)) /\ Cardinality(InMinute(at, m)) \in Nat
<1>1. InMinute(at, m) \in SUBSET Calls
  BY DEF InMinute
<1> QED
  BY <1>1, LimiterAssumption, FS_Subset, FS_CardinalityType

\* No window, no call.
LEMMA LimiterInitially == LedgerInit => LimiterInv
<1> SUFFICES ASSUME LedgerInit PROVE LimiterInv
  OBVIOUS
<1>1. minute = now \div MinuteTicks
  <2>1. 0 \div MinuteTicks = 0
    BY LedgerAssumption
  <2> QED
    BY <2>1 DEF LedgerInit, Init, J!JournalInit
<1>2. call \in [Calls -> [at : {"idle", "read", "cut", "admitted", "refused"}, now : 0 .. MaxMinute]]
  BY LimiterAssumption DEF LedgerInit, Init
<1>3. TypeOK
  BY <1>2, LimiterAssumption DEF LedgerInit, Init, TypeOK
<1>4. Decided = {}
  BY DEF LedgerInit, Init, Decided
<1>5. CountIsEarned /\ RefusedOnlyWhenSpent /\ ExactWhenAlone
  BY <1>4 DEF LedgerInit, Init, CountIsEarned, RefusedOnlyWhenSpent, ExactWhenAlone
<1> QED
  BY <1>1, <1>3, <1>5 DEF LimiterInv

\* The clock is read, or a call is cut off with the daemon: nobody has been
\* decided, and the window is as it was or gone.
LEMMA UndecidedKeeps ==
  ASSUME LimiterInv, now' \in 0 .. MaxTime, minute' = now' \div MinuteTicks,
         w' = w \/ (w' = NoWindow /\ crashed'), ~ crashed' => ~ crashed,
         call' \in [Calls -> [at : {"idle", "read", "cut", "admitted", "refused"}, now : 0 .. MaxMinute]],
         \A d \in Calls : call'[d] = call[d] \/ {call[d].at, call'[d].at} \cap {"admitted", "refused"} = {}
  PROVE  LimiterInv'
<1>1. minute' \in 0 .. MaxMinute
  BY LedgerAssumption
<1>2. TypeOK'
  BY <1>1 DEF LimiterInv, TypeOK
<1>3. \A d \in Calls : (call[d].at \in {"admitted", "refused"} \/ call'[d].at \in {"admitted", "refused"})
         => call'[d] = call[d]
  OBVIOUS
<1>4. \A m : InMinute("admitted", m)' = InMinute("admitted", m)
  BY <1>3 DEF InMinute
<1>5. Decided' = Decided /\ \A d \in Decided : call'[d] = call[d]
  BY <1>3 DEF Decided
<1>6. CountIsEarned'
  BY <1>4 DEF LimiterInv, CountIsEarned
<1>7. RefusedOnlyWhenSpent'
  BY <1>3, <1>4 DEF LimiterInv, RefusedOnlyWhenSpent
<1>8. ExactWhenAlone'
  BY <1>4, <1>5 DEF LimiterInv, ExactWhenAlone
<1> QED
  BY <1>2, <1>6, <1>7, <1>8 DEF LimiterInv

\* The window Allow counts in is the key's own, of this minute, or fresh; its
\* count is earned.
LEMMA WindowOfCall ==
  ASSUME LimiterInv, NEW c \in Calls
  PROVE  LET win == Window(call[c].now) IN
         /\ win \in [minute : 0 .. MaxMinute, count : 0 .. LimitPerMin] /\ win.minute = call[c].now
         /\ (win = w /\ w # NoWindow) \/ (win.count = 0 /\ (w = NoWindow \/ w.minute # call[c].now))
         /\ win.count <= Cardinality(InMinute("admitted", call[c].now))
<1> DEFINE win == Window(call[c].now)
<1>1. call[c].now \in 0 .. MaxMinute /\ Cardinality(InMinute("admitted", call[c].now)) \in Nat
  BY MinuteFinite DEF LimiterInv, TypeOK
<1>2. CASE w = NoWindow \/ w.minute # call[c].now
  <2>1. win = [minute |-> call[c].now, count |-> 0]
    BY <1>2 DEF Window
  <2> QED
    BY <1>1, <1>2, <2>1, LimiterAssumption
<1>3. CASE w # NoWindow /\ w.minute = call[c].now
  <2>1. win = w
    BY <1>3 DEF Window
  <2> QED
    BY <1>3, <2>1 DEF LimiterInv, TypeOK, CountIsEarned
<1> QED
  BY <1>2, <1>3

\* Allow lets the call through and counts it.
LEMMA AdmitKeeps ==
  ASSUME LimiterInv, NEW c \in Calls, call[c].at = "read", Within(Window(call[c].now)),
         w' = [Window(call[c].now) EXCEPT !.count = @ + 1], call' = [call EXCEPT ![c].at = "admitted"],
         UNCHANGED <<minute, now, crashed>>
  PROVE  LimiterInv'
<1> DEFINE m == call[c].now
           win == Window(m)
           In(n) == InMinute("admitted", n)
           Then(n) == {d \in Calls : call'[d].at = "admitted" /\ call'[d].now = n}
<1>1. /\ win \in [minute : 0 .. MaxMinute, count : 0 .. LimitPerMin] /\ win.minute = m
      /\ (win = w /\ w # NoWindow) \/ (win.count = 0 /\ (w = NoWindow \/ w.minute # m))
      /\ win.count <= Cardinality(In(m)) /\ win.count < LimitPerMin
  BY WindowOfCall DEF Within
<1>2. /\ w' \in [minute : 0 .. MaxMinute, count : 0 .. LimitPerMin]
      /\ w'.minute = m /\ w'.count = win.count + 1 /\ w' # NoWindow
  <2>1. w' = [win EXCEPT !.count = @ + 1]
    OBVIOUS
  <2> HIDE DEF win
  <2> QED
    BY <1>1, <2>1, LimiterAssumption
<1>3. /\ call' \in [Calls -> [at : {"idle", "read", "cut", "admitted", "refused"}, now : 0 .. MaxMinute]]
      /\ call'[c].at = "admitted" /\ call'[c].now = m /\ \A d \in Calls \ {c} : call'[d] = call[d]
  BY DEF LimiterInv, TypeOK
<1>4. TypeOK'
  BY <1>2, <1>3 DEF LimiterInv, TypeOK
<1>5. c \notin In(m) /\ Then(m) = In(m) \cup {c} /\ \A n : n # m => Then(n) = In(n)
  BY <1>3 DEF InMinute
<1>6. \A n : IsFiniteSet(In(n)) /\ Cardinality(In(n)) \in Nat
  BY MinuteFinite
<1>7. Decided' = Decided \cup {c} /\ c \notin Decided
  BY <1>3 DEF Decided
<1> HIDE DEF win, In, Then
<1>8. Cardinality(Then(m)) = Cardinality(In(m)) + 1
  BY <1>5, <1>6, FS_AddElement
<1>9. \A n : /\ Cardinality(In(n)) \in Nat /\ Cardinality(Then(n)) \in Nat
             /\ Cardinality(Then(n)) >= Cardinality(In(n))
  <2>1. \A n : n = m \/ Then(n) = In(n)
    BY <1>5
  <2> QED
    BY <1>8, <1>6, <2>1
<1>10. CountIsEarned'
  <2>1. win.count + 1 <= Cardinality(Then(m))
    BY <1>1, <1>8, <1>9
  <2> QED
    BY <1>2, <2>1 DEF CountIsEarned, Then, InMinute
<1>11. RefusedOnlyWhenSpent'
  <2>1. ASSUME NEW d \in Calls, call'[d].at = "refused" PROVE Cardinality(Then(call'[d].now)) >= LimitPerMin
    <3>1. call'[d] = call[d]
      BY <1>3, <2>1
    <3>2. Cardinality(In(call[d].now)) >= LimitPerMin
      BY <2>1, <3>1 DEF LimiterInv, RefusedOnlyWhenSpent, In
    <3> QED
      BY <1>9, <3>1, <3>2, LimiterAssumption
  <2> QED
    BY <2>1 DEF RefusedOnlyWhenSpent, Then, InMinute
<1>12. ExactWhenAlone'
  <2>1. SUFFICES ASSUME ~ crashed, NEW d \in Decided', \A x \in Decided' : call'[x].now = call'[d].now
                 PROVE  w'.minute = call'[d].now /\ w'.count = Cardinality(Then(call'[d].now))
    BY <1>2, <1>7 DEF ExactWhenAlone, Then, InMinute
  <2>2. call'[d].now = m /\ \A x \in Decided : call[x].now = m
    BY <1>3, <1>7, <2>1 DEF Decided
  <2>3. win.count = Cardinality(In(m))
    <3>1. CASE Decided = {}
      <4>1. In(m) = {} /\ w = NoWindow
        BY <2>1, <3>1 DEF Decided, In, InMinute, LimiterInv, ExactWhenAlone
      <4> QED
        BY <1>1, <4>1, FS_EmptySet
    <3>2. CASE Decided # {}
      <4>1. PICK x \in Decided : TRUE
        BY <3>2
      <4>2. w # NoWindow /\ w.minute = m /\ w.count = Cardinality(In(m))
        BY <2>1, <2>2, <3>2, <4>1 DEF LimiterInv, ExactWhenAlone, In
      <4> QED
        BY <1>1, <4>2
    <3> QED
      BY <3>1, <3>2
  <2> QED
    BY <1>2, <1>8, <2>2, <2>3
<1> QED
  BY <1>4, <1>10, <1>11, <1>12 DEF LimiterInv

\* Allow refuses the call: the limit was spent in this minute.
LEMMA RefuseKeeps ==
  ASSUME LimiterInv, NEW c \in Calls, call[c].at = "read", ~ Within(Window(call[c].now)),
         w' = Window(call[c].now), call' = [call EXCEPT ![c].at = "refused"],
         UNCHANGED <<minute, now, crashed>>
  PROVE  LimiterInv'
<1> DEFINE m == call[c].now
           In(n) == InMinute("admitted", n)
           Then(n) == {d \in Calls : call'[d].at = "admitted" /\ call'[d].now = n}
<1>1. /\ w # NoWindow /\ w' = w /\ w.minute = m /\ w.count >= LimitPerMin
      /\ w.count <= Cardinality(In(m)) /\ w.count \in Nat
  BY WindowOfCall, LimiterAssumption DEF Within
<1>2. /\ call' \in [Calls -> [at : {"idle", "read", "cut", "admitted", "refused"}, now : 0 .. MaxMinute]]
      /\ call'[c].at = "refused" /\ call'[c].now = m /\ \A d \in Calls \ {c} : call'[d] = call[d]
  BY DEF LimiterInv, TypeOK
<1>3. TypeOK'
  BY <1>1, <1>2 DEF LimiterInv, TypeOK
<1>4. \A n : Then(n) = In(n)
  BY <1>2 DEF InMinute
<1>5. Decided' = Decided \cup {c} /\ c \notin Decided
  BY <1>2 DEF Decided
<1>6. Cardinality(In(m)) >= LimitPerMin
  BY <1>1, MinuteFinite, LimiterAssumption
<1> HIDE DEF In, Then
<1>7. CountIsEarned'
  <2>1. w'.count <= Cardinality(Then(w'.minute))
    BY <1>1, <1>4
  <2> QED
    BY <2>1 DEF CountIsEarned, Then, InMinute
<1>8. RefusedOnlyWhenSpent'
  <2>1. ASSUME NEW d \in Calls, call'[d].at = "refused" PROVE Cardinality(Then(call'[d].now)) >= LimitPerMin
    BY <1>2, <1>4, <1>6, <2>1 DEF LimiterInv, RefusedOnlyWhenSpent, In
  <2> QED
    BY <2>1 DEF RefusedOnlyWhenSpent, Then, InMinute
<1>9. ExactWhenAlone'
  <2>1. SUFFICES ASSUME ~ crashed, NEW d \in Decided', \A x \in Decided' : call'[x].now = call'[d].now
                 PROVE  w'.minute = call'[d].now /\ w'.count = Cardinality(Then(call'[d].now))
    BY <1>1, <1>5 DEF ExactWhenAlone, Then, InMinute
  <2>2. call'[d].now = m /\ \A x \in Decided : call[x].now = m
    BY <1>2, <1>5, <2>1 DEF Decided
  <2>3. PICK x \in Decided : TRUE
    BY <1>1, <2>1 DEF LimiterInv, ExactWhenAlone
  <2>4. w.count = Cardinality(In(m))
    BY <2>1, <2>2, <2>3 DEF LimiterInv, ExactWhenAlone, In
  <2> QED
    BY <1>1, <1>4, <2>2, <2>4
<1> QED
  BY <1>3, <1>7, <1>8, <1>9 DEF LimiterInv

-----------------------------------------------------------------------------
(* The journal.                                                             *)

Kinds == {"request", "response"}
RecOf(t) == [at : {"none", "stamped", "bodies", "done", "lost"}, ts : 0 .. t,
             kinds : SUBSET Kinds, left : SUBSET Kinds]
PruneRec == [at : {"idle", "asked", "rows"}, cutoff : Nat]

JournalTypeOK ==
  /\ now \in 0 .. MaxTime /\ log \subseteq Calls /\ bodies \subseteq Calls \X Kinds
  /\ rec \in [Calls -> RecOf(now)] /\ \A e \in Calls : rec[e].left \subseteq rec[e].kinds
  /\ retention \in Retentions /\ prune \in [J!Pruners -> PruneRec]
  /\ overlapped \subseteq Calls /\ crashed \in BOOLEAN

\* The journal's type invariant, with the names above.
LEMMA JournalTypes == (J!TypeOK <=> JournalTypeOK) /\ (J!TypeOK' <=> JournalTypeOK')
  BY DEF J!TypeOK, JournalTypeOK, RecOf, PruneRec, Kinds

\* Nothing is recorded and nobody prunes.
LEMMA LogInitially == LedgerInit => LogInv
<1> SUFFICES ASSUME J!JournalInit PROVE LogInv
  BY DEF LedgerInit
<1>1. rec \in [Calls -> RecOf(now)] /\ \A e \in Calls : rec[e] = [at |-> "none", ts |-> 0, kinds |-> {}, left |-> {}]
  BY DEF J!JournalInit, RecOf
<1>2. prune \in [J!Pruners -> PruneRec] /\ \A q \in J!Pruners : prune[q] = [at |-> "idle", cutoff |-> 0]
  BY DEF J!JournalInit, PruneRec
<1>3. crashed \in BOOLEAN
  BY DEF J!JournalInit
<1>4. J!TypeOK
  BY <1>1, <1>2, <1>3, JournalTypes, LedgerAssumption DEF J!JournalInit, JournalTypeOK
<1>5. Stages /\ J!OrphansNeedOverlap /\ WrittenStay
  BY <1>1 DEF J!JournalInit, Stages, J!OrphansNeedOverlap, WrittenStay
<1>6. ~ J!Pruning /\ prune["timer"].at = "idle"
  BY <1>2 DEF J!Pruning, J!Pruners
<1>7. OverlapsKnown /\ BodiesFirst /\ CutoffIsOld
  BY <1>2, <1>6 DEF OverlapsKnown, BodiesFirst, CutoffIsOld
<1> QED
  BY <1>4, <1>5, <1>7 DEF LogInv

\* An entry is stamped; it is not in the log yet.
LEMMA StampKeeps ==
  ASSUME LogInv, NEW e \in Calls, NEW kinds \in SUBSET Kinds, J!Stamp(e, kinds)
  PROVE  LogInv'
<1>0. /\ now \in 0 .. MaxTime /\ log \subseteq Calls /\ rec \in [Calls -> RecOf(now)]
      /\ prune \in [J!Pruners -> PruneRec] /\ overlapped \subseteq Calls
  BY JournalTypes DEF LogInv, JournalTypeOK
<1>1. /\ rec[e].at = "none" /\ rec' = [rec EXCEPT ![e] = [at |-> "stamped", ts |-> now, kinds |-> kinds, left |-> kinds]]
      /\ UNCHANGED <<now, log, bodies, retention, prune, crashed>>
      /\ overlapped \subseteq overlapped' /\ overlapped' \subseteq overlapped \cup {e}
      /\ J!Pruning => e \in overlapped'
  BY DEF J!Stamp
<1>2. /\ rec'[e] = [at |-> "stamped", ts |-> now, kinds |-> kinds, left |-> kinds]
      /\ \A f \in Calls \ {e} : rec'[f] = rec[f]
  BY <1>0, <1>1
<1>3. e \notin log
  BY <1>1 DEF LogInv, Stages
<1>4. rec' \in [Calls -> RecOf(now)]
  <2>1. [at |-> "stamped", ts |-> now, kinds |-> kinds, left |-> kinds] \in RecOf(now)
    BY <1>0, LedgerAssumption DEF RecOf
  <2> QED
    BY <1>0, <1>1, <2>1
<1>5. J!TypeOK'
  <2>1. crashed' \in BOOLEAN
    BY <1>1, JournalTypes DEF LogInv, JournalTypeOK
  <2>2. JournalTypeOK
    BY JournalTypes DEF LogInv
  <2>3. \A f \in Calls : rec'[f].left \subseteq rec'[f].kinds
    BY <1>2, <2>2 DEF JournalTypeOK
  <2>4. JournalTypeOK'
    BY <1>1, <1>4, <2>1, <2>2, <2>3 DEF JournalTypeOK
  <2> QED
    BY <2>4, JournalTypes
<1>6. Stages'
  BY <1>1, <1>2, <1>3 DEF LogInv, Stages
<1>7. OverlapsKnown'
  BY <1>1, <1>2 DEF LogInv, OverlapsKnown, J!Pruning, J!InProgress
<1>8. \A t : J!Older(t)' = J!Older(t)
  BY <1>0, <1>1, <1>2, <1>3 DEF J!Older
<1>9. BodiesFirst'
  BY <1>1, <1>8 DEF LogInv, BodiesFirst
<1>10. WrittenStay'
  BY <1>0, <1>1, <1>2, <1>3, <1>8 DEF LogInv, WrittenStay
<1>11. CutoffIsOld' /\ J!OrphansNeedOverlap'
  BY <1>1 DEF LogInv, CutoffIsOld, J!OrphansNeedOverlap
<1> QED
  BY <1>5, <1>6, <1>7, <1>9, <1>10, <1>11 DEF LogInv

\* The row is inserted; no Prune strips an entry that has no row yet.
LEMMA InsertRowKeeps ==
  ASSUME LogInv, NEW e \in Calls, J!InsertRow(e)
  PROVE  LogInv'
<1> DEFINE at == IF rec[e].left = {} THEN "done" ELSE "bodies"
<1>0. JournalTypeOK
  BY JournalTypes DEF LogInv
<1>1. /\ rec[e].at = "stamped" /\ rec' = [rec EXCEPT ![e].at = at] /\ log' = log \cup {e}
      /\ UNCHANGED <<now, bodies, retention, prune, overlapped, crashed>>
  BY DEF J!InsertRow
<1>2. rec' \in [Calls -> RecOf(now)]
  BY <1>0, <1>1 DEF JournalTypeOK, RecOf
<1>3. /\ rec'[e].at = at /\ rec'[e].ts = rec[e].ts /\ rec'[e].kinds = rec[e].kinds /\ rec'[e].left = rec[e].left
      /\ \A f \in Calls \ {e} : rec'[f] = rec[f]
  BY <1>0, <1>1 DEF JournalTypeOK, RecOf
<1>4. e \notin log /\ rec[e].left = rec[e].kinds
  BY <1>1 DEF LogInv, Stages
<1>5. J!TypeOK'
  <2>1. JournalTypeOK'
    BY <1>0, <1>1, <1>2, <1>3 DEF JournalTypeOK
  <2> QED
    BY <2>1, JournalTypes
<1>6. Stages'
  BY <1>1, <1>3 DEF LogInv, Stages
<1>7. OverlapsKnown'
  BY <1>1, <1>3 DEF LogInv, OverlapsKnown, J!Pruning, J!InProgress
<1>8. \A t : J!Older(t) \subseteq J!Older(t)' /\ J!Older(t)' \subseteq J!Older(t) \cup {e}
  BY <1>0, <1>1, <1>3 DEF JournalTypeOK, J!Older
<1>9. BodiesFirst'
  <2>1. J!Pruning => e \in overlapped
    BY <1>1 DEF LogInv, OverlapsKnown, J!InProgress
  <2> QED
    BY <1>1, <1>8, <2>1 DEF LogInv, BodiesFirst, J!Pruning
<1>10. WrittenStay'
  <2>1. rec'[e].kinds \ rec'[e].left = {}
    BY <1>3, <1>4
  <2> QED
    BY <1>0, <1>1, <1>3, <1>8, <2>1 DEF LogInv, WrittenStay, JournalTypeOK
<1>11. CutoffIsOld' /\ J!OrphansNeedOverlap'
  BY <1>1 DEF LogInv, CutoffIsOld, J!OrphansNeedOverlap
<1> QED
  BY <1>5, <1>6, <1>7, <1>9, <1>10, <1>11 DEF LogInv

\* A body is inserted; its entry has its row, or lost it to a Prune it overlapped.
LEMMA InsertBodyKeeps ==
  ASSUME LogInv, NEW e \in Calls, J!InsertBody(e)
  PROVE  LogInv'
<1> DEFINE kind == IF "request" \in rec[e].left THEN "request" ELSE "response"
           left == rec[e].left \ {kind}
           at == IF left = {} THEN "done" ELSE "bodies"
<1>0. JournalTypeOK
  BY JournalTypes DEF LogInv
<1>1. /\ rec[e].at = "bodies" /\ rec' = [rec EXCEPT ![e].left = left, ![e].at = at]
      /\ bodies' = bodies \cup {<<e, kind>>}
      /\ UNCHANGED <<now, log, retention, prune, overlapped, crashed>>
  BY DEF J!InsertBody
<1>2. kind \in Kinds /\ rec[e] \in RecOf(now) /\ left \in SUBSET Kinds /\ at \in {"done", "bodies"}
  BY <1>0 DEF Kinds, JournalTypeOK, RecOf
<1> HIDE DEF kind
<1>3. left = {} => at = "done"
  OBVIOUS
<1>4. left # {} => at = "bodies"
  OBVIOUS
<1>5. left = rec[e].left \ {kind}
  OBVIOUS
<1> HIDE DEF left, at
<1>6. rec' \in [Calls -> RecOf(now)]
  BY <1>0, <1>1, <1>2 DEF JournalTypeOK, RecOf
<1>7. /\ rec'[e].at = at /\ rec'[e].ts = rec[e].ts /\ rec'[e].kinds = rec[e].kinds /\ rec'[e].left = left
      /\ \A f \in Calls \ {e} : rec'[f] = rec[f]
  BY <1>0, <1>1 DEF JournalTypeOK, RecOf
<1>8. e \in log \/ e \in overlapped
  BY <1>1 DEF LogInv, Stages
<1>9. J!Pruning => e \in overlapped
  BY <1>1 DEF LogInv, OverlapsKnown, J!InProgress
<1>10. J!TypeOK'
  <2>1. rec'[e].left \subseteq rec'[e].kinds
    BY <1>0, <1>5, <1>7 DEF JournalTypeOK
  <2>2. bodies' \subseteq Calls \X Kinds
    BY <1>0, <1>1, <1>2 DEF JournalTypeOK
  <2>3. JournalTypeOK'
    BY <1>0, <1>1, <1>6, <1>7, <2>1, <2>2 DEF JournalTypeOK
  <2> QED
    BY <2>3, JournalTypes
<1>11. Stages'
  BY <1>1, <1>2, <1>3, <1>4, <1>7, <1>8 DEF LogInv, Stages
<1>12. OverlapsKnown'
  BY <1>1, <1>7 DEF LogInv, OverlapsKnown, J!Pruning, J!InProgress
<1>13. \A t : J!Older(t)' = J!Older(t)
  BY <1>0, <1>1, <1>7 DEF JournalTypeOK, J!Older
<1>14. BodiesFirst'
  <2>1. \A b \in bodies' : b \in bodies \/ b[1] = e
    BY <1>1
  <2> QED
    BY <1>1, <1>9, <1>13, <2>1 DEF LogInv, BodiesFirst, J!Pruning
<1>15. WrittenStay'
  <2>1. SUFFICES ASSUME NEW f \in log, rec'[f].at \in {"bodies", "done"}, f \notin overlapped, ~ crashed
                 PROVE  \/ \A k \in rec'[f].kinds \ rec'[f].left : <<f, k>> \in bodies'
                        \/ \E q \in J!Pruners : prune[q].at = "rows" /\ f \in J!Older(prune[q].cutoff)
    BY <1>1, <1>13 DEF WrittenStay
  <2>2. CASE f = e
    <3>1. \A k \in rec[e].kinds \ rec[e].left : <<e, k>> \in bodies
      BY <1>1, <1>9, <2>1, <2>2 DEF LogInv, WrittenStay, J!Pruning
    <3> QED
      BY <1>1, <1>5, <1>7, <2>2, <3>1
  <2>3. CASE f # e
    <3>1. rec'[f] = rec[f]
      BY <1>0, <1>7, <2>3 DEF JournalTypeOK
    <3> QED
      BY <1>1, <2>1, <3>1 DEF LogInv, WrittenStay
  <2> QED
    BY <2>2, <2>3
<1>16. J!OrphansNeedOverlap'
  BY <1>1, <1>8 DEF LogInv, J!OrphansNeedOverlap
<1>17. CutoffIsOld'
  BY <1>1 DEF LogInv, CutoffIsOld
<1> QED
  BY <1>10, <1>11, <1>12, <1>14, <1>15, <1>16, <1>17 DEF LogInv

\* Prune, first statement.
LEMMA PruneBodiesKeeps ==
  ASSUME LogInv, NEW p \in J!Pruners, NEW cutoff \in Nat, prune[p].at # "rows", J!PruneBodies(p, cutoff),
         p = "timer" => \E d \in Retentions \ {0} : cutoff + d * J!SecondTicks <= now
  PROVE  LogInv'
<1>0. JournalTypeOK
  BY JournalTypes DEF LogInv
<1>1. /\ bodies' = {b \in bodies : b[1] \notin J!Older(cutoff)}
      /\ prune' = [prune EXCEPT ![p] = [at |-> "rows", cutoff |-> cutoff]]
      /\ overlapped' = overlapped \cup {e \in Calls : J!InProgress(e)}
      /\ UNCHANGED <<now, log, rec, retention, crashed>>
  BY DEF J!PruneBodies, J!NowPruned
<1>2. /\ prune' \in [J!Pruners -> PruneRec] /\ prune'[p] = [at |-> "rows", cutoff |-> cutoff]
      /\ \A q \in J!Pruners \ {p} : prune'[q] = prune[q]
  BY <1>0, <1>1 DEF JournalTypeOK, PruneRec
<1>3. J!TypeOK'
  <2>1. JournalTypeOK'
    BY <1>0, <1>1, <1>2 DEF JournalTypeOK
  <2> QED
    BY <2>1, JournalTypes
<1>4. \A t : J!Older(t)' = J!Older(t)
  BY <1>1 DEF J!Older
<1>5. Stages' /\ OverlapsKnown'
  BY <1>1 DEF LogInv, Stages, OverlapsKnown, J!InProgress
<1>6. BodiesFirst'
  BY <1>1, <1>2, <1>4 DEF LogInv, BodiesFirst
<1>7. WrittenStay'
  <2>1. SUFFICES ASSUME NEW e \in log, rec[e].at \in {"bodies", "done"}, e \notin overlapped, ~ crashed
                 PROVE  \/ \A k \in rec[e].kinds \ rec[e].left : <<e, k>> \in bodies'
                        \/ \E q \in J!Pruners : prune'[q].at = "rows" /\ e \in J!Older(prune'[q].cutoff)
    BY <1>1, <1>4 DEF WrittenStay
  <2>2. CASE e \in J!Older(cutoff)
    BY <1>2, <2>2
  <2>3. CASE e \notin J!Older(cutoff)
    <3>1. \/ \A k \in rec[e].kinds \ rec[e].left : <<e, k>> \in bodies
          \/ \E q \in J!Pruners : prune[q].at = "rows" /\ e \in J!Older(prune[q].cutoff)
      BY <2>1 DEF LogInv, WrittenStay
    <3>2. CASE \A k \in rec[e].kinds \ rec[e].left : <<e, k>> \in bodies
      BY <1>1, <2>3, <3>2
    <3>3. CASE \E q \in J!Pruners : prune[q].at = "rows" /\ e \in J!Older(prune[q].cutoff)
      BY <1>2, <3>3
    <3> QED
      BY <3>1, <3>2, <3>3
  <2> QED
    BY <2>2, <2>3
<1>8. CutoffIsOld'
  <2>1. "timer" \in J!Pruners
    BY DEF J!Pruners
  <2> QED
    BY <1>1, <1>2, <2>1 DEF LogInv, CutoffIsOld
<1>9. J!OrphansNeedOverlap'
  BY <1>1 DEF LogInv, J!OrphansNeedOverlap
<1> QED
  BY <1>3, <1>5, <1>6, <1>7, <1>8, <1>9 DEF LogInv

\* Prune, second statement.
LEMMA PruneRowsKeeps ==
  ASSUME LogInv, NEW p \in J!Pruners, J!PruneRows(p)
  PROVE  LogInv'
<1> DEFINE gone == J!Older(prune[p].cutoff)
<1>0. JournalTypeOK
  BY JournalTypes DEF LogInv
<1>1. /\ prune[p].at = "rows" /\ log' = log \ gone
      /\ prune' = [prune EXCEPT ![p] = [at |-> "idle", cutoff |-> 0]]
      /\ overlapped' = overlapped \cup {e \in Calls : J!InProgress(e)}
      /\ UNCHANGED <<now, bodies, rec, retention, crashed>>
  BY DEF J!PruneRows, J!NowPruned
<1>2. /\ prune' \in [J!Pruners -> PruneRec] /\ prune'[p].at = "idle"
      /\ \A q \in J!Pruners \ {p} : prune'[q] = prune[q]
  BY <1>0, <1>1 DEF JournalTypeOK, PruneRec
<1>3. J!TypeOK'
  <2>1. JournalTypeOK'
    BY <1>0, <1>1, <1>2 DEF JournalTypeOK
  <2> QED
    BY <2>1, JournalTypes
<1>4. \A t : J!Older(t)' = J!Older(t) \ gone
  BY <1>1 DEF J!Older
<1> HIDE DEF gone
<1>5. Stages' /\ OverlapsKnown'
  BY <1>1 DEF LogInv, Stages, OverlapsKnown, J!InProgress
<1>6. BodiesFirst'
  BY <1>1, <1>2, <1>4 DEF LogInv, BodiesFirst
<1>7. WrittenStay'
  <2>1. SUFFICES ASSUME NEW e \in log \ gone, rec[e].at \in {"bodies", "done"}, e \notin overlapped, ~ crashed
                 PROVE  \/ \A k \in rec[e].kinds \ rec[e].left : <<e, k>> \in bodies
                        \/ \E q \in J!Pruners : prune'[q].at = "rows" /\ e \in J!Older(prune'[q].cutoff) \ gone
    BY <1>1, <1>4 DEF WrittenStay
  <2>2. \/ \A k \in rec[e].kinds \ rec[e].left : <<e, k>> \in bodies
        \/ \E q \in J!Pruners : prune[q].at = "rows" /\ e \in J!Older(prune[q].cutoff)
    BY <2>1 DEF LogInv, WrittenStay
  <2> QED
    BY <1>2, <2>1, <2>2 DEF gone
<1>8. CutoffIsOld'
  <2>1. "timer" \in J!Pruners
    BY DEF J!Pruners
  <2> QED
    BY <1>1, <1>2, <2>1 DEF LogInv, CutoffIsOld
<1>9. J!OrphansNeedOverlap'
  BY <1>1 DEF LogInv, J!OrphansNeedOverlap, BodiesFirst, gone
<1> QED
  BY <1>3, <1>5, <1>6, <1>7, <1>8, <1>9 DEF LogInv

\* The settings, and the pass that reads them.
LEMMA SettingsKeep ==
  ASSUME LogInv, J!PrunerReads \/ \E d \in Retentions : J!SetRetention(d)
  PROVE  LogInv'
<1>0. JournalTypeOK
  BY JournalTypes DEF LogInv
<1>1. CASE \E d \in Retentions : J!SetRetention(d)
  <2>1. UNCHANGED <<now, log, bodies, rec, prune, overlapped, crashed>> /\ retention' \in Retentions
    BY <1>1 DEF J!SetRetention
  <2>2. JournalTypeOK'
    BY <1>0, <2>1 DEF JournalTypeOK
  <2>3. J!TypeOK'
    BY <2>2, JournalTypes
  <2>4. Stages' /\ OverlapsKnown' /\ CutoffIsOld' /\ J!OrphansNeedOverlap'
    BY <2>1 DEF LogInv, Stages, OverlapsKnown, J!Pruning, J!InProgress, CutoffIsOld, J!OrphansNeedOverlap
  <2>5. BodiesFirst' /\ WrittenStay'
    BY <2>1 DEF LogInv, BodiesFirst, WrittenStay, J!Older
  <2> QED
    BY <2>3, <2>4, <2>5 DEF LogInv
<1>2. CASE J!PrunerReads
  <2> DEFINE cutoff == now - retention * 4
  <2>1. /\ prune["timer"].at = "idle" /\ retention > 0 /\ now >= retention * 4
        /\ prune' = [prune EXCEPT !["timer"] = [at |-> "asked", cutoff |-> cutoff]]
        /\ UNCHANGED <<now, log, bodies, rec, retention, overlapped, crashed>>
    BY <1>2 DEF J!PrunerReads, J!RetentionCutoff, J!SecondTicks
  <2>2. retention \in Retentions \ {0} /\ retention \in Nat /\ now \in Nat
    BY <1>0, <2>1, LedgerAssumption DEF JournalTypeOK
  <2>3. cutoff \in Nat /\ cutoff + retention * 4 <= now
    BY <2>1, <2>2
  <2> HIDE DEF cutoff
  <2>4. "timer" \in J!Pruners
    BY DEF J!Pruners
  <2>5. /\ prune' \in [J!Pruners -> PruneRec] /\ prune'["timer"] = [at |-> "asked", cutoff |-> cutoff]
        /\ \A q \in J!Pruners : prune'[q].at = "rows" <=> prune[q].at = "rows"
        /\ \A q \in J!Pruners : prune[q].at = "rows" => prune'[q] = prune[q]
    BY <1>0, <2>1, <2>3, <2>4 DEF JournalTypeOK, PruneRec
  <2>6. JournalTypeOK'
    BY <1>0, <2>1, <2>5 DEF JournalTypeOK
  <2>7. J!TypeOK'
    BY <2>6, JournalTypes
  <2>8. Stages' /\ OverlapsKnown' /\ J!OrphansNeedOverlap'
    BY <2>1, <2>5 DEF LogInv, Stages, OverlapsKnown, J!Pruning, J!InProgress, J!OrphansNeedOverlap
  <2>9. CutoffIsOld'
    BY <2>1, <2>2, <2>3, <2>5 DEF CutoffIsOld, J!SecondTicks
  <2>10. \A t : J!Older(t)' = J!Older(t)
    BY <2>1 DEF J!Older
  <2>11. BodiesFirst' /\ WrittenStay'
    BY <2>1, <2>5, <2>10 DEF LogInv, BodiesFirst, WrittenStay
  <2> QED
    BY <2>7, <2>8, <2>9, <2>11 DEF LogInv
<1> QED
  BY <1>1, <1>2

\* Time passes.
LEMMA TickKeeps ==
  ASSUME LogInv, J!Tick
  PROVE  LogInv' /\ now' \in 0 .. MaxTime
<1>0. JournalTypeOK
  BY JournalTypes DEF LogInv
<1>1. now < MaxTime /\ now' = now + 1 /\ UNCHANGED <<log, bodies, rec, retention, prune, overlapped, crashed>>
  BY DEF J!Tick
<1>2. now \in Nat /\ now' \in 0 .. MaxTime /\ 0 .. now \subseteq 0 .. now'
  BY <1>0, <1>1, LedgerAssumption DEF JournalTypeOK
<1>3. J!TypeOK'
  <2>1. RecOf(now) \subseteq RecOf(now')
    BY <1>2 DEF RecOf
  <2>2. rec' \in [Calls -> RecOf(now')]
    BY <1>0, <1>1, <2>1 DEF JournalTypeOK
  <2>3. JournalTypeOK'
    BY <1>0, <1>1, <1>2, <2>2 DEF JournalTypeOK
  <2> QED
    BY <2>3, JournalTypes
<1>4. Stages' /\ OverlapsKnown' /\ J!OrphansNeedOverlap'
  BY <1>1 DEF LogInv, Stages, OverlapsKnown, J!Pruning, J!InProgress, J!OrphansNeedOverlap
<1>5. BodiesFirst' /\ WrittenStay'
  BY <1>1 DEF LogInv, BodiesFirst, WrittenStay, J!Older
<1>6. CutoffIsOld'
  <2>1. ASSUME prune["timer"].at # "idle"
        PROVE  \E d \in Retentions \ {0} : prune["timer"].cutoff + d * 4 <= now'
    <3>1. PICK d \in Retentions \ {0} : prune["timer"].cutoff + d * 4 <= now
      BY <2>1 DEF LogInv, CutoffIsOld, J!SecondTicks
    <3>2. prune["timer"].cutoff \in Nat /\ d \in Nat
      BY <1>0, LedgerAssumption DEF JournalTypeOK, PruneRec, J!Pruners
    <3> QED
      BY <1>1, <1>2, <3>1, <3>2
  <2> QED
    BY <1>1, <2>1 DEF CutoffIsOld, J!SecondTicks
<1> QED
  BY <1>2, <1>3, <1>4, <1>5, <1>6 DEF LogInv

\* The daemon dies.
LEMMA CrashKeeps ==
  ASSUME LogInv, J!JournalCrash
  PROVE  LogInv'
<1>0. JournalTypeOK
  BY JournalTypes DEF LogInv
<1>1. /\ rec' = [e \in Calls |-> IF J!InProgress(e) THEN [rec[e] EXCEPT !.at = "lost"] ELSE rec[e]]
      /\ prune' = [q \in J!Pruners |-> [at |-> "idle", cutoff |-> 0]] /\ crashed' = TRUE
      /\ UNCHANGED <<now, log, bodies, retention, overlapped>>
  BY DEF J!JournalCrash
<1>2. rec' \in [Calls -> RecOf(now)]
  BY <1>0, <1>1 DEF JournalTypeOK, RecOf
<1>3. /\ prune' \in [J!Pruners -> PruneRec] /\ \A q \in J!Pruners : prune'[q].at = "idle"
      /\ "timer" \in J!Pruners
  BY <1>1 DEF PruneRec, J!Pruners
<1>4. \A e \in Calls :
         /\ rec'[e].kinds = rec[e].kinds /\ rec'[e].left = rec[e].left
         /\ rec'[e].at = IF rec[e].at \in {"stamped", "bodies"} THEN "lost" ELSE rec[e].at
  BY <1>0, <1>1 DEF JournalTypeOK, RecOf, J!InProgress
<1>5. J!TypeOK'
  <2>1. crashed' \in BOOLEAN
    BY <1>1
  <2>2. JournalTypeOK'
    BY <1>0, <1>1, <1>2, <1>3, <1>4, <2>1 DEF JournalTypeOK
  <2> QED
    BY <2>2, JournalTypes
<1>6. Stages'
  BY <1>1, <1>4 DEF LogInv, Stages
<1>7. OverlapsKnown' /\ BodiesFirst' /\ CutoffIsOld'
  BY <1>3 DEF OverlapsKnown, J!Pruning, BodiesFirst, CutoffIsOld
<1>8. WrittenStay' /\ J!OrphansNeedOverlap'
  BY <1>1 DEF LogInv, WrittenStay, J!OrphansNeedOverlap
<1> QED
  BY <1>5, <1>6, <1>7, <1>8 DEF LogInv

-----------------------------------------------------------------------------
(* The whole.                                                               *)

\* What the journal does leaves the limiter alone.
LEMMA JournalKeeps ==
  ASSUME LedgerInv, J!JournalStep
  PROVE  LogInv' /\ UNCHANGED <<now, crashed>>
<1>1. CASE \E e \in Calls : J!InsertRow(e) \/ J!InsertBody(e)
  BY <1>1, InsertRowKeeps, InsertBodyKeeps DEF LedgerInv, J!InsertRow, J!InsertBody
<1>2. CASE J!PrunerReads \/ \E d \in Retentions : J!SetRetention(d)
  BY <1>2, SettingsKeep DEF LedgerInv, J!PrunerReads, J!SetRetention
<1>3. CASE J!PrunerPrunes
  <2>1. prune["timer"].at = "asked" /\ J!PruneBodies("timer", prune["timer"].cutoff)
    BY <1>3 DEF J!PrunerPrunes
  <2>2. "timer" \in J!Pruners /\ prune["timer"].cutoff \in Nat
    BY JournalTypes DEF LedgerInv, LogInv, JournalTypeOK, PruneRec, J!Pruners
  <2>3. \E d \in Retentions \ {0} : prune["timer"].cutoff + d * J!SecondTicks <= now
    BY <2>1 DEF LedgerInv, LogInv, CutoffIsOld
  <2>4. LogInv'
    BY <2>1, <2>2, <2>3, PruneBodiesKeeps DEF LedgerInv
  <2> QED
    BY <2>1, <2>4 DEF J!PruneBodies
<1>4. CASE \E t \in Cutoffs : J!OperatorPrunes(t)
  <2>1. PICK t \in Cutoffs : prune["operator"].at = "idle" /\ J!PruneBodies("operator", t)
    BY <1>4 DEF J!OperatorPrunes
  <2>2. "operator" \in J!Pruners /\ "operator" # "timer" /\ t \in Nat
    BY LedgerAssumption DEF J!Pruners
  <2>3. LogInv'
    BY <2>1, <2>2, PruneBodiesKeeps DEF LedgerInv
  <2> QED
    BY <2>1, <2>3 DEF J!PruneBodies
<1>5. CASE \E p \in J!Pruners : J!PruneRows(p)
  BY <1>5, PruneRowsKeeps DEF LedgerInv, J!PruneRows
<1> QED
  BY <1>1, <1>2, <1>3, <1>4, <1>5 DEF J!JournalStep

\* A step that is none of the limiter's.
LEMMA LimiterRests ==
  ASSUME LimiterInv, UNCHANGED <<minute, w, call, now, crashed>>
  PROVE  LimiterInv'
  BY DEF LimiterInv, TypeOK, CountIsEarned, RefusedOnlyWhenSpent, ExactWhenAlone, InMinute, Decided

\* A step that is none of the journal's.
LEMMA LogRests ==
  ASSUME LogInv, UNCHANGED journal
  PROVE  LogInv'
<1>1. UNCHANGED <<now, log, bodies, rec, retention, prune, overlapped, crashed>>
  BY DEF journal
<1>2. J!TypeOK' /\ Stages' /\ OverlapsKnown' /\ CutoffIsOld' /\ J!OrphansNeedOverlap'
  BY <1>1 DEF LogInv, J!TypeOK, Stages, OverlapsKnown, J!Pruning, J!InProgress, CutoffIsOld,
              J!OrphansNeedOverlap
<1>3. BodiesFirst' /\ WrittenStay'
  BY <1>1 DEF LogInv, BodiesFirst, WrittenStay, J!Older
<1> QED
  BY <1>2, <1>3 DEF LogInv

\* Every step of the ledger keeps both.
LEMMA LedgerStepKeeps ==
  ASSUME LedgerInv, [LedgerNext]_ledgerVars
  PROVE  LedgerInv'
<1>0. now \in 0 .. MaxTime
  BY JournalTypes DEF LedgerInv, LogInv, JournalTypeOK
<1>1. ASSUME NEW c \in Calls, Ask(c) PROVE LedgerInv'
  <2>1. UNCHANGED journal /\ LogInv' /\ UNCHANGED <<now, crashed>>
    BY <1>1, LogRests DEF Ask, journal, LedgerInv
  <2>2. CASE ReadClock(c)
    <3>1. /\ call[c].at = "idle" /\ call' = [call EXCEPT ![c] = [at |-> "read", now |-> minute]]
          /\ UNCHANGED <<minute, w>>
      BY <2>2 DEF ReadClock
    <3>2. call' \in [Calls -> [at : {"idle", "read", "cut", "admitted", "refused"}, now : 0 .. MaxMinute]]
      BY <3>1 DEF LedgerInv, LimiterInv, TypeOK
    <3>3. \A d \in Calls : call'[d] = call[d] \/ {call[d].at, call'[d].at} \cap {"admitted", "refused"} = {}
      BY <3>1 DEF LedgerInv, LimiterInv, TypeOK
    <3>4. minute' = now' \div MinuteTicks
      BY <2>1, <3>1 DEF LedgerInv, LimiterInv
    <3> QED
      BY <1>0, <2>1, <3>1, <3>2, <3>3, <3>4, UndecidedKeeps DEF LedgerInv
  <2>3. CASE Allow(c)
    BY <2>1, <2>3, AdmitKeeps, RefuseKeeps DEF Allow, LedgerInv
  <2> QED
    BY <1>1, <2>2, <2>3 DEF Ask
<1>2. ASSUME NEW c \in Calls, Outcome(c) PROVE LedgerInv'
  <2>1. PICK kinds \in SUBSET Kinds : J!Stamp(c, kinds)
    BY <1>2, LedgerAssumption DEF Outcome, Kinds
  <2>2. LogInv' /\ UNCHANGED <<now, crashed>>
    BY <2>1, StampKeeps DEF J!Stamp, LedgerInv
  <2> QED
    BY <1>2, <2>2, LimiterRests DEF Outcome, vars, LedgerInv
<1>3. CASE Journal
  BY <1>3, JournalKeeps, LimiterRests DEF Journal, vars, LedgerInv
<1>4. CASE Clock
  <2>1. J!Tick /\ minute' = now' \div MinuteTicks /\ UNCHANGED <<w, call>> /\ crashed' = crashed
    BY <1>4 DEF Clock, J!Tick
  <2>2. LogInv' /\ now' \in 0 .. MaxTime
    BY <2>1, TickKeeps DEF LedgerInv
  <2>3. call' \in [Calls -> [at : {"idle", "read", "cut", "admitted", "refused"}, now : 0 .. MaxMinute]]
    BY <2>1 DEF LedgerInv, LimiterInv, TypeOK
  <2> QED
    BY <2>1, <2>2, <2>3, UndecidedKeeps DEF LedgerInv
<1>5. CASE Crash
  <2>1. /\ J!JournalCrash /\ w' = NoWindow /\ crashed' /\ now' = now /\ minute' = minute
        /\ call' = [c \in Calls |-> IF call[c].at = "read" THEN [call[c] EXCEPT !.at = "cut"] ELSE call[c]]
    BY <1>5 DEF Crash, J!JournalCrash
  <2>2. LogInv'
    BY <2>1, CrashKeeps DEF LedgerInv
  <2>3. /\ call' \in [Calls -> [at : {"idle", "read", "cut", "admitted", "refused"}, now : 0 .. MaxMinute]]
        /\ \A d \in Calls : call'[d] = call[d] \/ {call[d].at, call'[d].at} \cap {"admitted", "refused"} = {}
    BY <2>1 DEF LedgerInv, LimiterInv, TypeOK
  <2>4. minute' = now' \div MinuteTicks
    BY <2>1 DEF LedgerInv, LimiterInv
  <2> QED
    BY <1>0, <2>1, <2>2, <2>3, <2>4, UndecidedKeeps DEF LedgerInv
<1>6. CASE UNCHANGED ledgerVars
  BY <1>6, LogRests, LimiterRests DEF ledgerVars, vars, journal, LedgerInv
<1> QED
  BY <1>1, <1>2, <1>3, <1>4, <1>5, <1>6 DEF LedgerNext

\* LedgerInv holds in every order of calls, Records, Prunes, ticks and a crash.
THEOREM LedgerInvariant == LedgerSpec => []LedgerInv
<1>1. LedgerInit => LedgerInv
  BY LimiterInitially, LogInitially DEF LedgerInv
<1> QED
  BY <1>1, LedgerStepKeeps, PTL DEF LedgerSpec

\* limiter.go: nobody is refused before the limit was spent in its minute, and
\* one minute's calls alone never exceed it.
THEOREM LimitIsKept == LedgerSpec => []LimitInv
<1>1. LedgerInv => LimitInv
  <2> SUFFICES ASSUME LedgerInv PROVE LimitInv
    OBVIOUS
  <2>1. ASSUME ~ crashed, NEW m \in 0 .. MaxMinute, Cardinality(InMinute("admitted", m)) > LimitPerMin
        PROVE  \E c \in Calls : call[c].at \in {"admitted", "refused"} /\ call[c].now # m
    <3>1. SUFFICES ASSUME \A c \in Decided : call[c].now = m PROVE FALSE
      BY DEF Decided
    <3>2. CASE InMinute("admitted", m) = {}
      BY <2>1, <3>2, FS_EmptySet, LimiterAssumption
    <3>3. CASE InMinute("admitted", m) # {}
      <4>1. PICK c \in InMinute("admitted", m) : TRUE
        BY <3>3
      <4>2. c \in Decided /\ call[c].now = m
        BY <4>1 DEF InMinute, Decided
      <4>3. w # NoWindow /\ w.count = Cardinality(InMinute("admitted", m))
        BY <2>1, <3>1, <4>2 DEF LedgerInv, LimiterInv, ExactWhenAlone
      <4>4. w.count \in 0 .. LimitPerMin
        BY <4>3 DEF LedgerInv, LimiterInv, TypeOK
      <4> QED
        BY <2>1, <4>3, <4>4, LimiterAssumption
    <3> QED
      BY <3>2, <3>3
  <2> QED
    BY <2>1 DEF LedgerInv, LimiterInv, LimitInv, WindowInv, OverLimitNeedsOvertaking
<1> QED
  BY <1>1, LedgerInvariant, PTL

\* recorder.go: no orphan without an overlap, whole entries, and a List that
\* hides nothing behind an earlier second.
THEOREM JournalStaysReadable == LedgerSpec => []JournalInv
<1>1. LedgerInv => JournalInv
  <2> SUFFICES ASSUME LedgerInv PROVE JournalInv
    OBVIOUS
  <2>1. J!TypeOK /\ J!OrphansNeedOverlap
    BY DEF LedgerInv, LogInv
  <2>2. J!EntriesAreWhole
    <3>1. \A e \in log : rec[e].at = "done" => rec[e].kinds \ rec[e].left = rec[e].kinds
      BY <2>1, JournalTypes DEF JournalTypeOK, LedgerInv, LogInv, Stages
    <3> QED
      BY <3>1 DEF LedgerInv, LogInv, WrittenStay, J!EntriesAreWhole
  <2>3. J!ListsNewest
    <3>1. \A e \in log : rec[e].ts \in Nat
      BY <2>1, JournalTypes, LedgerAssumption DEF JournalTypeOK, RecOf
    <3>2. \A t \in Nat : J!Second(t) \in Nat
      BY DEF J!Second, J!SecondTicks
    <3>3. ASSUME NEW shown \in J!Lists(ListLimit), NEW e \in shown, NEW f \in log \ shown
          PROVE  J!Second(rec[e].ts) >= J!Second(rec[f].ts)
      <4>1. e \in log /\ ~ J!Before(rec[e].ts, rec[f].ts)
        BY DEF J!Lists
      <4>2. ~ (J!Second(rec[e].ts) < J!Second(rec[f].ts))
        BY <3>1, <4>1, TextOrder
      <4> QED
        BY <3>1, <3>2, <4>1, <4>2
    <3> QED
      BY <3>3 DEF J!ListsNewest
  <2> QED
    BY <2>1, <2>2, <2>3 DEF JournalInv, J!JournalInv
<1> QED
  BY <1>1, LedgerInvariant, PTL

\* Prune: a row leaves only with a cutoff that reaches its second, and at the
\* hands of the background pass only when it is a whole retention old.
THEOREM PruneTakesOnlyTheOld == LedgerSpec => PruneSpares
<1>1. LedgerInv /\ [LedgerNext]_ledgerVars => [J!PrunedOnly]_journal
  <2> SUFFICES ASSUME LedgerInv, [LedgerNext]_ledgerVars, NEW e \in log, e \notin log'
               PROVE  \E p \in J!Pruners :
                         /\ prune[p].at = "rows"
                         /\ J!Second(rec[e].ts) <= J!Second(prune[p].cutoff)
                         /\ p = "timer" => \E d \in Retentions \ {0} : J!Second(rec[e].ts) + d <= J!Second(now)
    BY DEF J!PrunedOnly
  <2>1. PICK p \in J!Pruners : J!PruneRows(p)
    BY DEF LedgerNext, Ask, Outcome, Journal, Clock, Crash, ledgerVars, journal, J!JournalStep, J!Stamp, J!InsertRow,
           J!InsertBody, J!SetRetention, J!PrunerReads, J!PrunerPrunes, J!OperatorPrunes, J!PruneBodies,
           J!Tick, J!JournalCrash
  <2>2. prune[p].at = "rows" /\ J!Before(rec[e].ts, prune[p].cutoff)
    BY <2>1 DEF J!PruneRows, J!Older
  <2>3. rec[e].ts \in Nat /\ prune[p].cutoff \in Nat /\ now \in Nat
    BY JournalTypes, LedgerAssumption DEF LedgerInv, LogInv, JournalTypeOK, RecOf, PruneRec
  <2>4. J!Second(rec[e].ts) <= J!Second(prune[p].cutoff)
    BY <2>2, <2>3, TextOrder
  <2>5. p = "timer" => \E d \in Retentions \ {0} : J!Second(rec[e].ts) + d <= J!Second(now)
    <3>1. HAVE p = "timer"
    <3>2. PICK d \in Retentions \ {0} : prune[p].cutoff + d * 4 <= now
      BY <2>2, <3>1 DEF LedgerInv, LogInv, CutoffIsOld, J!SecondTicks
    <3>3. d \in Nat
      BY LedgerAssumption
    <3>4. prune[p].cutoff \div 4 + d <= now \div 4
      BY <2>3, <3>2, <3>3
    <3> QED
      BY <2>3, <2>4, <3>3, <3>4 DEF J!Second, J!SecondTicks
  <2> QED
    BY <2>2, <2>4, <2>5
<1> QED
  BY <1>1, LedgerInvariant, PTL DEF LedgerSpec, PruneSpares
=============================================================================
