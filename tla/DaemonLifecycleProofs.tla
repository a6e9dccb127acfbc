----------------------- MODULE DaemonLifecycleProofs -----------------------
(***************************************************************************)
(* Proofs about DaemonLifecycle, for any number of launches, of processes  *)
(* alive at a time, of crashes, and any database outwall ever wrote.       *)
(*                                                                         *)
(* None of the checked properties is inductive.  LifeInv adds to them:     *)
(*   - of the gate: unless a Release was overtaken, whoever has a lock     *)
(*     file open has the one at the path (LockFile), and a desktop past    *)
(*     the gate holds the lock of the file it has open (LockHeld);         *)
(*   - of the data directory while one launch at a time is past the gate   *)
(*     (Alone): what the certificate, the key, the version and the tables  *)
(*     are at each step of that launch (CaOK, DbOK);                       *)
(*   - of the tables at any time, whoever races: they only grow, and hold  *)
(*     at least what each launch has migrated so far (TablesOK);           *)
(*   - of a Serve call: a launch that does not serve has no listener       *)
(*     (ListenerOK), one that serves has an open store (StoreOK).          *)
(***************************************************************************)
EXTENDS DaemonLifecycle, TLAPS

Guarded == Starting \cup Running \cup {"unlock"}

\* The histories, and the database as a version and a function.
HistoryOK ==
  /\ hist \in [serves : Nat, shared : BOOLEAN, overtaken : BOOLEAN, late : BOOLEAN,
               torn : BOOLEAN, crashes : Nat]
  /\ db = [ver |-> db.ver, tables |-> [t \in DOMAIN db.tables |-> db.tables[t]]]

\* Where a Serve call may be: begun once the start is through, and not begun
\* before the gate or after the end.
PhaseOK ==
  \A p \in Procs :
     /\ at[p] \in Starting \cup {"idle", "flock", "gone"} => srv[p] = "none"
     /\ at[p] \in {"idle", "gone"} => p \notin desktop
     /\ at[p] \in {"flock", "unlock", "remove", "wait", "probe", "stop"} => p \in desktop

-----------------------------------------------------------------------------
(* The gate.                                                                *)

\* Nothing but a headless launch is past the gate without having taken the lock.
OnlyDesktops == hist.serves = 0 => \A p \in Procs : at[p] \notin {"idle", "gone"} => p \in desktop

LockFile ==
  ~ hist.overtaken =>
     \A p \in Procs : fd[p] # Nobody /\ at[p] # "remove" => fd[p] = path

LockHeld ==
  /\ \A p \in Procs : at[p] = "flock" => fd[p] # Nobody
  /\ \A p \in desktop : at[p] \in Guarded => fd[p] # Nobody /\ holder[fd[p]] = p

\* A desktop that serves on after its Release is known as late.
LateOK == \A p \in Procs : at[p] = "remove" /\ srv[p] \in {"up", "failed"} => hist.late

\* One launch at a time is past the gate, unless known as shared.
Alone == ~ hist.shared => \A p, q \in Procs : Active(p) /\ Active(q) => p = q

-----------------------------------------------------------------------------
(* The database.                                                            *)

\* Every table that is there has the current shape.
AllCurrent == \A t \in DOMAIN db.tables : db.tables[t] = Current[t]

\* The tables have the columns of the first n migrations.
Reached(n) == /\ n >= 1 => DOMAIN db.tables = Tables
              /\ \A t \in DOMAIN db.tables : Shape(n)[t] \subseteq db.tables[t]

TablesOK ==
  /\ Reached(db.ver)
  /\ \A p \in Procs :
        /\ at[p] = "schema" => AllCurrent
        /\ at[p] = "steps" => Reached(next[p] - 1)
        /\ at[p] \in {"stamp", "sock"} \/ srv[p] # "none" => db.tables = Current

\* While one launch at a time is past the gate: the tables are those of the
\* version, unless there are none yet, or their creation is under way or was
\* cut short.
DbOK ==
  ~ hist.shared =>
     /\ \A p \in Procs : /\ at[p] = "schema" => db.ver = 0
                         /\ at[p] = "steps" /\ ~ hist.torn => next[p] = db.ver + 1 /\ db.tables = Shape(db.ver)
     /\ \/ hist.torn \/ db.tables = Shape(db.ver)
        \/ db.ver = 0 /\ DOMAIN db.tables = {}
        \/ \E p \in Procs : at[p] \in {"schema", "stamp"}

-----------------------------------------------------------------------------
(* The CA and the listeners.                                                *)

\* While one launch at a time is past the gate: a key is the certificate's, and
\* what that launch has read or written by then is what is on disk.
CaOK ==
  ~ hist.shared =>
     /\ key \in {Nobody, cert}
     /\ \A p \in Procs :
           /\ at[p] = "mkcert" => cert = Nobody
           /\ at[p] = "mkkey" => cert = p /\ key = Nobody /\ ca[p] = <<p, p>>
           /\ at[p] = "key" => ca[p][1] = cert /\ cert # Nobody
           /\ at[p] \in {"open", "schema", "stamp", "steps", "sock"} \/ srv[p] = "up" =>
                 ca[p] = <<cert, cert>> /\ key = cert
     /\ cert # Nobody /\ key = Nobody => hist.torn \/ \E p \in Procs : at[p] = "mkkey"

\* A launch without a Serve call in progress has no listener.
ListenerOK ==
  \A p \in Procs : at[p] # "gone" /\ srv[p] \in {"none", "ended"} =>
     sock # p /\ \A n \in DOMAIN ports : ports[n] # p

\* The store is closed by a start that failed or once Serve has returned.
StoreOK ==
  \A p \in Procs : store[p] = "closed" => at[p] \in {"unlock", "remove"} /\ srv[p] # "up"

LifeInv ==
  /\ TypeOK /\ HistoryOK /\ PhaseOK
  /\ OnlyDesktops /\ LockFile /\ LockHeld /\ LateOK /\ Alone /\ DesktopAlone
  /\ TablesOK /\ DbOK /\ CaOK /\ SocketLeadsToServer /\ ListenerOK /\ StoreOK

-----------------------------------------------------------------------------
(* The migrations.                                                          *)

\* What is used of the list of migrations: there are six, on known tables, the
\* first alters nothing and every other something.
LEMMA MigrationsAre ==
  /\ Latest = 6
  /\ Tables = {"upstreams", "agents", "rules", "access_requests"}
  /\ \A i \in DOMAIN TableOrder : TableOrder[i] \in Tables
  /\ \A k \in 1 .. Latest : Alters[k] \subseteq Tables
  /\ Alters[1] = {}
  /\ \A k \in 2 .. Latest : Alters[k] # {}
<1>1. Latest = 6
  BY DEF Latest, Alters
<1>2. Tables = {"upstreams", "agents", "rules", "access_requests"}
  BY DEF Tables, Range, TableOrder
<1>3. \A i \in DOMAIN TableOrder : TableOrder[i] \in Tables
  BY DEF Tables, Range
<1>4. \A k \in 1 .. 6 : k \in {1, 2, 3, 4, 5, 6}
  OBVIOUS
<1>5. /\ Alters[1] = {} /\ Alters[2] = {"upstreams", "rules"} /\ Alters[3] = {"rules"}
      /\ Alters[4] = {"agents"} /\ Alters[5] = {"access_requests"} /\ Alters[6] = {"rules"}
  BY DEF Alters
<1>6. \A k \in 1 .. Latest : Alters[k] \subseteq Tables /\ (k # 1 => Alters[k] # {})
  <2> SUFFICES ASSUME NEW k \in 1 .. 6 PROVE Alters[k] \subseteq Tables /\ (k # 1 => Alters[k] # {})
    BY <1>1
  <2>1. k \in {1, 2, 3, 4, 5, 6}
    BY <1>4
  <2> QED
    BY <1>2, <1>5, <2>1
<1> QED
  BY <1>1, <1>2, <1>3, <1>5, <1>6

\* The shape of a version: every table, with the columns of the steps up to it.
LEMMA ShapeIs ==
  /\ \A v \in 0 .. Latest : /\ DOMAIN Shape(v) = Tables
                            /\ Shape(v) = [t \in Tables |-> Shape(v)[t]]
                            /\ \A t \in Tables : \A k : k \in Shape(v)[t] <=> k \in 1 .. v /\ t \in Alters[k]
  /\ Current = Shape(Latest) /\ DOMAIN Current = Tables
  BY MigrationsAre DEF Shape, Current

\* One migration leads from a version's shape to the next one's.
LEMMA ShapeGrows ==
  ASSUME NEW k \in 1 .. Latest, NEW t \in Tables
  PROVE  Shape(k)[t] = IF t \in Alters[k] THEN Shape(k - 1)[t] \cup {k} ELSE Shape(k - 1)[t]
<1>1. k \in 0 .. Latest /\ k - 1 \in 0 .. Latest /\ \A j : j \in 1 .. k <=> j \in 1 .. k - 1 \/ j = k
  BY MigrationsAre
<1>2. \A j : j \in Shape(k)[t] <=> j \in 1 .. k /\ t \in Alters[j]
  BY <1>1, ShapeIs
<1>3. \A j : j \in Shape(k - 1)[t] <=> j \in 1 .. k - 1 /\ t \in Alters[j]
  BY <1>1, ShapeIs
<1> QED
  BY <1>1, <1>2, <1>3

-----------------------------------------------------------------------------
(* What a step of one launch leaves alone.                                  *)

\* The names of processes are positive numbers, and no process is Nobody.
LEMMA NobodyIsNone == Nobody \notin Procs /\ Procs \subseteq Nat
  BY LifecycleAssumption DEF Nobody, Procs

\* Everything that belongs to the launches other than p.
OthersKeep(p) ==
  \A q \in Procs \ {p} :
     /\ at'[q] = at[q] /\ srv'[q] = srv[q] /\ fd'[q] = fd[q] /\ store'[q] = store[q]
     /\ ca'[q] = ca[q] /\ next'[q] = next[q]
     /\ q \in desktop' <=> q \in desktop
     /\ \A i \in Procs : holder[i] = q => holder'[i] = q
     /\ \A n \in DOMAIN ports : ports'[n] = q <=> ports[n] = q

\* A process that ends takes nothing but its own with it.
LEMMA ExitIs ==
  ASSUME TypeOK, NEW p \in Procs, Exit(p)
  PROVE  /\ OthersKeep(p)
         /\ at' = [at EXCEPT ![p] = "gone"] /\ at'[p] = "gone" /\ p \notin desktop' /\ srv'[p] = "none"
         /\ store'[p] = "none" /\ fd'[p] = Nobody
         /\ desktop' \subseteq Procs /\ at' \in [Procs -> Starting \cup Running \cup {"idle", "flock", "unlock", "remove", "gone"}]
         /\ srv' \in [Procs -> {"none", "up", "failed", "ended"}]
         /\ fd' \in [Procs -> Someone] /\ holder' \in [Procs -> Someone]
         /\ ca' \in [Procs -> Someone \X Someone] /\ next' \in [Procs -> 1 .. Latest + 1]
         /\ ports' \in [{"ui", "desktopData", "serveData"} -> Someone]
         /\ store' \in [Procs -> {"none", "open", "closed"}]
<1>1. Nobody \in Someone /\ 1 \in 1 .. Latest + 1
  BY MigrationsAre DEF Someone
<1>2. OthersKeep(p)
  BY NobodyIsNone DEF TypeOK, Exit, go, Unlocked, Freed, OthersKeep
<1>3. /\ holder' \in [Procs -> Someone] /\ ports' \in [{"ui", "desktopData", "serveData"} -> Someone]
  BY <1>1 DEF TypeOK, Exit, Unlocked, Freed
<1>4. ca' \in [Procs -> Someone \X Someone] /\ next' \in [Procs -> 1 .. Latest + 1] /\ fd' \in [Procs -> Someone]
  BY <1>1 DEF TypeOK, Exit
<1> QED
  BY <1>1, <1>2, <1>3, <1>4 DEF TypeOK, Exit, go

\* A start that fails changes nothing but its own, either.
LEMMA FailIs ==
  ASSUME TypeOK, NEW p \in Procs, Fail(p)
  PROVE  \/ /\ p \in desktop /\ at' = [at EXCEPT ![p] = "unlock"]
            /\ store' = [store EXCEPT ![p] = IF @ = "open" THEN "closed" ELSE @]
            /\ UNCHANGED <<desktop, srv, fd, holder, ca, next, ports>>
         \/ p \notin desktop /\ Exit(p)
  BY DEF Fail, go

\* A step of one launch leaves the others, their locks and their ports alone.
LEMMA OneMoves ==
  ASSUME TypeOK, NEW p \in Procs, Step(p)
  PROVE  OthersKeep(p)
<1> USE NobodyIsNone
<1>1. CASE ServeLaunch(p) \/ OpenLock(p)
  BY <1>1 DEF TypeOK, OthersKeep, ServeLaunch, OpenLock, go
<1>2. CASE Flock(p)
  BY <1>2 DEF TypeOK, OthersKeep, Flock, Enter, go
<1>3. ASSUME Exit(p)
      PROVE  OthersKeep(p)
  BY <1>3, ExitIs
<1>4. ASSUME Fail(p)
      PROVE  OthersKeep(p)
  BY <1>3, <1>4 DEF Fail, TypeOK, OthersKeep, go
<1>5. CASE FocusExisting(p) \/ FocusUnanswered(p) \/ ReleaseRemove(p) \/ Crash(p)
  BY <1>3, <1>5 DEF FocusExisting, FocusUnanswered, ReleaseRemove, Crash
<1>6. CASE CreateFails(p) \/ MigrateFails(p)
  BY <1>4, <1>6 DEF CreateFails, MigrateFails
<1>7. CASE ReadCert(p) \/ WriteCert(p)
  BY <1>7 DEF TypeOK, OthersKeep, ReadCert, WriteCert, go
<1>8. CASE ReadKey(p) \/ WriteKey(p)
  <2>1. CASE Fail(p)
    BY <1>4, <2>1
  <2>2. CASE ~ Fail(p)
    BY <1>8, <2>2 DEF TypeOK, OthersKeep, ReadKey, WriteKey, go
  <2> QED
    BY <2>1, <2>2
<1>9. CASE OpenStore(p) \/ MigrateStep(p)
  BY <1>9 DEF TypeOK, OthersKeep, OpenStore, MigrateStep, go
<1>10. CASE CreateTable(p)
  BY <1>10 DEF TypeOK, OthersKeep, CreateTable, go
<1>11. CASE StampFresh(p) \/ MigrateDone(p) \/ ListenSocket(p)
  BY <1>11 DEF TypeOK, OthersKeep, StampFresh, MigrateDone, ListenSocket, go
<1>12. ASSUME NEW n \in DOMAIN ports, Bind(p, n)
       PROVE  OthersKeep(p)
  BY <1>12 DEF TypeOK, OthersKeep, Bind
<1>13. CASE ServeEnds(p)
  BY <1>13 DEF TypeOK, OthersKeep, ServeEnds, Freed
<1>14. CASE CheckServe(p) \/ Probe(p) \/ NotReady(p) \/ Quit(p) \/ Cancel(p) \/ JoinLate(p)
  BY <1>14 DEF TypeOK, OthersKeep, CheckServe, Probe, NotReady, Quit, Cancel, JoinLate, go
<1>15. CASE Join(p)
  BY <1>3, <1>15 DEF TypeOK, OthersKeep, Join, go
<1>16. CASE ReleaseUnlock(p)
  BY <1>16 DEF TypeOK, OthersKeep, ReleaseUnlock, Unlocked, go
<1> QED
  BY <1>1, <1>2, <1>5, <1>6, <1>7, <1>8, <1>9, <1>10, <1>11, <1>12, <1>13, <1>14, <1>15, <1>16
  DEF Step

\* A step of the database keeps it a version with a function of known tables.
LEMMA DbTypes ==
  ASSUME TypeOK, HistoryOK, TablesOK, NEW p \in Procs, Step(p)
  PROVE  /\ db' = [ver |-> db'.ver, tables |-> [t \in DOMAIN db'.tables |-> db'.tables[t]]]
         /\ db'.ver \in 0 .. Latest
         /\ DOMAIN db'.tables \subseteq Tables
         /\ \A t \in DOMAIN db'.tables : db'.tables[t] \subseteq Current[t]
<1> USE MigrationsAre
<1>1. CASE CreateTable(p) /\ ~ UNCHANGED db
  <2>1. PICK i \in DOMAIN TableOrder :
           db' = [db EXCEPT !.tables = [t \in DOMAIN @ \cup {TableOrder[i]} |->
                                           IF t \in DOMAIN @ THEN @[t] ELSE Current[t]]]
    BY <1>1 DEF CreateTable
  <2>2. db' = [ver |-> db.ver, tables |-> [t \in DOMAIN db.tables \cup {TableOrder[i]} |->
                                              IF t \in DOMAIN db.tables THEN db.tables[t] ELSE Current[t]]]
    BY <2>1 DEF HistoryOK
  <2> QED
    BY <2>2 DEF TypeOK
<1>2. CASE StampFresh(p)
  <2>1. db' = [ver |-> Latest, tables |-> db.tables]
    BY <1>2 DEF StampFresh, HistoryOK
  <2> QED
    BY <2>1 DEF TypeOK, HistoryOK
<1>3. CASE MigrateStep(p)
  <2>1. /\ next[p] \in 1 .. Latest
        /\ db' = [ver |-> next[p], tables |-> Migrated(next[p])]
    BY <1>3 DEF MigrateStep, TypeOK, Stamped
  <2>2. CASE next[p] = 1
    BY <2>1, <2>2 DEF Migrated, TypeOK
  <2>3. CASE next[p] # 1
    <3>1. Migrated(next[p]) = [t \in DOMAIN db.tables |->
             IF t \in Alters[next[p]] THEN db.tables[t] \cup {next[p]} ELSE db.tables[t]]
      BY <2>3 DEF Migrated
    <3>2. \A t \in DOMAIN db.tables : t \in Alters[next[p]] => next[p] \in Current[t]
      <4>1. Latest \in 0 .. Latest /\ DOMAIN db.tables \subseteq Tables
        BY DEF TypeOK
      <4> QED
        BY <2>1, <4>1, ShapeIs
    <3>3. /\ db'.ver = next[p]
          /\ db'.tables = [t \in DOMAIN db.tables |->
                IF t \in Alters[next[p]] THEN db.tables[t] \cup {next[p]} ELSE db.tables[t]]
      BY <2>1, <3>1
    <3>4. \A t \in DOMAIN db'.tables : db'.tables[t] \subseteq Current[t]
      BY <3>2, <3>3 DEF TypeOK
    <3>5. db'.tables = [t \in DOMAIN db'.tables |-> db'.tables[t]] /\ DOMAIN db'.tables = DOMAIN db.tables
      BY <3>3
    <3>6. db' = [ver |-> db'.ver, tables |-> db'.tables]
      BY <2>1
    <3> QED
      BY <2>1, <3>3, <3>4, <3>5, <3>6 DEF TypeOK
  <2> QED
    BY <2>2, <2>3
<1>4. CASE UNCHANGED db
  BY <1>4 DEF TypeOK, HistoryOK
<1> QED
  BY <1>1, <1>2, <1>3, <1>4
  DEF Step, ServeLaunch, OpenLock, Flock, FocusExisting, FocusUnanswered, ReadCert, ReadKey, WriteCert,
      WriteKey, OpenStore, CreateFails, MigrateFails, MigrateDone, ListenSocket, Bind, ServeEnds,
      CheckServe, Probe, NotReady, Quit, Cancel, Join, JoinLate, ReleaseUnlock, ReleaseRemove, Crash

\* Every variable keeps its type.
LEMMA TypesStep ==
  ASSUME TypeOK, HistoryOK, TablesOK, LockHeld, NEW p \in Procs, Step(p)
  PROVE  TypeOK' /\ HistoryOK'
<1>0. /\ desktop \subseteq Procs
      /\ at \in [Procs -> Starting \cup Running \cup {"idle", "flock", "unlock", "remove", "gone"}]
      /\ srv \in [Procs -> {"none", "up", "failed", "ended"}]
      /\ path \in Someone /\ fd \in [Procs -> Someone] /\ holder \in [Procs -> Someone]
      /\ cert \in Someone /\ key \in Someone /\ ca \in [Procs -> Someone \X Someone]
      /\ next \in [Procs -> 1 .. Latest + 1]
      /\ sock \in Someone /\ ports \in [{"ui", "desktopData", "serveData"} -> Someone]
      /\ store \in [Procs -> {"none", "open", "closed"}]
  BY DEF TypeOK
<1>1. Nobody \in Someone /\ p \in Someone /\ Latest \in Nat
  BY MigrationsAre DEF Someone
<1>2. /\ db' = [ver |-> db'.ver, tables |-> [t \in DOMAIN db'.tables |-> db'.tables[t]]]
      /\ db'.ver \in 0 .. Latest
      /\ DOMAIN db'.tables \subseteq Tables
      /\ \A t \in DOMAIN db'.tables : db'.tables[t] \subseteq Current[t]
  BY DbTypes
<1> DEFINE Rest == /\ desktop' \subseteq Procs
      /\ at' \in [Procs -> Starting \cup Running \cup {"idle", "flock", "unlock", "remove", "gone"}]
      /\ srv' \in [Procs -> {"none", "up", "failed", "ended"}]
      /\ path' \in Someone /\ fd' \in [Procs -> Someone] /\ holder' \in [Procs -> Someone]
      /\ cert' \in Someone /\ key' \in Someone /\ ca' \in [Procs -> Someone \X Someone]
      /\ next' \in [Procs -> 1 .. Latest + 1]
      /\ sock' \in Someone /\ ports' \in [{"ui", "desktopData", "serveData"} -> Someone]
      /\ store' \in [Procs -> {"none", "open", "closed"}]
<1>3. hist' \in [serves : Nat, shared : BOOLEAN, overtaken : BOOLEAN, late : BOOLEAN,
                 torn : BOOLEAN, crashes : Nat]
  <2>0. hist \in [serves : Nat, shared : BOOLEAN, overtaken : BOOLEAN, late : BOOLEAN,
                  torn : BOOLEAN, crashes : Nat]
    BY DEF HistoryOK
  <2>1. CASE ServeLaunch(p)
    <3>1. PICK b \in BOOLEAN : hist' = [hist EXCEPT !.serves = @ + 1, !.shared = b]
      BY <2>0, <2>1, Zenon DEF ServeLaunch
    <3>2. hist.serves + 1 \in Nat
      BY <2>0
    <3> QED
      BY <2>0, <3>1, <3>2, Zenon
  <2>2. CASE Flock(p)
    BY <2>0, <2>2 DEF Flock, Enter
  <2>3. CASE WriteKey(p) \/ CreateFails(p)
    BY <2>0, <2>3 DEF WriteKey, CreateFails
  <2>4. CASE ReleaseUnlock(p)
    BY <2>0, <2>4 DEF ReleaseUnlock
  <2>5. CASE ReleaseRemove(p)
    BY <2>0, <2>5 DEF ReleaseRemove
  <2>6. CASE Crash(p)
    <3>1. PICK b \in BOOLEAN : hist' = [hist EXCEPT !.crashes = @ + 1, !.torn = b]
      BY <2>0, <2>6, Zenon DEF Crash
    <3>2. hist.crashes + 1 \in Nat
      BY <2>0
    <3> QED
      BY <2>0, <3>1, <3>2, Zenon
  <2>7. CASE UNCHANGED hist
    BY <2>0, <2>7
  <2> QED
    BY <2>1, <2>2, <2>3, <2>4, <2>5, <2>6, <2>7
    DEF Step, OpenLock, FocusExisting, FocusUnanswered, ReadCert, ReadKey, WriteCert, OpenStore,
        CreateTable, StampFresh, MigrateStep, MigrateFails, MigrateDone, ListenSocket, Bind, ServeEnds,
        CheckServe, Probe, NotReady, Quit, Cancel, Join, JoinLate
<1> SUFFICES Rest
  BY <1>2, <1>3 DEF TypeOK, HistoryOK
<1>4. CASE ServeLaunch(p) \/ OpenLock(p)
  <2>1. CASE ServeLaunch(p)
    BY <1>0, <2>1 DEF ServeLaunch, go, Starting
  <2>2. CASE OpenLock(p)
    <3>1. path' \in Someone
      BY <1>0, <1>1, <2>2 DEF OpenLock
    <3> QED
      BY <1>0, <2>2, <3>1 DEF OpenLock, go
  <2> QED
    BY <1>4, <2>1, <2>2
<1>5. CASE Flock(p)
  BY <1>0, <1>1, <1>5 DEF Flock, Enter, go, Starting
<1>6. ASSUME Exit(p), path' \in Someone, UNCHANGED <<cert, key, sock>>
      PROVE  Rest
  BY <1>0, <1>6, ExitIs
<1>7. ASSUME Fail(p), key' \in Someone, UNCHANGED <<path, cert, sock>>
      PROVE  Rest
  <2>1. CASE Exit(p)
    BY <1>0, <1>7, <2>1, ExitIs
  <2>2. CASE ~ Exit(p)
    <3>1. /\ at' = [at EXCEPT ![p] = "unlock"]
          /\ UNCHANGED <<desktop, srv, fd, holder, ca, next, ports>>
      BY <1>7, <2>2, FailIs
    <3>2. PICK s \in {"none", "open", "closed"} : store' = [store EXCEPT ![p] = s]
      BY <1>0, <1>7, <2>2, FailIs
    <3> QED
      BY <1>0, <1>7, <3>1, <3>2
  <2> QED
    BY <2>1, <2>2
<1>8. CASE FocusExisting(p) \/ FocusUnanswered(p) \/ Crash(p)
  BY <1>0, <1>6, <1>8 DEF FocusExisting, FocusUnanswered, Crash
<1>9. CASE ReleaseRemove(p)
  BY <1>1, <1>6, <1>9 DEF ReleaseRemove
<1>10. CASE CreateFails(p) \/ MigrateFails(p)
  BY <1>0, <1>7, <1>10 DEF CreateFails, MigrateFails
<1>11. CASE ReadCert(p)
  <2>1. PICK c \in Someone \X Someone : ca' = [ca EXCEPT ![p] = c]
    <3>1. ca' = [ca EXCEPT ![p] = [ca[p] EXCEPT ![1] = cert]]
      BY <1>0, <1>11 DEF ReadCert
    <3>2. ca[p] = <<ca[p][1], ca[p][2]>> /\ ca[p][2] \in Someone
      BY <1>0
    <3>3. [ca[p] EXCEPT ![1] = cert] = <<cert, ca[p][2]>>
      BY <3>2
    <3> QED
      BY <1>0, <3>1, <3>2, <3>3
  <2> QED
    BY <1>0, <1>11, <2>1 DEF ReadCert, go, Starting
<1>23. CASE WriteCert(p)
  BY <1>0, <1>1, <1>23 DEF WriteCert, go, Starting
<1>24. CASE ReadKey(p)
  <2>1. CASE Fail(p)
    BY <1>0, <1>7, <1>24, <2>1 DEF ReadKey
  <2>2. CASE ~ Fail(p)
    <3>1. PICK c \in Someone \X Someone : ca' = [ca EXCEPT ![p] = c]
      <4>1. ca' = [ca EXCEPT ![p] = [ca[p] EXCEPT ![2] = key]]
        BY <1>0, <1>24, <2>2 DEF ReadKey
      <4>2. ca[p] = <<ca[p][1], ca[p][2]>> /\ ca[p][1] \in Someone
        BY <1>0
      <4>3. [ca[p] EXCEPT ![2] = key] = <<ca[p][1], key>>
        BY <4>2
      <4> QED
        BY <1>0, <4>1, <4>2, <4>3
    <3> QED
      BY <1>0, <1>24, <2>2, <3>1 DEF ReadKey, go, Starting
  <2> QED
    BY <2>1, <2>2
<1>12. CASE WriteKey(p)
  <2>1. CASE Fail(p)
    BY <1>0, <1>1, <1>7, <1>12, <2>1 DEF WriteKey
  <2>2. CASE ~ Fail(p)
    BY <1>0, <1>1, <1>12, <2>2 DEF WriteKey, go, Starting
  <2> QED
    BY <2>1, <2>2
<1>13. CASE OpenStore(p)
  <2>1. FirstPending \in 1 .. Latest + 1
    BY <1>1 DEF FirstPending, TypeOK
  <2> QED
    BY <1>0, <1>13, <2>1 DEF OpenStore, go, Starting
<1>14. CASE CreateTable(p) \/ StampFresh(p) \/ MigrateDone(p)
  BY <1>0, <1>14 DEF CreateTable, StampFresh, MigrateDone, go, Starting
<1>15. CASE MigrateStep(p)
  <2>1. next[p] + 1 \in 1 .. Latest + 1
    BY <1>0, <1>1, <1>15 DEF MigrateStep
  <2> QED
    BY <1>0, <1>15, <2>1 DEF MigrateStep
<1>16. CASE ListenSocket(p)
  BY <1>0, <1>1, <1>16 DEF ListenSocket, go, Running
<1>17. ASSUME NEW n \in DOMAIN ports, Bind(p, n)
       PROVE  Rest
  BY <1>0, <1>1, <1>17 DEF Bind
<1>18. CASE ServeEnds(p)
  BY <1>0, <1>1, <1>18 DEF ServeEnds, Freed
<1>19. CASE CheckServe(p) \/ Probe(p) \/ NotReady(p) \/ Quit(p) \/ Cancel(p) \/ JoinLate(p)
  BY <1>0, <1>19 DEF CheckServe, Probe, NotReady, Quit, Cancel, JoinLate, go, Running
<1>20. CASE Join(p)
  <2>1. CASE Exit(p)
    BY <1>0, <1>6, <1>20, <2>1 DEF Join
  <2>2. CASE ~ Exit(p)
    BY <1>0, <1>20, <2>2 DEF Join, go
  <2> QED
    BY <2>1, <2>2
<1>21. CASE ReleaseUnlock(p)
  BY <1>0, <1>1, <1>21 DEF ReleaseUnlock, Unlocked, go
<1> QED
  BY <1>4, <1>5, <1>8, <1>9, <1>10, <1>11, <1>12, <1>13, <1>14, <1>15, <1>16, <1>17, <1>18, <1>19,
     <1>20, <1>21, <1>23, <1>24 DEF Step

-----------------------------------------------------------------------------
(* The gate.                                                                *)

\* The histories forget nothing; two launches share the data directory only
\* because one comes through the gate while another is past it.
LEMMA HistoryGrows ==
  ASSUME HistoryOK, NEW p \in Procs, Step(p)
  PROVE  /\ hist'.serves = 0 => hist.serves = 0 /\ ~ ServeLaunch(p)
         /\ hist.shared => hist'.shared
         /\ hist.overtaken => hist'.overtaken
         /\ hist.late => hist'.late
         /\ hist.torn => hist'.torn
         /\ ServeLaunch(p) \/ Flock(p) => (hist'.shared <=> hist.shared \/ \E q \in Procs \ {p} : Active(q))
         /\ ~ (ServeLaunch(p) \/ Flock(p)) => hist'.shared = hist.shared
<1>0. hist \in [serves : Nat, shared : BOOLEAN, overtaken : BOOLEAN, late : BOOLEAN,
                torn : BOOLEAN, crashes : Nat]
  BY DEF HistoryOK
<1>1. CASE ServeLaunch(p)
  <2>1. hist' = [hist EXCEPT !.serves = @ + 1, !.shared = @ \/ \E q \in Procs \ {p} : Active(q)]
    BY <1>1 DEF ServeLaunch
  <2>2. hist'.serves = hist.serves + 1 /\ hist.serves + 1 # 0
    BY <1>0, <2>1
  <2> QED
    BY <1>0, <1>1, <2>1, <2>2, Zenon
<1>2. CASE Flock(p)
  <2>1. hist' = [hist EXCEPT !.shared = @ \/ \E q \in Procs \ {p} : Active(q)]
    BY <1>2 DEF Flock, Enter
  <2>2. ~ ServeLaunch(p)
    BY <1>2 DEF Flock, ServeLaunch, Launchable
  <2> QED
    BY <1>0, <1>2, <2>1, <2>2, Zenon
<1>3. CASE WriteKey(p) \/ CreateFails(p)
  BY <1>0, <1>3 DEF WriteKey, CreateFails, ServeLaunch, Flock, Launchable
<1>4. CASE ReleaseUnlock(p) \/ ReleaseRemove(p)
  BY <1>0, <1>4 DEF ReleaseUnlock, ReleaseRemove, ServeLaunch, Flock, Launchable
<1>5. CASE Crash(p) /\ ~ ServeLaunch(p) /\ ~ Flock(p)
  BY <1>0, <1>5 DEF Crash
<1>6. CASE UNCHANGED hist /\ ~ ServeLaunch(p) /\ ~ Flock(p)
  BY <1>6
<1> QED
  BY <1>1, <1>2, <1>3, <1>4, <1>5, <1>6
  DEF Step, OpenLock, FocusExisting, FocusUnanswered, ReadCert, ReadKey, WriteCert, OpenStore,
      CreateTable, StampFresh, MigrateStep, MigrateFails, MigrateDone, ListenSocket, Bind, ServeEnds,
      CheckServe, Probe, NotReady, Quit, Cancel, Join, JoinLate

\* Where a launch and its Serve call are after its step.
LEMMA PhaseStep ==
  ASSUME TypeOK, PhaseOK, NEW p \in Procs, Step(p)
  PROVE  PhaseOK'
<1>0. /\ at \in [Procs -> Starting \cup Running \cup {"idle", "flock", "unlock", "remove", "gone"}]
      /\ srv \in [Procs -> {"none", "up", "failed", "ended"}]
  BY DEF TypeOK
<1>1. \A q \in Procs \ {p} :
         at'[q] = at[q] /\ srv'[q] = srv[q] /\ (q \in desktop' <=> q \in desktop)
  BY OneMoves DEF OthersKeep
<1> DEFINE Own == /\ at'[p] \in Starting \cup {"idle", "flock", "gone"} => srv'[p] = "none"
                  /\ at'[p] \in {"idle", "gone"} => p \notin desktop'
                  /\ at'[p] \in {"flock", "unlock", "remove", "wait", "probe", "stop"} => p \in desktop'
<1> SUFFICES Own
  BY <1>1 DEF PhaseOK
<1>2. /\ at[p] \in Starting \cup {"idle", "flock", "gone"} => srv[p] = "none"
      /\ at[p] \in {"idle", "gone"} => p \notin desktop
      /\ at[p] \in {"flock", "unlock", "remove", "wait", "probe", "stop"} => p \in desktop
  BY DEF PhaseOK
<1>3. CASE ServeLaunch(p) \/ OpenLock(p)
  BY <1>0, <1>2, <1>3 DEF ServeLaunch, OpenLock, Launchable, go, Starting
<1>4. CASE Flock(p)
  BY <1>0, <1>2, <1>4 DEF Flock, Enter, go, Starting
<1>5. ASSUME Exit(p)
      PROVE  Own
  BY <1>5, ExitIs
<1>6. ASSUME Fail(p)
      PROVE  Own
  BY <1>0, <1>5, <1>6 DEF Fail, go, Starting
<1>7. CASE FocusExisting(p) \/ FocusUnanswered(p) \/ ReleaseRemove(p) \/ Crash(p)
  BY <1>5, <1>7 DEF FocusExisting, FocusUnanswered, ReleaseRemove, Crash
<1>8. CASE CreateFails(p) \/ MigrateFails(p)
  BY <1>6, <1>8 DEF CreateFails, MigrateFails
<1>9. CASE ReadCert(p) \/ WriteCert(p) \/ OpenStore(p)
  BY <1>0, <1>2, <1>9 DEF ReadCert, WriteCert, OpenStore, go, Starting
<1>10. CASE ReadKey(p) \/ WriteKey(p)
  <2>1. CASE Fail(p)
    BY <1>6, <2>1
  <2>2. CASE ~ Fail(p)
    BY <1>0, <1>2, <1>10, <2>2 DEF ReadKey, WriteKey, go, Starting
  <2> QED
    BY <2>1, <2>2
<1>11. CASE CreateTable(p) \/ StampFresh(p) \/ MigrateStep(p) \/ MigrateDone(p)
  BY <1>0, <1>2, <1>11 DEF CreateTable, StampFresh, MigrateStep, MigrateDone, go, Starting
<1>12. CASE ListenSocket(p)
  BY <1>0, <1>2, <1>12 DEF ListenSocket, go, Starting
<1>13. ASSUME NEW n \in DOMAIN ports, Bind(p, n)
       PROVE  Own
  BY <1>0, <1>2, <1>13 DEF Bind
<1>14. CASE ServeEnds(p)
  BY <1>0, <1>2, <1>14 DEF ServeEnds, Starting
<1>15. CASE CheckServe(p) \/ Probe(p) \/ NotReady(p) \/ Quit(p) \/ Cancel(p) \/ JoinLate(p)
  BY <1>0, <1>2, <1>15 DEF CheckServe, Probe, NotReady, Quit, Cancel, JoinLate, go, Starting
<1>16. CASE Join(p)
  BY <1>0, <1>2, <1>5, <1>16 DEF Join, go, Starting
<1>17. CASE ReleaseUnlock(p)
  BY <1>0, <1>2, <1>17 DEF ReleaseUnlock, go, Starting
<1> QED
  BY <1>3, <1>4, <1>7, <1>8, <1>9, <1>10, <1>11, <1>12, <1>13, <1>14, <1>15, <1>16, <1>17 DEF Step

\* Only through the gate does a launch become active.
LEMMA ActiveStep ==
  ASSUME TypeOK, PhaseOK, NEW p \in Procs, Step(p), NEW q \in Procs, Active(q)'
  PROVE  Active(q) \/ (q = p /\ (ServeLaunch(p) \/ Flock(p)))
<1>0. /\ at \in [Procs -> Starting \cup Running \cup {"idle", "flock", "unlock", "remove", "gone"}]
      /\ srv \in [Procs -> {"none", "up", "failed", "ended"}]
  BY DEF TypeOK
<1>1. CASE q # p
  BY <1>1, OneMoves DEF OthersKeep, Active
<1> SUFFICES ASSUME q = p, ~ ServeLaunch(p), ~ Flock(p) PROVE Active(p)
  BY <1>1
<1>2. at'[p] # "gone"
  BY PhaseStep DEF Active, PhaseOK, Starting, Running
<1>3. ~ Exit(p)
  BY <1>2, ExitIs
<1>4. CASE at[p] \in Starting
  BY <1>4 DEF Active
<1>5. CASE OpenLock(p)
  BY <1>0, <1>5 DEF OpenLock, Launchable, go, Active, PhaseOK, Starting, Running
<1>6. CASE ListenSocket(p) \/ ReadKey(p) \/ WriteKey(p) \/ ReadCert(p) \/ WriteCert(p) \/ OpenStore(p)
            \/ CreateTable(p) \/ StampFresh(p) \/ CreateFails(p) \/ MigrateStep(p) \/ MigrateFails(p)
            \/ MigrateDone(p)
  BY <1>4, <1>6 DEF ListenSocket, ReadKey, WriteKey, ReadCert, WriteCert, OpenStore, CreateTable,
                    StampFresh, CreateFails, MigrateStep, MigrateFails, MigrateDone, Starting
<1>7. ASSUME NEW n \in DOMAIN ports, Bind(p, n)
      PROVE  Active(p)
  BY <1>7 DEF Bind, Active
<1>8. CASE ServeEnds(p)
  BY <1>8 DEF ServeEnds, Active
<1>9. CASE CheckServe(p) \/ Probe(p) \/ NotReady(p) \/ Quit(p) \/ Cancel(p) \/ JoinLate(p) \/ Join(p)
  BY <1>9 DEF CheckServe, Probe, NotReady, Quit, Cancel, JoinLate, Join, Active, Running
<1>10. CASE ReleaseUnlock(p)
  BY <1>10 DEF ReleaseUnlock, Active
<1> QED
  BY <1>3, <1>5, <1>6, <1>7, <1>8, <1>9, <1>10
  DEF Step, FocusExisting, FocusUnanswered, ReleaseRemove, Crash

\* As long as nobody shared it, one launch at a time is past the gate.
LEMMA AloneStep ==
  ASSUME TypeOK, HistoryOK, PhaseOK, Alone, NEW p \in Procs, Step(p)
  PROVE  Alone'
<1> SUFFICES ASSUME ~ hist'.shared, NEW q \in Procs, NEW r \in Procs, Active(q)', Active(r)', q # r
             PROVE  FALSE
  BY DEF Alone
<1>1. ~ hist.shared
  BY HistoryGrows
<1>2. Active(q) \/ (q = p /\ (ServeLaunch(p) \/ Flock(p)))
  BY ActiveStep
<1>3. Active(r) \/ (r = p /\ (ServeLaunch(p) \/ Flock(p)))
  BY ActiveStep
<1>4. ServeLaunch(p) \/ Flock(p) => \A x \in Procs \ {p} : ~ Active(x)
  BY HistoryGrows
<1> QED
  BY <1>1, <1>2, <1>3, <1>4 DEF Alone

\* Without a headless launch every launch is a desktop.
LEMMA OnlyDesktopsStep ==
  ASSUME TypeOK, HistoryOK, PhaseOK, OnlyDesktops, NEW p \in Procs, Step(p)
  PROVE  OnlyDesktops'
<1> SUFFICES ASSUME hist'.serves = 0, NEW q \in Procs, at'[q] \notin {"idle", "gone"}
             PROVE  q \in desktop'
  BY DEF OnlyDesktops
<1>1. hist.serves = 0 /\ ~ ServeLaunch(p)
  BY HistoryGrows
<1>2. CASE q # p
  BY <1>1, <1>2, OneMoves DEF OthersKeep, OnlyDesktops
<1>3. CASE q = p
  <2>1. ~ Exit(p)
    BY <1>3, ExitIs
  <2>2. CASE OpenLock(p)
    BY <1>3, <2>2 DEF OpenLock
  <2>3. UNCHANGED desktop \/ OpenLock(p)
    BY <1>1, <2>1
    DEF Step, ServeLaunch, OpenLock, Flock, FocusExisting, FocusUnanswered, ReadCert, ReadKey, WriteCert,
        WriteKey, OpenStore, CreateTable, StampFresh, CreateFails, MigrateStep, MigrateFails, MigrateDone,
        ListenSocket, Bind, ServeEnds, CheckServe, Probe, NotReady, Quit, Cancel, Join, JoinLate,
        ReleaseUnlock, ReleaseRemove, Crash, Fail
  <2>4. CASE at[p] \notin {"idle", "gone"}
    BY <1>1, <1>3, <2>2, <2>3, <2>4 DEF OnlyDesktops
  <2>5. CASE at[p] \in {"idle", "gone"}
    <3>1. srv[p] = "none"
      BY <2>5 DEF PhaseOK
    <3> QED
      BY <1>1, <1>3, <2>1, <2>2, <2>5, <3>1
      DEF Step, ServeLaunch, OpenLock, Flock, FocusExisting, FocusUnanswered, ReadCert, ReadKey, WriteCert,
          WriteKey, OpenStore, CreateTable, StampFresh, CreateFails, MigrateStep, MigrateFails, MigrateDone,
          ListenSocket, Bind, ServeEnds, CheckServe, Probe, NotReady, Quit, Cancel, Join, JoinLate,
          ReleaseUnlock, ReleaseRemove, Crash
  <2> QED
    BY <2>4, <2>5
<1> QED
  BY <1>2, <1>3

\* The steps that touch the lock file or its lock.
LEMMA LockMoves ==
  ASSUME NEW p \in Procs, Step(p), ~ Exit(p), ~ OpenLock(p)
  PROVE  /\ UNCHANGED <<fd, path, desktop>>
         /\ Flock(p) \/ ReleaseUnlock(p) \/ UNCHANGED holder
<1>1. UNCHANGED <<fd, path, desktop>>
  BY DEF Step, ServeLaunch, Flock, FocusExisting, FocusUnanswered, ReadCert, ReadKey, WriteCert, WriteKey,
         OpenStore, CreateTable, StampFresh, CreateFails, MigrateStep, MigrateFails, MigrateDone,
         ListenSocket, Bind, ServeEnds, CheckServe, Probe, NotReady, Quit, Cancel, Join, JoinLate,
         ReleaseUnlock, ReleaseRemove, Crash, Fail
<1>2. Flock(p) \/ ReleaseUnlock(p) \/ UNCHANGED holder
  BY DEF Step, ServeLaunch, FocusExisting, FocusUnanswered, ReadCert, ReadKey, WriteCert, WriteKey,
         OpenStore, CreateTable, StampFresh, CreateFails, MigrateStep, MigrateFails, MigrateDone,
         ListenSocket, Bind, ServeEnds, CheckServe, Probe, NotReady, Quit, Cancel, Join, JoinLate,
         ReleaseRemove, Crash, Fail
<1> QED
  BY <1>1, <1>2

\* Where a launch may be next to a lock it holds.
LEMMA GuardedMoves ==
  ASSUME TypeOK, PhaseOK, NEW p \in Procs, Step(p), p \in desktop', ~ Flock(p)
  PROVE  /\ at'[p] \in Guarded => at[p] \in Guarded /\ ~ ReleaseUnlock(p)
         /\ at'[p] = "flock" => OpenLock(p) \/ at[p] = "flock"
         /\ at[p] = "remove" => at'[p] = "remove"
<1>0. /\ at \in [Procs -> Starting \cup Running \cup {"idle", "flock", "unlock", "remove", "gone"}]
  BY DEF TypeOK
<1>1. ~ Exit(p) /\ (at[p] \in {"idle", "gone"} => srv[p] = "none" /\ p \notin desktop)
  BY ExitIs DEF PhaseOK
<1>2. CASE OpenLock(p)
  BY <1>0, <1>2 DEF OpenLock, Launchable, go, Guarded, Starting, Running, ReleaseUnlock
<1>3. CASE ServeLaunch(p)
  BY <1>0, <1>1, <1>3 DEF ServeLaunch, Launchable, ReleaseUnlock
<1>4. CASE ReadCert(p) \/ WriteCert(p) \/ OpenStore(p) \/ CreateTable(p) \/ StampFresh(p) \/ MigrateStep(p)
           \/ MigrateDone(p) \/ ListenSocket(p)
  BY <1>0, <1>4 DEF ReadCert, WriteCert, OpenStore, CreateTable, StampFresh, MigrateStep, MigrateDone,
                    ListenSocket, go, Guarded, Starting, Running, ReleaseUnlock
<1>5. CASE ReadKey(p) \/ WriteKey(p) \/ CreateFails(p) \/ MigrateFails(p)
  BY <1>0, <1>1, <1>5 DEF ReadKey, WriteKey, CreateFails, MigrateFails, Fail, go, Guarded, Starting, ReleaseUnlock
<1>6. ASSUME NEW n \in DOMAIN ports, Bind(p, n)
      PROVE  UNCHANGED at /\ ~ ReleaseUnlock(p)
  BY <1>0, <1>6 DEF Bind, ReleaseUnlock, go
<1>7. CASE ServeEnds(p)
  BY <1>0, <1>7 DEF ServeEnds, ReleaseUnlock, go
<1>8. CASE CheckServe(p) \/ Probe(p) \/ NotReady(p) \/ Quit(p) \/ Cancel(p) \/ JoinLate(p) \/ Join(p)
  BY <1>0, <1>1, <1>8 DEF CheckServe, Probe, NotReady, Quit, Cancel, JoinLate, Join, go, Guarded, Starting,
                          Running, ReleaseUnlock
<1>9. CASE ReleaseUnlock(p)
  BY <1>0, <1>9 DEF ReleaseUnlock, go, Guarded, Starting, Running
<1> QED
  BY <1>1, <1>2, <1>3, <1>4, <1>5, <1>6, <1>7, <1>8, <1>9
  DEF Step, FocusExisting, FocusUnanswered, ReleaseRemove, Crash

\* Unless a Release was overtaken, the lock file one has open is the one at the
\* path.
LEMMA LockFileStep ==
  ASSUME TypeOK, HistoryOK, PhaseOK, LockFile, NEW p \in Procs, Step(p)
  PROVE  LockFile'
<1> SUFFICES ASSUME ~ hist'.overtaken, NEW q \in Procs, fd'[q] # Nobody, at'[q] # "remove"
             PROVE  fd'[q] = path'
  BY DEF LockFile
<1>0. ~ hist.overtaken /\ fd \in [Procs -> Someone]
  BY HistoryGrows DEF TypeOK
<1>1. \A r \in Procs : fd[r] # Nobody /\ at[r] # "remove" => fd[r] = path
  BY <1>0 DEF LockFile
<1>2. CASE OpenLock(p)
  <2>1. CASE q = p
    BY <1>0, <1>2, <2>1 DEF OpenLock
  <2>2. CASE q # p
    BY <1>1, <1>2, <2>2, OneMoves DEF OpenLock, OthersKeep
  <2> QED
    BY <2>1, <2>2
<1>3. CASE Exit(p)
  <2>1. q # p /\ fd'[q] = fd[q] /\ at'[q] = at[q]
    BY <1>3, ExitIs DEF OthersKeep
  <2>2. CASE ReleaseRemove(p)
    <3>1. ~ (path \notin {fd[p], Nobody} \/ \E r \in Procs \ {p} : at[r] # "remove" /\ fd[r] = path /\ path # Nobody)
      BY <2>2 DEF ReleaseRemove, HistoryOK
    <3> QED
      BY <1>1, <2>1, <3>1
  <2>3. CASE ~ ReleaseRemove(p)
    <3>1. path' = path
      BY <1>3, <2>3, ExitIs
      DEF Step, ServeLaunch, OpenLock, Flock, FocusExisting, FocusUnanswered, ReadCert, ReadKey, WriteCert,
          WriteKey, OpenStore, CreateTable, StampFresh, CreateFails, MigrateStep, MigrateFails, MigrateDone,
          ListenSocket, Bind, ServeEnds, CheckServe, Probe, NotReady, Quit, Cancel, Join, JoinLate,
          ReleaseUnlock, Crash, go
    <3> QED
      BY <1>1, <2>1, <3>1
  <2> QED
    BY <2>2, <2>3
<1>4. CASE ~ OpenLock(p) /\ ~ Exit(p)
  <2>1. UNCHANGED <<fd, path, desktop>>
    BY <1>4, LockMoves
  <2>2. at[q] # "remove"
    <3>1. CASE q = p /\ at[p] = "remove"
      <4>1. p \in desktop'
        BY <2>1, <3>1 DEF PhaseOK
      <4>2. ~ Flock(p)
        BY <3>1 DEF Flock
      <4> QED
        BY <3>1, <4>1, <4>2, GuardedMoves
    <3> QED
      BY <3>1, OneMoves DEF OthersKeep
  <2> QED
    BY <1>1, <2>1, <2>2
<1> QED
  BY <1>2, <1>3, <1>4

\* A desktop past the gate keeps the lock of its file until it unlocks it.
LEMMA LockHeldStep ==
  ASSUME TypeOK, HistoryOK, PhaseOK, LockHeld, NEW p \in Procs, Step(p)
  PROVE  LockHeld'
<1>0. /\ fd \in [Procs -> Someone] /\ holder \in [Procs -> Someone] /\ path \in Someone
      /\ desktop \subseteq Procs /\ desktop' \subseteq Procs
      /\ at \in [Procs -> Starting \cup Running \cup {"idle", "flock", "unlock", "remove", "gone"}]
  <2>1. desktop' \subseteq Procs
    <3>1. CASE Exit(p)
      BY <3>1, ExitIs
    <3>2. CASE OpenLock(p)
      BY <3>2 DEF OpenLock, TypeOK
    <3> QED
      BY <3>1, <3>2, LockMoves DEF TypeOK
  <2> QED
    BY <2>1 DEF TypeOK
<1>1. Nobody \notin Procs /\ \A i \in Someone : i # Nobody => i \in Procs
  BY NobodyIsNone DEF Someone
<1>2. \A q \in Procs \ {p} : /\ at'[q] = at[q] /\ fd'[q] = fd[q] /\ (q \in desktop' <=> q \in desktop)
                             /\ \A i \in Procs : holder[i] = q => holder'[i] = q
  BY OneMoves DEF OthersKeep
<1>3. ASSUME NEW q \in Procs \ {p}
      PROVE  /\ at'[q] = "flock" => fd'[q] # Nobody
             /\ q \in desktop' /\ at'[q] \in Guarded => fd'[q] # Nobody /\ holder'[fd'[q]] = q
  BY <1>0, <1>1, <1>2 DEF LockHeld
<1>4. at'[p] = "flock" => fd'[p] # Nobody
  <2>1. CASE Exit(p)
    BY <2>1, ExitIs
  <2>2. CASE OpenLock(p)
    BY <1>0, <1>1, <2>2 DEF OpenLock
  <2>3. CASE Flock(p)
    BY <1>0, <2>3 DEF Flock, Enter, go
  <2>4. CASE ~ Exit(p) /\ ~ OpenLock(p) /\ ~ Flock(p)
    <3>1. UNCHANGED <<fd, path, desktop>>
      BY <2>4, LockMoves
    <3>2. CASE p \in desktop'
      BY <2>4, <3>1, <3>2, GuardedMoves DEF LockHeld
    <3>3. CASE p \notin desktop'
      BY <3>3, PhaseStep DEF PhaseOK
    <3> QED
      BY <3>2, <3>3
  <2> QED
    BY <2>1, <2>2, <2>3, <2>4
<1>5. ASSUME p \in desktop', at'[p] \in Guarded
      PROVE  fd'[p] # Nobody /\ holder'[fd'[p]] = p
  <2>1. CASE Flock(p)
    <3>1. fd[p] \in Procs
      BY <1>0, <1>1, <2>1 DEF Flock, LockHeld
    <3> QED
      BY <1>0, <1>1, <2>1, <3>1 DEF Flock
  <2>2. CASE ~ Flock(p)
    <3>1. at[p] \in Guarded /\ ~ ReleaseUnlock(p)
      BY <1>5, <2>2, GuardedMoves
    <3>2. ~ Exit(p) /\ ~ OpenLock(p)
      BY <1>5, <3>1, ExitIs DEF OpenLock, Launchable, Guarded, Starting, Running
    <3> QED
      BY <1>5, <2>2, <3>1, <3>2, LockMoves DEF LockHeld
  <2> QED
    BY <2>1, <2>2
<1> QED
  BY <1>0, <1>3, <1>4, <1>5 DEF LockHeld

\* A desktop that unlocks with a Serve call still there is recorded as late.
LEMMA LateStep ==
  ASSUME TypeOK, HistoryOK, PhaseOK, LateOK, NEW p \in Procs, Step(p)
  PROVE  LateOK'
<1> SUFFICES ASSUME NEW q \in Procs, at'[q] = "remove", srv'[q] \in {"up", "failed"}
             PROVE  hist'.late
  BY DEF LateOK
<1>0. /\ at \in [Procs -> Starting \cup Running \cup {"idle", "flock", "unlock", "remove", "gone"}]
      /\ srv \in [Procs -> {"none", "up", "failed", "ended"}]
      /\ (hist.late => hist'.late)
  BY HistoryGrows DEF TypeOK
<1>1. CASE at[q] = "remove" /\ srv[q] \in {"up", "failed"}
  BY <1>0, <1>1 DEF LateOK
<1>2. CASE q # p
  BY <1>1, <1>2, OneMoves DEF OthersKeep
<1>3. CASE ReleaseUnlock(p) /\ q = p
  BY <1>0, <1>3 DEF ReleaseUnlock, HistoryOK
<1>4. CASE q = p /\ ~ ReleaseUnlock(p)
  <2>1. ~ Exit(p)
    BY <1>4, ExitIs
  <2>2. at[p] = "remove" /\ srv[p] \in {"up", "failed"}
    <3>1. ASSUME NEW n \in DOMAIN ports, Bind(p, n)
          PROVE  at[p] = "remove" /\ srv[p] \in {"up", "failed"}
      BY <1>0, <1>4, <3>1 DEF Bind
    <3>2. CASE ServeEnds(p)
      BY <1>0, <1>4, <3>2 DEF ServeEnds
    <3>3. CASE ServeLaunch(p) \/ OpenLock(p) \/ Flock(p) \/ ReadCert(p) \/ WriteCert(p) \/ OpenStore(p)
               \/ CreateTable(p) \/ StampFresh(p) \/ MigrateStep(p) \/ MigrateDone(p) \/ ListenSocket(p)
      BY <1>0, <1>4, <3>3 DEF ServeLaunch, OpenLock, Flock, Enter, ReadCert, WriteCert, OpenStore,
         CreateTable, StampFresh, MigrateStep, MigrateDone, ListenSocket, go
    <3>4. CASE ReadKey(p) \/ WriteKey(p) \/ CreateFails(p) \/ MigrateFails(p)
      BY <1>0, <1>4, <2>1, <3>4 DEF ReadKey, WriteKey, CreateFails, MigrateFails, Fail, go
    <3>5. CASE CheckServe(p) \/ Probe(p) \/ NotReady(p) \/ Quit(p) \/ Cancel(p) \/ JoinLate(p) \/ Join(p)
      BY <1>0, <1>4, <2>1, <3>5 DEF CheckServe, Probe, NotReady, Quit, Cancel, JoinLate, Join, go
    <3> QED
      BY <1>4, <2>1, <3>1, <3>2, <3>3, <3>4, <3>5
      DEF Step, FocusExisting, FocusUnanswered, ReleaseRemove, Crash
  <2> QED
    BY <1>1, <1>4, <2>2
<1> QED
  BY <1>2, <1>3, <1>4

\* The gate lets a desktop through only when no other is past it.
LEMMA DesktopAloneStep ==
  ASSUME TypeOK, HistoryOK, PhaseOK, OnlyDesktops, LockFile, LockHeld, LateOK, DesktopAlone,
         NEW p \in Procs, Step(p)
  PROVE  DesktopAlone'
<1> SUFFICES ASSUME hist'.shared, hist'.serves = 0, ~ hist'.overtaken, ~ hist'.late
             PROVE  FALSE
  BY DEF DesktopAlone
<1>1. hist.serves = 0 /\ ~ ServeLaunch(p) /\ ~ hist.overtaken /\ ~ hist.late
  BY HistoryGrows
<1>2. ~ hist.shared
  BY <1>1 DEF DesktopAlone
<1>3. Flock(p)
  BY <1>1, <1>2, HistoryGrows
<1>4. PICK q \in Procs \ {p} : Active(q)
  BY <1>2, <1>3, HistoryGrows
<1>5. at[q] \notin {"idle", "gone", "flock"} /\ q \in desktop
  BY <1>1, <1>4 DEF Active, PhaseOK, OnlyDesktops, Starting, Running
<1>6. CASE at[q] = "remove"
  BY <1>1, <1>4, <1>6 DEF Active, LateOK, Starting, Running
<1>7. CASE at[q] # "remove"
  <2>1. at[q] \in Guarded
    BY <1>5, <1>7 DEF TypeOK, Guarded
  <2>2. fd[q] = path /\ holder[fd[q]] = q
    BY <1>1, <1>5, <1>7, <2>1 DEF LockFile, LockHeld
  <2>3. fd[p] = path
    BY <1>1, <1>3 DEF LockFile, LockHeld, Flock
  <2> QED
    BY <1>3, <2>2, <2>3, NobodyIsNone DEF Flock
<1> QED
  BY <1>6, <1>7

-----------------------------------------------------------------------------
(* The database.                                                            *)

\* What a step does to the database: it creates one table, stamps the version,
\* runs one migration or leaves it alone.
LEMMA DbMoves ==
  ASSUME TypeOK, HistoryOK, NEW p \in Procs, Step(p)
  PROVE  \/ UNCHANGED db
         \/ /\ at[p] = "schema" /\ at' = at /\ next' = next
            /\ \E t \in Tables \ DOMAIN db.tables :
                 db' = [ver |-> db.ver, tables |-> [u \in DOMAIN db.tables \cup {t} |->
                                                      IF u \in DOMAIN db.tables THEN db.tables[u] ELSE Current[u]]]
         \/ at[p] = "stamp" /\ at' = [at EXCEPT ![p] = "sock"] /\ db' = [ver |-> Latest, tables |-> db.tables]
         \/ /\ MigrateStep(p) /\ at' = at /\ next' = [next EXCEPT ![p] = next[p] + 1]
            /\ next[p] \in 1 .. Latest /\ db' = [ver |-> next[p], tables |-> Migrated(next[p])]
<1>1. CASE CreateTable(p) /\ ~ UNCHANGED db
  <2>1. PICK i \in DOMAIN TableOrder :
           /\ TableOrder[i] \notin DOMAIN db.tables
           /\ db' = [db EXCEPT !.tables = [t \in DOMAIN @ \cup {TableOrder[i]} |->
                                           IF t \in DOMAIN @ THEN @[t] ELSE Current[t]]]
    BY <1>1 DEF CreateTable
  <2>2. db' = [ver |-> db.ver, tables |-> [u \in DOMAIN db.tables \cup {TableOrder[i]} |->
                                              IF u \in DOMAIN db.tables THEN db.tables[u] ELSE Current[u]]]
    BY <2>1 DEF HistoryOK
  <2>3. TableOrder[i] \in Tables \ DOMAIN db.tables
    BY <2>1, MigrationsAre
  <2>4. at[p] = "schema" /\ at' = at /\ next' = next
    BY <1>1 DEF CreateTable
  <2> QED
    BY <2>2, <2>3, <2>4
<1>2. CASE StampFresh(p)
  BY <1>2 DEF StampFresh, HistoryOK, go
<1>3. CASE MigrateStep(p)
  BY <1>3, MigrationsAre DEF MigrateStep, TypeOK, Stamped
<1> QED
  BY <1>1, <1>2, <1>3
  DEF Step, ServeLaunch, OpenLock, Flock, FocusExisting, FocusUnanswered, ReadCert, ReadKey, WriteCert,
      WriteKey, OpenStore, CreateFails, MigrateFails, MigrateDone, ListenSocket, Bind, ServeEnds,
      CheckServe, Probe, NotReady, Quit, Cancel, Join, JoinLate, ReleaseUnlock, ReleaseRemove, Crash

\* Tables and columns are added and never dropped.
LEMMA TablesGrow ==
  ASSUME TypeOK, HistoryOK, NEW p \in Procs, Step(p)
  PROVE  /\ DOMAIN db.tables \subseteq DOMAIN db'.tables
         /\ \A t \in DOMAIN db.tables : db.tables[t] \subseteq db'.tables[t]
<1>1. CASE UNCHANGED db
  BY <1>1
<1>2. ASSUME NEW t \in Tables,
             db' = [ver |-> db.ver, tables |-> [u \in DOMAIN db.tables \cup {t} |->
                                                  IF u \in DOMAIN db.tables THEN db.tables[u] ELSE Current[u]]]
      PROVE  /\ DOMAIN db.tables \subseteq DOMAIN db'.tables
             /\ \A u \in DOMAIN db.tables : db.tables[u] \subseteq db'.tables[u]
  BY <1>2
<1>3. CASE db' = [ver |-> Latest, tables |-> db.tables]
  BY <1>3
<1>4. CASE db' = [ver |-> next[p], tables |-> Migrated(next[p])]
  <2>1. CASE next[p] = 1
    BY <1>4, <2>1 DEF Migrated, TypeOK
  <2>2. CASE next[p] # 1
    <3>1. db'.tables = [t \in DOMAIN db.tables |->
             IF t \in Alters[next[p]] THEN db.tables[t] \cup {next[p]} ELSE db.tables[t]]
      BY <1>4, <2>2 DEF Migrated
    <3> QED
      BY <3>1
  <2> QED
    BY <2>1, <2>2
<1> QED
  BY <1>1, <1>2, <1>3, <1>4, DbMoves

\* What the tables have reached they keep.
LEMMA ReachedStays ==
  ASSUME TypeOK, HistoryOK, TablesOK, NEW p \in Procs, Step(p), NEW n \in 0 .. Latest, Reached(n)
  PROVE  Reached(n)'
<1>0. n \in Nat
  BY MigrationsAre
<1>1. /\ DOMAIN db.tables \subseteq DOMAIN db'.tables
      /\ \A t \in DOMAIN db.tables : db.tables[t] \subseteq db'.tables[t]
      /\ DOMAIN db'.tables \subseteq Tables
  BY TablesGrow, DbTypes
<1>2. CASE n = 0
  <2>1. \A t \in Tables : Shape(0)[t] = {}
    BY <1>2, ShapeIs
  <2> QED
    BY <1>1, <1>2, <2>1 DEF Reached
<1>3. CASE n # 0
  <2>1. n >= 1 /\ DOMAIN db.tables = Tables
    BY <1>0, <1>3 DEF Reached
  <2>2. Shape(n)' = Shape(n)
    BY DEF Shape, Tables, TableOrder, Alters
  <2> QED
    BY <1>1, <2>1, <2>2 DEF Reached
<1> QED
  BY <1>2, <1>3

\* Tables of the current shape stay so.
LEMMA CurrentStays ==
  ASSUME TypeOK, HistoryOK, TablesOK, NEW p \in Procs, Step(p), db.tables = Current
  PROVE  db'.tables = Current
<1>1. /\ DOMAIN db.tables \subseteq DOMAIN db'.tables
      /\ \A t \in DOMAIN db.tables : db.tables[t] \subseteq db'.tables[t]
      /\ DOMAIN db'.tables \subseteq Tables
      /\ \A t \in DOMAIN db'.tables : db'.tables[t] \subseteq Current[t]
      /\ db' = [ver |-> db'.ver, tables |-> [t \in DOMAIN db'.tables |-> db'.tables[t]]]
  BY TablesGrow, DbTypes
<1>2. DOMAIN Current = Tables
  BY ShapeIs
<1>3. DOMAIN db'.tables = Tables
  BY <1>1, <1>2
<1>4. ASSUME NEW t \in Tables PROVE db'.tables[t] = Current[t]
  BY <1>1, <1>2, <1>3
<1>5. db'.tables = [t \in DOMAIN db'.tables |-> db'.tables[t]]
  BY <1>1
<1>6. Current = [t \in Tables |-> Current[t]]
  BY MigrationsAre, ShapeIs
<1> QED
  BY <1>3, <1>4, <1>5, <1>6

\* A migration brings the tables to its own version.
LEMMA MigrationReaches ==
  ASSUME TypeOK, TablesOK, NEW p \in Procs, NEW k \in 1 .. Latest, k = next[p], at[p] = "steps",
         db' = [ver |-> k, tables |-> Migrated(k)]
  PROVE  Reached(k)'
<1>0. k \in 0 .. Latest /\ k >= 1 /\ (k # 1 => k - 1 >= 1) /\ 1 \in 1 .. Latest
  BY MigrationsAre
<1>1. Reached(k - 1) /\ DOMAIN db.tables \subseteq Tables
  BY DEF TablesOK, TypeOK
<1>2. CASE k = 1
  <2>1. DOMAIN db'.tables = Tables
    BY <1>2 DEF Migrated
  <2>2. \A t \in Tables : Shape(1)[t] = {}
    <3>1. \A t \in Tables : \A j : j \in Shape(1)[t] <=> j \in 1 .. 1 /\ t \in Alters[j]
      BY <1>0, <1>2, ShapeIs
    <3> QED
      BY <3>1, MigrationsAre
  <2>3. Shape(1)' = Shape(1)
    BY DEF Shape, Tables, TableOrder, Alters
  <2> QED
    BY <1>2, <2>1, <2>2, <2>3 DEF Reached
<1>3. CASE k # 1
  <2>1. DOMAIN db.tables = Tables /\ \A t \in Tables : Shape(k - 1)[t] \subseteq db.tables[t]
    BY <1>0, <1>1, <1>3 DEF Reached
  <2>2. db'.tables = [t \in Tables |-> IF t \in Alters[k] THEN db.tables[t] \cup {k} ELSE db.tables[t]]
    BY <1>3, <2>1 DEF Migrated
  <2>3. ASSUME NEW t \in Tables PROVE Shape(k)[t] \subseteq db'.tables[t]
    <3>1. Shape(k)[t] = IF t \in Alters[k] THEN Shape(k - 1)[t] \cup {k} ELSE Shape(k - 1)[t]
      BY ShapeGrows
    <3>2. db'.tables[t] = IF t \in Alters[k] THEN db.tables[t] \cup {k} ELSE db.tables[t]
      BY <2>2
    <3> QED
      BY <2>1, <3>1, <3>2
  <2>4. DOMAIN db'.tables = Tables
    BY <2>2
  <2> QED
    BY <2>3, <2>4 DEF Reached, Shape
<1> QED
  BY <1>2, <1>3

\* A table that is there keeps the current shape, and a new one has it.
LEMMA AllCurrentStays ==
  ASSUME TypeOK, HistoryOK, TablesOK, NEW p \in Procs, Step(p), AllCurrent
  PROVE  AllCurrent'
<1>0. DOMAIN db.tables \subseteq Tables
  BY DEF TypeOK
<1>1. CASE UNCHANGED db
  BY <1>1 DEF AllCurrent, Current, Shape, Latest, Alters, Tables, TableOrder
<1>2. ASSUME NEW t \in Tables,
             db' = [ver |-> db.ver, tables |-> [u \in DOMAIN db.tables \cup {t} |->
                                                  IF u \in DOMAIN db.tables THEN db.tables[u] ELSE Current[u]]]
      PROVE  AllCurrent'
  BY <1>2 DEF AllCurrent
<1>3. CASE db' = [ver |-> Latest, tables |-> db.tables]
  BY <1>3 DEF AllCurrent
<1>4. CASE MigrateStep(p) /\ next[p] \in 1 .. Latest /\ db' = [ver |-> next[p], tables |-> Migrated(next[p])]
  <2>1. CASE next[p] = 1
    <3>1. db'.tables = [t \in Tables |-> IF t \in DOMAIN db.tables THEN db.tables[t] ELSE Current[t]]
      BY <1>4, <2>1 DEF Migrated
    <3> QED
      BY <3>1 DEF AllCurrent
  <2>2. CASE next[p] # 1
    <3>1. next[p] - 1 >= 1 /\ next[p] \in 2 .. Latest /\ Latest \in 0 .. Latest
      BY <1>4, <2>2, MigrationsAre
    <3>2. DOMAIN db.tables = Tables
      BY <1>4, <3>1 DEF MigrateStep, TablesOK, Reached
    <3>3. PICK t \in Tables : t \in Alters[next[p]]
      BY <1>4, <3>1, MigrationsAre
    <3>4. next[p] \in Current[t]
      BY <1>4, <3>1, <3>3, ShapeIs
    <3>5. Duplicate(next[p])
      BY <3>2, <3>3, <3>4 DEF AllCurrent, Duplicate
    <3> QED
      BY <1>4, <3>5 DEF MigrateStep
  <2> QED
    BY <2>1, <2>2
<1> QED
  BY <1>1, <1>2, <1>3, <1>4, DbMoves

\* Tables that have reached the latest version have the current shape.
LEMMA LatestIsCurrent ==
  ASSUME TypeOK, HistoryOK, Reached(Latest)
  PROVE  db.tables = Current
<1>1. DOMAIN db.tables = Tables /\ Current = Shape(Latest) /\ Current = [t \in Tables |-> Current[t]]
  BY MigrationsAre, ShapeIs DEF Reached
<1>2. ASSUME NEW t \in Tables PROVE db.tables[t] = Current[t]
  <2>1. Shape(Latest)[t] \subseteq db.tables[t]
    BY <1>1 DEF Reached
  <2>2. db.tables[t] \subseteq Current[t] /\ Current[t] = Shape(Latest)[t]
    BY <1>1 DEF TypeOK
  <2> QED
    BY <2>1, <2>2
<1>3. db.tables = [t \in DOMAIN db.tables |-> db.tables[t]]
  BY DEF HistoryOK
<1> QED
  BY <1>1, <1>2, <1>3

\* Which step leads where, on the way to Serve.
LEMMA StartMoves ==
  ASSUME TypeOK, PhaseOK, NEW p \in Procs, Step(p)
  PROVE  /\ at'[p] = "mkcert" => ReadCert(p) /\ cert = Nobody
         /\ at'[p] = "key" => ReadCert(p) /\ cert # Nobody
         /\ at'[p] = "mkkey" => WriteCert(p)
         /\ at'[p] = "open" => \/ ReadKey(p) /\ key # Nobody /\ ca' = [ca EXCEPT ![p][2] = key]
                               \/ at[p] = "mkkey" /\ key' = p /\ UNCHANGED <<ca, cert>>
         /\ at'[p] = "schema" => (OpenStore(p) /\ IsFresh) \/ CreateTable(p)
         /\ at'[p] = "stamp" => CreateTable(p) /\ DOMAIN db.tables = Tables /\ UNCHANGED db
         /\ at'[p] = "steps" => (OpenStore(p) /\ ~ IsFresh) \/ MigrateStep(p)
         /\ at'[p] = "sock" => StampFresh(p) \/ MigrateDone(p)
         /\ srv'[p] # "none" => ListenSocket(p) \/ srv[p] # "none"
         /\ srv'[p] = "up" => ListenSocket(p) \/ srv[p] = "up"
<1>0. /\ at \in [Procs -> Starting \cup Running \cup {"idle", "flock", "unlock", "remove", "gone"}]
      /\ srv \in [Procs -> {"none", "up", "failed", "ended"}]
  BY DEF TypeOK
<1>1. at[p] \in Starting => srv[p] = "none"
  BY DEF PhaseOK
<1>2. CASE Exit(p)
  BY <1>2, ExitIs
<1>3. CASE Fail(p)
  BY <1>0, <1>1, <1>2, <1>3 DEF Fail, go
<1>4. CASE ServeLaunch(p) \/ OpenLock(p) \/ Flock(p)
  BY <1>0, <1>4 DEF ServeLaunch, OpenLock, Flock, Enter, go
<1>5. CASE ReadCert(p) \/ WriteCert(p)
  BY <1>0, <1>5 DEF ReadCert, WriteCert, go
<1>6. CASE ReadKey(p) \/ WriteKey(p)
  BY <1>0, <1>3, <1>6 DEF ReadKey, WriteKey, go
<1>7. CASE OpenStore(p) \/ StampFresh(p) \/ MigrateStep(p) \/ MigrateDone(p)
  BY <1>0, <1>7 DEF OpenStore, StampFresh, MigrateStep, MigrateDone, go
<1>8. CASE CreateTable(p)
  BY <1>0, <1>8 DEF CreateTable, go
<1>9. CASE ListenSocket(p)
  BY <1>0, <1>9 DEF ListenSocket, go
<1>10. ASSUME NEW n \in DOMAIN ports, Bind(p, n)
       PROVE  UNCHANGED at /\ srv[p] # "none" /\ (srv'[p] = "up" => srv[p] = "up")
  BY <1>0, <1>10 DEF Bind
<1>11. CASE \E n \in DOMAIN ports : Bind(p, n)
  BY <1>1, <1>10, <1>11 DEF Starting
<1>12. CASE ServeEnds(p)
  BY <1>0, <1>12 DEF ServeEnds
<1>13. CASE CheckServe(p) \/ Probe(p) \/ NotReady(p) \/ Quit(p) \/ Cancel(p) \/ JoinLate(p)
  BY <1>0, <1>13 DEF CheckServe, Probe, NotReady, Quit, Cancel, JoinLate, go
<1>14. CASE Join(p)
  BY <1>0, <1>2, <1>14 DEF Join, go
<1>15. CASE ReleaseUnlock(p)
  BY <1>0, <1>15 DEF ReleaseUnlock, go
<1> QED
  BY <1>2, <1>3, <1>4, <1>5, <1>6, <1>7, <1>8, <1>9, <1>11, <1>12, <1>13, <1>14, <1>15
  DEF Step, FocusExisting, FocusUnanswered, CreateFails, MigrateFails, ReleaseRemove, Crash

\* At any time, whoever races, the tables have what the launches rely on.
LEMMA TablesStep ==
  ASSUME TypeOK, HistoryOK, PhaseOK, LockHeld, TablesOK, NEW p \in Procs, Step(p)
  PROVE  TablesOK'
<1>0. /\ at \in [Procs -> Starting \cup Running \cup {"idle", "flock", "unlock", "remove", "gone"}]
      /\ next \in [Procs -> 1 .. Latest + 1] /\ Latest = 6 /\ db.ver \in 0 .. Latest
  BY MigrationsAre DEF TypeOK
<1>1. Reached(db.ver)'
  <2>1. PICK n \in 0 .. Latest : n = db.ver
    BY <1>0
  <2>2. Reached(n)'
    BY <2>1, ReachedStays DEF TablesOK
  <2>3. CASE db'.ver = db.ver
    BY <2>1, <2>2, <2>3 DEF Reached
  <2>4. CASE at[p] = "stamp" /\ db' = [ver |-> Latest, tables |-> db.tables]
    <3>1. db.tables = Current /\ Current = Shape(Latest) /\ DOMAIN Current = Tables
      BY <2>4, ShapeIs DEF TablesOK
    <3> QED
      BY <2>4, <3>1 DEF Reached
  <2>5. CASE MigrateStep(p) /\ next[p] \in 1 .. Latest /\ db' = [ver |-> next[p], tables |-> Migrated(next[p])]
    <3>1. PICK k \in 1 .. Latest : k = next[p]
      BY <2>5
    <3>2. Reached(k)'
      BY <2>5, <3>1, MigrationReaches DEF MigrateStep
    <3>3. db'.ver = k
      BY <2>5, <3>1
    <3> QED
      BY <3>2, <3>3 DEF Reached
  <2>6. ASSUME NEW t, db' = [ver |-> db.ver, tables |-> t] PROVE Reached(db.ver)'
    BY <2>3, <2>6
  <2> QED
    BY <2>3, <2>4, <2>5, <2>6, DbMoves, Zenon
<1>2. ASSUME NEW q \in Procs, at'[q] = "schema" PROVE AllCurrent'
  <2>1. CASE at[q] = "schema"
    BY <2>1, AllCurrentStays DEF TablesOK
  <2>2. CASE at[q] # "schema"
    <3>1. q = p /\ OpenStore(p) /\ IsFresh
      BY <1>2, <2>2, OneMoves, StartMoves DEF OthersKeep, CreateTable
    <3> QED
      BY <3>1 DEF OpenStore, IsFresh, AllCurrent
  <2> QED
    BY <2>1, <2>2
<1>3. ASSUME NEW q \in Procs, at'[q] = "steps" PROVE Reached(next[q] - 1)'
  <2>1. CASE q # p
    <3>1. at[q] = "steps" /\ next'[q] = next[q]
      BY <1>3, <2>1, OneMoves DEF OthersKeep
    <3>2. PICK n \in 0 .. Latest : n = next[q] - 1
      BY <1>0
    <3>3. Reached(n)'
      BY <3>1, <3>2, ReachedStays DEF TablesOK
    <3> QED
      BY <3>1, <3>2, <3>3 DEF Reached
  <2>2. CASE q = p /\ OpenStore(p)
    <3>1. PICK n \in 0 .. Latest : n = db.ver
      BY <1>0
    <3>2. Reached(n)' /\ next'[q] - 1 = n
      BY <1>0, <2>2, <3>1, ReachedStays DEF TablesOK, OpenStore, FirstPending
    <3> QED
      BY <3>2 DEF Reached
  <2>3. CASE q = p /\ MigrateStep(p)
    <3>1. PICK k \in 1 .. Latest : k = next[p]
      BY <1>0, <2>3 DEF MigrateStep
    <3>2. Reached(k)' /\ next'[q] - 1 = k
      BY <1>0, <2>3, <3>1, MigrationReaches DEF MigrateStep, Stamped
    <3> QED
      BY <3>2 DEF Reached
  <2> QED
    BY <1>3, <2>1, <2>2, <2>3, StartMoves
<1>4. ASSUME NEW q \in Procs, at'[q] \in {"stamp", "sock"} \/ srv'[q] # "none" PROVE db'.tables = Current
  <2>1. CASE at[q] \in {"stamp", "sock"} \/ srv[q] # "none"
    BY <2>1, CurrentStays DEF TablesOK
  <2>2. CASE q = p /\ CreateTable(p) /\ DOMAIN db.tables = Tables /\ UNCHANGED db
    <3>1. AllCurrent /\ Current = [t \in Tables |-> Current[t]]
      BY <2>2, MigrationsAre, ShapeIs DEF CreateTable, TablesOK
    <3>2. db.tables = [t \in DOMAIN db.tables |-> db.tables[t]]
      BY DEF HistoryOK
    <3> QED
      BY <2>2, <3>1, <3>2 DEF AllCurrent
  <2>3. CASE q = p /\ MigrateDone(p)
    <3>1. next[p] - 1 = Latest /\ at[p] = "steps"
      BY <1>0, <2>3 DEF MigrateDone
    <3>2. db.tables = Current
      BY <3>1, LatestIsCurrent DEF TablesOK
    <3> QED
      BY <3>2, CurrentStays
  <2> QED
    BY <1>4, <2>1, <2>2, <2>3, OneMoves, StartMoves DEF OthersKeep, StampFresh, ListenSocket
<1> QED
  BY <1>1, <1>2, <1>3, <1>4 DEF TablesOK

\* While another launch is alone past the gate, a step of p leaves the data
\* directory as it is.
LEMMA BystanderMoves ==
  ASSUME TypeOK, HistoryOK, PhaseOK, Alone, NEW p \in Procs, Step(p), ~ hist'.shared,
         NEW q \in Procs \ {p}, Active(q)
  PROVE  /\ UNCHANGED <<db, cert, key, sock>>
         /\ hist'.torn = hist.torn
         /\ at[p] \notin Starting /\ at'[p] \notin Starting
<1>1. ~ hist.shared /\ ~ ServeLaunch(p) /\ ~ Flock(p)
  BY HistoryGrows
<1>2. ~ Active(p)
  BY <1>1 DEF Alone
<1>3. at[p] \notin Starting \cup Running \cup {"unlock"}
  BY <1>2 DEF Active
<1>4. srv[p] \in {"up", "failed"} => at[p] = "gone"
  BY <1>2 DEF Active
<1>5. srv[p] \notin {"up", "failed"}
  BY <1>4 DEF PhaseOK
<1>6. ~ Active(p)'
  BY <1>1, <1>2, ActiveStep
<1>7. at'[p] \notin Starting
  BY <1>6 DEF Active
<1>8. OpenLock(p) \/ FocusExisting(p) \/ FocusUnanswered(p) \/ ReleaseRemove(p) \/ Crash(p)
  BY <1>1, <1>3, <1>5
  DEF Step, ReadCert, ReadKey, WriteCert, WriteKey, OpenStore, CreateTable, StampFresh, CreateFails,
      MigrateStep, MigrateFails, MigrateDone, ListenSocket, Bind, ServeEnds, CheckServe, Probe, NotReady,
      Quit, Cancel, Join, JoinLate, ReleaseUnlock, Starting, Running
<1>9. UNCHANGED <<db, cert, key, sock>>
  BY <1>8 DEF OpenLock, FocusExisting, FocusUnanswered, ReleaseRemove, Crash
<1>10. hist'.torn = hist.torn
  <2>0. hist \in [serves : Nat, shared : BOOLEAN, overtaken : BOOLEAN, late : BOOLEAN,
                  torn : BOOLEAN, crashes : Nat]
    BY DEF HistoryOK
  <2>1. CASE Crash(p)
    <3>1. hist' = [hist EXCEPT !.crashes = @ + 1,
                          !.torn = @ \/ at[p] \in {"mkkey", "stamp"}
                                     \/ (at[p] = "schema" /\ DOMAIN db.tables # {})]
      BY <2>1 DEF Crash
    <3>2. at[p] \notin {"mkkey", "stamp", "schema"}
      BY <1>3 DEF Starting
    <3> QED
      BY <2>0, <3>1, <3>2
  <2>2. CASE ReleaseRemove(p)
    BY <2>0, <2>2 DEF ReleaseRemove
  <2> QED
    BY <1>8, <2>1, <2>2 DEF OpenLock, FocusExisting, FocusUnanswered
<1> QED
  BY <1>3, <1>7, <1>9, <1>10

\* A migration leads from the tables of one version to those of the next.
LEMMA ShapeMigrates ==
  ASSUME NEW k \in 1 .. Latest, db.tables = Shape(k - 1)
  PROVE  Migrated(k) = Shape(k)
<1>1. k - 1 \in 0 .. Latest /\ k \in 0 .. Latest
  BY MigrationsAre
<1>2. DOMAIN db.tables = Tables
  BY <1>1, ShapeIs
<1>3. Shape(k) = [t \in Tables |-> Shape(k)[t]]
  BY <1>1, ShapeIs
<1>4. ASSUME NEW t \in Tables
      PROVE  Shape(k)[t] = IF t \in Alters[k] THEN db.tables[t] \cup {k} ELSE db.tables[t]
  BY ShapeGrows
<1>5. CASE k = 1
  <2>1. \A t \in Tables : Shape(k)[t] = db.tables[t]
    BY <1>4, <1>5, MigrationsAre
  <2>2. Migrated(k) = [t \in Tables |-> db.tables[t]]
    BY <1>2, <1>5 DEF Migrated
  <2> QED
    BY <1>3, <2>1, <2>2
<1>6. CASE k # 1
  <2>1. Migrated(k) = [t \in Tables |-> IF t \in Alters[k] THEN db.tables[t] \cup {k} ELSE db.tables[t]]
    BY <1>2, <1>6 DEF Migrated
  <2> QED
    BY <1>3, <1>4, <2>1
<1> QED
  BY <1>5, <1>6

\* While one launch at a time is past the gate, the tables are the version's.
LEMMA DbStep ==
  ASSUME TypeOK, HistoryOK, PhaseOK, LockHeld, Alone, TablesOK, DbOK, NEW p \in Procs, Step(p)
  PROVE  DbOK'
<1> SUFFICES ASSUME ~ hist'.shared
    PROVE  /\ \A q \in Procs : /\ at'[q] = "schema" => db'.ver = 0
                               /\ at'[q] = "steps" /\ ~ hist'.torn =>
                                     next'[q] = db'.ver + 1 /\ db'.tables = Shape(db'.ver)
           /\ \/ hist'.torn \/ db'.tables = Shape(db'.ver)
              \/ db'.ver = 0 /\ DOMAIN db'.tables = {}
              \/ \E q \in Procs : at'[q] \in {"schema", "stamp"}
  BY DEF DbOK
<1>0. /\ at \in [Procs -> Starting \cup Running \cup {"idle", "flock", "unlock", "remove", "gone"}]
      /\ next \in [Procs -> 1 .. Latest + 1] /\ Latest = 6 /\ db.ver \in 0 .. Latest
  BY MigrationsAre DEF TypeOK
<1>1. ~ hist.shared /\ (hist.torn => hist'.torn)
  BY HistoryGrows
<1>2. /\ \A q \in Procs : /\ at[q] = "schema" => db.ver = 0
                          /\ at[q] = "steps" /\ ~ hist.torn => next[q] = db.ver + 1 /\ db.tables = Shape(db.ver)
      /\ \/ hist.torn \/ db.tables = Shape(db.ver)
         \/ db.ver = 0 /\ DOMAIN db.tables = {}
         \/ \E q \in Procs : at[q] \in {"schema", "stamp"}
  BY <1>1 DEF DbOK
<1>3. \A q \in Procs : at[q] \in Starting => Active(q)
  BY DEF Active
<1>4. ASSUME NEW q \in Procs, at'[q] = "schema" PROVE db'.ver = 0
  <2>1. CASE q # p
    <3>1. at[q] = "schema" /\ Active(q)
      BY <1>3, <1>4, <2>1, OneMoves DEF OthersKeep, Starting
    <3> QED
      BY <1>2, <2>1, <3>1, BystanderMoves
  <2>2. CASE OpenStore(p) /\ IsFresh
    BY <2>2 DEF OpenStore, IsFresh
  <2>3. CASE CreateTable(p)
    <3>1. at[p] = "schema" /\ db.ver = 0
      BY <1>2, <2>3 DEF CreateTable
    <3>2. db'.ver = db.ver
      BY <2>3 DEF CreateTable, HistoryOK
    <3> QED
      BY <3>1, <3>2
  <2> QED
    BY <1>4, <2>1, <2>2, <2>3, StartMoves
<1>5. ASSUME NEW q \in Procs, at'[q] = "steps", ~ hist'.torn
      PROVE  next'[q] = db'.ver + 1 /\ db'.tables = Shape(db'.ver)
  <2>1. CASE q # p
    <3>1. at[q] = "steps" /\ next'[q] = next[q] /\ Active(q)
      BY <1>3, <1>5, <2>1, OneMoves DEF OthersKeep, Starting
    <3>2. UNCHANGED db /\ ~ hist.torn
      BY <1>1, <1>5, <2>1, <3>1, BystanderMoves
    <3> QED
      BY <1>2, <3>1, <3>2
  <2>2. CASE q = p /\ OpenStore(p) /\ ~ IsFresh
    <3>1. at[p] = "open" /\ Active(p) /\ ~ hist.torn
      BY <1>1, <1>3, <1>5, <2>2 DEF OpenStore, Starting
    <3>2. ASSUME NEW r \in Procs, at[r] \in {"schema", "stamp"} PROVE FALSE
      BY <1>1, <1>3, <3>1, <3>2 DEF Alone, Starting
    <3>3. db.tables = Shape(db.ver)
      BY <1>2, <2>2, <3>1, <3>2 DEF IsFresh
    <3> QED
      BY <1>0, <2>2, <3>3 DEF OpenStore, FirstPending
  <2>3. CASE q = p /\ MigrateStep(p)
    <3>1. next[p] \in 1 .. Latest /\ next[p] = db.ver + 1 /\ db.tables = Shape(next[p] - 1)
      BY <1>0, <1>1, <1>2, <1>5, <2>3 DEF MigrateStep
    <3>2. db'.ver = next[p] /\ db'.tables = Shape(next[p]) /\ next'[p] = next[p] + 1
      BY <1>0, <2>3, <3>1, ShapeMigrates DEF MigrateStep, Stamped
    <3> QED
      BY <2>3, <3>2
  <2> QED
    BY <1>5, <2>1, <2>2, <2>3, StartMoves
<1>6. ASSUME ~ hist'.torn
      PROVE  \/ db'.tables = Shape(db'.ver)
             \/ db'.ver = 0 /\ DOMAIN db'.tables = {}
             \/ \E q \in Procs : at'[q] \in {"schema", "stamp"}
  <2>1. CASE at[p] = "schema" /\ at' = at
    BY <2>1
  <2>2. CASE at[p] = "stamp" /\ db' = [ver |-> Latest, tables |-> db.tables]
    BY <2>2, ShapeIs DEF TablesOK
  <2>3. CASE MigrateStep(p)
    <3>1. at'[p] = "steps"
      BY <2>3 DEF MigrateStep
    <3> QED
      BY <1>5, <1>6, <3>1
  <2>4. CASE UNCHANGED db
    <3>1. ASSUME NEW r \in Procs \ {p}, at[r] \in {"schema", "stamp"}
          PROVE  \E q \in Procs : at'[q] \in {"schema", "stamp"}
      BY <3>1, OneMoves DEF OthersKeep
    <3>2. ASSUME at[p] \in {"schema", "stamp"}
          PROVE  \/ db'.ver = 0 /\ DOMAIN db'.tables = {}
                 \/ \E q \in Procs : at'[q] \in {"schema", "stamp"}
                 \/ db'.tables = Shape(db'.ver)
      <4>1. srv[p] = "none"
        BY <3>2 DEF PhaseOK, Starting
      <4>2. CreateTable(p) \/ StampFresh(p) \/ CreateFails(p) \/ Crash(p)
        BY <3>2, <4>1 DEF Step, ServeLaunch, OpenLock, Launchable, Flock, FocusExisting, FocusUnanswered,
           ReadCert, ReadKey, WriteCert, WriteKey, OpenStore, MigrateStep, MigrateFails, MigrateDone,
           ListenSocket, Bind, ServeEnds, CheckServe, Probe, NotReady, Quit, Cancel, Join, JoinLate,
           ReleaseUnlock, ReleaseRemove
      <4>3. CASE CreateTable(p)
        BY <1>0, <4>3 DEF CreateTable, go
      <4>4. CASE StampFresh(p)
        <5>1. at[p] = "stamp" /\ db' = [ver |-> Latest, tables |-> db.tables]
          BY <4>4 DEF StampFresh, HistoryOK
        <5> QED
          BY <2>2, <5>1
      <4>5. CASE CreateFails(p)
        BY <1>6, <4>5 DEF CreateFails, HistoryOK
      <4>6. CASE Crash(p)
        <5>1. at[p] = "schema" /\ DOMAIN db.tables = {}
          BY <1>6, <3>2, <4>6 DEF Crash, HistoryOK
        <5> QED
          BY <1>2, <2>4, <5>1
      <4> QED
        BY <4>2, <4>3, <4>4, <4>5, <4>6
    <3> QED
      BY <1>1, <1>2, <1>6, <2>4, <3>1, <3>2
  <2> QED
    BY <2>1, <2>2, <2>3, <2>4, DbMoves
<1> QED
  BY <1>4, <1>5, <1>6

-----------------------------------------------------------------------------
(* The CA and the listeners.                                                *)

\* Which steps touch the CA's files, and which what p knows of them.
LEMMA CaMoves ==
  ASSUME TypeOK, PhaseOK, NEW p \in Procs, Step(p)
  PROVE  /\ \/ UNCHANGED <<cert, key>>
            \/ WriteCert(p)
            \/ at[p] = "mkkey" /\ at'[p] = "open" /\ key' = p /\ UNCHANGED <<cert, ca>>
         /\ UNCHANGED ca \/ Exit(p) \/ ReadCert(p) \/ ReadKey(p) \/ WriteCert(p)
<1>1. CASE WriteKey(p)
  BY <1>1 DEF WriteKey, Fail, TypeOK, go
<1>2. UNCHANGED <<cert, key>> \/ WriteCert(p) \/ WriteKey(p)
  BY DEF Step, ServeLaunch, OpenLock, Flock, FocusExisting, FocusUnanswered, ReadCert, ReadKey, OpenStore,
         CreateTable, StampFresh, CreateFails, MigrateStep, MigrateFails, MigrateDone, ListenSocket, Bind,
         ServeEnds, CheckServe, Probe, NotReady, Quit, Cancel, Join, JoinLate, ReleaseUnlock,
         ReleaseRemove, Crash
<1>3. UNCHANGED ca \/ Exit(p) \/ ReadCert(p) \/ ReadKey(p) \/ WriteCert(p)
  BY DEF Step, ServeLaunch, OpenLock, Flock, FocusExisting, FocusUnanswered, WriteKey, OpenStore,
         CreateTable, StampFresh, CreateFails, MigrateStep, MigrateFails, MigrateDone, ListenSocket, Bind,
         ServeEnds, CheckServe, Probe, NotReady, Quit, Cancel, Join, JoinLate, ReleaseUnlock,
         ReleaseRemove, Crash, Fail
<1> QED
  BY <1>1, <1>2, <1>3

\* While one launch at a time is past the gate, it works with the CA on disk.
LEMMA CaStep ==
  ASSUME TypeOK, HistoryOK, PhaseOK, Alone, CaOK, NEW p \in Procs, Step(p)
  PROVE  CaOK'
<1> DEFINE Known(q) == at[q] \in {"open", "schema", "stamp", "steps", "sock"} \/ srv[q] = "up"
           Own(q) == /\ at[q] = "mkcert" => cert = Nobody
                     /\ at[q] = "mkkey" => cert = q /\ key = Nobody /\ ca[q] = <<q, q>>
                     /\ at[q] = "key" => ca[q][1] = cert /\ cert # Nobody
                     /\ Known(q) => ca[q] = <<cert, cert>> /\ key = cert
<1> SUFFICES ASSUME ~ hist'.shared
    PROVE  /\ key' \in {Nobody, cert'}
           /\ \A q \in Procs : Own(q)'
           /\ cert' # Nobody /\ key' = Nobody => hist'.torn \/ \E q \in Procs : at'[q] = "mkkey"
  BY DEF CaOK
<1>0. /\ at \in [Procs -> Starting \cup Running \cup {"idle", "flock", "unlock", "remove", "gone"}]
      /\ ca \in [Procs -> Someone \X Someone] /\ cert \in Someone /\ key \in Someone
  BY DEF TypeOK
<1>1. ~ hist.shared /\ (hist.torn => hist'.torn)
  BY HistoryGrows
<1>2. /\ key \in {Nobody, cert}
      /\ \A q \in Procs : Own(q)
      /\ cert # Nobody /\ key = Nobody => hist.torn \/ \E q \in Procs : at[q] = "mkkey"
  BY <1>1 DEF CaOK
<1>3. key' \in {Nobody, cert'}
  <2>1. CASE WriteCert(p)
    BY <1>2, <2>1 DEF WriteCert
  <2>2. CASE at[p] = "mkkey" /\ key' = p /\ UNCHANGED <<cert, ca>>
    BY <1>2, <2>2
  <2> QED
    BY <1>2, <2>1, <2>2, CaMoves
<1>4. ASSUME NEW q \in Procs \ {p} PROVE Own(q)'
  <2>1. at'[q] = at[q] /\ srv'[q] = srv[q] /\ ca'[q] = ca[q]
    BY OneMoves DEF OthersKeep
  <2>2. CASE Active(q)
    <3>1. UNCHANGED <<cert, key>>
      BY <2>2, BystanderMoves
    <3> QED
      BY <1>2, <2>1, <3>1
  <2>3. CASE ~ Active(q)
    <3>1. at[q] \notin Starting /\ srv[q] # "up"
      BY <2>3 DEF Active, PhaseOK
    <3> QED
      BY <2>1, <3>1 DEF Starting
  <2> QED
    BY <2>2, <2>3
<1>5. Own(p)'
  <2>0. ca[p] = <<ca[p][1], ca[p][2]>>
    BY <1>0
  <2>1. at'[p] = "mkcert" => cert' = Nobody
    BY StartMoves DEF ReadCert
  <2>2. at'[p] = "mkkey" => cert' = p /\ key' = Nobody /\ ca'[p] = <<p, p>>
    BY <1>0, <1>2, StartMoves DEF WriteCert
  <2>3. ASSUME at'[p] = "key" PROVE ca'[p][1] = cert' /\ cert' # Nobody
    <3>1. ReadCert(p) /\ cert # Nobody
      BY <2>3, StartMoves
    <3>2. ca'[p] = <<cert, ca[p][2]>> /\ cert' = cert
      BY <1>0, <2>0, <3>1 DEF ReadCert
    <3> QED
      BY <3>1, <3>2
  <2>4. ASSUME at'[p] = "open" PROVE ca'[p] = <<cert', cert'>> /\ key' = cert'
    <3>1. CASE ReadKey(p) /\ key # Nobody /\ ca' = [ca EXCEPT ![p][2] = key]
      <4>1. ca[p][1] = cert /\ key = cert
        BY <1>2, <3>1 DEF ReadKey
      <4>2. ca'[p] = <<ca[p][1], key>>
        BY <1>0, <2>0, <3>1
      <4>3. UNCHANGED <<cert, key>>
        BY <3>1 DEF ReadKey
      <4> QED
        BY <4>1, <4>2, <4>3
    <3>2. CASE at[p] = "mkkey" /\ key' = p /\ UNCHANGED <<ca, cert>>
      BY <1>2, <3>2
    <3> QED
      BY <2>4, <3>1, <3>2, StartMoves
  <2>5. ASSUME Known(p)', at'[p] # "open" PROVE ca'[p] = <<cert', cert'>> /\ key' = cert'
    <3>1. ~ Exit(p)
      <4>1. CASE Exit(p)
        BY <2>5, <4>1, ExitIs
      <4> QED
        BY <4>1
    <3>2. Known(p)
      BY <2>5, StartMoves DEF OpenStore, CreateTable, StampFresh, MigrateStep, MigrateDone, ListenSocket
    <3>3. at[p] \notin {"ca", "key", "mkcert", "mkkey"}
      BY <3>2 DEF PhaseOK, Starting
    <3>4. UNCHANGED <<ca, cert, key>>
      BY <3>1, <3>3, CaMoves DEF ReadCert, ReadKey, WriteCert
    <3> QED
      BY <1>2, <3>2, <3>4
  <2> QED
    BY <2>1, <2>2, <2>3, <2>4, <2>5
<1>6. ASSUME cert' # Nobody, key' = Nobody
      PROVE  hist'.torn \/ \E q \in Procs : at'[q] = "mkkey"
  <2>1. CASE WriteCert(p)
    BY <1>0, <2>1 DEF WriteCert, go
  <2>2. CASE UNCHANGED <<cert, key>>
    <3>1. ASSUME NEW q \in Procs \ {p}, at[q] = "mkkey" PROVE \E r \in Procs : at'[r] = "mkkey"
      BY <3>1, OneMoves DEF OthersKeep
    <3>2. ASSUME at[p] = "mkkey" PROVE hist'.torn
      <4>1. srv[p] = "none"
        BY <3>2 DEF PhaseOK, Starting
      <4>2. WriteKey(p) \/ Crash(p)
        BY <3>2, <4>1 DEF Step, ServeLaunch, OpenLock, Launchable, Flock, FocusExisting, FocusUnanswered,
           ReadCert, ReadKey, WriteCert, OpenStore, CreateTable, StampFresh, CreateFails, MigrateStep,
           MigrateFails, MigrateDone, ListenSocket, Bind, ServeEnds, CheckServe, Probe, NotReady, Quit,
           Cancel, Join, JoinLate, ReleaseUnlock, ReleaseRemove
      <4>3. CASE WriteKey(p)
        BY <1>6, <4>3, NobodyIsNone DEF WriteKey, HistoryOK
      <4>4. CASE Crash(p)
        BY <3>2, <4>4 DEF Crash, HistoryOK
      <4> QED
        BY <4>2, <4>3, <4>4
    <3> QED
      BY <1>1, <1>2, <1>6, <2>2, <3>1, <3>2
  <2> QED
    BY <1>6, <2>1, <2>2, CaMoves, NobodyIsNone
<1> QED
  BY <1>3, <1>4, <1>5, <1>6

\* Which steps touch the Serve call, the socket and the ports.
LEMMA ListenMoves ==
  ASSUME NEW p \in Procs, Step(p)
  PROVE  /\ at[p] # "gone"
         /\ UNCHANGED <<srv, sock, ports>> \/ (Exit(p) /\ UNCHANGED sock) \/ ListenSocket(p)
            \/ (\E n \in DOMAIN ports : Bind(p, n)) \/ ServeEnds(p)
<1>1. at[p] # "gone"
  BY DEF Step, ServeLaunch, OpenLock, Launchable, Flock, FocusExisting, FocusUnanswered, ReadCert, ReadKey,
         WriteCert, WriteKey, OpenStore, CreateTable, StampFresh, CreateFails, MigrateStep, MigrateFails,
         MigrateDone, ListenSocket, Bind, ServeEnds, CheckServe, Probe, NotReady, Quit, Cancel, Join,
         JoinLate, ReleaseUnlock, ReleaseRemove, Crash
<1>2. UNCHANGED <<srv, sock, ports>> \/ (Exit(p) /\ UNCHANGED sock) \/ ListenSocket(p)
      \/ (\E n \in DOMAIN ports : Bind(p, n)) \/ ServeEnds(p)
  BY DEF Step, ServeLaunch, OpenLock, Flock, FocusExisting, FocusUnanswered, ReadCert, ReadKey,
         WriteCert, WriteKey, OpenStore, CreateTable, StampFresh, CreateFails, MigrateStep, MigrateFails,
         MigrateDone, CheckServe, Probe, NotReady, Quit, Cancel, Join,
         JoinLate, ReleaseUnlock, ReleaseRemove, Crash, Fail
<1> QED
  BY <1>1, <1>2

\* While one launch at a time is past the gate, the socket is its own.
LEMMA SocketStep ==
  ASSUME TypeOK, HistoryOK, PhaseOK, Alone, SocketLeadsToServer, NEW p \in Procs, Step(p)
  PROVE  SocketLeadsToServer'
<1> SUFFICES ASSUME ~ hist'.shared, NEW q \in Procs, srv'[q] = "up", at'[q] # "gone"
             PROVE  sock' = q
  BY DEF SocketLeadsToServer
<1>1. ~ hist.shared
  BY HistoryGrows
<1>2. CASE q # p
  <2>1. srv[q] = "up" /\ at[q] # "gone"
    BY <1>2, OneMoves DEF OthersKeep
  <2>2. UNCHANGED sock
    BY <1>2, <2>1, BystanderMoves DEF Active
  <2> QED
    BY <1>1, <2>1, <2>2 DEF SocketLeadsToServer
<1>3. CASE q = p /\ ListenSocket(p)
  BY <1>3 DEF ListenSocket
<1>4. CASE q = p /\ ~ ListenSocket(p)
  <2>1. srv[p] = "up" /\ at[p] # "gone"
    BY <1>4, StartMoves, ListenMoves
  <2>2. ~ ServeEnds(p)
    BY <1>4 DEF ServeEnds, TypeOK
  <2>3. UNCHANGED sock
    BY <1>4, <2>2, ListenMoves DEF Bind
  <2> QED
    BY <1>1, <1>4, <2>1, <2>3 DEF SocketLeadsToServer
<1> QED
  BY <1>2, <1>3, <1>4

\* A Serve call that ends takes its listeners with it, one that has not begun
\* has none.
LEMMA ListenerStep ==
  ASSUME TypeOK, HistoryOK, PhaseOK, ListenerOK, NEW p \in Procs, Step(p)
  PROVE  ListenerOK'
<1>0. /\ srv \in [Procs -> {"none", "up", "failed", "ended"}]
      /\ Nobody \notin Procs
  BY NobodyIsNone DEF TypeOK
<1>1. DOMAIN ports' = DOMAIN ports
  BY ListenMoves DEF Exit, Freed, ListenSocket, Bind, ServeEnds
<1> SUFFICES ASSUME NEW q \in Procs, at'[q] # "gone", srv'[q] \in {"none", "ended"}
             PROVE  sock' # q /\ \A n \in DOMAIN ports : ports'[n] # q
  BY <1>1 DEF ListenerOK
<1>2. CASE q # p
  <2>1. /\ at[q] # "gone" /\ srv[q] \in {"none", "ended"}
        /\ \A n \in DOMAIN ports : ports'[n] = q <=> ports[n] = q
    BY <1>2, OneMoves DEF OthersKeep
  <2>2. sock' \in {sock, p, Nobody}
    BY ListenMoves DEF ListenSocket, Bind, ServeEnds
  <2> QED
    BY <1>0, <1>2, <2>1, <2>2 DEF ListenerOK
<1>3. CASE q = p
  <2>1. ~ Exit(p)
    BY <1>3, ExitIs
  <2>2. ~ ListenSocket(p)
    BY <1>0, <1>3 DEF ListenSocket
  <2>3. CASE ServeEnds(p)
    BY <1>0, <1>3, <2>3 DEF ServeEnds, Freed
  <2>4. CASE UNCHANGED <<srv, sock, ports>>
    BY <1>3, <2>4, ListenMoves DEF ListenerOK
  <2>5. ASSUME NEW n \in DOMAIN ports, Bind(p, n) PROVE FALSE
    BY <1>0, <1>3, <2>5 DEF Bind
  <2> QED
    BY <2>1, <2>2, <2>3, <2>4, <2>5, ListenMoves
<1> QED
  BY <1>2, <1>3

\* The store is closed by a start that failed, or once Serve has returned.
LEMMA StoreStep ==
  ASSUME TypeOK, PhaseOK, StoreOK, NEW p \in Procs, Step(p)
  PROVE  StoreOK'
<1>0. /\ at \in [Procs -> Starting \cup Running \cup {"idle", "flock", "unlock", "remove", "gone"}]
      /\ srv \in [Procs -> {"none", "up", "failed", "ended"}]
      /\ store \in [Procs -> {"none", "open", "closed"}]
      /\ at[p] \in Starting => srv[p] = "none"
      /\ store[p] = "closed" => at[p] \in {"unlock", "remove"} /\ srv[p] # "up"
  BY DEF TypeOK, PhaseOK, StoreOK
<1> SUFFICES ASSUME NEW q \in Procs, store'[q] = "closed"
             PROVE  at'[q] \in {"unlock", "remove"} /\ srv'[q] # "up"
  BY DEF StoreOK
<1>1. CASE q # p
  BY <1>1, OneMoves DEF OthersKeep, StoreOK
<1> SUFFICES ASSUME q = p PROVE at'[p] \in {"unlock", "remove"} /\ srv'[p] # "up"
  BY <1>1
<1>2. ~ Exit(p)
  BY ExitIs
<1>3. CASE ServeLaunch(p) \/ OpenLock(p) \/ Flock(p) \/ ReadCert(p) \/ WriteCert(p) \/ StampFresh(p)
           \/ CreateTable(p) \/ MigrateStep(p) \/ MigrateDone(p) \/ ListenSocket(p)
  BY <1>0, <1>3 DEF ServeLaunch, OpenLock, Launchable, Flock, ReadCert, WriteCert, StampFresh, CreateTable,
                    MigrateStep, MigrateDone, ListenSocket
<1>4. CASE OpenStore(p)
  BY <1>0, <1>4 DEF OpenStore
<1>5. CASE ReadKey(p) \/ WriteKey(p) \/ CreateFails(p) \/ MigrateFails(p)
  <2>1. at[p] \in Starting /\ srv[p] = "none" /\ store[p] # "closed"
    BY <1>0, <1>5 DEF ReadKey, WriteKey, CreateFails, MigrateFails, Starting
  <2> QED
    BY <1>0, <1>2, <1>5, <2>1 DEF ReadKey, WriteKey, CreateFails, MigrateFails, Fail, go
<1>6. ASSUME NEW n \in DOMAIN ports, Bind(p, n)
      PROVE  at'[p] \in {"unlock", "remove"} /\ srv'[p] # "up"
  BY <1>0, <1>6 DEF Bind
<1>7. CASE ServeEnds(p)
  BY <1>0, <1>7 DEF ServeEnds
<1>8. CASE CheckServe(p) \/ Probe(p) \/ NotReady(p) \/ Quit(p) \/ Cancel(p) \/ JoinLate(p)
  BY <1>0, <1>8 DEF CheckServe, Probe, NotReady, Quit, Cancel, JoinLate
<1>9. CASE Join(p)
  BY <1>0, <1>2, <1>9 DEF Join, ServeDone, go
<1>10. CASE ReleaseUnlock(p)
  BY <1>0, <1>10 DEF ReleaseUnlock, go
<1> QED
  BY <1>2, <1>3, <1>4, <1>5, <1>6, <1>7, <1>8, <1>9, <1>10
  DEF Step, FocusExisting, FocusUnanswered, ReleaseRemove, Crash

-----------------------------------------------------------------------------
(* The theorems.                                                            *)

\* Every data directory outwall starts on satisfies the invariant.
LEMMA LifeInitially == Init => LifeInv
<1> SUFFICES ASSUME Init PROVE LifeInv
  OBVIOUS
<1>0. /\ desktop = {} /\ at = [p \in Procs |-> "idle"] /\ srv = [p \in Procs |-> "none"]
      /\ path = Nobody /\ fd = [p \in Procs |-> Nobody] /\ holder = [p \in Procs |-> Nobody]
      /\ ca = [p \in Procs |-> <<Nobody, Nobody>>] /\ cert = Nobody /\ key = Nobody
      /\ next = [p \in Procs |-> 1] /\ sock = Nobody
      /\ ports = [n \in {"ui", "desktopData", "serveData"} |-> Nobody]
      /\ store = [p \in Procs |-> "none"] /\ hist = NoHistory
  BY DEF Init
<1>1. Nobody \in Someone /\ Nobody \notin Procs /\ 1 \in 1 .. Latest + 1 /\ Latest \in 0 .. Latest /\ 0 \in 0 .. Latest
  BY NobodyIsNone, MigrationsAre DEF Someone
<1>2. /\ db.ver \in 0 .. Latest
      /\ DOMAIN db.tables \subseteq Tables /\ \A t \in DOMAIN db.tables : db.tables[t] \subseteq Current[t]
      /\ db = [ver |-> db.ver, tables |-> [t \in DOMAIN db.tables |-> db.tables[t]]]
      /\ Reached(db.ver)
      /\ db.tables = Shape(db.ver) \/ (db.ver = 0 /\ DOMAIN db.tables = {})
  <2>1. CASE db = [ver |-> 0, tables |-> [t \in {} |-> {}]]
    <3>1. db.ver = 0 /\ DOMAIN db.tables = {}
      BY <2>1
    <3>2. db.tables = [t \in DOMAIN db.tables |-> db.tables[t]]
      BY <2>1
    <3>3. db = [ver |-> db.ver, tables |-> db.tables]
      BY <2>1
    <3>4. Reached(db.ver)
      BY <3>1 DEF Reached
    <3> QED
      BY <1>1, <3>1, <3>2, <3>3, <3>4
  <2>2. ASSUME NEW v \in Databases, v # Fresh, db = [ver |-> v, tables |-> Shape(v)]
        PROVE  /\ db.ver \in 0 .. Latest
               /\ DOMAIN db.tables \subseteq Tables /\ \A t \in DOMAIN db.tables : db.tables[t] \subseteq Current[t]
               /\ db = [ver |-> db.ver, tables |-> [t \in DOMAIN db.tables |-> db.tables[t]]]
               /\ Reached(db.ver)
               /\ db.tables = Shape(db.ver)
    <3>1. v \in 0 .. Latest
      BY <2>2, LifecycleAssumption, MigrationsAre
    <3>2. DOMAIN Shape(v) = Tables /\ Shape(v) = [t \in Tables |-> Shape(v)[t]]
      BY <3>1, ShapeIs
    <3>3. ASSUME NEW t \in Tables PROVE Shape(v)[t] \subseteq Current[t]
      <4>1. \A k : k \in Shape(v)[t] <=> k \in 1 .. v /\ t \in Alters[k]
        BY <3>1, ShapeIs
      <4>2. \A k : k \in Current[t] <=> k \in 1 .. Latest /\ t \in Alters[k]
        BY <1>1, ShapeIs
      <4>3. \A k \in 1 .. v : k \in 1 .. Latest
        BY <3>1, MigrationsAre
      <4> QED
        BY <4>1, <4>2, <4>3
    <3>4. db.ver = v /\ db.tables = Shape(v)
      BY <2>2
    <3> QED
      BY <2>2, <3>1, <3>2, <3>3, <3>4 DEF Reached
  <2>3. PICK v \in Databases : db = IF v = Fresh THEN [ver |-> 0, tables |-> [t \in {} |-> {}]]
                                                ELSE [ver |-> v, tables |-> Shape(v)]
    BY Zenon DEF Init
  <2>4. CASE v = Fresh
    BY <2>1, <2>3, <2>4, Zenon
  <2>5. CASE v # Fresh
    BY <2>2, <2>3, <2>5, Zenon
  <2> QED
    BY <2>4, <2>5
<1>3. TypeOK
  BY <1>0, <1>1, <1>2 DEF TypeOK
<1>4. HistoryOK
  BY <1>0, <1>2 DEF HistoryOK, NoHistory
<1>5. \A p \in Procs : at[p] = "idle" /\ srv[p] = "none" /\ ~ Active(p)
  BY <1>0 DEF Active, Starting, Running
<1>6. PhaseOK /\ OnlyDesktops /\ LockFile /\ LockHeld /\ LateOK
  BY <1>0, <1>5 DEF PhaseOK, OnlyDesktops, LockFile, LockHeld, LateOK
<1>7. Alone /\ DesktopAlone /\ SocketLeadsToServer
  BY <1>0, <1>5 DEF Alone, DesktopAlone, SocketLeadsToServer, NoHistory
<1>8. TablesOK /\ DbOK
  BY <1>2, <1>5 DEF TablesOK, DbOK
<1>9. CaOK /\ ListenerOK /\ StoreOK
  BY <1>0, <1>1, <1>5 DEF CaOK, ListenerOK, StoreOK
<1> QED
  BY <1>3, <1>4, <1>6, <1>7, <1>8, <1>9 DEF LifeInv

\* Every step keeps the invariant, and so does a stuttering one.
LEMMA LifeNext == LifeInv /\ [Next]_vars => LifeInv'
<1> SUFFICES ASSUME LifeInv, [Next]_vars PROVE LifeInv'
  OBVIOUS
<1> USE DEF LifeInv
<1>1. ASSUME NEW p \in Procs, Step(p) PROVE LifeInv'
  BY <1>1, TypesStep, PhaseStep, OnlyDesktopsStep, LockFileStep, LockHeldStep, LateStep, AloneStep,
     DesktopAloneStep, TablesStep, DbStep, CaStep, SocketStep, ListenerStep, StoreStep
<1>2. CASE UNCHANGED vars
  <2>1. /\ TypeOK' /\ HistoryOK' /\ PhaseOK' /\ OnlyDesktops'
    BY <1>2 DEF vars, TypeOK, HistoryOK, PhaseOK, OnlyDesktops
  <2>2. LockFile' /\ LockHeld' /\ LateOK' /\ DesktopAlone' /\ Alone'
    BY <1>2 DEF vars, LockFile, LockHeld, LateOK, DesktopAlone, Alone, Active
  <2>3. TablesOK' /\ DbOK'
    BY <1>2 DEF vars, TablesOK, DbOK, Reached, AllCurrent
  <2>4. CaOK' /\ SocketLeadsToServer' /\ ListenerOK' /\ StoreOK'
    BY <1>2 DEF vars, CaOK, SocketLeadsToServer, ListenerOK, StoreOK
  <2> QED
    BY <2>1, <2>2, <2>3, <2>4
<1> QED
  BY <1>1, <1>2 DEF Next

\* LifeInv is an invariant: of any launches, in any order and interleaving,
\* killed anywhere, on any database outwall wrote.
THEOREM LifeInvariant == Spec => []LifeInv
<1> QED
  BY LifeInitially, LifeNext, PTL DEF Spec

\* ServeInv: a daemon that serves works on tables of the current shape, whichever
\* launches raced through migrate; its CA is the one on disk, unless two launches
\* made it at once; and Stop never closes the store under a listener of a Serve
\* that has not failed.
THEOREM ServesOnSoundDirectory == Spec => []ServeInv
<1>1. LifeInv => ServeInv
  <2> SUFFICES ASSUME LifeInv PROVE ServeInv
    OBVIOUS
  <2>1. TypeOK /\ ServedSchemaIsCurrent
    BY DEF LifeInv, TablesOK, ServedSchemaIsCurrent
  <2>2. TrustedCaSigns
    BY DEF LifeInv, CaOK, TrustedCaSigns
  <2>3. StoreOutlivesServe
    <3> SUFFICES ASSUME NEW p \in Procs, store[p] = "closed", at[p] # "gone", Open(p)
                 PROVE  srv[p] = "failed"
      BY DEF StoreOutlivesServe
    <3>1. srv[p] \in {"none", "up", "failed", "ended"} /\ DOMAIN ports = {"ui", "desktopData", "serveData"}
      BY DEF LifeInv, TypeOK
    <3>2. srv[p] # "up"
      BY DEF LifeInv, StoreOK
    <3>3. PortsOf(p) \subseteq DOMAIN ports
      BY <3>1 DEF PortsOf, DataPort
    <3>4. srv[p] \notin {"none", "ended"}
      BY <3>3 DEF LifeInv, ListenerOK, Open
    <3> QED
      BY <3>1, <3>2, <3>4
  <2> QED
    BY <2>1, <2>2, <2>3 DEF ServeInv
<1> QED
  BY <1>1, LifeInvariant, PTL

\* DesktopAlone: the instance lock lets one desktop at a time past the gate,
\* except after a Release that was overtaken between LOCK_UN and Remove, or one
\* with the listeners still open.
THEOREM OneDesktop == Spec => []DesktopAlone
<1>1. LifeInv => DesktopAlone
  BY DEF LifeInv
<1> QED
  BY <1>1, LifeInvariant, PTL

\* BlockedNeedsMishap: no sequence of upgrades, from any version, killed or
\* failing anywhere inside migrate, leaves a data directory that no later start
\* gets through; only a creation cut short, or two launches at once, does.
THEOREM UpgradesNeverBlock == Spec => []BlockedNeedsMishap
<1>1. LifeInv => BlockedNeedsMishap
  <2> SUFFICES ASSUME LifeInv, Blocked, ~ hist.torn, ~ hist.shared,
                      \A p \in Procs : at[p] \notin {"mkkey", "schema", "stamp"}
               PROVE  FALSE
    BY DEF BlockedNeedsMishap
  <2>1. CASE cert # Nobody /\ key = Nobody
    BY <2>1 DEF LifeInv, CaOK
  <2>2. ASSUME NEW k \in db.ver + 1 .. Latest, DOMAIN db.tables = Tables, Duplicate(k)
        PROVE  FALSE
    <3>1. db.ver \in 0 .. Latest /\ k \notin 1 .. db.ver /\ k \in 1 .. Latest /\ Tables # {}
      BY MigrationsAre DEF LifeInv, TypeOK
    <3>2. db.tables = Shape(db.ver)
      BY <2>2, <3>1 DEF LifeInv, DbOK
    <3>3. PICK t \in Alters[k] : k \in db.tables[t]
      BY <2>2 DEF Duplicate
    <3>4. t \in Tables
      BY <3>1, <3>3, MigrationsAre
    <3> QED
      BY <3>1, <3>2, <3>3, <3>4, ShapeIs
  <2> QED
    BY <2>1, <2>2 DEF Blocked
<1> QED
  BY <1>1, LifeInvariant, PTL

\* SocketLeadsToServer: the admin socket leads to the daemon that serves, after
\* any crashes and restarts, unless another launch took the path over.
THEOREM SocketIsTheServers == Spec => []SocketLeadsToServer
<1>1. LifeInv => SocketLeadsToServer
  BY DEF LifeInv
<1> QED
  BY <1>1, LifeInvariant, PTL
=============================================================================
