-------------------------- MODULE DaemonLifecycle --------------------------
(***************************************************************************)
(* Starting and stopping outwall: run of cmd/outwall-desktop, its instance *)
(* lock and runner (internal/desktop), the headless serve command          *)
(* (internal/cli), the local CA's files (internal/tlsca), the schema       *)
(* migrations (internal/store) and the listeners of daemon.Serve.          *)
(*                                                                         *)
(* Every launch is a process.  They share the data directory (lock file,   *)
(* CA files, database, admin socket) and the loopback ports.  A process    *)
(* may die between any two steps: the kernel then drops its locks and      *)
(* ports, and the files keep what was written.  The agent socket is bound, *)
(* stolen and removed together with the admin socket and is not kept apart.*)
(***************************************************************************)
EXTENDS Naturals, FiniteSets, Sequences, Functions

CONSTANTS Launches,   \* bound on the launches made, numbered in that order
          MaxAlive,   \* bound on the processes alive at a time
          MaxServes,  \* bound on the launches of outwall serve
          MaxCrashes, \* bound on the processes that are killed
          Databases,  \* versions the database may have at first
          Fresh       \* in Databases: there is no file yet

ASSUME LifecycleAssumption ==
  /\ Launches \in Nat /\ MaxAlive \in Nat /\ MaxServes \in Nat /\ MaxCrashes \in Nat
  /\ Databases \subseteq 0 .. 6 \cup {Fresh}

Procs  == 1 .. Launches
Nobody == 0   \* no process, no file

VARIABLES
  desktop,  \* the processes that are the desktop; the others are outwall serve
  at,       \* at[p]: where p's main thread is
  srv,      \* srv[p]: the Serve call: none, up, failed (a listener) or ended
  path,     \* the inode at desktop.lock, named after the launch that made it
  fd,       \* fd[p]: the lock file p has open
  holder,   \* holder[i]: who holds the flock of inode i
  cert, key,\* ca.crt and ca.key: the launch that generated each
  ca,       \* ca[p]: the CA p works with, <<certificate, key>>
  db,       \* [ver: PRAGMA user_version, tables: [table -> steps its shape has]]
  next,     \* next[p]: the migration p is about to run
  sock,     \* the launch whose listener the admin socket's path leads to
  ports,    \* ports[n]: who listens
  store,    \* store[p]: p's database handle: none, open or closed
  hist      \* histories: see below

vars == <<desktop, at, srv, path, fd, holder, cert, key, ca, db, next, sock, ports, store, hist>>

\* hist: serves, launches of serve, which has no gate; shared, two processes
\* were past the gate at once; overtaken, a Release
\* removed a lock file that was not, or no longer only, its own; late, a desktop
\* gave up its lock while its listeners were open; torn, the creation of the
\* database or of the CA was cut short; crashes, processes killed.
NoHistory == [serves |-> 0, shared |-> FALSE, overtaken |-> FALSE, late |-> FALSE, torn |-> FALSE, crashes |-> 0]

\* The tables the migrations touch, in the order schema creates them.
TableOrder == <<"upstreams", "agents", "rules", "access_requests">>
Tables == Range(TableOrder)

\* migrations 2 to 6: the tables each one adds columns to.
Alters == << {}, {"upstreams", "rules"}, {"rules"}, {"agents"}, {"access_requests"}, {"rules"} >>
Latest == Len(Alters)

\* The columns a table has in a database of version v.
Shape(v) == [t \in Tables |-> { k \in 1 .. v : t \in Alters[k] }]
Current  == Shape(Latest)

DataPort(p) == IF p \in desktop THEN "desktopData" ELSE "serveData"
PortsOf(p)  == {"ui", DataPort(p)}

Starting == {"ca", "key", "mkcert", "mkkey", "open", "schema", "stamp", "steps", "sock"}
Running  == {"wait", "probe", "run", "stop", "join"}
\* p is past the gate: it may be using the data directory or hold a listener.
Active(p) == at[p] \in Starting \cup Running \cup {"unlock"}
             \/ (srv[p] \in {"up", "failed"} /\ at[p] # "gone")

Init ==
  /\ desktop = {}
  /\ at = [p \in Procs |-> "idle"] /\ srv = [p \in Procs |-> "none"]
  /\ path = Nobody /\ fd = [p \in Procs |-> Nobody] /\ holder = [p \in Procs |-> Nobody]
  /\ ca = [p \in Procs |-> <<Nobody, Nobody>>]
  /\ cert = Nobody /\ key = Nobody
  /\ \E v \in Databases :
        db = IF v = Fresh THEN [ver |-> 0, tables |-> [t \in {} |-> {}]]
                          ELSE [ver |-> v, tables |-> Shape(v)]
  /\ next = [p \in Procs |-> 1]
  /\ sock = Nobody /\ ports = [n \in {"ui", "desktopData", "serveData"} |-> Nobody]
  /\ store = [p \in Procs |-> "none"] /\ hist = NoHistory

-----------------------------------------------------------------------------
(* The gate. *)

go(p, where) == at' = [at EXCEPT ![p] = where]

\* p is the next launch.
Launchable(p) ==
  /\ at[p] = "idle" /\ \A q \in 1 .. p - 1 : at[q] # "idle"
  /\ Cardinality({ q \in Procs : at[q] \notin {"idle", "gone"} }) < MaxAlive

\* What the kernel takes back when p is gone.
Freed(p)    == [n \in DOMAIN ports |-> IF ports[n] = p THEN Nobody ELSE ports[n]]
Unlocked(p) == [i \in Procs |-> IF holder[i] = p THEN Nobody ELSE holder[i]]

\* The process ends; files keep what was written, the socket's path included.
Exit(p) ==
  /\ go(p, "gone")
  /\ desktop' = desktop \ {p}
  /\ srv' = [srv EXCEPT ![p] = "none"] /\ store' = [store EXCEPT ![p] = "none"]
  /\ ca' = [ca EXCEPT ![p] = <<Nobody, Nobody>>] /\ next' = [next EXCEPT ![p] = 1]
  /\ fd' = [fd EXCEPT ![p] = Nobody] /\ holder' = Unlocked(p) /\ ports' = Freed(p)

\* p enters the guarded part of its life.
Enter(p) ==
  /\ go(p, "ca")
  /\ hist' = [hist EXCEPT !.shared = @ \/ \E q \in Procs \ {p} : Active(q)]

\* serve: no gate at all.
ServeLaunch(p) ==
  /\ Launchable(p) /\ hist.serves < MaxServes
  /\ go(p, "ca")
  /\ hist' = [hist EXCEPT !.serves = @ + 1, !.shared = @ \/ \E q \in Procs \ {p} : Active(q)]
  /\ UNCHANGED <<desktop, srv, path, fd, holder, cert, key, ca, db, next, sock, ports, store>>

\* AcquireInstanceLock: OpenFile(O_CREATE) ...
OpenLock(p) ==
  /\ Launchable(p)
  /\ desktop' = desktop \cup {p}
  /\ path' = IF path = Nobody THEN p ELSE path
  /\ fd' = [fd EXCEPT ![p] = path']
  /\ go(p, "flock")
  /\ UNCHANGED <<srv, holder, cert, key, ca, db, next, sock, ports, store, hist>>

\* (slip) The lock is shared (LOCK_SH).
FlockShared(p) ==
  /\ at[p] = "flock"
  /\ holder' = [holder EXCEPT ![fd[p]] = p]
  /\ Enter(p)
  /\ UNCHANGED <<desktop, srv, path, fd, cert, key, ca, db, next, sock, ports, store>>

\* ... and flock(LOCK_EX|LOCK_NB): p is the primary instance.
Flock(p) ==
  /\ at[p] = "flock" /\ holder[fd[p]] = Nobody
  /\ holder' = [holder EXCEPT ![fd[p]] = p]
  /\ Enter(p)
  /\ UNCHANGED <<desktop, srv, path, fd, cert, key, ca, db, next, sock, ports, store>>

\* NotifyExistingInstance: the socket leads to a live daemon with a window; a
\* headless one answers 503.
Answers == sock # Nobody /\ sock \in desktop /\ srv[sock] \in {"up", "failed"}

\* The lock is taken and the running instance raised its window: exit 0 ...
FocusExisting(p) ==
  /\ at[p] = "flock" /\ holder[fd[p]] # Nobody /\ Answers
  /\ Exit(p)
  /\ UNCHANGED <<path, cert, key, db, sock, hist>>

\* ... or nobody answered in time: exit with an error.
FocusUnanswered(p) ==
  /\ at[p] = "flock" /\ holder[fd[p]] # Nobody
  /\ Exit(p)
  /\ UNCHANGED <<path, cert, key, db, sock, hist>>

-----------------------------------------------------------------------------
(* daemon.New: the CA, then the database. *)

\* New failed: the store is closed; the desktop still runs its deferred Release.
Fail(p) ==
  \/ /\ p \in desktop /\ go(p, "unlock")
     /\ store' = [store EXCEPT ![p] = IF @ = "open" THEN "closed" ELSE @]
     /\ UNCHANGED <<desktop, srv, fd, holder, ca, next, ports>>
  \/ p \notin desktop /\ Exit(p)

\* LoadOrCreateCA: is there a certificate?
ReadCert(p) ==
  /\ at[p] = "ca"
  /\ go(p, IF cert = Nobody THEN "mkcert" ELSE "key")
  /\ ca' = [ca EXCEPT ![p][1] = cert]
  /\ UNCHANGED <<desktop, srv, path, fd, holder, cert, key, db, next, sock, ports, store, hist>>

\* The key beside an existing certificate; loadCA does not compare the two.
ReadKey(p) ==
  /\ at[p] = "key"
  /\ \/ /\ key # Nobody /\ ca' = [ca EXCEPT ![p][2] = key] /\ go(p, "open")
        /\ UNCHANGED <<desktop, srv, fd, holder, next, ports, store>>
     \/ key = Nobody /\ Fail(p)
  /\ UNCHANGED <<path, cert, key, db, sock, hist>>

\* createCA: WriteFile of ca.crt ...
WriteCert(p) ==
  /\ at[p] = "mkcert"
  /\ cert' = p /\ ca' = [ca EXCEPT ![p] = <<p, p>>]
  /\ go(p, "mkkey")
  /\ UNCHANGED <<desktop, srv, path, fd, holder, key, db, next, sock, ports, store, hist>>

\* ... and then of ca.key.
WriteKey(p) ==
  /\ at[p] = "mkkey"
  /\ \/ /\ key' = p /\ go(p, "open")
        /\ UNCHANGED <<desktop, srv, fd, holder, ca, next, ports, store, hist>>
     \/ Fail(p) /\ hist' = [hist EXCEPT !.torn = TRUE] /\ UNCHANGED key
  /\ UNCHANGED <<path, cert, db, sock>>

\* (slip) Version 0 is taken for a new file, tables or not.
IsFreshByVersion == db.ver = 0

\* migrate: user_version is 0 and isEmpty.
IsFresh == db.ver = 0 /\ DOMAIN db.tables = {}

\* Versions count from 1: the steps above user_version are pending.
FirstPending == db.ver + 1

\* Open and the start of migrate.
OpenStore(p) ==
  /\ at[p] = "open"
  /\ store' = [store EXCEPT ![p] = "open"]
  /\ next' = [next EXCEPT ![p] = FirstPending]
  /\ go(p, IF IsFresh THEN "schema" ELSE "steps")
  /\ UNCHANGED <<desktop, srv, path, fd, holder, cert, key, ca, db, sock, ports, hist>>

\* Exec(schema): CREATE TABLE IF NOT EXISTS, one statement after the other and
\* each its own transaction.
CreateTable(p) ==
  /\ at[p] = "schema"
  /\ \/ \E i \in DOMAIN TableOrder :
           /\ TableOrder[i] \notin DOMAIN db.tables
           /\ \A j \in 1 .. i - 1 : TableOrder[j] \in DOMAIN db.tables
           /\ db' = [db EXCEPT !.tables = [t \in DOMAIN @ \cup {TableOrder[i]} |->
                                              IF t \in DOMAIN @ THEN @[t] ELSE Current[t]]]
           /\ UNCHANGED at
     \/ DOMAIN db.tables = Tables /\ go(p, "stamp") /\ UNCHANGED db
  /\ UNCHANGED <<desktop, srv, path, fd, holder, cert, key, ca, next, sock, ports, store, hist>>

\* setUserVersion(len(migrations)), in a statement of its own.
StampFresh(p) ==
  /\ at[p] = "stamp"
  /\ db' = [db EXCEPT !.ver = Latest]
  /\ go(p, "sock")
  /\ UNCHANGED <<desktop, srv, path, fd, holder, cert, key, ca, next, sock, ports, store, hist>>

\* The database answers an error (a full disk, SQLITE_BUSY) while it is made.
CreateFails(p) ==
  /\ at[p] \in {"schema", "stamp"}
  /\ Fail(p)
  /\ hist' = [hist EXCEPT !.torn = TRUE]
  /\ UNCHANGED <<path, cert, key, db, sock>>

\* ALTER TABLE ADD COLUMN refuses a column that is there already.
Duplicate(k) == \E t \in Alters[k] : k \in db.tables[t]

\* The tables after migration k; the first is the schema itself.
Migrated(k) ==
  IF k = 1 THEN [t \in Tables |-> IF t \in DOMAIN db.tables THEN db.tables[t] ELSE Current[t]]
  ELSE [t \in DOMAIN db.tables |-> IF t \in Alters[k] THEN db.tables[t] \cup {k} ELSE db.tables[t]]

\* (slip) The version is not stamped with the step.
StampedNot(k) == db.ver

\* The version after migration k.
Stamped(k) == k

\* One pending migration and its stamp, in one transaction ...
MigrateStep(p) ==
  /\ at[p] = "steps" /\ next[p] <= Latest /\ ~Duplicate(next[p])
  /\ db' = [ver |-> Stamped(next[p]), tables |-> Migrated(next[p])]
  /\ next' = [next EXCEPT ![p] = @ + 1]
  /\ UNCHANGED <<desktop, at, srv, path, fd, holder, cert, key, ca, sock, ports, store, hist>>

\* ... rolled back on a duplicate column or any other error: Open fails.
MigrateFails(p) ==
  /\ at[p] = "steps" /\ next[p] <= Latest
  /\ Fail(p)
  /\ UNCHANGED <<path, cert, key, db, sock, hist>>

\* Nothing is pending.
MigrateDone(p) ==
  /\ at[p] = "steps" /\ next[p] > Latest
  /\ go(p, "sock")
  /\ UNCHANGED <<desktop, srv, path, fd, holder, cert, key, ca, db, next, sock, ports, store, hist>>


-----------------------------------------------------------------------------
(* daemon.Serve. *)

\* (slip) A socket file that is there is not removed first.
ListenSocketKeeps(p) ==
  /\ at[p] = "sock"
  /\ sock' = IF sock = Nobody THEN p ELSE sock
  /\ srv' = [srv EXCEPT ![p] = "up"]
  /\ go(p, IF p \in desktop THEN "wait" ELSE "run")
  /\ UNCHANGED <<desktop, path, fd, holder, cert, key, ca, db, next, ports, store, hist>>

\* The socket's path is removed, whoever bound it, and bound again.
ListenSocket(p) ==
  /\ at[p] = "sock"
  /\ sock' = p
  /\ srv' = [srv EXCEPT ![p] = "up"]
  /\ go(p, IF p \in desktop THEN "wait" ELSE "run")
  /\ UNCHANGED <<desktop, path, fd, holder, cert, key, ca, db, next, ports, store, hist>>

\* A listener's goroutine binds its port; the first failure ends Serve, which
\* closes nothing on that way out.
Bind(p, n) ==
  /\ at[p] # "gone" /\ srv[p] \in {"up", "failed"}
  /\ n \in PortsOf(p) /\ ports[n] # p
  /\ \/ ports[n] = Nobody /\ ports' = [ports EXCEPT ![n] = p] /\ UNCHANGED srv
     \/ /\ srv[p] = "up" /\ ports[n] # Nobody
        /\ srv' = [srv EXCEPT ![p] = "failed"] /\ UNCHANGED ports
  /\ UNCHANGED <<desktop, at, path, fd, holder, cert, key, ca, db, next, sock, store, hist>>

\* The context is canceled: every server is closed and the socket's path
\* removed, whoever bound it last.
ServeEnds(p) ==
  /\ at[p] \in {"join", "unlock", "remove"} /\ srv[p] = "up"
  /\ srv' = [srv EXCEPT ![p] = "ended"]
  /\ ports' = Freed(p) /\ sock' = Nobody
  /\ UNCHANGED <<desktop, at, path, fd, holder, cert, key, ca, db, next, store, hist>>

-----------------------------------------------------------------------------
(* desktop.Run, the window and Handle.Stop; serve's signal handler. *)

\* waitReady: has Serve returned?
CheckServe(p) ==
  /\ at[p] = "wait"
  /\ go(p, IF srv[p] = "up" THEN "probe" ELSE "stop")
  /\ UNCHANGED <<desktop, srv, path, fd, holder, cert, key, ca, db, next, sock, ports, store, hist>>

\* waitReady: GET of the UI's address answers 200, or is tried again until the
\* deadline.
Probe(p) ==
  /\ at[p] = "probe"
  /\ \/ ports["ui"] # Nobody /\ go(p, "run")
     \/ ports["ui"] = Nobody /\ go(p, "wait")
  /\ UNCHANGED <<desktop, srv, path, fd, holder, cert, key, ca, db, next, sock, ports, store, hist>>

\* waitReady: the deadline has passed.
NotReady(p) ==
  /\ at[p] = "probe" /\ ports["ui"] = Nobody
  /\ go(p, "stop")
  /\ UNCHANGED <<desktop, srv, path, fd, holder, cert, key, ca, db, next, sock, ports, store, hist>>

\* The operator quits or a signal comes; serve also returns when Serve failed,
\* the desktop has nobody left who looks.
Quit(p) ==
  /\ at[p] = "run"
  /\ go(p, IF p \in desktop THEN "stop" ELSE "join")
  /\ UNCHANGED <<desktop, srv, path, fd, holder, cert, key, ca, db, next, sock, ports, store, hist>>

\* Stop: cancel.
Cancel(p) ==
  /\ at[p] = "stop"
  /\ go(p, "join")
  /\ UNCHANGED <<desktop, srv, path, fd, holder, cert, key, ca, db, next, sock, ports, store, hist>>

Open(p) == sock = p \/ \E n \in PortsOf(p) : ports[n] = p

\* serveDone is closed: Serve has returned, an error or not.
ServeDone(p) == srv[p] \in {"ended", "failed"}

\* Stop (the deferred Close of serve): Serve has returned, the store is closed.
Join(p) ==
  /\ at[p] = "join" /\ ServeDone(p)
  /\ \/ /\ p \in desktop /\ go(p, "unlock")
        /\ store' = [store EXCEPT ![p] = "closed"]
        /\ UNCHANGED <<desktop, srv, fd, holder, ca, next, ports>>
     \/ p \notin desktop /\ Exit(p)
  /\ UNCHANGED <<path, cert, key, db, sock, hist>>

\* Stop: its context expires first, the store is left open and run goes on.
JoinLate(p) ==
  /\ at[p] = "join" /\ p \in desktop /\ srv[p] = "up"
  /\ go(p, "unlock")
  /\ UNCHANGED <<desktop, srv, path, fd, holder, cert, key, ca, db, next, sock, ports, store, hist>>

-----------------------------------------------------------------------------
(* InstanceLock.Release and the end of the process. *)

\* flock(LOCK_UN) and Close ...
ReleaseUnlock(p) ==
  /\ at[p] = "unlock"
  /\ holder' = Unlocked(p)
  /\ hist' = [hist EXCEPT !.late = @ \/ srv[p] \in {"up", "failed"}]
  /\ go(p, "remove")
  /\ UNCHANGED <<desktop, srv, path, fd, cert, key, ca, db, next, sock, ports, store>>

\* ... and then Remove of the path, whatever file is there by now.
ReleaseRemove(p) ==
  /\ at[p] = "remove"
  /\ hist' = [hist EXCEPT !.overtaken = @ \/ path \notin {fd[p], Nobody}
                                          \/ \E q \in Procs \ {p} : at[q] # "remove" /\ fd[q] = path /\ path # Nobody]
  /\ path' = Nobody
  /\ Exit(p)
  /\ UNCHANGED <<cert, key, db, sock>>

\* The process is killed (or told to stop twice): the kernel frees what it held.
Crash(p) ==
  /\ at[p] \notin {"idle", "gone"} /\ hist.crashes < MaxCrashes
  /\ Exit(p)
  /\ hist' = [hist EXCEPT !.crashes = @ + 1,
                          !.torn = @ \/ at[p] \in {"mkkey", "stamp"}
                                     \/ (at[p] = "schema" /\ DOMAIN db.tables # {})]
  /\ UNCHANGED <<path, cert, key, db, sock>>

Step(p) ==
  \/ ServeLaunch(p) \/ OpenLock(p) \/ Flock(p) \/ FocusExisting(p) \/ FocusUnanswered(p)
  \/ ReadCert(p) \/ ReadKey(p) \/ WriteCert(p) \/ WriteKey(p)
  \/ OpenStore(p) \/ CreateTable(p) \/ StampFresh(p) \/ CreateFails(p)
  \/ MigrateStep(p) \/ MigrateFails(p) \/ MigrateDone(p)
  \/ ListenSocket(p) \/ (\E n \in DOMAIN ports : Bind(p, n)) \/ ServeEnds(p)
  \/ CheckServe(p) \/ Probe(p) \/ NotReady(p) \/ Quit(p) \/ Cancel(p) \/ Join(p) \/ JoinLate(p)
  \/ ReleaseUnlock(p) \/ ReleaseRemove(p) \/ Crash(p)

Next == \E p \in Procs : Step(p)
Spec == Init /\ [][Next]_vars

-----------------------------------------------------------------------------
(* Properties. *)

Someone == Procs \cup {Nobody}

\* Type invariant.
TypeOK ==
  /\ desktop \subseteq Procs
  /\ at \in [Procs -> Starting \cup Running \cup {"idle", "flock", "unlock", "remove", "gone"}]
  /\ srv \in [Procs -> {"none", "up", "failed", "ended"}]
  /\ path \in Someone /\ fd \in [Procs -> Someone] /\ holder \in [Procs -> Someone]
  /\ cert \in Someone /\ key \in Someone /\ ca \in [Procs -> Someone \X Someone]
  /\ db.ver \in 0 .. Latest
  /\ DOMAIN db.tables \subseteq Tables /\ \A t \in DOMAIN db.tables : db.tables[t] \subseteq Current[t]
  /\ next \in [Procs -> 1 .. Latest + 1]
  /\ sock \in Someone /\ ports \in [{"ui", "desktopData", "serveData"} -> Someone]
  /\ store \in [Procs -> {"none", "open", "closed"}]

\* Two desktops are past the gate at once only when a Release removed a lock
\* file another launch had open by then, or when one gave up the lock with its
\* listeners still open (Stop had timed out, or Serve had failed).
DesktopAlone ==
  hist.shared /\ hist.serves = 0 => hist.overtaken \/ hist.late

\* A daemon that got as far as Serve works on tables of the current shape,
\* whichever version the file had, whoever else was migrating it and wherever an
\* earlier start was cut short.
ServedSchemaIsCurrent ==
  \A p \in Procs : srv[p] # "none" => db.tables = Current

\* A data directory no start can get through (a migration that would add a column
\* twice, a certificate without its key) comes only of a creation that was cut
\* short or of two launches at once: an upgrade is never its cause.
Blocked ==
  \/ \E k \in db.ver + 1 .. Latest : k > 1 /\ DOMAIN db.tables = Tables /\ Duplicate(k)
  \/ cert # Nobody /\ key = Nobody
BlockedNeedsMishap ==
  Blocked => hist.torn \/ hist.shared \/ \E p \in Procs : at[p] \in {"mkkey", "schema", "stamp"}

\* The certificate agents are told to trust (ca.crt, and the daemon's CAPEM) is
\* the one the daemon's key signs for, unless two launches made the CA at once.
TrustedCaSigns ==
  ~hist.shared => \A p \in Procs : srv[p] = "up" => ca[p] = <<cert, cert>> /\ key = cert

\* The admin socket leads to the daemon that serves, unless another launch took
\* the path over or removed it.
SocketLeadsToServer ==
  ~hist.shared => \A p \in Procs : srv[p] = "up" /\ at[p] # "gone" => sock = p

\* The store is closed under a listener only after Serve returned an error (it
\* closes none then); Stop never closes it under a running Serve.
StoreOutlivesServe ==
  \A p \in Procs : store[p] = "closed" /\ at[p] # "gone" /\ Open(p) => srv[p] = "failed"

\* What a serving daemon stands on: tables of the current shape, the CA that is
\* on disk, and a store nobody closed under it.
ServeInv == TypeOK /\ ServedSchemaIsCurrent /\ TrustedCaSigns /\ StoreOutlivesServe
=============================================================================
