---------------------------- MODULE AuditJournal ----------------------------
(***************************************************************************)
(* internal/audit/recorder.go: the audit log.  A Record is one INSERT for  *)
(* the entry and one for each body, with no transaction; a Prune is two    *)
(* DELETEs, with no transaction either; several of each run at once.       *)
(* Times are stored and compared as RFC3339Nano text.                      *)
(***************************************************************************)
EXTENDS Naturals, Sequences, FiniteSets

CONSTANTS Entries,     \* the calls that come to be recorded, one entry each
          Kinds,       \* the kinds of bodies: request, response
          Retentions,  \* the retention settings in days; 0 keeps all
          Cutoffs,     \* the times an operator asks to prune up to
          MaxTime,     \* bound on the clock
          ListLimit    \* the limit of a List

\* The model's second has four ticks, written with two binary digits.  A
\* "day" of retention is as long as a second.
SecondTicks == 4
Pruners == {"timer", "operator"}

VARIABLES
  now,        \* the clock, in ticks
  log,        \* audit_log: the ids of the rows
  bodies,     \* audit_bodies: <<log_id, kind>>
  rec,        \* rec[e]: [at, ts, kinds, left], a Record in progress
  retention,  \* the setting audit.retention_days
  prune,      \* prune[p]: [at, cutoff], a Prune in progress
  overlapped, \* (history) the entries whose Record ran while a Prune did
  crashed     \* (history) the daemon has crashed once

journalVars == <<now, log, bodies, rec, retention, prune, overlapped, crashed>>

JournalInit ==
  /\ now = 0
  /\ log = {}
  /\ bodies = {}
  /\ rec = [e \in Entries |-> [at |-> "none", ts |-> 0, kinds |-> {}, left |-> {}]]
  /\ retention \in Retentions
  /\ prune = [p \in Pruners |-> [at |-> "idle", cutoff |-> 0]]
  /\ overlapped = {}
  /\ crashed = FALSE

-----------------------------------------------------------------------------
\* RFC3339Nano drops the trailing zeros of the fraction, then writes "Z",
\* which sorts after every digit (and after the point before them).
Z == 2

Text(t) ==
  LET hi == (t % SecondTicks) \div 2
      lo == t % 2
  IN <<t \div SecondTicks>>
       \o (IF lo # 0 THEN <<hi, lo>> ELSE IF hi # 0 THEN <<hi>> ELSE << >>)
       \o <<Z>>

\* How SQLite orders two such texts.
TextLess(s, t) ==
  \E i \in 1 .. Len(s) :
     /\ i <= Len(t)
     /\ s[i] < t[i]
     /\ \A j \in 1 .. i - 1 : s[j] = t[j]

Before(t, u) == TextLess(Text(t), Text(u))

InProgress(e) == rec[e].at \in {"stamped", "bodies"}
Pruning == \E p \in Pruners : prune[p].at = "rows"

\* Rows that WHERE ts < cutoff selects.
Older(cutoff) == {e \in log : Before(rec[e].ts, cutoff)}

-----------------------------------------------------------------------------
\* The caller builds the entry: TS is read before Record is called.  A call
\* that was not forwarded has no bodies; one that was has a response, and a
\* request body unless it was empty.
Stamp(e, kinds) ==
  /\ rec[e].at = "none"
  /\ rec' = [rec EXCEPT ![e] = [at |-> "stamped", ts |-> now, kinds |-> kinds, left |-> kinds]]
  /\ overlapped' = IF Pruning THEN overlapped \union {e} ELSE overlapped
  /\ UNCHANGED <<now, log, bodies, retention, prune, crashed>>

\* INSERT INTO audit_log.
InsertRow(e) ==
  /\ rec[e].at = "stamped"
  /\ log' = log \union {e}
  /\ rec' = [rec EXCEPT ![e].at = IF rec[e].left = {} THEN "done" ELSE "bodies"]
  /\ UNCHANGED <<now, bodies, retention, prune, overlapped, crashed>>

\* INSERT INTO audit_bodies: the request's first, then the response's.
InsertBody(e) ==
  LET kind == IF "request" \in rec[e].left THEN "request" ELSE "response"
      left == rec[e].left \ {kind}
  IN /\ rec[e].at = "bodies"
     /\ bodies' = bodies \union {<<e, kind>>}
     /\ rec' = [rec EXCEPT ![e].left = left, ![e].at = IF left = {} THEN "done" ELSE "bodies"]
     /\ UNCHANGED <<now, log, retention, prune, overlapped, crashed>>

\* SetRetentionDays.
SetRetention(days) ==
  /\ retention' = days
  /\ UNCHANGED <<now, log, bodies, rec, prune, overlapped, crashed>>

-----------------------------------------------------------------------------
\* (slip) The days are added instead of subtracted.
RetentionCutoffAhead(days) == now + days * SecondTicks

\* PruneByRetention: the time up to which a pass prunes.
RetentionCutoff(days) == now - days * SecondTicks

\* A pass of RunPruner reads the clock and the setting; with 0 it does nothing.
PrunerReads ==
  /\ prune["timer"].at = "idle"
  /\ retention > 0
  /\ now >= retention * SecondTicks  \* nothing is older than the clock's start
  /\ prune' = [prune EXCEPT !["timer"] = [at |-> "asked", cutoff |-> RetentionCutoff(retention)]]
  /\ UNCHANGED <<now, log, bodies, rec, retention, overlapped, crashed>>

NowPruned == overlapped \union {e \in Entries : InProgress(e)}

\* (slip) The sub-select takes the cutoff's own entries too (ts <= ?).
PruneBodiesUpTo(p, cutoff) ==
  /\ bodies' = {b \in bodies : b[1] \in log => Before(cutoff, rec[b[1]].ts)}
  /\ prune' = [prune EXCEPT ![p] = [at |-> "rows", cutoff |-> cutoff]]
  /\ overlapped' = NowPruned
  /\ UNCHANGED <<now, log, rec, retention, crashed>>

\* Prune, first statement: the bodies of the rows older than the cutoff.
PruneBodies(p, cutoff) ==
  /\ bodies' = {b \in bodies : b[1] \notin Older(cutoff)}
  /\ prune' = [prune EXCEPT ![p] = [at |-> "rows", cutoff |-> cutoff]]
  /\ overlapped' = NowPruned
  /\ UNCHANGED <<now, log, rec, retention, crashed>>

\* The pass goes on with the cutoff it worked out before.
PrunerPrunes == prune["timer"].at = "asked" /\ PruneBodies("timer", prune["timer"].cutoff)

\* hAuditPrune: the cutoff is what the operator typed.
OperatorPrunes(cutoff) == prune["operator"].at = "idle" /\ PruneBodies("operator", cutoff)

\* Prune, second statement: the rows.
PruneRows(p) ==
  /\ prune[p].at = "rows"
  /\ log' = log \ Older(prune[p].cutoff)
  /\ prune' = [prune EXCEPT ![p] = [at |-> "idle", cutoff |-> 0]]
  /\ overlapped' = NowPruned
  /\ UNCHANGED <<now, bodies, rec, retention, crashed>>

Tick ==
  /\ now < MaxTime
  /\ now' = now + 1
  /\ UNCHANGED <<log, bodies, rec, retention, prune, overlapped, crashed>>

\* The daemon dies: what was in progress stays as far as it had come.
JournalCrash ==
  /\ ~ crashed
  /\ rec' = [e \in Entries |-> IF InProgress(e) THEN [rec[e] EXCEPT !.at = "lost"] ELSE rec[e]]
  /\ prune' = [p \in Pruners |-> [at |-> "idle", cutoff |-> 0]]
  /\ crashed' = TRUE
  /\ UNCHANGED <<now, log, bodies, retention, overlapped>>

JournalStep ==
  \/ \E e \in Entries : InsertRow(e) \/ InsertBody(e)
  \/ \E d \in Retentions : SetRetention(d)
  \/ PrunerReads \/ PrunerPrunes
  \/ \E t \in Cutoffs : OperatorPrunes(t)
  \/ \E p \in Pruners : PruneRows(p)

-----------------------------------------------------------------------------
Second(t) == t \div SecondTicks

\* List: what ORDER BY ts DESC LIMIT shows, rows of equal text in any order.
Lists(limit) ==
  {shown \in SUBSET log :
     /\ Cardinality(shown) = IF Cardinality(log) < limit THEN Cardinality(log) ELSE limit
     /\ \A e \in shown, f \in log \ shown : ~ Before(rec[e].ts, rec[f].ts)}

\* Every variable has its type.
TypeOK ==
  /\ now \in 0 .. MaxTime
  /\ log \subseteq Entries
  /\ bodies \subseteq Entries \X Kinds
  /\ rec \in [Entries -> [at : {"none", "stamped", "bodies", "done", "lost"}, ts : 0 .. now,
                          kinds : SUBSET Kinds, left : SUBSET Kinds]]
  /\ \A e \in Entries : rec[e].left \subseteq rec[e].kinds
  /\ retention \in Retentions
  /\ prune \in [Pruners -> [at : {"idle", "asked", "rows"}, cutoff : Nat]]
  /\ overlapped \subseteq Entries /\ crashed \in BOOLEAN

\* A body outlives its entry only when its Record was under way while a Prune
\* was: with no such overlap the two DELETEs leave nothing behind.
OrphansNeedOverlap == \A b \in bodies : b[1] \notin log => b[1] \in overlapped

\* An entry whose Record came to its end shows all its bodies, unless a Prune
\* has it half removed, or a crash may have cut such a Prune short.
EntriesAreWhole ==
  \A e \in log :
     rec[e].at = "done" /\ e \notin overlapped /\ ~ crashed
        => \/ \A k \in rec[e].kinds : <<e, k>> \in bodies
           \/ \E p \in Pruners : prune[p].at = "rows" /\ e \in Older(prune[p].cutoff)

\* List never hides an entry behind one of an earlier second; within a second
\* the text order is not the order of time, and it may.
ListsNewest ==
  \A shown \in Lists(ListLimit) :
     \A e \in shown, f \in log \ shown : Second(rec[e].ts) >= Second(rec[f].ts)

\* A log that concurrent Records and Prunes leave readable.
JournalInv == TypeOK /\ OrphansNeedOverlap /\ EntriesAreWhole /\ ListsNewest

\* A row leaves the log only at the hands of a Prune whose cutoff reaches its
\* second, and the background pass only takes rows a whole retention old, even
\* when the setting is changed, or the retention switched off, while it runs.
PrunedOnly ==
  \A e \in log : e \notin log'
     => \E p \in Pruners :
           /\ prune[p].at = "rows"
           /\ Second(rec[e].ts) <= Second(prune[p].cutoff)
           /\ p = "timer" => \E d \in Retentions \ {0} : Second(rec[e].ts) + d <= Second(now)
=============================================================================
