----------------------------- MODULE CallLedger -----------------------------
(***************************************************************************)
(* The tail of proxy.ServeHTTP: a permitted call asks the limiter, and     *)
(* whether it is refused (429) or forwarded its outcome goes to the audit  *)
(* log.  One clock drives the limiter's minutes, the entries' timestamps   *)
(* and the retention.  A crash of the daemon loses the limiter's window,   *)
(* and the Records and Prunes in progress; the database stays.             *)
(***************************************************************************)
EXTENDS RateLimiter, TLC

CONSTANTS MinuteTicks,  \* ticks of the journal's clock in a minute
          MaxEntries,   \* bound on the entries a run records
          BodySets,     \* which bodies a forwarded call leaves: none (an upgrade, or
                        \* an error with no request body), a response's, both...
          MaxTime, Retentions, Cutoffs, ListLimit

\* The bound on the minutes covers the clock; times and days are numbers.
ASSUME LedgerAssumption ==
  /\ MinuteTicks \in Nat \ {0} /\ MaxTime \in Nat /\ Retentions \subseteq Nat /\ Cutoffs \subseteq Nat
  /\ BodySets \subseteq SUBSET {"request", "response"}
  /\ \A t \in 0 .. MaxTime : t \div MinuteTicks \in 0 .. MaxMinute

VARIABLES now, log, bodies, rec, retention, prune, overlapped, crashed

J == INSTANCE AuditJournal WITH Entries <- Calls, Kinds <- {"request", "response"}

journal == <<now, log, bodies, rec, retention, prune, overlapped, crashed>>
ledgerVars == <<vars, journal>>

LedgerInit == Init /\ J!JournalInit

\* The limiter's part of a call.
Ask(c) ==
  /\ ReadClock(c) \/ Allow(c)
  /\ UNCHANGED journal

\* recordOutcome of a refusal (no bodies); the onClose of a response, with the
\* request body when one was sent; the ErrorHandler, with the request body alone.
Outcome(c) ==
  /\ Cardinality({d \in Calls : rec[d].at # "none"}) < MaxEntries
  /\ \/ call[c].at = "refused" /\ J!Stamp(c, {})
     \/ call[c].at = "admitted" /\ \E kinds \in BodySets : J!Stamp(c, kinds)
  /\ UNCHANGED vars

\* Recording, pruning and the settings.
Journal == J!JournalStep /\ UNCHANGED vars

Clock ==
  /\ J!Tick
  /\ minute' = now' \div MinuteTicks
  /\ UNCHANGED <<w, call>>

\* The windows are in memory; a call that had not asked yet is cut off.
Crash ==
  /\ J!JournalCrash
  /\ w' = NoWindow
  /\ call' = [c \in Calls |-> IF call[c].at = "read" THEN [call[c] EXCEPT !.at = "cut"] ELSE call[c]]
  /\ UNCHANGED minute

LedgerNext == (\E c \in Calls : Ask(c) \/ Outcome(c)) \/ Journal \/ Clock \/ Crash

LedgerSpec == LedgerInit /\ [][LedgerNext]_ledgerVars

-----------------------------------------------------------------------------
\* The window never holds against a caller what was not spent in its minute,
\* and a minute only sees more than its limit when a call of another minute
\* overtook one of its own, or the daemon came back with no memory of it.
LimitInv == WindowInv /\ (~ crashed => OverLimitNeedsOvertaking)

\* A log that concurrent Records and Prunes leave readable.
JournalInv == J!JournalInv

\* Nothing leaves the log that a Prune was not asked to take.
PruneSpares == [][J!PrunedOnly]_journal

Symmetry == Permutations(Calls)
=============================================================================
