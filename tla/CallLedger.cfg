SPECIFICATION LedgerSpec
CONSTANTS
  Calls = {c1, c2, c3}
  LimitPerMin = 1
  MaxMinute = 1
  NoWindow = NoWindow
  MinuteTicks = 4
  MaxTime = 4
  Retentions = {0, 1}
  Cutoffs = {5}
  ListLimit = 1
  MaxEntries = 2
  BodySets = {{}, {"request", "response"}}
SYMMETRY Symmetry
INVARIANTS
  LimitInv
  JournalInv
PROPERTIES
  PruneSpares
CHECK_DEADLOCK FALSE
