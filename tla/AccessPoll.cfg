SPECIFICATION PollFairSpec
CONSTANTS
  Polls = {p1}
  Ops = {o1, o2}
  Buffer = 2
  MaxAsks = 2
INVARIANTS
  PollInv
PROPERTIES
  GrantReachesPoll
CHECK_DEADLOCK FALSE
