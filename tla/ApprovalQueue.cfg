SPECIFICATION FairSpec
CONSTANTS
  Cards = {c1, c2}
  Calls = {k1, k2}
  Reasons = {why}
  NoReason = NoReason
  Unresolved = Unresolved
  NoCard = NoCard
INVARIANTS
  ApprovedByOperator
  WaitersAreParked
  BlockedOnlyByRival
PROPERTIES
  ImplementsPromise
  SubmitReturns
CHECK_DEADLOCK FALSE
