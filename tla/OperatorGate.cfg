SPECIFICATION GateSpec
CONSTANTS
  Passwords = {right, wrong}
  NoKey = NoKey
  Provers = {p1, p2}
  Ops = {o1, o2}
  TTL = 2
  MaxTime = 4
SYMMETRY Symmetry
INVARIANTS
  KeyMatchesStore
  OpenNeedsProof
PROPERTIES
  AdmittedInWindow
CHECK_DEADLOCK FALSE
