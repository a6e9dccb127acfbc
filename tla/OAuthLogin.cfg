SPECIFICATION FairSpec
CONSTANTS
  Logins = {l1, l2}
  Callbacks = {c1, c2}
INVARIANTS
  LoginInv
PROPERTIES
  PortFreed
CHECK_DEADLOCK FALSE
