SPECIFICATION IdentityFairSpec
CONSTANTS
  Procs = {p1, p2, p3}
  Nobody = Nobody
  MaxForgets = 2
  MaxCrashes = 1

  
  
PROPERTIES
  CommandsEnd
CHECK_DEADLOCK FALSE
