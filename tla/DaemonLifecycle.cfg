SPECIFICATION Spec
CONSTANTS
  Launches = 3
  MaxAlive = 2
  Fresh = Fresh
  Databases = {Fresh, 0, 5}
  MaxServes = 2
  MaxCrashes = 1
INVARIANTS
  ServeInv
  DesktopAlone
  BlockedNeedsMishap
  SocketLeadsToServer
CHECK_DEADLOCK FALSE
