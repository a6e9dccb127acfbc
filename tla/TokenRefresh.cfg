SPECIFICATION Spec
CONSTANTS
  Calls = {c1, c2}
  Editors = {e1}
  MaxIds = 2
  Home = h1
  NewBase = h2
  Name = "name"
  Disk <- MCDisk
  Junk = Junk
  Bad = Bad
  Env <- MCEnv
  KubeDir <- MCKubeDir
  Uploads <- MCUploads
  MaxGen = 3
  MaxBuilt = 3
  None = None
CONSTRAINT Bound
SYMMETRY Symmetry
INVARIANTS
  CacheInv
  RowIsLatest
  
PROPERTIES
  RegistryKeeps
CHECK_DEADLOCK FALSE
