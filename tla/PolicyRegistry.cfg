SPECIFICATION Spec
CONSTANTS
  Globs <- MCGlobs
  StarGlobs <- MCStarGlobs
  Decoded <- MCDecoded
  Pieces <- MCPieces
  Malformed <- MCMalformed
  NumberOf <- MCNumberOf
  DateTexts <- MCDates
  UpperOf <- MCUpperOf
  Upstreams <- MCUpstreams
  Templates <- MCTemplates
  NoJSON = NoJSON
  Unreadable = Unreadable
  Empty = ""
  Wild = "*"
  Never = Never
  NoBound = NoBound
  Absent = Absent
  Expiries <- MCExpiries
  RuleIds = {i1, i2}
  Catalog <- MCCatalog
  Requests <- MCRequests
  Updates = {w1}
  UpdateOps = {"add", "any", "set"}
  Values = {"2"}
  MaxTime = 2
SYMMETRY Symmetry
INVARIANTS
  
  MostRestrictiveWins
  NarrowedToGrants
  
PROPERTIES
  DeletedStaysDeleted
CHECK_DEADLOCK FALSE
