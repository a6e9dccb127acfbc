SPECIFICATION Spec
CONSTANTS
  Globs <- MCGlobs
  StarGlobs <- MCStarGlobs
  Decoded <- MCDecoded
  Pieces <- MCPieces
  Malformed <- MCMalformed
  NumberOf <- MCNumberOf
  DateTexts <- MCDates
  UpperOf <- MCUpperOf
  Upstreams <- MCUpstreams
  Templates <- MCTemplates
  NoJSON = NoJSON
  Unreadable = Unreadable
  Empty = ""
  Wild = "*"
  Never = Never
  NoBound = NoBound
  Absent = Absent
  Expiries <- MCExpiries
  RuleIds = {i1}
  Catalog <- GrowCatalog
  Requests <- NoRequests
  Updates = {w1, w2}
  UpdateOps = {"add"}
  Values = {"2", "3"}
  MaxTime = 0
INVARIANTS
  AddedValueStays
CHECK_DEADLOCK FALSE
