SPECIFICATION Spec
CONSTANTS
  Agents = {a1, a2}
  Everyone = Everyone
  Asks <- MCAsks
  Narrowings <- MCNarrowings
  Reqs = {q1, q2}
  Handlers = {h1, h2}
  Revokers = {v1}
  Expiries <- MCExpiries
  Never = Never
  TrustAny = TrustAny
  MaxTime = 2
  MaxUpsets = 1
  Nil = Nil
CONSTRAINT Bound
SYMMETRY Symmetry
INVARIANTS
  GrantWithinApproval
  
  
  ApprovedUntil
CHECK_DEADLOCK FALSE
