SPECIFICATION Spec
CONSTANTS
  Agents <- TwoAgents
  Everyone = "everyone"
  Shapes <- MCShapes
  RuleBodies <- MCRuleBodies
  MaxRules = 2
  MaxVersion = 2
  Calls = {c1, c2}
  Gone = Gone
  NoRule = NoRule
CONSTRAINT Bound
SYMMETRY Symmetry
INVARIANTS
  SentOnlyIfPermitted
  
  CredentialStaysWithAddress
  RulesInv
  PlainEndsRecorded
CHECK_DEADLOCK FALSE
