SPECIFICATION Spec
CONSTANTS
  MaxScopes = 20
  MaxGState = 3
  MaxPages = 2
  MaxOpens = 2
  Outputs = {"caller", "lib", "buffer", "user"}
  ClientRules = {}
INVARIANTS
  TypeOK
  ScopeNesting
  StackDepth
  PageOpenAgrees
PROPERTIES
  DeleteClosesWhenItCan
CHECK_DEADLOCK FALSE
