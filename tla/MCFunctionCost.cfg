CONSTANTS
  Targets <- MCTargets
  Functions <- MCFunctions
SPECIFICATION Spec
INVARIANTS
  TypeOK
  CostExact
  CostFollowsWidth
PROPERTIES
  SettledFinal
  Terminates
