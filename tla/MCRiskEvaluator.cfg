CONSTANTS
  Functions <- MCFunctions
  Modules <- MCModules
  Depths <- MCDepths
  Levels <- MCLevels
  CallerHot <- MCCallerHot
  LoopCountTight <- MCLoopCountTight
  InstExp <- MCInstExp
SPECIFICATION Spec
INVARIANTS
  TypeOK
  ProfileExact
  HotExactly
  StatsExact
PROPERTIES
  Terminates
