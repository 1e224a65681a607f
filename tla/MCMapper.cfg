CONSTANTS
  Units <- MCUnits
  Chapters <- MapperChapters
  Modules <- MCModules
  Strips <- MCStrips
  Targets <- MCTargets
  Rank <- MCRank
  Initial <- MCInitial
  MaxCalls <- MCMaxCalls
  LoopLists <- MCLoopLists
  Scopes <- MCScopes
SPECIFICATION MapperSpec
INVARIANTS
  TypeOK
  CollectedExactly
  IndexTypeOK
  RegionHandedOver
  LoopFound
PROPERTIES
  Terminates
