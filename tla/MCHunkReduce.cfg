CONSTANTS
  Hunks <- MCHunks
  UintMax <- MCUintMax
SPECIFICATION Spec
INVARIANTS
  TypeOK
  AssertsHold
  CursorsExact
  ModsExact
PROPERTIES
  Terminates
  ImplementsEditScript
