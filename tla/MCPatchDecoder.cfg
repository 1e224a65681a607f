CONSTANTS
  Files <- MCFiles
  Drivers <- AllDrivers
SPECIFICATION Spec
INVARIANTS
  TypeOK
  PushBackSound
  HunksInOrder
  NothingLost
PROPERTIES
  Terminates
