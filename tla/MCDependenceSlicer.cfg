CONSTANTS
  N <- MCN
  Functions <- MCFunctions
  Requests <- MCRequests
SPECIFICATION Spec
INVARIANTS
  TypeOK
  GraphExact
  WalksExact
PROPERTIES
  ImplementsEnumeration
  Terminates
