CONSTANTS
  Files <- WellFormedFiles
  Drivers <- OnlyPerfScope
SPECIFICATION Spec
INVARIANT NextPatchIsRead
