CONSTANTS
  N <- MCN
  Functions <- MCFunctions
  Requests <- MCRequests
SPECIFICATION Spec
INVARIANTS
  AllDepExhausted
