CONSTANTS
  Units <- TwoFunctions
  Chapters <- MCChapters
SPECIFICATION Spec
INVARIANT EveryFunctionComplete
