CONSTANTS
  NullName <- MCNull
  SourceNames <- MCSources
  Diffs <- MCDiffs
SPECIFICATION Spec
INVARIANTS
  TypeOK
  WritesPIR
  CountsAgree
  TranslatedExactly
PROPERTIES
  Terminates
