CONSTANT
  ModulePairs <- MCModulePairs
SPECIFICATION Spec
INVARIANTS
  TypeOK
  ComparedExactly
PROPERTIES
  Terminates
