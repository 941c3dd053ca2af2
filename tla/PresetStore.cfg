SPECIFICATION Spec
CONSTANTS
  Endless = 1000000
  PerBlock = 5
  Blocks = 2
  Touched = {6}
  Inputs <- MCInputs
  NewValues <- MCNewValues
  Harmed <- MCHarmed
  MaxChanges = 2
INVARIANTS
  TypeOK
  StoresNearest
  ModifySettles
  OnlyWrittenIsRead
PROPERTIES
  FieldsApart
  RewriteIsStable
