SPECIFICATION Spec
CONSTANTS
  Declared <- Names
  Undeclared = {"u"}
  Letters = {1}
  Texts = {0, 1}
  Places <- Everywhere
  Levels = 4
  MaxNodes = 4
  IntMax = 3
  Sampled = {"Add", "Less", "And"}
INVARIANTS
  AcceptedIsWellTyped
  ConversionsMeetTheirUse
  RecoveryStaysSilent
  ReportsInSourceOrder
  FoldsAsCDoes
CHECK_DEADLOCK FALSE
