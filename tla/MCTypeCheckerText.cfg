SPECIFICATION Spec
CONSTANTS
  Declared <- Names
  Undeclared = {"u"}
  Letters = {1}
  Texts = {0, 1}
  Places <- Everywhere
  Levels = 4
  MaxNodes = 4
  IntMax = 1
  Sampled = {"Add", "Less", "And"}
INVARIANT
  TextFillsOnlyCharArrays
CHECK_DEADLOCK FALSE
