CONSTANTS
  Sources <- Files
  IntMax = 127
  SumMax = 1023
SPECIFICATION Spec
INVARIANTS
  TokensAreLongestMatches
  LiteralsKeepTheirValue
  DefectsAreReported
  CaretsPointIntoTheirLine
CHECK_DEADLOCK FALSE
