SPECIFICATION Spec
CONSTANTS
  Inputs <- Streams
  MaxDepth = 6
INVARIANTS
  LevelsAreGivenBack
  BlocksCloseAtTheirBrace
  AcceptsTheGrammar
  TreesFollowPrecedence
PROPERTIES
  Terminates
