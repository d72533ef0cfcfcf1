SPECIFICATION Spec
CONSTANTS
  Names <- TwoNames
  MaxSymbols = 4
  MaxNesting = 2
INVARIANTS
  SlotsAreTheFrames
  BindingsStayTrue
PROPERTIES
  ImplementsEnvironment
