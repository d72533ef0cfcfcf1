SPECIFICATION Spec
CONSTANTS
  Inputs <- DeepLeftOperand
  MaxDepth = 32
INVARIANT
  TreeStaysWithinTheLimit
