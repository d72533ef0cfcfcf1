CONSTANTS
  Programs <- SomeCalls
  UIntMax = 255
  BufferSize = 4
  Power <- PowersOfTen
SPECIFICATION Spec
INVARIANTS
  DigitsFitTheBuffer
  EveryByteOnceInOrder
PROPERTIES
  EveryCallReturns
CHECK_DEADLOCK FALSE
