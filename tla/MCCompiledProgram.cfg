SPECIFICATION Spec
CONSTANTS
  Programs <- AllPrograms
  Images <- Compiled
  Meanings <- Interpreted
  Garbage = {170}
  MemoryBytes = 768
  Reach <- SmallReach
  AddReach = 100
  PairReach = 64
INVARIANTS
  AgreesWithC
  ReturnsToCaller
  EveryInstructionExecutes
  StoresStayInObjects
PROPERTIES
  Terminates
CHECK_DEADLOCK FALSE
