SPECIFICATION Spec
CONSTANTS
  Programs <- CharInitializesInt
  Images <- Compiled
  Meanings <- Interpreted
  Garbage = {170}
  MemoryBytes = 256
  Reach <- RealReach
  AddReach = 4095
  PairReach = 504
INVARIANT
  CharIsWidenedToInt
CHECK_DEADLOCK FALSE
