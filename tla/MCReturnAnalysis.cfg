CONSTANTS
    MAX_NESTING_DEPTH = 8
    Statements <- MCStatements
    Bodies <- MCBodies
SPECIFICATION Spec
INVARIANTS
  NoSilentFall
  LeavesALoop
CHECK_DEADLOCK FALSE
