SPECIFICATION Spec
CONSTANTS
  Runs = {"p", "q"}
  Invocations <- MCInvocations
  Inputs <- MCInputs
  Paths <- MCPaths
  Nanos = {0, 1}
  None = None
  Partial = Partial
  process <- Apart
INVARIANTS
  OutputsAreWhole
  WorkspaceGoesOrStays
PROPERTIES
  OwnTranslation
  EveryRunEnds
CHECK_DEADLOCK FALSE
