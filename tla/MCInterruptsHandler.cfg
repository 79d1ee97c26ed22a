CONSTANTS
  Lines <- MCLines
  Faults <- MCFaults
  Words <- MCWords
SPECIFICATION Spec
CHECK_DEADLOCK FALSE
INVARIANT HandlerOfLineRuns
