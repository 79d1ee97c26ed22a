CONSTANTS
  Lines <- MCLines
  Faults <- MCFaults
  Words <- MCWords
SPECIFICATION Spec
CHECK_DEADLOCK FALSE
INVARIANTS GateReady ContextRestored MasterReleased
PROPERTY TimerServed
