SPECIFICATION RoundsSpec
CONSTANTS
  n1 = n1
  n2 = n2
  ex = ex
  Numbers = {n1, n2}
  Plan <- MCPlan
INVARIANTS
  MathEarned
PROPERTIES
  PhasesForward
CHECK_DEADLOCK FALSE
