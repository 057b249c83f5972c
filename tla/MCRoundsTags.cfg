SPECIFICATION RoundsSpec
CONSTANTS
  n1 = n1
  n2 = n2
  ex = ex
  Numbers = {n1, n2}
  Plan <- MCTags
INVARIANTS
  AskedUntilTagged
CHECK_DEADLOCK FALSE
