SPECIFICATION Spec
CONSTANTS
  Runs = {r1, r2}
  Cases = 2
  LockTicks = 2
  MaxErases = 2
  MaxTroubles = 2
SYMMETRY RunSymmetry
INVARIANTS
  OneRunUnlessExpired
  EraseCleans
  PointersKept
CHECK_DEADLOCK FALSE
