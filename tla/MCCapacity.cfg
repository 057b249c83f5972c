SPECIFICATION Spec
CONSTANTS
  Requests = {r1, r2}
  Candidacies = {c1, c2, c3}
  Cap = 2
  SlotLength = 2
  Cutoff = 1
  MaxReschedules = 1
  DemoLimit = 2
  MaxTime = 3
SYMMETRY RequestsAndCandidacies
INVARIANTS
  CapHolds
  
CHECK_DEADLOCK FALSE
