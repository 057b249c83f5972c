SPECIFICATION FairSpec
CONSTANTS
  Sessions = {s1, s2}
  Requests = {r1, r2}
  MaxAttempts = 3
  MaxPatches = 3
  MaxTrouble = 3
INVARIANTS NothingForgotten  BriefsBacked AttemptsCounted
 
CHECK_DEADLOCK FALSE
