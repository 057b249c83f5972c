SPECIFICATION ScoringSpec
CONSTANTS
  Absent = Absent
  coding = coding
  speech = speech
  e1 = e1
  e2 = e2
  f1 = f1
  NRounds = 2
  Competencies = {coding, speech}
  Marks = {2, 3, 5}
  Events <- MCEvents
  PlanWeight <- MCPlanWeight
  RoleWeight <- MCRoleWeight
  RoundWeight <- MCRoundWeight
  Hire = 36
  Band = 3
INVARIANTS
  ClaimsCited
  
  RollupIsMean
CHECK_DEADLOCK FALSE
