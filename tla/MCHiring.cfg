SPECIFICATION FairSpec
CONSTANTS
  Requests = {r1, r2}
  Pipelines <- PlanOrPipeline
  MaxReschedules = 1
  MaxSessions = 2
  MaxEdits = 3
INVARIANTS
  RoundOnce
  
  GatesHeld
PROPERTIES
  OutcomeIsFinal
  PipelineSettles
CHECK_DEADLOCK FALSE
