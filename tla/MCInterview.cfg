SPECIFICATION FairSpec
CONSTANTS
  Plan <- TwoRounds
  HintGap = 1
  NudgeSilence = 1
  MaxNudges = 1
  NoRound = "none"
  Ended = "ENDED"
  ReplayLimit = 100
  MaxNow = 3
  Slack = 0
  MaxInputs = 2
  MaxFail = 1
  MaxCrash = 1
    
PROPERTY EndsUndisturbed
CHECK_DEADLOCK FALSE
