SPECIFICATION FairSpec
CONSTANTS
  Tabs = {t1}
  Jobs = {j1, j2}
  LockTTL = 2
  RoomViewLags = TRUE
  MaxTrouble = 2
INVARIANTS
  TwoVoicesNeedAHole
PROPERTIES
  
  FirstVoiceArrives
CHECK_DEADLOCK FALSE
