SPECIFICATION FairEditorSpec
CONSTANTS
  Panes = {t1}
  MaxMounts = 2
  MaxEdits = 2
  MaxLen = 1
  MaxFlight = 2
  MaxFaults = 1

  
PROPERTIES
  SettledReplay
  
CHECK_DEADLOCK FALSE
