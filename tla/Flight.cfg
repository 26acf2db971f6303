SPECIFICATION FlightSpec
CONSTANTS
  Fixes <- MCFixes
  Target <- MCTarget
  FlyTimeout = 3
  CalibrateRetry = 1
  StuckRetryMax = 0
  GpsStanbyMaxRetry = 1
  ReceiverBuilt = TRUE
  ReceiverReadsPin = FALSE
  MaxReboots = 1
INVARIANTS FlightTypeOK StartsInStandby GoalNeedsReceiver
PROPERTIES PanicLeavesAllOff MissionBetweenResets RestartResumes
