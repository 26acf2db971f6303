SPECIFICATION Spec
CONSTANTS
  Fixes <- MCFixesGoal
  Target <- MCTargetAtA
  FlyTimeout = 3
  CalibrateRetry = 2
  StuckRetryMax = 1
  GpsStanbyMaxRetry = 1
  ReceiverBuilt = TRUE
  ReceiverReadsPin = TRUE
PROPERTY ArrivalIsAtGoal
