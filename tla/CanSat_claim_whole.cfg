SPECIFICATION Spec
CONSTANTS
  Fixes <- MCFixesFar
  Target <- MCTargetUnset
  FlyTimeout = 20
  CalibrateRetry = 10
  StuckRetryMax = 10
  GpsStanbyMaxRetry = 5
  ReceiverBuilt = FALSE
  ReceiverReadsPin = FALSE
INVARIANT StuckReadsAreWhole
