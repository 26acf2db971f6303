SPECIFICATION Spec
CONSTANTS
  Fixes <- MCFixes
  Burst <- MCBurst
  Capacity = 4
  MaxAttempts = 4
  MaxSleep = 2
  AgeLimit = 8
  RawFirst = TRUE
PROPERTY PublishedIsReceived
