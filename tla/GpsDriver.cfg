SPECIFICATION Spec
CONSTANTS
  Fixes <- MCFixes
  Burst <- MCBurst
  Capacity = 3
  MaxAttempts = 4
  MaxSleep = 2
  AgeLimit = 7
  RawFirst = FALSE
INVARIANTS TypeOK Fresh
PROPERTIES ImplementsGps NeverBackward FixesKeepComing
