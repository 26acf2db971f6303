SPECIFICATION Spec
CONSTANTS
  DetectTries = 2
  Headings <- MCHeadings
INVARIANTS TypeOK ReadyFuses TurnAsInRun PositiveNeverStops StopsMirrored
PROPERTY InitEnds
