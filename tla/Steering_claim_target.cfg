SPECIFICATION Spec
CONSTANTS
  DetectTries = 2
  Headings <- MCHeadings
INVARIANT StopFacesTarget
