\* Two requests, one Stop, and one mishap: a refused message, a panic or a reset.
CONSTANTS
  Questions = {q1}
  q1 = q1
  None = None
  CAP = 3
  MaxRuns = 2
  MaxStops = 1
  MaxMishaps = 1
SPECIFICATION FairSpec
INVARIANTS
  TypeOK
  RunsToldApart
  WaitsForSomeone
  SavedOrDirty
PROPERTIES
  MessagesSurvive
  WaitingEnds
