\* One request that announces a build before it plates it.
CONSTANTS
  Questions = {q1}
  q1 = q1
  None = None
  CAP = 3
  MaxRuns = 1
  MaxStops = 0
  MaxMishaps = 0
SPECIFICATION Spec
INVARIANT
  StopWhileInFlight
