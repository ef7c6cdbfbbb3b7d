SPECIFICATION OutcomeSpec
CONSTANTS
  Studied <- Static
  MaxTargets = 2
  MaxFindings = 2
  Scans = {s1}
  Streams = {c1}
  MaxLogs = 5
INVARIANT PassMeansSearched
CHECK_DEADLOCK FALSE
