SPECIFICATION OutcomeSpec
CONSTANTS
  Studied <- Static
  MaxTargets = 2
  MaxFindings = 2
  Scans = {s1}
  Streams = {c1}
  MaxLogs = 5
INVARIANT FailNeverPasses
CHECK_DEADLOCK FALSE
