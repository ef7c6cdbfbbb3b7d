SPECIFICATION OutcomeSpec
CONSTANTS
  Studied <- AllStrategies
  MaxTargets = 2
  MaxFindings = 2
  Scans = {s1}
  Streams = {c1}
  MaxLogs = 5
INVARIANTS
  PassIsEarned
  AnswerNeverClears
  ReproducedFails
  LogsInOrder
  ClosedWithWholeLog
PROPERTIES
  StreamsEnd
CHECK_DEADLOCK FALSE
