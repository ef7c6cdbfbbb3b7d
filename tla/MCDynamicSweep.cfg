SPECIFICATION DynamicSpec
CONSTANTS
  Target = t
  URLs = {t, a}
  MaxFound = 2
  Configs <- MCConfigs
  MAX_ADDITIONAL_CRAWL_URLS = 1
  MAX_OPENAPI_URLS = 1
  MAX_FORMS_TO_PROBE = 1
  MAX_SSRF_URLS_TO_PROBE = 2
  MAX_DOM_XSS_URLS_TO_PROBE = 1
  progress_start = 10
  progress_end = 95
  Dialects = 4
  Extractable = {1, 2, 3}
  Delay = 10
  Samples = 3
  Timeout = 20
  Lo = 32
  Hi = 126
  Latencies = {1, 2}
  Stall = 20
  MaxStalls = 1
  Servers <- MCServers
  Rounds = 7
  Noise = 4
  MinDelta = 5
  Leaks = {0, 2, 6, 40}
  Loads = {0, 3, 50}
  MaxJumps = 1
  ParamLists <- MCParams
  Candidates <- MCCandidates
  SsrfParams = {"u", "v", "w"}
  Concurrency = 3
  MaxSuccesses = 1
  Pages = 3
  MAX_REFLECTION = 2
  Payloads = 2
  FloodPeers = {"f1", "f2"}
  StartUrl = "p0"
  Outside = {"x", "fx"}
  Sites <- MCSites
  MaxPages = 4
  MaxDepth = 2
  MaxForms = 3
  MaxChain = 2
  Calls = {"c1", "c2", "c3"}
  MaxExpiries = 3
INVARIANTS
  Released
  EveryProbeTried
  AuditExact
  EscalationIsReal
  LoadIsNoise
  SignalIsReal
  HoleIsFound
  ProbeIsReal
  CrawlIsNearestFirst
  SessionHeals
PROPERTIES
  FindingsGrow
  ProgressInWindow
  Ends
CHECK_DEADLOCK FALSE
