SPECIFICATION StaticSpec
CONSTANTS
  N = 4
  MaxLlmCalls = 3
  Workers = {w1, w2}
  Models <- MCModels
  ProviderOf <- MCProviderOf
  CodeGraphs <- MCGraphs
  Jobs <- MCJobs
  MaxDepth = 5
  MaxHops = 2
  MaxPaths = 3
  MaxOps = 8
  Threshold = 35
  Rules <- MCRules
  RuleOrder <- MCRuleOrder
  SortedRules <- MCSortedRules
  SinkLabels <- MCSinkLabels
  Strengths = {1, 2}
  Analyses <- MCAnalyses
  Scans = {s1, s2}
  Manifests <- MCManifests
  Known <- MCKnown
  Cves = {"v1", "v2", "v3"}
  MaxPackages = 2
  MaxConcurrent = 1
  MaxLookups = 2
  MaxCrashes = 1
  Repositories <- MCRepositories
  Texts <- MCTexts
  RelativeImports <- MCRelativeImports
  SuffixMatches <- MCSuffixMatches
  ParseThreads = 2
  MaxEntries = 2
INVARIANT UnreachableIsUntested
CHECK_DEADLOCK FALSE
