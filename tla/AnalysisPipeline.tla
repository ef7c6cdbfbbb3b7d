-------------------------- MODULE AnalysisPipeline --------------------------
(***************************************************************************)
(* SemanticPipeline: the stages of one static analysis, what a failed      *)
(* stage costs, and how the slices of path discovery and of the rules      *)
(* become the findings of the result.                                      *)
(***************************************************************************)
EXTENDS Integers, Sequences, FiniteSets, SequencesExt, Selection

CONSTANTS
  Rules,          \* rule -> [controls, polarity], the query store
  RuleOrder,      \* its rules, in the order they run
  SortedRules,    \* its rules, in alphabetical order
  SinkLabels,     \* sink label -> its normalized sink (_normalize_sink)
  Strengths,      \* of the classifier's verdicts, in Nat
  Analyses        \* [kind : "code" | "repository", discovered : sequence of slices, answers : rule -> sequence]

(***************************************************************************)
(* A slice: [rule, file, from, to, sink, len].  A rule absent from Rules   *)
(* is PATH_DISCOVERY.                                                      *)
(***************************************************************************)
ASSUME PipelineAssumption ==
  /\ {RuleOrder, SortedRules} \subseteq Seq(DOMAIN Rules) /\ Strengths \subseteq Nat
  /\ Range(RuleOrder) = DOMAIN Rules /\ Range(SortedRules) = DOMAIN Rules

\* A slice starts no later than it ends: the lines are the least and the greatest
\* of its nodes, or one line twice (path_discovery.py:510, executor.py:317, 820).
ASSUME SliceAssumption ==
  \A a \in Analyses :
    /\ DOMAIN a.answers = DOMAIN Rules
    /\ \A slices \in {a.discovered} \cup Range(a.answers) :
         /\ slices \in Seq(Range(slices))
         /\ \A s \in Range(slices) : {s.from, s.to, s.len} \subseteq Nat /\ s.from <= s.to

VARIABLES
  an,             \* the analysis: what its searches will find
  anStage,        \* the stage about to run, "done" or "failed"
  anQueries,      \* the rules left to execute
  anFound,        \* discovery slices until the filter, then all the slices
  anQueried,      \* query slices
  anClassified,   \* [slice, strength, confidence, severity], the classifier's vulnerabilities
  anReports,      \* the formatted findings
  anConfig, anCapabilities, anDependencies \* "none" | "kept", the other result lists

anVars == <<an, anStage, anQueries, anFound, anQueried, anClassified, anReports, anConfig, anCapabilities, anDependencies>>

AnInit ==
  /\ an \in Analyses
  /\ anStage = "graph" /\ anQueries = RuleOrder
  /\ anFound = <<>> /\ anQueried = <<>> /\ anClassified = <<>> /\ anReports = <<>>
  /\ anConfig = "none" /\ anCapabilities = "none" /\ anDependencies = "none"

-----------------------------------------------------------------------------
(***************************************************************************)
(* Which slices are one finding.                                           *)
(***************************************************************************)
SameFinding(a, b) ==
  /\ a.file = b.file
  /\ a.from <= b.to /\ b.from <= a.to
  /\ SinkLabels[a.sink] = SinkLabels[b.sink]

\* The union-find of _cluster_by_same_finding: parent is a function on indices.
Root(parent, i) ==
  LET up[k \in 0..Len(parent)] == IF k = 0 THEN i ELSE parent[up[k - 1]]
  IN  up[Len(parent)]

Union(parent, i, j) == [parent EXCEPT ![Root(parent, i)] = Root(parent, j)]

\* The pairs of a finding with the later ones, then of each finding in turn.
Row(items, parent, i) ==
  LET row[j \in 0..Len(items)] ==
        IF j = 0 THEN parent
        ELSE IF i < j /\ SameFinding(items[i].slice, items[j].slice) THEN Union(row[j - 1], i, j) ELSE row[j - 1]
  IN  row[Len(items)]

Parents(items) ==
  LET rows[i \in 0..Len(items)] ==
        IF i = 0 THEN [j \in DOMAIN items |-> j] ELSE Row(items, rows[i - 1], i)
  IN  rows[Len(items)]

Clusters(items) ==
  LET parent == Parents(items)
  IN  {{i \in DOMAIN items : Root(parent, i) = r} : r \in {Root(parent, i) : i \in DOMAIN items}}

\* rank of _dedupe_vulnerabilities; every finding here has a snippet.
Stronger(v, w) ==
  LET rank(x) == <<x.strength, x.confidence, x.severity, -x.slice.len>>
  IN  \E i \in 1..4 : rank(v)[i] > rank(w)[i] /\ \A j \in 1..i - 1 : rank(v)[j] = rank(w)[j]

\* max keeps the first of the strongest.
Primary(cluster, items) ==
  CHOOSE i \in cluster : \A j \in cluster : ~Stronger(items[j], items[i]) /\ (j < i => Stronger(items[i], items[j]))

Cataloged(rules) == rules \cap DOMAIN Rules

\* _dedupe_vulnerabilities keeps the primary with the other rules of its cluster,
\* sorted, and _format_vulnerability looks the rules of [own] + others up: the
\* first in the catalog gives the polarity, and the rest are listed.  When the
\* primary is PATH_DISCOVERY, the first is neither the report's rule nor listed.
Report(cluster, items) ==
  LET primary == Primary(cluster, items)
      own     == items[primary].slice.rule
      rules   == Cataloged({items[i].slice.rule : i \in cluster})
      first   == IF own \in rules THEN own
                 ELSE CHOOSE r \in rules : \E i \in DOMAIN SortedRules :
                        SortedRules[i] = r /\ \A j \in 1..i - 1 : SortedRules[j] \notin rules
  IN  [primary |-> primary, rule |-> own, contributing |-> {r \in rules : r # first},
       controls |-> UNION {Rules[r].controls : r \in rules},
       polarity |-> IF rules = {} THEN "vulnerable" ELSE Rules[first].polarity,
       triage |-> rules = {}]

-----------------------------------------------------------------------------
(***************************************************************************)
(* The stages.                                                             *)
(***************************************************************************)
\* A graph, or none, an empty one or one that is too large: the analysis ends.
BuildGraph ==
  /\ anStage = "graph" /\ anStage' \in {"discover", "failed"}
  /\ UNCHANGED <<an, anQueries, anFound, anQueried, anClassified, anReports, anConfig, anCapabilities, anDependencies>>

DiscoverPaths ==
  /\ anStage = "discover" /\ anStage' = "queries"
  /\ anFound' = an.discovered
  /\ UNCHANGED <<an, anQueries, anQueried, anClassified, anReports, anConfig, anCapabilities, anDependencies>>

\* A query that times out or raises is skipped.
ExecuteQuery ==
  /\ anStage = "queries" /\ anQueries # <<>>
  /\ anQueried' \in {anQueried, anQueried \o an.answers[Head(anQueries)]}
  /\ anQueries' = Tail(anQueries)
  /\ UNCHANGED <<an, anStage, anFound, anClassified, anReports, anConfig, anCapabilities, anDependencies>>

\* _filter_discovery_slices: a slice its own rule's query found again is dropped.
\* Mutant: a slice any rule found again is dropped.
Redetected_any(s) == \E i \in DOMAIN anQueried : SameFinding(s, anQueried[i])
Redetected(s) == \E i \in DOMAIN anQueried : anQueried[i].rule = s.rule /\ SameFinding(s, anQueried[i])

FilterSlices ==
  /\ anStage = "queries" /\ anQueries = <<>> /\ anStage' = "classify"
  /\ anFound' = Not(anFound, {s \in Range(anFound) : Redetected(s)}) \o anQueried
  /\ UNCHANGED <<an, anQueries, anQueried, anClassified, anReports, anConfig, anCapabilities, anDependencies>>

\* The classifier grades each slice and drops some (ClassifierWorkers is how).
ClassifySlices ==
  /\ anStage = "classify" /\ anStage' = "report"
  /\ \E grade \in [DOMAIN anFound -> Strengths \cup {-1}] :
       LET graded == [i \in DOMAIN anFound |-> [slice |-> anFound[i], strength |-> grade[i], confidence |-> 1, severity |-> 1]]
       IN  anClassified' = Not(graded, {v \in Range(graded) : v.strength < 0})
  /\ UNCHANGED <<an, anQueries, anFound, anQueried, anReports, anConfig, anCapabilities, anDependencies>>

ReportFindings ==
  /\ anStage = "report"
  /\ anStage' = IF an.kind = "code" THEN "done" ELSE "config"
  /\ anReports' = SetToSeq({Report(c, anClassified) : c \in Clusters(anClassified)})
  /\ UNCHANGED <<an, anQueries, anFound, anQueried, anClassified, anConfig, anCapabilities, anDependencies>>

\* The three inspections of a repository.  Only the last two contain a failure.
InspectConfig ==
  /\ anStage = "config" /\ anStage' = "capabilities" /\ anConfig' = "kept"
  /\ UNCHANGED <<an, anQueries, anFound, anQueried, anClassified, anReports, anCapabilities, anDependencies>>

CheckCapabilities ==
  /\ anStage = "capabilities" /\ anStage' = "dependencies" /\ anCapabilities' \in {"none", "kept"}
  /\ UNCHANGED <<an, anQueries, anFound, anQueried, anClassified, anReports, anConfig, anDependencies>>

ScanDependencies ==
  /\ anStage = "dependencies" /\ anStage' = "done" /\ anDependencies' \in {"none", "kept"}
  /\ UNCHANGED <<an, anQueries, anFound, anQueried, anClassified, anReports, anConfig, anCapabilities>>

\* An exception of any other stage: the result is an error result, without findings.
StageRaises ==
  /\ anStage \in {"graph", "discover", "classify", "report", "config"}
  /\ anStage' = "failed" /\ anReports' = <<>> /\ anConfig' = "none"
  /\ UNCHANGED <<an, anQueries, anFound, anQueried, anClassified, anCapabilities, anDependencies>>

AnNext ==
  \/ BuildGraph \/ DiscoverPaths \/ ExecuteQuery \/ FilterSlices \/ ClassifySlices
  \/ ReportFindings \/ InspectConfig \/ CheckCapabilities \/ ScanDependencies \/ StageRaises

AnSpec == AnInit /\ [][AnNext]_anVars

-----------------------------------------------------------------------------
\* The findings that chains of pairwise sameness link to finding i: the least
\* set that has it and, with a finding, those that are the same.
Closed(set) == \A h \in set, j \in DOMAIN anClassified :
                  SameFinding(anClassified[h].slice, anClassified[j].slice) => j \in set
Linked(i)   == {j \in DOMAIN anClassified : \A set \in SUBSET DOMAIN anClassified : i \in set /\ Closed(set) => j \in set}

\* The rules a report names: its own, and those it lists as contributing.
NamedIn(report) == {report.rule} \cup report.contributing

(***************************************************************************)
(* pipeline.py:724-774: removing duplicates drops no signal.  Every        *)
(* confirmed finding is in exactly one report, with all the controls of    *)
(* its rule, under a primary no weaker than it; and a slice that path      *)
(* discovery found is classified unless its own rule's query found it      *)
(* again, whatever failed meanwhile.  The report also names the finding's  *)
(* rule, with one exception: under a primary that is in no catalog, the    *)
(* rule that gives the report its polarity is not named (962-964 list the  *)
(* rules after the first), and it is the only one.                         *)
(***************************************************************************)
NoFindingLost ==
  /\ anStage = "done" => \A i \in DOMAIN anClassified :
       LET rule(j) == anClassified[j].slice.rule
           reports == {r \in DOMAIN anReports : anReports[r].primary \in Linked(i)}
       IN  /\ Cardinality(reports) = 1
           /\ \A r \in reports :
                LET unnamed == DOMAIN Rules \ NamedIn(anReports[r])
                IN  /\ ~Stronger(anClassified[i], anClassified[anReports[r].primary])
                    /\ rule(i) \in DOMAIN Rules => Rules[rule(i)].controls \subseteq anReports[r].controls
                    /\ rule(i) \in unnamed =>
                         /\ anReports[r].rule \notin DOMAIN Rules /\ anReports[r].polarity = Rules[rule(i)].polarity
                         /\ \A j \in Linked(i) : rule(j) \in unnamed => rule(j) = rule(i)
                    /\ anReports[r].triage <=> \A j \in Linked(i) : rule(j) \notin DOMAIN Rules
  /\ anStage = "classify" => \A k \in DOMAIN an.discovered :
       \E j \in DOMAIN anFound : anFound[j].rule = an.discovered[k].rule /\ SameFinding(anFound[j], an.discovered[k])

(***************************************************************************)
(* asvs_service.py:8-9 says a "vulnerable"-polarity finding of a control's *)
(* rule makes it fail and a "compliant" one makes it pass.  The polarity   *)
(* of a report is that of its primary alone (pipeline.py:958), also for    *)
(* the controls of the findings folded into it.                            *)
(***************************************************************************)
PolarityKept ==
  anStage = "done" => \A i \in DOMAIN anClassified :
    anClassified[i].slice.rule \in DOMAIN Rules =>
      LET rule == Rules[anClassified[i].slice.rule]
      IN  rule.polarity = "vulnerable" => \A c \in rule.controls :
            \E r \in DOMAIN anReports : c \in anReports[r].controls /\ anReports[r].polarity = "vulnerable"
=============================================================================
