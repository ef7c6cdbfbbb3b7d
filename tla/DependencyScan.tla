--------------------------- MODULE DependencyScan ---------------------------
(***************************************************************************)
(* Control V15.2.1: dependency_scanner asks OSV.dev about every pinned     *)
(* package, nvd_client looks up the CVEs it names, one after the other,    *)
(* and the pipeline gives each of the two a time limit.  Several scans     *)
(* run at once in one process; they share the cache of NVD's answers,      *)
(* which is rewritten to a file that survives the process.  Reading and    *)
(* writing the file may fail, and the process may crash.                   *)
(***************************************************************************)
EXTENDS Integers, Sequences, FiniteSets

CONSTANTS
  Scans,          \* the repository scans that are ever started, in any process
  Manifests,      \* the possible repositories: sets of [kind, package]
  Known,          \* package -> the set of [cves, breached] OSV has for it
  Cves,           \* all the CVE ids
  MaxPackages, MaxConcurrent, MaxLookups, \* the code's limits
  MaxCrashes

NoAnswer == "none"

\* The first six are functions on Scans.
VARIABLES
  depStage,       \* "new" | "osv" | "nvd" | "verdict" | "over"
  depAsked,       \* package -> "waiting" | "asked" | "answered" | "failed"
  depTodo,        \* the CVEs left to look up
  depLooking,     \* the CVE whose request is out, or NoAnswer
  depVerdict,     \* of V15.2.1; NoAnswer is left not_tested
  depFindings,
  depCrashes,
  nvdCache,       \* _cache, in memory: the CVEs it has an answer for, details or a 404
  nvdLoaded,      \* _disk_cache_loaded
  nvdFile,        \* those of cve_cache.json; a torn file loads as an empty one
  nvdAnswered,    \* history: the CVEs NVD answered, but for the answers lost since
  nvdKept         \* history: those of them the last write put in the file

scanVars == <<depStage, depAsked, depTodo, depLooking, depVerdict, depFindings>>
nvdVars  == <<nvdCache, nvdLoaded, nvdFile, nvdAnswered, nvdKept>>
depVars  == <<scanVars, depCrashes, nvdVars>>

NoPackages == [p \in {} |-> NoAnswer]

DepInit ==
  /\ depStage = [s \in Scans |-> "new"] /\ depAsked = [s \in Scans |-> NoPackages]
  /\ depTodo = [s \in Scans |-> <<>>] /\ depLooking = [s \in Scans |-> NoAnswer]
  /\ depFindings = [s \in Scans |-> {}]
  /\ depVerdict = [s \in Scans |-> NoAnswer] /\ depCrashes = 0
  /\ nvdCache = {} /\ nvdLoaded = FALSE /\ nvdFile = {}
  /\ nvdAnswered = {} /\ nvdKept = {}

-----------------------------------------------------------------------------
(***************************************************************************)
(* parse_manifests and query_osv.                                          *)
(***************************************************************************)
\* A lock file anywhere replaces the ranges of every package.json.
Pinned(manifest) ==
  {m.package : m \in {e \in manifest : e.kind = "package.json" => \A o \in manifest : o.kind # "package-lock.json"}}

Goes(s, stage) == depStage' = [depStage EXCEPT ![s] = stage]

\* Without any manifest there is nothing to ask, and no verdict.
StartScan(s) ==
  /\ depStage[s] = "new"
  /\ \E manifest \in Manifests : \E packages \in SUBSET Pinned(manifest) :
       /\ Cardinality(packages) = (IF Cardinality(Pinned(manifest)) > MaxPackages THEN MaxPackages ELSE Cardinality(Pinned(manifest)))
       /\ depAsked' = [depAsked EXCEPT ![s] = [p \in packages |-> "waiting"]]
       /\ Goes(s, IF manifest = {} THEN "over" ELSE "osv")
  /\ UNCHANGED <<depTodo, depLooking, depVerdict, depFindings, depCrashes, nvdVars>>

With(s, status) == {p \in DOMAIN depAsked[s] : depAsked[s][p] = status}

\* MAX_CONCURRENT_QUERIES bounds the queries of one scan, not of the process.
AskOsv(s, p) ==
  /\ depStage[s] = "osv" /\ depAsked[s][p] = "waiting" /\ Cardinality(With(s, "asked")) < MaxConcurrent
  /\ depAsked' = [depAsked EXCEPT ![s][p] = "asked"]
  /\ UNCHANGED <<depStage, depTodo, depLooking, depVerdict, depFindings, depCrashes, nvdVars>>

\* Any exception of one query, its own timeout included, makes an empty answer.
OsvReply(s, p) ==
  /\ depStage[s] = "osv" /\ depAsked[s][p] = "asked"
  /\ \E status \in {"answered", "failed"} : depAsked' = [depAsked EXCEPT ![s][p] = status]
  /\ UNCHANGED <<depStage, depTodo, depLooking, depVerdict, depFindings, depCrashes, nvdVars>>

Found(s) == UNION {{[package |-> p, vuln |-> v] : v \in Known[p]} : p \in With(s, "answered")}
CvesOf(findings) == UNION {f.vuln.cves : f \in findings}

\* The ids in some order without repetition, the first of them only.
Batch(todo, ids) ==
  /\ Len(todo) = (IF Cardinality(ids) < MaxLookups THEN Cardinality(ids) ELSE MaxLookups)
  /\ {todo[i] : i \in DOMAIN todo} \subseteq ids
  /\ \A i, j \in DOMAIN todo : i # j => todo[i] # todo[j]

Outstanding(s) == With(s, "waiting") \cup With(s, "asked")

GatherOsv(s) ==
  /\ depStage[s] = "osv" /\ Outstanding(s) = {} /\ Goes(s, "nvd")
  /\ depFindings' = [depFindings EXCEPT ![s] = Found(s)]
  /\ \E n \in 0..MaxLookups : \E todo \in [1..n -> Cves] :
       Batch(todo, CvesOf(Found(s))) /\ depTodo' = [depTodo EXCEPT ![s] = todo]
  /\ UNCHANGED <<depAsked, depLooking, depVerdict, depCrashes, nvdVars>>

\* wait_for's limit on all the queries: no findings and no verdict.
OsvTimeout(s) ==
  /\ depStage[s] = "osv" /\ Outstanding(s) # {} /\ Goes(s, "over")
  /\ UNCHANGED <<depAsked, depTodo, depLooking, depVerdict, depFindings, depCrashes, nvdVars>>

-----------------------------------------------------------------------------
(***************************************************************************)
(* fetch_cve_details_batch: one lookup of a scan at a time, but the        *)
(* requests of several scans may be out together, for one CVE even: both   *)
(* missed it before either was answered.                                   *)
(***************************************************************************)
LookUpNext(s) == depStage[s] = "nvd" /\ depLooking[s] = NoAnswer /\ depTodo[s] # <<>>

\* _load_disk_cache, at the first lookup of a process.
Loaded == IF nvdLoaded THEN nvdCache ELSE nvdFile

\* When reading raises, the process starts with nothing and will not try again.
Loads(cache) ==
  /\ \/ cache = Loaded /\ UNCHANGED nvdAnswered
     \/ ~nvdLoaded /\ cache = {} /\ nvdAnswered' = {}
  /\ nvdCache' = cache /\ nvdLoaded' = TRUE
  /\ UNCHANGED <<nvdFile, nvdKept>>

CacheHit(s) ==
  /\ LookUpNext(s) /\ Head(depTodo[s]) \in Loaded /\ Loads(Loaded)
  /\ depTodo' = [depTodo EXCEPT ![s] = Tail(@)]
  /\ UNCHANGED <<depStage, depAsked, depLooking, depVerdict, depFindings, depCrashes>>

AskNvd(s) ==
  /\ LookUpNext(s)
  /\ \E cache \in {Loaded, {}} : Head(depTodo[s]) \notin cache /\ Loads(cache)
  /\ depLooking' = [depLooking EXCEPT ![s] = Head(depTodo[s])]
  /\ depTodo' = [depTodo EXCEPT ![s] = Tail(@)]
  /\ UNCHANGED <<depStage, depAsked, depVerdict, depFindings, depCrashes>>

\* Mutant: the file is written before the answer is in the cache.
Written_first(cache, new) == cache
Written(cache, new) == new

\* _save_disk_cache swallows every exception: the file is rewritten, left as it
\* was, or truncated and left torn.
Saves(new) ==
  \/ nvdFile' = Written(nvdCache, new) /\ nvdKept' = nvdAnswered'
  \/ UNCHANGED <<nvdFile, nvdKept>>
  \/ nvdFile' = {} /\ nvdKept' = {}

\* A failed request is forgotten; any other answer is cached, and the file saved.
NvdReply(s) ==
  /\ depLooking[s] # NoAnswer /\ depLooking' = [depLooking EXCEPT ![s] = NoAnswer]
  /\ \/ UNCHANGED <<nvdCache, nvdFile, nvdAnswered, nvdKept>>
     \/ /\ nvdCache' = nvdCache \cup {depLooking[s]} /\ nvdAnswered' = nvdAnswered \cup {depLooking[s]}
        /\ Saves(nvdCache')
  /\ UNCHANGED <<depStage, depAsked, depTodo, depVerdict, depFindings, depCrashes, nvdLoaded>>

LookingUp(s) == depTodo[s] # <<>> \/ depLooking[s] # NoAnswer

\* The lookups are over, or their limit cancels them.
EndNvd(s) ==
  /\ depStage[s] = "nvd" /\ Goes(s, "verdict")
  /\ depTodo' = [depTodo EXCEPT ![s] = <<>>] /\ depLooking' = [depLooking EXCEPT ![s] = NoAnswer]
  /\ UNCHANGED <<depAsked, depVerdict, depFindings, depCrashes, nvdVars>>

\* The limit on the whole analysis cancels it in its lookups: no verdict either.
AnalysisTimeout(s) ==
  /\ depStage[s] = "nvd" /\ LookingUp(s) /\ Goes(s, "over")
  /\ depTodo' = [depTodo EXCEPT ![s] = <<>>] /\ depLooking' = [depLooking EXCEPT ![s] = NoAnswer]
  /\ UNCHANGED <<depAsked, depVerdict, depFindings, depCrashes, nvdVars>>

\* evaluate_v15_2_1.
Verdict(s) ==
  /\ depStage[s] = "verdict" /\ Goes(s, "over")
  /\ depVerdict' = [depVerdict EXCEPT ![s] =
       IF depFindings[s] = {} THEN "pass"
       ELSE IF \E f \in depFindings[s] : f.vuln.breached THEN "fail" ELSE "manual_review"]
  /\ UNCHANGED <<depAsked, depTodo, depLooking, depFindings, depCrashes, nvdVars>>

\* The process dies with its scans, in the middle of rewriting the file or not,
\* and another one starts.
ProcessDies ==
  /\ depCrashes < MaxCrashes /\ depCrashes' = depCrashes + 1
  /\ depStage' = [s \in Scans |-> IF depStage[s] = "new" THEN "new" ELSE "over"]
  /\ depTodo' = [s \in Scans |-> <<>>] /\ depLooking' = [s \in Scans |-> NoAnswer]
  /\ nvdCache' = {} /\ nvdLoaded' = FALSE
  /\ \/ nvdAnswered' = nvdKept /\ UNCHANGED <<nvdFile, nvdKept>>
     \/ /\ \E s \in Scans : depLooking[s] # NoAnswer
        /\ nvdFile' = {} /\ nvdAnswered' = {} /\ nvdKept' = {}
  /\ UNCHANGED <<depAsked, depVerdict, depFindings>>

DepNext ==
  \/ \E s \in Scans :
       \/ StartScan(s) \/ (\E p \in DOMAIN depAsked[s] : AskOsv(s, p) \/ OsvReply(s, p))
       \/ GatherOsv(s) \/ OsvTimeout(s) \/ CacheHit(s) \/ AskNvd(s) \/ NvdReply(s)
       \/ EndNvd(s) \/ AnalysisTimeout(s) \/ Verdict(s)
  \/ ProcessDies

DepSpec == DepInit /\ [][DepNext]_depVars

-----------------------------------------------------------------------------
(***************************************************************************)
(* Scans that run out of time still get ahead, and with them the others:   *)
(* no scan asks NVD what any scan was already told, in its process or in   *)
(* an earlier one, unless the answer was lost (nvd_client.py:35-42 says    *)
(* the file is there to survive a restart).  An answer is lost when the    *)
(* process ends and the last write of the file that succeeded was before   *)
(* it, when that file was torn since by a failed write or by a crash, or   *)
(* when the next process could not read the file (59-60, 71-73).  Two      *)
(* scans may ask the same question only if both did before the first of    *)
(* the two answers.                                                        *)
(***************************************************************************)
AnsweredOnce ==
  [][\A s \in Scans : depLooking'[s] \notin {NoAnswer, depLooking[s]} => depLooking'[s] \notin nvdAnswered']_depVars

(***************************************************************************)
(* pipeline.py:534-536: "a slow/unreachable network degrades this one      *)
(* control to not_tested".  A query that fails is an empty answer          *)
(* (dependency_scanner.py:221-223), and no findings at all is a pass.      *)
(***************************************************************************)
UnreachableIsUntested ==
  \A s \in Scans : depVerdict[s] # NoAnswer /\ depAsked[s] # NoPackages => With(s, "answered") # {}
=============================================================================
