--------------------------- MODULE ScanLifecycle ---------------------------
(***************************************************************************)
(* ScanService (app/services/scan_service.py): the scan document in        *)
(* MongoDB, the asyncio task that works on it, the heartbeat task that     *)
(* reports parsing progress, and the cancel and delete requests.           *)
(*                                                                         *)
(* One action is the code between two awaits on the document: the local    *)
(* computation and the write that ends it.  Findings are abstracted to     *)
(* whether the analysis ran and to which targets' DAST sweeps returned;    *)
(* log lines are modelled in ScanStream.                                   *)
(***************************************************************************)
EXTENDS Integers, FiniteSets

CONSTANTS
    Scans,              \* scan ids
    MaxFiles,           \* bound: source files in a repository
    OfferedKinds,       \* bound: the kinds of scan users ask for
    MaxTargets,         \* bound: target_url plus dynamic_additional_target_urls
    DbMayFail,          \* TRUE: a write may raise, before or after it is applied
    MayCrash            \* TRUE: the server process may die and be restarted

ASSUME BoundsAssumption   == MaxFiles \in Nat \ {0} /\ MaxTargets \in Nat \ {0}
ASSUME OfferedAssumption  == OfferedKinds \subseteq {"code", "local", "git", "dynamic"}
ASSUME FaultsAssumption   == DbMayFail \in BOOLEAN /\ MayCrash \in BOOLEAN

VARIABLES
    db,                 \* the scans collection: one document per scan, or NoDoc
    wk,                 \* the worker task of each scan: pc and local variables
    parsed,             \* parse_progress["parsed"], written by the parser thread
    reported,           \* the heartbeat's last_reported
    pending,            \* the heartbeat's write handed to Motor, or NoWrite
    temp,               \* scans whose temp_root directory exists
    cancelling,         \* cancel requests between their find_one and their write
    abandoned           \* scans whose FAILED write itself raised

vars == <<db, wk, parsed, reported, pending, temp, cancelling, abandoned>>

-----------------------------------------------------------------------------
NoWrite   == -1         \* the heartbeat has no write on its way
Broken    == -2         \* the heartbeat task died of a write that raised
Kinds     == {"code", "local", "git", "dynamic"}
Outcomes  == {"full", "empty"}   \* the analysis ran, or an empty result stands in
RepoKinds == {"local", "git"}
Terminal  == {"COMPLETED", "FAILED", "CANCELLED"}
States    == {"ABSENT", "PENDING", "RUNNING"} \cup Terminal
PCs       == {"idle", "inserted", "begin", "announce", "fetch", "cloning",
              "collect", "analyse", "files", "sweep", "complete", "failing",
              "cleanup", "ended", "lost"}

\* What ScanStart accepts: a dynamic scan needs a target; a repository scan
\* sweeps its targets only when it is hybrid; pasted code is never swept, even
\* when scan_type is "hybrid".
Jobs == {j \in [kind : OfferedKinds, targets : 0..MaxTargets] :
            /\ j.kind = "code" => j.targets = 0
            /\ j.kind = "dynamic" => j.targets > 0}

Summaries == [status : {"NONE", "COMPLETED", "FAILED"}, total : 0..MaxFiles,
              analysed : Outcomes, sweeps : SUBSET (1..MaxTargets)]
NoSummary  == [status |-> "NONE", total |-> 0, analysed |-> "empty", sweeps |-> {}]
ErrSummary == [NoSummary EXCEPT !.status = "FAILED"]

Docs == [state : States, progress : 0..100, files : 0..MaxFiles,
         total : 0..MaxFiles, summary : Summaries]
NoDoc == [state |-> "ABSENT", progress |-> 0, files |-> 0, total |-> 0,
          summary |-> NoSummary]
PendingDoc == [NoDoc EXCEPT !.state = "PENDING"]

Workers == [pc : PCs, kind : Kinds, targets : 0..MaxTargets, files : 0..MaxFiles,
            idx : 0..(MaxFiles + MaxTargets), analysed : Outcomes,
            sweeps : SUBSET (1..MaxTargets)]
NoWorker == [pc |-> "idle", kind |-> "code", targets |-> 0, files |-> 0,
             idx |-> 0, analysed |-> "empty", sweeps |-> {}]

Init ==
    /\ db = [s \in Scans |-> NoDoc]
    /\ wk = [s \in Scans |-> NoWorker]
    /\ parsed   = [s \in Scans |-> 0]
    /\ reported = [s \in Scans |-> NoWrite]
    /\ pending  = [s \in Scans |-> NoWrite]
    /\ temp = {} /\ cancelling = {} /\ abandoned = {}

-----------------------------------------------------------------------------
(* Shared steps *)

heartbeat == <<parsed, reported, pending>>
requests  == <<cancelling, abandoned>>

\* Mutant: upsert=True.
_update_scan_upserts(s, doc) == db' = [db EXCEPT ![s] = doc]

\* update_one({"scan_id": s}, {"$set": ...}): atomic, unconditional, no upsert.
_update_scan(s, doc) ==
    db' = [db EXCEPT ![s] = IF @.state = "ABSENT" THEN @ ELSE doc]

\* The worker resumes after the await: as w, or in its except clause when the
\* applied write was reported as an error.
Resume(s, w) ==
    \/ wk' = [wk EXCEPT ![s] = w]
    \/ DbMayFail /\ wk' = [wk EXCEPT ![s].pc = "failing"]

\* A repository worker leaves through its finally clause.
Exit(w) == IF w.kind \in RepoKinds THEN "cleanup" ELSE "ended"

\* Progress is int(...) of a non-negative product, i.e. a truncated quotient.
Share(done, all, width) == (done * width) \div all

-----------------------------------------------------------------------------
(* start(): insert the document, then create the task *)

InsertScan(s) ==
    /\ wk[s].pc = "idle"
    /\ \E j \in Jobs :
          wk' = [wk EXCEPT ![s] = [NoWorker EXCEPT !.pc = "inserted",
                                        !.kind = j.kind, !.targets = j.targets]]
    /\ db' = [db EXCEPT ![s] = PendingDoc]
    /\ UNCHANGED <<heartbeat, temp, requests>>

DispatchScan(s) ==
    /\ wk[s].pc = "inserted"
    /\ wk' = [wk EXCEPT ![s].pc = "begin"]
    /\ UNCHANGED <<db, heartbeat, temp, requests>>

-----------------------------------------------------------------------------
(* _run_direct_code_scan *)

BeginCode(s) ==
    /\ wk[s].pc = "begin" /\ wk[s].kind = "code"
    /\ _update_scan(s, [db[s] EXCEPT !.state = "RUNNING", !.progress = 10])
    /\ Resume(s, [wk[s] EXCEPT !.pc = "announce"])
    /\ UNCHANGED <<heartbeat, temp, requests>>

AnnounceCode(s) ==
    /\ wk[s].pc = "announce"
    /\ _update_scan(s, [db[s] EXCEPT !.progress = 25])
    /\ Resume(s, [wk[s] EXCEPT !.pc = "analyse", !.files = 1])
    /\ UNCHANGED <<heartbeat, temp, requests>>

\* analyze_code returns a result, an error result (it catches everything), or
\* times out; the worker carries on with whatever it has.
AnalyseCode(s) ==
    /\ wk[s].pc = "analyse" /\ wk[s].kind = "code"
    /\ \E ran \in Outcomes :
          wk' = [wk EXCEPT ![s].pc = "complete", ![s].analysed = ran]
    /\ UNCHANGED <<db, heartbeat, temp, requests>>

CompleteCode(s) ==
    /\ wk[s].pc = "complete" /\ wk[s].kind = "code"
    /\ _update_scan(s, [db[s] EXCEPT
            !.state = "COMPLETED", !.progress = 100, !.files = 1, !.total = 1,
            !.summary = [status |-> "COMPLETED", total |-> 1,
                         analysed |-> wk[s].analysed, sweeps |-> {}]])
    /\ Resume(s, [wk[s] EXCEPT !.pc = "ended"])
    /\ UNCHANGED <<heartbeat, temp, requests>>

-----------------------------------------------------------------------------
(* _run_dynamic_scan *)

\* Every target is validated before RUNNING is written: a bad one raises.
RejectTarget(s) ==
    /\ wk[s].pc = "begin" /\ wk[s].kind = "dynamic"
    /\ wk' = [wk EXCEPT ![s].pc = "failing"]
    /\ UNCHANGED <<db, heartbeat, temp, requests>>

BeginDynamic(s) ==
    /\ wk[s].pc = "begin" /\ wk[s].kind = "dynamic"
    /\ _update_scan(s, [db[s] EXCEPT !.state = "RUNNING", !.progress = 10])
    /\ Resume(s, [wk[s] EXCEPT !.pc = "sweep"])
    /\ UNCHANGED <<heartbeat, temp, requests>>

\* The slice of the progress bar given to target number j (of w.targets).
Window(w, j) == IF w.kind = "dynamic" THEN 10 + Share(j, w.targets, 85)
                                      ELSE 90 + Share(j, w.targets, 9)

\* Passive probe and DAST sweep of the next target.  Whatever the sweep does
\* (results, timeout, exception) is contained in this iteration; the two ends of
\* the target's window stand for the progress it last reported.
SweepTarget(s) ==
    /\ wk[s].pc = "sweep" /\ wk[s].idx < wk[s].targets
    /\ \E at \in {wk[s].idx, wk[s].idx + 1} :
          _update_scan(s, [db[s] EXCEPT !.progress = Window(wk[s], at)])
    /\ \E got \in {{}, {wk[s].idx + 1}} :
          Resume(s, [wk[s] EXCEPT !.idx = @ + 1, !.sweeps = @ \cup got])
    /\ UNCHANGED <<heartbeat, temp, requests>>

EndSweeps(s) ==
    /\ wk[s].pc = "sweep" /\ wk[s].idx = wk[s].targets
    /\ wk' = [wk EXCEPT ![s].pc = "complete"]
    /\ UNCHANGED <<db, heartbeat, temp, requests>>

CompleteDynamic(s) ==
    /\ wk[s].pc = "complete" /\ wk[s].kind = "dynamic"
    /\ _update_scan(s, [db[s] EXCEPT
            !.state = "COMPLETED", !.progress = 100,
            !.summary = [status |-> "COMPLETED", total |-> 0,
                         analysed |-> "empty", sweeps |-> wk[s].sweeps]])
    /\ Resume(s, [wk[s] EXCEPT !.pc = "ended"])
    /\ UNCHANGED <<heartbeat, temp, requests>>

-----------------------------------------------------------------------------
(* _run_repository_scan *)

BeginRepo(s) ==
    /\ wk[s].pc = "begin" /\ wk[s].kind \in RepoKinds
    /\ _update_scan(s, [db[s] EXCEPT !.state = "RUNNING", !.progress = 5])
    /\ Resume(s, [wk[s] EXCEPT !.pc = "fetch"])
    /\ UNCHANGED <<heartbeat, temp, requests>>

\* mkdtemp, then the archive is extracted (or found missing or unsafe).
ExtractArchive(s) ==
    /\ wk[s].pc = "fetch" /\ wk[s].kind = "local"
    /\ temp' = temp \cup {s}
    /\ \E next \in {"collect", "failing"} : wk' = [wk EXCEPT ![s].pc = next]
    /\ UNCHANGED <<db, heartbeat, requests>>

\* mkdtemp, then git clone: subprocess.run without timeout, inside the
\* coroutine, so the event loop stands still until it returns.
StartClone(s) ==
    /\ wk[s].pc = "fetch" /\ wk[s].kind = "git"
    /\ temp' = temp \cup {s}
    /\ wk' = [wk EXCEPT ![s].pc = "cloning"]
    /\ UNCHANGED <<db, heartbeat, requests>>

CloneReturns(s) ==
    /\ wk[s].pc = "cloning"
    /\ \E next \in {"collect", "failing"} : wk' = [wk EXCEPT ![s].pc = next]
    /\ UNCHANGED <<db, heartbeat, temp, requests>>

\* Mutant: the early return bypasses the finally clause.
CollectNothing_skips_finally(s) ==
    /\ wk[s].pc = "collect"
    /\ _update_scan(s, [db[s] EXCEPT !.state = "FAILED", !.progress = 100,
                            !.files = 0, !.total = 0, !.summary = ErrSummary])
    /\ Resume(s, [wk[s] EXCEPT !.pc = "ended"])
    /\ UNCHANGED <<heartbeat, temp, requests>>

\* No file in scope: FAILED with its own summary, then return.
CollectNothing(s) ==
    /\ wk[s].pc = "collect"
    /\ _update_scan(s, [db[s] EXCEPT !.state = "FAILED", !.progress = 100,
                            !.files = 0, !.total = 0, !.summary = ErrSummary])
    /\ Resume(s, [wk[s] EXCEPT !.pc = "cleanup"])
    /\ UNCHANGED <<heartbeat, temp, requests>>

CollectFiles(s) ==
    /\ wk[s].pc = "collect"
    /\ \E n \in 1..MaxFiles :
          /\ _update_scan(s, [db[s] EXCEPT !.total = n, !.progress = 20])
          /\ Resume(s, [wk[s] EXCEPT !.pc = "analyse", !.files = n])
    /\ parsed'   = [parsed EXCEPT ![s] = 0]
    /\ reported' = [reported EXCEPT ![s] = NoWrite]
    /\ UNCHANGED <<pending, temp, requests>>

\* The parser thread calls progress_callback once per file.
ParseFile(s) ==
    /\ wk[s].pc = "analyse" /\ wk[s].kind \in RepoKinds
    /\ parsed[s] < wk[s].files
    /\ parsed' = [parsed EXCEPT ![s] = @ + 1]
    /\ UNCHANGED <<db, wk, reported, pending, temp, requests>>

\* _report_parse_progress wakes up and hands a write to Motor's thread pool.
HeartbeatTick(s) ==
    /\ wk[s].pc = "analyse" /\ wk[s].kind \in RepoKinds
    /\ pending[s] = NoWrite
    /\ parsed[s] # reported[s]
    /\ reported' = [reported EXCEPT ![s] = parsed[s]]
    /\ pending'  = [pending EXCEPT ![s] = parsed[s]]
    /\ UNCHANGED <<db, wk, parsed, temp, requests>>

\* Mutant: the heartbeat also asserts that the scan is running.
HeartbeatLands_sets_state(s) ==
    /\ pending[s] >= 0
    /\ _update_scan(s, [db[s] EXCEPT !.state = "RUNNING", !.files = pending[s]])
    /\ pending' = [pending EXCEPT ![s] = NoWrite]
    /\ UNCHANGED <<wk, parsed, reported, temp, requests>>

\* The write reaches the database, maybe long after the heartbeat is cancelled.
HeartbeatLands(s) ==
    /\ pending[s] >= 0
    /\ _update_scan(s, [db[s] EXCEPT
            !.progress = 20 + Share(pending[s], wk[s].files, 60),
            !.files = pending[s]])
    /\ pending' = [pending EXCEPT ![s] = NoWrite]
    /\ UNCHANGED <<wk, parsed, reported, temp, requests>>

\* The write raises, applied or not, and ends the heartbeat task.
HeartbeatRaises(s) ==
    /\ DbMayFail
    /\ wk[s].pc = "analyse" /\ pending[s] >= 0
    /\ pending' = [pending EXCEPT ![s] = Broken]
    /\ UNCHANGED <<db, wk, parsed, reported, temp, requests>>

\* The finally clause cancels and awaits the heartbeat.  A write still queued
\* in the thread pool is dropped with it, one already being sent is not; and a
\* heartbeat that died re-raises its error here, into the worker.
LeaveAnalysis(s, ran) ==
    /\ \E p \in {NoWrite} \cup ({pending[s]} \ {Broken}) :
          pending' = [pending EXCEPT ![s] = p]
    /\ wk' = [wk EXCEPT ![s].pc = IF pending[s] = Broken THEN "failing" ELSE "files",
                        ![s].analysed = ran]

\* analyze_repository returns: a full result once everything is parsed, or an
\* error result at any point (it catches every exception).
AnalysisReturns(s) ==
    /\ wk[s].pc = "analyse" /\ wk[s].kind \in RepoKinds
    /\ \E ran \in Outcomes :
          /\ ran = "full" => parsed[s] = wk[s].files
          /\ LeaveAnalysis(s, ran)
    /\ UNCHANGED <<db, parsed, reported, temp, requests>>

\* Mutant: the wait_for around analyze_repository is gone.
AnalysisTimesOut_never(s) ==
    /\ wk[s].pc = "analyse" /\ wk[s].kind \in RepoKinds
    /\ parsed[s] = wk[s].files
    /\ LeaveAnalysis(s, "empty")
    /\ UNCHANGED <<db, parsed, reported, temp, requests>>

\* SCAN_TIMEOUT_SECONDS: an empty AnalysisResult stands in, the scan goes on.
AnalysisTimesOut(s) ==
    /\ wk[s].pc = "analyse" /\ wk[s].kind \in RepoKinds
    /\ LeaveAnalysis(s, "empty")
    /\ UNCHANGED <<db, parsed, reported, temp, requests>>

\* The per-file bookkeeping loop, one document write per file.
ScanFile(s) ==
    /\ wk[s].pc = "files" /\ wk[s].idx < wk[s].files
    /\ _update_scan(s, [db[s] EXCEPT !.files = wk[s].idx + 1,
            !.progress = 20 + Share(wk[s].idx + 1, wk[s].files, 70)])
    /\ Resume(s, [wk[s] EXCEPT !.idx = @ + 1])
    /\ UNCHANGED <<heartbeat, temp, requests>>

\* After the loop: the passive probes, and for a hybrid scan the DAST sweeps.
EndFiles(s) ==
    /\ wk[s].pc = "files" /\ wk[s].idx = wk[s].files
    /\ wk' = [wk EXCEPT ![s].pc = IF wk[s].targets > 0 THEN "sweep" ELSE "complete",
                        ![s].idx = 0]
    /\ UNCHANGED <<db, heartbeat, temp, requests>>

\* Mutant: the sweeps of the last target overwrite those of the others.
CompleteRepo_keeps_last(s) ==
    /\ wk[s].pc = "complete" /\ wk[s].kind \in RepoKinds
    /\ _update_scan(s, [db[s] EXCEPT
            !.state = "COMPLETED", !.progress = 100,
            !.summary = [status |-> "COMPLETED", total |-> wk[s].files,
                         analysed |-> wk[s].analysed,
                         sweeps |-> wk[s].sweeps \cap {wk[s].targets}]])
    /\ Resume(s, [wk[s] EXCEPT !.pc = "cleanup"])
    /\ UNCHANGED <<heartbeat, temp, requests>>

CompleteRepo(s) ==
    /\ wk[s].pc = "complete" /\ wk[s].kind \in RepoKinds
    /\ _update_scan(s, [db[s] EXCEPT
            !.state = "COMPLETED", !.progress = 100,
            !.summary = [status |-> "COMPLETED", total |-> wk[s].files,
                         analysed |-> wk[s].analysed, sweeps |-> wk[s].sweeps]])
    /\ Resume(s, [wk[s] EXCEPT !.pc = "cleanup"])
    /\ UNCHANGED <<heartbeat, temp, requests>>

-----------------------------------------------------------------------------
(* except and finally clauses *)

\* Code between two awaits raises: source collection, get_pipeline or the timeout
\* setting before the analysis, deduplication after it, build_dynamic_targets
\* before a sweep, the correlation, or a final write above MongoDB's 16 MB limit.
WorkerRaises(s) ==
    /\ wk[s].pc \in {"collect", "analyse", "files", "sweep", "complete"}
    /\ wk[s].pc = "analyse" => parsed[s] = 0 /\ pending[s] = NoWrite
    /\ wk' = [wk EXCEPT ![s].pc = "failing"]
    /\ UNCHANGED <<db, heartbeat, temp, requests>>

\* A write of the worker raises and is not applied.
DbRaises(s) ==
    /\ DbMayFail
    /\ wk[s].pc \in {"begin", "announce", "fetch"}
    /\ wk' = [wk EXCEPT ![s].pc = "failing"]
    /\ UNCHANGED <<db, heartbeat, temp, requests>>

\* Mutant: the except clause records the error but not the state.
FailScan_keeps_state(s) ==
    /\ wk[s].pc = "failing"
    /\ _update_scan(s, [db[s] EXCEPT !.summary = ErrSummary])
    /\ wk' = [wk EXCEPT ![s].pc = Exit(wk[s])]
    /\ UNCHANGED <<heartbeat, temp, requests>>

FailScan(s) ==
    /\ wk[s].pc = "failing"
    /\ _update_scan(s, [db[s] EXCEPT !.state = "FAILED", !.summary = ErrSummary])
    /\ wk' = [wk EXCEPT ![s].pc = Exit(wk[s])]
    /\ UNCHANGED <<heartbeat, temp, requests>>

\* The FAILED write raises inside the except clause: nobody writes a verdict.
FailScanRaises(s) ==
    /\ DbMayFail
    /\ wk[s].pc = "failing"
    /\ wk' = [wk EXCEPT ![s].pc = Exit(wk[s])]
    /\ abandoned' = abandoned \cup {s}
    /\ UNCHANGED <<db, heartbeat, temp, cancelling>>

Cleanup(s) ==
    /\ wk[s].pc = "cleanup"
    /\ temp' = temp \ {s}
    /\ wk' = [wk EXCEPT ![s].pc = "ended"]
    /\ UNCHANGED <<db, heartbeat, requests>>

-----------------------------------------------------------------------------
(* Requests of users, and the process itself *)

\* The route's and cancel()'s find_one; the write follows after an await.
CancelFinds(s) ==
    /\ db[s].state # "ABSENT"
    /\ cancelling' = cancelling \cup {s}
    /\ UNCHANGED <<db, wk, heartbeat, temp, abandoned>>

CancelWrites(s) ==
    /\ s \in cancelling
    /\ _update_scan(s, [db[s] EXCEPT !.state = "CANCELLED"])
    /\ cancelling' = cancelling \ {s}
    /\ UNCHANGED <<wk, heartbeat, temp, abandoned>>

DeleteScan(s) ==
    /\ db[s].state # "ABSENT"
    /\ db' = [db EXCEPT ![s] = NoDoc]
    /\ UNCHANGED <<wk, heartbeat, temp, requests>>

\* The process dies: tasks, requests and queued writes vanish, the database
\* and the temp directories stay.  main.py recovers nothing at start-up.
Crash ==
    /\ MayCrash
    /\ wk' = [s \in Scans |-> IF wk[s].pc \in {"idle", "ended"} THEN wk[s]
                              ELSE [wk[s] EXCEPT !.pc = "lost"]]
    /\ pending' = [s \in Scans |-> NoWrite]
    /\ cancelling' = {}
    /\ UNCHANGED <<db, parsed, reported, temp, abandoned>>

-----------------------------------------------------------------------------
\* A clone in progress holds the only event-loop thread.
LoopFree == \A s \in Scans : wk[s].pc # "cloning"

\* What the worker task does by itself.
WorkerStep(s) ==
    \/ DispatchScan(s)
    \/ BeginCode(s) \/ AnnounceCode(s) \/ AnalyseCode(s) \/ CompleteCode(s)
    \/ RejectTarget(s) \/ BeginDynamic(s) \/ SweepTarget(s) \/ EndSweeps(s)
    \/ CompleteDynamic(s)
    \/ BeginRepo(s) \/ ExtractArchive(s) \/ StartClone(s)
    \/ CollectNothing(s) \/ CollectFiles(s)
    \/ AnalysisTimesOut(s) \/ ScanFile(s) \/ EndFiles(s) \/ CompleteRepo(s)
    \/ FailScan(s) \/ Cleanup(s)

\* What the server's event loop may do for scan s.
LoopStep(s) ==
    \/ InsertScan(s) \/ WorkerStep(s) \/ AnalysisReturns(s)
    \/ HeartbeatTick(s) \/ HeartbeatRaises(s)
    \/ WorkerRaises(s) \/ DbRaises(s) \/ FailScanRaises(s)
    \/ CancelFinds(s) \/ CancelWrites(s) \/ DeleteScan(s)

\* What other threads do, even while the event loop is blocked.
ThreadStep(s) == ParseFile(s) \/ HeartbeatLands(s) \/ CloneReturns(s)

Next ==
    \/ \E s \in Scans : (LoopFree /\ LoopStep(s)) \/ ThreadStep(s)
    \/ Crash

Spec == Init /\ [][Next]_vars

\* Every await of the worker ends (in a result or in its timeout), so the event
\* loop eventually resumes it.  Nothing is assumed of the parser, of git, or of
\* the users.
Fairness == \A s \in Scans : WF_vars(LoopFree /\ WorkerStep(s))
FairSpec == Spec /\ Fairness

-----------------------------------------------------------------------------
(* Properties *)

\* Every variable holds what the code can store in it: progress is a
\* percentage, files_scanned and total_files count files that exist.
TypeOK ==
    /\ db \in [Scans -> Docs]
    /\ wk \in [Scans -> Workers]
    /\ parsed   \in [Scans -> 0..MaxFiles]
    /\ reported \in [Scans -> NoWrite..MaxFiles]
    /\ pending  \in [Scans -> Broken..MaxFiles]
    /\ temp \subseteq Scans
    /\ cancelling \subseteq Scans
    /\ abandoned \subseteq Scans

\* However a worker ends - verdict, exception, empty repository, timeout, a
\* cancel or a delete in the middle - it leaves no document PENDING or RUNNING,
\* unless the FAILED write of its own except clause was refused.
NoScanLeftBehind ==
    \A s \in Scans : wk[s].pc \in {"cleanup", "ended"} /\ s \notin abandoned
                        => db[s].state \in Terminal \cup {"ABSENT"}

\* The verdict and the summary are one atomic write: a reader that sees
\* COMPLETED finds the summary of that very run (all files counted, the results
\* of every sweep that returned), one that sees FAILED finds the error.
VerdictMatchesSummary ==
    \A s \in Scans :
        /\ db[s].state = "COMPLETED" =>
              /\ db[s].summary.status = "COMPLETED"
              /\ db[s].summary.total = wk[s].files
              /\ db[s].summary.total = db[s].total
              /\ db[s].summary.sweeps = wk[s].sweeps
        /\ db[s].state = "FAILED" => db[s].summary.status = "FAILED"

\* The checked-out source tree never outlives its worker: every exit path of
\* _run_repository_scan, a refused FAILED write included, runs the rmtree.
TempRootReleased == \A s \in Scans : wk[s].pc = "ended" => s \notin temp

\* delete_one wins against every write still on its way (worker, heartbeat,
\* cancel): a deleted scan never comes back.
DeletedStaysDeleted ==
    [][\A s \in Scans : wk[s].pc # "idle" /\ db[s].state = "ABSENT"
                            => db'[s].state = "ABSENT"]_vars

\* The document, seen through its state field, behaves as ScanRecord says.
Life(w) == CASE w.pc = "idle" -> "new"
             [] w.pc \in {"inserted", "begin"} -> "queued"
             [] w.pc = "failing" -> "closing"
             [] w.pc \in {"cleanup", "ended", "lost"} -> "judged"
             [] OTHER -> "running"
Record == INSTANCE ScanRecord WITH
              state <- [s \in Scans |-> db[s].state],
              life  <- [s \in Scans |-> Life(wk[s])]
ImplementsRecord == Record!RecordSpec

\* Once accepted, a scan's worker ends or dies with the process, whatever the
\* parser and the database do, unless a git clone hangs: that blocks the event
\* loop and with it every other scan.
Settles ==
    []<>LoopFree => \A s \in Scans : wk[s].pc # "idle" ~> wk[s].pc \in {"ended", "lost"}
=============================================================================
