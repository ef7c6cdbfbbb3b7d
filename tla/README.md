# ControlGate-Backend: TLA+ verification project

ControlGate scans source repositories, pasted code and live web targets, and maps what it
finds to the controls of OWASP ASVS 5.0. The backend is one asyncio process (FastAPI, Motor
on MongoDB). A scan is an in-process task that nobody but itself supervises; everything a
user sees (status, live log, compliance verdicts) is read from documents that this task, other
tasks and other requests write between each other's awaits. That is what is modelled here.

## Inventory

| Part (source) | State | Operations | Interacts through | Hard behaviour |
|---|---|---|---|---|
| Scan service (`services/scan_service.py`) | scan document, worker task, heartbeat task, temp tree | start, three workers (code, repository, dynamic), heartbeat, cancel, delete | `_update_scan` on the document; parser thread writes `parse_progress` | unconditional writes of four writers; exceptions at every await; timeout with a thread still running; blocking `git clone`; crash without recovery |
| Scan routes (`routes/scans.py`) | WebSocket loop (`last_log_count`) | start, cancel, delete, stream | polls the document | document moves between polls and sends |
| Quota (`core/permissions.py`) | none: counts documents | `check_scan_quota` | scans collection | check-then-insert, midnight |
| ASVS verdicts (`services/asvs_service.py`) | none: recomputed from summary and answers | `_compute_result` and its merge functions | scan summary, attestations | twelve ways to combine evidence; absence as evidence |
| Attestations (`routes/attestations.py`) | `attestations`, `asvs_results` | submit, work queue | several reads per request | reads of one request straddle writes of another |
| LLM classifier (`semantic_engine/classifier`) | slice queue, per-worker model pools | `classify_slices` | shared queue and result list | pools die at different times; nothing may be lost |
| Authentication (`services/auth_service.py`, `routes/auth.py`, `api/deps.py`) | users, token revocations, reset links | register, login, OAuth, refresh, logout, reset, role change | revocation collection with a TTL index | every request reads, then acts; tokens outlive what they say |
| Rate limiter (`core/rate_limit.py`) | in-memory deques | `check_rate_limit` | auth and scan routes | window boundaries, sweep |
| DAST sweep (`_run_dynamic_checks`) | stage, session pair, listener, browser, findings, audit record, progress | one call per target | calls everything below | timeouts, cancellation, clean-up on every exit |
| DAST session (`dast/session.py`) | token, `reauth_in_progress` | authenticate, request with one retry | shared by concurrent probes | expiry during a request, re-login that fails or is cancelled |
| DAST checks and oracles (`dast/checks.py`, `oracles.py`) | none between checks | fifteen payload checks, timing, bisection | answers of a foreign server | lost or stalled requests, what was on the page before |
| DAST probes (`dast/*_probe.py`, `collaborator.py`) | callbacks, open pages and peers | SSRF, race, mass assignment, IDOR, JWT, XSS, fuzzing, WebRTC | two actors, listener thread | late callbacks, overlapping requests |
| DAST crawlers (`dast/crawler.py`, `state_crawler.py`) | queue, visited, submitted | crawl, form transitions | sweep's URL list | limits, duplicates, order |
| Repository graph (`multi_file_repo_graph.py`) | symbol table, edges, disk cache | parse in threads, expand re-exports, link | `FlowSearch`'s graph | completion order, fixpoint, name collisions |
| Semantic pipeline (`semantic_engine/*`) | slices, clusters | discovery, rules, filter, classify, report | `AnalysisResult` | search budgets, deduplication, a stage that raises |
| Dependency scan (`dependency_scanner.py`, `nvd_client.py`) | process cache and cache file | OSV queries, NVD lookups, SLA verdict | OSV, NVD; all scans of the process share the cache | lost queries, limits, scans that overlap, failed writes, crash while the file is rewritten |
| Config and capability inspection | none | per-file inspection | `AnalysisResult` | none of its own |
| Repositories, archives | files on disk, repository documents | upload, extract, clone | scan worker | extraction budget |
| Reports, dashboard, graphs, notifications | none or read-only | render, aggregate | documents | none |

The properties that make each part correct are the ones listed under "Runs".
`PROJECT.json` lists every part with its status, and under `hazards` what is hard to test in
this code, at its line.

## Modules

| Module | Models | State and actions |
|---|---|---|
| `ScanRecord` | what a scan document promises its readers (abstract specification) | `state`, and `life`: how far the worker behind it is |
| `ScanLifecycle` | `ScanService`: one worker per scan, heartbeat, cancel, delete, database faults, crash | `db` is the collection, `wk` the workers' program counters and locals; one action is the code between two awaits, with the write that ends it |
| `ScanStream` | `scan_ws` over a document that behaves as `ScanRecord` | `conn` holds `last_log_count`, this round's read and the lines the client received |
| `ScanQuota` | `check_scan_quota` and the insert that follows it | `pc` per request, `created` per scan document, `today` |
| `AsvsVerdict` | the merge functions as operators on the evidence for one control | none |
| `AsvsEvidence` | how a scan collects that evidence, stores the summary, and answers join it | findings in the worker's hands, stored summary, answer on file |
| `AsvsResults` | `submit_attestation`, the attestation work queue and the stored results, one step per await | collections, and one record per request in flight |
| `ClassifierWorkers` | `classify_slices`, its worker tasks and the `LLMService`/`RoleAwareLLMPool` each owns | queue position, slice in each worker's hand, soft and hard exhausted models, sticky model |
| `DynamicSweep` | `_run_dynamic_checks`: one live target's sweep, stage by stage, with its listener, browser, session pair, findings, audit record and progress | `stage` and `todo` are the place in the coroutine; one action per stage, per item of a loop, per handler |
| `AuthTokens` | accounts, bearer tokens, revocations, roles and reset links | `rq` holds each request in flight, `pc` the database access it waits for; one clock for every expiry |
| `RateLimit` | `check_rate_limit` and its sweep | `buckets`, `callsSinceSweep`; `let` is the history of admitted calls |
| `ProbeSession` | `DastSession.request` for overlapping calls | `token` and the newest `issued` one, `reauth_in_progress`, the place `at` of each call |
| `PayloadChecks` | `run_payload_checks` and its fifteen checks, from answers to a verdict | `pos` in the list of rules, parameters left, `observed_response`; an answer is a status class and what its body shows |
| `TimingStatistics` | median and spread of a series | none |
| `SqlEscalation` | `timing_oracle`, then the choice of the dialect and the bisection of one byte | the two series, bounds `lo` and `hi`, the confirmed byte |
| `PaddingOracle` | the comparative timing probe | the two interleaved series, the target's load |
| `ActiveProbes` | the twelve probes with an engine of their own | `kind`, its place `pc`, the target's own `state`, pages and peers `opened` |
| `Crawl` | `crawl`, then `crawl_form_transitions` | `queue` with depths, `visited`, `submitted`, what was `revealed` |
| `RepoGraph` | `MultiFileRepositoryGraph.build` | threads, cache, symbol table in completion order, exports per pass, edges |
| `FlowSearch` | `PathDiscovery.discover` and `QueryExecutor.execute_query` | search queue, seen states, operations spent, paths, slices |
| `AnalysisPipeline` | `analyze_repository` and `analyze_code`, stage by stage | what each stage holds, reports at the end |
| `DependencyScan` | `DependencyScanner`, `nvd_client` and the stage that limits them, for several scans at once | per scan its queries, lookups and verdict; one process cache and file for all |
| `Selection` | the items of a list that a loop keeps (`crawl`, the pipeline's filters) | none |
| `*_proofs` | theorems about the modules they extend; `Common_proofs` holds the lemmas they share | |
| `MC*` | TLC instances | |

`ScanLifecycle` is shown to implement `ScanRecord` (`ImplementsRecord`), and `ScanStream`
builds on `ScanRecord` alone, so what it shows holds over the detailed worker. `PaddingOracle` and
`SqlEscalation` use `TimingStatistics`.
`AsvsEvidence` and `AsvsResults` both extend `AsvsVerdict`.

### Correspondence worth knowing

* `_update_scan` is one `update_one` without upsert: atomic, unconditional, without effect when
  the document is gone. With `DbMayFail` it may raise before or after it was applied; the second
  is why a worker can write FAILED over its own COMPLETED.
* The heartbeat hands its write to Motor's thread pool. Cancelling the task cannot recall a
  write already being sent, so `HeartbeatLands` may happen at any later time. Progress may
  therefore fall back below 100 after COMPLETED; the state and the summary may not change.
* `subprocess.run(git clone)` blocks the event loop: while a worker is `cloning`, only threads
  take steps (`LoopFree`). It has no timeout. A clone that never returns stops the whole process;
  nothing here excludes that, and `Settles` says nothing of it, because its fairness speaks of a free loop.
* `SweepTarget` stands for one target's probe and sweep. Whatever happens inside is
  contained in the iteration; the ends of the target's progress window stand for the last progress
  it reported. In `AsvsEvidence` all probes precede all sweeps, as in a hybrid scan; a dynamic
  scan alternates them per target, which collects the same lists.
* In `AsvsVerdict`, `Hits` abstracts a vulnerability to what `_merge_static` tells apart;
  confidence numbers, evidence lists and wording are dropped, `pass_basis`/`fail_basis` kept.
* `ClassifierWorkers` starts with the slices sorted and presence rules already set aside.
  `untried` holds the models a call has yet to try; `settled` records how each slice was classified; a slice classified as safe leaves no finding
  in the code but is settled here too.
* `DynamicSweep` tells a probe's verdict apart only as far as the audit does (`ran`, `skipped`,
  `not_configured`); the logout check keeps its own, because it depends on `login`, whether the
  target still honours the session. `pair` is "new" until `DastSessionPair.__aenter__` is
  through: after a failed login there is nothing that closes a client. `tried` is a history variable.
  The browser crawl and a bridge DOM re-test open and close a browser of their own inside one step;
  `browser` is the one the DOM-XSS and redirect loops share. A dynamic scan awaits the sweep
  directly, a hybrid one under `wait_for(240)`: only there `Cancel` happens.

* `PayloadChecks` enumerates what a server may answer; only its answers to the payload of a check
  depend on `hole`, the parameters that really execute it. `smooth` and `of` are history: an answer that is lost,
  an error page or a page that already shows the mark takes `HoleIsFound`'s promise away, never
  `SignalIsReal`'s.
* Times in `SqlEscalation` and `PaddingOracle` are integers in units of 500 ms and of a millisecond;
  variances are compared squared and multiplied out, so nothing is rounded. A request that takes
  longer than the client's timeout takes exactly the timeout and raises.
* `ActiveProbes` has each probe's gates in `gate`: `active_mode`, whether the probe requires it
  (six of them can be told not to), and whether the second session, the payloads or the flood connections
  it needs are there. The module contains the target as far as a probe's verdict depends on it: `weak` says that it
  has the weakness, and nothing else makes it show the effect, except an `outage` of its own.
* In `Crawl` a page is its own normalised URL; `revealed` is what `VisitPage` may add from a rendered page,
  `read` the pages whose links were followed, `answered` the forms whose submission was.
* `RepoGraph` takes what `_extract_*` reads from one file as the record `Texts[content]`. A module's
  name, the resolution of relative paths and the suffix match are inputs too, so that two files of one
  name (the second replaces the first) and a suffix that fits two modules are among the repositories.
* A rule's slices are merged by rule, name of the sink, file, first and last line (`Place`), so two calls of
  `cursor.execute` on one line make one slice: `FlowsFound` promises a rule's flow a slice with the name, the
  file and the lines of a flow between its ends, not one of its own nodes. A match of a regular expression has
  neither ends nor a path, but may be merged with a flow all the same.
* A report names its primary's rule and the rules after the first of the cluster that are in the catalog. Under
  a primary that is in none (`PATH_DISCOVERY`) the first is named nowhere; it does give the report its polarity.
  `NoFindingLost` states exactly that exception.
* In `DependencyScan` every scan has its own queries and lookups; `nvdCache` and `nvdFile` belong to all.
  `nvdAnswered` holds what NVD answered and the system has not lost since: a process that ends loses what the
  file's last good write did not have (`nvdKept`), all of it when that file is torn or cannot be read.
* `FlowSearch` computes `_score_path` in integers, over a common denominator; `Score` keeps every
  term the code has. Label and regex matching are in the nodes' `srcs`, `snks`, `also` and `foreign`.
* `AuthTokens` has one integer clock; a token issued in an instant is not expired in that instant. The
  TTL monitor of the database may remove a revocation at any time after its date.

## Runs

Parts that share no state share a run: its MC module has a variable `part` that says which one
takes steps in a behaviour, while the others stay at one initial state. Every part's behaviours are
checked in full; the number of states is the sum over the parts.

| Run | Instance | Shows |
|---|---|---|
| `scan_lifecycle` | 1 scan of any kind, 3 files, 2 targets, all faults (326,675 states) | no document left PENDING or RUNNING; verdict and summary of one run; temp tree removed; deleted stays deleted; refinement of `ScanRecord`; every worker ends |
| `scan_outcome` | evidence: all 12 strategies, 2 targets, 2 DAST findings; stream: 1 scan, 1 stream, 5 lines (31,512 states) | no unearned pass; an answer never clears a scan's fail; a live reproduction always fails; every line once and in order; verdict line before the closing message; streams of finished scans close |
| `user_requests` | quota: a limited user (limit 1) with 4 requests, an admin with 2, 2 open, 2 days; sessions: 2 requests in flight, 2 tokens, 1 account, 1 reset link, clock 0..1, failing writes; limiter: 2 buckets of 2 calls, windows 1 and 3, 6 instants; results: 2 requests of owner or admin on one control that a scan may fail (2.9 million states, requests and tokens symmetric) | overrun bounded by requests in flight; a token whose logout was answered is refused; a request acts with a role its user had while it ran; a reset link used once changes no password again; no window admits more than its limit, sweep or not; `scan_failed` is the scan's own fail; the owner's submission counts |
| `dynamic_scan` | sweep: 5 requests that between them use every option, 2 URLs, caps of 1 or 2, every failure; the engines: see Bounds (674,061 states) | sweep: resources released at every exit, every item tried, audit exact, findings never taken back, progress in its window, it ends. Engines: an extracted byte is the server's; a change of load is no finding; a conclusive verdict needs a weakness; a weakness behind any parameter of a plain target is reported; a probe's fail is real and closes what it opened; the crawl visits nearest pages first, each once, up to its limit; the re-login flag of a session never outlives the call that raised it, failed or cancelled, and a 401 reaches a caller only where no login helps or another call was logging in |
| `static_analysis` | classifier: 4 slices, budget 3, 2 workers, 3 models of 2 providers; search: 6,144 code graphs of 6 nodes and 5 jobs; pipeline: 3 analyses with overlapping findings of 3 rules; dependencies: 3 packages, 3 CVEs, 2 scans that may overlap, 1 crash, reads and writes of the cache file that fail; graph: 3 repositories of 4 files, 2 threads (605,932 states) | each slice classified once, drained only when every pool is dead, one loss per dead pool, it returns; every flow within the budgets has a slice, of its own or one the report cannot tell from it; every finding is in one report with its controls, which names its rule unless the code's exception applies; no scan asks NVD what any scan was told and the file or the process still knows; a name imported over a chain of re-exports is linked to the function it comes from |
| `cancel_sticks` | violation | a worker overwrites CANCELLED |
| `dast_fail_wins` | violation | a control passes although DAST failed it |
| `pass_searched` | violation | pass by absence after an analysis timeout |
| `logout_false_fail` | violation | a target that ends the session on logout is reported as failing the logout check |
| `polarity_merge` | violation | a merged finding has one rule's polarity and another's controls |
| `unreachable_pass` | violation | the dependency control passes when OSV answered nothing |
| `discovery_blind` | violation | nothing that starts in a source that is also a sink is discovered |

**Bounds.** Scans share the event loop, the NVD cache and its file, and nothing else, so in
`ScanLifecycle` one scan meets every interleaving of its own writers; `DependencyScan` runs two at once, which
is the least for a lookup that overlaps another's, and one crash for a second process. The theorems cover any number. Three files and two targets separate "first", "between"
and "last". Two requests suffice for check-then-act races, three models for a provider block that
takes a sibling, a budget below the number of slices for the over-budget path, two targets for a
disagreement between them. Streams do not see each other, so one is enough.
A sweep's URLs matter by number and novelty: `t` and one other, with discovery reporting up to two
(`MaxFound`), give "known", "new", "reported twice" and "beyond the cap"; with a cap of one form,
two found forms exceed it. The timing series have the code's lengths (3 and 7), latencies of 1 or 2
against a delay of 10 and a timeout of 20, and one stall or one jump of load, which can fall on any sample; the
bytes to extract lie below, at, inside and above the searched range. Two parameters per URL put a
weakness in front of and behind a harmless one. Three racing requests against a limit of one exceed it
by one and by two. The crawled sites have six pages at up to three clicks against limits of four pages and depth
two, with links back, out, and to one page at two depths. Three calls on one session are the least for one that
renews, one that fails meanwhile and one that starts afterwards. The code graphs put a sanitizer, a
guard, a file boundary, a second source or sink and a loop on the way, against a depth of 5, 2 hops, 3 paths
and 8 operations, so that each limit is met; their six optional edges are taken in every
combination. A re-export chain of two passes needs two rounds of the fixpoint in some completion orders.
`MaxLogs`, `MaxDay`, `MaxOpen`, `MaxTime`, `MaxNow`, `MaxExpiries`, `MaxStalls`, `MaxJumps` and
`MaxCrashes` only stop counters. Deadlock checking is off throughout: all these systems may simply have nothing left to do.

**Fairness.** `scan_lifecycle`: weak fairness of the worker's own steps while the loop is free,
because each of its awaits is bounded by a `wait_for` or answered by the driver. Nothing is
assumed of the parser thread, of git, of users or of faults. `static_analysis`: weak fairness
of each classifier task, whose only await is a call under `wait_for`. `scan_outcome`: weak fairness of the
stream's own round (a half-second sleep), none of the writer. `dynamic_scan`: weak fairness of
the sweep's steps, because each of its awaits is under `wait_for` or the HTTP clients' timeout; none of
the cancellation. A fairness condition on one part leaves only behaviours of that part (and those where it
has nothing to do), which is what its liveness property is about; safety is not affected.

## Disagreements with the repository's own words

The seven violation runs, quoted in `PROJECT.json`. Also seen while modelling, without a run of their
own: the quota is documented per month and counted per day (`core/permissions.py:100,113`); a probe
control takes only its first target's reading (`asvs_service.py:1437`); `reset_soft_exhausted`
runs once per worker and not per finding (`llm_pool.py:343`, `classifier.py:194`); deleting a scan
leaves its `asvs_results` (`routes/scans.py:623`, `scan_service.py:2723`); two overlapping start
requests can both pass the quota check although it is said to raise 429 at the limit
(`core/permissions.py:104,128`; `OverrunBound` says how far the overrun can go). In the sweep: the
audit record is said to hold "every check that actually performed a side-effecting
(active_mode-gated) request" (`scan_service.py:1014`) but misses the state crawl, five of the seven
payload rules that require active mode and the bridge's JWT and DOM re-tests, and holds the passive
logout-visibility check; `_DAST_TOTAL_CHECKPOINTS` is 15 and said to be the number of call
sites (`scan_service.py:1035`), which is 16; the handlers log "0 result(s)" while the earlier findings are
returned (`scan_service.py:1797,1819`).

An admin's answer for another user's scan is stored under the admin's id and never read for that scan
(`asvs_service.py:648`, against its line 23). The session retries no 401 while another call is logging
in (`session.py:320`), so a call that overlaps a re-login may return its 401; `SessionHeals` excuses
exactly that. `logout` answers success when the revocation could not be written (`routes/auth.py:117`); `LogoutSticks`
speaks of those that could. The JWT probe reports CONFIRMED on a page that needs no token at all
(`jwt_probe.py:221`, against its lines 14-15). Crawled forms may land on another origin, whose URL joins the sweep's list
(`state_crawler.py:163`, `scan_service.py:1226`). The WebRTC flood probe knows its peers only after `gather`: cancelled
before, it closes none of them (`webrtc_probe.py:230`). SSTI, NoSQL and command checks report PASS when the harmless
request was answered and every payload was lost (`verdict.py:11`). In the dynamic probe,
`_check_git_exposure` passes when every request raised and `_check_mtls_client_cert_trust` leaves its first temporary file
behind. NVD's 404 is cached for good; lookups are "sequential, not concurrent" to stay under NVD's
rate limit (`nvd_client.py:143-145`), but two scans' batches run at the same time; "the full picture" that
`contributing_rules` is for (`pipeline.py:959-961`) lacks the first rule under a path-discovery primary; one `package-lock.json` anywhere suppresses every
`package.json`; an exception while configuration files are collected discards all findings
(`pipeline.py:519`). In the repository graph a module's name has no extension, so `utils.py` and `utils.js` replace each
other (`multi_file_repo_graph.py:1623`); the cache is keyed by content alone, so two equal files
share node ids (`:1582`, against `:1646`); a suffix that fits two modules takes the one that was parsed
first (`:243`); uses of a wildcard import are looked up under the name `*` (`:1330`).

## Proofs

All theorems hold for every value of the constants allowed by the named assumptions. Of the
properties the passing runs check, every safety property is proved, for every value of the constants. Few are inductive alone; each
module states the strengthening and proves it with one lemma per action.

* **`ScanLifecycle_proofs`**: `TypeCorrect`, `NothingLeftBehind`, `VerdictSummary`,
  `TempReleased`, `DeletedForGood`. A verdict agrees with
  its summary only because a worker past its verdict no longer changes its locals, and a temp tree
  is gone at the end only because it exists between fetching and cleanup alone; so the inductive
  invariant adds which program counters go with which document state, temp set and indices.
  `ServiceImplementsRecord` is the refinement of `ScanRecord`: every step of the service is a step of the
  record or leaves it alone. It needs in addition that a worker that has not been started has no document (`Unborn`).
* **`ScanOutcome_proofs`**: the live stream and the evidence. `StreamInOrder`, `VerdictLineSent`. What the client holds is a prefix of the
  document's log, as long as `last_log_count` says; the lines a stream reads after a final state
  include the line that verdict wrote, because the log only grows (`ConnOK`). `EvidenceTyped`, `PassEarned`,
  `AnswerCannotClear`, `ReproductionFails`: the last needs the stored summary to be a correlated one.
* **`Access_proofs`**: quota, sessions, limiter and attestations. `QuotaOverrun` needs that no document is dated after today (so a new
  day starts from zero) and that admitted requests are at most `MaxOpen`; the cardinality of the
  two sets is followed through each action. `LogoutHolds`, `RoleIsFresh`, `LinkWorksOnce` rest on what
  each request in flight has read (`RequestOK`) and on which tokens the revocations still have to hold
  back (`StoreOK`); reset links and bearer tokens are different strings (`LinkAssumption`). `WindowsHold`: a bucket is what is left of its history after
  the old calls were dropped, and the sweep drops a bucket only when nothing in it counts any more. `ScanFailed`,
  `OwnerCounted`: the inductive invariant relates what a request has read so far to the order in which the documents
  can change: an answer is never withdrawn, a deleted scan never returns.
* **`DynamicSweep_proofs`**: `ResourcesReleased`, `ProgressAdvances`, `AllTried`, `NothingTakenBack`, `AuditIsExact`. `Released` speaks of the
  exits only; the strengthening `Tidy` says that nothing is acquired before its place, that the
  browser is open only while the DOM loop has items left, and that the `finally` is reached without
  clients. `ProgressAdvances` rests on the checkpoint staying within its total and on a lemma about
  the monotonicity of the integer share of the window. `TriedInv` says for each stage which items are
  behind it and which in `todo`; `AuditIsExact` needs that each probe has at most one finding (`FoundOnce`),
  that the record holds a probe exactly when its finding says it ran (`Recorded`), and that the record is built in the order
  of the findings (`InOrderIs`).
* **`StaticAnalysis_proofs`**: the classifier, the dependency scan and the path searches. `NoSliceLost`, `FallbackIsLast` and
  `LossesBounded` share one invariant: a slice is in the queue, in one worker's hand or settled; it is settled
  as drained only after every worker has stopped; and every slice lost to
  an exhausted pool is blamed on a different dead worker (`Blamed`), of which there are finitely many (`WorkersAssumption`).
  `NeverAskedAgain`: all that counts as answered is in the cache once it is loaded, and before that in the
  file; what the last good write kept is in the file (`CacheInv`). A lookup that does not find its CVE
  in the loaded cache therefore asks for one that does not count. An overlapping scan's answer only adds to the cache; a write that
  fails or tears the file changes what the next process will know, which is what `nvdKept` follows.
  `FlowsAreFound`: the searches of path discovery and of the rules hide no flow. `PathsFromAre` says what the property's
  paths are: walks without repetition along followed edges. The invariant of a search (`Search`) gives each node, with the
  count of file boundaries it was first reached with, the length `d` of the path that reached it. The queue holds paths of one length and then
  of the next (`InLevels`, breadth first), each within the bounds (`Sound`), and every node of such a path was met no later and with no higher count
  than the path has there (`Traced`). A node that was met and may be gone on from (`Owed`) has its first path in the queue (`Waits`) or has
  had every neighbor tried (`Explored`): the neighbor was met on a path no longer, with a count no higher than that step can cost, or it is
  a sink that waits in the queue or has a recorded path. A neighbor skipped because the path already holds it was met before, by `Traced`.
  Remembering a node by its count alone loses no flow because a step costs at most one boundary whatever file the path comes
  from (`Cost`), so a flow that stays in bounds with nodes of unknown file counted as files of their own is overtaken, node by node, by what
  was met (`SearchComplete`).
  Around the searches, `FlowInv` says that every source is in `ftodo`, the current one, or done with
  (`Complete`). `DiscoveredIs` and `ExecutedIs` follow the paths through score, ranking, duplicates and truncation to the slices, for a rule to a slice of the same `Place`: `PlacesAre`,
  the list `BestOf` keeps is a permutation when nothing is cut off; `FirstBest`, every place has a slice nothing outranks.
  Assumed: limits are naturals and the depth is not 0 (`LimitsAssumption`), edges end at nodes (`GraphAssumption`),
  and a rule's confidence and severity are naturals (`JobAssumption`).
* **`DastEngines_proofs`**: what the sweep's engines conclude.
  `SessionRecovers`: exactly one call holds the flag
  while it is up, and a call about to be sent again has a token the target accepts unless the
  session expired since; it needs `accepted <= issued + 1`, that no login gives a token already expired.
  `ProbesAreReal`, `SignalsAreReal` and `HolesAreFound`: what a probe or a check has seen so far comes from the
  weakness or from what was there before it (`ReadingsTell`), and each verdict needs such a sight (`VerdictsEarned`).
  `EscalationProves`: with an odd number of samples, of which fewer than half can stall, and latencies that vary by less than
  one and a half delays (`SeriesAssumption`), the medians differ by the
  delay only if the server sleeps, and the character searched for stays between the bounds.
  `NoiseIsNoLeak`: one change of the load divides both interleaved series at the same place or A's one
  sample later; the medians differ only if that place is the middle, and there the deviation,
  nearly half of the difference, times a multiplier of at least three exceeds it. A load that changed in step with the alternation would
  defeat it, hence the bound on the changes.
  `CrawlNearestFirst`: the queue is the rest of one round of a breadth-first search followed by the
  start of the next (`Frontier`), what was visited is every page of the rounds before; `SiteAssumption` says that
  a site's links and forms are finite sequences.

* **`RepositoryAnalysis_proofs`**: the repository graph and the pipeline. `ImportsReach`: a pass over
  the re-exports loses no name of a file, and each name it adds has an origin among the files behind that file
  (`GroundTables`); the loop stops when a pass changes nothing, and a table that a pass does not change holds every
  name the files behind it export (`Complete`). Linking then
  finds such an origin. Assumed: every file has a text and a module name, and a text's re-exports are a finite sequence.
  `FindingsKept` rests on `ClustersIs`: the parents of the union-find are always a forest whose depth is bounded by the
  number of findings that are not roots (`IsForest`), so the bounded climb of `Root` reaches the root; each union joins two trees of
  linked findings (`SoundForests`), and in the end sameness never crosses trees. Then each
  cluster has a strongest first finding (`PrimaryIs`), no two clusters share one, and the list of reports
  names each report once (`SetToSeqIs`). A finding's rule is the primary's, or one of the cluster's catalogued rules, all
  of which a report lists but the first (`ReportsTell`). Assumed: a slice does not end before it starts (`SliceAssumption`), without
  which a slice would not be the same finding as itself.

What recursive functions compute is derived by induction over a *set* of naturals (`LeastNat`, `Climb` of
`Common_proofs`), from the well-foundedness of `<`, because the library's induction theorems take an operator
as parameter, which the installed provers cannot instantiate; `Recursion` gives such a function its values. Folds and
filters of the community modules are opaque to the provers: `Not` of `Selection` and the loops of `RepoGraph`, `FlowSearch` and
`AnalysisPipeline` are recursive functions for that reason.

Only model-checked: the liveness properties (`Settles`, `Finishes`, `StreamsEnd`, `Ends`: fairness and `ENABLED`
are out of the prover's reach).

## Not modelled

Parsers and in-file graphs (translation of concrete syntax, no protocol state), the texts of payloads and
the regular expressions that judge a reflection, rendering of reports and PDFs,
e-mail, evidence file storage, seeding and configuration. `dynamic_probe.py`, probe discovery and the
inspectors are single requests or single files read into one finding each, without state between
them. The process is one event loop, as deployed
by the Dockerfile; several processes would only add writers to documents already written at any
time, except for the in-memory rate limiter and the NVD cache, of which each process would have its own over
one file.

## Plan

Done: scan lifecycle and record, live stream, quota, ASVS verdicts, evidence and results,
classifier workers, dynamic sweep, authentication and rate limiter, DAST session, checks, probes and
crawlers, repository graph, path searches, pipeline and dependency scan.

1. The interprocedural fixpoint against a reachability reference; bridge target selection; the classifier's
   combination of severities; the archive extraction budget.
