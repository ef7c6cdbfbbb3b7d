------------------------ MODULE ScanLifecycle_proofs ------------------------
(***************************************************************************)
(* Invariance proofs for ScanLifecycle, for any set of scans and any       *)
(* bounds.  The inductive invariant IInv is local: it says of every scan,  *)
(* separately, how its document, its worker and its heartbeat fit          *)
(* together, so all actions but Crash are handled through Frame: only the  *)
(* scan the action is about has to be looked at.                           *)
(***************************************************************************)
EXTENDS ScanLifecycle, TLAPS

Early  == {"idle", "inserted", "begin", "announce", "fetch", "cloning", "collect"}
Closed == {"failing", "cleanup", "ended", "lost"}

\* The worker w with p files parsed and heartbeat write q: the counters its pc
\* relies on are in range, and nothing is counted before it exists.
WorkerOK(w, p, q) ==
    /\ w.pc \in Early => w.files = 0 /\ w.idx = 0 /\ p = 0 /\ q = NoWrite
    /\ w.pc = "analyse" => w.files >= 1 /\ w.idx = 0
    /\ w.pc = "files" => w.files >= 1 /\ w.idx <= w.files
    /\ w.pc = "sweep" => w.kind # "code" /\ w.targets >= 1 /\ w.idx <= w.targets
    /\ w.pc = "announce" => w.kind = "code"
    /\ w.pc \in {"fetch", "cloning", "collect", "files"} => w.kind \in RepoKinds
    /\ w.kind = "dynamic" => w.files = 0
    /\ w.kind = "dynamic" => w.targets >= 1
    /\ w.kind = "code" => w.sweeps = {}
    /\ w.kind = "code" /\ w.pc \in {"analyse", "complete"} => w.files = 1
    /\ p <= w.files /\ q <= w.files
    /\ q >= 0 => w.files >= 1

\* The document d of worker w: a verdict comes with its summary, and COMPLETED
\* only once the worker can no longer change what the summary counts.
DocOK(d, w) ==
    /\ d.state = "COMPLETED" =>
          /\ w.pc \in Closed
          /\ d.summary.status = "COMPLETED"
          /\ d.summary.total = w.files /\ d.total = w.files
          /\ d.summary.sweeps = w.sweeps
    /\ d.state = "FAILED" => d.summary.status = "FAILED"
    /\ d.state # "ABSENT" /\ w.kind # "code" /\ w.pc \notin Closed => d.total = w.files

\* A worker that owns a temp_root is a repository worker between mkdtemp and
\* the rmtree of its finally clause (or was killed there).
OwnsTemp(w) ==
    /\ w.kind \in RepoKinds
    /\ w.pc \notin {"idle", "inserted", "begin", "announce", "fetch", "ended"}

ScanOK(s) ==
    /\ WorkerOK(wk[s], parsed[s], pending[s])
    /\ DocOK(db[s], wk[s])
    /\ wk[s].pc \in {"cleanup", "ended"} /\ s \notin abandoned
          => db[s].state \in Terminal \cup {"ABSENT"}
    /\ s \in temp => OwnsTemp(wk[s])

IInv == TypeOK /\ \A s \in Scans : ScanOK(s)

-----------------------------------------------------------------------------
(* Facts about values *)

\* A truncated share of a progress window stays inside the window.
LEMMA ShareBound ==
    ASSUME NEW done \in Nat, NEW all \in Nat \ {0}, done <= all, NEW width \in Nat
    PROVE  Share(done, all, width) \in 0..width
<1>1. done * width <= all * width /\ done * width \in Nat
    OBVIOUS
<1>2. (done * width) \div all \in Nat
    BY <1>1
<1>3. (done * width) \div all <= width
    BY <1>1
<1> QED
    BY <1>2, <1>3 DEF Share

\* The edits the code makes to a document keep it a document.
LEMMA EditProgress ==
    ASSUME NEW d \in Docs, NEW p \in 0..100
    PROVE  [d EXCEPT !.progress = p] \in Docs
BY DEF Docs

LEMMA EditState ==
    ASSUME NEW d \in Docs, NEW st \in States
    PROVE  [d EXCEPT !.state = st] \in Docs
BY DEF Docs

LEMMA EditStateProgress ==
    ASSUME NEW d \in Docs, NEW st \in States, NEW p \in 0..100
    PROVE  [d EXCEPT !.state = st, !.progress = p] \in Docs
BY DEF Docs

LEMMA EditTotal ==
    ASSUME NEW d \in Docs, NEW n \in 0..MaxFiles, NEW p \in 0..100
    PROVE  [d EXCEPT !.total = n, !.progress = p] \in Docs
BY DEF Docs

LEMMA EditFiles ==
    ASSUME NEW d \in Docs, NEW f \in 0..MaxFiles, NEW p \in 0..100
    PROVE  /\ [d EXCEPT !.files = f, !.progress = p] \in Docs
           /\ [d EXCEPT !.progress = p, !.files = f] \in Docs
BY DEF Docs

LEMMA EditFailed ==
    ASSUME NEW d \in Docs, NEW st \in States, NEW y \in Summaries
    PROVE  [d EXCEPT !.state = st, !.summary = y] \in Docs
BY DEF Docs

LEMMA EditVerdict ==
    ASSUME NEW d \in Docs, NEW st \in States, NEW p \in 0..100, NEW y \in Summaries
    PROVE  [d EXCEPT !.state = st, !.progress = p, !.summary = y] \in Docs
BY DEF Docs

LEMMA EditAll ==
    ASSUME NEW d \in Docs, NEW st \in States, NEW p \in 0..100, NEW f \in 0..MaxFiles,
           NEW n \in 0..MaxFiles, NEW y \in Summaries
    PROVE  [d EXCEPT !.state = st, !.progress = p, !.files = f, !.total = n,
                     !.summary = y] \in Docs
BY DEF Docs

\* The constants the edits use are of the right type.
LEMMA Values ==
    /\ States = {"ABSENT", "PENDING", "RUNNING", "COMPLETED", "FAILED", "CANCELLED"}
    /\ NoSummary \in Summaries /\ ErrSummary \in Summaries
    /\ ErrSummary.status = "FAILED"
    /\ NoDoc \in Docs /\ NoDoc.state = "ABSENT" /\ NoDoc.total = 0
    /\ PendingDoc \in Docs /\ PendingDoc.state = "PENDING" /\ PendingDoc.total = 0
    /\ {0, 5, 10, 20, 25, 100} \subseteq 0..100
    /\ 0 \in 0..MaxFiles /\ 1 \in 0..MaxFiles
<1>1. States = {"ABSENT", "PENDING", "RUNNING", "COMPLETED", "FAILED", "CANCELLED"}
    BY DEF States, Terminal
<1>2. 0 \in 0..MaxFiles /\ 1 \in 0..MaxFiles /\ {0, 5, 10, 20, 25, 100} \subseteq 0..100
    BY BoundsAssumption
<1>3. NoSummary \in Summaries
    BY <1>2 DEF NoSummary, Summaries, Outcomes
<1>4. ErrSummary \in Summaries /\ ErrSummary.status = "FAILED"
    BY <1>2 DEF ErrSummary, NoSummary, Summaries, Outcomes
<1>5. NoDoc \in Docs /\ NoDoc.state = "ABSENT" /\ NoDoc.total = 0
    BY <1>1, <1>2, <1>3 DEF NoDoc, Docs
<1>6. PendingDoc \in Docs /\ PendingDoc.state = "PENDING" /\ PendingDoc.total = 0
    BY <1>1, <1>2, <1>3 DEF PendingDoc, NoDoc, Docs
<1> QED
    BY <1>1, <1>2, <1>3, <1>4, <1>5, <1>6

\* What an update_one does to the collection.
LEMMA UpdateScan ==
    ASSUME NEW s \in Scans, db \in [Scans -> Docs], NEW d \in Docs, _update_scan(s, d)
    PROVE  /\ db' \in [Scans -> Docs]
           /\ \A t \in Scans \ {s} : db'[t] = db[t]
           /\ db'[s] = IF db[s].state = "ABSENT" THEN db[s] ELSE d
BY DEF _update_scan

\* A worker that raises keeps its local variables.
LEMMA RaisedWorker ==
    ASSUME NEW w \in Workers, NEW p, NEW q, WorkerOK(w, p, q)
    PROVE  LET f == [w EXCEPT !.pc = "failing"] IN
           /\ f \in Workers /\ f.pc = "failing" /\ WorkerOK(f, p, q)
           /\ f.kind = w.kind /\ f.files = w.files /\ f.sweeps = w.sweeps
BY DEF Workers, PCs, WorkerOK, Early, RepoKinds

-----------------------------------------------------------------------------
(* Steps that concern one scan *)

Elsewhere(s) ==
    \A t \in Scans \ {s} :
        /\ db'[t] = db[t] /\ wk'[t] = wk[t]
        /\ parsed'[t] = parsed[t] /\ pending'[t] = pending[t]
        /\ (t \in temp') = (t \in temp)
        /\ (t \in abandoned') = (t \in abandoned)

\* An action about scan s only has to re-establish the invariant of s.
LEMMA Frame ==
    ASSUME IInv, NEW s \in Scans, Elsewhere(s), TypeOK', ScanOK(s)'
    PROVE  IInv'
<1> SUFFICES ASSUME NEW t \in Scans, t # s PROVE ScanOK(t)'
    BY DEF IInv
<1>1. /\ db'[t] = db[t] /\ wk'[t] = wk[t]
      /\ parsed'[t] = parsed[t] /\ pending'[t] = pending[t]
      /\ (t \in temp') = (t \in temp)
      /\ (t \in abandoned') = (t \in abandoned)
    BY DEF Elsewhere
<1>2. ScanOK(t)
    BY DEF IInv
<1> QED
    BY <1>1, <1>2 DEF ScanOK

\* The worker of s writes d and resumes as w.
LEMMA WorkerWrites ==
    ASSUME IInv, NEW s \in Scans, NEW d \in Docs, NEW w \in Workers,
           _update_scan(s, d), Resume(s, w), UNCHANGED <<parsed, pending, temp, requests>>,
           reported' \in [Scans -> NoWrite..MaxFiles],
           WorkerOK(w, parsed[s], pending[s]),
           db[s].state # "ABSENT" => DocOK(d, w),
           db[s].state # "ABSENT" => DocOK(d, [wk[s] EXCEPT !.pc = "failing"]),
           w.pc \in {"cleanup", "ended"} => d.state \in Terminal,
           s \in temp => OwnsTemp(w)
    PROVE  IInv'
<1>1. TypeOK /\ ScanOK(s) /\ wk[s] \in Workers /\ wk \in [Scans -> Workers]
    BY DEF IInv, TypeOK
<1>2. PICK v \in {w, [wk[s] EXCEPT !.pc = "failing"]} : wk' = [wk EXCEPT ![s] = v]
    BY <1>1 DEF Resume
<1>3. /\ [wk[s] EXCEPT !.pc = "failing"] \in Workers
      /\ [wk[s] EXCEPT !.pc = "failing"].pc = "failing"
      /\ [wk[s] EXCEPT !.pc = "failing"].kind = wk[s].kind
      /\ WorkerOK([wk[s] EXCEPT !.pc = "failing"], parsed[s], pending[s])
    BY <1>1, RaisedWorker DEF ScanOK
<1>4. /\ v \in Workers /\ WorkerOK(v, parsed[s], pending[s])
      /\ db[s].state # "ABSENT" => DocOK(d, v)
      /\ v.pc \in {"cleanup", "ended"} => d.state \in Terminal
      /\ s \in temp => OwnsTemp(v)
    BY <1>1, <1>2, <1>3 DEF ScanOK, OwnsTemp
<1>5. /\ db' \in [Scans -> Docs]
      /\ \A t \in Scans \ {s} : db'[t] = db[t]
      /\ db'[s] = IF db[s].state = "ABSENT" THEN db[s] ELSE d
    BY <1>1, UpdateScan DEF TypeOK
<1>6. /\ parsed' = parsed /\ pending' = pending /\ temp' = temp
      /\ cancelling' = cancelling /\ abandoned' = abandoned
    BY DEF requests
<1>7. wk' \in [Scans -> Workers] /\ wk'[s] = v /\ \A t \in Scans \ {s} : wk'[t] = wk[t]
    BY <1>1, <1>2, <1>4
<1>8. TypeOK' /\ Elsewhere(s)
    BY <1>1, <1>5, <1>6, <1>7 DEF TypeOK, Elsewhere
<1>9. DocOK(db'[s], v)
    <2>1. CASE db[s].state = "ABSENT"
        BY <2>1, <1>5 DEF DocOK
    <2>2. CASE db[s].state # "ABSENT"
        BY <2>2, <1>5, <1>4
    <2> QED
        BY <2>1, <2>2
<1>10. v.pc \in {"cleanup", "ended"} => db'[s].state \in Terminal \cup {"ABSENT"}
    BY <1>4, <1>5
<1>11. ScanOK(s)'
    BY <1>4, <1>6, <1>7, <1>9, <1>10 DEF ScanOK
<1> QED
    BY <1>8, <1>11, Frame

\* The worker of s moves to w without touching the document; its heartbeat's
\* write, its temp_root and its failed FAILED write may change with it.
LEMMA WorkerMoves ==
    ASSUME IInv, NEW s \in Scans, NEW w \in Workers,
           wk' = [wk EXCEPT ![s] = w], UNCHANGED <<db, parsed, reported, cancelling>>,
           pending' \in [Scans -> Broken..MaxFiles],
           temp' \subseteq Scans, abandoned' \subseteq Scans,
           \A t \in Scans \ {s} : /\ pending'[t] = pending[t]
                                  /\ (t \in temp') = (t \in temp)
                                  /\ (t \in abandoned') = (t \in abandoned),
           WorkerOK(w, parsed[s], pending'[s]), DocOK(db[s], w),
           w.pc \in {"cleanup", "ended"} /\ s \notin abandoned'
                => db[s].state \in Terminal \cup {"ABSENT"},
           s \in temp' => OwnsTemp(w)
    PROVE  IInv'
<1>1. TypeOK /\ ScanOK(s) /\ wk \in [Scans -> Workers]
    BY DEF IInv, TypeOK
<1>2. wk' \in [Scans -> Workers] /\ wk'[s] = w /\ \A t \in Scans \ {s} : wk'[t] = wk[t]
    BY <1>1
<1>3. TypeOK' /\ Elsewhere(s)
    BY <1>1, <1>2 DEF TypeOK, Elsewhere
<1>4. ScanOK(s)'
    BY <1>2 DEF ScanOK
<1> QED
    BY <1>3, <1>4, Frame

\* The same when only the worker changes.
LEMMA WorkerTurns ==
    ASSUME IInv, NEW s \in Scans, NEW w \in Workers,
           wk' = [wk EXCEPT ![s] = w], UNCHANGED <<db, heartbeat, temp, requests>>,
           WorkerOK(w, parsed[s], pending[s]), DocOK(db[s], w),
           w.pc \notin {"cleanup", "ended"},
           s \in temp => OwnsTemp(w)
    PROVE  IInv'
<1>1. /\ parsed' = parsed /\ reported' = reported /\ pending' = pending /\ temp' = temp
      /\ cancelling' = cancelling /\ abandoned' = abandoned /\ db' = db
    BY DEF heartbeat, requests
<1>2. /\ pending' \in [Scans -> Broken..MaxFiles]
      /\ temp' \subseteq Scans /\ abandoned' \subseteq Scans
    BY <1>1 DEF IInv, TypeOK
<1> QED
    BY <1>1, <1>2, WorkerMoves

-----------------------------------------------------------------------------
(* The actions *)

\* What IInv gives about one scan.
LEMMA Local ==
    ASSUME IInv, NEW s \in Scans
    PROVE  /\ TypeOK /\ ScanOK(s) /\ WorkerOK(wk[s], parsed[s], pending[s])
           /\ DocOK(db[s], wk[s]) /\ (s \in temp => OwnsTemp(wk[s]))
           /\ db[s] \in Docs /\ wk[s] \in Workers /\ wk \in [Scans -> Workers]
           /\ parsed[s] \in 0..MaxFiles /\ pending[s] \in Broken..MaxFiles
           /\ reported \in [Scans -> NoWrite..MaxFiles]
BY DEF IInv, TypeOK, ScanOK

\* RUNNING is written by a worker that has counted nothing yet.
LEMMA BeginCodeKeeps ==
    ASSUME IInv, NEW s \in Scans, BeginCode(s)
    PROVE  IInv'
<1>1. /\ WorkerOK(wk[s], parsed[s], pending[s]) /\ (s \in temp => OwnsTemp(wk[s]))
      /\ DocOK(db[s], wk[s])
      /\ db[s] \in Docs /\ wk[s] \in Workers
      /\ reported \in [Scans -> NoWrite..MaxFiles]
    BY Local
<1> DEFINE d == [db[s] EXCEPT !.state = "RUNNING", !.progress = 10]
           w == [wk[s] EXCEPT !.pc = "announce"]
           f == [wk[s] EXCEPT !.pc = "failing"]
<1>2.
      /\ "RUNNING" \in States
      /\ 10 \in 0..100
    BY Values
<1>3. d \in Docs
    BY <1>1, <1>2, EditStateProgress
<1>4. d.state = "RUNNING" /\ d.total = db[s].total /\ d.summary = db[s].summary
    BY <1>1 DEF Docs
<1>5. w \in Workers /\ w.pc = "announce" /\ w.files = wk[s].files /\ w.idx = wk[s].idx
      /\ w.kind = wk[s].kind /\ w.targets = wk[s].targets /\ w.sweeps = wk[s].sweeps
    BY <1>1 DEF Workers, PCs, BeginCode
<1>6. f \in Workers /\ f.pc = "failing" /\ f.files = wk[s].files /\ f.sweeps = wk[s].sweeps
    BY <1>1, RaisedWorker
<1>7. WorkerOK(w, parsed[s], pending[s])
    BY <1>1, <1>5 DEF WorkerOK, Early, RepoKinds, NoWrite, BeginCode, Workers
<1>8. ASSUME db[s].state # "ABSENT" PROVE DocOK(d, w) /\ DocOK(d, f)
    <2>1. DocOK(d, w)
        BY <1>8, <1>1, <1>4, <1>5 DEF DocOK, Closed, WorkerOK, RepoKinds, Early, BeginCode
    <2>2. DocOK(d, f)
        BY <1>8, <1>1, <1>4, <1>6 DEF DocOK, Closed, WorkerOK, RepoKinds, Early, BeginCode
    <2> QED
        BY <2>1, <2>2
<1>9. /\ w.pc \in {"cleanup", "ended"} => d.state \in Terminal
      /\ s \in temp => OwnsTemp(w)
    BY <1>1, <1>4, <1>5 DEF OwnsTemp, Terminal, RepoKinds, BeginCode
<1>10. /\ _update_scan(s, d) /\ Resume(s, w)
       /\ UNCHANGED <<parsed, pending, temp, requests>>
       /\ reported' \in [Scans -> NoWrite..MaxFiles]
    BY <1>1 DEF BeginCode, heartbeat
<1> HIDE DEF d, w, f
<1>11. db[s].state # "ABSENT" => DocOK(d, [wk[s] EXCEPT !.pc = "failing"])
    BY <1>8 DEF f
<1> QED
    BY <1>3, <1>5, <1>7, <1>8, <1>9, <1>10, <1>11, WorkerWrites

\* From here on a pasted snippet counts as one file.
LEMMA AnnounceCodeKeeps ==
    ASSUME IInv, NEW s \in Scans, AnnounceCode(s)
    PROVE  IInv'
<1>1. /\ WorkerOK(wk[s], parsed[s], pending[s]) /\ (s \in temp => OwnsTemp(wk[s]))
      /\ DocOK(db[s], wk[s])
      /\ db[s] \in Docs /\ wk[s] \in Workers
      /\ reported \in [Scans -> NoWrite..MaxFiles]
    BY Local
<1> DEFINE d == [db[s] EXCEPT !.progress = 25]
           w == [wk[s] EXCEPT !.pc = "analyse", !.files = 1]
           f == [wk[s] EXCEPT !.pc = "failing"]
<1>2. 25 \in 0..100
    BY Values
<1>3. d \in Docs
    BY <1>1, <1>2, EditProgress
<1>4. d.state = db[s].state /\ d.total = db[s].total /\ d.summary = db[s].summary
    BY <1>1 DEF Docs
<1>5. w \in Workers /\ w.pc = "analyse" /\ w.files = 1 /\ w.idx = wk[s].idx
      /\ w.kind = wk[s].kind /\ w.targets = wk[s].targets /\ w.sweeps = wk[s].sweeps
    BY <1>1, Values DEF Workers, PCs, AnnounceCode
<1>6. f \in Workers /\ f.pc = "failing" /\ f.files = wk[s].files /\ f.sweeps = wk[s].sweeps
    BY <1>1, RaisedWorker
<1>7. WorkerOK(w, parsed[s], pending[s])
    BY <1>1, <1>5, Values DEF WorkerOK, Early, RepoKinds, NoWrite, AnnounceCode, Workers
<1>8. ASSUME db[s].state # "ABSENT" PROVE DocOK(d, w) /\ DocOK(d, f)
    <2>1. DocOK(d, w)
        BY <1>8, <1>1, <1>4, <1>5 DEF DocOK, Closed, WorkerOK, RepoKinds, Early, AnnounceCode
    <2>2. DocOK(d, f)
        BY <1>8, <1>1, <1>4, <1>6 DEF DocOK, Closed, WorkerOK, RepoKinds, Early, AnnounceCode
    <2> QED
        BY <2>1, <2>2
<1>9. /\ w.pc \in {"cleanup", "ended"} => d.state \in Terminal
      /\ s \in temp => OwnsTemp(w)
    BY <1>1, <1>4, <1>5 DEF OwnsTemp, Terminal, RepoKinds, AnnounceCode
<1>10. /\ _update_scan(s, d) /\ Resume(s, w)
       /\ UNCHANGED <<parsed, pending, temp, requests>>
       /\ reported' \in [Scans -> NoWrite..MaxFiles]
    BY <1>1 DEF AnnounceCode, heartbeat
<1> HIDE DEF d, w, f
<1>11. db[s].state # "ABSENT" => DocOK(d, [wk[s] EXCEPT !.pc = "failing"])
    BY <1>8 DEF f
<1> QED
    BY <1>3, <1>5, <1>7, <1>8, <1>9, <1>10, <1>11, WorkerWrites

\* The repository worker has no temp_root before this write.
LEMMA BeginRepoKeeps ==
    ASSUME IInv, NEW s \in Scans, BeginRepo(s)
    PROVE  IInv'
<1>1. /\ WorkerOK(wk[s], parsed[s], pending[s]) /\ (s \in temp => OwnsTemp(wk[s]))
      /\ DocOK(db[s], wk[s])
      /\ db[s] \in Docs /\ wk[s] \in Workers
      /\ reported \in [Scans -> NoWrite..MaxFiles]
    BY Local
<1> DEFINE d == [db[s] EXCEPT !.state = "RUNNING", !.progress = 5]
           w == [wk[s] EXCEPT !.pc = "fetch"]
           f == [wk[s] EXCEPT !.pc = "failing"]
<1>2.
      /\ "RUNNING" \in States
      /\ 5 \in 0..100
    BY Values
<1>3. d \in Docs
    BY <1>1, <1>2, EditStateProgress
<1>4. d.state = "RUNNING" /\ d.total = db[s].total /\ d.summary = db[s].summary
    BY <1>1 DEF Docs
<1>5. w \in Workers /\ w.pc = "fetch" /\ w.files = wk[s].files /\ w.idx = wk[s].idx
      /\ w.kind = wk[s].kind /\ w.targets = wk[s].targets /\ w.sweeps = wk[s].sweeps
    BY <1>1 DEF Workers, PCs, BeginRepo
<1>6. f \in Workers /\ f.pc = "failing" /\ f.files = wk[s].files /\ f.sweeps = wk[s].sweeps
    BY <1>1, RaisedWorker
<1>7. WorkerOK(w, parsed[s], pending[s])
    BY <1>1, <1>5 DEF WorkerOK, Early, RepoKinds, NoWrite, BeginRepo, Workers
<1>8. ASSUME db[s].state # "ABSENT" PROVE DocOK(d, w) /\ DocOK(d, f)
    <2>1. DocOK(d, w)
        BY <1>8, <1>1, <1>4, <1>5 DEF DocOK, Closed, WorkerOK, RepoKinds, Early, BeginRepo
    <2>2. DocOK(d, f)
        BY <1>8, <1>1, <1>4, <1>6 DEF DocOK, Closed, WorkerOK, RepoKinds, Early, BeginRepo
    <2> QED
        BY <2>1, <2>2
<1>9. /\ w.pc \in {"cleanup", "ended"} => d.state \in Terminal
      /\ s \in temp => OwnsTemp(w)
    BY <1>1, <1>4, <1>5 DEF OwnsTemp, Terminal, RepoKinds, BeginRepo
<1>10. /\ _update_scan(s, d) /\ Resume(s, w)
       /\ UNCHANGED <<parsed, pending, temp, requests>>
       /\ reported' \in [Scans -> NoWrite..MaxFiles]
    BY <1>1 DEF BeginRepo, heartbeat
<1> HIDE DEF d, w, f
<1>11. db[s].state # "ABSENT" => DocOK(d, [wk[s] EXCEPT !.pc = "failing"])
    BY <1>8 DEF f
<1> QED
    BY <1>3, <1>5, <1>7, <1>8, <1>9, <1>10, <1>11, WorkerWrites

\* The summary of pasted code counts its one file and no sweep.
LEMMA CompleteCodeKeeps ==
    ASSUME IInv, NEW s \in Scans, CompleteCode(s)
    PROVE  IInv'
<1>1. /\ WorkerOK(wk[s], parsed[s], pending[s]) /\ (s \in temp => OwnsTemp(wk[s]))
      /\ DocOK(db[s], wk[s])
      /\ db[s] \in Docs /\ wk[s] \in Workers
      /\ reported \in [Scans -> NoWrite..MaxFiles]
    BY Local
<1> DEFINE y == [status |-> "COMPLETED", total |-> 1,
                 analysed |-> wk[s].analysed, sweeps |-> {}]
<1>0. /\ y \in Summaries
      /\ y.status = "COMPLETED" /\ y.total = 1 /\ y.sweeps = {}
    BY <1>1, Values DEF Summaries, Workers, Outcomes
<1> HIDE DEF y
<1> DEFINE d == [db[s] EXCEPT !.state = "COMPLETED", !.progress = 100, !.files = 1,
                        !.total = 1, !.summary = y]
           w == [wk[s] EXCEPT !.pc = "ended"]
           f == [wk[s] EXCEPT !.pc = "failing"]
<1>2.
      /\ "COMPLETED" \in States
      /\ 100 \in 0..100
      /\ 1 \in 0..MaxFiles
      /\ y \in Summaries
    BY Values, <1>0
<1>3. d \in Docs
    BY <1>1, <1>2, EditAll
<1>4. d.state = "COMPLETED" /\ d.total = 1 /\ d.summary = y
    BY <1>1 DEF Docs
<1>5. w \in Workers /\ w.pc = "ended" /\ w.files = wk[s].files /\ w.idx = wk[s].idx
      /\ w.kind = wk[s].kind /\ w.targets = wk[s].targets /\ w.sweeps = wk[s].sweeps
    BY <1>1 DEF Workers, PCs, CompleteCode
<1>6. f \in Workers /\ f.pc = "failing" /\ f.files = wk[s].files /\ f.sweeps = wk[s].sweeps
    BY <1>1, RaisedWorker
<1>7. WorkerOK(w, parsed[s], pending[s])
    BY <1>1, <1>5 DEF WorkerOK, Early, RepoKinds, NoWrite, CompleteCode, Workers
<1>8. ASSUME db[s].state # "ABSENT" PROVE DocOK(d, w) /\ DocOK(d, f)
    <2>1. DocOK(d, w)
        BY <1>8, <1>1, <1>4, <1>5, <1>0 DEF DocOK, Closed, WorkerOK, RepoKinds, Early, CompleteCode
    <2>2. DocOK(d, f)
        BY <1>8, <1>1, <1>4, <1>6, <1>0 DEF DocOK, Closed, WorkerOK, RepoKinds, Early, CompleteCode
    <2> QED
        BY <2>1, <2>2
<1>9. /\ w.pc \in {"cleanup", "ended"} => d.state \in Terminal
      /\ s \in temp => OwnsTemp(w)
    BY <1>1, <1>4, <1>5 DEF OwnsTemp, Terminal, RepoKinds, CompleteCode
<1>10. /\ _update_scan(s, d) /\ Resume(s, w)
       /\ UNCHANGED <<parsed, pending, temp, requests>>
       /\ reported' \in [Scans -> NoWrite..MaxFiles]
    BY <1>1 DEF CompleteCode, y, heartbeat
<1> HIDE DEF d, w, f
<1>11. db[s].state # "ABSENT" => DocOK(d, [wk[s] EXCEPT !.pc = "failing"])
    BY <1>8 DEF f
<1> QED
    BY <1>3, <1>5, <1>7, <1>8, <1>9, <1>10, <1>11, WorkerWrites

\* A dynamic scan counts no file and keeps every sweep that returned.
LEMMA CompleteDynamicKeeps ==
    ASSUME IInv, NEW s \in Scans, CompleteDynamic(s)
    PROVE  IInv'
<1>1. /\ WorkerOK(wk[s], parsed[s], pending[s]) /\ (s \in temp => OwnsTemp(wk[s]))
      /\ DocOK(db[s], wk[s])
      /\ db[s] \in Docs /\ wk[s] \in Workers
      /\ reported \in [Scans -> NoWrite..MaxFiles]
    BY Local
<1> DEFINE y == [status |-> "COMPLETED", total |-> 0,
                 analysed |-> "empty", sweeps |-> wk[s].sweeps]
<1>0. /\ y \in Summaries
      /\ y.status = "COMPLETED" /\ y.total = 0 /\ y.sweeps = wk[s].sweeps
    BY <1>1, Values DEF Summaries, Workers, Outcomes
<1> HIDE DEF y
<1> DEFINE d == [db[s] EXCEPT !.state = "COMPLETED", !.progress = 100, !.summary = y]
           w == [wk[s] EXCEPT !.pc = "ended"]
           f == [wk[s] EXCEPT !.pc = "failing"]
<1>2.
      /\ "COMPLETED" \in States
      /\ 100 \in 0..100
      /\ y \in Summaries
    BY Values, <1>0
<1>3. d \in Docs
    BY <1>1, <1>2, EditVerdict
<1>4. d.state = "COMPLETED" /\ d.total = db[s].total /\ d.summary = y
    BY <1>1 DEF Docs
<1>5. w \in Workers /\ w.pc = "ended" /\ w.files = wk[s].files /\ w.idx = wk[s].idx
      /\ w.kind = wk[s].kind /\ w.targets = wk[s].targets /\ w.sweeps = wk[s].sweeps
    BY <1>1 DEF Workers, PCs, CompleteDynamic
<1>6. f \in Workers /\ f.pc = "failing" /\ f.files = wk[s].files /\ f.sweeps = wk[s].sweeps
    BY <1>1, RaisedWorker
<1>7. WorkerOK(w, parsed[s], pending[s])
    BY <1>1, <1>5 DEF WorkerOK, Early, RepoKinds, NoWrite, CompleteDynamic, Workers
<1>8. ASSUME db[s].state # "ABSENT" PROVE DocOK(d, w) /\ DocOK(d, f)
    <2>1. DocOK(d, w)
        BY <1>8, <1>1, <1>4, <1>5, <1>0 DEF DocOK, Closed, WorkerOK, RepoKinds, Early, CompleteDynamic
    <2>2. DocOK(d, f)
        BY <1>8, <1>1, <1>4, <1>6, <1>0 DEF DocOK, Closed, WorkerOK, RepoKinds, Early, CompleteDynamic
    <2> QED
        BY <2>1, <2>2
<1>9. /\ w.pc \in {"cleanup", "ended"} => d.state \in Terminal
      /\ s \in temp => OwnsTemp(w)
    BY <1>1, <1>4, <1>5 DEF OwnsTemp, Terminal, RepoKinds, CompleteDynamic
<1>10. /\ _update_scan(s, d) /\ Resume(s, w)
       /\ UNCHANGED <<parsed, pending, temp, requests>>
       /\ reported' \in [Scans -> NoWrite..MaxFiles]
    BY <1>1 DEF CompleteDynamic, y, heartbeat
<1> HIDE DEF d, w, f
<1>11. db[s].state # "ABSENT" => DocOK(d, [wk[s] EXCEPT !.pc = "failing"])
    BY <1>8 DEF f
<1> QED
    BY <1>3, <1>5, <1>7, <1>8, <1>9, <1>10, <1>11, WorkerWrites

\* The document already carries the total the summary repeats.
LEMMA CompleteRepoKeeps ==
    ASSUME IInv, NEW s \in Scans, CompleteRepo(s)
    PROVE  IInv'
<1>1. /\ WorkerOK(wk[s], parsed[s], pending[s]) /\ (s \in temp => OwnsTemp(wk[s]))
      /\ DocOK(db[s], wk[s])
      /\ db[s] \in Docs /\ wk[s] \in Workers
      /\ reported \in [Scans -> NoWrite..MaxFiles]
    BY Local
<1> DEFINE y == [status |-> "COMPLETED", total |-> wk[s].files,
                 analysed |-> wk[s].analysed, sweeps |-> wk[s].sweeps]
<1>0. /\ y \in Summaries
      /\ y.status = "COMPLETED" /\ y.total = wk[s].files /\ y.sweeps = wk[s].sweeps
    BY <1>1, Values DEF Summaries, Workers, Outcomes
<1> HIDE DEF y
<1> DEFINE d == [db[s] EXCEPT !.state = "COMPLETED", !.progress = 100, !.summary = y]
           w == [wk[s] EXCEPT !.pc = "cleanup"]
           f == [wk[s] EXCEPT !.pc = "failing"]
<1>2.
      /\ "COMPLETED" \in States
      /\ 100 \in 0..100
      /\ y \in Summaries
    BY Values, <1>0
<1>3. d \in Docs
    BY <1>1, <1>2, EditVerdict
<1>4. d.state = "COMPLETED" /\ d.total = db[s].total /\ d.summary = y
    BY <1>1 DEF Docs
<1>5. w \in Workers /\ w.pc = "cleanup" /\ w.files = wk[s].files /\ w.idx = wk[s].idx
      /\ w.kind = wk[s].kind /\ w.targets = wk[s].targets /\ w.sweeps = wk[s].sweeps
    BY <1>1 DEF Workers, PCs, CompleteRepo
<1>6. f \in Workers /\ f.pc = "failing" /\ f.files = wk[s].files /\ f.sweeps = wk[s].sweeps
    BY <1>1, RaisedWorker
<1>7. WorkerOK(w, parsed[s], pending[s])
    BY <1>1, <1>5 DEF WorkerOK, Early, RepoKinds, NoWrite, CompleteRepo, Workers
<1>8. ASSUME db[s].state # "ABSENT" PROVE DocOK(d, w) /\ DocOK(d, f)
    <2>1. DocOK(d, w)
        BY <1>8, <1>1, <1>4, <1>5, <1>0 DEF DocOK, Closed, WorkerOK, RepoKinds, Early, CompleteRepo
    <2>2. DocOK(d, f)
        BY <1>8, <1>1, <1>4, <1>6, <1>0 DEF DocOK, Closed, WorkerOK, RepoKinds, Early, CompleteRepo
    <2> QED
        BY <2>1, <2>2
<1>9. /\ w.pc \in {"cleanup", "ended"} => d.state \in Terminal
      /\ s \in temp => OwnsTemp(w)
    BY <1>1, <1>4, <1>5 DEF OwnsTemp, Terminal, RepoKinds, CompleteRepo
<1>10. /\ _update_scan(s, d) /\ Resume(s, w)
       /\ UNCHANGED <<parsed, pending, temp, requests>>
       /\ reported' \in [Scans -> NoWrite..MaxFiles]
    BY <1>1 DEF CompleteRepo, y, heartbeat
<1> HIDE DEF d, w, f
<1>11. db[s].state # "ABSENT" => DocOK(d, [wk[s] EXCEPT !.pc = "failing"])
    BY <1>8 DEF f
<1> QED
    BY <1>3, <1>5, <1>7, <1>8, <1>9, <1>10, <1>11, WorkerWrites

\* A dynamic scan has a target, and none of them is swept yet.
LEMMA BeginDynamicKeeps ==
    ASSUME IInv, NEW s \in Scans, BeginDynamic(s)
    PROVE  IInv'
<1>1. /\ WorkerOK(wk[s], parsed[s], pending[s]) /\ (s \in temp => OwnsTemp(wk[s]))
      /\ DocOK(db[s], wk[s])
      /\ db[s] \in Docs /\ wk[s] \in Workers
      /\ reported \in [Scans -> NoWrite..MaxFiles]
    BY Local
<1> DEFINE d == [db[s] EXCEPT !.state = "RUNNING", !.progress = 10]
           w == [wk[s] EXCEPT !.pc = "sweep"]
           f == [wk[s] EXCEPT !.pc = "failing"]
<1>2.
      /\ "RUNNING" \in States
      /\ 10 \in 0..100
    BY Values
<1>3. d \in Docs
    BY <1>1, <1>2, EditStateProgress
<1>4. d.state = "RUNNING" /\ d.total = db[s].total /\ d.summary = db[s].summary
    BY <1>1 DEF Docs
<1>5. w \in Workers /\ w.pc = "sweep" /\ w.files = wk[s].files /\ w.idx = wk[s].idx
      /\ w.kind = wk[s].kind /\ w.targets = wk[s].targets /\ w.sweeps = wk[s].sweeps
    BY <1>1 DEF Workers, PCs, BeginDynamic
<1>6. f \in Workers /\ f.pc = "failing" /\ f.files = wk[s].files /\ f.sweeps = wk[s].sweeps
    BY <1>1, RaisedWorker
<1>7. WorkerOK(w, parsed[s], pending[s])
    BY <1>1, <1>5 DEF WorkerOK, Early, RepoKinds, NoWrite, BeginDynamic, Workers
<1>8. ASSUME db[s].state # "ABSENT" PROVE DocOK(d, w) /\ DocOK(d, f)
    <2>1. DocOK(d, w)
        BY <1>8, <1>1, <1>4, <1>5 DEF DocOK, Closed, WorkerOK, RepoKinds, Early, BeginDynamic
    <2>2. DocOK(d, f)
        BY <1>8, <1>1, <1>4, <1>6 DEF DocOK, Closed, WorkerOK, RepoKinds, Early, BeginDynamic
    <2> QED
        BY <2>1, <2>2
<1>9. /\ w.pc \in {"cleanup", "ended"} => d.state \in Terminal
      /\ s \in temp => OwnsTemp(w)
    BY <1>1, <1>4, <1>5 DEF OwnsTemp, Terminal, RepoKinds, BeginDynamic
<1>10. /\ _update_scan(s, d) /\ Resume(s, w)
       /\ UNCHANGED <<parsed, pending, temp, requests>>
       /\ reported' \in [Scans -> NoWrite..MaxFiles]
    BY <1>1 DEF BeginDynamic, heartbeat
<1> HIDE DEF d, w, f
<1>11. db[s].state # "ABSENT" => DocOK(d, [wk[s] EXCEPT !.pc = "failing"])
    BY <1>8 DEF f
<1> QED
    BY <1>3, <1>5, <1>7, <1>8, <1>9, <1>10, <1>11, WorkerWrites

\* The task is created before it counts anything.
LEMMA DispatchScanKeeps ==
    ASSUME IInv, NEW s \in Scans, DispatchScan(s)
    PROVE  IInv'
<1>1. /\ WorkerOK(wk[s], parsed[s], pending[s]) /\ (s \in temp => OwnsTemp(wk[s]))
      /\ DocOK(db[s], wk[s])
      /\ wk[s] \in Workers /\ wk \in [Scans -> Workers]
    BY Local
<1> DEFINE w == [wk[s] EXCEPT !.pc = "begin"]
<1>2. w \in Workers /\ w.pc = "begin" /\ w.files = wk[s].files /\ w.idx = wk[s].idx
      /\ w.kind = wk[s].kind /\ w.targets = wk[s].targets /\ w.sweeps = wk[s].sweeps
    BY <1>1 DEF Workers, PCs, Outcomes, DispatchScan
<1>3. WorkerOK(w, parsed[s], pending[s])
    BY <1>1, <1>2 DEF WorkerOK, Early, RepoKinds, NoWrite, DispatchScan, Workers
<1>4. DocOK(db[s], w)
    BY <1>1, <1>2 DEF DocOK, Closed, Early, DispatchScan
<1>5. w.pc \notin {"cleanup", "ended"} /\ (s \in temp => OwnsTemp(w))
    BY <1>1, <1>2 DEF OwnsTemp, RepoKinds, WorkerOK, DispatchScan
<1>6. wk' = [wk EXCEPT ![s] = w] /\ UNCHANGED <<db, heartbeat, temp, requests>>
    BY <1>1 DEF DispatchScan, Workers
<1> HIDE DEF w
<1> QED
    BY <1>2, <1>3, <1>4, <1>5, <1>6, WorkerTurns

\* Whatever the analysis returns, the snippet is still one file.
LEMMA AnalyseCodeKeeps ==
    ASSUME IInv, NEW s \in Scans, AnalyseCode(s)
    PROVE  IInv'
<1>1. /\ WorkerOK(wk[s], parsed[s], pending[s]) /\ (s \in temp => OwnsTemp(wk[s]))
      /\ DocOK(db[s], wk[s])
      /\ wk[s] \in Workers /\ wk \in [Scans -> Workers]
    BY Local
<1>0. PICK ran \in Outcomes : wk' = [wk EXCEPT ![s].pc = "complete", ![s].analysed = ran]
    BY DEF AnalyseCode
<1> DEFINE w == [wk[s] EXCEPT !.pc = "complete", !.analysed = ran]
<1>2. w \in Workers /\ w.pc = "complete" /\ w.files = wk[s].files /\ w.idx = wk[s].idx
      /\ w.kind = wk[s].kind /\ w.targets = wk[s].targets /\ w.sweeps = wk[s].sweeps
    BY <1>1, <1>0 DEF Workers, PCs, Outcomes, AnalyseCode
<1>3. WorkerOK(w, parsed[s], pending[s])
    BY <1>1, <1>2, <1>0 DEF WorkerOK, Early, RepoKinds, NoWrite, AnalyseCode, Workers
<1>4. DocOK(db[s], w)
    BY <1>1, <1>2 DEF DocOK, Closed, Early, AnalyseCode
<1>5. w.pc \notin {"cleanup", "ended"} /\ (s \in temp => OwnsTemp(w))
    BY <1>1, <1>2 DEF OwnsTemp, RepoKinds, WorkerOK, AnalyseCode
<1>6. wk' = [wk EXCEPT ![s] = w] /\ UNCHANGED <<db, heartbeat, temp, requests>>
    BY <1>1, <1>0 DEF AnalyseCode, Workers
<1> HIDE DEF w
<1> QED
    BY <1>2, <1>3, <1>4, <1>5, <1>6, WorkerTurns

\* A bad target fails the scan before it is RUNNING.
LEMMA RejectTargetKeeps ==
    ASSUME IInv, NEW s \in Scans, RejectTarget(s)
    PROVE  IInv'
<1>1. /\ WorkerOK(wk[s], parsed[s], pending[s]) /\ (s \in temp => OwnsTemp(wk[s]))
      /\ DocOK(db[s], wk[s])
      /\ wk[s] \in Workers /\ wk \in [Scans -> Workers]
    BY Local
<1> DEFINE w == [wk[s] EXCEPT !.pc = "failing"]
<1>2. w \in Workers /\ w.pc = "failing" /\ w.files = wk[s].files /\ w.idx = wk[s].idx
      /\ w.kind = wk[s].kind /\ w.targets = wk[s].targets /\ w.sweeps = wk[s].sweeps
    BY <1>1 DEF Workers, PCs, Outcomes, RejectTarget
<1>3. WorkerOK(w, parsed[s], pending[s])
    BY <1>1, <1>2 DEF WorkerOK, Early, RepoKinds, NoWrite, RejectTarget, Workers
<1>4. DocOK(db[s], w)
    BY <1>1, <1>2 DEF DocOK, Closed, Early, RejectTarget
<1>5. w.pc \notin {"cleanup", "ended"} /\ (s \in temp => OwnsTemp(w))
    BY <1>1, <1>2 DEF OwnsTemp, RepoKinds, WorkerOK, RejectTarget
<1>6. wk' = [wk EXCEPT ![s] = w] /\ UNCHANGED <<db, heartbeat, temp, requests>>
    BY <1>1 DEF RejectTarget, Workers
<1> HIDE DEF w
<1> QED
    BY <1>2, <1>3, <1>4, <1>5, <1>6, WorkerTurns

\* All targets were swept.
LEMMA EndSweepsKeeps ==
    ASSUME IInv, NEW s \in Scans, EndSweeps(s)
    PROVE  IInv'
<1>1. /\ WorkerOK(wk[s], parsed[s], pending[s]) /\ (s \in temp => OwnsTemp(wk[s]))
      /\ DocOK(db[s], wk[s])
      /\ wk[s] \in Workers /\ wk \in [Scans -> Workers]
    BY Local
<1> DEFINE w == [wk[s] EXCEPT !.pc = "complete"]
<1>2. w \in Workers /\ w.pc = "complete" /\ w.files = wk[s].files /\ w.idx = wk[s].idx
      /\ w.kind = wk[s].kind /\ w.targets = wk[s].targets /\ w.sweeps = wk[s].sweeps
    BY <1>1 DEF Workers, PCs, Outcomes, EndSweeps
<1>3. WorkerOK(w, parsed[s], pending[s])
    BY <1>1, <1>2 DEF WorkerOK, Early, RepoKinds, NoWrite, EndSweeps, Workers
<1>4. DocOK(db[s], w)
    BY <1>1, <1>2 DEF DocOK, Closed, Early, EndSweeps
<1>5. w.pc \notin {"cleanup", "ended"} /\ (s \in temp => OwnsTemp(w))
    BY <1>1, <1>2 DEF OwnsTemp, RepoKinds, WorkerOK, EndSweeps
<1>6. wk' = [wk EXCEPT ![s] = w] /\ UNCHANGED <<db, heartbeat, temp, requests>>
    BY <1>1 DEF EndSweeps, Workers
<1> HIDE DEF w
<1> QED
    BY <1>2, <1>3, <1>4, <1>5, <1>6, WorkerTurns

\* The clone ends, one way or the other.
LEMMA CloneReturnsKeeps ==
    ASSUME IInv, NEW s \in Scans, CloneReturns(s)
    PROVE  IInv'
<1>1. /\ WorkerOK(wk[s], parsed[s], pending[s]) /\ (s \in temp => OwnsTemp(wk[s]))
      /\ DocOK(db[s], wk[s])
      /\ wk[s] \in Workers /\ wk \in [Scans -> Workers]
    BY Local
<1>0. PICK next \in {"collect", "failing"} : wk' = [wk EXCEPT ![s].pc = next]
    BY DEF CloneReturns
<1> DEFINE w == [wk[s] EXCEPT !.pc = next]
<1>2. w \in Workers /\ w.pc = next /\ w.files = wk[s].files /\ w.idx = wk[s].idx
      /\ w.kind = wk[s].kind /\ w.targets = wk[s].targets /\ w.sweeps = wk[s].sweeps
    BY <1>1, <1>0 DEF Workers, PCs, Outcomes, CloneReturns
<1>3. WorkerOK(w, parsed[s], pending[s])
    BY <1>1, <1>2, <1>0 DEF WorkerOK, Early, RepoKinds, NoWrite, CloneReturns, Workers
<1>4. DocOK(db[s], w)
    BY <1>1, <1>2 DEF DocOK, Closed, Early, CloneReturns
<1>5. w.pc \notin {"cleanup", "ended"} /\ (s \in temp => OwnsTemp(w))
    BY <1>1, <1>2 DEF OwnsTemp, RepoKinds, WorkerOK, CloneReturns
<1>6. wk' = [wk EXCEPT ![s] = w] /\ UNCHANGED <<db, heartbeat, temp, requests>>
    BY <1>1, <1>0 DEF CloneReturns, Workers
<1> HIDE DEF w
<1> QED
    BY <1>2, <1>3, <1>4, <1>5, <1>6, WorkerTurns

\* The index starts over for the sweeps.
LEMMA EndFilesKeeps ==
    ASSUME IInv, NEW s \in Scans, EndFiles(s)
    PROVE  IInv'
<1>1. /\ WorkerOK(wk[s], parsed[s], pending[s]) /\ (s \in temp => OwnsTemp(wk[s]))
      /\ DocOK(db[s], wk[s])
      /\ wk[s] \in Workers /\ wk \in [Scans -> Workers]
    BY Local
<1>0. PICK next \in {"sweep", "complete"} :
          /\ next = "sweep" => wk[s].targets > 0
          /\ wk' = [wk EXCEPT ![s].pc = next, ![s].idx = 0]
    BY DEF EndFiles
<1>10. 0 \in 0..(MaxFiles + MaxTargets)
    BY BoundsAssumption
<1> DEFINE w == [wk[s] EXCEPT !.pc = next, !.idx = 0]
<1>2. w \in Workers /\ w.pc = next /\ w.files = wk[s].files /\ w.idx = 0
      /\ w.kind = wk[s].kind /\ w.targets = wk[s].targets /\ w.sweeps = wk[s].sweeps
    BY <1>1, <1>0, <1>10 DEF Workers, PCs, Outcomes
<1>3. WorkerOK(w, parsed[s], pending[s])
    BY <1>1, <1>2, <1>0, <1>10 DEF WorkerOK, Early, RepoKinds, NoWrite, EndFiles, Workers
<1>4. DocOK(db[s], w)
    BY <1>1, <1>2 DEF DocOK, Closed, Early, EndFiles
<1>5. w.pc \notin {"cleanup", "ended"} /\ (s \in temp => OwnsTemp(w))
    BY <1>1, <1>2 DEF OwnsTemp, RepoKinds, WorkerOK, EndFiles
<1>6. wk' = [wk EXCEPT ![s] = w] /\ UNCHANGED <<db, heartbeat, temp, requests>>
    BY <1>1, <1>0, <1>10 DEF EndFiles, Workers
<1> HIDE DEF w
<1> QED
    BY <1>2, <1>3, <1>4, <1>5, <1>6, WorkerTurns

\* Code that raises leaves the worker in its except clause.
LEMMA WorkerRaisesKeeps ==
    ASSUME IInv, NEW s \in Scans, WorkerRaises(s)
    PROVE  IInv'
<1>1. /\ WorkerOK(wk[s], parsed[s], pending[s]) /\ (s \in temp => OwnsTemp(wk[s]))
      /\ DocOK(db[s], wk[s])
      /\ wk[s] \in Workers /\ wk \in [Scans -> Workers]
    BY Local
<1> DEFINE w == [wk[s] EXCEPT !.pc = "failing"]
<1>2. w \in Workers /\ w.pc = "failing" /\ w.files = wk[s].files /\ w.idx = wk[s].idx
      /\ w.kind = wk[s].kind /\ w.targets = wk[s].targets /\ w.sweeps = wk[s].sweeps
    BY <1>1 DEF Workers, PCs, Outcomes, WorkerRaises
<1>3. WorkerOK(w, parsed[s], pending[s])
    BY <1>1, <1>2 DEF WorkerOK, Early, RepoKinds, NoWrite, WorkerRaises, Workers
<1>4. DocOK(db[s], w)
    BY <1>1, <1>2 DEF DocOK, Closed, Early, WorkerRaises
<1>5. w.pc \notin {"cleanup", "ended"} /\ (s \in temp => OwnsTemp(w))
    BY <1>1, <1>2 DEF OwnsTemp, RepoKinds, WorkerOK, WorkerRaises
<1>6. wk' = [wk EXCEPT ![s] = w] /\ UNCHANGED <<db, heartbeat, temp, requests>>
    BY <1>1 DEF WorkerRaises, Workers
<1> HIDE DEF w
<1> QED
    BY <1>2, <1>3, <1>4, <1>5, <1>6, WorkerTurns

\* A refused write leaves the worker in its except clause.
LEMMA DbRaisesKeeps ==
    ASSUME IInv, NEW s \in Scans, DbRaises(s)
    PROVE  IInv'
<1>1. /\ WorkerOK(wk[s], parsed[s], pending[s]) /\ (s \in temp => OwnsTemp(wk[s]))
      /\ DocOK(db[s], wk[s])
      /\ wk[s] \in Workers /\ wk \in [Scans -> Workers]
    BY Local
<1> DEFINE w == [wk[s] EXCEPT !.pc = "failing"]
<1>2. w \in Workers /\ w.pc = "failing" /\ w.files = wk[s].files /\ w.idx = wk[s].idx
      /\ w.kind = wk[s].kind /\ w.targets = wk[s].targets /\ w.sweeps = wk[s].sweeps
    BY <1>1 DEF Workers, PCs, Outcomes, DbRaises
<1>3. WorkerOK(w, parsed[s], pending[s])
    BY <1>1, <1>2 DEF WorkerOK, Early, RepoKinds, NoWrite, DbRaises, Workers
<1>4. DocOK(db[s], w)
    BY <1>1, <1>2 DEF DocOK, Closed, Early, DbRaises
<1>5. w.pc \notin {"cleanup", "ended"} /\ (s \in temp => OwnsTemp(w))
    BY <1>1, <1>2 DEF OwnsTemp, RepoKinds, WorkerOK, DbRaises
<1>6. wk' = [wk EXCEPT ![s] = w] /\ UNCHANGED <<db, heartbeat, temp, requests>>
    BY <1>1 DEF DbRaises, Workers
<1> HIDE DEF w
<1> QED
    BY <1>2, <1>3, <1>4, <1>5, <1>6, WorkerTurns

\* An empty repository is FAILED, with the error as its summary.
LEMMA CollectNothingKeeps ==
    ASSUME IInv, NEW s \in Scans, CollectNothing(s)
    PROVE  IInv'
<1>1. /\ WorkerOK(wk[s], parsed[s], pending[s]) /\ (s \in temp => OwnsTemp(wk[s]))
      /\ DocOK(db[s], wk[s])
      /\ db[s] \in Docs /\ wk[s] \in Workers
      /\ reported \in [Scans -> NoWrite..MaxFiles]
    BY Local
<1> DEFINE d == [db[s] EXCEPT !.state = "FAILED", !.progress = 100, !.files = 0, !.total = 0,
                        !.summary = ErrSummary]
           w == [wk[s] EXCEPT !.pc = "cleanup"]
           f == [wk[s] EXCEPT !.pc = "failing"]
<1>2.
      /\ "FAILED" \in States
      /\ 100 \in 0..100
      /\ 0 \in 0..MaxFiles
      /\ ErrSummary \in Summaries
    BY Values
<1>3. d \in Docs
    BY <1>1, <1>2, EditAll
<1>4. d.state = "FAILED" /\ d.total = 0 /\ d.summary = ErrSummary
    BY <1>1 DEF Docs
<1>5. w \in Workers /\ w.pc = "cleanup" /\ w.files = wk[s].files /\ w.idx = wk[s].idx
      /\ w.kind = wk[s].kind /\ w.targets = wk[s].targets /\ w.sweeps = wk[s].sweeps
    BY <1>1 DEF Workers, PCs, CollectNothing
<1>6. f \in Workers /\ f.pc = "failing" /\ f.files = wk[s].files /\ f.sweeps = wk[s].sweeps
    BY <1>1, RaisedWorker
<1>7. WorkerOK(w, parsed[s], pending[s])
    BY <1>1, <1>5 DEF WorkerOK, Early, RepoKinds, NoWrite, CollectNothing, Workers
<1>8. ASSUME db[s].state # "ABSENT" PROVE DocOK(d, w) /\ DocOK(d, f)
    <2>1. DocOK(d, w)
        BY <1>8, <1>1, <1>4, <1>5, Values DEF DocOK, Closed, WorkerOK, RepoKinds, Early, CollectNothing
    <2>2. DocOK(d, f)
        BY <1>8, <1>1, <1>4, <1>6, Values DEF DocOK, Closed, WorkerOK, RepoKinds, Early, CollectNothing
    <2> QED
        BY <2>1, <2>2
<1>9. /\ w.pc \in {"cleanup", "ended"} => d.state \in Terminal
      /\ s \in temp => OwnsTemp(w)
    BY <1>1, <1>4, <1>5 DEF OwnsTemp, Terminal, RepoKinds, CollectNothing
<1>10. /\ _update_scan(s, d) /\ Resume(s, w)
       /\ UNCHANGED <<parsed, pending, temp, requests>>
       /\ reported' \in [Scans -> NoWrite..MaxFiles]
    BY <1>1 DEF CollectNothing, heartbeat
<1> HIDE DEF d, w, f
<1>11. db[s].state # "ABSENT" => DocOK(d, [wk[s] EXCEPT !.pc = "failing"])
    BY <1>8 DEF f
<1> QED
    BY <1>3, <1>5, <1>7, <1>8, <1>9, <1>10, <1>11, WorkerWrites

\* Worker and document agree on the number of files from here on.
LEMMA CollectFilesKeeps ==
    ASSUME IInv, NEW s \in Scans, CollectFiles(s)
    PROVE  IInv'
<1>1. /\ WorkerOK(wk[s], parsed[s], pending[s]) /\ (s \in temp => OwnsTemp(wk[s]))
      /\ DocOK(db[s], wk[s])
      /\ db[s] \in Docs /\ wk[s] \in Workers
      /\ reported \in [Scans -> NoWrite..MaxFiles]
    BY Local
<1>0. PICK n \in 1..MaxFiles :
          /\ _update_scan(s, [db[s] EXCEPT !.total = n, !.progress = 20])
          /\ Resume(s, [wk[s] EXCEPT !.pc = "analyse", !.files = n])
    BY DEF CollectFiles
<1>12. parsed' = parsed /\ reported' \in [Scans -> NoWrite..MaxFiles]
    <2>1. parsed \in [Scans -> 0..MaxFiles] /\ parsed[s] = 0
        BY Local, <1>1 DEF TypeOK, WorkerOK, Early, CollectFiles
    <2>2. NoWrite \in NoWrite..MaxFiles
        BY BoundsAssumption DEF NoWrite
    <2> QED
        BY <1>1, <2>1, <2>2 DEF CollectFiles
<1> DEFINE d == [db[s] EXCEPT !.total = n, !.progress = 20]
           w == [wk[s] EXCEPT !.pc = "analyse", !.files = n]
           f == [wk[s] EXCEPT !.pc = "failing"]
<1>2.
      /\ n \in 0..MaxFiles
      /\ 20 \in 0..100
    BY Values, <1>0
<1>3. d \in Docs
    BY <1>1, <1>2, EditTotal
<1>4. d.state = db[s].state /\ d.total = n /\ d.summary = db[s].summary
    BY <1>1 DEF Docs
<1>5. w \in Workers /\ w.pc = "analyse" /\ w.files = n /\ w.idx = wk[s].idx
      /\ w.kind = wk[s].kind /\ w.targets = wk[s].targets /\ w.sweeps = wk[s].sweeps
    BY <1>1, <1>2 DEF Workers, PCs
<1>6. f \in Workers /\ f.pc = "failing" /\ f.files = wk[s].files /\ f.sweeps = wk[s].sweeps
    BY <1>1, RaisedWorker
<1>7. WorkerOK(w, parsed[s], pending[s])
    BY <1>1, <1>5, <1>0 DEF WorkerOK, Early, RepoKinds, NoWrite, CollectFiles, Workers
<1>8. ASSUME db[s].state # "ABSENT" PROVE DocOK(d, w) /\ DocOK(d, f)
    <2>1. DocOK(d, w)
        BY <1>8, <1>1, <1>4, <1>5 DEF DocOK, Closed, WorkerOK, RepoKinds, Early, CollectFiles
    <2>2. DocOK(d, f)
        BY <1>8, <1>1, <1>4, <1>6 DEF DocOK, Closed, WorkerOK, RepoKinds, Early, CollectFiles
    <2> QED
        BY <2>1, <2>2
<1>9. /\ w.pc \in {"cleanup", "ended"} => d.state \in Terminal
      /\ s \in temp => OwnsTemp(w)
    BY <1>1, <1>4, <1>5 DEF OwnsTemp, Terminal, RepoKinds, CollectFiles
<1>10. /\ _update_scan(s, d) /\ Resume(s, w)
       /\ UNCHANGED <<parsed, pending, temp, requests>>
       /\ reported' \in [Scans -> NoWrite..MaxFiles]
    BY <1>0, <1>12 DEF CollectFiles
<1> HIDE DEF d, w, f
<1>11. db[s].state # "ABSENT" => DocOK(d, [wk[s] EXCEPT !.pc = "failing"])
    BY <1>8 DEF f
<1> QED
    BY <1>3, <1>5, <1>7, <1>8, <1>9, <1>10, <1>11, WorkerWrites

\* Sweeping a target moves the progress bar inside its window.
LEMMA SweepTargetKeeps ==
    ASSUME IInv, NEW s \in Scans, SweepTarget(s)
    PROVE  IInv'
<1>1. /\ WorkerOK(wk[s], parsed[s], pending[s]) /\ (s \in temp => OwnsTemp(wk[s]))
      /\ DocOK(db[s], wk[s])
      /\ db[s] \in Docs /\ wk[s] \in Workers
      /\ reported \in [Scans -> NoWrite..MaxFiles]
    BY Local
<1>0. PICK at \in {wk[s].idx, wk[s].idx + 1}, got \in {{}, {wk[s].idx + 1}} :
          /\ _update_scan(s, [db[s] EXCEPT !.progress = Window(wk[s], at)])
          /\ Resume(s, [wk[s] EXCEPT !.idx = @ + 1, !.sweeps = @ \cup got])
    BY DEF SweepTarget
<1>12. /\ wk[s].idx \in Nat /\ wk[s].targets \in Nat /\ wk[s].targets >= 1
       /\ wk[s].targets <= MaxTargets /\ wk[s].idx + 1 <= wk[s].targets
       /\ wk[s].sweeps \subseteq 1..MaxTargets
       /\ wk[s].pc = "sweep" /\ wk[s].kind # "code"
    BY <1>1, BoundsAssumption DEF Workers, WorkerOK, SweepTarget
<1>13. Window(wk[s], at) \in 0..100
    <2>1. at \in Nat /\ at <= wk[s].targets /\ wk[s].targets \in Nat \ {0}
        BY <1>0, <1>12
    <2>2. Share(at, wk[s].targets, 85) \in 0..85 /\ Share(at, wk[s].targets, 9) \in 0..9
        BY <2>1, ShareBound
    <2> QED
        BY <2>2 DEF Window
<1>14. /\ wk[s].idx + 1 \in 0..(MaxFiles + MaxTargets)
       /\ got \subseteq 1..MaxTargets
    BY <1>0, <1>12, BoundsAssumption
<1> DEFINE p == Window(wk[s], at)
<1>15. p \in 0..100
    BY <1>13
<1> HIDE DEF p
<1> DEFINE d == [db[s] EXCEPT !.progress = p]
           w == [wk[s] EXCEPT !.idx = @ + 1, !.sweeps = @ \cup got]
           f == [wk[s] EXCEPT !.pc = "failing"]
<1>2. p \in 0..100
    BY Values, <1>15
<1>3. d \in Docs
    BY <1>1, <1>2, EditProgress
<1>4. d.state = db[s].state /\ d.total = db[s].total /\ d.summary = db[s].summary
    BY <1>1 DEF Docs
<1>5. w \in Workers /\ w.pc = "sweep" /\ w.files = wk[s].files /\ w.idx = wk[s].idx + 1
      /\ w.kind = wk[s].kind /\ w.targets = wk[s].targets
      /\ w.sweeps = wk[s].sweeps \cup got
    BY <1>1, <1>12, <1>14 DEF Workers, PCs, SweepTarget
<1>6. f \in Workers /\ f.pc = "failing" /\ f.files = wk[s].files /\ f.sweeps = wk[s].sweeps
    BY <1>1, RaisedWorker
<1>7. WorkerOK(w, parsed[s], pending[s])
    BY <1>1, <1>5, <1>12, <1>14 DEF WorkerOK, Early, RepoKinds, NoWrite, SweepTarget, Workers
<1>8. ASSUME db[s].state # "ABSENT" PROVE DocOK(d, w) /\ DocOK(d, f)
    <2>1. DocOK(d, w)
        BY <1>8, <1>1, <1>4, <1>5, <1>12 DEF DocOK, Closed, WorkerOK, RepoKinds, Early, SweepTarget
    <2>2. DocOK(d, f)
        BY <1>8, <1>1, <1>4, <1>6, <1>12 DEF DocOK, Closed, WorkerOK, RepoKinds, Early, SweepTarget
    <2> QED
        BY <2>1, <2>2
<1>9. /\ w.pc \in {"cleanup", "ended"} => d.state \in Terminal
      /\ s \in temp => OwnsTemp(w)
    BY <1>1, <1>4, <1>5 DEF OwnsTemp, Terminal, RepoKinds, SweepTarget
<1>10. /\ _update_scan(s, d) /\ Resume(s, w)
       /\ UNCHANGED <<parsed, pending, temp, requests>>
       /\ reported' \in [Scans -> NoWrite..MaxFiles]
    BY <1>0, <1>1 DEF SweepTarget, p, heartbeat
<1> HIDE DEF d, w, f
<1>11. db[s].state # "ABSENT" => DocOK(d, [wk[s] EXCEPT !.pc = "failing"])
    BY <1>8 DEF f
<1> QED
    BY <1>3, <1>5, <1>7, <1>8, <1>9, <1>10, <1>11, WorkerWrites

\* The per-file loop stays inside its part of the progress bar.
LEMMA ScanFileKeeps ==
    ASSUME IInv, NEW s \in Scans, ScanFile(s)
    PROVE  IInv'
<1>1. /\ WorkerOK(wk[s], parsed[s], pending[s]) /\ (s \in temp => OwnsTemp(wk[s]))
      /\ DocOK(db[s], wk[s])
      /\ db[s] \in Docs /\ wk[s] \in Workers
      /\ reported \in [Scans -> NoWrite..MaxFiles]
    BY Local
<1>12. /\ wk[s].idx \in Nat /\ wk[s].files \in Nat /\ wk[s].files >= 1
       /\ wk[s].files <= MaxFiles /\ wk[s].idx + 1 <= wk[s].files
       /\ wk[s].pc = "files"
    BY <1>1, BoundsAssumption DEF Workers, WorkerOK, ScanFile
<1> DEFINE n == wk[s].idx + 1
           p == 20 + Share(wk[s].idx + 1, wk[s].files, 70)
<1>13. p \in 0..100
    <2>1. n \in Nat /\ n <= wk[s].files /\ wk[s].files \in Nat \ {0}
        BY <1>12
    <2>2. Share(n, wk[s].files, 70) \in 0..70
        BY <2>1, ShareBound
    <2> QED
        BY <2>2
<1>14. n \in 0..MaxFiles /\ n \in 0..(MaxFiles + MaxTargets) /\ n = wk[s].idx + 1
    BY <1>12, BoundsAssumption
<1> HIDE DEF p, n
<1> DEFINE d == [db[s] EXCEPT !.files = n, !.progress = p]
           w == [wk[s] EXCEPT !.idx = @ + 1]
           f == [wk[s] EXCEPT !.pc = "failing"]
<1>2.
      /\ n \in 0..MaxFiles
      /\ p \in 0..100
    BY Values, <1>13, <1>14
<1>3. d \in Docs
    BY <1>1, <1>2, EditFiles
<1>4. d.state = db[s].state /\ d.total = db[s].total /\ d.summary = db[s].summary
    BY <1>1 DEF Docs
<1>5. w \in Workers /\ w.pc = "files" /\ w.files = wk[s].files /\ w.idx = wk[s].idx + 1
      /\ w.kind = wk[s].kind /\ w.targets = wk[s].targets /\ w.sweeps = wk[s].sweeps
    BY <1>1, <1>12, <1>14 DEF Workers, PCs, ScanFile
<1>6. f \in Workers /\ f.pc = "failing" /\ f.files = wk[s].files /\ f.sweeps = wk[s].sweeps
    BY <1>1, RaisedWorker
<1>7. WorkerOK(w, parsed[s], pending[s])
    BY <1>1, <1>5, <1>12, <1>14 DEF WorkerOK, Early, RepoKinds, NoWrite, ScanFile, Workers
<1>8. ASSUME db[s].state # "ABSENT" PROVE DocOK(d, w) /\ DocOK(d, f)
    <2>1. DocOK(d, w)
        BY <1>8, <1>1, <1>4, <1>5, <1>12 DEF DocOK, Closed, WorkerOK, RepoKinds, Early, ScanFile
    <2>2. DocOK(d, f)
        BY <1>8, <1>1, <1>4, <1>6, <1>12 DEF DocOK, Closed, WorkerOK, RepoKinds, Early, ScanFile
    <2> QED
        BY <2>1, <2>2
<1>9. /\ w.pc \in {"cleanup", "ended"} => d.state \in Terminal
      /\ s \in temp => OwnsTemp(w)
    BY <1>1, <1>4, <1>5 DEF OwnsTemp, Terminal, RepoKinds, ScanFile
<1>10. /\ _update_scan(s, d) /\ Resume(s, w)
       /\ UNCHANGED <<parsed, pending, temp, requests>>
       /\ reported' \in [Scans -> NoWrite..MaxFiles]
    BY <1>1 DEF ScanFile, p, n, heartbeat
<1> HIDE DEF d, w, f
<1>11. db[s].state # "ABSENT" => DocOK(d, [wk[s] EXCEPT !.pc = "failing"])
    BY <1>8 DEF f
<1> QED
    BY <1>3, <1>5, <1>7, <1>8, <1>9, <1>10, <1>11, WorkerWrites

\* What a worker that owns, takes or gives back a temp_root needs.
LEMMA FetchKeeps ==
    ASSUME IInv, NEW s \in Scans, NEW next \in {"collect", "failing", "cloning"},
           wk[s].pc = "fetch", temp' = temp \cup {s},
           wk' = [wk EXCEPT ![s].pc = next], UNCHANGED <<db, heartbeat, requests>>
    PROVE  IInv'
<1>1. /\ WorkerOK(wk[s], parsed[s], pending[s]) /\ DocOK(db[s], wk[s])
      /\ wk[s] \in Workers /\ wk \in [Scans -> Workers]
    BY Local
<1> DEFINE w == [wk[s] EXCEPT !.pc = next]
<1>2. w \in Workers /\ w.pc = next /\ w.files = wk[s].files /\ w.idx = wk[s].idx
      /\ w.kind = wk[s].kind /\ w.targets = wk[s].targets /\ w.sweeps = wk[s].sweeps
    BY <1>1 DEF Workers, PCs
<1>3. pending' = pending /\ abandoned' = abandoned /\ UNCHANGED <<parsed, reported, cancelling>>
    BY DEF heartbeat, requests
<1>4. /\ pending' \in [Scans -> Broken..MaxFiles] /\ temp' \subseteq Scans
      /\ abandoned' \subseteq Scans
    BY <1>3 DEF IInv, TypeOK
<1>5. WorkerOK(w, parsed[s], pending[s])
    BY <1>1, <1>2 DEF WorkerOK, Early, RepoKinds, NoWrite
<1>6. DocOK(db[s], w)
    BY <1>1, <1>2 DEF DocOK, Closed
<1>7. w.pc \notin {"cleanup", "ended"} /\ OwnsTemp(w)
    BY <1>1, <1>2 DEF OwnsTemp, WorkerOK
<1>8. wk' = [wk EXCEPT ![s] = w]
    BY <1>1 DEF Workers
<1>9. /\ pending'[s] = pending[s] /\ UNCHANGED <<db, parsed, reported, cancelling>>
      /\ \A t \in Scans \ {s} : /\ pending'[t] = pending[t]
                                /\ (t \in temp') = (t \in temp)
                                /\ (t \in abandoned') = (t \in abandoned)
    BY <1>3
<1>10. WorkerOK(w, parsed[s], pending'[s])
    BY <1>5, <1>9
<1> HIDE DEF w
<1> QED
    BY <1>2, <1>4, <1>6, <1>7, <1>8, <1>9, <1>10, WorkerMoves

LEMMA ExtractArchiveKeeps ==
    ASSUME IInv, NEW s \in Scans, ExtractArchive(s)
    PROVE  IInv'
<1>1. PICK next \in {"collect", "failing"} : wk' = [wk EXCEPT ![s].pc = next]
    BY DEF ExtractArchive
<1> QED
    BY <1>1, FetchKeeps DEF ExtractArchive

LEMMA StartCloneKeeps ==
    ASSUME IInv, NEW s \in Scans, StartClone(s)
    PROVE  IInv'
BY FetchKeeps DEF StartClone

\* Leaving the analysis drops or forgets the heartbeat's write, nothing else.
LEMMA LeaveAnalysisKeeps ==
    ASSUME IInv, NEW s \in Scans, NEW ran \in Outcomes, wk[s].pc = "analyse",
           wk[s].kind \in RepoKinds, LeaveAnalysis(s, ran),
           UNCHANGED <<db, parsed, reported, temp, requests>>
    PROVE  IInv'
<1>1. /\ WorkerOK(wk[s], parsed[s], pending[s]) /\ DocOK(db[s], wk[s])
      /\ wk[s] \in Workers /\ wk \in [Scans -> Workers] /\ (s \in temp => OwnsTemp(wk[s]))
      /\ pending \in [Scans -> Broken..MaxFiles]
    BY Local DEF TypeOK
<1>2. PICK p \in {NoWrite, pending[s]} : pending' = [pending EXCEPT ![s] = p]
    BY DEF LeaveAnalysis
<1>3. PICK next \in {"failing", "files"} :
          wk' = [wk EXCEPT ![s].pc = next, ![s].analysed = ran]
    BY DEF LeaveAnalysis
<1> DEFINE w == [wk[s] EXCEPT !.pc = next, !.analysed = ran]
<1>4. w \in Workers /\ w.pc = next /\ w.files = wk[s].files /\ w.idx = wk[s].idx
      /\ w.kind = wk[s].kind /\ w.targets = wk[s].targets /\ w.sweeps = wk[s].sweeps
    BY <1>1 DEF Workers, PCs
<1>5. NoWrite \in Broken..MaxFiles
    BY BoundsAssumption DEF NoWrite, Broken
<1>6. /\ p \in Broken..MaxFiles /\ pending'[s] = p
      /\ pending' \in [Scans -> Broken..MaxFiles]
      /\ \A t \in Scans \ {s} : pending'[t] = pending[t]
    BY <1>1, <1>2, <1>5
<1>7. WorkerOK(w, parsed[s], p)
    BY <1>1, <1>2, <1>4, BoundsAssumption DEF WorkerOK, Early, RepoKinds, NoWrite, Workers
<1>8. DocOK(db[s], w)
    BY <1>1, <1>4 DEF DocOK, Closed
<1>9. w.pc \notin {"cleanup", "ended"} /\ (s \in temp => OwnsTemp(w))
    BY <1>1, <1>4 DEF OwnsTemp
<1>10. wk' = [wk EXCEPT ![s] = w]
    BY <1>1, <1>3 DEF Workers
<1>11. abandoned' = abandoned /\ abandoned' \subseteq Scans /\ temp' = temp
       /\ temp' \subseteq Scans /\ UNCHANGED cancelling
    BY DEF IInv, TypeOK, requests
<1> HIDE DEF w
<1> QED
    BY <1>4, <1>6, <1>7, <1>8, <1>9, <1>10, <1>11, WorkerMoves

LEMMA AnalysisReturnsKeeps ==
    ASSUME IInv, NEW s \in Scans, AnalysisReturns(s)
    PROVE  IInv'
<1>1. PICK ran \in Outcomes : LeaveAnalysis(s, ran)
    BY DEF AnalysisReturns
<1> QED
    BY <1>1, LeaveAnalysisKeeps DEF AnalysisReturns

LEMMA AnalysisTimesOutKeeps ==
    ASSUME IInv, NEW s \in Scans, AnalysisTimesOut(s)
    PROVE  IInv'
<1>1. "empty" \in Outcomes
    BY DEF Outcomes
<1> QED
    BY <1>1, LeaveAnalysisKeeps DEF AnalysisTimesOut

\* The worker leaves its except clause with a verdict, or abandons the scan.
LEMMA Leaving ==
    ASSUME IInv, NEW s \in Scans, wk[s].pc = "failing"
    PROVE  LET w == [wk[s] EXCEPT !.pc = Exit(wk[s])] IN
           /\ w \in Workers /\ w.pc \in {"cleanup", "ended"}
           /\ w.files = wk[s].files /\ w.sweeps = wk[s].sweeps
           /\ WorkerOK(w, parsed[s], pending[s]) /\ DocOK(db[s], w)
           /\ s \in temp => OwnsTemp(w)
<1>1. /\ WorkerOK(wk[s], parsed[s], pending[s]) /\ DocOK(db[s], wk[s])
      /\ wk[s] \in Workers /\ (s \in temp => OwnsTemp(wk[s]))
    BY Local
<1> DEFINE w == [wk[s] EXCEPT !.pc = Exit(wk[s])]
<1>2. /\ Exit(wk[s]) \in {"cleanup", "ended"}
      /\ wk[s].kind \in RepoKinds => Exit(wk[s]) = "cleanup"
    BY DEF Exit
<1>3. w \in Workers /\ w.pc = Exit(wk[s]) /\ w.files = wk[s].files /\ w.idx = wk[s].idx
      /\ w.kind = wk[s].kind /\ w.targets = wk[s].targets /\ w.sweeps = wk[s].sweeps
    BY <1>1, <1>2 DEF Workers, PCs
<1>4. WorkerOK(w, parsed[s], pending[s])
    BY <1>1, <1>2, <1>3 DEF WorkerOK, Early
<1>5. DocOK(db[s], w)
    BY <1>1, <1>2, <1>3 DEF DocOK, Closed
<1>6. s \in temp => OwnsTemp(w)
    BY <1>1, <1>2, <1>3 DEF OwnsTemp
<1> QED
    BY <1>2, <1>3, <1>4, <1>5, <1>6

LEMMA FailScanKeeps ==
    ASSUME IInv, NEW s \in Scans, FailScan(s)
    PROVE  IInv'
<1>1. /\ db[s] \in Docs /\ reported \in [Scans -> NoWrite..MaxFiles]
      /\ wk \in [Scans -> Workers] /\ wk[s] \in Workers
    BY Local
<1> DEFINE d == [db[s] EXCEPT !.state = "FAILED", !.summary = ErrSummary]
           w == [wk[s] EXCEPT !.pc = Exit(wk[s])]
           f == [wk[s] EXCEPT !.pc = "failing"]
<1>2. "FAILED" \in States /\ ErrSummary \in Summaries /\ ErrSummary.status = "FAILED"
    BY Values
<1>3. d \in Docs
    BY <1>1, <1>2, EditFailed
<1>4. d.state = "FAILED" /\ d.summary = ErrSummary
    BY <1>1 DEF Docs
<1>5. /\ w \in Workers /\ w.pc \in {"cleanup", "ended"}
      /\ WorkerOK(w, parsed[s], pending[s]) /\ (s \in temp => OwnsTemp(w))
    BY Leaving DEF FailScan
<1>6. f.pc = "failing"
    BY <1>1 DEF Workers
<1>7. DocOK(d, w)
    BY <1>2, <1>4, <1>5 DEF DocOK, Closed
<1>8. DocOK(d, f)
    BY <1>2, <1>4, <1>6 DEF DocOK, Closed
<1>9. d.state \in Terminal
    BY <1>4 DEF Terminal
<1>10. wk' = [wk EXCEPT ![s] = w]
    BY <1>1 DEF FailScan, Workers
<1>11. /\ _update_scan(s, d) /\ Resume(s, w)
       /\ UNCHANGED <<parsed, pending, temp, requests>>
       /\ reported' \in [Scans -> NoWrite..MaxFiles]
    BY <1>1, <1>10 DEF FailScan, Resume, heartbeat
<1>12. DocOK(d, [wk[s] EXCEPT !.pc = "failing"])
    BY <1>8
<1> HIDE DEF d, w, f
<1> QED
    BY <1>3, <1>5, <1>7, <1>9, <1>11, <1>12, WorkerWrites

LEMMA FailScanRaisesKeeps ==
    ASSUME IInv, NEW s \in Scans, FailScanRaises(s)
    PROVE  IInv'
<1>1. TypeOK /\ wk \in [Scans -> Workers] /\ wk[s] \in Workers
    BY Local
<1> DEFINE w == [wk[s] EXCEPT !.pc = Exit(wk[s])]
<1>2. /\ w \in Workers /\ WorkerOK(w, parsed[s], pending[s]) /\ DocOK(db[s], w)
      /\ s \in temp => OwnsTemp(w)
    BY Leaving DEF FailScanRaises
<1>3. wk' = [wk EXCEPT ![s] = w]
    BY <1>1 DEF FailScanRaises, Workers
<1>4. /\ abandoned' = abandoned \cup {s} /\ temp' = temp /\ pending' = pending
      /\ UNCHANGED <<db, parsed, reported, cancelling>>
    BY DEF FailScanRaises, heartbeat
<1>5. /\ pending' \in [Scans -> Broken..MaxFiles] /\ temp' \subseteq Scans
      /\ abandoned' \subseteq Scans
    BY <1>1, <1>4 DEF TypeOK
<1>6. s \in abandoned' /\ (s \in temp' => OwnsTemp(w))
    BY <1>2, <1>4
<1>9. /\ pending'[s] = pending[s] /\ UNCHANGED <<db, parsed, reported, cancelling>>
      /\ \A t \in Scans \ {s} : /\ pending'[t] = pending[t]
                                /\ (t \in temp') = (t \in temp)
                                /\ (t \in abandoned') = (t \in abandoned)
    BY <1>4
<1>10. WorkerOK(w, parsed[s], pending'[s])
    BY <1>2, <1>9
<1> HIDE DEF w
<1> QED
    BY <1>2, <1>3, <1>5, <1>6, <1>9, <1>10, WorkerMoves

LEMMA CleanupKeeps ==
    ASSUME IInv, NEW s \in Scans, Cleanup(s)
    PROVE  IInv'
<1>1. /\ TypeOK /\ ScanOK(s) /\ WorkerOK(wk[s], parsed[s], pending[s])
      /\ DocOK(db[s], wk[s]) /\ wk \in [Scans -> Workers] /\ wk[s] \in Workers
    BY Local
<1> DEFINE w == [wk[s] EXCEPT !.pc = "ended"]
<1>2. w \in Workers /\ w.pc = "ended" /\ w.files = wk[s].files /\ w.idx = wk[s].idx
      /\ w.kind = wk[s].kind /\ w.targets = wk[s].targets /\ w.sweeps = wk[s].sweeps
    BY <1>1 DEF Workers, PCs
<1>3. WorkerOK(w, parsed[s], pending[s])
    BY <1>1, <1>2 DEF WorkerOK, Early
<1>4. DocOK(db[s], w)
    BY <1>1, <1>2 DEF DocOK, Closed, Cleanup
<1>5. wk' = [wk EXCEPT ![s] = w]
    BY <1>1 DEF Cleanup, Workers
<1>6. /\ temp' = temp \ {s} /\ abandoned' = abandoned /\ pending' = pending
      /\ UNCHANGED <<db, parsed, reported, cancelling>>
    BY DEF Cleanup, heartbeat, requests
<1>7. /\ pending' \in [Scans -> Broken..MaxFiles] /\ temp' \subseteq Scans
      /\ abandoned' \subseteq Scans
    BY <1>1, <1>6 DEF TypeOK
<1>8. s \notin abandoned' => db[s].state \in Terminal \cup {"ABSENT"}
    BY <1>1, <1>6 DEF ScanOK, Cleanup
<1>9. /\ pending'[s] = pending[s] /\ UNCHANGED <<db, parsed, reported, cancelling>>
      /\ \A t \in Scans \ {s} : /\ pending'[t] = pending[t]
                                /\ (t \in temp') = (t \in temp)
                                /\ (t \in abandoned') = (t \in abandoned)
    BY <1>6
<1>10. WorkerOK(w, parsed[s], pending'[s])
    BY <1>3, <1>9
<1>11. s \notin temp'
    BY <1>6
<1> HIDE DEF w
<1> QED
    BY <1>2, <1>4, <1>5, <1>7, <1>8, <1>9, <1>10, <1>11, WorkerMoves

-----------------------------------------------------------------------------
(* The heartbeat, the requests and the process *)

\* A step about scan s that leaves its worker alone.
LEMMA OthersAct ==
    ASSUME IInv, NEW s \in Scans, TypeOK', UNCHANGED <<wk, temp, abandoned>>,
           \A t \in Scans \ {s} : /\ db'[t] = db[t] /\ parsed'[t] = parsed[t]
                                  /\ pending'[t] = pending[t],
           WorkerOK(wk[s], parsed'[s], pending'[s]), DocOK(db'[s], wk[s]),
           db'[s].state \in {db[s].state, "CANCELLED", "ABSENT"}
    PROVE  IInv'
<1>1. Elsewhere(s)
    BY DEF Elsewhere
<1>2. ScanOK(s)
    BY DEF IInv
<1>3. ScanOK(s)'
    BY <1>2 DEF ScanOK, Terminal
<1> QED
    BY <1>1, <1>3, Frame

LEMMA ParseFileKeeps ==
    ASSUME IInv, NEW s \in Scans, ParseFile(s)
    PROVE  IInv'
<1>1. /\ TypeOK /\ WorkerOK(wk[s], parsed[s], pending[s]) /\ DocOK(db[s], wk[s])
      /\ wk[s] \in Workers /\ parsed[s] \in 0..MaxFiles /\ parsed \in [Scans -> 0..MaxFiles]
    BY Local DEF TypeOK
<1>2. parsed[s] + 1 \in 0..MaxFiles /\ parsed[s] + 1 <= wk[s].files
    BY <1>1, BoundsAssumption DEF ParseFile, Workers
<1>3. /\ parsed' \in [Scans -> 0..MaxFiles] /\ parsed'[s] = parsed[s] + 1
      /\ \A t \in Scans \ {s} : parsed'[t] = parsed[t]
    BY <1>1, <1>2 DEF ParseFile
<1>4. UNCHANGED <<db, wk, reported, pending, temp, cancelling, abandoned>>
    BY DEF ParseFile, requests
<1>5. TypeOK'
    BY <1>1, <1>3, <1>4 DEF TypeOK
<1>6. WorkerOK(wk[s], parsed'[s], pending'[s])
    BY <1>1, <1>2, <1>3, <1>4 DEF WorkerOK, Early, ParseFile
<1> QED
    BY <1>1, <1>3, <1>4, <1>5, <1>6, OthersAct

LEMMA HeartbeatTickKeeps ==
    ASSUME IInv, NEW s \in Scans, HeartbeatTick(s)
    PROVE  IInv'
<1>1. /\ TypeOK /\ WorkerOK(wk[s], parsed[s], pending[s]) /\ DocOK(db[s], wk[s])
      /\ parsed[s] \in 0..MaxFiles
    BY Local
<1>2. parsed[s] \in NoWrite..MaxFiles /\ parsed[s] \in Broken..MaxFiles
    BY <1>1, BoundsAssumption DEF NoWrite, Broken
<1>3. /\ pending' \in [Scans -> Broken..MaxFiles] /\ pending'[s] = parsed[s]
      /\ \A t \in Scans \ {s} : pending'[t] = pending[t]
      /\ reported' \in [Scans -> NoWrite..MaxFiles]
    BY <1>1, <1>2 DEF HeartbeatTick, TypeOK
<1>4. UNCHANGED <<db, wk, parsed, temp, cancelling, abandoned>>
    BY DEF HeartbeatTick, requests
<1>5. TypeOK'
    BY <1>1, <1>3, <1>4 DEF TypeOK
<1>6. WorkerOK(wk[s], parsed'[s], pending'[s])
    BY <1>1, <1>3, <1>4 DEF WorkerOK, Early, HeartbeatTick
<1> QED
    BY <1>1, <1>3, <1>4, <1>5, <1>6, OthersAct

\* A late progress write changes neither the state nor the summary.
LEMMA HeartbeatLandsKeeps ==
    ASSUME IInv, NEW s \in Scans, HeartbeatLands(s)
    PROVE  IInv'
<1>1. /\ TypeOK /\ WorkerOK(wk[s], parsed[s], pending[s]) /\ DocOK(db[s], wk[s])
      /\ db[s] \in Docs /\ wk[s] \in Workers /\ pending[s] \in Broken..MaxFiles
    BY Local
<1> DEFINE n == pending[s]
           p == 20 + Share(pending[s], wk[s].files, 60)
<1>2. n \in Nat /\ n <= wk[s].files /\ wk[s].files \in Nat \ {0} /\ n \in 0..MaxFiles
    BY <1>1, BoundsAssumption DEF HeartbeatLands, WorkerOK, Workers, Broken
<1>3. p \in 0..100
    <2>1. Share(n, wk[s].files, 60) \in 0..60
        BY <1>2, ShareBound
    <2> QED
        BY <2>1
<1> HIDE DEF p, n
<1> DEFINE d == [db[s] EXCEPT !.progress = p, !.files = n]
<1>4. d \in Docs
    BY <1>1, <1>2, <1>3, EditFiles
<1>5. d.state = db[s].state /\ d.total = db[s].total /\ d.summary = db[s].summary
    BY <1>1 DEF Docs
<1>6. _update_scan(s, d)
    BY DEF HeartbeatLands, p, n
<1> HIDE DEF d
<1>7. /\ db' \in [Scans -> Docs] /\ \A t \in Scans \ {s} : db'[t] = db[t]
      /\ db'[s] = IF db[s].state = "ABSENT" THEN db[s] ELSE d
    BY <1>1, <1>4, <1>6, UpdateScan DEF TypeOK
<1>8. DocOK(db'[s], wk[s]) /\ db'[s].state = db[s].state
    BY <1>1, <1>5, <1>7 DEF DocOK
<1>9. NoWrite \in Broken..MaxFiles
    BY BoundsAssumption DEF NoWrite, Broken
<1>10. /\ pending' \in [Scans -> Broken..MaxFiles] /\ pending'[s] = NoWrite
       /\ \A t \in Scans \ {s} : pending'[t] = pending[t]
    BY <1>1, <1>9 DEF HeartbeatLands, TypeOK
<1>11. UNCHANGED <<wk, parsed, reported, temp, cancelling, abandoned>>
    BY DEF HeartbeatLands, requests
<1>12. TypeOK'
    BY <1>1, <1>7, <1>10, <1>11 DEF TypeOK
<1>13. WorkerOK(wk[s], parsed'[s], pending'[s])
    BY <1>1, <1>10, <1>11 DEF WorkerOK, NoWrite, Workers
<1> QED
    BY <1>7, <1>8, <1>10, <1>11, <1>12, <1>13, OthersAct

LEMMA HeartbeatRaisesKeeps ==
    ASSUME IInv, NEW s \in Scans, HeartbeatRaises(s)
    PROVE  IInv'
<1>1. /\ TypeOK /\ WorkerOK(wk[s], parsed[s], pending[s]) /\ DocOK(db[s], wk[s])
      /\ wk[s] \in Workers
    BY Local
<1>2. Broken \in Broken..MaxFiles
    BY BoundsAssumption DEF Broken
<1>3. /\ pending' \in [Scans -> Broken..MaxFiles] /\ pending'[s] = Broken
      /\ \A t \in Scans \ {s} : pending'[t] = pending[t]
    BY <1>1, <1>2 DEF HeartbeatRaises, TypeOK
<1>4. UNCHANGED <<db, wk, parsed, reported, temp, cancelling, abandoned>>
    BY DEF HeartbeatRaises, requests
<1>5. TypeOK'
    BY <1>1, <1>3, <1>4 DEF TypeOK
<1>6. WorkerOK(wk[s], parsed'[s], pending'[s])
    BY <1>1, <1>3, <1>4 DEF WorkerOK, Early, Broken, Workers, HeartbeatRaises
<1> QED
    BY <1>1, <1>3, <1>4, <1>5, <1>6, OthersAct

LEMMA CancelFindsKeeps ==
    ASSUME IInv, NEW s \in Scans, CancelFinds(s)
    PROVE  IInv'
<1>1. /\ TypeOK /\ WorkerOK(wk[s], parsed[s], pending[s]) /\ DocOK(db[s], wk[s])
    BY Local
<1>2. UNCHANGED <<db, wk, parsed, reported, pending, temp, abandoned>>
    BY DEF CancelFinds, heartbeat
<1>3. TypeOK'
    BY <1>1, <1>2 DEF TypeOK, CancelFinds
<1> QED
    BY <1>1, <1>2, <1>3, OthersAct

LEMMA CancelWritesKeeps ==
    ASSUME IInv, NEW s \in Scans, CancelWrites(s)
    PROVE  IInv'
<1>1. /\ TypeOK /\ WorkerOK(wk[s], parsed[s], pending[s]) /\ DocOK(db[s], wk[s])
      /\ db[s] \in Docs
    BY Local
<1> DEFINE d == [db[s] EXCEPT !.state = "CANCELLED"]
<1>2. "CANCELLED" \in States
    BY Values
<1>3. d \in Docs
    BY <1>1, <1>2, EditState
<1>4. d.state = "CANCELLED" /\ d.total = db[s].total
    BY <1>1 DEF Docs
<1>5. _update_scan(s, d)
    BY DEF CancelWrites
<1> HIDE DEF d
<1>6. /\ db' \in [Scans -> Docs] /\ \A t \in Scans \ {s} : db'[t] = db[t]
      /\ db'[s] = IF db[s].state = "ABSENT" THEN db[s] ELSE d
    BY <1>1, <1>3, <1>5, UpdateScan DEF TypeOK
<1>7. DocOK(db'[s], wk[s]) /\ db'[s].state \in {db[s].state, "CANCELLED", "ABSENT"}
    BY <1>1, <1>4, <1>6 DEF DocOK
<1>8. UNCHANGED <<wk, parsed, reported, pending, temp, abandoned>>
    BY DEF CancelWrites, heartbeat
<1>9. TypeOK'
    BY <1>1, <1>6, <1>8 DEF TypeOK, CancelWrites
<1> QED
    BY <1>1, <1>6, <1>7, <1>8, <1>9, OthersAct

LEMMA DeleteScanKeeps ==
    ASSUME IInv, NEW s \in Scans, DeleteScan(s)
    PROVE  IInv'
<1>1. /\ TypeOK /\ WorkerOK(wk[s], parsed[s], pending[s])
    BY Local
<1>2. /\ db' \in [Scans -> Docs] /\ \A t \in Scans \ {s} : db'[t] = db[t]
      /\ db'[s] = NoDoc
    BY <1>1, Values DEF TypeOK, DeleteScan
<1>3. DocOK(db'[s], wk[s]) /\ db'[s].state = "ABSENT"
    BY <1>2, Values DEF DocOK
<1>4. UNCHANGED <<wk, parsed, reported, pending, temp, cancelling, abandoned>>
    BY DEF DeleteScan, heartbeat, requests
<1>5. TypeOK'
    BY <1>1, <1>2, <1>4 DEF TypeOK
<1> QED
    BY <1>1, <1>2, <1>3, <1>4, <1>5, OthersAct

\* A new scan starts from a clean slate.
LEMMA InsertScanKeeps ==
    ASSUME IInv, NEW s \in Scans, InsertScan(s)
    PROVE  IInv'
<1>1. /\ TypeOK /\ ScanOK(s) /\ WorkerOK(wk[s], parsed[s], pending[s])
      /\ wk \in [Scans -> Workers] /\ (s \in temp => OwnsTemp(wk[s]))
    BY Local
<1>2. PICK j \in Jobs :
          wk' = [wk EXCEPT ![s] = [NoWorker EXCEPT !.pc = "inserted",
                                        !.kind = j.kind, !.targets = j.targets]]
    BY DEF InsertScan
<1>3. /\ j.kind \in Kinds /\ j.targets \in 0..MaxTargets
      /\ j.kind = "dynamic" => j.targets >= 1
    <2>1. j.kind \in OfferedKinds /\ j.targets \in 0..MaxTargets
        BY DEF Jobs
    <2>2. j.kind = "dynamic" => j.targets > 0
        BY DEF Jobs
    <2>3. j.kind \in Kinds
        BY <2>1, OfferedAssumption DEF Kinds
    <2>4. j.kind = "dynamic" => j.targets >= 1
        BY <2>1, <2>2, BoundsAssumption
    <2> QED
        BY <2>1, <2>3, <2>4
<1> DEFINE w == [NoWorker EXCEPT !.pc = "inserted", !.kind = j.kind, !.targets = j.targets]
<1>4. /\ w.pc = "inserted" /\ w.kind = j.kind /\ w.targets = j.targets /\ w.files = 0
      /\ w.idx = 0 /\ w.sweeps = {}
    BY DEF NoWorker
<1>5. w \in Workers
    <2>1. 0 \in 0..MaxFiles /\ 0 \in 0..(MaxFiles + MaxTargets) /\ "inserted" \in PCs
          /\ "empty" \in Outcomes
        BY BoundsAssumption DEF PCs, Outcomes
    <2> QED
        BY <1>3, <2>1 DEF NoWorker, Workers
<1>6. parsed[s] = 0 /\ pending[s] = NoWrite /\ s \notin temp
    BY <1>1 DEF WorkerOK, Early, OwnsTemp, InsertScan
<1>7. WorkerOK(w, parsed[s], pending[s])
    BY <1>3, <1>4, <1>6 DEF WorkerOK, NoWrite
<1>8. DocOK(PendingDoc, w)
    BY <1>4, Values DEF DocOK
<1> HIDE DEF w
<1>9. wk' \in [Scans -> Workers] /\ wk'[s] = w /\ \A t \in Scans \ {s} : wk'[t] = wk[t]
    BY <1>1, <1>2, <1>5 DEF w
<1>10. /\ db' \in [Scans -> Docs] /\ db'[s] = PendingDoc
       /\ \A t \in Scans \ {s} : db'[t] = db[t]
    BY <1>1, Values DEF TypeOK, InsertScan
<1>11. UNCHANGED <<parsed, reported, pending, temp, cancelling, abandoned>>
    BY DEF InsertScan, heartbeat, requests
<1>12. TypeOK' /\ Elsewhere(s)
    BY <1>1, <1>9, <1>10, <1>11 DEF TypeOK, Elsewhere
<1>13. ScanOK(s)'
    BY <1>4, <1>6, <1>7, <1>8, <1>9, <1>10, <1>11 DEF ScanOK
<1> QED
    BY <1>12, <1>13, Frame

\* A crash kills every worker where it stands and touches no document.
LEMMA CrashKeeps ==
    ASSUME IInv, Crash
    PROVE  IInv'
<1>1. TypeOK
    BY DEF IInv
<1>2. UNCHANGED <<db, parsed, reported, temp, abandoned>>
    BY DEF Crash
<1>3. NoWrite \in Broken..MaxFiles
    BY BoundsAssumption DEF NoWrite, Broken
<1>4. pending' \in [Scans -> Broken..MaxFiles] /\ \A s \in Scans : pending'[s] = NoWrite
    BY <1>3 DEF Crash
<1>5. ASSUME NEW s \in Scans
      PROVE  wk'[s] \in Workers /\ ScanOK(s)'
    <2>1. /\ WorkerOK(wk[s], parsed[s], pending[s]) /\ DocOK(db[s], wk[s]) /\ ScanOK(s)
          /\ wk[s] \in Workers /\ (s \in temp => OwnsTemp(wk[s]))
          /\ parsed[s] \in 0..MaxFiles
        BY Local
    <2>2. PICK pc \in {wk[s].pc, "lost"} :
              /\ wk'[s] = [wk[s] EXCEPT !.pc = pc]
              /\ pc = "ended" => wk[s].pc = "ended"
              /\ wk[s].pc \in {"idle", "ended"} => pc = wk[s].pc
              /\ pc \in {"idle", "ended", "lost"}
        <3>1. CASE wk[s].pc \in {"idle", "ended"}
            <4>1. wk'[s] = wk[s]
                BY <3>1 DEF Crash
            <4>2. wk[s] = [wk[s] EXCEPT !.pc = wk[s].pc]
                BY <2>1 DEF Workers
            <4> QED
                BY <3>1, <4>1, <4>2
        <3>2. CASE wk[s].pc \notin {"idle", "ended"}
            BY <3>2 DEF Crash
        <3> QED
            BY <3>1, <3>2
    <2> DEFINE w == [wk[s] EXCEPT !.pc = pc]
    <2>3. w \in Workers /\ w.pc = pc /\ w.files = wk[s].files /\ w.idx = wk[s].idx
          /\ w.kind = wk[s].kind /\ w.targets = wk[s].targets /\ w.sweeps = wk[s].sweeps
        BY <2>1, <2>2 DEF Workers, PCs
    <2>4. WorkerOK(w, parsed[s], NoWrite)
        BY <2>1, <2>2, <2>3 DEF WorkerOK, Early, NoWrite, Workers
    <2>5. DocOK(db[s], w)
        BY <2>1, <2>2, <2>3 DEF DocOK, Closed
    <2>6. s \in temp => OwnsTemp(w)
        BY <2>1, <2>2, <2>3 DEF OwnsTemp
    <2>7. w.pc \in {"cleanup", "ended"} /\ s \notin abandoned
              => db[s].state \in Terminal \cup {"ABSENT"}
        BY <2>1, <2>2, <2>3 DEF ScanOK
    <2>8. wk'[s] = w
        BY <2>2
    <2> HIDE DEF w
    <2> QED
        BY <1>2, <1>4, <2>3, <2>4, <2>5, <2>6, <2>7, <2>8 DEF ScanOK
<1>6. wk' \in [Scans -> Workers]
    BY <1>5 DEF Crash
<1>7. TypeOK'
    BY <1>1, <1>2, <1>4, <1>6 DEF TypeOK, Crash
<1> QED
    BY <1>5, <1>7 DEF IInv

-----------------------------------------------------------------------------
(* The inductive invariant and what follows from it *)

LEMMA InitOK == Init => IInv
<1> SUFFICES ASSUME Init PROVE IInv
    OBVIOUS
<1>1. /\ 0 \in 0..MaxFiles /\ 0 \in 0..(MaxFiles + MaxTargets) /\ 0 \in 0..MaxTargets
      /\ NoWrite \in NoWrite..MaxFiles /\ NoWrite \in Broken..MaxFiles
    BY BoundsAssumption DEF NoWrite, Broken
<1>2. NoWorker \in Workers
    BY <1>1 DEF NoWorker, Workers, PCs, Kinds, Outcomes
<1>3. NoWorker.pc = "idle" /\ NoWorker.kind = "code" /\ NoWorker.files = 0
      /\ NoWorker.idx = 0 /\ NoWorker.sweeps = {}
    BY DEF NoWorker
<1>4. TypeOK
    BY <1>1, <1>2, Values DEF Init, TypeOK
<1>5. ASSUME NEW s \in Scans PROVE ScanOK(s)
    <2>1. wk[s] = NoWorker /\ db[s] = NoDoc /\ parsed[s] = 0 /\ pending[s] = NoWrite
          /\ temp = {}
        BY DEF Init
    <2>2. WorkerOK(NoWorker, 0, NoWrite)
        BY <1>3 DEF WorkerOK, NoWrite
    <2>3. DocOK(NoDoc, NoWorker)
        BY Values DEF DocOK
    <2> QED
        BY <1>3, <2>1, <2>2, <2>3 DEF ScanOK
<1> QED
    BY <1>4, <1>5 DEF IInv

LEMMA NextOK == IInv /\ [Next]_vars => IInv'
<1> SUFFICES ASSUME IInv, [Next]_vars PROVE IInv'
    OBVIOUS
<1>1. CASE UNCHANGED vars
    BY <1>1 DEF vars, IInv, TypeOK, ScanOK
<1>2. CASE Crash
    BY <1>2, CrashKeeps
<1>3. ASSUME NEW s \in Scans, WorkerStep(s) PROVE IInv'
    BY <1>3, DispatchScanKeeps, BeginCodeKeeps, AnnounceCodeKeeps, AnalyseCodeKeeps,
       CompleteCodeKeeps, RejectTargetKeeps, BeginDynamicKeeps, SweepTargetKeeps,
       EndSweepsKeeps, CompleteDynamicKeeps, BeginRepoKeeps, ExtractArchiveKeeps,
       StartCloneKeeps, CollectNothingKeeps, CollectFilesKeeps, AnalysisTimesOutKeeps,
       ScanFileKeeps, EndFilesKeeps, CompleteRepoKeeps,
       FailScanKeeps, CleanupKeeps DEF WorkerStep
<1>4. ASSUME NEW s \in Scans, LoopStep(s) PROVE IInv'
    BY <1>3, <1>4, InsertScanKeeps, AnalysisReturnsKeeps, HeartbeatTickKeeps,
       HeartbeatRaisesKeeps, WorkerRaisesKeeps, DbRaisesKeeps, FailScanRaisesKeeps, CancelFindsKeeps,
       CancelWritesKeeps, DeleteScanKeeps DEF LoopStep
<1>5. ASSUME NEW s \in Scans, ThreadStep(s) PROVE IInv'
    BY <1>5, ParseFileKeeps, HeartbeatLandsKeeps, CloneReturnsKeeps DEF ThreadStep
<1> QED
    BY <1>1, <1>2, <1>4, <1>5 DEF Next

LEMMA Invariance == Spec => []IInv
<1> QED
    BY InitOK, NextOK, PTL DEF Spec

\* Types: whatever interleaving of worker, heartbeat, requests and crashes, the
\* progress is a percentage and the counters count files of the repository.
THEOREM TypeCorrect == Spec => []TypeOK
<1>1. IInv => TypeOK
    BY DEF IInv
<1> QED
    BY <1>1, Invariance, PTL

\* No worker that ends leaves a document PENDING or RUNNING behind, unless the
\* FAILED write of its own except clause was refused.
THEOREM NothingLeftBehind == Spec => []NoScanLeftBehind
<1>1. IInv => NoScanLeftBehind
    BY DEF IInv, ScanOK, NoScanLeftBehind
<1> QED
    BY <1>1, Invariance, PTL

\* A reader that sees a verdict finds the summary of that run next to it.
THEOREM VerdictSummary == Spec => []VerdictMatchesSummary
<1>1. IInv => VerdictMatchesSummary
    BY DEF IInv, ScanOK, DocOK, VerdictMatchesSummary
<1> QED
    BY <1>1, Invariance, PTL

\* Every exit path of a repository worker removes its checked-out tree.
THEOREM TempReleased == Spec => []TempRootReleased
<1>1. IInv => TempRootReleased
    BY DEF IInv, ScanOK, OwnsTemp, TempRootReleased
<1> QED
    BY <1>1, Invariance, PTL

\* What a step of scan t can do to the collection.
Touches(t) ==
    \/ UNCHANGED db
    \/ \E d : _update_scan(t, d)
    \/ InsertScan(t)
    \/ DeleteScan(t)

LEMMA StepTouches ==
    ASSUME NEW t \in Scans, LoopStep(t) \/ ThreadStep(t)
    PROVE  Touches(t)
<1>1. CASE DispatchScan(t) \/ AnalyseCode(t) \/ RejectTarget(t) \/ EndSweeps(t)
           \/ ExtractArchive(t) \/ StartClone(t) \/ CloneReturns(t) \/ EndFiles(t)
           \/ WorkerRaises(t) \/ DbRaises(t) \/ FailScanRaises(t) \/ Cleanup(t)
    BY <1>1 DEF Touches, DispatchScan, AnalyseCode, RejectTarget, EndSweeps,
       ExtractArchive, StartClone, CloneReturns, EndFiles, WorkerRaises, DbRaises,
       FailScanRaises, Cleanup
<1>2. CASE AnalysisTimesOut(t) \/ AnalysisReturns(t) \/ ParseFile(t) \/ HeartbeatTick(t)
           \/ HeartbeatRaises(t) \/ CancelFinds(t)
    BY <1>2 DEF Touches, AnalysisTimesOut, AnalysisReturns, ParseFile, HeartbeatTick,
       HeartbeatRaises, CancelFinds
<1>3. CASE BeginCode(t) \/ AnnounceCode(t) \/ CompleteCode(t) \/ BeginDynamic(t)
           \/ SweepTarget(t) \/ CompleteDynamic(t)
    BY <1>3 DEF Touches, BeginCode, AnnounceCode, CompleteCode, BeginDynamic,
       SweepTarget, CompleteDynamic
<1>4. CASE BeginRepo(t) \/ CollectNothing(t) \/ CollectFiles(t) \/ ScanFile(t)
           \/ CompleteRepo(t) \/ FailScan(t) \/ HeartbeatLands(t) \/ CancelWrites(t)
    BY <1>4 DEF Touches, BeginRepo, CollectNothing, CollectFiles, ScanFile,
       CompleteRepo, FailScan, HeartbeatLands, CancelWrites
<1>5. CASE InsertScan(t) \/ DeleteScan(t)
    BY <1>5 DEF Touches
<1> QED
    BY <1>1, <1>2, <1>3, <1>4, <1>5 DEF LoopStep, ThreadStep, WorkerStep

\* A deleted document is never written back, whichever write was on its way.
THEOREM DeletedForGood == Spec => DeletedStaysDeleted
<1> DEFINE Stays == \A s \in Scans : wk[s].pc # "idle" /\ db[s].state = "ABSENT"
                                        => db'[s].state = "ABSENT"
<1>1. ASSUME TypeOK, Next PROVE Stays
    <2> SUFFICES ASSUME NEW s \in Scans, wk[s].pc # "idle", db[s].state = "ABSENT"
                 PROVE  db'[s].state = "ABSENT"
        OBVIOUS
    <2>1. CASE Crash
        BY <2>1 DEF Crash
    <2>2. ASSUME NEW t \in Scans, Touches(t) PROVE db'[s].state = "ABSENT"
        <3>1. CASE UNCHANGED db
            BY <3>1
        <3>2. CASE \E d : _update_scan(t, d)
            BY <1>1, <3>2 DEF _update_scan, TypeOK
        <3>3. CASE InsertScan(t)
            <4>1. t # s
                BY <3>3 DEF InsertScan
            <4> QED
                BY <1>1, <3>3, <4>1 DEF InsertScan, TypeOK
        <3>4. CASE DeleteScan(t)
            BY <1>1, <3>4, Values DEF DeleteScan, TypeOK
        <3> QED
            BY <2>2, <3>1, <3>2, <3>3, <3>4 DEF Touches
    <2> QED
        BY <1>1, <2>1, <2>2, StepTouches DEF Next
<1>2. TypeOK /\ [Next]_vars => [Stays]_vars
    BY <1>1
<1> HIDE DEF Stays
<1>3. Spec => [][Stays]_vars
    BY <1>2, TypeCorrect, PTL DEF Spec
<1> QED
    BY <1>3 DEF DeletedStaysDeleted, Stays

-----------------------------------------------------------------------------
(* ScanLifecycle implements ScanRecord *)

RecordStep == [Record!RecordNext]_(Record!recordVars)

\* The stages of a worker's life, by where its task is.
LEMMA LifeOfPc ==
    ASSUME NEW w, w.pc \in PCs
    PROVE  /\ w.pc = "idle" => Life(w) = "new"
           /\ w.pc \in {"inserted", "begin"} => Life(w) = "queued"
           /\ w.pc = "failing" => Life(w) = "closing"
           /\ w.pc \in {"cleanup", "ended", "lost"} => Life(w) = "judged"
           /\ w.pc \in {"announce", "fetch", "cloning", "collect", "analyse", "files",
                        "sweep", "complete"} => Life(w) = "running"
BY DEF Life, PCs

\* A step that leaves every state as it is: the record stutters, or sees its
\* worker raise.
LEMMA QuietStep ==
    ASSUME NEW s \in Scans,
           \A t \in Scans : db'[t].state = db[t].state,
           \A t \in Scans \ {s} : wk'[t] = wk[t],
           \/ Life(wk'[s]) = Life(wk[s])
           \/ Life(wk[s]) \in {"queued", "running"} /\ Life(wk'[s]) = "closing"
    PROVE  RecordStep
<1> DEFINE state == [t \in Scans |-> db[t].state]
           life  == [t \in Scans |-> Life(wk[t])]
<1>1. state' = state
    OBVIOUS
<1>2. \A t \in Scans \ {s} : Life(wk'[t]) = Life(wk[t])
    OBVIOUS
<1>3. life' = [life EXCEPT ![s] = Life(wk'[s])]
    BY <1>2
<1>4. CASE Life(wk'[s]) = Life(wk[s])
    <2>1. life' = life
        BY <1>2, <1>4
    <2> QED
        BY <1>1, <2>1 DEF RecordStep, Record!recordVars
<1>5. CASE Life(wk[s]) \in {"queued", "running"} /\ Life(wk'[s]) = "closing"
    <2>1. Record!Raise(s)
        BY <1>1, <1>3, <1>5 DEF Record!Raise
    <2> QED
        BY <2>1 DEF RecordStep, Record!RecordNext
<1> QED
    BY <1>4, <1>5

\* A write of the worker of s that sets the state to v.
LEMMA VerdictStep ==
    ASSUME TypeOK, NEW s \in Scans, NEW d, _update_scan(s, d),
           \A t \in Scans \ {s} : wk'[t] = wk[t],
           \/ /\ d.state = "RUNNING" /\ Life(wk[s]) = "queued"
              /\ Life(wk'[s]) \in {"running", "closing"}
           \/ /\ d.state = "COMPLETED" /\ Life(wk[s]) = "running"
              /\ Life(wk'[s]) \in {"closing", "judged"}
           \/ /\ d.state = "FAILED" /\ Life(wk[s]) \in {"running", "closing"}
              /\ Life(wk'[s]) \in {"closing", "judged"}
    PROVE  RecordStep
<1> DEFINE state == [t \in Scans |-> db[t].state]
           life  == [t \in Scans |-> Life(wk[t])]
<1>1. /\ \A t \in Scans \ {s} : db'[t] = db[t]
      /\ db'[s] = IF db[s].state = "ABSENT" THEN db[s] ELSE d
    BY DEF _update_scan, TypeOK
<1>2. state' = [state EXCEPT ![s] = IF @ = "ABSENT" THEN @ ELSE d.state]
    BY <1>1
<1>3. life' = [life EXCEPT ![s] = Life(wk'[s])]
    OBVIOUS
<1>4. life[s] = Life(wk[s])
    OBVIOUS
<1> HIDE DEF state, life
<1>5. Record!Begin(s) \/ Record!Complete(s) \/ Record!Fail(s)
    BY <1>2, <1>3, <1>4 DEF state, life, Record!Begin, Record!Complete, Record!Fail, Record!Set
<1> QED
    BY <1>5 DEF RecordStep, Record!RecordNext

\* The worker of s is at pc p after the step, those of the others stay put.
MovesTo(s, p) == wk'[s].pc = p /\ \A t \in Scans \ {s} : wk'[t] = wk[t]

\* The three ways the actions write wk.
LEMMA Moves ==
    ASSUME TypeOK, NEW s \in Scans
    PROVE  /\ \A p : wk' = [wk EXCEPT ![s].pc = p] => MovesTo(s, p)
           /\ \A w : wk' = [wk EXCEPT ![s] = w] => MovesTo(s, w.pc)
           /\ \A w : Resume(s, w) => MovesTo(s, w.pc) \/ MovesTo(s, "failing")
           /\ wk[s].pc \in PCs
<1>1. wk \in [Scans -> Workers] /\ wk[s] \in Workers
    BY DEF TypeOK
<1>2. ASSUME NEW p, wk' = [wk EXCEPT ![s].pc = p] PROVE MovesTo(s, p)
    BY <1>1, <1>2 DEF MovesTo, Workers
<1>3. ASSUME NEW w, wk' = [wk EXCEPT ![s] = w] PROVE MovesTo(s, w.pc)
    BY <1>1, <1>3 DEF MovesTo
<1>4. ASSUME NEW w, Resume(s, w) PROVE MovesTo(s, w.pc) \/ MovesTo(s, "failing")
    BY <1>2, <1>3, <1>4 DEF Resume
<1>5. wk[s].pc \in PCs
    BY <1>1 DEF Workers
<1> QED
    BY <1>2, <1>3, <1>4, <1>5

\* A worker that moves within its stage, or raises, while every state stays.
LEMMA MoveStep ==
    ASSUME TypeOK, NEW s \in Scans, NEW p \in PCs, MovesTo(s, p),
           \A t \in Scans : db'[t].state = db[t].state,
           \/ /\ wk[s].pc \in {"inserted", "begin"}
              /\ p \in {"inserted", "begin", "failing"}
           \/ /\ wk[s].pc \in {"announce", "fetch", "cloning", "collect", "analyse", "files",
                               "sweep", "complete"}
              /\ p \in {"announce", "fetch", "cloning", "collect", "analyse", "files",
                        "sweep", "complete", "failing"}
           \/ /\ wk[s].pc \in {"cleanup", "ended"}
              /\ p \in {"cleanup", "ended"}
    PROVE  RecordStep
<1>1. wk[s].pc \in PCs /\ wk'[s].pc = p
    BY Moves DEF MovesTo
<1>2. \/ Life(wk'[s]) = Life(wk[s])
      \/ Life(wk[s]) \in {"queued", "running"} /\ Life(wk'[s]) = "closing"
    BY <1>1, LifeOfPc
<1> QED
    BY <1>2, QuietStep DEF MovesTo

\* A document edit that keeps the state keeps every state.
LEMMA EditKeepsState ==
    ASSUME TypeOK, NEW s \in Scans, NEW d, _update_scan(s, d), d.state = db[s].state
    PROVE  \A t \in Scans : db'[t].state = db[t].state
BY DEF TypeOK, _update_scan

LEMMA TurnsRefine ==
    ASSUME TypeOK, NEW s \in Scans,
           \/ DispatchScan(s) \/ AnalyseCode(s) \/ EndSweeps(s) \/ StartClone(s)
           \/ EndFiles(s) \/ ExtractArchive(s) \/ CloneReturns(s) \/ RejectTarget(s)
           \/ WorkerRaises(s) \/ DbRaises(s)
    PROVE  RecordStep
<1>1. \A t \in Scans : db'[t].state = db[t].state
    BY DEF DispatchScan, AnalyseCode, EndSweeps, StartClone, EndFiles, ExtractArchive,
       CloneReturns, RejectTarget, WorkerRaises, DbRaises
<1>2. CASE DispatchScan(s) \/ RejectTarget(s)
    <2>1. MovesTo(s, "begin") \/ MovesTo(s, "failing")
        BY <1>2, Moves DEF DispatchScan, RejectTarget
    <2> QED
        BY <1>1, <1>2, <2>1, MoveStep DEF DispatchScan, RejectTarget, PCs
<1>3. CASE AnalyseCode(s)
    <2>1. MovesTo(s, "complete")
        BY <1>3 DEF AnalyseCode, TypeOK, MovesTo, Workers
    <2> QED
        BY <1>1, <1>3, <2>1, MoveStep DEF AnalyseCode, PCs
<1>4. CASE EndSweeps(s) \/ StartClone(s) \/ ExtractArchive(s) \/ CloneReturns(s)
    <2>1. PICK p \in {"complete", "cloning", "collect", "failing"} : MovesTo(s, p)
        BY <1>4, Moves DEF EndSweeps, StartClone, ExtractArchive, CloneReturns
    <2>2. wk[s].pc \in {"sweep", "fetch", "cloning"}
        BY <1>4 DEF EndSweeps, StartClone, ExtractArchive, CloneReturns
    <2> QED
        BY <1>1, <2>1, <2>2, MoveStep DEF PCs
<1>5. CASE EndFiles(s)
    <2>1. MovesTo(s, IF wk[s].targets > 0 THEN "sweep" ELSE "complete")
        BY <1>5 DEF EndFiles, TypeOK, MovesTo, Workers
    <2> QED
        BY <1>1, <1>5, <2>1, MoveStep DEF EndFiles, PCs
<1>6. CASE WorkerRaises(s) \/ DbRaises(s)
    <2>1. MovesTo(s, "failing")
        BY <1>6, Moves DEF WorkerRaises, DbRaises
    <2>2. wk[s].pc \in {"begin", "announce", "fetch", "collect", "analyse", "files",
                        "sweep", "complete"}
        BY <1>6 DEF WorkerRaises, DbRaises
    <2> QED
        BY <1>1, <2>1, <2>2, MoveStep DEF PCs
<1> QED
    BY <1>2, <1>3, <1>4, <1>5, <1>6

\* The steps of the heartbeat, the parser thread, and an answered cancel or the
\* rmtree of an ended worker: nothing the record shows.
LEMMA BackgroundRefine ==
    ASSUME TypeOK, NEW s \in Scans,
           \/ ParseFile(s) \/ HeartbeatTick(s) \/ HeartbeatLands(s) \/ HeartbeatRaises(s)
           \/ CancelFinds(s) \/ Cleanup(s)
    PROVE  RecordStep
<1>1. CASE Cleanup(s)
    <2>1. MovesTo(s, "ended") /\ wk[s].pc = "cleanup"
        BY <1>1, Moves DEF Cleanup
    <2> QED
        BY <1>1, <2>1, MoveStep DEF Cleanup, PCs
<1>2. CASE ParseFile(s) \/ HeartbeatTick(s) \/ HeartbeatRaises(s) \/ CancelFinds(s)
    <2>1. UNCHANGED <<db, wk>>
        BY <1>2 DEF ParseFile, HeartbeatTick, HeartbeatRaises, CancelFinds
    <2> QED
        BY <2>1, QuietStep
<1>3. CASE HeartbeatLands(s)
    <2> DEFINE d == [db[s] EXCEPT !.progress = 20 + Share(pending[s], wk[s].files, 60),
                                  !.files = pending[s]]
    <2>1. _update_scan(s, d) /\ wk' = wk
        BY <1>3 DEF HeartbeatLands
    <2>2. d.state = db[s].state
        BY DEF TypeOK, Docs
    <2> HIDE DEF d
    <2>3. \A t \in Scans : db'[t].state = db[t].state
        BY <2>1, <2>2, EditKeepsState
    <2> QED
        BY <2>1, <2>3, QuietStep
<1> QED
    BY <1>1, <1>2, <1>3

\* Leaving the analysis: with its result, or into the except clause.
LEMMA LeaveRefine ==
    ASSUME TypeOK, NEW s \in Scans, AnalysisReturns(s) \/ AnalysisTimesOut(s)
    PROVE  RecordStep
<1>1. wk[s].pc = "analyse" /\ db' = db
    BY DEF AnalysisReturns, AnalysisTimesOut
<1>2. PICK ran : LeaveAnalysis(s, ran)
    BY DEF AnalysisReturns, AnalysisTimesOut
<1>3. MovesTo(s, IF pending[s] = Broken THEN "failing" ELSE "files")
    BY <1>2 DEF LeaveAnalysis, TypeOK, MovesTo, Workers
<1> QED
    BY <1>1, <1>3, MoveStep DEF PCs

\* The worker's progress reports: no state changes, though a report that raises
\* closes the worker.
LEMMA ProgressRefine ==
    ASSUME TypeOK, NEW s \in Scans,
           AnnounceCode(s) \/ SweepTarget(s) \/ CollectFiles(s) \/ ScanFile(s)
    PROVE  RecordStep
<1>1. db[s] \in Docs /\ wk[s] \in Workers
    BY DEF TypeOK
<1>2. /\ \A q : [db[s] EXCEPT !.progress = q].state = db[s].state
      /\ \A n, q : [db[s] EXCEPT !.total = n, !.progress = q].state = db[s].state
      /\ \A n, q : [db[s] EXCEPT !.files = n, !.progress = q].state = db[s].state
    BY <1>1 DEF Docs
<1>3. \E d : _update_scan(s, d) /\ d.state = db[s].state
    <2>1. CASE AnnounceCode(s)
        BY <1>2, <2>1 DEF AnnounceCode
    <2>2. CASE SweepTarget(s)
        BY <1>2, <2>2 DEF SweepTarget
    <2>3. CASE CollectFiles(s)
        <3>1. PICK n : _update_scan(s, [db[s] EXCEPT !.total = n, !.progress = 20])
            BY <2>3 DEF CollectFiles
        <3> DEFINE d == [db[s] EXCEPT !.total = n, !.progress = 20]
        <3>2. d.state = db[s].state
            BY <1>2
        <3> HIDE DEF d
        <3> QED
            BY <3>1, <3>2 DEF d
    <2>4. CASE ScanFile(s)
        <3> DEFINE d == [db[s] EXCEPT !.files = wk[s].idx + 1,
                              !.progress = 20 + Share(wk[s].idx + 1, wk[s].files, 70)]
        <3>1. d.state = db[s].state
            BY <1>2
        <3>2. _update_scan(s, d)
            BY <2>4 DEF ScanFile
        <3> HIDE DEF d
        <3> QED
            BY <3>1, <3>2
    <2> QED
        BY <2>1, <2>2, <2>3, <2>4
<1>4. \A t \in Scans : db'[t].state = db[t].state
    BY <1>3, EditKeepsState
<1>5. /\ wk[s].pc \in {"announce", "sweep", "collect", "files"}
      /\ \E p \in {"analyse", "sweep", "files", "failing"} : MovesTo(s, p)
    <2>1. CASE AnnounceCode(s)
        <3>1. [wk[s] EXCEPT !.pc = "analyse", !.files = 1].pc = "analyse"
            BY <1>1 DEF Workers
        <3> QED
            BY <2>1, <3>1, Moves DEF AnnounceCode
    <2>2. CASE SweepTarget(s)
        <3>1. \A got : [wk[s] EXCEPT !.idx = @ + 1, !.sweeps = @ \cup got].pc = wk[s].pc
            BY <1>1 DEF Workers
        <3>2. PICK got : Resume(s, [wk[s] EXCEPT !.idx = @ + 1, !.sweeps = @ \cup got])
            BY <2>2 DEF SweepTarget
        <3> QED
            BY <2>2, <3>1, <3>2, Moves DEF SweepTarget
    <2>3. CASE CollectFiles(s)
        <3>1. \A n : [wk[s] EXCEPT !.pc = "analyse", !.files = n].pc = "analyse"
            BY <1>1 DEF Workers
        <3>2. PICK n : Resume(s, [wk[s] EXCEPT !.pc = "analyse", !.files = n])
            BY <2>3 DEF CollectFiles
        <3> QED
            BY <2>3, <3>1, <3>2, Moves DEF CollectFiles
    <2>4. CASE ScanFile(s)
        <3>1. [wk[s] EXCEPT !.idx = @ + 1].pc = wk[s].pc
            BY <1>1 DEF Workers
        <3>2. Resume(s, [wk[s] EXCEPT !.idx = @ + 1])
            BY <2>4 DEF ScanFile
        <3> QED
            BY <2>4, <3>1, <3>2, Moves DEF ScanFile
    <2> QED
        BY <2>1, <2>2, <2>3, <2>4
<1> QED
    BY <1>4, <1>5, MoveStep DEF PCs

\* The writes that set the state.
LEMMA WritesRefine ==
    ASSUME TypeOK, NEW s \in Scans,
           \/ BeginCode(s) \/ BeginDynamic(s) \/ BeginRepo(s)
           \/ CompleteCode(s) \/ CompleteDynamic(s) \/ CompleteRepo(s)
           \/ CollectNothing(s) \/ FailScan(s)
    PROVE  RecordStep
<1>1. db[s] \in Docs /\ wk[s] \in Workers
    BY DEF TypeOK
<1>2. /\ \A v, q : [db[s] EXCEPT !.state = v, !.progress = q].state = v
      /\ \A v, y : [db[s] EXCEPT !.state = v, !.summary = y].state = v
      /\ \A v, q, y : [db[s] EXCEPT !.state = v, !.progress = q, !.summary = y].state = v
      /\ \A v, q, f, n, y : [db[s] EXCEPT !.state = v, !.progress = q, !.files = f,
                                          !.total = n, !.summary = y].state = v
    BY <1>1 DEF Docs
<1>3. \A p : [wk[s] EXCEPT !.pc = p].pc = p
    BY <1>1 DEF Workers
<1>4. CASE BeginCode(s) \/ BeginDynamic(s) \/ BeginRepo(s)
    <2>1. PICK d : _update_scan(s, d) /\ d.state = "RUNNING"
        <3> DEFINE d(q) == [db[s] EXCEPT !.state = "RUNNING", !.progress = q]
        <3>1. \A q : d(q).state = "RUNNING"
            BY <1>2
        <3>2. \E q : _update_scan(s, d(q))
            BY <1>4 DEF BeginCode, BeginDynamic, BeginRepo
        <3> HIDE DEF d
        <3> QED
            BY <3>1, <3>2
    <2>2. PICK p \in {"announce", "sweep", "fetch", "failing"} : MovesTo(s, p)
        BY <1>3, <1>4, Moves DEF BeginCode, BeginDynamic, BeginRepo
    <2>3. wk[s].pc = "begin"
        BY <1>4 DEF BeginCode, BeginDynamic, BeginRepo
    <2>4. Life(wk[s]) = "queued" /\ Life(wk'[s]) \in {"running", "closing"}
        BY <2>2, <2>3, LifeOfPc DEF MovesTo, PCs
    <2> QED
        BY <2>1, <2>2, <2>4, VerdictStep DEF MovesTo
<1>5. CASE CompleteCode(s) \/ CompleteDynamic(s) \/ CompleteRepo(s)
    <2>1. PICK d : _update_scan(s, d) /\ d.state = "COMPLETED"
        <3>1. CASE CompleteCode(s)
            <4> DEFINE d == [db[s] EXCEPT !.state = "COMPLETED", !.progress = 100,
                                !.files = 1, !.total = 1,
                                !.summary = [status |-> "COMPLETED", total |-> 1,
                                             analysed |-> wk[s].analysed, sweeps |-> {}]]
            <4>1. d.state = "COMPLETED"
                BY <1>2
            <4>2. _update_scan(s, d)
                BY <3>1 DEF CompleteCode
            <4> HIDE DEF d
            <4> QED
                BY <4>1, <4>2
        <3>2. CASE CompleteDynamic(s)
            <4> DEFINE d == [db[s] EXCEPT !.state = "COMPLETED", !.progress = 100,
                                !.summary = [status |-> "COMPLETED", total |-> 0,
                                             analysed |-> "empty", sweeps |-> wk[s].sweeps]]
            <4>1. d.state = "COMPLETED"
                BY <1>2
            <4>2. _update_scan(s, d)
                BY <3>2 DEF CompleteDynamic
            <4> HIDE DEF d
            <4> QED
                BY <4>1, <4>2
        <3>3. CASE CompleteRepo(s)
            <4> DEFINE d == [db[s] EXCEPT !.state = "COMPLETED", !.progress = 100,
                                !.summary = [status |-> "COMPLETED", total |-> wk[s].files,
                                             analysed |-> wk[s].analysed, sweeps |-> wk[s].sweeps]]
            <4>1. d.state = "COMPLETED"
                BY <1>2
            <4>2. _update_scan(s, d)
                BY <3>3 DEF CompleteRepo
            <4> HIDE DEF d
            <4> QED
                BY <4>1, <4>2
        <3> QED
            BY <1>5, <3>1, <3>2, <3>3
    <2>2. PICK p \in {"ended", "cleanup", "failing"} : MovesTo(s, p)
        BY <1>3, <1>5, Moves DEF CompleteCode, CompleteDynamic, CompleteRepo
    <2>3. wk[s].pc = "complete"
        BY <1>5 DEF CompleteCode, CompleteDynamic, CompleteRepo
    <2>4. Life(wk[s]) = "running" /\ Life(wk'[s]) \in {"closing", "judged"}
        BY <2>2, <2>3, LifeOfPc DEF MovesTo, PCs
    <2> QED
        BY <2>1, <2>2, <2>4, VerdictStep DEF MovesTo
<1>6. CASE CollectNothing(s) \/ FailScan(s)
    <2>1. PICK d : _update_scan(s, d) /\ d.state = "FAILED"
        <3>1. CASE CollectNothing(s)
            <4> DEFINE d == [db[s] EXCEPT !.state = "FAILED", !.progress = 100,
                                !.files = 0, !.total = 0, !.summary = ErrSummary]
            <4>1. d.state = "FAILED"
                BY <1>2
            <4>2. _update_scan(s, d)
                BY <3>1 DEF CollectNothing
            <4> HIDE DEF d
            <4> QED
                BY <4>1, <4>2
        <3>2. CASE FailScan(s)
            <4> DEFINE d == [db[s] EXCEPT !.state = "FAILED", !.summary = ErrSummary]
            <4>1. d.state = "FAILED"
                BY <1>2
            <4>2. _update_scan(s, d)
                BY <3>2 DEF FailScan
            <4> HIDE DEF d
            <4> QED
                BY <4>1, <4>2
        <3> QED
            BY <1>6, <3>1, <3>2
    <2>2. PICK p \in {"ended", "cleanup", "failing"} : MovesTo(s, p)
        <3>1. Exit(wk[s]) \in {"ended", "cleanup"}
            BY DEF Exit
        <3> QED
            BY <1>3, <1>6, <3>1, Moves DEF CollectNothing, FailScan
    <2>3. wk[s].pc \in {"collect", "failing"}
        BY <1>6 DEF CollectNothing, FailScan
    <2>4. Life(wk[s]) \in {"running", "closing"} /\ Life(wk'[s]) \in {"closing", "judged"}
        BY <2>2, <2>3, LifeOfPc DEF MovesTo, PCs
    <2> QED
        BY <2>1, <2>2, <2>4, VerdictStep DEF MovesTo
<1> QED
    BY <1>4, <1>5, <1>6

\* A scan nobody has inserted has no document.
Unborn == \A s \in Scans : wk[s].pc = "idle" => db[s].state = "ABSENT"

\* Insertion, deletion, cancellation and a refused last write.
LEMMA RequestsRefine ==
    ASSUME TypeOK, Unborn, NEW s \in Scans,
           InsertScan(s) \/ DeleteScan(s) \/ CancelWrites(s) \/ FailScanRaises(s)
    PROVE  RecordStep
<1> DEFINE state == [t \in Scans |-> db[t].state]
           life  == [t \in Scans |-> Life(wk[t])]
<1>1. db \in [Scans -> Docs] /\ db[s] \in Docs /\ wk \in [Scans -> Workers] /\ wk[s].pc \in PCs
    BY DEF TypeOK, Workers
<1>2. CASE InsertScan(s)
    <2>1. PICK w : wk' = [wk EXCEPT ![s] = w] /\ w.pc = "inserted"
        <3>1. \A j : [NoWorker EXCEPT !.pc = "inserted", !.kind = j.kind,
                                      !.targets = j.targets].pc = "inserted"
            BY DEF NoWorker
        <3> QED
            BY <1>2, <3>1 DEF InsertScan
    <2>2. MovesTo(s, "inserted")
        BY <2>1, Moves
    <2>3. life[s] = "new" /\ life' = [life EXCEPT ![s] = "queued"]
        <3>0. wk[s].pc = "idle" /\ wk'[s].pc = "inserted"
            BY <1>2, <2>2 DEF MovesTo, InsertScan
        <3>1. Life(wk[s]) = "new" /\ Life(wk'[s]) = "queued"
            BY <3>0, LifeOfPc DEF PCs
        <3>2. \A t \in Scans \ {s} : Life(wk'[t]) = Life(wk[t])
            BY <2>2 DEF MovesTo
        <3>3. \A t \in Scans : Life(wk'[t]) = IF t = s THEN "queued" ELSE Life(wk[t])
            BY <3>1, <3>2
        <3> QED
            BY <3>1, <3>3
    <2>4. state' = [state EXCEPT ![s] = "PENDING"]
        BY <1>1, <1>2, Values DEF InsertScan
    <2>5. Record!Insert(s)
        BY <2>3, <2>4 DEF Record!Insert
    <2> QED
        BY <2>5 DEF RecordStep, Record!RecordNext
<1>3. CASE DeleteScan(s)
    <2>1. Life(wk[s]) # "new"
        BY <1>1, <1>3, LifeOfPc DEF Unborn, DeleteScan, PCs
    <2>2. state' = [state EXCEPT ![s] = "ABSENT"]
        BY <1>1, <1>3, Values DEF DeleteScan
    <2>3. life' = life
        BY <1>3 DEF DeleteScan
    <2>4. Record!Delete(s)
        BY <2>1, <2>2, <2>3 DEF Record!Delete
    <2> QED
        BY <2>4 DEF RecordStep, Record!RecordNext
<1>4. CASE CancelWrites(s)
    <2>1. [db[s] EXCEPT !.state = "CANCELLED"].state = "CANCELLED"
        BY <1>1 DEF Docs
    <2>2. state' = [state EXCEPT ![s] = IF @ = "ABSENT" THEN @ ELSE "CANCELLED"]
        BY <1>1, <1>4, <2>1 DEF CancelWrites, _update_scan
    <2>3. life' = life
        BY <1>4 DEF CancelWrites
    <2>4. Record!Cancel(s)
        BY <2>2, <2>3 DEF Record!Cancel, Record!Set
    <2> QED
        BY <2>4 DEF RecordStep, Record!RecordNext
<1>5. CASE FailScanRaises(s)
    <2>1. Exit(wk[s]) \in {"ended", "cleanup"} /\ MovesTo(s, Exit(wk[s]))
        BY <1>5, Moves DEF FailScanRaises, Exit
    <2>2. life[s] = "closing" /\ life' = [life EXCEPT ![s] = "judged"]
        <3>0. wk[s].pc = "failing" /\ wk'[s].pc \in {"ended", "cleanup"}
            BY <1>5, <2>1 DEF MovesTo, FailScanRaises
        <3>1. Life(wk[s]) = "closing" /\ Life(wk'[s]) = "judged"
            BY <3>0, LifeOfPc DEF PCs
        <3>2. \A t \in Scans \ {s} : Life(wk'[t]) = Life(wk[t])
            BY <2>1 DEF MovesTo
        <3>3. \A t \in Scans : Life(wk'[t]) = IF t = s THEN "judged" ELSE Life(wk[t])
            BY <3>1, <3>2
        <3> QED
            BY <3>1, <3>3
    <2>3. state' = state
        BY <1>5 DEF FailScanRaises
    <2>4. Record!Abandon(s)
        BY <2>2, <2>3 DEF Record!Abandon
    <2> QED
        BY <2>4 DEF RecordStep, Record!RecordNext
<1> QED
    BY <1>2, <1>3, <1>4, <1>5

LEMMA CrashRefines ==
    ASSUME TypeOK, Crash
    PROVE  RecordStep
<1> DEFINE state == [t \in Scans |-> db[t].state]
           life  == [t \in Scans |-> Life(wk[t])]
<1>1. state' = state
    BY DEF Crash
<1>2. ASSUME NEW t \in Scans
      PROVE  Life(wk'[t]) = IF Life(wk[t]) = "new" THEN "new" ELSE "judged"
    <2>1. wk[t] \in Workers /\ wk[t].pc \in PCs
        BY DEF TypeOK, Workers
    <2>2. CASE wk[t].pc \in {"idle", "ended"}
        <3>1. wk'[t] = wk[t]
            BY <2>2 DEF Crash
        <3> QED
            BY <2>1, <2>2, <3>1, LifeOfPc
    <2>3. CASE wk[t].pc \notin {"idle", "ended"}
        <3>1. wk'[t].pc = "lost"
            BY <2>1, <2>3 DEF Crash, Workers
        <3>2. Life(wk'[t]) = "judged"
            BY <3>1, LifeOfPc DEF PCs
        <3>3. Life(wk[t]) # "new"
            BY <2>1, <2>3, LifeOfPc DEF PCs
        <3> QED
            BY <3>2, <3>3
    <2> QED
        BY <2>2, <2>3
<1>3. life' = [t \in Scans |-> IF life[t] = "new" THEN "new" ELSE "judged"]
    BY <1>2
<1>4. Record!Crash
    BY <1>1, <1>3 DEF Record!Crash
<1> QED
    BY <1>4 DEF RecordStep, Record!RecordNext

LEMMA StepRefines ==
    ASSUME TypeOK, Unborn, [Next]_vars
    PROVE  RecordStep
<1>1. CASE UNCHANGED vars
    BY <1>1 DEF vars, RecordStep, Record!recordVars
<1>2. CASE Crash
    BY <1>2, CrashRefines
<1>3. ASSUME NEW s \in Scans, LoopStep(s) \/ ThreadStep(s) PROVE RecordStep
    BY <1>3, TurnsRefine, BackgroundRefine, LeaveRefine, ProgressRefine, WritesRefine,
       RequestsRefine DEF LoopStep, WorkerStep, ThreadStep
<1> QED
    BY <1>1, <1>2, <1>3 DEF Next

\* Whatever the record does, it does not bring a document to a scan nobody made.
LEMMA UnbornKept ==
    ASSUME TypeOK, TypeOK', Unborn, RecordStep
    PROVE  Unborn'
<1> SUFFICES ASSUME NEW s \in Scans, wk'[s].pc = "idle" PROVE db'[s].state = "ABSENT"
    BY DEF Unborn
<1> DEFINE state == [t \in Scans |-> db[t].state]
           life  == [t \in Scans |-> Life(wk[t])]
<1>1. wk[s].pc \in PCs /\ wk'[s].pc \in PCs
    BY DEF TypeOK, Workers
<1>2. life'[s] = "new" /\ (life[s] = "new" => state[s] = "ABSENT")
    BY <1>1, LifeOfPc DEF Unborn, PCs
<1>3. state'[s] = db'[s].state
    OBVIOUS
<1>4. /\ state = [t \in Scans |-> db[t].state]
      /\ life = [t \in Scans |-> Life(wk[t])]
      /\ state' = [t \in Scans |-> db'[t].state]
      /\ life' = [t \in Scans |-> Life(wk'[t])]
    OBVIOUS
<1>5. CASE UNCHANGED Record!recordVars
    BY <1>2, <1>3, <1>5 DEF Record!recordVars
<1>6. CASE Record!RecordNext
    BY <1>2, <1>3, <1>6 DEF Record!RecordNext, Record!Insert, Record!Begin, Record!Raise,
       Record!Complete, Record!Fail, Record!Abandon, Record!Cancel, Record!Delete,
       Record!Crash, Record!Set
<1> QED
    BY <1>5, <1>6 DEF RecordStep

\* The refinement: every behaviour of the service, seen through the state field
\* of its documents and the stages of its workers, is one the record allows.
THEOREM ServiceImplementsRecord == Spec => ImplementsRecord
<1>1. Init => Record!RecordInit
    BY Values, LifeOfPc DEF Init, Record!RecordInit, NoWorker, PCs
<1>2. Init => Unborn
    BY Values DEF Init, Unborn
<1>3. TypeOK /\ Unborn /\ [Next]_vars => RecordStep
    BY StepRefines
<1>4. TypeOK /\ TypeOK' /\ Unborn /\ [Next]_vars => Unborn'
    BY StepRefines, UnbornKept
<1>5. Spec => []Unborn
    BY <1>2, <1>4, TypeCorrect, PTL DEF Spec
<1>6. TypeOK /\ Unborn /\ [Next]_vars => [Record!RecordNext]_(Record!recordVars)
    BY <1>3 DEF RecordStep
<1> QED
    BY <1>1, <1>5, <1>6, TypeCorrect, PTL DEF Spec, ImplementsRecord, Record!RecordSpec

=============================================================================
