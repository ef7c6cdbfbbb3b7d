------------------------- MODULE ScanOutcome_proofs -------------------------
(***************************************************************************)
(* What a scan's outcome says, proved for every set of strategies, every   *)
(* number of targets and of findings, and any scans, streams and log       *)
(* lines: the verdict a control gets from the evidence collected, and the  *)
(* stream that tells a client how the scan ended.  The two share no state. *)
(***************************************************************************)
EXTENDS AsvsEvidence, ScanStream, SequenceTheorems, TLAPS

-----------------------------------------------------------------------------
(* The verdict *)

\* The inductive part behind ReproducedFails: a finding reproduced live is confirmed
\* in the stored summary.
StoredOK == Reproduced(summary) => "confirmed" \in summary.vulnerabilities

\* Only a control with a capability check has a capability finding.
CapabilityOK == \A ev \in {e, summary} :
                    ev.capability # "none" => HasCapability(strategy)

IInv == TypeOK /\ StoredOK /\ CapabilityOK

USE StudiedAssumption, BoundAssumption

\* The empty summary is well formed and has no live finding.
LEMMA NoEvidenceType == /\ NoEvidence \in Evidence
                        /\ ~Reproduced(NoEvidence)
                        /\ NoEvidence.capability = "none"
  BY DEF NoEvidence, Evidence, Reproduced, Hits, Readings, Advisories, DastFindings

\* Correlation keeps a summary well formed and leaves the capability finding alone.
LEMMA CorrelateType == ASSUME NEW ev \in Evidence
                       PROVE  /\ Correlate(ev) \in Evidence
                              /\ Correlate(ev).capability = ev.capability
                              /\ Correlate(ev).dynamic = ev.dynamic
                              /\ Reproduced(ev) => "confirmed" \in Correlate(ev).vulnerabilities
  BY DEF Correlate, Promote, Evidence, Hits

\* Every action keeps the inductive invariant.
LEMMA Inductive == Spec => []IInv
<1>1. Init => IInv
  BY NoEvidenceType DEF Init, IInv, TypeOK, StoredOK, CapabilityOK, NoSummary
<1>2. IInv /\ [Next]_vars => IInv'
  <2> SUFFICES ASSUME IInv, [Next]_vars
               PROVE  IInv'
    OBVIOUS
  <2> USE DEF IInv, TypeOK, StoredOK, CapabilityOK
  <2>1. CASE AnalysisReturns
    <3>1. PICK hits \in SUBSET HitsFor(strategy, rules),
               cap  \in IF HasCapability(strategy) THEN {"none", "pass", "fail"} ELSE {"none"},
               conf \in IF HasConfig(strategy) THEN SUBSET Readings ELSE {{}},
               advs \in IF HasAdvisories(strategy) THEN SUBSET Advisories ELSE {{}} :
          \E dep \in IF strategy = "dependency" THEN DependencyResults(advs) ELSE {"none"} :
             e' = [e EXCEPT !.total_files = 1, !.vulnerabilities = hits,
                            !.capability = cap, !.config = conf,
                            !.advisories = advs, !.dependency = dep]
      BY <2>1 DEF AnalysisReturns
    <3>2. PICK dep \in IF strategy = "dependency" THEN DependencyResults(advs) ELSE {"none"} :
             e' = [e EXCEPT !.total_files = 1, !.vulnerabilities = hits,
                            !.capability = cap, !.config = conf,
                            !.advisories = advs, !.dependency = dep]
      BY <3>1
    <3>3. hits \in SUBSET Hits
      BY DEF HitsFor, Hits
    <3>4. dep \in {"none", "pass", "fail", "manual_review"}
      BY DEF DependencyResults
    <3>5. conf \in SUBSET Readings /\ advs \in SUBSET Advisories
      OBVIOUS
    <3>6. cap \in {"none", "pass", "fail"} /\ (cap # "none" => HasCapability(strategy))
      OBVIOUS
    <3>7. e' \in Evidence /\ e'.capability = cap
      BY <3>2, <3>3, <3>4, <3>5, <3>6 DEF Evidence
    <3> QED BY <2>1, <3>6, <3>7 DEF AnalysisReturns, Reproduced, FAILING_VERDICTS
  <2>2. CASE AnalysisTimesOut
    <3>1. e' \in Evidence /\ e'.capability = e.capability
      BY <2>2 DEF AnalysisTimesOut, Evidence
    <3> QED BY <2>2, <3>1 DEF AnalysisTimesOut, Reproduced
  <2>3. CASE DynamicOnly
    BY <2>3 DEF DynamicOnly, Reproduced
  <2>4. CASE ProbeTarget
    <3>1. PICK v \in Readings : e' = [e EXCEPT !.probe = Append(@, v)]
      BY <2>4 DEF ProbeTarget
    <3>2. Append(e.probe, v) \in Seq(Readings)
      BY DEF Evidence
    <3>3. e' \in Evidence /\ e'.capability = e.capability
      BY <3>1, <3>2 DEF Evidence
    <3> QED BY <2>4, <3>3 DEF ProbeTarget, Reproduced
  <2>5. CASE EndProbes
    BY <2>5 DEF EndProbes, Reproduced
  <2>6. CASE SweepFinding
    <3>1. PICK f \in DastFindings : e' = [e EXCEPT !.dynamic = @ \cup {f}]
      BY <2>6 DEF SweepFinding
    <3>2. e' \in Evidence /\ e'.capability = e.capability
      BY <3>1 DEF Evidence
    <3> QED BY <2>6, <3>2 DEF SweepFinding, Reproduced
  <2>7. CASE CompleteScan
    BY <2>7, CorrelateType DEF CompleteScan, Reproduced
  <2>8. CASE FailScan
    BY <2>8, NoEvidenceType DEF FailScan, NoSummary
  <2>9. CASE submit_attestation
    BY <2>9 DEF submit_attestation, Reproduced
  <2>10. CASE UNCHANGED vars
    BY <2>10 DEF vars, Reproduced
  <2> QED BY <2>1, <2>2, <2>3, <2>4, <2>5, <2>6, <2>7, <2>8, <2>9, <2>10 DEF Next
<1> QED BY <1>1, <1>2, PTL DEF Spec

\* The variables of AsvsEvidence keep their types.
THEOREM EvidenceTyped == Spec => []TypeOK
  BY Inductive, PTL DEF IInv

\* No scan and no sequence of answers yields a pass that no source gave.
THEOREM PassEarned == Spec => []PassIsEarned
<1>1. IInv => PassIsEarned
  <2> SUFFICES ASSUME IInv, Verdict = "pass"
               PROVE  PassIsEarned
    BY DEF PassIsEarned
  <2> USE DEF IInv, TypeOK, Verdict, PassIsEarned, _compute_result, Reading, Result, _not_tested
  <2>1. strategy \in Strategies
    OBVIOUS
  <2>2. CASE strategy \in {"static", "capability"}
    <3>1. _merge_static(summary, rules).verdict = "pass"
      BY <2>2
    <3>2. summary.total_files \in {0, 1}
      BY DEF Evidence
    <3>3. summary.capability # "none" => summary.capability = "pass"
      BY <3>1 DEF _merge_static
    <3>4. ASSUME summary.capability = "none", "marker" \notin summary.vulnerabilities
          PROVE  /\ rules = "search"
                 /\ summary.total_files # 0
                 /\ summary.vulnerabilities = {}
      <4>1. summary.vulnerabilities \subseteq {"marker", "guess", "confirmed"}
        BY DEF Evidence, Hits
      <4>2. "confirmed" \notin summary.vulnerabilities /\ "guess" \notin summary.vulnerabilities
        BY <3>1, <3>4 DEF _merge_static
      <4>3. rules = "search" /\ summary.total_files # 0
        BY <3>1, <3>4, <4>2 DEF _merge_static
      <4> QED BY <3>4, <4>1, <4>2, <4>3
    <3> QED BY <3>2, <3>3, <3>4
  <2>3. CASE strategy \in {"config", "config_or_dynamic"}
    BY <2>3 DEF _merge_config, _merge_config_or_dynamic, FailFirst, Evidence
  <2>4. CASE strategy = "config_or_static"
    BY <2>4 DEF _merge_config_or_compliant_static
  <2>5. CASE strategy = "dependency"
    BY <2>5 DEF _merge_dependency
  <2>6. CASE strategy = "probe"
    <3>1. summary.probe # <<>> /\ summary.probe[1] = "pass"
      BY <2>6 DEF _merge_dynamic
    <3>2. summary.probe \in Seq(Readings)
      BY DEF Evidence
    <3>3. 1 \in DOMAIN summary.probe
      BY <3>1, <3>2
    <3> QED BY <3>1, <3>3 DEF ProbeReadings
  <2>7. CASE strategy \in {"attest", "attest_static", "attest_dynamic", "attest_capability",
                           "attest_dependency"}
    BY <2>7 DEF _merge_attestation, _merge_attestation_or_vulnerable_static,
                _merge_attestation_or_dynamic_finding, _merge_attestation_or_capability_finding,
                _merge_attestation_or_dependency_finding
  <2> QED BY <2>1, <2>2, <2>3, <2>4, <2>5, <2>6, <2>7 DEF Strategies
<1> QED BY <1>1, Inductive, PTL

\* A human answer never turns a control the scan failed into anything else.
THEOREM AnswerCannotClear == Spec => []AnswerNeverClears
<1>1. IInv => AnswerNeverClears
  <2> SUFFICES ASSUME IInv, ScanVerdict = "fail"
               PROVE  Verdict = "fail"
    BY DEF AnswerNeverClears
  <2> USE DEF IInv, TypeOK, Verdict, ScanVerdict, _compute_result, Reading, Result, _not_tested
  <2>1. CASE strategy \in {"attest", "attest_static", "attest_dynamic", "attest_capability",
                           "attest_dependency"}
    BY <2>1 DEF _merge_attestation, _merge_attestation_or_vulnerable_static,
                _merge_attestation_or_dynamic_finding, _merge_attestation_or_capability_finding,
                _merge_attestation_or_dependency_finding
  <2>2. CASE strategy \in {"static", "capability", "config", "config_or_static",
                           "config_or_dynamic", "dependency", "probe"}
    BY <2>2
  <2> QED BY <2>1, <2>2 DEF Strategies
<1> QED BY <1>1, Inductive, PTL

\* A static finding reproduced live fails its control, whatever else was found.
THEOREM ReproductionFails == Spec => []ReproducedFails
<1>1. IInv => ReproducedFails
  <2> SUFFICES ASSUME IInv, strategy \in {"static", "attest_static"}, Reproduced(summary)
               PROVE  Verdict = "fail"
    BY DEF ReproducedFails
  <2>1. "confirmed" \in summary.vulnerabilities /\ summary.capability = "none"
    BY DEF IInv, StoredOK, CapabilityOK, HasCapability
  <2> QED BY <2>1 DEF Verdict, _compute_result, _merge_static, Reading, Result,
                      _merge_attestation_or_vulnerable_static
<1> QED BY <1>1, Inductive, PTL

-----------------------------------------------------------------------------
(* The stream.  The writers and the connections meet only in the polled       *)
(* document, so the proof is in two halves: what no writer ever undoes        *)
(* (Grows), and what a connection makes of the document it read.              *)

Connections == Streams \X Scans
ConnPCs     == {"idle", "poll", "status", "lines", "end", "closed"}
Tolds       == {"none", "error", "gone"} \cup States
Conns       == [pc : ConnPCs, got : Seq(Nat), last : Nat, read : States, lines : Nat,
                told : Tolds]

StreamTypes ==
    /\ state \in [Scans -> States]
    /\ life \in [Scans -> Lives]
    /\ logs \in [Scans -> Nat]
    /\ verdictLogs \in [Scans -> [Outcomes -> Nat]]
    /\ conn \in [Connections -> Conns]

\* The document of s: a verdict's line count is fixed no later than the verdict
\* itself, and the document has that many lines.
DocumentOK(s) ==
    /\ life[s] = "new" => \A v \in Outcomes : verdictLogs[s][v] = 0
    /\ state[s] # "ABSENT" => \A v \in Outcomes : verdictLogs[s][v] <= logs[s]
    /\ \A v \in Outcomes : state[s] = v => verdictLogs[s][v] > 0

\* Connection c: it has received lines 1..last, and the lines of the document it
\* read include the line of the verdict it read.
ConnOK(c) ==
    /\ Len(conn[c].got) = conn[c].last
    /\ \A i \in 1..conn[c].last : conn[c].got[i] = i
    /\ conn[c].last <= conn[c].lines /\ conn[c].lines <= logs[c[2]]
    /\ conn[c].pc = "end" => conn[c].last = conn[c].lines
    /\ conn[c].pc \in {"status", "lines", "end"} =>
          \A v \in Outcomes : conn[c].read = v =>
             verdictLogs[c[2]][v] > 0 /\ verdictLogs[c[2]][v] <= conn[c].lines
    /\ \A v \in Outcomes : conn[c].told = v =>
             verdictLogs[c[2]][v] > 0 /\ verdictLogs[c[2]][v] <= conn[c].last

StreamInv ==
    /\ StreamTypes
    /\ \A s \in Scans : DocumentOK(s)
    /\ \A c \in Connections : ConnOK(c)

-----------------------------------------------------------------------------
(* The writers *)

\* The log only grows, and the line count of a verdict is noted once.
Grows ==
    \A s \in Scans :
        /\ logs[s] <= logs'[s]
        /\ \A v \in Outcomes : verdictLogs[s][v] > 0 => verdictLogs'[s][v] = verdictLogs[s][v]

LEMMA ConnectionsWait ==
    ASSUME StreamInv, StreamTypes', Grows, UNCHANGED conn,
           \A s \in Scans : DocumentOK(s)'
    PROVE  StreamInv'
<1> SUFFICES ASSUME NEW c \in Connections PROVE ConnOK(c)'
    BY DEF StreamInv
<1>1. ConnOK(c) /\ conn' = conn /\ c[2] \in Scans
    BY DEF StreamInv, Connections
<1>2. /\ logs[c[2]] \in Nat /\ logs'[c[2]] \in Nat /\ logs[c[2]] <= logs'[c[2]]
      /\ conn[c].last \in Nat /\ conn[c].lines \in Nat
    BY <1>1 DEF StreamInv, StreamTypes, Grows, Conns
<1>3. \A v \in Outcomes : verdictLogs[c[2]][v] > 0 => verdictLogs'[c[2]][v] = verdictLogs[c[2]][v]
    BY <1>1 DEF Grows
<1>4. conn[c].lines <= logs'[c[2]]
    BY <1>1, <1>2 DEF ConnOK
<1> QED
    BY <1>1, <1>3, <1>4 DEF ConnOK

\* One line more, unless the document is gone.
LEMMA PushGrows ==
    ASSUME StreamTypes, NEW s \in Scans, Push(s)
    PROVE  /\ logs' \in [Scans -> Nat]
           /\ logs'[s] = IF state[s] = "ABSENT" THEN logs[s] ELSE logs[s] + 1
           /\ \A t \in Scans \ {s} : logs'[t] = logs[t]
           /\ \A t \in Scans : logs[t] <= logs'[t]
BY DEF StreamTypes, Push

\* Set changes the state of one document that is there.
LEMMA SetStates ==
    ASSUME StreamTypes, NEW s \in Scans, NEW v \in States, Set(s, v)
    PROVE  /\ state' \in [Scans -> States]
           /\ state'[s] = IF state[s] = "ABSENT" THEN "ABSENT" ELSE v
           /\ \A t \in Scans \ {s} : state'[t] = state[t]
BY DEF StreamTypes, Set

LEMMA VerdictKeeps ==
    ASSUME StreamInv, NEW s \in Scans, WriteVerdict(s), UNCHANGED conn
    PROVE  StreamInv'
<1>1. StreamTypes /\ DocumentOK(s)
    BY DEF StreamInv
<1>2. PICK v \in Outcomes :
          /\ Set(s, v) /\ Note(s, v, logs[s] + 1)
          /\ life[s] # "new"
          /\ \E l \in {"closing", "judged"} : life' = [life EXCEPT ![s] = l]
    BY DEF WriteVerdict, Complete, Fail, Outcomes
<1>3. /\ logs' \in [Scans -> Nat]
      /\ logs'[s] = IF state[s] = "ABSENT" THEN logs[s] ELSE logs[s] + 1
      /\ \A t \in Scans \ {s} : logs'[t] = logs[t]
      /\ \A t \in Scans : logs[t] <= logs'[t]
    BY <1>1, PushGrows DEF WriteVerdict
<1>4. /\ state' \in [Scans -> States]
      /\ state'[s] = IF state[s] = "ABSENT" THEN "ABSENT" ELSE v
      /\ \A t \in Scans \ {s} : state'[t] = state[t]
    BY <1>1, <1>2, SetStates DEF Outcomes, States
<1>5. /\ life' \in [Scans -> Lives] /\ life'[s] # "new"
      /\ \A t \in Scans \ {s} : life'[t] = life[t]
    BY <1>1, <1>2 DEF StreamTypes, Lives
<1>6. logs[s] \in Nat /\ \A u \in Outcomes : verdictLogs[s][u] \in Nat
    BY <1>1 DEF StreamTypes
<1>7. /\ verdictLogs' \in [Scans -> [Outcomes -> Nat]]
      /\ verdictLogs'[s][v] = IF verdictLogs[s][v] = 0 THEN logs[s] + 1 ELSE verdictLogs[s][v]
      /\ \A u \in Outcomes \ {v} : verdictLogs'[s][u] = verdictLogs[s][u]
      /\ \A t \in Scans \ {s} : verdictLogs'[t] = verdictLogs[t]
    BY <1>1, <1>2, <1>6 DEF StreamTypes, Note
<1>8. StreamTypes'
    BY <1>1, <1>3, <1>4, <1>5, <1>7 DEF StreamTypes
<1>9. Grows
    <2> SUFFICES ASSUME NEW t \in Scans, NEW u \in Outcomes, verdictLogs[t][u] > 0
                 PROVE  verdictLogs'[t][u] = verdictLogs[t][u]
        BY <1>3 DEF Grows
    <2>1. CASE t # s
        BY <1>7, <2>1
    <2>2. CASE t = s /\ u # v
        BY <1>7, <2>2
    <2>3. CASE t = s /\ u = v
        <3>1. verdictLogs[s][v] # 0
            BY <1>6, <2>3
        <3> QED
            BY <1>7, <2>3, <3>1
    <2> QED
        BY <2>1, <2>2, <2>3
<1>10. DocumentOK(s)'
    <2>1. ASSUME state'[s] # "ABSENT", NEW u \in Outcomes
          PROVE  verdictLogs'[s][u] <= logs'[s]
        <3>1. state[s] # "ABSENT" /\ logs'[s] = logs[s] + 1
            BY <1>3, <1>4, <2>1
        <3>2. verdictLogs[s][u] <= logs[s]
            BY <1>1, <3>1 DEF DocumentOK
        <3>3. verdictLogs'[s][u] \in {verdictLogs[s][u], logs[s] + 1}
            BY <1>7
        <3> QED
            BY <1>6, <3>1, <3>2, <3>3
    <2>2. ASSUME NEW u \in Outcomes, state'[s] = u PROVE verdictLogs'[s][u] > 0
        <3>1. "ABSENT" \notin Outcomes
            BY DEF Outcomes
        <3>2. u = v
            BY <1>4, <2>2, <3>1
        <3> QED
            BY <1>6, <1>7, <3>2
    <2> QED
        BY <1>5, <2>1, <2>2 DEF DocumentOK
<1>11. ASSUME NEW t \in Scans \ {s} PROVE DocumentOK(t)'
    <2>1. DocumentOK(t)
        BY DEF StreamInv
    <2> QED
        BY <1>3, <1>4, <1>5, <1>7, <2>1 DEF DocumentOK
<1> QED
    BY <1>8, <1>9, <1>10, <1>11, ConnectionsWait

\* A write of another state, and the worker's progress.
LEMMA StateKeeps ==
    ASSUME StreamInv, NEW s \in Scans, WriteState(s) \/ _append_logs(s), UNCHANGED conn
    PROVE  StreamInv'
<1>1. StreamTypes /\ DocumentOK(s) /\ verdictLogs' = verdictLogs /\ Push(s)
    BY DEF StreamInv, WriteState, _append_logs
<1>2. /\ logs' \in [Scans -> Nat]
      /\ \A t \in Scans \ {s} : logs'[t] = logs[t]
      /\ \A t \in Scans : logs[t] <= logs'[t] /\ logs[t] \in Nat
    BY <1>1, PushGrows DEF StreamTypes
<1>3. /\ state' \in [Scans -> States]
      /\ state'[s] # "ABSENT" => state[s] # "ABSENT"
      /\ \A v \in Outcomes : state'[s] = v => state[s] = v
      /\ \A t \in Scans \ {s} : state'[t] = state[t]
    <2>1. CASE UNCHANGED state
        BY <1>1, <2>1 DEF StreamTypes
    <2>2. CASE \E v \in {"RUNNING", "CANCELLED"} : Set(s, v)
        BY <1>1, <2>2, SetStates DEF States, Outcomes
    <2> QED
        BY <2>1, <2>2 DEF WriteState, _append_logs, Begin, Cancel
<1>4. /\ life' \in [Scans -> Lives]
      /\ \A t \in Scans : life'[t] = "new" => life[t] = "new"
    BY <1>1 DEF WriteState, _append_logs, Begin, Cancel, StreamTypes, Lives
<1>5. StreamTypes' /\ Grows
    BY <1>1, <1>2, <1>3, <1>4 DEF StreamTypes, Grows
<1>6. ASSUME NEW t \in Scans PROVE DocumentOK(t)'
    <2>1. DocumentOK(t)
        BY DEF StreamInv
    <2>2. /\ state'[t] # "ABSENT" => state[t] # "ABSENT"
          /\ \A v \in Outcomes : state'[t] = v => state[t] = v
        BY <1>3
    <2>3. /\ logs[t] <= logs'[t] /\ logs[t] \in Nat /\ logs'[t] \in Nat
          /\ \A v \in Outcomes : verdictLogs[t][v] \in Nat
        BY <1>1, <1>2 DEF StreamTypes
    <2>4. state'[t] # "ABSENT" => \A v \in Outcomes : verdictLogs[t][v] <= logs'[t]
        BY <2>1, <2>2, <2>3 DEF DocumentOK
    <2> QED
        BY <1>1, <1>4, <2>1, <2>2, <2>4 DEF DocumentOK
<1> QED
    BY <1>5, <1>6, ConnectionsWait

\* A new document has no verdict yet.
LEMMA SilentKeeps ==
    ASSUME StreamInv, (\E s \in Scans : SilentStep(s)) \/ (Crash /\ UNCHANGED <<logs, verdictLogs>>),
           UNCHANGED conn
    PROVE  StreamInv'
<1>1. StreamTypes /\ logs' = logs /\ verdictLogs' = verdictLogs
    BY DEF StreamInv, SilentStep
<1>2. ASSUME NEW t \in Scans
      PROVE  /\ life'[t] = "new" => life[t] = "new"
             /\ state'[t] # "ABSENT" => state[t] # "ABSENT" \/ life[t] = "new"
             /\ \A v \in Outcomes : state'[t] = v => state[t] = v
    BY <1>1 DEF SilentStep, Insert, Raise, Abandon, Delete, Crash, StreamTypes, Lives, Outcomes
<1>3. state' \in [Scans -> States] /\ life' \in [Scans -> Lives]
    <2>1. CASE Crash
        BY <1>1, <2>1 DEF Crash, StreamTypes, Lives
    <2>2. CASE \E s \in Scans : SilentStep(s)
        BY <1>1, <2>2 DEF SilentStep, Insert, Raise, Abandon, Delete, StreamTypes, Lives, States
    <2> QED
        BY <2>1, <2>2
<1>4. StreamTypes' /\ Grows
    BY <1>1, <1>3 DEF StreamTypes, Grows
<1>5. ASSUME NEW t \in Scans PROVE DocumentOK(t)'
    <2>1. DocumentOK(t) /\ logs[t] \in Nat
        BY <1>1 DEF StreamInv, StreamTypes
    <2>2. life[t] = "new" => \A v \in Outcomes : verdictLogs[t][v] <= logs[t]
        BY <2>1 DEF DocumentOK
    <2> QED
        BY <1>1, <1>2, <2>1, <2>2 DEF DocumentOK
<1> QED
    BY <1>4, <1>5, ConnectionsWait

-----------------------------------------------------------------------------
(* The connections *)

\* A step of one connection only has to re-establish what it may rely on.
LEMMA ConnectionMoves ==
    ASSUME StreamInv, NEW c \in Connections, NEW n \in Conns, UNCHANGED document,
           conn' = [conn EXCEPT ![c] = n], ConnOK(c)'
    PROVE  StreamInv'
<1>1. /\ state' = state /\ life' = life /\ logs' = logs /\ verdictLogs' = verdictLogs
      /\ StreamTypes
    BY DEF document, StreamInv
<1>2. StreamTypes'
    BY <1>1 DEF StreamTypes
<1>3. ASSUME NEW s \in Scans PROVE DocumentOK(s)'
    BY <1>1 DEF StreamInv, DocumentOK
<1>4. ASSUME NEW d \in Connections \ {c} PROVE ConnOK(d)'
    <2>1. conn'[d] = conn[d] /\ ConnOK(d)
        BY <1>1 DEF StreamInv, StreamTypes
    <2> QED
        BY <1>1, <2>1 DEF ConnOK
<1> QED
    BY <1>2, <1>3, <1>4 DEF StreamInv

LEMMA AcceptKeeps ==
    ASSUME StreamInv, NEW c \in Connections, Accept(c) \/ SendStatus(c) \/ Disconnect(c)
    PROVE  StreamInv'
<1>1. StreamTypes /\ ConnOK(c) /\ conn[c] \in Conns /\ UNCHANGED document
    BY DEF StreamInv, StreamTypes, Accept, SendStatus, Disconnect
<1>2. PICK n \in Conns :
          /\ conn' = [conn EXCEPT ![c] = n]
          /\ n.got = conn[c].got /\ n.last = conn[c].last /\ n.read = conn[c].read
          /\ n.lines = conn[c].lines
          /\ n.pc \in {"poll", "closed"} \/ (n.pc = "lines" /\ conn[c].pc = "status")
          /\ n.told \in {conn[c].told, "gone"}
    <2>1. CASE Accept(c)
        <3> DEFINE n == [conn[c] EXCEPT !.pc = "poll"]
        <3>1. n \in Conns /\ n.got = conn[c].got /\ n.last = conn[c].last /\ n.read = conn[c].read
              /\ n.lines = conn[c].lines /\ n.pc = "poll" /\ n.told = conn[c].told
            BY <1>1 DEF Conns, ConnPCs
        <3> QED
            BY <2>1, <3>1 DEF Accept
    <2>2. CASE SendStatus(c)
        <3> DEFINE n == [conn[c] EXCEPT !.pc = "lines"]
        <3>1. n \in Conns /\ n.got = conn[c].got /\ n.last = conn[c].last /\ n.read = conn[c].read
              /\ n.lines = conn[c].lines /\ n.pc = "lines" /\ n.told = conn[c].told
            BY <1>1 DEF Conns, ConnPCs
        <3> QED
            BY <2>2, <3>1 DEF SendStatus
    <2>3. CASE Disconnect(c)
        <3> DEFINE n == [conn[c] EXCEPT !.pc = "closed", !.told = "gone"]
        <3>1. n \in Conns /\ n.got = conn[c].got /\ n.last = conn[c].last /\ n.read = conn[c].read
              /\ n.lines = conn[c].lines /\ n.pc = "closed" /\ n.told = "gone"
            BY <1>1 DEF Conns, ConnPCs, Tolds
        <3>2. conn' = [conn EXCEPT ![c] = n]
            BY <1>1, <2>3 DEF Disconnect, StreamTypes
        <3> QED
            BY <3>1, <3>2
    <2> QED
        BY <2>1, <2>2, <2>3
<1>3. conn'[c] = n
    BY <1>1, <1>2 DEF StreamTypes
<1>4. "gone" \notin Outcomes
    BY DEF Outcomes
<1>5. ConnOK(c)'
    BY <1>1, <1>2, <1>3, <1>4 DEF ConnOK, document
<1> QED
    BY <1>1, <1>2, <1>5, ConnectionMoves

\* The lines and the state of a round come from one document.
LEMMA PollKeeps ==
    ASSUME StreamInv, NEW c \in Connections, Poll(c)
    PROVE  StreamInv'
<1>1. /\ StreamTypes /\ ConnOK(c) /\ conn[c] \in Conns /\ UNCHANGED document
      /\ c[2] \in Scans /\ DocumentOK(c[2]) /\ logs[c[2]] \in Nat /\ state[c[2]] \in States
    BY DEF StreamInv, StreamTypes, Poll, Connections
<1>2. /\ conn[c].got \in Seq(Nat) /\ conn[c].last \in Nat /\ conn[c].lines \in Nat
      /\ conn[c].told \in Tolds
    BY <1>1 DEF Conns
<1>3. CASE state[c[2]] = "ABSENT"
    <2> DEFINE n == [conn[c] EXCEPT !.pc = "closed", !.told = "error"]
    <2>1. n \in Conns /\ n.got = conn[c].got /\ n.last = conn[c].last /\ n.read = conn[c].read
          /\ n.lines = conn[c].lines /\ n.pc = "closed" /\ n.told = "error"
        BY <1>1 DEF Conns, ConnPCs, Tolds
    <2>2. conn' = [conn EXCEPT ![c] = n]
        BY <1>3 DEF Poll
    <2> HIDE DEF n
    <2>3. conn'[c] = n
        BY <1>1, <2>2 DEF StreamTypes
    <2>4. "error" \notin Outcomes
        BY DEF Outcomes
    <2>5. ConnOK(c)'
        BY <1>1, <2>1, <2>3, <2>4 DEF ConnOK, document
    <2> QED
        BY <1>1, <2>1, <2>2, <2>5, ConnectionMoves
<1>4. CASE state[c[2]] # "ABSENT"
    <2> DEFINE n == [conn[c] EXCEPT !.pc = "status", !.read = state[c[2]], !.lines = logs[c[2]]]
    <2>1. n \in Conns /\ n.got = conn[c].got /\ n.last = conn[c].last /\ n.read = state[c[2]]
          /\ n.lines = logs[c[2]] /\ n.pc = "status" /\ n.told = conn[c].told
        BY <1>1 DEF Conns, ConnPCs
    <2>2. conn' = [conn EXCEPT ![c] = n]
        BY <1>4 DEF Poll
    <2> HIDE DEF n
    <2>3. conn'[c] = n
        BY <1>1, <2>2 DEF StreamTypes
    <2>4. conn[c].last <= logs[c[2]]
        BY <1>1, <1>2 DEF ConnOK
    <2>5. \A v \in Outcomes : state[c[2]] = v =>
              verdictLogs[c[2]][v] > 0 /\ verdictLogs[c[2]][v] <= logs[c[2]]
        BY <1>1, <1>4 DEF DocumentOK
    <2>6. logs[c[2]] <= logs[c[2]]
        BY <1>1
    <2>7. ConnOK(c)'
        BY <1>1, <2>1, <2>3, <2>4, <2>5, <2>6 DEF ConnOK, document
    <2> QED
        BY <1>1, <2>1, <2>2, <2>7, ConnectionMoves
<1> QED
    BY <1>3, <1>4

\* The numbers from a + 1 to b, appended to those from 1 to a.
LEMMA Continued ==
    ASSUME NEW g \in Seq(Nat), NEW a \in Nat, NEW b \in Nat, a <= b,
           Len(g) = a, \A i \in 1..a : g[i] = i
    PROVE  LET h == g \o [i \in 1..(b - a) |-> a + i]
           IN  h \in Seq(Nat) /\ Len(h) = b /\ \A i \in 1..b : h[i] = i
<1> DEFINE k == b - a
           new == [i \in 1..k |-> a + i]
<1>1. k \in Nat /\ a + k = b
    OBVIOUS
<1> HIDE DEF k
<1>2. new \in [1..k -> Nat] /\ \A i \in 1..k : new[i] = a + i
    BY <1>1
<1> HIDE DEF new
<1>3. new \in Seq(Nat)
    BY <1>1, <1>2
<1>4. Len(new) = k
    BY <1>1, <1>2, <1>3
<1>5. g \o new \in Seq(Nat) /\ Len(g \o new) = a + k
    BY <1>1, <1>3, <1>4
<1>6. ASSUME NEW i \in 1..b PROVE (g \o new)[i] = i
    <2>1. i \in 1..(Len(g) + Len(new))
        BY <1>1, <1>4
    <2>2. (g \o new)[i] = IF i <= Len(g) THEN g[i] ELSE new[i - Len(g)]
        BY <1>3, <2>1, ConcatProperties
    <2>3. CASE i <= a
        BY <2>2, <2>3
    <2>4. CASE ~(i <= a)
        <3>1. i - a \in 1..k /\ a + (i - a) = i
            BY <1>1, <2>4
        <3> QED
            BY <1>2, <2>2, <2>4, <3>1
    <2> QED
        BY <2>3, <2>4
<1>7. g \o [i \in 1..(b - a) |-> a + i] = g \o new
    BY DEF new, k
<1> QED
    BY <1>1, <1>5, <1>6, <1>7

\* What was received grows by exactly the lines that are new.
LEMMA SendLogsKeeps ==
    ASSUME StreamInv, NEW c \in Connections, SendLogs(c)
    PROVE  StreamInv'
<1>1. StreamTypes /\ ConnOK(c) /\ conn[c] \in Conns /\ UNCHANGED document /\ conn[c].pc = "lines"
    BY DEF StreamInv, StreamTypes, SendLogs
<1> DEFINE last == conn[c].last
           lines == conn[c].lines
           got == conn[c].got
           new == [i \in 1..(lines - last) |-> last + i]
<1>2. /\ got \in Seq(Nat) /\ last \in Nat /\ lines \in Nat /\ last <= lines
      /\ Len(got) = last /\ \A i \in 1..last : got[i] = i
    BY <1>1 DEF Conns, ConnOK
<1> DEFINE n == [conn[c] EXCEPT !.pc = "end", !.last = lines, !.got = got \o new]
<1>4. conn' = [conn EXCEPT ![c] = n]
    BY <1>1 DEF SendLogs, StreamTypes
<1>5. /\ got \o new \in Seq(Nat) /\ Len(got \o new) = lines
      /\ \A i \in 1..lines : (got \o new)[i] = i
    BY <1>2, Continued, ZenonT(40)
<1> HIDE DEF new
<1>7. n \in Conns /\ n.got = got \o new /\ n.last = lines /\ n.read = conn[c].read
      /\ n.lines = lines /\ n.pc = "end" /\ n.told = conn[c].told
    BY <1>1, <1>2, <1>5 DEF Conns, ConnPCs
<1> HIDE DEF n
<1>8. conn'[c] = n
    BY <1>1, <1>4 DEF StreamTypes
<1>9. \A v \in Outcomes : n.told = v =>
          verdictLogs[c[2]][v] > 0 /\ verdictLogs[c[2]][v] <= n.last
    <2> SUFFICES ASSUME NEW v \in Outcomes, conn[c].told = v
                 PROVE  verdictLogs[c[2]][v] > 0 /\ verdictLogs[c[2]][v] <= lines
        BY <1>7
    <2>1. verdictLogs[c[2]][v] > 0 /\ verdictLogs[c[2]][v] <= last
        BY <1>1 DEF ConnOK
    <2>2. verdictLogs[c[2]][v] \in Nat
        BY <1>1 DEF StreamTypes, Connections
    <2> QED
        BY <1>2, <2>1, <2>2
<1>10. lines <= lines
    BY <1>2
<1>11. ConnOK(c)'
    <2>1. /\ Len(n.got) = n.last /\ \A i \in 1..n.last : n.got[i] = i
          /\ n.last <= n.lines /\ n.last = n.lines
        BY <1>5, <1>7, <1>10
    <2>2. /\ n.lines <= logs[c[2]]
          /\ \A v \in Outcomes : n.read = v =>
                verdictLogs[c[2]][v] > 0 /\ verdictLogs[c[2]][v] <= n.lines
        BY <1>1, <1>7 DEF ConnOK
    <2>3. logs' = logs /\ verdictLogs' = verdictLogs
        BY <1>1 DEF document
    <2> QED
        BY <1>8, <1>9, <2>1, <2>2, <2>3 DEF ConnOK
<1> QED
    BY <1>1, <1>4, <1>7, <1>11, ConnectionMoves

\* A stream closes on the verdict it read, all of its lines sent.
LEMMA EndRoundKeeps ==
    ASSUME StreamInv, NEW c \in Connections, EndRound(c)
    PROVE  StreamInv'
<1>1. StreamTypes /\ ConnOK(c) /\ conn[c] \in Conns /\ UNCHANGED document /\ conn[c].pc = "end"
    BY DEF StreamInv, StreamTypes, EndRound
<1>2. PICK n \in Conns :
          /\ conn' = [conn EXCEPT ![c] = n]
          /\ n.got = conn[c].got /\ n.last = conn[c].last /\ n.read = conn[c].read
          /\ n.lines = conn[c].lines /\ n.pc \in {"poll", "closed"}
          /\ n.told \in {conn[c].told, conn[c].read}
    <2>1. CASE conn[c].read \in _TERMINAL
        <3> DEFINE n == [conn[c] EXCEPT !.pc = "closed", !.told = conn[c].read]
        <3>1. n \in Conns /\ n.got = conn[c].got /\ n.last = conn[c].last /\ n.read = conn[c].read
              /\ n.lines = conn[c].lines /\ n.pc = "closed" /\ n.told = conn[c].read
            BY <1>1 DEF Conns, ConnPCs, Tolds
        <3> QED
            BY <2>1, <3>1 DEF EndRound
    <2>2. CASE conn[c].read \notin _TERMINAL
        <3> DEFINE n == [conn[c] EXCEPT !.pc = "poll"]
        <3>1. n \in Conns /\ n.got = conn[c].got /\ n.last = conn[c].last /\ n.read = conn[c].read
              /\ n.lines = conn[c].lines /\ n.pc = "poll" /\ n.told = conn[c].told
            BY <1>1 DEF Conns, ConnPCs
        <3> QED
            BY <2>2, <3>1 DEF EndRound
    <2> QED
        BY <2>1, <2>2
<1>3. conn'[c] = n
    BY <1>1, <1>2 DEF StreamTypes
<1>4. conn[c].last = conn[c].lines
    BY <1>1 DEF ConnOK
<1>5. ConnOK(c)'
    BY <1>1, <1>2, <1>3, <1>4 DEF ConnOK, document
<1> QED
    BY <1>1, <1>2, <1>5, ConnectionMoves

-----------------------------------------------------------------------------

LEMMA StreamInitOK == StreamInit => StreamInv
<1> SUFFICES ASSUME StreamInit PROVE StreamInv
    OBVIOUS
<1>1. NoConn \in Conns /\ NoConn.got = <<>> /\ NoConn.last = 0 /\ NoConn.lines = 0
      /\ NoConn.pc = "idle" /\ NoConn.told = "none"
    BY DEF NoConn, Conns, ConnPCs, States, Tolds
<1>2. StreamTypes
    BY <1>1 DEF StreamInit, RecordInit, StreamTypes, States, Lives, Connections
<1>3. ASSUME NEW s \in Scans PROVE DocumentOK(s)
    BY DEF StreamInit, RecordInit, DocumentOK, Outcomes
<1>4. ASSUME NEW c \in Connections PROVE ConnOK(c)
    <2>1. conn[c] = NoConn /\ logs[c[2]] = 0
        BY DEF StreamInit, Connections
    <2>2. "none" \notin Outcomes
        BY DEF Outcomes
    <2> QED
        BY <1>1, <2>1, <2>2 DEF ConnOK
<1> QED
    BY <1>2, <1>3, <1>4 DEF StreamInv

LEMMA StreamNextOK == StreamInv /\ [StreamNext]_streamVars => StreamInv'
<1> SUFFICES ASSUME StreamInv, [StreamNext]_streamVars PROVE StreamInv'
    OBVIOUS
<1>1. CASE UNCHANGED streamVars
    BY <1>1 DEF streamVars, StreamInv, StreamTypes, DocumentOK, ConnOK
<1>2. CASE Writer
    BY <1>2, VerdictKeeps, StateKeeps, SilentKeeps DEF Writer
<1>3. ASSUME NEW c \in Connections, Accept(c) \/ Round(c) \/ Disconnect(c) PROVE StreamInv'
    BY <1>3, AcceptKeeps, PollKeeps, SendLogsKeeps, EndRoundKeeps DEF Round
<1> QED
    BY <1>1, <1>2, <1>3 DEF StreamNext, Connections

LEMMA StreamInvariance == StreamSpec => []StreamInv
<1> QED
    BY StreamInitOK, StreamNextOK, PTL DEF StreamSpec

\* Every client gets the log's lines from the first on, each once and in order.
THEOREM StreamInOrder == StreamSpec => []LogsInOrder
<1>1. StreamInv => LogsInOrder
    <2> SUFFICES ASSUME StreamInv, NEW c \in Connections, NEW i \in DOMAIN conn[c].got
                 PROVE  conn[c].got[i] = i
        BY DEF LogsInOrder, Connections
    <2>1. ConnOK(c) /\ conn[c].got \in Seq(Nat)
        BY DEF StreamInv, StreamTypes, Conns
    <2> QED
        BY <2>1 DEF ConnOK
<1> QED
    BY <1>1, StreamInvariance, PTL

\* A stream that closes on a verdict has sent the log up to that verdict's line.
THEOREM VerdictLineSent == StreamSpec => []ClosedWithWholeLog
<1>1. StreamInv => ClosedWithWholeLog
    <2> SUFFICES ASSUME StreamInv, NEW c \in Connections, conn[c].told \in Outcomes
                 PROVE  /\ verdictLogs[c[2]][conn[c].told] > 0
                        /\ Len(conn[c].got) >= verdictLogs[c[2]][conn[c].told]
        BY DEF ClosedWithWholeLog, Connections
    <2>1. ConnOK(c) /\ conn[c].last \in Nat /\ verdictLogs[c[2]][conn[c].told] \in Nat
        BY DEF StreamInv, StreamTypes, Conns, Connections
    <2>2. /\ Len(conn[c].got) = conn[c].last
          /\ verdictLogs[c[2]][conn[c].told] > 0
          /\ verdictLogs[c[2]][conn[c].told] <= conn[c].last
        BY <2>1 DEF ConnOK
    <2> QED
        BY <2>1, <2>2
<1> QED
    BY <1>1, StreamInvariance, PTL
=============================================================================
