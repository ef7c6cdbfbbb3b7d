---------------------------- MODULE AsvsEvidence ----------------------------
(***************************************************************************)
(* How the evidence on one ASVS control is collected by a scan             *)
(* (app/services/scan_service.py, _run_repository_scan and                 *)
(* _run_dynamic_scan), stored as the scan's summary, joined by a human     *)
(* answer and merged into a verdict (AsvsVerdict).                         *)
(***************************************************************************)
EXTENDS AsvsVerdict, FiniteSets

CONSTANTS Studied,      \* the detection strategies looked at
          MaxTargets,   \* live targets of a scan
          MaxFindings   \* DAST findings on the control

ASSUME StudiedAssumption == Studied \subseteq Strategies
ASSUME BoundAssumption == MaxTargets \in Nat /\ MaxFindings \in Nat

VARIABLES strategy,     \* how the catalog says the control is detected
          rules,        \* RuleCovers: the rules tagged for it
          pc,           \* the scan worker
          searched,     \* the rules really ran over the source
          e,            \* findings the worker holds so far
          summary,      \* the stored summary, or NoSummary
          att           \* the answer on file, or "none"

vars == <<strategy, rules, pc, searched, e, summary, att>>

\* Before a summary is stored the service reads an empty dict; a FAILED scan's
\* summary has none of the fields either (both: every list empty, total_files 0).
NoSummary == NoEvidence

\* Which rules and findings a control of a strategy can have: queries.json tags
\* static_code controls with either polarity, V3.5.8 with a marker only and the
\* HYBRID_ATTESTATION_ELIGIBLE_CONTROLS with vulnerable rules only.
RulesFor(st) == CASE st = "static" -> RuleCovers
                  [] st \in {"capability", "config_or_static"} -> {"none", "marker"}
                  [] st = "attest_static" -> {"search"}
                  [] OTHER -> {"none"}

HitsFor(st, r) == CASE r = "none"   -> {}
                    [] r = "marker" -> {"marker"}
                    [] r = "search" /\ st = "static" -> Hits
                    [] OTHER -> {"guess", "confirmed"}

HasCapability(st) == st \in {"capability", "attest_capability"}
HasConfig(st)     == st \in {"config", "config_or_static", "config_or_dynamic"}
HasAdvisories(st) == st \in {"dependency", "attest_dependency"}
HasProbe(st)      == st \in {"probe", "config_or_dynamic"}
HasDynamic(st)    == st \in {"static", "attest_static", "attest_dynamic"}

Init == /\ strategy \in Studied
        /\ rules \in RulesFor(strategy)
        /\ pc = "analysis"
        /\ searched = FALSE
        /\ e = NoEvidence
        /\ summary = NoSummary
        /\ att = "none"

\* evaluate_v15_2_1: pass without advisories, else fail or, within the SLA,
\* manual_review; no result when no manifest was scanned.
DependencyResults(advisories) ==
    IF advisories = {} THEN {"none", "pass"} ELSE {"fail", "manual_review"}

\* analyze_repository finished: the rules ran and its findings are merged in.
AnalysisReturns ==
    /\ pc = "analysis"
    /\ \E hits \in SUBSET HitsFor(strategy, rules),
          cap  \in IF HasCapability(strategy) THEN {"none", "pass", "fail"} ELSE {"none"},
          conf \in IF HasConfig(strategy) THEN SUBSET Readings ELSE {{}},
          advs \in IF HasAdvisories(strategy) THEN SUBSET Advisories ELSE {{}} :
       \E dep \in IF strategy = "dependency" THEN DependencyResults(advs) ELSE {"none"} :
          e' = [e EXCEPT !.total_files = 1, !.vulnerabilities = hits,
                         !.capability = cap, !.config = conf,
                         !.advisories = advs, !.dependency = dep]
    /\ searched' = TRUE
    /\ pc' = "probes"
    /\ UNCHANGED <<strategy, rules, summary, att>>

\* wait_for expired: an empty AnalysisResult takes its place and the scan goes on
\* with the files it had collected.
AnalysisTimesOut ==
    /\ pc = "analysis"
    /\ e' = [e EXCEPT !.total_files = 1]
    /\ pc' = "probes"
    /\ UNCHANGED <<strategy, rules, searched, summary, att>>

\* A dynamic scan has no source.
DynamicOnly ==
    /\ pc = "analysis"
    /\ pc' = "probes"
    /\ UNCHANGED <<strategy, rules, searched, e, summary, att>>

\* One target's passive probe; one that fails or times out leaves no reading.
ProbeTarget ==
    /\ pc = "probes"
    /\ HasProbe(strategy)
    /\ Len(e.probe) < MaxTargets
    /\ \E v \in Readings : e' = [e EXCEPT !.probe = Append(@, v)]
    /\ UNCHANGED <<strategy, rules, pc, searched, summary, att>>

EndProbes ==
    /\ pc = "probes"
    /\ pc' = "sweeps"
    /\ UNCHANGED <<strategy, rules, searched, e, summary, att>>

\* One finding of a target's sweep; a static finding nobody confirmed may have
\* been re-tested on its own route.
SweepFinding ==
    /\ pc = "sweeps"
    /\ HasDynamic(strategy)
    /\ Cardinality(e.dynamic) < MaxFindings
    /\ \E f \in DastFindings :
          /\ f.bridged => "guess" \in e.vulnerabilities
          /\ e' = [e EXCEPT !.dynamic = @ \cup {f}]
    /\ UNCHANGED <<strategy, rules, pc, searched, summary, att>>

Reproduced(ev) == \E f \in ev.dynamic : f.bridged /\ f.verdict \in FAILING_VERDICTS

Promote(ev) == [ev EXCEPT !.vulnerabilities = (@ \ {"guess"}) \cup {"confirmed"}]

\* Mutant: a target where the finding did not reproduce outweighs one where it did.
Correlate_contradicted(ev) ==
    IF Reproduced(ev) /\ ~\E f \in ev.dynamic : f.bridged /\ f.verdict = "pass"
    THEN Promote(ev) ELSE ev

\* bridge_verdict_by_id: a live reproduction confirms the static finding it
\* re-tested (bridge_confirmed).
Correlate(ev) == IF Reproduced(ev) THEN Promote(ev) ELSE ev

CompleteScan ==
    /\ pc = "sweeps"
    /\ summary' = Correlate(e)
    /\ pc' = "done"
    /\ UNCHANGED <<strategy, rules, searched, e, att>>

\* The except block: a summary with only a status and an error.
FailScan ==
    /\ pc \in {"analysis", "probes", "sweeps"}
    /\ summary' = NoSummary
    /\ pc' = "failed"
    /\ UNCHANGED <<strategy, rules, searched, e, att>>

\* submit_attestation by the scan's owner, at any time; an answer replaces the
\* previous one.  _require_proof refuses "not_tested".
submit_attestation ==
    /\ \E a \in Answers : att' = a
    /\ UNCHANGED <<strategy, rules, pc, searched, e, summary>>

Next == \/ AnalysisReturns \/ AnalysisTimesOut \/ DynamicOnly
        \/ ProbeTarget \/ EndProbes \/ SweepFinding \/ CompleteScan \/ FailScan
        \/ submit_attestation

Spec == Init /\ [][Next]_vars

-----------------------------------------------------------------------------
Verdict == _compute_result(strategy, rules, summary, att).verdict

\* What the scan alone says of the control.
ScanVerdict == _compute_result(strategy, rules, summary, "none").verdict

\* Evidence keeps its shape, and an answer on file is one that _require_proof admits.
TypeOK == /\ strategy \in Studied
          /\ rules \in RulesFor(strategy)
          /\ pc \in {"analysis", "probes", "sweeps", "done", "failed"}
          /\ searched \in BOOLEAN
          /\ e \in Evidence
          /\ summary \in Evidence
          /\ att \in Answers \cup {"none"}

\* A control is reported as passing only when some source says so: a human
\* answer, a positive finding, a clean dependency scan, or a rule that looks for
\* the bad pattern and a scan that had source to look at and no match.
PassIsEarned ==
    Verdict = "pass" =>
       \/ att = "pass"
       \/ "marker" \in summary.vulnerabilities
       \/ "pass" \in summary.config \cup ProbeReadings(summary) \cup
                     {summary.capability, summary.dependency}
       \/ /\ rules = "search"
          /\ summary.total_files > 0
          /\ summary.vulnerabilities = {}

\* The human answer never clears a control the scan itself failed, whichever came
\* first and however often the answer is changed.
AnswerNeverClears == ScanVerdict = "fail" => Verdict = "fail"

\* A static finding reproduced live on any one target fails its control, also when
\* the sweep of another target did not reproduce it and whatever the answer says.
ReproducedFails ==
    pc = "done" /\ strategy \in {"static", "attest_static"} /\ Reproduced(summary)
       => Verdict = "fail"

\* The module docstring says a fail from any source always wins; so a control with
\* one is never reported as passing.  Left out is V3.5.8, whose two sources are
\* alternatives.
FailNeverPasses ==
    /\ strategy # "config_or_static"
    /\ \/ "fail" \in summary.config \cup ProbeReadings(summary) \cup
                     {summary.capability, summary.dependency}
       \/ FailsLive(summary)
       \/ "confirmed" \in summary.vulnerabilities
    => Verdict # "pass"

\* The comment on pass by absence: the rules ran across the whole repository.
PassMeansSearched ==
    _compute_result(strategy, rules, summary, att) = Result("pass", "no_findings") => searched
=============================================================================
