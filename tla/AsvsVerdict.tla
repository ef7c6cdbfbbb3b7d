---------------------------- MODULE AsvsVerdict ----------------------------
(***************************************************************************)
(* ASVSService._compute_result and the merge functions it dispatches to    *)
(* (app/services/asvs_service.py): how the findings of a scan and a human  *)
(* answer become one verdict on one control.  Confidence numbers, evidence *)
(* lists and wording are left out; which kind of evidence a verdict rests  *)
(* on (pass_basis, fail_basis) is kept.                                    *)
(***************************************************************************)
EXTENDS Integers, Sequences

\* Where _compute_result looks: detection_strategy, split by the HYBRID_* sets
\* and by the controls that CapabilityChecker covers.
Strategies == {"static", "capability", "config", "config_or_static",
               "config_or_dynamic", "dependency", "probe", "attest",
               "attest_static", "attest_dynamic", "attest_capability",
               "attest_dependency"}

\* The rules tagged for a control: none, only compliant markers, or at least
\* one that searches for the bad pattern.
RuleCovers == {"none", "marker", "search"}

Verdicts == {"pass", "fail", "n_a", "manual_review", "not_tested"}
Answers  == Verdicts \ {"not_tested"}     \* what _require_proof lets through

\* Vulnerabilities tagged with the control: a compliant-polarity marker, a match
\* nobody confirmed, one that counts as confirmed (by the LLM, by the DAST bridge,
\* or as a presence rule that needs no opinion).
Hits     == {"marker", "guess", "confirmed"}
Readings == {"pass", "fail", "not_tested"}      \* config and live-probe findings
DastVerdicts == {"pass", "fail", "confirmed", "inconclusive"}
FAILING_VERDICTS == {"fail", "confirmed"}
Advisories   == {"race", "other"}               \* known-vulnerable dependencies

\* A DAST finding on the control; bridged when it re-tested a static finding on
\* that finding's own route (bridge_static_finding_id).
DastFindings == [verdict : DastVerdicts, bridged : BOOLEAN]

\* The part of a scan summary that concerns one control.
Evidence == [total_files : {0, 1}, vulnerabilities : SUBSET Hits,
             capability : {"none", "pass", "fail"}, config : SUBSET Readings,
             dependency : {"none", "pass", "fail", "manual_review"},
             advisories : SUBSET Advisories, probe : Seq(Readings),
             dynamic : SUBSET DastFindings]

NoEvidence == [total_files |-> 0, vulnerabilities |-> {}, capability |-> "none",
               config |-> {}, dependency |-> "none", advisories |-> {},
               probe |-> <<>>, dynamic |-> {}]

Result(verdict, basis) == [verdict |-> verdict, basis |-> basis]
Bases    == {"confirmed", "unconfirmed", "no_findings", "none"}
Results  == [verdict : Verdicts, basis : Bases]

_not_tested == Result("not_tested", "none")

\* A definite reading is direct evidence for its verdict.
Reading(v) == Result(v, IF v \in {"pass", "fail", "manual_review"} THEN "confirmed"
                                                                   ELSE "none")

\* att is the answer on file, or "none"; n_a has neither basis.
_merge_attestation(att) == IF att = "none" THEN _not_tested ELSE Reading(att)

_merge_attestation_or_vulnerable_static(e, att) ==
    IF "confirmed" \in e.vulnerabilities THEN Reading("fail")
                                         ELSE _merge_attestation(att)

FailsLive(e) == \E f \in e.dynamic : f.verdict \in FAILING_VERDICTS

\* Mutant: an answer on file is taken before the live finding is looked at.
_merge_attestation_or_dynamic_finding_answer_first(e, att) ==
    IF att # "none" THEN Reading(att)
    ELSE IF FailsLive(e) THEN Reading("fail") ELSE _not_tested

_merge_attestation_or_dynamic_finding(e, att) ==
    IF FailsLive(e) THEN Reading("fail") ELSE _merge_attestation(att)

_merge_attestation_or_capability_finding(e, att) ==
    IF e.capability = "fail" THEN Reading("fail") ELSE _merge_attestation(att)

_merge_attestation_or_dependency_finding(e, att) ==
    IF "race" \in e.advisories THEN Reading("fail") ELSE _merge_attestation(att)

\* Mutant: no rule at all counts as nothing found.
_merge_static_unearned(e, rules) ==
    IF e.capability # "none" THEN Reading(e.capability)
    ELSE IF e.vulnerabilities # {} THEN Reading("fail")
    ELSE IF e.total_files = 0 THEN _not_tested
    ELSE Result("pass", "no_findings")

_merge_static(e, rules) ==
    IF e.capability # "none" THEN Reading(e.capability)
    ELSE IF "confirmed" \in e.vulnerabilities THEN Reading("fail")
    ELSE IF "guess" \in e.vulnerabilities THEN Result("manual_review", "unconfirmed")
    ELSE IF "marker" \in e.vulnerabilities THEN Reading("pass")
    ELSE IF e.total_files = 0 \/ rules # "search" THEN _not_tested
    ELSE Result("pass", "no_findings")

\* V3.5.8: satisfied by a passing config reading or by a marker in the code.
_merge_config_or_compliant_static(e) ==
    IF "pass" \in e.config \/ "marker" \in e.vulnerabilities THEN Reading("pass")
    ELSE IF "fail" \in e.config THEN Reading("fail")
    ELSE _not_tested

\* One failing reading decides, then one passing reading.
FailFirst(readings) ==
    IF "fail" \in readings THEN Reading("fail")
    ELSE IF "pass" \in readings THEN Reading("pass")
    ELSE _not_tested

ProbeReadings(e) == {e.probe[i] : i \in DOMAIN e.probe}

_merge_config_or_dynamic(e) == FailFirst(e.config \cup ProbeReadings(e))
_merge_config(e)            == FailFirst(e.config)

\* V15.2.1: the scanner's own verdict; a pass with no advisory is an absence.
_merge_dependency(e) ==
    IF e.dependency = "none" THEN _not_tested
    ELSE IF e.dependency = "pass" /\ e.advisories = {} THEN Result("pass", "no_findings")
    ELSE Reading(e.dependency)

\* The first finding decides: the probe of the first target.
_merge_dynamic(e) == IF e.probe = <<>> THEN _not_tested ELSE Reading(e.probe[1])

_compute_result(strategy, rules, e, att) ==
    CASE strategy \in {"static", "capability"} -> _merge_static(e, rules)
      [] strategy = "config"            -> _merge_config(e)
      [] strategy = "config_or_static"  -> _merge_config_or_compliant_static(e)
      [] strategy = "config_or_dynamic" -> _merge_config_or_dynamic(e)
      [] strategy = "dependency"        -> _merge_dependency(e)
      [] strategy = "probe"             -> _merge_dynamic(e)
      [] strategy = "attest"            -> _merge_attestation(att)
      [] strategy = "attest_static"     -> _merge_attestation_or_vulnerable_static(e, att)
      [] strategy = "attest_dynamic"    -> _merge_attestation_or_dynamic_finding(e, att)
      [] strategy = "attest_capability" -> _merge_attestation_or_capability_finding(e, att)
      [] strategy = "attest_dependency" -> _merge_attestation_or_dependency_finding(e, att)
=============================================================================
