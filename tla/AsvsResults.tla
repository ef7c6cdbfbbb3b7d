---------------------------- MODULE AsvsResults ----------------------------
(***************************************************************************)
(* The requests that read and write the compliance results of one scan on  *)
(* one manual_attestation control (app/services/asvs_service.py and        *)
(* app/api/routes/attestations.py): every await is a separate step, so     *)
(* requests of the scan's owner and of an admin, the scan's own completion *)
(* and its deletion interleave between the reads of one request.           *)
(***************************************************************************)
EXTENDS AsvsVerdict

CONSTANTS Requests,         \* HTTP requests in flight
          Controls          \* strategies of the control: hybrid attestation ones

ASSUME ControlsAssumption == Controls \subseteq {"attest", "attest_static"}

Users == {"owner", "admin"}     \* can_access_resource admits nobody else

VARIABLES strategy,       \* of the control
          scan,           \* the scans collection: [exists, summary]
          attestations,   \* answer per user, or "none": key (user, scan, control)
          asvs_results,   \* the stored result, or NoResult
          req             \* [Requests -> request record]

vars == <<strategy, scan, attestations, asvs_results, req>>

NoResult == Result("none", "none")

\* The summaries a control of these strategies tells apart.
Clean    == [NoEvidence EXCEPT !.total_files = 1]
WithHit  == [Clean EXCEPT !.vulnerabilities = {"confirmed"}]
Summaries == {NoEvidence, Clean, WithHit}

\* summary and owner are what the request read of the scan, found whether its last
\* read found it, status the task it reports.
Request == [op : {"none", "submit", "tasks"}, user : Users,
            pc : {"idle", "write", "scan", "attestations", "store", "reread",
                  "task", "done"},
            answer : Answers \cup {"none"}, summary : Summaries, owner : Users,
            found : BOOLEAN, result : Results,
            status : {"none", "attested", "scan_failed", "pending"}]

NoRequest == [op |-> "none", user |-> "owner", pc |-> "idle", answer |-> "none",
              summary |-> NoEvidence, owner |-> "owner", found |-> FALSE,
              result |-> _not_tested, status |-> "none"]

Init == /\ strategy \in Controls
        /\ scan = [exists |-> TRUE, summary |-> NoEvidence]
        /\ attestations = [u \in Users |-> "none"]
        /\ asvs_results = NoResult
        /\ req = [r \in Requests |-> NoRequest]

\* The worker stores the summary (_update_scan changes nothing once it is deleted).
CompleteScan ==
    /\ scan.exists /\ scan.summary = NoEvidence
    /\ \E s \in IF strategy = "attest" THEN {Clean} ELSE {Clean, WithHit} :
          scan' = [scan EXCEPT !.summary = s]
    /\ UNCHANGED <<strategy, attestations, asvs_results, req>>

\* Mutant: the answers are removed with the scan.
delete_scan_cascades ==
    /\ scan.exists
    /\ scan' = [exists |-> FALSE, summary |-> NoEvidence]
    /\ attestations' = [u \in Users |-> "none"]
    /\ UNCHANGED <<strategy, asvs_results, req>>

\* DELETE /scans/{id}: the scan document and nothing else.
delete_scan ==
    /\ scan.exists
    /\ scan' = [exists |-> FALSE, summary |-> NoEvidence]
    /\ UNCHANGED <<strategy, attestations, asvs_results, req>>

\* _get_authorized_scan finds the scan; a request for an unknown one ends with 404.
Authorize(r, u, op, pc, a) ==
    /\ req[r].pc = "idle"
    /\ scan.exists
    /\ req' = [req EXCEPT ![r] = [NoRequest EXCEPT !.op = op, !.user = u,
                                                   !.pc = pc, !.answer = a]]
    /\ UNCHANGED <<strategy, scan, attestations, asvs_results>>

submit_attestation(r, u)     == \E a \in Answers : Authorize(r, u, "submit", "write", a)
list_attestation_tasks(r, u) == Authorize(r, u, "tasks", "scan", "none")

\* The upsert of the record under the submitting user's own id.
UpsertAttestation(r) ==
    /\ req[r].pc = "write"
    /\ attestations' = [attestations EXCEPT ![req[r].user] = req[r].answer]
    /\ req' = [req EXCEPT ![r].pc = "scan"]
    /\ UNCHANGED <<strategy, scan, asvs_results>>

\* Whose answers count: the scan's user_id, and the caller's own when it is gone.
AttestationUser(r) == IF scan.exists THEN "owner" ELSE req[r].user

\* build_results_for_scan, first await: the scan document.
ReadScan(r) ==
    /\ req[r].pc = "scan"
    /\ req' = [req EXCEPT ![r].pc = "attestations",
                          ![r].summary = IF scan.exists THEN scan.summary ELSE NoEvidence,
                          ![r].owner = AttestationUser(r),
                          ![r].found = scan.exists]
    /\ UNCHANGED <<strategy, scan, attestations, asvs_results>>

\* Second await: the answers; _compute_result follows without another await.
ReadAttestations(r) ==
    /\ req[r].pc = "attestations"
    /\ LET att == attestations[req[r].owner]
       IN  req' = [req EXCEPT ![r].pc = "store",
                              ![r].result = _compute_result(strategy, "search",
                                                            req[r].summary, att)]
    /\ UNCHANGED <<strategy, scan, attestations, asvs_results>>

\* Third await: the upsert of the result.
StoreResult(r) ==
    /\ req[r].pc = "store"
    /\ asvs_results' = req[r].result
    /\ req' = [req EXCEPT ![r].pc = IF req[r].op = "tasks" THEN "reread" ELSE "done"]
    /\ UNCHANGED <<strategy, scan, attestations>>

\* list_manual_attestation_tasks reads the scan again ...
RereadScan(r) ==
    /\ req[r].pc = "reread"
    /\ req' = [req EXCEPT ![r].pc = "task",
                          ![r].owner = AttestationUser(r),
                          ![r].found = scan.exists]
    /\ UNCHANGED <<strategy, scan, attestations, asvs_results>>

\* Mutant: a fail without a look at the answers is the scan's.
TaskStatus_ignores_answer(r) ==
    IF req[r].result = Reading("fail") THEN "scan_failed"
    ELSE IF attestations[req[r].owner] # "none" THEN "attested" ELSE "pending"

\* ... and the answers, and sorts the control into the work queue.
TaskStatus(r) ==
    IF attestations[req[r].owner] # "none" THEN "attested"
    ELSE IF req[r].result = Reading("fail") THEN "scan_failed"
    ELSE "pending"

BuildTask(r) ==
    /\ req[r].pc = "task"
    /\ req' = [req EXCEPT ![r].pc = "done", ![r].status = TaskStatus(r)]
    /\ UNCHANGED <<strategy, scan, attestations, asvs_results>>

\* The response has been sent.
Respond(r) ==
    /\ req[r].pc = "done"
    /\ req' = [req EXCEPT ![r] = NoRequest]
    /\ UNCHANGED <<strategy, scan, attestations, asvs_results>>

Handle(r) == \/ \E u \in Users : submit_attestation(r, u) \/ list_attestation_tasks(r, u)
             \/ UpsertAttestation(r) \/ ReadScan(r) \/ ReadAttestations(r)
             \/ StoreResult(r) \/ RereadScan(r) \/ BuildTask(r) \/ Respond(r)

Next == CompleteScan \/ delete_scan \/ \E r \in Requests : Handle(r)

Spec == Init /\ [][Next]_vars

-----------------------------------------------------------------------------
\* Stored results are results, stored answers are answers _require_proof admits.
TypeOK == /\ strategy \in Controls
          /\ scan \in [exists : BOOLEAN, summary : Summaries]
          /\ attestations \in [Users -> Answers \cup {"none"}]
          /\ asvs_results \in Results \cup {NoResult}
          /\ req \in [Requests -> Request]

\* A task the work queue calls scan_failed, and so not in need of a human answer,
\* was failed by the scan's own finding, although its result and its status come
\* from two separate reads of the answers: as long as the scan was still there for
\* the second read.
ScanFailedByScan ==
    \A r \in Requests :
       req[r].status = "scan_failed" /\ req[r].found
          => strategy = "attest_static" /\ req[r].summary = WithHit

\* When the owner's own submission returns, the result it computed counts an answer,
\* whatever other requests, the worker and a deletion did in between.
OwnerAnswerCounts ==
    \A r \in Requests :
       req[r].op = "submit" /\ req[r].user = "owner" /\ req[r].pc = "done"
          => req[r].result # _not_tested

=============================================================================
