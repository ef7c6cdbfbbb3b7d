----------------------------- MODULE ScanRecord -----------------------------
(***************************************************************************)
(* What a scan document promises to everyone who reads it (the status and  *)
(* summary routes, the WebSocket stream, the ASVS service), whatever the   *)
(* workers do internally:                                                  *)
(*                                                                         *)
(*  - a document appears once, as PENDING, and once deleted never returns; *)
(*  - its worker makes it RUNNING at most once;                            *)
(*  - COMPLETED is written only by a worker that has begun, and the only   *)
(*    thing that worker may still do to it is correct it to FAILED (the    *)
(*    write was applied but reported as an error);                         *)
(*  - after its verdict a worker never touches the state again;            *)
(*  - CANCELLED is a label any document may receive at any time.  It does  *)
(*    NOT stop the worker, which may still overwrite it.                   *)
(*                                                                         *)
(* ScanLifecycle, the detailed model of ScanService, implements this.      *)
(***************************************************************************)

CONSTANT Scans          \* scan ids: uuid4, never reused

VARIABLES
    state,              \* the document's "state" field, or "ABSENT"
    life                \* how far the worker behind it has come

recordVars == <<state, life>>

States   == {"ABSENT", "PENDING", "RUNNING", "COMPLETED", "FAILED", "CANCELLED"}
Outcomes == {"COMPLETED", "FAILED"}
Lives    == {"new", "queued", "running", "closing", "judged"}

\* An update_one without upsert: it writes nothing when the document is gone.
Set(s, v) == state' = [state EXCEPT ![s] = IF @ = "ABSENT" THEN @ ELSE v]

RecordInit ==
    /\ state = [s \in Scans |-> "ABSENT"]
    /\ life  = [s \in Scans |-> "new"]

Insert(s) ==
    /\ life[s] = "new"
    /\ state' = [state EXCEPT ![s] = "PENDING"]
    /\ life'  = [life EXCEPT ![s] = "queued"]

\* RUNNING, once; the write may also report an error, which closes the worker.
Begin(s) ==
    /\ life[s] = "queued"
    /\ Set(s, "RUNNING")
    /\ \E l \in {"running", "closing"} : life' = [life EXCEPT ![s] = l]

\* Something raised: from here the worker can only write FAILED.
Raise(s) ==
    /\ life[s] \in {"queued", "running"}
    /\ life' = [life EXCEPT ![s] = "closing"]
    /\ UNCHANGED state

Complete(s) ==
    /\ life[s] = "running"
    /\ Set(s, "COMPLETED")
    /\ \E l \in {"closing", "judged"} : life' = [life EXCEPT ![s] = l]

Fail(s) ==
    /\ life[s] \in {"running", "closing"}
    /\ Set(s, "FAILED")
    /\ \E l \in {"closing", "judged"} : life' = [life EXCEPT ![s] = l]

\* The worker is gone without a verdict: its last write was refused.
Abandon(s) ==
    /\ life[s] = "closing"
    /\ life' = [life EXCEPT ![s] = "judged"]
    /\ UNCHANGED state

\* The process dies and takes every worker with it.
Crash ==
    /\ life' = [s \in Scans |-> IF life[s] = "new" THEN "new" ELSE "judged"]
    /\ UNCHANGED state

Cancel(s) ==
    /\ Set(s, "CANCELLED")
    /\ UNCHANGED life

Delete(s) ==
    /\ life[s] # "new"
    /\ state' = [state EXCEPT ![s] = "ABSENT"]
    /\ UNCHANGED life

RecordNext ==
    \/ \E s \in Scans :
          \/ Insert(s) \/ Begin(s) \/ Raise(s) \/ Complete(s) \/ Fail(s)
          \/ Abandon(s) \/ Cancel(s) \/ Delete(s)
    \/ Crash

RecordSpec == RecordInit /\ [][RecordNext]_recordVars
=============================================================================
