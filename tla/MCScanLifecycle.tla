-------------------------- MODULE MCScanLifecycle --------------------------
(* ScanLifecycle on small instances. *)
EXTENDS ScanLifecycle

\* cancel() answers CANCELLED and the route's documentation says the scan is
\* cancelled: the document would then have to stay CANCELLED until it is deleted.
CancelSticks ==
    [][\A s \in Scans : db[s].state = "CANCELLED"
                            => db'[s].state \in {"CANCELLED", "ABSENT"}]_vars
=============================================================================
