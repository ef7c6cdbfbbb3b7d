------------------------------ MODULE ScanQuota ------------------------------
(***************************************************************************)
(* The scan quota: check_scan_quota (app/core/permissions.py) as start_scan *)
(* (app/api/routes/scans.py) uses it.  The count and the insert are two    *)
(* database calls with awaits in between, so requests of one user overlap. *)
(***************************************************************************)
EXTENDS Integers, FiniteSets

CONSTANTS
    QuotaUsers,
    Admins,             \* users whose role has no limit
    Starts,             \* POST /scans/start requests, each for one scan
    Owner,              \* the user behind each request
    Limit,              \* SCAN_QUOTA of each user's role
    MaxOpen,            \* bound: requests of one user in flight at a time
    MaxDay              \* bound: days of the month the model runs through

ASSUME UsersAssumption   == Admins \subseteq QuotaUsers
ASSUME RequestAssumption == IsFiniteSet(Starts) /\ Owner \in [Starts -> QuotaUsers]
ASSUME LimitAssumption   == Limit \in [QuotaUsers -> Nat \ {0}]
ASSUME OpenAssumption    == MaxOpen \in Nat \ {0}
ASSUME DayAssumption     == MaxDay \in Nat

VARIABLES
    today,              \* the current UTC day of the month
    pc,                 \* "idle", "admitted", "started", "refused" or "invalid"
    created             \* created_at of the request's scan, or NoScan

quotaVars == <<today, pc, created>>

NoScan == -1

\* The user's scan documents of day d, and the requests past the check.
ScansOf(u, d)   == {r \in Starts : Owner[r] = u /\ created[r] = d}
Admitted(u)     == {r \in Starts : Owner[r] = u /\ pc[r] = "admitted"}

QuotaInit ==
    /\ today = 0
    /\ pc = [r \in Starts |-> "idle"]
    /\ created = [r \in Starts |-> NoScan]

\* Mutant: the comparison admits one scan too many.
WithinQuota_off_by_one(u) ==
    u \in Admins \/ Cardinality(ScansOf(u, today)) <= Limit[u]

\* count_documents since midnight UTC, compared with the limit of the role.
WithinQuota(u) == u \in Admins \/ Cardinality(ScansOf(u, today)) < Limit[u]

CheckQuota(r) ==
    /\ pc[r] = "idle"
    /\ Cardinality(Admitted(Owner[r])) < MaxOpen
    /\ pc' = [pc EXCEPT ![r] = IF WithinQuota(Owner[r]) THEN "admitted" ELSE "refused"]
    /\ UNCHANGED <<today, created>>

\* URL validation, the repository lookup or start() itself raises.
RejectInput(r) ==
    /\ pc[r] = "admitted"
    /\ pc' = [pc EXCEPT ![r] = "invalid"]
    /\ UNCHANGED <<today, created>>

\* insert_one; created_at is read now, not when the quota was checked.
InsertScan(r) ==
    /\ pc[r] = "admitted"
    /\ pc' = [pc EXCEPT ![r] = "started"]
    /\ created' = [created EXCEPT ![r] = today]
    /\ UNCHANGED today

\* DELETE /scans/{id} removes the document the count is based on.
DeleteScan(r) ==
    /\ created[r] # NoScan
    /\ created' = [created EXCEPT ![r] = NoScan]
    /\ UNCHANGED <<today, pc>>

Midnight ==
    /\ today < MaxDay
    /\ today' = today + 1
    /\ UNCHANGED <<pc, created>>

QuotaNext ==
    \/ \E r \in Starts :
          CheckQuota(r) \/ RejectInput(r) \/ InsertScan(r) \/ DeleteScan(r)
    \/ Midnight

QuotaSpec == QuotaInit /\ [][QuotaNext]_quotaVars

-----------------------------------------------------------------------------
\* created_at is a day that has come, or the request has no document.
QuotaTypeOK ==
    /\ today \in 0..MaxDay
    /\ pc \in [Starts -> {"idle", "admitted", "started", "refused", "invalid"}]
    /\ created \in [Starts -> NoScan..MaxDay]

\* No document is dated after today, so a new day starts with none.
NoFutureScan == \A r \in Starts : created[r] <= today

\* The bound on overlapping requests, for every user.
InFlightBound == \A u \in QuotaUsers : Cardinality(Admitted(u)) <= MaxOpen

\* What check-then-insert really guarantees: a limited user exceeds the daily
\* quota at most by the number of requests in flight beyond the first.
OverrunBound ==
    \A u \in QuotaUsers \ Admins :
        Cardinality(ScansOf(u, today)) + Cardinality(Admitted(u))
            <= Limit[u] - 1 + MaxOpen
=============================================================================
