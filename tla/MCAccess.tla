------------------------------- MODULE MCAccess -------------------------------
(* The requests of users: what stands between them and the services - the     *)
(* scan quota, tokens and accounts, the rate limiter - and those that read    *)
(* and write the compliance results of one scan.  The parts share no state,   *)
(* so each behaviour runs one of them.                                        *)
EXTENDS ScanQuota, AuthTokens, RateLimit, AsvsResults, TLC

CONSTANTS s1, s2, t1, t2, r1, r2

MCUsers    == {"user", "admin"}
MCAdmins   == {"admin"}
MCStarts   == {"u1", "u2", "u3", "u4", "a1", "a2"}
MCOwner    == [r \in MCStarts |-> IF r \in {"a1", "a2"} THEN "admin" ELSE "user"]
MCLimit    == [u \in MCUsers |-> 1]

MCSlots    == {s1, s2}
MCTokens   == {t1, t2}
MCRequests == {r1, r2}
MCSymmetry == Permutations(MCSlots) \cup Permutations(MCTokens) \cup Permutations(MCRequests)

MCKeys     == {"login", "register"}
MCMaxHits  == [k \in MCKeys |-> 2]
MCWindow   == [k \in MCKeys |-> IF k = "login" THEN 1 ELSE 3]

MCControls == {"attest_static"}

VARIABLE part

AccessInit ==
    /\ part \in {"quota", "auth", "limit", "results"}
    /\ QuotaInit /\ LimitInit
    /\ AuthInit /\ (part = "auth" \/ Accounts = {})
    /\ Init /\ (part = "results" \/ strategy = "attest_static")

AccessNext ==
    \/ part = "quota" /\ QuotaNext /\ UNCHANGED <<authVars, limitVars, vars, part>>
    \/ part = "auth" /\ AuthNext /\ UNCHANGED <<quotaVars, limitVars, vars, part>>
    \/ part = "limit" /\ LimitNext /\ UNCHANGED <<quotaVars, authVars, vars, part>>
    \/ part = "results" /\ Next /\ UNCHANGED <<quotaVars, authVars, limitVars, part>>

AccessSpec == AccessInit /\ [][AccessNext]_<<quotaVars, authVars, limitVars, vars, part>>
=============================================================================
