------------------------------ MODULE RateLimit ------------------------------
(***************************************************************************)
(* The sliding-window limiter of app/core/rate_limit.py.  check_rate_limit *)
(* has no await, so a call is one action; what interleaves is the calls of *)
(* different keys, whose shared sweep deletes each other's deques.         *)
(***************************************************************************)
EXTENDS Integers, Sequences

CONSTANTS
    Keys,               \* "<bucket>:<client address>"
    MaxHits,            \* the limit each key's route passes
    Window,             \* the window_seconds each key's route passes
    SweepInterval,      \* _SWEEP_INTERVAL
    StaleAfter,         \* _SWEEP_STALE_AFTER_SECONDS
    MaxNow              \* bound: the monotonic clock stops here

ASSUME LimiterAssumption ==
    /\ MaxHits \in [Keys -> Nat \ {0}] /\ Window \in [Keys -> Nat]
    /\ SweepInterval \in Nat \ {0} /\ StaleAfter \in Nat /\ MaxNow \in Nat
\* The comment on _SWEEP_STALE_AFTER_SECONDS: no caller's window is longer.
ASSUME WindowAssumption == \A k \in Keys : Window[k] <= StaleAfter

VARIABLES
    now,                \* monotonic()
    buckets,            \* _buckets: key -> deque of times, <<>> when absent
    callsSinceSweep,    \* _calls_since_sweep
    let,                \* history: the time of every request let through
    turned              \* history: the key and time of the last 429, or <<>>

limitVars == <<now, buckets, callsSinceSweep, let, turned>>

LimitInit ==
    /\ now = 0
    /\ buckets = [k \in Keys |-> <<>>]
    /\ callsSinceSweep = 0
    /\ let = [k \in Keys |-> <<>>]
    /\ turned = <<>>

\* Mutant: the oldest entry of a deque decides, not the newest.
Stale_oldest(q) == q = <<>> \/ now - q[1] > StaleAfter

Stale(q) == q = <<>> \/ now - q[Len(q)] > StaleAfter

\* _sweep_expired_buckets, on every SweepInterval-th call.
Swept ==
    IF callsSinceSweep + 1 >= SweepInterval
    THEN [k \in Keys |-> IF Stale(buckets[k]) THEN <<>> ELSE buckets[k]]
    ELSE buckets

\* popleft while the oldest entry has left the window.
Trim(q, w) ==
    LET gone == CHOOSE n \in 0..Len(q) :
                   /\ \A i \in 1..n : now - q[i] > w
                   /\ n < Len(q) => now - q[n + 1] <= w
    IN  SubSeq(q, gone + 1, Len(q))

CheckRateLimit(k) ==
    LET entries == Trim(Swept[k], Window[k]) IN
    /\ callsSinceSweep' = IF callsSinceSweep + 1 >= SweepInterval THEN 0 ELSE callsSinceSweep + 1
    /\ \/ /\ Len(entries) >= MaxHits[k]
          /\ buckets' = [Swept EXCEPT ![k] = entries]
          /\ turned' = <<k, now>>
          /\ UNCHANGED let
       \/ /\ Len(entries) < MaxHits[k]
          /\ buckets' = [Swept EXCEPT ![k] = Append(entries, now)]
          /\ let' = [let EXCEPT ![k] = Append(@, now)]
          /\ turned' = <<>>
    /\ UNCHANGED now

LimitTick ==
    /\ now < MaxNow
    /\ now' = now + 1
    /\ turned' = <<>>
    /\ UNCHANGED <<buckets, callsSinceSweep, let>>

LimitNext == (\E k \in Keys : CheckRateLimit(k)) \/ LimitTick

LimitSpec == LimitInit /\ [][LimitNext]_limitVars

-----------------------------------------------------------------------------
\* Whatever the other keys' calls sweep away, no key gets more requests
\* through in any window than its limit, and a request is turned away only
\* when the window behind it is full (rate_limit.py:53-79).
WindowBound ==
    /\ \A k \in Keys : \A i \in DOMAIN let[k] :
          i > MaxHits[k] => let[k][i] - let[k][i - MaxHits[k]] > Window[k]
    /\ turned # <<>> =>
          LET k == turned[1] IN
          /\ Len(let[k]) >= MaxHits[k]
          /\ turned[2] - let[k][Len(let[k]) - MaxHits[k] + 1] <= Window[k]
=============================================================================
