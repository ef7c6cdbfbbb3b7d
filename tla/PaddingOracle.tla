---------------------------- MODULE PaddingOracle ----------------------------
(***************************************************************************)
(* run_padding_oracle_probe with oracles.comparative_timing_oracle: two    *)
(* ciphertexts are sent in turn, and the probe fails the target when their *)
(* response times are further apart than noise explains.  The target's     *)
(* load may change while the samples are taken.  Times are milliseconds.   *)
(***************************************************************************)
EXTENDS TimingStatistics

CONSTANTS
  Rounds,         \* samples per variant
  Noise,          \* noise_multiplier
  MinDelta,       \* min_delta_ms
  Leaks,          \* how much longer variant B may take on the target
  Loads,          \* what the load may add to a response
  MaxJumps        \* bound: how often the load changes

ASSUME PaddingAssumption ==
  /\ {Rounds, Noise, MinDelta, MaxJumps} \subseteq Nat
  /\ Rounds >= 3 /\ Rounds % 2 = 1 /\ Noise >= 3 /\ MinDelta > 0
  /\ Leaks \subseteq Nat /\ Loads \subseteq Nat

VARIABLES
  allowed,           \* [active, session] of the probe's call
  leak, load, jumps,
  a_ms, b_ms,
  answer          \* the finding's verdict, "none" while the probe runs

padVars == <<allowed, leak, load, jumps, a_ms, b_ms, answer>>

PadInit ==
  /\ allowed \in [active : BOOLEAN, session : BOOLEAN]
  /\ leak \in Leaks /\ load \in Loads /\ jumps = 0
  /\ a_ms = <<>> /\ b_ms = <<>> /\ answer = "none"

Distinguishable ==
  LET delta == Median(b_ms) - Median(a_ms)             \* abs() of it, squared below
      spread == IF Spread(a_ms) < Spread(b_ms) THEN Spread(b_ms) ELSE Spread(a_ms)
  IN  /\ delta * delta >= MinDelta * MinDelta
      /\ Rounds * Rounds * delta * delta >= Noise * Noise * spread

\* SKIPPED without active mode, NOT_CONFIGURED without a session: no request.
DeclinePadding ==
  /\ answer = "none" /\ a_ms = <<>> /\ ~(allowed.active /\ allowed.session)
  /\ answer' = IF allowed.active THEN "not_configured" ELSE "skipped"
  /\ UNCHANGED <<allowed, leak, load, jumps, a_ms, b_ms>>

Sending == answer = "none" /\ allowed.active /\ allowed.session

\* Mutant: all of A is sampled before the first of B.
SendsA_blocks == Len(a_ms) < Rounds

\* A, B, A, B, ...
SendsA == Len(a_ms) = Len(b_ms)

\* One timed request, of A or of B in their turn.
Time ==
  /\ Sending /\ Len(b_ms) < Rounds
  /\ IF SendsA THEN a_ms' = Append(a_ms, 20 + load) /\ UNCHANGED b_ms
               ELSE b_ms' = Append(b_ms, 20 + load + leak) /\ UNCHANGED a_ms
  /\ UNCHANGED <<allowed, leak, load, jumps, answer>>

\* A request raises: nothing contains it but the probe's own except.
RequestRaises ==
  /\ Sending /\ Len(b_ms) < Rounds
  /\ answer' = "not_tested"
  /\ UNCHANGED <<allowed, leak, load, jumps, a_ms, b_ms>>

Report ==
  /\ Sending /\ Len(a_ms) = Rounds /\ Len(b_ms) = Rounds
  /\ answer' = IF Distinguishable THEN "fail" ELSE "pass"
  /\ UNCHANGED <<allowed, leak, load, jumps, a_ms, b_ms>>

\* External: traffic, a pause or an autoscaling event changes the load.
LoadChanges ==
  /\ Sending /\ jumps < MaxJumps
  /\ load' \in Loads \ {load} /\ jumps' = jumps + 1
  /\ UNCHANGED <<allowed, leak, a_ms, b_ms, answer>>

PadNext == DeclinePadding \/ Time \/ RequestRaises \/ Report \/ LoadChanges

PadSpec == PadInit /\ [][PadNext]_padVars

-----------------------------------------------------------------------------
\* One change of the server's load between two samples, wherever it falls, is
\* not reported as a side channel, and a leak above the threshold on a steady
\* target is (oracles.py:147-211).
LoadIsNoise ==
  /\ answer = "fail" /\ jumps <= 1 => leak > 0
  /\ answer = "pass" /\ jumps = 0 => leak < MinDelta
=============================================================================
