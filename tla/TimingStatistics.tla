-------------------------- MODULE TimingStatistics --------------------------
(* What oracles.py takes from Python's statistics, on a sequence of times,  *)
(* in integers.                                                             *)
EXTENDS Integers, Sequences, FiniteSets

Total(s) == LET f[i \in 0..Len(s)] == IF i = 0 THEN 0 ELSE f[i - 1] + s[i] IN f[Len(s)]

\* The samples below x, and those not above it.
Below(s, x) == {i \in DOMAIN s : s[i] < x}
UpTo(s, x)  == {i \in DOMAIN s : s[i] <= x}

\* Mutant: the middle of the samples as they were taken, not as sorted.
Median_unsorted(s) == s[Len(s) \div 2 + 1]

\* statistics.median of an odd number of samples.
Median(s) ==
  CHOOSE x \in {s[i] : i \in DOMAIN s} :
    2 * Cardinality(Below(s, x)) < Len(s) /\ 2 * Cardinality(UpTo(s, x)) > Len(s)

\* statistics.pstdev, squared and times Len(s) squared.
Spread(s) == Len(s) * Total([i \in DOMAIN s |-> s[i] * s[i]]) - Total(s) * Total(s)
=============================================================================
