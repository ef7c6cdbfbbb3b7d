--------------------------- MODULE Common_proofs ----------------------------
(***************************************************************************)
(* Facts the proofs of several components rest on: induction over the      *)
(* first naturals, and what the loops written as recursive functions       *)
(* compute.                                                                *)
(***************************************************************************)
EXTENDS Selection, Functions, FiniteSetTheorems, WellFoundedInduction, TLAPS

\* Every non-empty set of naturals has a least element.
LEMMA LeastNat ==
    ASSUME NEW T \in SUBSET Nat, T # {}
    PROVE  \E n \in T : \A m \in T : n <= m
<1> DEFINE R == {ss \in Nat \X Nat : ss[1] < ss[2]}
<1>1. IsWellFoundedOn(R, Nat)
    BY NatLessThanWellFounded DEF OpToRel
<1>2. PICK x \in T : \A y \in T : ~(<<y, x>> \in R)
    BY <1>1, WFMin
<1>3. ASSUME NEW y \in T PROVE x <= y
    <2>1. <<y, x>> \in Nat \X Nat /\ <<y, x>> \notin R
        BY <1>2
    <2>2. ~(y < x)
        BY <2>1
    <2> QED
        BY <2>2
<1> QED
    BY <1>3

\* Induction up to N over the members of a set.
LEMMA Climb ==
    ASSUME NEW N \in Nat, NEW T, 0 \in T, \A r \in 1..N : r - 1 \in T => r \in T
    PROVE  \A r \in 0..N : r \in T
<1> DEFINE Rest == {r \in 0..N : r \notin T}
<1>1. SUFFICES ASSUME Rest # {} PROVE FALSE
    OBVIOUS
<1>2. Rest \in SUBSET Nat
    OBVIOUS
<1>3. PICK m \in Rest : \A r \in Rest : m <= r
    BY <1>1, <1>2, LeastNat
<1>4. m \in 1..N /\ m - 1 \in 0..N /\ m - 1 \notin Rest
    BY <1>3
<1> QED
    BY <1>3, <1>4

\* The first naturals are finitely many.
LEMMA FirstNaturals == ASSUME NEW n \in Nat PROVE IsFiniteSet(1..n) /\ Cardinality(1..n) = n
<1>1. IsFiniteSet(1..n) /\ Cardinality(1..n) = IF 1 > n THEN 0 ELSE n - 1 + 1
    BY FS_Interval
<1> QED
    BY <1>1

\* A loop: N steps from base, each from one value of V to another; and a run of
\* it, the values before the first step and after each.
Loop(N, V, base, step) == N \in Nat /\ base \in V /\ step \in [V \X (1..N) -> V]
IsRunOf(f, N, V, base, step) ==
    f \in [0..N -> V] /\ f[0] = base /\ \A r \in 1..N : f[r] = step[<<f[r - 1], r>>]

LEMMA Recursion ==
    ASSUME NEW N, NEW V, NEW base, NEW step, Loop(N, V, base, step)
    PROVE  \E f : IsRunOf(f, N, V, base, step)
<1>0. N \in Nat /\ base \in V /\ step \in [V \X (1..N) -> V]
    BY DEF Loop
<1> DEFINE Run(f, n) == f \in [0..n -> V] /\ f[0] = base /\ \A r \in 1..n : f[r] = step[<<f[r - 1], r>>]
           T == {n \in 0..N : \E f : Run(f, n)}
<1>1. 0 \in T
    <2> DEFINE f == [r \in 0..0 |-> base]
    <2>1. Run(f, 0)
        BY <1>0
    <2> HIDE DEF Run, f
    <2> QED
        BY <1>0, <2>1
<1>2. ASSUME NEW n \in 1..N, n - 1 \in T PROVE n \in T
    <2>1. PICK f : Run(f, n - 1)
        BY <1>2
    <2>2. n \in Nat /\ n - 1 \in 0..(n - 1) /\ n - 1 \in Nat
        OBVIOUS
    <2>3. f[n - 1] \in V
        BY <2>1, <2>2
    <2> DEFINE v == step[<<f[n - 1], n>>]
               g == [r \in 0..n |-> IF r = n THEN v ELSE f[r]]
    <2>4. v \in V
        BY <1>0, <2>3
    <2> HIDE DEF v
    <2>5. \A r \in 0..n : r # n => r \in 0..(n - 1)
        OBVIOUS
    <2>6. g \in [0..n -> V]
        BY <2>1, <2>4, <2>5
    <2>7. g[n] = v /\ \A r \in 0..(n - 1) : g[r] = f[r]
        OBVIOUS
    <2> HIDE DEF g
    <2>8. g[0] = base
        BY <2>1, <2>2, <2>7
    <2>9. ASSUME NEW r \in 1..n PROVE g[r] = step[<<g[r - 1], r>>]
        <3>1. r - 1 \in 0..(n - 1) /\ (r # n => r \in 1..(n - 1) /\ r \in 0..(n - 1))
            OBVIOUS
        <3>2. g[r - 1] = f[r - 1]
            BY <2>7, <3>1
        <3>3. CASE r = n
            BY <2>7, <3>2, <3>3 DEF v
        <3>4. CASE r # n
            BY <2>1, <2>7, <3>1, <3>2, <3>4
        <3> QED
            BY <3>3, <3>4
    <2>10. Run(g, n)
        BY <2>6, <2>8, <2>9
    <2> HIDE DEF Run
    <2> QED
        BY <2>10
<1>3. N \in T
    <2> HIDE DEF T
    <2>1. \A r \in 0..N : r \in T
        BY <1>0, <1>1, <1>2, Climb
    <2> QED
        BY <1>0, <2>1
<1> QED
    BY <1>3 DEF IsRunOf

\* A strict order in which what is not below is above what the lower is above:
\* that of a number that items have, or of several, the first before the others.
Ranks(R, n) ==
    /\ \A i \in 1..n : <<i, i>> \notin R
    /\ \A i, j \in 1..n : <<i, j>> \in R => <<j, i>> \notin R
    /\ \A i, j, k \in 1..n : <<i, j>> \in R /\ <<k, j>> \notin R => <<i, k>> \in R

\* The first of the best of a list's items.
LEMMA FirstBest ==
    ASSUME NEW n \in Nat, NEW R, Ranks(R, n), NEW set \in SUBSET (1..n), set # {}
    PROVE  \E i \in set : \A j \in set : <<j, i>> \notin R /\ (j < i => <<i, j>> \in R)
<1> DEFINE Over(i, j) == <<i, j>> \in R
           Best(s, i) == \A j \in s : ~Over(j, i) /\ (j < i => Over(i, j))
           First(k) == {i \in set : i <= k}
           Good(k) == First(k) = {} \/ \E i \in First(k) : Best(First(k), i)
           K == {k \in 0..n : Good(k)}
<1>1. \A i, j, k \in 1..n : ~Over(i, i) /\ (Over(i, j) => ~Over(j, i)) /\ (Over(i, j) /\ ~Over(k, j) => Over(i, k))
    BY DEF Ranks
<1> HIDE DEF Over
<1>2. 0 \in K
    <2>1. \A i \in set : ~(i <= 0)
        OBVIOUS
    <2>2. First(0) = {}
        BY <2>1
    <2> QED
        BY <2>2
<1>3. ASSUME NEW k \in 1..n, k - 1 \in K PROVE k \in K
    <2>1. Good(k - 1)
        BY <1>3
    <2>2. CASE k \notin set
        <3>1. \A i \in set : i <= k <=> i <= k - 1
            BY <2>2
        <3>2. First(k) = First(k - 1)
            BY <3>1
        <3> HIDE DEF First
        <3>3. Good(k)
            BY <2>1, <3>2
        <3> QED
            BY <3>3
    <2>3. CASE k \in set
        <3>1. First(k) = First(k - 1) \cup {k} /\ (\A i \in First(k - 1) : i < k /\ i \in 1..n) /\ k \in 1..n
            <4>1. \A i \in set : (i <= k <=> i <= k - 1 \/ i = k) /\ (i <= k - 1 => i < k)
                BY <2>3
            <4> QED
                BY <2>3, <4>1
        <3> HIDE DEF First
        <3>2. CASE First(k - 1) = {}
            <4>1. Best(First(k), k)
                BY <1>1, <3>1, <3>2
            <4>2. k \in First(k)
                BY <3>1
            <4> HIDE DEF Best
            <4>3. Good(k)
                BY <4>1, <4>2
            <4> QED
                BY <4>3
        <3>3. CASE First(k - 1) # {}
            <4>1. PICK m \in First(k - 1) : Best(First(k - 1), m)
                BY <2>1, <3>3
            <4>2. m < k /\ m \in 1..n
                BY <3>1
            <4>3. CASE Over(k, m)
                <5>1. \A j \in First(k - 1) : Over(k, j) /\ ~Over(j, k)
                    BY <1>1, <3>1, <4>1, <4>2, <4>3
                <5>2. Best(First(k), k) /\ k \in First(k)
                    BY <1>1, <3>1, <5>1
                <5> HIDE DEF Best
                <5>3. Good(k)
                    BY <5>2
                <5> QED
                    BY <5>3
            <4>4. CASE ~Over(k, m)
                <5>1. Best(First(k), m) /\ m \in First(k)
                    BY <3>1, <4>1, <4>2, <4>4
                <5> HIDE DEF Best
                <5>2. Good(k)
                    BY <5>1
                <5> QED
                    BY <5>2
            <4> QED
                BY <4>3, <4>4
        <3> QED
            BY <3>2, <3>3
    <2> QED
        BY <2>2, <2>3
<1>4. Good(n)
    <2> HIDE DEF K
    <2>1. \A k \in 0..n : k \in K
        BY <1>2, <1>3, Climb
    <2>2. n \in K
        BY <2>1
    <2> QED
        BY <2>2 DEF K
<1>5. First(n) = set
    <2>1. \A i \in set : i <= n
        OBVIOUS
    <2> QED
        BY <2>1
<1>6. \E i \in set : Best(set, i)
    BY <1>4, <1>5
<1> QED
    BY <1>6 DEF Over

\* Ranked by how many items come before it, ties by place, each item of a list
\* has a place of its own and every place is taken.
Before(R, n, i) == {j \in 1..n : <<j, i>> \in R \/ (j < i /\ <<i, j>> \notin R)}

LEMMA PlacesAre ==
    ASSUME NEW n \in Nat, NEW R, Ranks(R, n)
    PROVE  /\ \A i \in 1..n : Cardinality(Before(R, n, i)) \in 0..(n - 1)
           /\ \A i, k \in 1..n : Cardinality(Before(R, n, i)) = Cardinality(Before(R, n, k)) => i = k
           /\ \A r \in 0..(n - 1) : \E i \in 1..n : Cardinality(Before(R, n, i)) = r
<1> DEFINE D == 1..n
           B(i) == Before(R, n, i)
<1>1. IsFiniteSet(D) /\ Cardinality(D) = n
    BY FirstNaturals
<1>2. ASSUME NEW i \in D PROVE IsFiniteSet(B(i)) /\ Cardinality(B(i)) \in Nat /\ i \notin B(i) /\ B(i) \subseteq D
    <2>1. B(i) \subseteq D /\ i \notin B(i)
        BY DEF Before, Ranks
    <2> QED
        BY <1>1, <2>1, FS_Subset, FS_CardinalityType
<1>3. ASSUME NEW i \in D PROVE Cardinality(B(i)) \in 0..(n - 1)
    <2>1. B(i) \subseteq D \ {i}
        BY <1>2
    <2>2. IsFiniteSet(D \ {i}) /\ Cardinality(D \ {i}) = n - 1
        BY <1>1, FS_RemoveElement
    <2>3. Cardinality(B(i)) <= n - 1
        BY <2>1, <2>2, FS_Subset
    <2> QED
        BY <1>2, <2>3
<1>4. ASSUME NEW i \in D, NEW k \in D, i \in B(k) PROVE Cardinality(B(i)) < Cardinality(B(k))
    <2>1. B(i) \subseteq B(k)
        BY <1>4 DEF Before, Ranks
    <2>2. B(i) # B(k)
        BY <1>2, <1>4
    <2> HIDE DEF B
    <2>3. Cardinality(B(i)) <= Cardinality(B(k)) /\ Cardinality(B(i)) # Cardinality(B(k))
        BY <1>2, <2>1, <2>2, FS_Subset
    <2> QED
        BY <1>2, <2>3
<1>5. ASSUME NEW i \in D, NEW k \in D, i # k PROVE i \in B(k) \/ k \in B(i)
    BY <1>5 DEF Before
<1>6. ASSUME NEW i \in D, NEW k \in D, Cardinality(B(i)) = Cardinality(B(k)) PROVE i = k
    <2> HIDE DEF B
    <2> SUFFICES ASSUME i # k PROVE FALSE
        OBVIOUS
    <2>1. Cardinality(B(i)) < Cardinality(B(k)) \/ Cardinality(B(k)) < Cardinality(B(i))
        BY <1>4, <1>5
    <2> QED
        BY <1>2, <1>6, <2>1
<1>7. \A r \in 0..(n - 1) : \E i \in D : Cardinality(B(i)) = r
    <2> DEFINE E == 0..(n - 1)
               f == [i \in D |-> Cardinality(B(i))]
    <2>1. IsFiniteSet(E) /\ Cardinality(E) = n
        BY FS_Interval
    <2> HIDE DEF B
    <2>2. f \in Injection(D, E)
        <3>1. f \in [D -> E]
            BY <1>3
        <3>2. \A i, k \in D : f[i] = f[k] => i = k
            BY <1>6
        <3> HIDE DEF f
        <3> QED
            BY <3>1, <3>2 DEF Injection, IsInjective
    <2>3. f \in Surjection(D, E)
        <3> HIDE DEF f, D, E
        <3> QED
            BY <1>1, <2>1, <2>2, FS_Injection
    <2>4. \A r \in E : \E i \in D : f[i] = r
        <3> HIDE DEF f
        <3> QED
            BY <2>3 DEF Surjection
    <2> QED
        BY <2>4
<1> QED
    BY <1>3, <1>6, <1>7

\* What Not leaves.
LEMMA NotIs ==
    ASSUME NEW S, NEW items \in Seq(S), NEW set
    PROVE  /\ Not(items, set) \in Seq(S) /\ Range(Not(items, set)) = Range(items) \ set
           /\ Len(Not(items, set)) <= Len(items)
<1> DEFINE Next(v, n) == IF items[n] \in set THEN v ELSE Append(v, items[n])
           Up(f, n) == f = [r \in 0..n |-> IF r = 0 THEN <<>> ELSE Next(f[r - 1], r)]
           T == {n \in 0..Len(items) : \E f : Up(f, n)}
<1>1. Len(items) \in Nat /\ \A r \in 1..Len(items) : items[r] \in S
    OBVIOUS
<1>2. 0 \in T
    <2> DEFINE f == [r \in 0..0 |-> <<>>]
    <2> HIDE DEF Next
    <2>1. Up(f, 0)
        OBVIOUS
    <2>2. \E ff : Up(ff, 0)
        BY <2>1
    <2> HIDE DEF Up
    <2> QED
        BY <1>1, <2>2
<1>3. ASSUME NEW n \in 1..Len(items), n - 1 \in T PROVE n \in T
    <2> HIDE DEF Next
    <2>1. PICK f : Up(f, n - 1)
        BY <1>3
    <2> DEFINE g == [r \in 0..n |-> IF r = 0 THEN <<>> ELSE Next(f[r - 1], r)]
    <2>2. ASSUME NEW r \in 1..n PROVE f[r - 1] = g[r - 1]
        <3>1. r - 1 \in 0..(n - 1) /\ r - 1 \in 0..n
            BY <1>1
        <3> QED
            BY <2>1, <3>1
    <2>3. \A r \in 0..n : g[r] = IF r = 0 THEN <<>> ELSE Next(f[r - 1], r)
        OBVIOUS
    <2> HIDE DEF g
    <2>4. \A r \in 0..n : g[r] = IF r = 0 THEN <<>> ELSE Next(g[r - 1], r)
        BY <2>2, <2>3
    <2>5. g = [r \in 0..n |-> g[r]]
        BY DEF g
    <2>6. Up(g, n)
        BY <2>4, <2>5
    <2> HIDE DEF Up
    <2> QED
        BY <1>1, <2>6
<1>4. PICK f : Up(f, Len(items))
    <2> HIDE DEF T
    <2>1. \A r \in 0..Len(items) : r \in T
        BY <1>1, <1>2, <1>3, Climb
    <2>2. Len(items) \in T
        BY <1>1, <2>1
    <2> QED
        BY <2>2 DEF T
<1> DEFINE left == CHOOSE ff : Up(ff, Len(items))
<1>5. Not(items, set) = left[Len(items)]
    BY DEF Not
<1>6. Up(left, Len(items))
    <2> HIDE DEF Up
    <2> QED
        BY <1>4
<1> HIDE DEF left
<1>7. left[0] = <<>> /\ \A n \in 1..Len(items) : left[n] = Next(left[n - 1], n)
    <2> HIDE DEF Next
    <2>1. \A n \in 0..Len(items) : left[n] = IF n = 0 THEN <<>> ELSE Next(left[n - 1], n)
        BY <1>6
    <2> QED
        BY <1>1, <2>1
<1> DEFINE Kept(n) == /\ left[n] \in Seq(S) /\ Len(left[n]) <= n
                      /\ \A x : (\E i \in 1..Len(left[n]) : left[n][i] = x)
                                <=> x \notin set /\ \E i \in 1..n : items[i] = x
           K == {n \in 0..Len(items) : Kept(n)}
<1>8. 0 \in K
    <2>1. left[0] = <<>> /\ ~(\E i \in 1..0 : items[i] = items[i])
        BY <1>7
    <2>2. left[0] \in Seq(S) /\ Len(left[0]) = 0 /\ Len(left[0]) <= 0
        BY <2>1
    <2>3. \A i : i \notin 1..0
        OBVIOUS
    <2>4. Kept(0)
        BY <2>2, <2>3
    <2> HIDE DEF Kept
    <2> QED
        BY <1>1, <2>4
<1>9. ASSUME NEW n \in 1..Len(items), n - 1 \in K PROVE n \in K
    <2>1. Kept(n - 1) /\ items[n] \in S
        BY <1>9
    <2>2. \A i : i \in 1..n <=> i \in 1..(n - 1) \/ i = n
        OBVIOUS
    <2>3. CASE items[n] \in set
        <3> DEFINE old == left[n - 1]
        <3>1. left[n] = old
            BY <1>7, <2>3
        <3>2. old \in Seq(S) /\ \A x : (\E i \in 1..Len(old) : old[i] = x)
                                     <=> x \notin set /\ \E i \in 1..(n - 1) : items[i] = x
            BY <2>1
        <3> HIDE DEF old
        <3>3. \A x : (\E i \in 1..n : items[i] = x) <=> (\E i \in 1..(n - 1) : items[i] = x) \/ x = items[n]
            BY <2>2
        <3>4. \A x : x \notin set /\ (\E i \in 1..n : items[i] = x)
                    <=> x \notin set /\ \E i \in 1..(n - 1) : items[i] = x
            BY <2>3, <3>3
        <3>5. Len(left[n]) <= n
            BY <1>1, <2>1, <3>1 DEF old
        <3>6. Kept(n)
            BY <3>1, <3>2, <3>4, <3>5
        <3> QED
            BY <3>6
    <2>4. CASE items[n] \notin set
        <3> DEFINE old == left[n - 1]
        <3>1. left[n] = Append(old, items[n]) /\ old \in Seq(S)
            BY <1>7, <2>1, <2>4
        <3>2. \A x : (\E i \in 1..Len(old) : old[i] = x) <=> x \notin set /\ \E i \in 1..(n - 1) : items[i] = x
            BY <2>1
        <3> HIDE DEF old
        <3>3. left[n] \in Seq(S) /\ Len(old) \in Nat /\ Len(left[n]) = Len(old) + 1
            BY <2>1, <3>1
        <3>4. left[n][Len(old) + 1] = items[n] /\ \A i \in 1..Len(old) : left[n][i] = old[i]
            BY <2>1, <3>1
        <3>5. \A i : i \in 1..Len(left[n]) <=> i \in 1..Len(old) \/ i = Len(old) + 1
            BY <3>3
        <3>6. \A x : (\E i \in 1..Len(left[n]) : left[n][i] = x)
                    <=> (\E i \in 1..Len(old) : old[i] = x) \/ x = items[n]
            BY <3>4, <3>5
        <3>7. \A x : (\E i \in 1..n : items[i] = x) <=> (\E i \in 1..(n - 1) : items[i] = x) \/ x = items[n]
            BY <2>2
        <3>8. Len(left[n]) <= n
            BY <2>1, <3>3 DEF old
        <3>9. Kept(n)
            BY <2>4, <3>2, <3>3, <3>6, <3>7, <3>8
        <3> QED
            BY <3>9
    <2> QED
        BY <2>3, <2>4
<1>10. Kept(Len(items))
    <2> HIDE DEF K
    <2>1. \A r \in 0..Len(items) : r \in K
        BY <1>1, <1>8, <1>9, Climb
    <2>2. Len(items) \in K
        BY <1>1, <2>1
    <2> QED
        BY <2>2 DEF K
<1> DEFINE out == left[Len(items)]
<1>11. out \in Seq(S) /\ Len(out) <= Len(items) /\ \A x : (\E i \in 1..Len(out) : out[i] = x)
                                <=> x \notin set /\ \E i \in 1..Len(items) : items[i] = x
    BY <1>10
<1> HIDE DEF out
<1>12. DOMAIN out = 1..Len(out) /\ DOMAIN items = 1..Len(items)
    BY <1>11
<1>13. Range(out) = Range(items) \ set
    BY ONLY <1>11, <1>12 DEF Range
<1> QED
    BY <1>5, <1>11, <1>13 DEF out
=============================================================================
