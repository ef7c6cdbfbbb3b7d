------------------------ MODULE StaticAnalysis_proofs ------------------------
(***************************************************************************)
(* The queue of the LLM classifier, for any number of slices and workers   *)
(* and any cascade of models; the NVD cache of the dependency scan, for    *)
(* any manifests, CVEs, limits, concurrent scans and number of crashes;    *)
(* and the searches of the semantic engine, for any code graph, job and    *)
(* limits.                                                                 *)
(***************************************************************************)
EXTENDS ClassifierWorkers, DependencyScan, FlowSearch, Common_proofs

-----------------------------------------------------------------------------
(***************************************************************************)
(* The classifier's workers.                                               *)
(***************************************************************************)
Verdicts == [slice : Nat, how : Hows]

ClassTypes ==
    /\ phase \in {"workers", "drain", "over", "finished"}
    /\ taken \in Nat /\ taken <= Queued
    /\ hand \in [Workers -> Nat]
    /\ wpc \in [Workers -> {"loop", "call", "done"}]
    /\ DOMAIN untried = Workers /\ DOMAIN soft = Workers /\ DOMAIN hard = Workers
    /\ settled \in Seq(Verdicts)

\* Where a slice that left the queue is: with one worker, or settled, once.
Held ==
    /\ \A i, j \in 1..Len(settled) : settled[i].slice = settled[j].slice => i = j
    /\ \A v, w \in Workers : hand[v] = hand[w] /\ hand[v] # None => v = w
    /\ \A i \in 1..Len(settled), w \in Workers : settled[i].slice # hand[w]
    /\ \A s \in 1..taken : \/ \E i \in 1..Len(settled) : settled[i].slice = s
                           \/ \E w \in Workers : hand[w] = s
    /\ \A w \in Workers : hand[w] <= taken
    /\ \A i \in 1..Len(settled) : settled[i].slice > 0

\* None of them comes from the queue's rest, until the list is closed.
FromQueue == phase # "finished" => \A i \in 1..Len(settled) : settled[i].slice <= taken
WholeList == phase = "finished" =>
                \A s \in Slices : \E i \in 1..Len(settled) : settled[i].slice = s

\* The hand of a worker is full in a call alone, and workers end before the drain.
Stages ==
    /\ \A w \in Workers : hand[w] # None <=> wpc[w] = "call"
    /\ phase # "workers" => \A w \in Workers : wpc[w] = "done"
    /\ phase \in {"over", "finished"} => taken = Queued

\* Why a worker ended.
Ended == \A w \in Workers : wpc[w] = "done" => ~is_available(w) \/ taken >= Queued

\* A call skips only models its pool gave up on, and what a call loses has a
\* worker to blame: one with a dead pool and empty hands.
Untried == \A w \in Workers : wpc[w] = "call" => Cascade \ exhausted(w) \subseteq untried[w]
Losses  == {i \in DOMAIN settled : settled[i].how = "exhausted"}
Dead    == {w \in Workers : ~is_available(w) /\ wpc[w] # "call"}
Blamed  == Cardinality(Losses) <= Cardinality(Dead)

ClassInv == /\ ClassTypes /\ Held /\ FromQueue /\ WholeList /\ Stages
            /\ Ended /\ Untried /\ Blamed

LEMMA InitClass == Init => ClassInv
<1> SUFFICES ASSUME Init PROVE ClassInv
    OBVIOUS
<1>1. Queued \in Nat
    BY SizeAssumption DEF Queued
<1>2. ClassTypes
    BY <1>1 DEF Init, ClassTypes, None
<1>3. Len(settled) = 0 /\ DOMAIN settled = {} /\ taken = 0
    BY DEF Init
<1>4. Held /\ FromQueue /\ WholeList /\ Stages /\ Ended /\ Untried
    BY <1>1, <1>3 DEF Init, Held, FromQueue, WholeList, Stages, Ended, Untried, None
<1>5. Losses = {}
    BY <1>3 DEF Losses
<1>6. IsFiniteSet(Dead)
    BY WorkersAssumption, FS_Subset DEF Dead
<1>7. Blamed
    BY <1>5, <1>6, FS_EmptySet, FS_CardinalityType DEF Blamed
<1> QED
    BY <1>2, <1>4, <1>7 DEF ClassInv

\* One more entry at the end of the list.
LEMMA Appended ==
    ASSUME NEW l \in Seq(Verdicts), NEW i \in Nat, NEW how \in Hows,
           NEW t, t = Append(l, [slice |-> i, how |-> how])
    PROVE  /\ t \in Seq(Verdicts) /\ Len(t) = Len(l) + 1 /\ Len(l) \in Nat
           /\ \A k \in 1..Len(l) : t[k] = l[k]
           /\ t[Len(l) + 1].slice = i /\ t[Len(l) + 1].how = how
           /\ \A k \in 1..Len(t) : k \in 1..Len(l) \/ k = Len(l) + 1
<1>1. [slice |-> i, how |-> how] \in Verdicts
    BY DEF Verdicts
<1> QED
    BY <1>1

LEMMA SlicesAreNumbers ==
    ASSUME settled \in Seq(Verdicts)
    PROVE  Len(settled) \in Nat /\ \A i \in 1..Len(settled) : settled[i].slice \in Nat
<1>1. Len(settled) \in Nat /\ \A i \in 1..Len(settled) : settled[i] \in Verdicts
    OBVIOUS
<1> QED
    BY <1>1 DEF Verdicts

LEMMA AtEnd ==
    ASSUME NEW i \in Nat, NEW how \in Hows, settled \in Seq(Verdicts), Settle(i, how)
    PROVE  /\ settled' \in Seq(Verdicts) /\ Len(settled') = Len(settled) + 1
           /\ Len(settled) \in Nat
           /\ \A k \in 1..Len(settled) : settled'[k] = settled[k]
           /\ settled'[Len(settled) + 1].slice = i /\ settled'[Len(settled) + 1].how = how
           /\ \A k \in 1..Len(settled') : k \in 1..Len(settled) \/ k = Len(settled) + 1
    BY Appended DEF Settle

\* A slice goes from the queue to a worker.
LEMMA HeldTaken ==
    ASSUME ClassTypes, Held, FromQueue, NEW w \in Workers, phase # "finished",
           hand[w] = None, taken' = taken + 1, hand' = [hand EXCEPT ![w] = taken + 1],
           settled' = settled
    PROVE  Held'
<1>1. Len(settled) \in Nat /\ \A i \in 1..Len(settled) : settled[i].slice \in Nat
    BY SlicesAreNumbers DEF ClassTypes
<1>2. /\ taken \in Nat /\ hand'[w] = taken + 1
      /\ \A v \in Workers : hand[v] \in Nat /\ hand[v] <= taken
      /\ \A v \in Workers : v # w => hand'[v] = hand[v]
    BY DEF ClassTypes, Held
<1>3. \A i \in 1..Len(settled) : settled[i].slice <= taken
    BY DEF FromQueue
<1>4. \A i, j \in 1..Len(settled') : settled'[i].slice = settled'[j].slice => i = j
    BY DEF Held
<1>5. \A u, v \in Workers : hand'[u] = hand'[v] /\ hand'[u] # None => u = v
    BY <1>2 DEF Held
<1>6. \A i \in 1..Len(settled'), v \in Workers : settled'[i].slice # hand'[v]
    BY <1>1, <1>2, <1>3 DEF Held
<1>7. ASSUME NEW s \in 1..taken'
      PROVE  (\E i \in 1..Len(settled') : settled'[i].slice = s)
             \/ (\E v \in Workers : hand'[v] = s)
    <2>1. CASE s = taken + 1
        <3>1. hand'[w] = s
            BY <1>2, <2>1
        <3> QED
            BY <3>1, Zenon
    <2>2. CASE s # taken + 1
        <3>1. s \in 1..taken /\ s # None
            BY <1>2, <2>2 DEF None
        <3>2. \/ \E i \in 1..Len(settled) : settled[i].slice = s
              \/ \E v \in Workers : hand[v] = s
            BY <3>1 DEF Held
        <3>3. CASE \E i \in 1..Len(settled) : settled[i].slice = s
            BY <3>3
        <3>4. ASSUME NEW v \in Workers, hand[v] = s PROVE hand'[v] = s
            BY <1>2, <3>1, <3>4 DEF ClassTypes
        <3> QED
            BY <3>2, <3>3, <3>4, Zenon
    <2> QED
        BY <2>1, <2>2
<1>8. \A v \in Workers : hand'[v] <= taken'
    BY <1>2
<1>9. \A i \in 1..Len(settled') : settled'[i].slice > 0
    BY DEF Held
<1> QED
    BY <1>4, <1>5, <1>6, <1>7, <1>8, <1>9 DEF Held

\* A slice goes from the queue straight to the list.
LEMMA HeldSettled ==
    ASSUME ClassTypes, Held, FromQueue, phase # "finished", NEW how \in Hows,
           Settle(taken + 1, how), taken' = taken + 1, hand' = hand
    PROVE  Held' /\ settled' \in Seq(Verdicts)
           /\ \A i \in 1..Len(settled') : settled'[i].slice <= taken'
<1>1. Len(settled) \in Nat /\ \A i \in 1..Len(settled) : settled[i].slice \in Nat
    BY SlicesAreNumbers DEF ClassTypes
<1>2. /\ taken \in Nat /\ \A v \in Workers : hand[v] \in Nat /\ hand[v] <= taken
      /\ \A i \in 1..Len(settled) : settled[i].slice <= taken
    BY DEF ClassTypes, Held, FromQueue
<1> DEFINE k == Len(settled) + 1
<1>3. /\ settled' \in Seq(Verdicts) /\ Len(settled') = k
      /\ \A i \in 1..Len(settled) : settled'[i] = settled[i]
      /\ settled'[k].slice = taken + 1
      /\ \A i \in 1..Len(settled') : i \in 1..Len(settled) \/ i = k
    <2>1. settled \in Seq(Verdicts) /\ taken + 1 \in Nat
        BY <1>2 DEF ClassTypes
    <2> QED
        BY <2>1, AtEnd
<1>4. 1..Len(settled) \subseteq 1..Len(settled') /\ k \in 1..Len(settled')
    BY <1>1, <1>3
<1> HIDE DEF k
<1>5. \A i \in 1..Len(settled') : settled'[i].slice <= taken'
    BY <1>1, <1>2, <1>3
<1>6. \A i, j \in 1..Len(settled') : settled'[i].slice = settled'[j].slice => i = j
    BY <1>1, <1>2, <1>3 DEF Held
<1>7. \A u, v \in Workers : hand'[u] = hand'[v] /\ hand'[u] # None => u = v
    BY DEF Held
<1>8. \A i \in 1..Len(settled'), v \in Workers : settled'[i].slice # hand'[v]
    BY <1>1, <1>2, <1>3 DEF Held
<1>9. ASSUME NEW s \in 1..taken'
      PROVE  (\E i \in 1..Len(settled') : settled'[i].slice = s)
             \/ (\E v \in Workers : hand'[v] = s)
    <2>1. CASE s = taken + 1
        BY <1>3, <1>4, <2>1
    <2>2. CASE s # taken + 1
        <3>1. s \in 1..taken
            BY <1>2, <2>2
        <3>2. \/ \E i \in 1..Len(settled) : settled[i].slice = s
              \/ \E v \in Workers : hand[v] = s
            BY <3>1 DEF Held
        <3> QED
            BY <1>3, <1>4, <3>2
    <2> QED
        BY <2>1, <2>2
<1>10. \A v \in Workers : hand'[v] <= taken'
    BY <1>2
<1>11. \A i \in 1..Len(settled') : settled'[i].slice > 0
    BY <1>2, <1>3 DEF Held
<1> QED
    BY <1>3, <1>5, <1>6, <1>7, <1>8, <1>9, <1>10, <1>11 DEF Held

\* A worker's slice goes to the list.
LEMMA HeldReturned ==
    ASSUME ClassTypes, Held, FromQueue, phase # "finished", NEW how \in Hows,
           NEW w \in Workers, hand[w] # None,
           Settle(hand[w], how), taken' = taken, hand' = [hand EXCEPT ![w] = None]
    PROVE  Held' /\ settled' \in Seq(Verdicts)
           /\ \A i \in 1..Len(settled') : settled'[i].slice <= taken'
<1>1. Len(settled) \in Nat /\ \A i \in 1..Len(settled) : settled[i].slice \in Nat
    BY SlicesAreNumbers DEF ClassTypes
<1>2. /\ taken \in Nat /\ \A v \in Workers : hand[v] \in Nat /\ hand[v] <= taken
      /\ \A i \in 1..Len(settled) : settled[i].slice <= taken
      /\ hand'[w] = None /\ \A v \in Workers : v # w => hand'[v] = hand[v]
      /\ hand[w] > 0
    BY DEF ClassTypes, Held, FromQueue, None
<1> DEFINE k == Len(settled) + 1
<1>3. /\ settled' \in Seq(Verdicts) /\ Len(settled') = k
      /\ \A i \in 1..Len(settled) : settled'[i] = settled[i]
      /\ settled'[k].slice = hand[w]
      /\ \A i \in 1..Len(settled') : i \in 1..Len(settled) \/ i = k
    <2>1. settled \in Seq(Verdicts) /\ hand[w] \in Nat
        BY <1>2 DEF ClassTypes
    <2> QED
        BY <2>1, AtEnd
<1>4. 1..Len(settled) \subseteq 1..Len(settled') /\ k \in 1..Len(settled')
    BY <1>1, <1>3
<1> HIDE DEF k
<1>5. \A i \in 1..Len(settled') : settled'[i].slice <= taken'
    BY <1>1, <1>2, <1>3
<1>6. \A i, j \in 1..Len(settled') : settled'[i].slice = settled'[j].slice => i = j
    BY <1>1, <1>2, <1>3 DEF Held
<1>7. \A u, v \in Workers : hand'[u] = hand'[v] /\ hand'[u] # None => u = v
    BY <1>2 DEF Held
<1>8. \A i \in 1..Len(settled'), v \in Workers : settled'[i].slice # hand'[v]
    BY <1>1, <1>2, <1>3 DEF Held, None
<1>9. ASSUME NEW s \in 1..taken'
      PROVE  (\E i \in 1..Len(settled') : settled'[i].slice = s)
             \/ (\E v \in Workers : hand'[v] = s)
    <2>1. \/ \E i \in 1..Len(settled) : settled[i].slice = s
          \/ \E v \in Workers : hand[v] = s
        BY DEF Held
    <2> QED
        BY <1>2, <1>3, <1>4, <2>1
<1>10. \A v \in Workers : hand'[v] <= taken'
    BY <1>2 DEF None
<1>11. \A i \in 1..Len(settled') : settled'[i].slice > 0
    BY <1>2, <1>3 DEF Held
<1> QED
    BY <1>3, <1>5, <1>6, <1>7, <1>8, <1>9, <1>10, <1>11 DEF Held

\* The count of the losses: an entry of any other kind leaves it alone, one of this
\* kind adds one; and the blame only grows, but for a worker that pulls a slice.
LEMMA LossesCounted ==
    ASSUME settled \in Seq(Verdicts), NEW i \in Nat, NEW how \in Hows, Settle(i, how)
    PROVE  /\ how # "exhausted" => Losses' = Losses
           /\ how = "exhausted" => Cardinality(Losses') = Cardinality(Losses) + 1
           /\ Cardinality(Losses) \in Nat
<1> DEFINE k == Len(settled) + 1
<1>1. /\ settled' \in Seq(Verdicts) /\ Len(settled') = k /\ Len(settled) \in Nat
      /\ \A j \in 1..Len(settled) : settled'[j] = settled[j]
      /\ settled'[k].how = how
      /\ \A j \in 1..Len(settled') : j \in 1..Len(settled) \/ j = k
    BY AtEnd
<1>2. DOMAIN settled = 1..Len(settled) /\ DOMAIN settled' = 1..Len(settled')
    BY <1>1
<1>3. 1..Len(settled) \subseteq 1..Len(settled') /\ k \in 1..Len(settled')
      /\ k \notin 1..Len(settled)
    BY <1>1
<1> HIDE DEF k
<1>4. how # "exhausted" => Losses' = Losses
    BY <1>1, <1>2, <1>3 DEF Losses
<1>5. how = "exhausted" => Losses' = Losses \cup {k} /\ k \notin Losses
    BY <1>1, <1>2, <1>3 DEF Losses
<1>6. IsFiniteSet(Losses)
    <2>1. IsFiniteSet(1..Len(settled))
        BY <1>1, FS_Interval
    <2> QED
        BY <1>2, <2>1, FS_Subset DEF Losses
<1> QED
    BY <1>4, <1>5, <1>6, FS_AddElement, FS_CardinalityType

LEMMA BlameGrows ==
    ASSUME Blamed, Dead \subseteq Dead', Losses' = Losses, IsFiniteSet(Losses)
    PROVE  Blamed'
<1>1. IsFiniteSet(Dead')
    BY WorkersAssumption, FS_Subset DEF Dead
<1>2. IsFiniteSet(Dead) /\ Cardinality(Dead) <= Cardinality(Dead')
    BY <1>1, FS_Subset
<1>3. Cardinality(Dead) \in Nat /\ Cardinality(Dead') \in Nat /\ Cardinality(Losses) \in Nat
    BY <1>1, <1>2, FS_CardinalityType
<1> QED
    BY <1>2, <1>3 DEF Blamed

LEMMA LossesFinite == ClassTypes => IsFiniteSet(Losses)
<1> SUFFICES ASSUME ClassTypes PROVE IsFiniteSet(Losses)
    OBVIOUS
<1>1. settled \in Seq(Verdicts)
    BY DEF ClassTypes
<1>2. Len(settled) \in Nat /\ DOMAIN settled = 1..Len(settled)
    BY <1>1
<1>3. IsFiniteSet(1..Len(settled))
    BY <1>2, FS_Interval
<1> QED
    BY <1>2, <1>3, FS_Subset DEF Losses

LEMMA QueuedNat == Queued \in Nat /\ Queued <= N
    BY SizeAssumption DEF Queued

\* A worker that is not done is at work in the first phase.
LEMMA AtWork ==
    ASSUME Stages, phase \in {"workers", "drain", "over", "finished"},
           NEW w \in Workers, wpc[w] # "done"
    PROVE  phase = "workers"
    BY DEF Stages

\* Workers keep their pools' exhausted models, and all but one of them its place.
LEMMA PoolsUntouched ==
    ASSUME UNCHANGED <<soft, hard>>
    PROVE  \A w \in Workers : exhausted(w)' = exhausted(w) /\ (is_available(w)' <=> is_available(w))
    BY DEF exhausted, is_available

LEMMA TakeSliceKeeps ==
    ASSUME ClassInv, NEW w \in Workers, TakeSlice(w)
    PROVE  ClassInv'
<1>1. /\ wpc[w] = "loop" /\ taken < Queued /\ taken' = taken + 1
      /\ hand' = [hand EXCEPT ![w] = taken + 1]
      /\ untried' = [untried EXCEPT ![w] = Cascade \ exhausted(w)]
      /\ wpc' = [wpc EXCEPT ![w] = "call"]
      /\ phase' = phase /\ soft' = soft /\ hard' = hard /\ settled' = settled
    BY DEF TakeSlice, Pull
<1>2. is_available(w)
    BY DEF TakeSlice
<1>3. ClassTypes /\ Held /\ FromQueue /\ Stages /\ Ended /\ Untried /\ Blamed
    BY DEF ClassInv
<1>4. phase = "workers"
    BY <1>1, <1>3, AtWork DEF ClassTypes
<1>5. hand[w] = None
    BY <1>1, <1>3 DEF Stages
<1>6. /\ hand'[w] = taken + 1 /\ untried'[w] = Cascade \ exhausted(w) /\ wpc'[w] = "call"
      /\ \A v \in Workers : v # w => hand'[v] = hand[v] /\ untried'[v] = untried[v]
                                     /\ wpc'[v] = wpc[v]
      /\ taken + 1 \in Nat /\ taken + 1 # None
    BY <1>1, <1>3 DEF ClassTypes, None
<1>7. ClassTypes'
    BY <1>1, <1>3, <1>6, QueuedNat DEF ClassTypes
<1>8. Held'
    BY <1>1, <1>3, <1>4, <1>5, HeldTaken
<1>9. FromQueue'
    <2>1. \A i \in 1..Len(settled) : settled[i].slice <= taken /\ settled[i].slice \in Nat
        BY <1>3, <1>4, SlicesAreNumbers DEF FromQueue, ClassTypes
    <2> QED
        BY <1>1, <1>3, <2>1 DEF FromQueue, ClassTypes
<1>10. WholeList'
    BY <1>1, <1>4 DEF WholeList
<1>11. Stages'
    BY <1>1, <1>3, <1>4, <1>6 DEF Stages
<1>12. \A v \in Workers : exhausted(v)' = exhausted(v) /\ (is_available(v)' <=> is_available(v))
    BY <1>1, PoolsUntouched
<1>13. Ended'
    <2> SUFFICES ASSUME NEW v \in Workers, wpc'[v] = "done" PROVE ~is_available(v)'
        BY DEF Ended
    <2>1. v # w /\ wpc[v] = "done"
        BY <1>6
    <2>2. ~(taken >= Queued)
        BY <1>1, <1>3, QueuedNat DEF ClassTypes
    <2> QED
        BY <1>3, <1>12, <2>1, <2>2 DEF Ended
<1>14. Untried'
    BY <1>3, <1>6, <1>12 DEF Untried
<1>15. Dead \subseteq Dead'
    <2> SUFFICES ASSUME NEW v \in Dead PROVE v \in Dead'
        OBVIOUS
    <2>1. v \in Workers /\ ~is_available(v) /\ wpc[v] # "call"
        BY DEF Dead
    <2>2. v # w
        BY <1>2, <2>1
    <2>3. ~is_available(v)' /\ wpc'[v] # "call"
        BY <1>6, <1>12, <2>1, <2>2
    <2> QED
        BY <2>1, <2>3 DEF Dead
<1>16. Losses' = Losses
    BY <1>1 DEF Losses
<1>17. Blamed'
    BY <1>3, <1>15, <1>16, BlameGrows, LossesFinite
<1> QED
    BY <1>7, <1>8, <1>9, <1>10, <1>11, <1>13, <1>14, <1>17 DEF ClassInv

\* A slice that leaves the queue for the list, in a worker's loop or in the drain.
LEMMA StraightToList ==
    ASSUME ClassInv, taken < Queued, taken' = taken + 1, NEW how \in Hows, how # "exhausted",
           Settle(taken + 1, how), UNCHANGED <<phase, hand, wpc, untried, soft, hard>>,
           phase \in {"workers", "drain"}
    PROVE  ClassInv'
<1>1. ClassTypes /\ Held /\ FromQueue /\ Stages /\ Ended /\ Untried /\ Blamed
    BY DEF ClassInv
<1>2. Held' /\ settled' \in Seq(Verdicts) /\ \A i \in 1..Len(settled') : settled'[i].slice <= taken'
    BY <1>1, HeldSettled
<1>3. ClassTypes'
    BY <1>1, <1>2, QueuedNat DEF ClassTypes
<1>4. FromQueue' /\ WholeList'
    BY <1>2 DEF FromQueue, WholeList
<1>5. Stages'
    BY <1>1 DEF Stages
<1>6. \A v \in Workers : exhausted(v)' = exhausted(v) /\ (is_available(v)' <=> is_available(v))
    BY PoolsUntouched
<1>7. Ended'
    <2> SUFFICES ASSUME NEW v \in Workers, wpc[v] = "done" PROVE ~is_available(v)'
        BY DEF Ended
    <2>1. ~(taken >= Queued)
        BY <1>1, QueuedNat DEF ClassTypes
    <2> QED
        BY <1>1, <1>6, <2>1 DEF Ended
<1>8. Untried'
    BY <1>1, <1>6 DEF Untried
<1>9. Dead' = Dead
    BY <1>6 DEF Dead
<1>10. Losses' = Losses
    <2>1. taken + 1 \in Nat /\ settled \in Seq(Verdicts)
        BY <1>1 DEF ClassTypes
    <2> QED
        BY <2>1, LossesCounted
<1>11. Blamed'
    BY <1>1, <1>9, <1>10, BlameGrows, LossesFinite
<1> QED
    BY <1>2, <1>3, <1>4, <1>5, <1>7, <1>8, <1>11 DEF ClassInv

LEMMA TakeKnownKeeps ==
    ASSUME ClassInv, NEW w \in Workers, TakeKnownSlice(w)
    PROVE  ClassInv'
<1>1. PICK how \in {"unreadable"} \cup (IF cached[w] THEN {"llm"} ELSE {}) : Settle(taken + 1, how)
    BY DEF TakeKnownSlice
<1>2. how \in Hows /\ how # "exhausted"
    BY <1>1 DEF Hows
<1>3. phase = "workers"
    BY AtWork DEF TakeKnownSlice, ClassInv, ClassTypes
<1>4. /\ taken < Queued /\ taken' = taken + 1
      /\ UNCHANGED <<phase, hand, wpc, untried, soft, hard>>
    BY DEF TakeKnownSlice, pools
<1> QED
    BY <1>1, <1>2, <1>3, <1>4, StraightToList

LEMMA DrainKeeps == ASSUME ClassInv, DrainSlice PROVE ClassInv'
<1>1. "cap" \in Hows /\ "cap" # "exhausted"
    BY DEF Hows
<1>2. /\ phase = "drain" /\ taken < Queued /\ taken' = taken + 1 /\ Settle(taken + 1, "cap")
      /\ UNCHANGED <<phase, hand, wpc, untried, soft, hard>>
    BY DEF DrainSlice, pools
<1> QED
    BY <1>1, <1>2, StraightToList

LEMMA StopKeeps ==
    ASSUME ClassInv, NEW w \in Workers, StopWorker(w)
    PROVE  ClassInv'
<1>1. /\ wpc[w] = "loop" /\ wpc' = [wpc EXCEPT ![w] = "done"]
      /\ UNCHANGED <<phase, taken, hand, untried, soft, hard, settled>>
    BY DEF StopWorker, pools
<1>2. ~is_available(w) \/ taken >= Queued
    BY DEF StopWorker
<1>3. ClassTypes /\ Held /\ FromQueue /\ Stages /\ Ended /\ Untried /\ Blamed /\ WholeList
    BY DEF ClassInv
<1>4. wpc'[w] = "done" /\ \A v \in Workers : v # w => wpc'[v] = wpc[v]
    BY <1>1, <1>3 DEF ClassTypes
<1>5. ClassTypes'
    BY <1>1, <1>3 DEF ClassTypes
<1>6. Held' /\ FromQueue' /\ WholeList'
    BY <1>1, <1>3 DEF Held, FromQueue, WholeList
<1>7. Stages'
    BY <1>1, <1>3, <1>4 DEF Stages
<1>8. \A v \in Workers : exhausted(v)' = exhausted(v) /\ (is_available(v)' <=> is_available(v))
    BY <1>1, PoolsUntouched
<1>9. Ended'
    BY <1>1, <1>2, <1>3, <1>4, <1>8 DEF Ended
<1>10. Untried'
    BY <1>1, <1>3, <1>4, <1>8 DEF Untried
<1>11. Dead \subseteq Dead'
    BY <1>1, <1>4, <1>8 DEF Dead
<1>12. Losses' = Losses
    BY <1>1 DEF Losses
<1>13. Blamed'
    BY <1>3, <1>11, <1>12, BlameGrows, LossesFinite
<1> QED
    BY <1>5, <1>6, <1>7, <1>9, <1>10, <1>13 DEF ClassInv

\* A call ends with an answer, or with no model left.
LEMMA ReturnKeeps ==
    ASSUME ClassInv, NEW w \in Workers, wpc[w] = "call", NEW how \in Hows, Return(w, how),
           UNCHANGED <<soft, hard>>, how = "exhausted" => Candidates(w) = {}
    PROVE  ClassInv'
<1>1. /\ Settle(hand[w], how) /\ hand' = [hand EXCEPT ![w] = None]
      /\ wpc' = [wpc EXCEPT ![w] = "loop"] /\ untried' = [untried EXCEPT ![w] = {}]
      /\ UNCHANGED <<phase, taken>>
    BY DEF Return
<1>2. ClassTypes /\ Held /\ FromQueue /\ Stages /\ Ended /\ Untried /\ Blamed
    BY DEF ClassInv
<1>3. phase = "workers" /\ hand[w] # None
    BY <1>2, AtWork DEF ClassTypes, Stages
<1>4. /\ hand'[w] = None /\ wpc'[w] = "loop"
      /\ \A v \in Workers : v # w => hand'[v] = hand[v] /\ untried'[v] = untried[v]
                                     /\ wpc'[v] = wpc[v]
      /\ hand[w] \in Nat /\ settled \in Seq(Verdicts)
    BY <1>1, <1>2 DEF ClassTypes
<1>5. Held' /\ settled' \in Seq(Verdicts) /\ \A i \in 1..Len(settled') : settled'[i].slice <= taken'
    BY <1>1, <1>2, <1>3, HeldReturned
<1>6. ClassTypes'
    BY <1>1, <1>2, <1>5 DEF ClassTypes, None
<1>7. FromQueue' /\ WholeList'
    BY <1>1, <1>3, <1>5 DEF FromQueue, WholeList
<1>8. Stages'
    BY <1>1, <1>2, <1>3, <1>4 DEF Stages
<1>9. \A v \in Workers : exhausted(v)' = exhausted(v) /\ (is_available(v)' <=> is_available(v))
    BY PoolsUntouched
<1>10. Ended'
    BY <1>1, <1>2, <1>4, <1>9 DEF Ended
<1>11. Untried'
    BY <1>2, <1>4, <1>9 DEF Untried
<1>12. Dead \subseteq Dead'
    BY <1>4, <1>9 DEF Dead
<1>13. Blamed'
    <2>1. CASE how # "exhausted"
        <3>1. Losses' = Losses
            BY <1>1, <1>4, <2>1, LossesCounted
        <3> QED
            BY <1>2, <1>12, <3>1, BlameGrows, LossesFinite
    <2>2. CASE how = "exhausted"
        <3>1. Cardinality(Losses') = Cardinality(Losses) + 1 /\ Cardinality(Losses) \in Nat
            BY <1>1, <1>4, <2>2, LossesCounted
        <3>2. ~is_available(w)
            BY <1>2, <2>2 DEF Untried, Candidates, is_available
        <3>3. w \notin Dead /\ w \in Dead'
            BY <1>4, <1>9, <3>2 DEF Dead
        <3>4. IsFiniteSet(Dead) /\ IsFiniteSet(Dead')
            BY WorkersAssumption, FS_Subset DEF Dead
        <3>5. Cardinality(Dead \cup {w}) = Cardinality(Dead) + 1
            BY <3>3, <3>4, FS_AddElement
        <3>6. Dead \cup {w} \subseteq Dead'
            BY <1>12, <3>3
        <3>7. Cardinality(Dead \cup {w}) <= Cardinality(Dead')
            BY <3>4, <3>6, FS_Subset
        <3>8. Cardinality(Dead) \in Nat /\ Cardinality(Dead') \in Nat
            BY <3>4, FS_CardinalityType
        <3>9. Cardinality(Losses) <= Cardinality(Dead)
            BY <1>2 DEF Blamed
        <3>10. Cardinality(Losses') <= Cardinality(Dead')
            BY <3>1, <3>5, <3>7, <3>8, <3>9
        <3> QED
            BY <3>10 DEF Blamed
    <2> QED
        BY <2>1, <2>2
<1> QED
    BY <1>5, <1>6, <1>7, <1>8, <1>10, <1>11, <1>13 DEF ClassInv

\* A failed attempt: its model, with others or alone, is out of the pool and the call.
LEMMA GiveUpKeeps ==
    ASSUME ClassInv, NEW w \in Workers, wpc[w] = "call", NEW lost, NEW isDaily \in BOOLEAN,
           GiveUp(w, lost, isDaily), Turn(w) \in Cascade => Turn(w) \in lost
    PROVE  ClassInv'
<1>1. /\ untried' = [untried EXCEPT ![w] = untried[w] \ {Turn(w)}]
      /\ UNCHANGED <<phase, taken, hand, wpc, settled>>
    BY DEF GiveUp
<1>2. ClassTypes /\ Held /\ FromQueue /\ Stages /\ Ended /\ Untried /\ Blamed /\ WholeList
    BY DEF ClassInv
<1>3. \/ hard' = [hard EXCEPT ![w] = hard[w] \cup lost] /\ soft' = soft
      \/ soft' = [soft EXCEPT ![w] = soft[w] \cup lost] /\ hard' = hard
    BY DEF GiveUp
<1>4. DOMAIN soft = Workers /\ DOMAIN hard = Workers /\ DOMAIN untried = Workers
    BY <1>2 DEF ClassTypes
<1>5. /\ exhausted(w)' = exhausted(w) \cup lost
      /\ \A v \in Workers : v # w => exhausted(v)' = exhausted(v)
      /\ DOMAIN soft' = Workers /\ DOMAIN hard' = Workers
    BY <1>3, <1>4 DEF exhausted
<1>6. \A v \in Workers : is_available(v)' => is_available(v)
    BY <1>5 DEF is_available, Cascade
<1>7. /\ DOMAIN untried' = Workers /\ untried'[w] = untried[w] \ {Turn(w)}
      /\ \A v \in Workers : v # w => untried'[v] = untried[v]
    BY <1>1, <1>4
<1>8. ClassTypes'
    BY <1>1, <1>2, <1>5, <1>7 DEF ClassTypes
<1>9. Held' /\ FromQueue' /\ WholeList' /\ Stages'
    BY <1>1, <1>2 DEF Held, FromQueue, WholeList, Stages
<1>10. Ended'
    BY <1>1, <1>2, <1>6 DEF Ended
<1>11. Untried'
    <2> SUFFICES ASSUME NEW v \in Workers, wpc[v] = "call"
                 PROVE  Cascade \ exhausted(v)' \subseteq untried'[v]
        BY <1>1 DEF Untried, Cascade
    <2>1. Cascade \ exhausted(v) \subseteq untried[v]
        BY <1>2 DEF Untried
    <2> HIDE DEF Cascade
    <2> QED
        BY <1>5, <1>7, <2>1
<1>12. Dead \subseteq Dead'
    BY <1>1, <1>6 DEF Dead
<1>13. Losses' = Losses
    BY <1>1 DEF Losses
<1>14. Blamed'
    BY <1>2, <1>12, <1>13, BlameGrows, LossesFinite
<1> QED
    BY <1>8, <1>9, <1>10, <1>11, <1>14 DEF ClassInv

\* The part of a step that ends a phase and moves nothing else.
LEMMA PhaseKeeps ==
    ASSUME ClassInv, phase \in {"workers", "drain"}, phase' \in {"drain", "over"},
           UNCHANGED <<taken, hand, wpc, untried, soft, hard, settled>>,
           \A w \in Workers : wpc[w] = "done", phase' = "over" => taken = Queued
    PROVE  ClassInv'
<1>1. ClassTypes /\ Held /\ FromQueue /\ Stages /\ Ended /\ Untried /\ Blamed
    BY DEF ClassInv
<1>2. ClassTypes' /\ Held' /\ FromQueue' /\ WholeList'
    BY <1>1 DEF ClassTypes, Held, FromQueue, WholeList
<1>3. Stages'
    BY <1>1 DEF Stages
<1>4. \A v \in Workers : exhausted(v)' = exhausted(v) /\ (is_available(v)' <=> is_available(v))
    BY PoolsUntouched
<1>5. Ended' /\ Untried'
    BY <1>1, <1>4 DEF Ended, Untried
<1>6. Dead \subseteq Dead' /\ Losses' = Losses
    BY <1>4 DEF Dead, Losses
<1>7. Blamed'
    BY <1>1, <1>6, BlameGrows, LossesFinite
<1> QED
    BY <1>2, <1>3, <1>5, <1>7 DEF ClassInv

LEMMA JoinKeeps == ASSUME ClassInv, JoinWorkers PROVE ClassInv'
    BY PhaseKeeps DEF JoinWorkers, pools

LEMMA EndDrainKeeps == ASSUME ClassInv, EndDrain PROVE ClassInv'
<1>1. phase = "drain" /\ phase' = "over" /\ taken >= Queued
      /\ UNCHANGED <<taken, hand, wpc, untried, soft, hard, settled>>
    BY DEF EndDrain, pools
<1>2. taken = Queued
    BY <1>1, QueuedNat DEF ClassInv, ClassTypes
<1>3. \A w \in Workers : wpc[w] = "done"
    BY <1>1 DEF ClassInv, Stages
<1> QED
    BY <1>1, <1>2, <1>3, PhaseKeeps

\* A list of settled slices and the ones over budget after it.
LEMMA Closed ==
    ASSUME NEW l \in Seq(Verdicts), NEW q \in Nat, q <= N
    PROVE  LET more == [k \in 1..(N - q) |-> [slice |-> q + k, how |-> "cap"]]
               t == l \o more
           IN  /\ t \in Seq(Verdicts) /\ Len(t) = Len(l) + (N - q)
               /\ \A i \in 1..Len(l) : t[i] = l[i]
               /\ \A i \in 1..Len(t) : i > Len(l) =>
                     t[i].slice = q + (i - Len(l)) /\ t[i].how = "cap"
<1> DEFINE d == N - q
           more == [k \in 1..d |-> [slice |-> q + k, how |-> "cap"]]
<1>1. d \in Nat /\ Len(l) \in Nat
    BY SizeAssumption
<1> HIDE DEF d
<1>2. /\ more \in [1..d -> Verdicts]
      /\ \A k \in 1..d : more[k].slice = q + k /\ more[k].how = "cap"
    BY <1>1 DEF Verdicts, Hows
<1> HIDE DEF more
<1>3. more \in Seq(Verdicts)
    BY <1>1, <1>2
<1>4. Len(more) = d
    BY <1>1, <1>2, <1>3
<1>5. /\ l \o more \in Seq(Verdicts) /\ Len(l \o more) = Len(l) + d
      /\ \A i \in 1..Len(l) : (l \o more)[i] = l[i]
      /\ \A i \in 1..Len(l \o more) : i > Len(l) => (l \o more)[i] = more[i - Len(l)]
    BY <1>1, <1>3, <1>4
<1>6. ASSUME NEW i \in 1..Len(l \o more), i > Len(l)
      PROVE  (l \o more)[i].slice = q + (i - Len(l)) /\ (l \o more)[i].how = "cap"
    <2>1. i - Len(l) \in 1..d
        BY <1>1, <1>5, <1>6
    <2> QED
        BY <1>2, <1>5, <1>6, <2>1
<1>7. l \o [k \in 1..(N - q) |-> [slice |-> q + k, how |-> "cap"]] = l \o more
    BY DEF more, d
<1>8. d = N - q
    BY DEF d
<1> QED
    BY <1>5, <1>6, <1>7, <1>8

\* The slices over budget follow those of the queue, which are all settled by now.
LEMMA OverBudgetKeeps == ASSUME ClassInv, OverBudget PROVE ClassInv'
<1>1. ClassTypes /\ Held /\ FromQueue /\ Stages /\ Ended /\ Untried /\ Blamed
    BY DEF ClassInv
<1>2. /\ phase = "over" /\ phase' = "finished"
      /\ UNCHANGED <<taken, hand, wpc, untried, soft, hard>>
    BY DEF OverBudget, pools
<1> DEFINE n == Len(settled)
<1>3. settled \in Seq(Verdicts) /\ n \in Nat /\ Queued \in Nat /\ Queued <= N /\ N \in Nat
      /\ taken = Queued
    BY <1>1, <1>2, QueuedNat, SizeAssumption DEF ClassTypes, Stages
<1>4. settled' = settled \o [k \in 1..(N - Queued) |-> [slice |-> Queued + k, how |-> "cap"]]
    BY DEF OverBudget
<1>5. /\ settled' \in Seq(Verdicts) /\ Len(settled') = n + (N - Queued)
      /\ \A i \in 1..n : settled'[i] = settled[i]
      /\ \A i \in 1..Len(settled') : i > n =>
            settled'[i].slice = Queued + (i - n) /\ settled'[i].how = "cap"
    BY <1>3, <1>4, Closed
<1>6. \A i \in 1..n : /\ settled[i].slice <= Queued /\ settled[i].slice \in Nat
                      /\ settled[i].slice > 0
    BY <1>1, <1>2, <1>3, SlicesAreNumbers DEF FromQueue, Held
<1>7. \A i \in 1..Len(settled') : i \in 1..n \/ i > n
    BY <1>3, <1>5
<1>8. 1..n \subseteq 1..Len(settled')
    BY <1>3, <1>5
<1> HIDE DEF n
<1>9. \A w \in Workers : hand[w] = None /\ wpc[w] = "done"
    BY <1>1, <1>2 DEF Stages
<1>10. ClassTypes'
    BY <1>1, <1>2, <1>5 DEF ClassTypes
<1>11. Held'
    <2>1. ASSUME NEW i \in 1..Len(settled'), NEW j \in 1..Len(settled'),
                 settled'[i].slice = settled'[j].slice
          PROVE  i = j
        <3>1. CASE i \in 1..n /\ j \in 1..n
            BY <1>1, <1>5, <2>1, <3>1 DEF Held, n
        <3>2. CASE i \in 1..n /\ j > n
            BY <1>3, <1>5, <1>6, <2>1, <3>2
        <3>3. CASE i > n /\ j \in 1..n
            BY <1>3, <1>5, <1>6, <2>1, <3>3
        <3>4. CASE i > n /\ j > n
            BY <1>3, <1>5, <2>1, <3>4
        <3> QED
            BY <1>7, <3>1, <3>2, <3>3, <3>4
    <2>2. ASSUME NEW i \in 1..Len(settled') PROVE settled'[i].slice > 0
        BY <1>3, <1>5, <1>6, <1>7
    <2>3. \A i \in 1..Len(settled'), w \in Workers : settled'[i].slice # hand'[w]
        <3>1. ASSUME NEW i \in 1..Len(settled'), NEW w \in Workers
              PROVE  settled'[i].slice # hand'[w]
            <4>1. hand'[w] = 0
                BY <1>2, <1>9 DEF None
            <4> QED
                BY <2>2, <4>1
        <3> QED
            BY <3>1
    <2>4. \A v, w \in Workers : hand'[v] = hand'[w] /\ hand'[v] # None => v = w
        BY <1>2, <1>9
    <2>5. ASSUME NEW s \in 1..taken' PROVE \E i \in 1..Len(settled') : settled'[i].slice = s
        <3>1. s # None /\ s \in 1..taken
            BY <1>2 DEF None
        <3>2. PICK i \in 1..Len(settled) : settled[i].slice = s
            BY <1>1, <1>9, <3>1 DEF Held
        <3>3. i \in 1..n /\ i \in 1..Len(settled') /\ settled'[i].slice = s
            BY <1>5, <1>8, <3>2 DEF n
        <3> QED
            BY <3>3
    <2>6. \A w \in Workers : hand'[w] <= taken'
        BY <1>1, <1>2 DEF Held
    <2> QED
        BY <2>1, <2>2, <2>3, <2>4, <2>5, <2>6 DEF Held
<1>12. FromQueue' /\ Stages'
    BY <1>1, <1>2, <1>3 DEF FromQueue, Stages
<1>13. WholeList'
    <2> SUFFICES ASSUME NEW s \in Slices
                 PROVE  \E i \in 1..Len(settled') : settled'[i].slice = s
        BY DEF WholeList, Slices
    <2>1. s \in 1..N
        BY DEF Slices
    <2>2. CASE s <= Queued
        <3>1. s \in 1..taken'
            BY <1>2, <1>3, <2>1, <2>2
        <3>2. \A w \in Workers : hand'[w] # s
            BY <1>2, <1>9, <2>1 DEF None
        <3> QED
            BY <1>11, <3>1, <3>2 DEF Held
    <2>3. CASE s > Queued
        <3>1. n + (s - Queued) \in 1..Len(settled') /\ n + (s - Queued) > n
            BY <1>3, <1>5, <2>1, <2>3
        <3>2. settled'[n + (s - Queued)].slice = Queued + ((n + (s - Queued)) - n)
            BY <1>5, <3>1
        <3>3. Queued + ((n + (s - Queued)) - n) = s
            BY <1>3, <2>1
        <3> QED
            BY <3>1, <3>2, <3>3
    <2> QED
        BY <1>3, <2>1, <2>2, <2>3
<1>14. \A v \in Workers : exhausted(v)' = exhausted(v) /\ (is_available(v)' <=> is_available(v))
    BY <1>2, PoolsUntouched
<1>15. Ended' /\ Untried'
    BY <1>1, <1>2, <1>14 DEF Ended, Untried
<1>16. Dead \subseteq Dead'
    BY <1>2, <1>14 DEF Dead
<1>17. Losses' = Losses
    <2>1. DOMAIN settled = 1..n /\ DOMAIN settled' = 1..Len(settled')
        BY <1>3, <1>5 DEF n
    <2>2. \A i \in 1..Len(settled') : settled'[i].how = "exhausted" => i \in 1..n
        BY <1>5, <1>7
    <2> QED
        BY <1>5, <1>8, <2>1, <2>2 DEF Losses
<1>18. Blamed'
    BY <1>1, <1>16, <1>17, BlameGrows, LossesFinite
<1> QED
    BY <1>10, <1>11, <1>12, <1>13, <1>15, <1>18 DEF ClassInv

LEMMA WorkKeeps ==
    ASSUME ClassInv, NEW w \in Workers, Work(w)
    PROVE  ClassInv'
<1>1. CASE TakeSlice(w)
    BY <1>1, TakeSliceKeeps
<1>2. CASE TakeKnownSlice(w)
    BY <1>2, TakeKnownKeeps
<1>3. CASE StopWorker(w)
    BY <1>3, StopKeeps
<1>4. CASE ModelAnswers(w)
    <2>1. PICK how \in {"llm", "unreadable"} : Return(w, how)
        BY <1>4 DEF ModelAnswers
    <2>2. how \in Hows /\ how # "exhausted" /\ wpc[w] = "call" /\ UNCHANGED <<soft, hard>>
        BY <1>4, <2>1 DEF ModelAnswers, Hows
    <2> QED
        BY <2>1, <2>2, ReturnKeeps
<1>5. CASE RateLimited(w)
    <2>1. wpc[w] = "call" /\ GiveUp(w, {Turn(w)}, FALSE)
        BY <1>5 DEF RateLimited
    <2> QED
        BY <2>1, GiveUpKeeps
<1>6. CASE QuotaExceeded(w)
    <2>1. wpc[w] = "call" /\ GiveUp(w, {Turn(w)}, TRUE)
        BY <1>6 DEF QuotaExceeded
    <2> QED
        BY <2>1, GiveUpKeeps
<1>7. CASE ScrapingBlocked(w)
    <2> DEFINE lost == {m \in Cascade : ProviderOf[m] = ProviderOf[Turn(w)]}
    <2>1. wpc[w] = "call" /\ GiveUp(w, lost, FALSE)
        BY <1>7 DEF ScrapingBlocked
    <2>2. Turn(w) \in Cascade => Turn(w) \in lost
        OBVIOUS
    <2> HIDE DEF lost
    <2> QED
        BY <2>1, <2>2, GiveUpKeeps
<1>8. CASE CascadeEnds(w)
    <2>1. /\ wpc[w] = "call" /\ Candidates(w) = {} /\ Return(w, "exhausted")
          /\ UNCHANGED <<soft, hard>> /\ "exhausted" \in Hows
        BY <1>8 DEF CascadeEnds, Hows
    <2> QED
        BY <2>1, ReturnKeeps
<1> QED
    BY <1>1, <1>2, <1>3, <1>4, <1>5, <1>6, <1>7, <1>8 DEF Work

LEMMA NextKeepsClass == ClassInv /\ [Next]_vars => ClassInv'
<1> SUFFICES ASSUME ClassInv, [Next]_vars PROVE ClassInv'
    OBVIOUS
<1>1. ASSUME NEW w \in Workers, Work(w) PROVE ClassInv'
    BY <1>1, WorkKeeps
<1>2. CASE Main
    BY <1>2, JoinKeeps, DrainKeeps, EndDrainKeeps, OverBudgetKeeps DEF Main
<1>3. CASE UNCHANGED vars
    <2>1. /\ UNCHANGED <<phase, taken, hand, wpc, untried, soft, hard, settled>>
        BY <1>3 DEF vars
    <2>2. \A v \in Workers : exhausted(v)' = exhausted(v) /\ (is_available(v)' <=> is_available(v))
        BY <2>1, PoolsUntouched
    <2>3. ClassTypes' /\ Held' /\ FromQueue' /\ WholeList' /\ Stages'
        BY <2>1 DEF ClassInv, ClassTypes, Held, FromQueue, WholeList, Stages
    <2>4. Ended' /\ Untried'
        BY <2>1, <2>2 DEF ClassInv, Ended, Untried
    <2>5. Dead' = Dead /\ Losses' = Losses
        BY <2>1, <2>2 DEF Dead, Losses
    <2>6. Blamed'
        BY <2>5 DEF ClassInv, Blamed
    <2> QED
        BY <2>3, <2>4, <2>6 DEF ClassInv
<1> QED
    BY <1>1, <1>2, <1>3 DEF Next

LEMMA ClassInvariant == Spec => []ClassInv
<1>1. Init => ClassInv
    BY InitClass
<1>2. ClassInv /\ [Next]_vars => ClassInv'
    BY NextKeepsClass
<1> QED
    BY <1>1, <1>2, PTL DEF Spec

\* classify_slices loses no slice and settles none twice, however many workers die
\* and whatever their models answer.
THEOREM NoSliceLost == Spec => []EachSliceOnce
<1>1. ClassInv => EachSliceOnce
    <2> SUFFICES ASSUME ClassInv PROVE EachSliceOnce
        OBVIOUS
    <2>1. settled \in Seq(Verdicts)
        BY DEF ClassInv, ClassTypes
    <2>2. DOMAIN settled = 1..Len(settled)
        BY <2>1
    <2> QED
        BY <2>2 DEF ClassInv, Held, WholeList, EachSliceOnce
<1> QED
    BY <1>1, ClassInvariant, PTL

\* The static fallback takes a queued slice only when every worker's pool is dead.
THEOREM FallbackIsLast == Spec => []DrainedOnlyWhenDead
<1>1. ClassInv => DrainedOnlyWhenDead
    <2> SUFFICES ASSUME ClassInv, phase = "drain", taken < Queued, NEW w \in Workers
                 PROVE  ~is_available(w)
        BY DEF DrainedOnlyWhenDead
    <2>1. wpc[w] = "done"
        BY DEF ClassInv, Stages
    <2>2. ~(taken >= Queued)
        BY QueuedNat DEF ClassInv, ClassTypes
    <2> QED
        BY <2>1, <2>2 DEF ClassInv, Ended
<1> QED
    BY <1>1, ClassInvariant, PTL

\* A pool that dies takes at most one slice with it.
THEOREM LossesBounded == Spec => []OneLossPerWorker
<1>1. ClassInv => OneLossPerWorker
    <2> SUFFICES ASSUME ClassInv PROVE OneLossPerWorker
        OBVIOUS
    <2> DEFINE Gone == {w \in Workers : ~is_available(w)}
    <2>1. Dead \subseteq Gone /\ IsFiniteSet(Gone)
        BY WorkersAssumption, FS_Subset DEF Dead
    <2>2. IsFiniteSet(Dead) /\ Cardinality(Dead) <= Cardinality(Gone)
        BY <2>1, FS_Subset
    <2>3. IsFiniteSet(Losses)
        BY LossesFinite DEF ClassInv
    <2>4. Cardinality(Dead) \in Nat /\ Cardinality(Gone) \in Nat /\ Cardinality(Losses) \in Nat
        BY <2>1, <2>2, <2>3, FS_CardinalityType
    <2>5. Cardinality(Losses) <= Cardinality(Dead)
        BY DEF ClassInv, Blamed
    <2>6. Cardinality(Losses) <= Cardinality(Gone)
        BY <2>2, <2>4, <2>5
    <2> QED
        BY <2>6 DEF OneLossPerWorker, Losses
<1> QED
    BY <1>1, ClassInvariant, PTL

-----------------------------------------------------------------------------
(***************************************************************************)
(* The NVD cache spares every repeated question.                           *)
(***************************************************************************)
\* The answers that are not lost are in the cache, or in the file as long as the
\* process has not read it; those the last good write saved are in the file; and
\* a request is out only once the file was read.
CacheInv ==
    /\ depLooking \in [Scans -> Range(depLooking)]
    /\ nvdAnswered \subseteq Loaded
    /\ nvdKept \subseteq nvdFile
    /\ \A s \in Scans : depLooking[s] # NoAnswer => nvdLoaded

LEMMA InitCacheInv == DepInit => CacheInv
    BY DEF DepInit, CacheInv, Loaded, Range

\* What a lookup reads holds every answer that is not lost by the reading.
LEMMA LoadsIs ==
    ASSUME CacheInv, NEW cache, Loads(cache)
    PROVE  /\ nvdCache' = cache /\ nvdLoaded' = TRUE /\ Loaded' = cache
           /\ nvdAnswered' \subseteq cache
           /\ nvdKept' \subseteq nvdFile'
    BY DEF CacheInv, Loads, Loaded

LEMMA LookupKeepsCacheInv ==
    ASSUME CacheInv, NEW s \in Scans, CacheHit(s) \/ AskNvd(s)
    PROVE  CacheInv'
<1>1. PICK cache : Loads(cache)
    BY DEF CacheHit, AskNvd
<1>2. nvdLoaded' = TRUE /\ nvdAnswered' \subseteq Loaded' /\ nvdKept' \subseteq nvdFile'
    BY <1>1, LoadsIs
<1>3. depLooking' \in [Scans -> Range(depLooking)']
    BY DEF CacheInv, CacheHit, AskNvd, Range
<1> QED
    BY <1>2, <1>3 DEF CacheInv

\* An answer enters the cache and the history at once; the file has what the last
\* write put there, or nothing.
LEMMA ReplyKeepsCacheInv ==
    ASSUME CacheInv, NEW s \in Scans, NvdReply(s)
    PROVE  CacheInv'
<1>1. depLooking' \in [Scans -> Range(depLooking)'] /\ nvdLoaded = TRUE /\ nvdLoaded' = nvdLoaded
    BY DEF CacheInv, NvdReply, Range
<1>2. \A t \in Scans : depLooking'[t] # NoAnswer => nvdLoaded'
    BY <1>1
<1>3. nvdAnswered' \subseteq nvdCache'
    BY <1>1 DEF CacheInv, NvdReply, Loaded
<1>4. nvdKept' \subseteq nvdFile'
    BY <1>3 DEF CacheInv, NvdReply, Saves, Written
<1> QED
    BY <1>1, <1>2, <1>3, <1>4 DEF CacheInv, Loaded

\* A crash forgets the cache, and with it what the file does not have.
LEMMA CrashKeepsCacheInv == CacheInv /\ ProcessDies => CacheInv'
    BY DEF CacheInv, ProcessDies, Loaded, Range

\* A step that is not about the cache starts no request.
LEMMA OtherKeepsCacheInv ==
    ASSUME CacheInv, UNCHANGED nvdVars, NEW s \in Scans,
           depLooking' = depLooking \/ depLooking' = [depLooking EXCEPT ![s] = NoAnswer]
    PROVE  CacheInv'
    BY DEF CacheInv, nvdVars, Loaded, Range

LEMMA StepKeepsCacheInv == CacheInv /\ [DepNext]_depVars => CacheInv'
<1> SUFFICES ASSUME CacheInv, [DepNext]_depVars
             PROVE  CacheInv'
    OBVIOUS
<1>1. ASSUME NEW s \in Scans, StartScan(s) \/ (\E p \in DOMAIN depAsked[s] : AskOsv(s, p) \/ OsvReply(s, p))
      PROVE  CacheInv'
    <2>1. depLooking' = depLooking /\ UNCHANGED nvdVars
        BY <1>1 DEF StartScan, AskOsv, OsvReply
    <2> QED
        BY <2>1, OtherKeepsCacheInv
<1>2. ASSUME NEW s \in Scans, GatherOsv(s) \/ OsvTimeout(s) \/ Verdict(s)
      PROVE  CacheInv'
    <2>1. depLooking' = depLooking /\ UNCHANGED nvdVars
        BY <1>2 DEF GatherOsv, OsvTimeout, Verdict
    <2> QED
        BY <2>1, OtherKeepsCacheInv
<1>3. ASSUME NEW s \in Scans, EndNvd(s) \/ AnalysisTimeout(s)
      PROVE  CacheInv'
    <2>1. depLooking' = [depLooking EXCEPT ![s] = NoAnswer] /\ UNCHANGED nvdVars
        BY <1>3 DEF EndNvd, AnalysisTimeout
    <2> QED
        BY <2>1, OtherKeepsCacheInv
<1>4. ASSUME NEW s \in Scans, CacheHit(s) \/ AskNvd(s)
      PROVE  CacheInv'
    BY <1>4, LookupKeepsCacheInv
<1>5. ASSUME NEW s \in Scans, NvdReply(s)
      PROVE  CacheInv'
    BY <1>5, ReplyKeepsCacheInv
<1>6. CASE ProcessDies
    BY <1>6, CrashKeepsCacheInv
<1>7. CASE UNCHANGED depVars
    BY <1>7 DEF CacheInv, depVars, scanVars, nvdVars, Loaded, Range
<1> QED
    BY <1>1, <1>2, <1>3, <1>4, <1>5, <1>6, <1>7 DEF DepNext

\* Only a lookup sends a request, and only for what its cache lacks.
LEMMA AskedIsUnanswered ==
    ASSUME CacheInv, [DepNext]_depVars, NEW s \in Scans, depLooking'[s] \notin {NoAnswer, depLooking[s]}
    PROVE  depLooking'[s] \notin nvdAnswered'
<1>1. PICK t \in Scans : AskNvd(t)
    BY DEF CacheInv, DepNext, depVars, scanVars, StartScan, AskOsv, OsvReply, GatherOsv, OsvTimeout, CacheHit, NvdReply,
           EndNvd, AnalysisTimeout, Verdict, ProcessDies
<1>2. PICK cache : Head(depTodo[t]) \notin cache /\ Loads(cache)
    BY <1>1 DEF AskNvd
<1>3. nvdAnswered' \subseteq cache
    BY <1>2, LoadsIs
<1>4. depLooking'[s] = Head(depTodo[t])
    BY <1>1 DEF CacheInv, AskNvd
<1> QED
    BY <1>2, <1>3, <1>4

\* No scan asks NVD what it already told this or any other scan, in whatever
\* order scans overlap, time out, lose requests, fail to read or to write the
\* file and crash, unless the answer was lost as AnsweredOnce says
\* (nvd_client.py:48-73, 100-137).
THEOREM NeverAskedAgain == DepSpec => AnsweredOnce
<1>1. CacheInv /\ [DepNext]_depVars =>
        [\A s \in Scans : depLooking'[s] \notin {NoAnswer, depLooking[s]} => depLooking'[s] \notin nvdAnswered']_depVars
    BY AskedIsUnanswered
<1> QED
    BY InitCacheInv, StepKeepsCacheInv, <1>1, PTL DEF DepSpec, AnsweredOnce

-----------------------------------------------------------------------------
(***************************************************************************)
(* The searches of FlowSearch: what the graph and its paths are.           *)
(***************************************************************************)
Chosen == fgraph \in CodeGraphs /\ fjob \in Jobs

\* A path without repetition along the edges that the job follows.
IsPath(p) ==
    /\ p \in Seq(Nodes) /\ Len(p) > 0
    /\ \A i, j \in 1..Len(p) : p[i] = p[j] => i = j
    /\ \A i \in 1..Len(p) - 1 : p[i + 1] \in Range(Neighbors(p[i]))

Walks(s, n) == {p \in Seq(Nodes) : IsPath(p) /\ p[1] = s /\ Len(p) = n}

LEMMA GraphIs ==
    ASSUME Chosen
    PROVE  /\ Len(fgraph.nodes) \in Nat /\ Nodes = 1..Len(fgraph.nodes)
           /\ \A n : Neighbors(n) \in Seq(Nodes)
           /\ Sources \subseteq Nodes /\ Sinks \subseteq Nodes
<1>1. /\ fgraph.nodes \in Seq(Range(fgraph.nodes)) /\ fgraph.edges \in Seq(Range(fgraph.edges))
      /\ \A e \in Range(fgraph.edges) : e.to \in Nodes
    BY GraphAssumption DEF Chosen, Nodes
<1>2. Len(fgraph.nodes) \in Nat /\ Nodes = 1..Len(fgraph.nodes)
    BY <1>1 DEF Nodes
<1>3. ASSUME NEW n PROVE Neighbors(n) \in Seq(Nodes)
    <2> DEFINE E == Range(fgraph.edges)
               other == {e \in E : e.from # n \/ e.kind \notin Followed}
               out == Not(fgraph.edges, other)
    <2> HIDE DEF E, other
    <2>1. out \in Seq(E)
        BY <1>1, NotIs DEF E
    <2>2. Neighbors(n) = [i \in DOMAIN out |-> out[i].to]
        BY DEF Neighbors, E, other
    <2> HIDE DEF out
    <2>3. \A i \in 1..Len(out) : out[i].to \in Nodes
        BY <1>1, <2>1 DEF E
    <2>4. DOMAIN out = 1..Len(out) /\ Len(out) \in Nat
        BY <2>1
    <2>5. [i \in 1..Len(out) |-> out[i].to] \in Seq(Nodes)
        BY <2>3, <2>4
    <2> QED
        BY <2>2, <2>4, <2>5
<1>4. Sources \subseteq Nodes /\ Sinks \subseteq Nodes
    BY DEF Sources, Sinks
<1> QED
    BY <1>2, <1>3, <1>4

\* The places of a list that are asked for.
LEMMA InOrderIs ==
    ASSUME NEW S, NEW list \in Seq(S), NEW set \in SUBSET (1..Len(list))
    PROVE  InOrder(list, set) \in Seq(1..Len(list)) /\ Range(InOrder(list, set)) = set
<1> DEFINE D == 1..Len(list)
           places == [i \in D |-> i]
<1>1. Len(list) \in Nat /\ DOMAIN list = D
    OBVIOUS
<1>2. places \in Seq(D) /\ Range(places) = D
    BY <1>1 DEF Range
<1>3. InOrder(list, set) = Not(places, D \ set)
    BY <1>1 DEF InOrder
<1> HIDE DEF places
<1>4. Not(places, D \ set) \in Seq(D) /\ Range(Not(places, D \ set)) = D \ (D \ set)
    BY <1>2, NotIs
<1>5. D \ (D \ set) = set
    OBVIOUS
<1> QED
    BY <1>3, <1>4, <1>5

\* A path is one that is shorter by a node, and a neighbor of its last.
LEMMA LongerPath ==
    ASSUME Chosen, NEW p, IsPath(p), NEW n \in Nodes, n \notin Range(p), n \in Range(Neighbors(Last(p)))
    PROVE  /\ IsPath(Append(p, n)) /\ Len(Append(p, n)) = Len(p) + 1 /\ Append(p, n)[Len(p) + 1] = n
           /\ Last(Append(p, n)) = n /\ Append(p, n)[1] = p[1]
           /\ \A i \in 1..Len(p) : Append(p, n)[i] = p[i]
<1> DEFINE q == Append(p, n)
<1>1. p \in Seq(Nodes) /\ Len(p) \in Nat /\ Len(p) > 0 /\ DOMAIN p = 1..Len(p)
    BY DEF IsPath
<1>2. q \in Seq(Nodes) /\ Len(q) = Len(p) + 1 /\ q[Len(p) + 1] = n /\ \A i \in 1..Len(p) : q[i] = p[i]
    BY <1>1
<1> HIDE DEF q
<1>3. \A i \in 1..Len(p) : p[i] # n
    BY <1>1 DEF Range
<1>4. ASSUME NEW i \in 1..Len(q), NEW j \in 1..Len(q), q[i] = q[j] PROVE i = j
    <2>1. (i = Len(p) + 1 \/ i \in 1..Len(p)) /\ (j = Len(p) + 1 \/ j \in 1..Len(p))
        BY <1>1, <1>2
    <2>2. \A a, b \in 1..Len(p) : p[a] = p[b] => a = b
        BY DEF IsPath
    <2> QED
        BY <1>2, <1>3, <1>4, <2>1, <2>2
<1>5. ASSUME NEW i \in 1..Len(q) - 1 PROVE q[i + 1] \in Range(Neighbors(q[i]))
    <2>1. CASE i = Len(p)
        <3>1. q[i] = Last(p) /\ q[i + 1] = n
            BY <1>1, <1>2, <2>1 DEF Last
        <3> QED
            BY <3>1
    <2>2. CASE i # Len(p)
        <3>1. i \in 1..Len(p) - 1 /\ i \in 1..Len(p) /\ i + 1 \in 1..Len(p)
            <4>1. \A m \in Nat : \A k \in 1..m : k # m => k \in 1..m - 1 /\ k + 1 \in 1..m
                OBVIOUS
            <4>2. Len(q) - 1 = Len(p)
                BY <1>1, <1>2
            <4> QED
                BY ONLY <1>1, <2>2, <4>1, <4>2
        <3>2. p[i + 1] \in Range(Neighbors(p[i]))
            BY <3>1 DEF IsPath
        <3> QED
            BY <1>2, <3>1, <3>2
    <2> QED
        BY <2>1, <2>2
<1>6. IsPath(q)
    BY <1>1, <1>2, <1>4, <1>5 DEF IsPath
<1>7. Last(q) = n /\ q[1] = p[1]
    BY <1>1, <1>2 DEF Last
<1> QED
    BY <1>2, <1>6, <1>7 DEF q

LEMMA ShorterPath ==
    ASSUME Chosen, NEW p, IsPath(p), Len(p) > 1
    PROVE  \E f : /\ IsPath(f) /\ Len(f) = Len(p) - 1 /\ f[1] = p[1] /\ p = Append(f, p[Len(p)])
                  /\ p[Len(p)] \in Nodes /\ p[Len(p)] \notin Range(f) /\ p[Len(p)] \in Range(Neighbors(Last(f)))
<1> DEFINE n == Len(p)
           f == [i \in 1..(n - 1) |-> p[i]]
<1>1. p \in Seq(Nodes) /\ n \in Nat /\ n > 1 /\ \A i \in 1..n : p[i] \in Nodes
    BY DEF IsPath
<1>2. f \in Seq(Nodes) /\ Len(f) = n - 1 /\ DOMAIN f = 1..(n - 1) /\ \A i \in 1..(n - 1) : f[i] = p[i]
    BY <1>1
<1> HIDE DEF f
<1>3. \A i \in 1..(n - 1) : i \in 1..n
    BY <1>1
<1>4. IsPath(f)
    <2>1. \A i, j \in 1..(n - 1) : f[i] = f[j] => i = j
        BY <1>2, <1>3 DEF IsPath
    <2>2. ASSUME NEW i \in 1..Len(f) - 1 PROVE f[i + 1] \in Range(Neighbors(f[i]))
        <3>1. i \in 1..(n - 1) /\ i + 1 \in 1..(n - 1)
            BY <1>1, <1>2
        <3> QED
            BY <1>2, <3>1 DEF IsPath
    <2> QED
        BY <1>1, <1>2, <2>1, <2>2 DEF IsPath
<1>5. p = Append(f, p[n])
    BY <1>1, <1>2
<1>6. p[n] \notin Range(f)
    <2>1. \A i \in 1..(n - 1) : p[i] # p[n]
        BY <1>1, <1>3 DEF IsPath
    <2> QED
        BY <1>2, <2>1 DEF Range
<1>7. Last(f) = p[n - 1] /\ f[1] = p[1]
    BY <1>1, <1>2 DEF Last
<1>8. p[n] \in Range(Neighbors(p[n - 1]))
    <2>1. n - 1 \in 1..n - 1 /\ n - 1 + 1 = n
        BY <1>1
    <2> QED
        BY <2>1 DEF IsPath
<1> QED
    BY <1>1, <1>2, <1>4, <1>5, <1>6, <1>7, <1>8

\* What PathsFrom enumerates.
LEMMA PathsFromAre ==
    Chosen => \A s \in Nodes : \A p : p \in PathsFrom(s) <=> IsPath(p) /\ p[1] = s /\ Len(p) <= MaxDepth
<1> SUFFICES ASSUME Chosen, NEW s \in Nodes
             PROVE  \A p : p \in PathsFrom(s) <=> IsPath(p) /\ p[1] = s /\ Len(p) <= MaxDepth
    OBVIOUS
<1> DEFINE most == MaxDepth - 1
           V == SUBSET Seq(Nodes)
           base == {<<s>>}
           Longer(v) == {Append(pn[1], pn[2]) : pn \in {q \in v \X Nodes :
                           q[2] \notin Range(q[1]) /\ q[2] \in Range(Neighbors(Last(q[1])))}}
           step == [vr \in V \X (1..most) |-> Longer(vr[1])]
           Up(f) == f = [n \in 1..MaxDepth |-> IF n = 1 THEN base ELSE Longer(f[n - 1])]
<1>1. MaxDepth \in Nat /\ MaxDepth > 0 /\ most \in Nat
    BY LimitsAssumption
<1>2. \A v \in V : Longer(v) \in V
    OBVIOUS
<1>3. base \in V
    OBVIOUS
<1> HIDE DEF Longer, base, V
<1>4. Loop(most, V, base, step)
    <2>1. step \in [V \X (1..most) -> V]
        BY <1>2
    <2> QED
        BY <1>1, <1>3, <2>1 DEF Loop
<1>5. PICK r : r \in [0..most -> V] /\ r[0] = base /\ \A n \in 1..most : r[n] = Longer(r[n - 1])
    <2> HIDE DEF step
    <2>1. PICK r : IsRunOf(r, most, V, base, step)
        BY <1>4, Recursion
    <2>2. r \in [0..most -> V] /\ r[0] = base /\ \A n \in 1..most : r[n] = step[<<r[n - 1], n>>]
        BY <2>1 DEF IsRunOf
    <2>3. ASSUME NEW n \in 1..most PROVE r[n] = Longer(r[n - 1])
        <3>1. n - 1 \in 0..most
            BY <1>1
        <3>2. r[n - 1] \in V
            BY <2>2, <3>1
        <3>3. step[<<r[n - 1], n>>] = Longer(r[n - 1])
            BY <3>2 DEF step
        <3> QED
            BY <2>2, <3>3
    <2> QED
        BY <2>2, <2>3
<1> HIDE DEF step
<1>6. \E f : Up(f)
    <2> DEFINE f == [n \in 1..MaxDepth |-> r[n - 1]]
    <2>1. ASSUME NEW n \in 1..MaxDepth PROVE f[n] = IF n = 1 THEN base ELSE Longer(f[n - 1])
        <3>1. CASE n = 1
            BY <1>5, <3>1
        <3>2. CASE n # 1
            <4>1. n - 1 \in 1..most /\ n - 1 \in 1..MaxDepth
                BY <1>1, <3>2
            <4>2. f[n] = r[n - 1] /\ f[n - 1] = r[n - 1 - 1]
                BY <4>1
            <4> QED
                BY <1>5, <3>2, <4>1, <4>2
        <3> QED
            BY <3>1, <3>2
    <2>2. f = [n \in 1..MaxDepth |-> f[n]]
        OBVIOUS
    <2> HIDE DEF f
    <2>3. Up(f)
        BY <2>1, <2>2
    <2> QED
        BY <2>3
<1> DEFINE paths == CHOOSE f : Up(f)
<1>7. PathsFrom(s) = UNION {paths[n] : n \in 1..MaxDepth}
    BY DEF PathsFrom, Longer, base
<1>8. Up(paths)
    <2> HIDE DEF Up
    <2> QED
        BY <1>6
<1> HIDE DEF paths
<1>9. paths[1] = base /\ \A n \in 2..MaxDepth : paths[n] = Longer(paths[n - 1])
    <2>1. \A n \in 1..MaxDepth : paths[n] = IF n = 1 THEN base ELSE Longer(paths[n - 1])
        BY <1>8
    <2>2. 1 \in 1..MaxDepth /\ \A n \in 2..MaxDepth : n \in 1..MaxDepth /\ n # 1
        BY <1>1
    <2> QED
        BY <2>1, <2>2
<1> HIDE DEF Up
<1> DEFINE K == {k \in 0..most : paths[k + 1] = Walks(s, k + 1)}
<1>10. 0 \in K
    <2>1. ASSUME NEW p \in Walks(s, 1) PROVE p \in base
        <3>1. p = <<s>>
            BY <2>1 DEF Walks
        <3> QED
            BY <3>1 DEF base
    <2>2. <<s>> \in Walks(s, 1)
        <3> DEFINE p == <<s>>
        <3>1. p \in Seq(Nodes) /\ Len(p) = 1 /\ p[1] = s
            OBVIOUS
        <3> HIDE DEF p
        <3>2. IsPath(p)
            <4>1. \A i, j \in 1..Len(p) : i = j
                BY <3>1
            <4>2. 1..Len(p) - 1 = {}
                BY <3>1
            <4> QED
                BY <3>1, <4>1, <4>2 DEF IsPath
        <3>3. p \in Walks(s, 1)
            BY <3>1, <3>2 DEF Walks
        <3> QED
            BY <3>3 DEF p
    <2>3. base = Walks(s, 1)
        BY <2>1, <2>2 DEF base
    <2> QED
        BY <1>1, <1>9, <2>3
<1>11. ASSUME NEW k \in 1..most, k - 1 \in K PROVE k \in K
    <2> DEFINE n == k + 1
               W == Walks(s, k)
    <2>1. n \in 2..MaxDepth /\ n - 1 = k /\ k \in Nat /\ k > 0
        BY <1>1
    <2>2. paths[k] = W /\ paths[n] = Longer(W)
        BY <1>9, <1>11, <2>1
    <2>3. ASSUME NEW p \in Longer(W) PROVE p \in Walks(s, n)
        <3>1. PICK q \in W, x \in Nodes : p = Append(q, x) /\ x \notin Range(q) /\ x \in Range(Neighbors(Last(q)))
            BY <2>3 DEF Longer
        <3>2. q \in Seq(Nodes) /\ IsPath(q) /\ q[1] = s /\ Len(q) = k
            BY DEF Walks
        <3>3. IsPath(p) /\ Len(p) = n /\ p[1] = s
            BY <3>1, <3>2, LongerPath
        <3> QED
            BY <3>3 DEF Walks, IsPath
    <2>4. ASSUME NEW p \in Walks(s, n) PROVE p \in Longer(W)
        <3>1. IsPath(p) /\ p[1] = s /\ Len(p) = n /\ n > 1
            BY <2>1 DEF Walks
        <3>2. PICK f : /\ IsPath(f) /\ Len(f) = Len(p) - 1 /\ f[1] = p[1] /\ p = Append(f, p[Len(p)])
                       /\ p[Len(p)] \in Nodes /\ p[Len(p)] \notin Range(f) /\ p[Len(p)] \in Range(Neighbors(Last(f)))
            BY <3>1, ShorterPath
        <3> DEFINE x == p[Len(p)]
        <3>3. f \in W
            BY <2>1, <3>1, <3>2 DEF Walks, IsPath
        <3>4. p = Append(f, x) /\ x \in Nodes /\ x \notin Range(f) /\ x \in Range(Neighbors(Last(f)))
            BY <3>2
        <3> HIDE DEF x, W
        <3>5. <<f, x>> \in {q \in W \X Nodes : q[2] \notin Range(q[1]) /\ q[2] \in Range(Neighbors(Last(q[1])))}
            BY <3>3, <3>4
        <3>6. p = Append(<<f, x>>[1], <<f, x>>[2])
            BY <3>4
        <3> QED
            BY <3>5, <3>6 DEF Longer
    <2>5. Longer(W) = Walks(s, n)
        BY <2>3, <2>4
    <2> QED
        BY <2>2, <2>5
<1>12. \A k \in 0..most : k \in K
    <2> HIDE DEF K
    <2> QED
        BY <1>1, <1>10, <1>11, Climb
<1>13. \A n \in 1..MaxDepth : paths[n] = Walks(s, n)
    <2>1. ASSUME NEW n \in 1..MaxDepth PROVE n - 1 \in 0..most /\ n - 1 + 1 = n
        BY <1>1
    <2> QED
        BY <1>12, <2>1
<1>14. \A p : p \in PathsFrom(s) <=> \E n \in 1..MaxDepth : p \in Walks(s, n)
    BY <1>7, <1>13
<1>15. ASSUME NEW p PROVE (\E n \in 1..MaxDepth : p \in Walks(s, n)) <=> IsPath(p) /\ p[1] = s /\ Len(p) <= MaxDepth
    <2>1. ASSUME IsPath(p), Len(p) <= MaxDepth PROVE Len(p) \in 1..MaxDepth /\ p \in Seq(Nodes)
        BY <1>1, <2>1 DEF IsPath
    <2>2. \A n \in 1..MaxDepth : n <= MaxDepth
        BY <1>1
    <2> QED
        BY <2>1, <2>2 DEF Walks
<1> QED
    BY <1>14, <1>15

-----------------------------------------------------------------------------
\* The last file known on a path.
Carries(p, f) ==
    \/ f = Unknown /\ \A i \in 1..Len(p) : Node(p[i]).file = Unknown
    \/ \E i \in 1..Len(p) : /\ Node(p[i]).file = f /\ f # Unknown
                            /\ \A k \in i + 1..Len(p) : Node(p[k]).file = Unknown

\* One more file boundary, where the file of the path so far is f.
Boundary(f, n) == f # Unknown /\ Node(n).file # Unknown /\ Node(n).file # f

Bounds(p) == {i \in 1..Len(p) : Node(p[i]).file # Unknown /\ \E j \in 1..Len(p) :
                /\ j < i /\ Node(p[j]).file \notin {Unknown, Node(p[i]).file}
                /\ \A k \in 1..Len(p) : j < k /\ k < i => Node(p[k]).file = Unknown}

LEMMA HopsIs ==
    ASSUME NEW S, NEW p \in Seq(S)
    PROVE  Hops(p) = Cardinality(Bounds(p)) /\ IsFiniteSet(Bounds(p)) /\ Hops(p) \in Nat
<1>1. Len(p) \in Nat /\ DOMAIN p = 1..Len(p)
    OBVIOUS
<1>2. IsFiniteSet(1..Len(p))
    BY <1>1, FirstNaturals
<1>3. IsFiniteSet(Bounds(p))
    BY <1>2, FS_Subset DEF Bounds
<1>4. Hops(p) = Cardinality(Bounds(p))
    <2> DEFINE F(i) == Node(p[i]).file
               H == {i \in 1..Len(p) : F(i) # Unknown /\ \E j \in 1..i - 1 :
                       F(j) \notin {Unknown, F(i)} /\ \A k \in j + 1..i - 1 : F(k) = Unknown}
               B == {i \in 1..Len(p) : F(i) # Unknown /\ \E j \in 1..Len(p) :
                       /\ j < i /\ F(j) \notin {Unknown, F(i)}
                       /\ \A k \in 1..Len(p) : j < k /\ k < i => F(k) = Unknown}
    <2>1. Hops(p) = Cardinality(H) /\ Bounds(p) = B
        BY <1>1 DEF Hops, Bounds
    <2> HIDE DEF F
    <2>2. \A i \in 1..Len(p) : \A j : (j \in 1..i - 1 <=> j \in 1..Len(p) /\ j < i)
             /\ \A k : j \in 1..Len(p) => (k \in j + 1..i - 1 <=> k \in 1..Len(p) /\ j < k /\ k < i)
        BY <1>1
    <2>3. H = B
        <3>1. ASSUME NEW i \in 1..Len(p), NEW j \in 1..Len(p)
              PROVE  (\A k \in j + 1..i - 1 : F(k) = Unknown)
                      <=> \A k \in 1..Len(p) : j < k /\ k < i => F(k) = Unknown
            BY <2>2
        <3>2. ASSUME NEW i \in 1..Len(p) PROVE i \in H <=> i \in B
            BY <2>2, <3>1
        <3> QED
            BY <3>2
    <2> QED
        BY <2>1, <2>3
<1> QED
    BY <1>3, <1>4, FS_CardinalityType

\* What a node more makes of the count of file boundaries, and of the file.
LEMMA HopsOfLonger ==
    ASSUME NEW S, NEW p \in Seq(S), NEW n \in S, NEW f, Carries(p, f)
    PROVE  /\ Hops(Append(p, n)) = Hops(p) + (IF Boundary(f, n) THEN 1 ELSE 0)
           /\ Carries(Append(p, n), IF Node(n).file = Unknown THEN f ELSE Node(n).file)
<1> DEFINE q == Append(p, n)
           m == Len(p)
           F(i) == Node(q[i]).file
           G(i) == Node(p[i]).file
<1>1. m \in Nat /\ q \in Seq(S) /\ Len(q) = m + 1 /\ q[m + 1] = n /\ \A i \in 1..m : q[i] = p[i]
    OBVIOUS
<1> HIDE DEF q, m
<1>2. F(m + 1) = Node(n).file /\ \A i \in 1..m : F(i) = G(i)
    BY <1>1
<1>3. /\ Bounds(p) = {i \in 1..m : G(i) # Unknown /\ \E j \in 1..m : j < i
                        /\ G(j) \notin {Unknown, G(i)} /\ \A k \in 1..m : j < k /\ k < i => G(k) = Unknown}
      /\ Bounds(q) = {i \in 1..m + 1 : F(i) # Unknown /\ \E j \in 1..m + 1 : j < i
                        /\ F(j) \notin {Unknown, F(i)} /\ \A k \in 1..m + 1 : j < k /\ k < i => F(k) = Unknown}
    BY <1>1 DEF Bounds, m
<1>4. \/ f = Unknown /\ \A i \in 1..m : G(i) = Unknown
      \/ \E i \in 1..m : G(i) = f /\ f # Unknown /\ \A k \in i + 1..m : G(k) = Unknown
    BY DEF Carries, m
<1> HIDE DEF F, G
<1>6. ASSUME NEW i \in 1..m PROVE i \in Bounds(q) <=> i \in Bounds(p)
    <2>1. i \in 1..m + 1 /\ \A j : (j \in 1..m + 1 /\ j < i <=> j \in 1..m /\ j < i)
        BY <1>1
    <2> QED
        BY <1>2, <1>3, <2>1
<1>7. m + 1 \in Bounds(q) <=> Boundary(f, n)
    <2>1. m + 1 \in Bounds(q) <=> F(m + 1) # Unknown /\ \E j \in 1..m : 
               G(j) \notin {Unknown, F(m + 1)} /\ \A k \in j + 1..m : G(k) = Unknown
        <3>1. m + 1 \in 1..m + 1 /\ \A j : (j \in 1..m + 1 /\ j < m + 1 <=> j \in 1..m)
            BY <1>1
        <3>2. \A j \in 1..m : \A k : k \in j + 1..m <=> k \in 1..m /\ j < k
            BY <1>1
        <3>3. m + 1 \in Bounds(q) <=> F(m + 1) # Unknown /\ \E j \in 1..m + 1 : j < m + 1 /\ F(j) \notin {Unknown, F(m + 1)}
                   /\ \A k \in 1..m + 1 : j < k /\ k < m + 1 => F(k) = Unknown
            BY <1>3, <3>1
        <3>4. \A j \in 1..m : (\A k \in 1..m + 1 : j < k /\ k < m + 1 => F(k) = Unknown) <=> \A k \in j + 1..m : G(k) = Unknown
            BY <1>2, <3>1, <3>2
        <3> QED
            BY ONLY <1>2, <3>1, <3>3, <3>4
    <2>2. CASE f = Unknown /\ \A i \in 1..m : G(i) = Unknown
        <3>1. m + 1 \notin Bounds(q)
            BY <2>1, <2>2
        <3> QED
            BY <2>2, <3>1 DEF Boundary
    <2>3. CASE \E i \in 1..m : G(i) = f /\ f # Unknown /\ \A k \in i + 1..m : G(k) = Unknown
        <3>1. PICK i \in 1..m : G(i) = f /\ f # Unknown /\ \A k \in i + 1..m : G(k) = Unknown
            BY <2>3
        <3>2. ASSUME NEW j \in 1..m, G(j) # Unknown, \A k \in j + 1..m : G(k) = Unknown PROVE j = i
            <4>1. j < i => i \in j + 1..m
                BY <1>1
            <4>2. i < j => j \in i + 1..m
                BY <1>1
            <4> QED
                BY <1>1, <3>1, <3>2, <4>1, <4>2
        <3>3. (\E j \in 1..m : G(j) \notin {Unknown, F(m + 1)} /\ \A k \in j + 1..m : G(k) = Unknown) <=> f # F(m + 1)
            BY <3>1, <3>2
        <3>4. Boundary(f, n) <=> f # Unknown /\ F(m + 1) # Unknown /\ F(m + 1) # f
            BY <1>2 DEF Boundary
        <3> QED
            BY <2>1, <3>1, <3>3, <3>4
    <2> QED
        BY <1>4, <2>2, <2>3
<1>8. Bounds(p) \subseteq 1..m /\ Bounds(q) \subseteq 1..m + 1 /\ m + 1 \notin 1..m /\ \A i \in 1..m + 1 : i = m + 1 \/ i \in 1..m
    <2>1. Bounds(p) \subseteq 1..m /\ Bounds(q) \subseteq 1..m + 1
        BY ONLY <1>3
    <2>2. m + 1 \notin 1..m /\ \A i \in 1..m + 1 : i = m + 1 \/ i \in 1..m
        BY <1>1
    <2> QED
        BY <2>1, <2>2
<1>9. Bounds(q) = IF Boundary(f, n) THEN Bounds(p) \cup {m + 1} ELSE Bounds(p)
    <2>1. ASSUME NEW i PROVE i \in Bounds(q) <=> i \in Bounds(p) \/ (i = m + 1 /\ Boundary(f, n))
        BY <1>6, <1>7, <1>8
    <2> QED
        BY <2>1
<1>10. Hops(q) = Cardinality(Bounds(q)) /\ Hops(p) = Cardinality(Bounds(p)) /\ IsFiniteSet(Bounds(p)) /\ Hops(p) \in Nat
    BY <1>1, HopsIs
<1>11. Cardinality(Bounds(p) \cup {m + 1}) = Cardinality(Bounds(p)) + 1
    <2>1. m + 1 \notin Bounds(p)
        BY <1>8
    <2> QED
        BY <1>10, <2>1, FS_AddElement
<1>12. Hops(q) = Hops(p) + (IF Boundary(f, n) THEN 1 ELSE 0)
    BY <1>9, <1>10, <1>11
<1>13. Carries(q, IF Node(n).file = Unknown THEN f ELSE Node(n).file)
    <2> DEFINE g == IF F(m + 1) = Unknown THEN f ELSE F(m + 1)
    <2>1. \/ g = Unknown /\ \A i \in 1..m + 1 : F(i) = Unknown
          \/ \E i \in 1..m + 1 : F(i) = g /\ g # Unknown /\ \A k \in i + 1..m + 1 : F(k) = Unknown
        <3>1. CASE F(m + 1) # Unknown
            <4>1. m + 1 \in 1..m + 1 /\ \A k : k \notin m + 1 + 1..m + 1
                BY <1>1
            <4> QED
                BY <3>1, <4>1
        <3>2. CASE F(m + 1) = Unknown /\ f = Unknown /\ \A i \in 1..m : G(i) = Unknown
            BY <1>2, <1>8, <3>2
        <3>3. CASE F(m + 1) = Unknown /\ \E i \in 1..m : G(i) = f /\ f # Unknown /\ \A k \in i + 1..m : G(k) = Unknown
            <4>1. PICK i \in 1..m : G(i) = f /\ f # Unknown /\ \A k \in i + 1..m : G(k) = Unknown
                BY <3>3
            <4>2. \A k \in i + 1..m + 1 : k = m + 1 \/ (k \in i + 1..m /\ k \in 1..m)
                BY <1>1
            <4>3. \A k \in i + 1..m + 1 : F(k) = Unknown
                BY <1>2, <3>3, <4>1, <4>2
            <4>4. i \in 1..m + 1 /\ F(i) = g /\ g # Unknown
                BY <1>1, <1>2, <3>3, <4>1
            <4> HIDE DEF g
            <4> QED
                BY <4>3, <4>4
        <3> QED
            BY <1>4, <3>1, <3>2, <3>3
    <2>2. g = IF Node(n).file = Unknown THEN f ELSE Node(n).file
        BY <1>2
    <2> HIDE DEF g
    <2>3. Carries(q, g)
        BY <1>1, <2>1 DEF Carries, F
    <2> QED
        BY <2>2, <2>3
<1> QED
    BY <1>12, <1>13 DEF q

-----------------------------------------------------------------------------
(***************************************************************************)
(* The breadth-first search from s: its queue q, its memory seen, the      *)
(* paths it recorded, and d, the length of the path on which a node was    *)
(* first reached with a count of file boundaries.                          *)
(***************************************************************************)
States  == Nodes \X Nat
Entries == [path : Seq(Nodes), hops : Nat, file : {Node(n).file : n \in Nodes} \cup {Unknown}]

\* An entry of the queue is a path within the bounds, with its count and file.
Sound(e, s) ==
    /\ IsPath(e.path) /\ e.path[1] = s /\ Carries(e.path, e.file)
    /\ IF Discovery THEN e.hops = Hops(e.path) /\ e.hops <= MaxHops ELSE e.hops = 0 /\ Len(e.path) <= MaxDepth
    /\ \A m \in 1..Len(e.path) - 1 : e.path[m] \notin Sinks

\* n was reached, with a count of at most h, on a path of at most m nodes.
Met(n, h, m, seen, d) == \E k \in 0..h : <<n, k>> \in seen /\ d[<<n, k>>] <= m

Traced(e, seen, d) ==
    \A m \in 1..Len(e.path) : e.path[m] \notin Sinks => Met(e.path[m], e.hops, m, seen, d)

Waits(x, q, d) == \E i \in 1..Len(q) : Last(q[i].path) = x[1] /\ q[i].hops = x[2] /\ Len(q[i].path) = d[x]

\* The sink b was recorded, or is in the queue on a path of at most m nodes.
Caught(b, m, q, paths) ==
    \/ \E i \in 1..Len(q) : Last(q[i].path) = b /\ Len(q[i].path) <= m
    \/ \E i \in 1..Len(paths) : Last(paths[i]) = b

\* What a step costs, a node of unknown file counted as a file of its own.
Cost(a, b) == IF Discovery /\ Node(a).file # Node(b).file THEN 1 ELSE 0

Tried(x, b, q, seen, paths, d) ==
    WithinBudget(x[2] + Cost(x[1], b)) =>
        IF b \in Sinks THEN Caught(b, d[x] + 1, q, paths) ELSE Met(b, x[2] + Cost(x[1], b), d[x] + 1, seen, d)

Explored(x, q, seen, paths, d) == \A b \in Range(Neighbors(x[1])) : Tried(x, b, q, seen, paths, d)

\* What the search recorded.
IsFlow(p) == IsPath(p) /\ Len(p) <= MaxDepth /\ Last(p) \in Sinks /\ WithinBudget(Hops(p))

\* The paths in the queue have m nodes, then m + 1.
InLevels(q, m) ==
    \A i \in 1..Len(q) : Len(q[i].path) \in {m, m + 1} /\ \A j \in 1..i : Len(q[j].path) <= Len(q[i].path)

Steady(s, q, seen, paths, d, m) ==
    /\ q \in Seq(Entries) /\ seen \subseteq States /\ d \in [States -> Nat] /\ m \in Nat
    /\ \A i \in 1..Len(q) : Sound(q[i], s) /\ Traced(q[i], seen, d)
    /\ paths \in Seq(Seq(Nodes)) /\ \A i \in 1..Len(paths) : IsFlow(paths[i]) /\ paths[i][1] = s
    /\ InLevels(q, m) /\ \A x \in seen : x[1] \notin Sinks => d[x] <= m + 1
    /\ s \notin Sinks => Met(s, 0, 1, seen, d)

\* The nodes it still has to go on from: x0 was, but for the neighbors not in B.
Owed(x, seen, d) == x \in seen /\ x[1] \notin Sinks /\ d[x] < MaxDepth
Working(q, seen, paths, d, m, x0, B) ==
    \A x \in States : Owed(x, seen, d) =>
        \/ Waits(x, q, d) \/ Explored(x, q, seen, paths, d)
        \/ x = x0 /\ d[x] = m /\ \A b \in B : Tried(x, b, q, seen, paths, d)

Search(s, q, seen, paths) ==
    \E d, m : /\ Steady(s, q, seen, paths, d, m)
              /\ \A x \in States : Owed(x, seen, d) => Waits(x, q, d) \/ Explored(x, q, seen, paths, d)

-----------------------------------------------------------------------------
\* A path that goes on.
LEMMA GoingOn ==
    ASSUME Chosen, NEW s, NEW e \in Entries, Sound(e, s), Last(e.path) \notin Sinks, ~Longest(e),
           NEW n \in Range(Neighbors(Last(e.path))), n \notin Range(e.path),
           WithinBudget(HopTo(e, n))
    PROVE  LET f == [path |-> Append(e.path, n), hops |-> HopTo(e, n),
                     file |-> IF Node(n).file = Unknown THEN e.file ELSE Node(n).file]
           IN  f \in Entries /\ Sound(f, s)
<1> DEFINE p == Append(e.path, n)
           h == HopTo(e, n)
           g == IF Node(n).file = Unknown THEN e.file ELSE Node(n).file
           f == [path |-> p, hops |-> h, file |-> g]
<1>1. n \in Nodes
    BY GraphIs DEF Range
<1>2. e.path \in Seq(Nodes) /\ e.hops \in Nat /\ e.file \in {Node(x).file : x \in Nodes} \cup {Unknown}
    BY DEF Entries
<1>3. IsPath(e.path) /\ e.path[1] = s /\ Carries(e.path, e.file)
    BY DEF Sound
<1>4. /\ IsPath(p) /\ Len(p) = Len(e.path) + 1 /\ p[1] = s
      /\ \A i \in 1..Len(e.path) : p[i] = e.path[i]
    BY <1>1, <1>3, LongerPath
<1>5. Hops(p) = Hops(e.path) + (IF Boundary(e.file, n) THEN 1 ELSE 0) /\ Carries(p, g)
    BY <1>1, <1>2, <1>3, HopsOfLonger
<1>6. h = IF Discovery /\ Boundary(e.file, n) THEN e.hops + 1 ELSE e.hops
    BY DEF HopTo, Boundary
<1>7. h \in Nat /\ g \in {Node(x).file : x \in Nodes} \cup {Unknown} /\ p \in Seq(Nodes) /\ Len(e.path) \in Nat
    BY <1>1, <1>2, <1>6
<1>8. f \in Entries
    BY <1>7 DEF Entries
<1>9. IF Discovery THEN h = Hops(p) /\ h <= MaxHops ELSE h = 0 /\ Len(p) <= MaxDepth
    <2>1. CASE Discovery
        <3>1. e.hops = Hops(e.path) /\ h <= MaxHops
            BY <2>1 DEF Sound, WithinBudget
        <3> HIDE DEF p, h
        <3>2. h = Hops(p)
            BY ONLY <1>5, <1>6, <1>2, <2>1, <3>1
        <3> QED
            BY <2>1, <3>1, <3>2
    <2>2. CASE ~Discovery
        BY <1>4, <1>6, <1>7, <2>2, LimitsAssumption DEF Sound, Longest
    <2> QED
        BY <2>1, <2>2
<1>10. \A m \in 1..Len(p) - 1 : p[m] \notin Sinks
    <2>1. \A m \in 1..Len(p) - 1 : m \in 1..Len(e.path) /\ (m # Len(e.path) => m \in 1..Len(e.path) - 1)
        BY <1>4, <1>7
    <2>2. e.path[Len(e.path)] \notin Sinks
        BY DEF Last
    <2> QED
        BY <1>4, <2>1, <2>2 DEF Sound
<1> HIDE DEF p, h, g
<1>11. f.path = p /\ f.hops = h /\ f.file = g
    OBVIOUS
<1> HIDE DEF f
<1>12. Sound(f, s)
    BY <1>4, <1>5, <1>9, <1>10, <1>11 DEF Sound
<1> QED
    BY <1>8, <1>12 DEF f, g, h, p

\* What a step may cost its count.
LEMMA HopToIs ==
    ASSUME Chosen, NEW s, NEW e \in Entries, Sound(e, s), NEW n \in Nodes
    PROVE  /\ HopTo(e, n) \in Nat /\ HopTo(e, n) >= e.hops
           /\ HopTo(e, n) <= e.hops + Cost(Last(e.path), n)
<1>1. e.hops \in Nat /\ e.path \in Seq(Nodes) /\ Len(e.path) > 0 /\ Carries(e.path, e.file)
    BY DEF Entries, Sound, IsPath
<1>2. HopTo(e, n) = IF Discovery /\ Boundary(e.file, n) THEN e.hops + 1 ELSE e.hops
    BY DEF HopTo, Boundary
<1>3. ASSUME Boundary(e.file, n), Node(Last(e.path)).file = Node(n).file PROVE FALSE
    <2> DEFINE m == Len(e.path)
    <2>1. m \in 1..m /\ Node(e.path[m]).file = Node(n).file /\ Node(n).file # Unknown /\ Node(n).file # e.file
        BY <1>1, <1>3 DEF Boundary, Last
    <2>2. PICK i \in 1..m : Node(e.path[i]).file = e.file /\ \A k \in i + 1..m : Node(e.path[k]).file = Unknown
        BY <1>1, <2>1 DEF Carries
    <2>3. i = m \/ m \in i + 1..m
        BY <1>1
    <2> QED
        BY <2>1, <2>2, <2>3
<1> QED
    BY <1>1, <1>2, <1>3 DEF Cost

\* The search from s while it goes on from the end of e, past the neighbors in B.
Going(s, e, q, seen, paths, d, B) ==
    /\ Traced(e, seen, d) /\ Steady(s, q, seen, paths, d, Len(e.path))
    /\ Working(q, seen, paths, d, Len(e.path), <<Last(e.path), e.hops>>, B)

Goer(s, e) == e \in Entries /\ Sound(e, s) /\ Last(e.path) \notin Sinks /\ ~Longest(e)

\* A neighbor is skipped only if the search reaches it all the same.
LEMMA Skipped ==
    ASSUME Chosen, NEW s, NEW e, Goer(s, e), NEW q, NEW seen, NEW paths, NEW d, NEW B,
           Going(s, e, q, seen, paths, d, B), NEW b \in Range(Neighbors(Last(e.path))),
           \/ b \in Range(e.path)
           \/ Discovery /\ HopTo(e, b) > MaxHops
           \/ <<b, HopTo(e, b)>> \in seen /\ b \notin Sinks
    PROVE  Going(s, e, q, seen, paths, d, B \cup {b})
<1> DEFINE m == Len(e.path)
           x == <<Last(e.path), e.hops>>
<1>1. e \in Entries /\ Sound(e, s) /\ Last(e.path) \notin Sinks /\ b \in Nodes
    BY GraphIs DEF Goer, Range
<1>2. /\ HopTo(e, b) \in Nat /\ HopTo(e, b) >= e.hops /\ HopTo(e, b) <= e.hops + Cost(Last(e.path), b)
      /\ e.hops \in Nat /\ e.path \in Seq(Nodes) /\ m \in Nat /\ m > 0
    BY <1>1, HopToIs DEF Entries, Sound, IsPath
<1>3. Cost(Last(e.path), b) \in {0, 1}
    BY DEF Cost
<1>4. Steady(s, q, seen, paths, d, m) /\ Traced(e, seen, d) /\ Working(q, seen, paths, d, m, x, B)
    BY DEF Going
<1>5. ASSUME d[x] = m PROVE Tried(x, b, q, seen, paths, d)
    <2> DEFINE top == e.hops + Cost(Last(e.path), b)
    <2>1. x[1] = Last(e.path) /\ x[2] = e.hops /\ top \in Nat
        BY <1>2, <1>3
    <2>2. CASE b \in Range(e.path)
        <3>1. PICK i \in 1..m : b = e.path[i]
            BY <1>2, <2>2 DEF Range
        <3>2. b \notin Sinks
            <4>1. i = m \/ i \in 1..m - 1
                BY <1>2
            <4> QED
                BY <1>1, <3>1, <4>1 DEF Sound, Last
        <3>3. Met(b, e.hops, i, seen, d)
            BY <1>4, <3>1, <3>2 DEF Traced
        <3>4. PICK k \in 0..e.hops : <<b, k>> \in seen /\ d[<<b, k>>] <= i
            BY <3>3 DEF Met
        <3>5. d[<<b, k>>] \in Nat
            BY <1>4, <3>4 DEF Steady
        <3>6. k \in 0..top /\ d[<<b, k>>] <= m + 1
            BY <1>2, <1>3, <3>4, <3>5
        <3>7. Met(b, top, m + 1, seen, d)
            BY <3>4, <3>6 DEF Met
        <3> QED
            BY <1>5, <2>1, <3>2, <3>7 DEF Tried
    <2>3. CASE Discovery /\ HopTo(e, b) > MaxHops
        <3>1. ~WithinBudget(top)
            BY <1>2, <2>1, <2>3, LimitsAssumption DEF WithinBudget
        <3> QED
            BY <2>1, <3>1 DEF Tried
    <2>4. CASE <<b, HopTo(e, b)>> \in seen /\ b \notin Sinks
        <3>1. d[<<b, HopTo(e, b)>>] <= m + 1
            BY <1>4, <2>4 DEF Steady
        <3>2. HopTo(e, b) \in 0..top
            BY <1>2, <2>1
        <3>3. Met(b, top, m + 1, seen, d)
            BY <2>4, <3>1, <3>2 DEF Met
        <3> QED
            BY <1>5, <2>1, <2>4, <3>3 DEF Tried
    <2> QED
        BY <2>2, <2>3, <2>4
<1> HIDE DEF m, x
<1>6. Working(q, seen, paths, d, m, x, B \cup {b})
    BY <1>4, <1>5 DEF Working
<1> QED
    BY <1>4, <1>6 DEF Going, m, x

\* A path more in the queue.
LEMMA QueueGrows ==
    ASSUME Chosen, NEW s, NEW e, Goer(s, e), NEW q, NEW seen, NEW paths, NEW d, NEW B,
           Going(s, e, q, seen, paths, d, B), NEW b \in Range(Neighbors(Last(e.path))),
           b \notin Range(e.path), WithinBudget(HopTo(e, b)),
           <<b, HopTo(e, b)>> \notin seen \/ b \in Sinks,
           NEW f, f = [path |-> Append(e.path, b), hops |-> HopTo(e, b),
                       file |-> IF Node(b).file = Unknown THEN e.file ELSE Node(b).file]
    PROVE  \E d2 : Going(s, e, Append(q, f), seen \cup {<<b, HopTo(e, b)>>}, paths, d2, B \cup {b})
<1> DEFINE m == Len(e.path)
           x0 == <<Last(e.path), e.hops>>
           h == HopTo(e, b)
           y == <<b, h>>
           q2 == Append(q, f)
           seen2 == seen \cup {y}
           d2 == [x \in States |-> IF x = y /\ x \notin seen THEN m + 1 ELSE d[x]]
<1>1. e \in Entries /\ Sound(e, s) /\ Last(e.path) \notin Sinks /\ ~Longest(e) /\ b \in Nodes
    BY GraphIs DEF Goer, Range
<1>2. h \in Nat /\ h >= e.hops /\ h <= e.hops + Cost(Last(e.path), b)
      /\ e.hops \in Nat /\ e.path \in Seq(Nodes) /\ m \in Nat /\ m > 0 /\ IsPath(e.path)
    BY <1>1, HopToIs DEF Entries, Sound, IsPath
<1>3. Cost(Last(e.path), b) \in {0, 1}
    BY DEF Cost
<1>4. Steady(s, q, seen, paths, d, m) /\ Traced(e, seen, d) /\ Working(q, seen, paths, d, m, x0, B)
    BY DEF Going
<1>5. f \in Entries /\ Sound(f, s)
    BY <1>1, GoingOn
<1>6. f.path = Append(e.path, b) /\ f.hops = h
    OBVIOUS
<1>7. /\ Len(f.path) = m + 1 /\ Last(f.path) = b /\ f.path[m + 1] = b
      /\ \A i \in 1..m : f.path[i] = e.path[i]
    BY <1>1, <1>2, <1>6, LongerPath
<1>8. q \in Seq(Entries) /\ seen \subseteq States /\ d \in [States -> Nat]
    BY <1>4 DEF Steady
<1>9. Len(q) \in Nat /\ q2 \in Seq(Entries) /\ Len(q2) = Len(q) + 1 /\ q2[Len(q) + 1] = f /\ \A i \in 1..Len(q) : q2[i] = q[i]
    BY <1>5, <1>8
<1>10. y \in States /\ y[1] = b /\ y[2] = h /\ seen2 \subseteq States /\ seen \subseteq seen2 /\ y \in seen2
    BY <1>1, <1>2, <1>8 DEF States
<1>11. d2 \in [States -> Nat] /\ (\A x \in seen : d2[x] = d[x]) /\ (y \notin seen => d2[y] = m + 1)
    BY <1>2, <1>8, <1>10
<1>12. \A x \in seen2 : x[1] \notin Sinks => x \in seen \/ (x = y /\ y \notin seen)
    BY <1>10
<1> HIDE DEF q2, seen2, d2, y, h, x0, m
<1>13. ASSUME NEW n, NEW k \in Nat, NEW i, Met(n, k, i, seen, d) PROVE Met(n, k, i, seen2, d2)
    BY <1>10, <1>11, <1>13 DEF Met
<1>14. ASSUME NEW c, Traced(c, seen, d), c \in Entries PROVE Traced(c, seen2, d2)
    <2>1. c.hops \in Nat
        BY <1>14 DEF Entries
    <2> QED
        BY <1>13, <1>14, <2>1 DEF Traced
<1>15. Traced(f, seen2, d2)
    <2>1. ASSUME NEW i \in 1..Len(f.path), f.path[i] \notin Sinks PROVE Met(f.path[i], f.hops, i, seen2, d2)
        <3>1. CASE i \in 1..m
            <4>1. Met(e.path[i], e.hops, i, seen, d)
                BY <1>4, <1>7, <2>1, <3>1 DEF Traced, m
            <4>2. Met(e.path[i], e.hops, i, seen2, d2)
                BY <1>2, <1>13, <4>1
            <4>3. \A k \in 0..e.hops : k \in 0..h
                BY <1>2
            <4> QED
                BY <1>6, <1>7, <3>1, <4>2, <4>3 DEF Met
        <3>2. CASE i = m + 1
            <4>1. y \notin seen
                BY <1>7, <2>1, <3>2 DEF y, h
            <4>2. <<b, h>> \in seen2 /\ d2[<<b, h>>] <= m + 1 /\ h \in 0..h
                BY <1>2, <1>10, <1>11, <4>1 DEF y
            <4> QED
                BY <1>6, <1>7, <3>2, <4>2 DEF Met
        <3> QED
            BY <1>2, <1>7, <3>1, <3>2
    <2> QED
        BY <2>1 DEF Traced
<1>16. Steady(s, q2, seen2, paths, d2, m)
    <2>1. ASSUME NEW i \in 1..Len(q2) PROVE Sound(q2[i], s) /\ Traced(q2[i], seen2, d2)
        <3>1. CASE i \in 1..Len(q)
            <4>1. q[i] \in Entries /\ Sound(q[i], s) /\ Traced(q[i], seen, d)
                BY <1>4, <1>8, <3>1 DEF Steady
            <4> QED
                BY <1>9, <1>14, <3>1, <4>1
        <3>2. CASE i = Len(q) + 1
            BY <1>5, <1>9, <1>15, <3>2
        <3> QED
            BY <1>9, <3>1, <3>2
    <2>2. InLevels(q2, m)
        <3>1. InLevels(q, m)
            BY <1>4 DEF Steady
        <3>2. \A i \in 1..Len(q2) : Len(q2[i].path) \in {m, m + 1}
            <4>1. \A i \in 1..Len(q) : Len(q[i].path) \in {m, m + 1} /\ q2[i] = q[i]
                BY <1>9, <3>1 DEF InLevels
            <4>2. q2[Len(q) + 1] = f /\ Len(f.path) \in {m, m + 1}
                BY <1>7, <1>9
            <4>3. \A i \in 1..Len(q2) : i \in 1..Len(q) \/ i = Len(q) + 1
                BY <1>9
            <4> HIDE DEF q2, m
            <4> QED
                BY ONLY <4>1, <4>2, <4>3
        <3>3. ASSUME NEW i \in 1..Len(q2), NEW j \in 1..i PROVE Len(q2[j].path) <= Len(q2[i].path)
            <4>1. CASE i \in 1..Len(q)
                <5>1. j \in 1..Len(q)
                    BY <1>9, <4>1
                <5> QED
                    BY <1>9, <3>1, <4>1, <5>1 DEF InLevels
            <4>2. CASE i = Len(q) + 1
                <5>1. j \in 1..Len(q2)
                    BY <1>9
                <5>2. Len(q2[j].path) \in {m, m + 1} /\ q2[i] = f
                    BY <1>9, <3>2, <4>2, <5>1
                <5> QED
                    BY <1>2, <1>7, <5>2
            <4> QED
                BY <1>9, <4>1, <4>2
        <3> QED
            BY <3>2, <3>3 DEF InLevels
    <2>3. \A x \in seen2 : x[1] \notin Sinks => d2[x] <= m + 1
        <3>1. \A x \in seen : x[1] \notin Sinks => d[x] <= m + 1
            BY <1>4 DEF Steady
        <3> QED
            BY <1>2, <1>11, <1>12, <3>1
    <2>4. s \notin Sinks => Met(s, 0, 1, seen2, d2)
        BY <1>4, <1>13 DEF Steady
    <2>5. m \in Nat /\ paths \in Seq(Seq(Nodes)) /\ \A i \in 1..Len(paths) : IsFlow(paths[i]) /\ paths[i][1] = s
        BY <1>4 DEF Steady
    <2> QED
        BY <1>9, <1>10, <1>11, <2>1, <2>2, <2>3, <2>4, <2>5 DEF Steady
<1>17. ASSUME NEW n, NEW i, Caught(n, i, q, paths) PROVE Caught(n, i, q2, paths)
    <2>1. \A j \in 1..Len(q) : j \in 1..Len(q2)
        BY <1>9
    <2> QED
        BY <1>9, <1>17, <2>1 DEF Caught
<1>18. ASSUME NEW x \in seen, x[2] \in Nat, NEW n, Tried(x, n, q, seen, paths, d) PROVE Tried(x, n, q2, seen2, paths, d2)
    <2>1. d2[x] = d[x] /\ x[2] + Cost(x[1], n) \in Nat
        BY <1>11, <1>18 DEF Cost
    <2> QED
        BY <1>13, <1>17, <1>18, <2>1 DEF Tried
<1>19. ASSUME NEW x \in seen, Waits(x, q, d) PROVE Waits(x, q2, d2)
    <2>1. \A j \in 1..Len(q) : j \in 1..Len(q2)
        BY <1>9
    <2> QED
        BY <1>9, <1>11, <1>19, <2>1 DEF Waits
<1>20. ASSUME y \notin seen PROVE Waits(y, q2, d2)
    <2>1. Len(q) + 1 \in 1..Len(q2)
        BY <1>9
    <2> QED
        BY <1>6, <1>7, <1>9, <1>10, <1>11, <1>20, <2>1 DEF Waits
<1>21. ASSUME x0 \in seen, d[x0] = m PROVE Tried(x0, b, q2, seen2, paths, d2)
    <2> DEFINE top == e.hops + Cost(Last(e.path), b)
    <2>1. x0[1] = Last(e.path) /\ x0[2] = e.hops /\ top \in Nat /\ h \in 0..top /\ d2[x0] = m
        BY <1>2, <1>3, <1>11, <1>21 DEF x0
    <2>2. CASE b \in Sinks
        <3>1. Len(q) + 1 \in 1..Len(q2) /\ Len(q2[Len(q) + 1].path) <= m + 1 /\ Last(q2[Len(q) + 1].path) = b
            BY <1>2, <1>7, <1>9
        <3>2. Caught(b, m + 1, q2, paths)
            BY <3>1 DEF Caught
        <3> QED
            BY <2>1, <2>2, <3>2 DEF Tried
    <2>3. CASE b \notin Sinks
        <3>1. y \notin seen
            BY <2>3 DEF y, h
        <3>2. <<b, h>> \in seen2 /\ d2[<<b, h>>] <= m + 1
            BY <1>2, <1>10, <1>11, <3>1 DEF y
        <3>3. Met(b, top, m + 1, seen2, d2)
            BY <2>1, <3>2 DEF Met
        <3> QED
            BY <2>1, <2>3, <3>3 DEF Tried
    <2> QED
        BY <2>2, <2>3
<1>22. Working(q2, seen2, paths, d2, m, x0, B \cup {b})
    <2>1. ASSUME NEW x \in States, Owed(x, seen2, d2)
          PROVE  \/ Waits(x, q2, d2) \/ Explored(x, q2, seen2, paths, d2)
                 \/ x = x0 /\ d2[x] = m /\ \A n \in B \cup {b} : Tried(x, n, q2, seen2, paths, d2)
        <3>1. x \in seen2 /\ x[1] \notin Sinks /\ d2[x] < MaxDepth /\ x[2] \in Nat
            BY <2>1 DEF Owed, States
        <3>2. CASE x \in seen
            <4>1. Owed(x, seen, d) /\ d2[x] = d[x]
                BY <1>11, <3>1, <3>2 DEF Owed
            <4>2. \/ Waits(x, q, d) \/ Explored(x, q, seen, paths, d)
                  \/ x = x0 /\ d[x] = m /\ \A n \in B : Tried(x, n, q, seen, paths, d)
                BY <1>4, <4>1 DEF Working
            <4>3. Explored(x, q, seen, paths, d) => Explored(x, q2, seen2, paths, d2)
                BY <1>18, <3>1, <3>2 DEF Explored
            <4>4. (\A n \in B : Tried(x, n, q, seen, paths, d)) => \A n \in B : Tried(x, n, q2, seen2, paths, d2)
                BY <1>18, <3>1, <3>2
            <4> QED
                BY <1>19, <1>21, <3>2, <4>1, <4>2, <4>3, <4>4
        <3>3. CASE x = y /\ y \notin seen
            BY <1>20, <3>3
        <3> QED
            BY <1>12, <3>1, <3>2, <3>3
    <2> QED
        BY <2>1 DEF Working
<1>23. Going(s, e, q2, seen2, paths, d2, B \cup {b})
    BY <1>1, <1>4, <1>14, <1>16, <1>22 DEF Going, m, x0
<1> QED
    BY <1>23 DEF q2, seen2, y, h

\* One neighbor.
LEMMA LookedKeeps ==
    ASSUME Chosen, NEW s, NEW e, Goer(s, e), NEW paths, NEW B, NEW b \in Range(Neighbors(Last(e.path))),
           NEW v \in [queue : Seq(Entries), seen : SUBSET States]
    PROVE  /\ Looked(v, e, b) \in [queue : Seq(Entries), seen : SUBSET States]
           /\ \A d : Going(s, e, v.queue, v.seen, paths, d, B)
                       => \E d2 : Going(s, e, Looked(v, e, b).queue, Looked(v, e, b).seen, paths, d2, B \cup {b})
<1> DEFINE V == [queue : Seq(Entries), seen : SUBSET States]
           h == HopTo(e, b)
           skip == \/ b \in Range(e.path)
                   \/ Discovery /\ h > MaxHops
                   \/ <<b, h>> \in v.seen /\ b \notin Sinks
           f == [path |-> Append(e.path, b), hops |-> h, file |-> IF Node(b).file = Unknown THEN e.file ELSE Node(b).file]
           w == [queue |-> Append(v.queue, f), seen |-> v.seen \cup {<<b, h>>}]
<1>1. Looked(v, e, b) = IF skip THEN v ELSE w
    BY DEF Looked, SeenAs
<1>2. e \in Entries /\ Sound(e, s) /\ Last(e.path) \notin Sinks /\ ~Longest(e) /\ b \in Nodes
    BY GraphIs DEF Goer, Range
<1>3. h \in Nat
    BY <1>2, HopToIs
<1>4. CASE skip
    <2>1. \A d : Going(s, e, v.queue, v.seen, paths, d, B) => Going(s, e, v.queue, v.seen, paths, d, B \cup {b})
        BY <1>4, Skipped
    <2> HIDE DEF skip, w
    <2> QED
        BY <1>1, <1>4, <2>1
<1>5. CASE ~skip
    <2>1. b \notin Range(e.path) /\ WithinBudget(h) /\ (<<b, h>> \notin v.seen \/ b \in Sinks)
        BY <1>3, <1>5, LimitsAssumption DEF WithinBudget
    <2>2. f \in Entries
        BY <1>2, <2>1, GoingOn
    <2> HIDE DEF skip
    <2>3. Looked(v, e, b) = w
        BY <1>1, <1>5
    <2>4. v.queue \in Seq(Entries) /\ v.seen \in SUBSET States /\ <<b, h>> \in States
        BY <1>2, <1>3 DEF States
    <2> DEFINE q2 == Append(v.queue, f)
               seen2 == v.seen \cup {<<b, h>>}
    <2>5. q2 \in Seq(Entries) /\ seen2 \in SUBSET States
        BY <2>2, <2>4
    <2>6. ASSUME NEW d, Going(s, e, v.queue, v.seen, paths, d, B)
          PROVE  \E d2 : Going(s, e, q2, seen2, paths, d2, B \cup {b})
        <3> DEFINE ff == f
        <3>1. ff = [path |-> Append(e.path, b), hops |-> HopTo(e, b),
                    file |-> IF Node(b).file = Unknown THEN e.file ELSE Node(b).file]
            OBVIOUS
        <3> HIDE DEF ff
        <3> QED
            BY <2>1, <2>6, <3>1, QueueGrows
    <2> HIDE DEF f, h
    <2>7. w \in V /\ w.queue = q2 /\ w.seen = seen2
        <3> HIDE DEF q2, seen2
        <3>1. w = [queue |-> q2, seen |-> seen2]
            BY DEF q2, seen2
        <3> HIDE DEF w
        <3> QED
            BY <2>5, <3>1
    <2> HIDE DEF w, q2, seen2
    <2> QED
        BY <2>3, <2>6, <2>7
<1> QED
    BY <1>4, <1>5

\* All the neighbors of the end of a path.
LEMMA ExpandedKeeps ==
    ASSUME Chosen, NEW s, NEW e, Goer(s, e), NEW paths, NEW d0,
           Going(s, e, Tail(fqueue), fseen, paths, d0, {})
    PROVE  Search(s, Expanded(e).queue, Expanded(e).seen, paths)
<1> DEFINE next == Neighbors(Last(e.path))
           most == Len(next)
           V == [queue : Seq(Entries), seen : SUBSET States]
           base == [queue |-> Tail(fqueue), seen |-> fseen]
           step == [vk \in V \X (1..most) |-> Looked(vk[1], e, next[vk[2]])]
           Up(f) == f = [k \in 0..most |-> IF k = 0 THEN base ELSE Looked(f[k - 1], e, next[k])]
<1>1. next \in Seq(Nodes) /\ most \in Nat /\ Range(next) = {next[k] : k \in 1..most} /\ \A k \in 1..most : next[k] \in Range(next)
    <2>1. next \in Seq(Nodes)
        BY GraphIs
    <2> HIDE DEF next
    <2>2. most \in Nat /\ DOMAIN next = 1..most
        BY <2>1
    <2> HIDE DEF most
    <2> QED
        BY <2>1, <2>2 DEF Range
<1>2. base \in V
    BY DEF Going, Steady
<1>3. ASSUME NEW v \in V, NEW k \in 1..most PROVE Looked(v, e, next[k]) \in V
    BY <1>1, LookedKeeps
<1> HIDE DEF base
<1>4. Loop(most, V, base, step)
    <2> HIDE DEF V, next, most
    <2>1. step \in [V \X (1..most) -> V]
        BY <1>3
    <2> QED
        BY <1>1, <1>2, <2>1 DEF Loop
<1>5. PICK r : r \in [0..most -> V] /\ r[0] = base /\ \A k \in 1..most : r[k] = Looked(r[k - 1], e, next[k])
    <2> HIDE DEF V, next, most, step
    <2>1. PICK r : IsRunOf(r, most, V, base, step)
        BY <1>4, Recursion
    <2>2. r \in [0..most -> V] /\ r[0] = base /\ \A k \in 1..most : r[k] = step[<<r[k - 1], k>>]
        BY <2>1 DEF IsRunOf
    <2>3. ASSUME NEW k \in 1..most PROVE r[k] = Looked(r[k - 1], e, next[k])
        <3>1. k - 1 \in 0..most
            BY <1>1
        <3>2. r[k - 1] \in V
            BY <2>2, <3>1
        <3>3. step[<<r[k - 1], k>>] = Looked(r[k - 1], e, next[k])
            BY <3>2 DEF step
        <3> QED
            BY <2>2, <3>3
    <2> QED
        BY <2>2, <2>3
<1> HIDE DEF step
<1>6. Up(r)
    <2> HIDE DEF V, next, most
    <2>1. r = [k \in 0..most |-> r[k]]
        BY <1>5
    <2>2. \A k \in 0..most : r[k] = IF k = 0 THEN base ELSE Looked(r[k - 1], e, next[k])
        BY <1>1, <1>5
    <2> QED
        BY <2>1, <2>2
<1> DEFINE looked == CHOOSE f : Up(f)
<1>7. Expanded(e) = looked[most]
    BY DEF Expanded, base
<1>8. Up(looked)
    <2> HIDE DEF Up
    <2> QED
        BY <1>6
<1> HIDE DEF looked, V, next, most
<1>9. looked[0] = base /\ \A k \in 1..most : looked[k] = Looked(looked[k - 1], e, next[k])
    <2>1. \A k \in 0..most : looked[k] = IF k = 0 THEN base ELSE Looked(looked[k - 1], e, next[k])
        BY <1>8
    <2> QED
        BY <1>1, <2>1
<1> HIDE DEF Up
<1> DEFINE Past(k) == {next[j] : j \in 1..k}
           Good(k) == looked[k] \in V /\ \E d : Going(s, e, looked[k].queue, looked[k].seen, paths, d, Past(k))
           K == {k \in 0..most : Good(k)}
<1>10. 0 \in K
    <2>1. base.queue = Tail(fqueue) /\ base.seen = fseen
        BY DEF base
    <2>2. Past(0) = {}
        OBVIOUS
    <2> HIDE DEF Past
    <2>3. Good(0)
        BY <1>2, <1>9, <2>1, <2>2
    <2> HIDE DEF Good
    <2> QED
        BY <1>1, <2>3
<1>11. ASSUME NEW k \in 1..most, k - 1 \in K PROVE k \in K
    <2>1. Good(k - 1)
        BY <1>11
    <2>2. PICK d : Going(s, e, looked[k - 1].queue, looked[k - 1].seen, paths, d, Past(k - 1))
        BY <2>1
    <2>3. looked[k - 1] \in V /\ next[k] \in Range(next) /\ looked[k] = Looked(looked[k - 1], e, next[k])
        BY <1>1, <1>9, <2>1
    <2>4. Past(k) = Past(k - 1) \cup {next[k]}
        <3>1. \A j : j \in 1..k <=> j \in 1..(k - 1) \/ j = k
            BY <1>1
        <3>2. ASSUME NEW x \in Past(k) PROVE x \in Past(k - 1) \cup {next[k]}
            <4>1. PICK j \in 1..k : x = next[j]
                OBVIOUS
            <4> QED
                BY <3>1, <4>1
        <3>3. Past(k - 1) \subseteq Past(k) /\ next[k] \in Past(k)
            BY <3>1
        <3> HIDE DEF Past
        <3> QED
            BY <3>2, <3>3
    <2> HIDE DEF Past
    <2>5. /\ looked[k] \in V
          /\ \E d2 : Going(s, e, looked[k].queue, looked[k].seen, paths, d2, Past(k - 1) \cup {next[k]})
        <3> DEFINE v == looked[k - 1]
                   b == next[k]
                   C == Past(k - 1)
        <3>1. v \in [queue : Seq(Entries), seen : SUBSET States] /\ b \in Range(Neighbors(Last(e.path)))
            BY <2>3 DEF V, next
        <3>2. Going(s, e, v.queue, v.seen, paths, d, C) /\ looked[k] = Looked(v, e, b)
            BY <2>2, <2>3
        <3> HIDE DEF v, b, C
        <3>3. /\ Looked(v, e, b) \in [queue : Seq(Entries), seen : SUBSET States]
              /\ \E d2 : Going(s, e, Looked(v, e, b).queue, Looked(v, e, b).seen, paths, d2, C \cup {b})
            BY <3>1, <3>2, LookedKeeps
        <3> QED
            BY <3>2, <3>3 DEF b, C, V
    <2>6. Good(k)
        BY <2>4, <2>5
    <2> HIDE DEF Good
    <2> QED
        BY <2>6
<1>12. Good(most)
    <2> HIDE DEF K
    <2>1. \A k \in 0..most : k \in K
        BY <1>1, <1>10, <1>11, Climb
    <2>2. most \in K
        BY <1>1, <2>1
    <2> QED
        BY <2>2 DEF K
<1>13. Past(most) = Range(next)
    BY <1>1
<1> HIDE DEF Past
<1> DEFINE q == looked[most].queue
           seen == looked[most].seen
           m == Len(e.path)
           x0 == <<Last(e.path), e.hops>>
<1>14. PICK d : Going(s, e, q, seen, paths, d, Range(next))
    BY <1>12, <1>13
<1> HIDE DEF q, seen, m
<1>15. Steady(s, q, seen, paths, d, m) /\ Working(q, seen, paths, d, m, x0, Range(next))
    BY <1>14 DEF Going, m
<1>16. ASSUME NEW x \in States, Owed(x, seen, d) PROVE Waits(x, q, d) \/ Explored(x, q, seen, paths, d)
    <2>1. \/ Waits(x, q, d) \/ Explored(x, q, seen, paths, d)
          \/ x = x0 /\ \A b \in Range(next) : Tried(x, b, q, seen, paths, d)
        BY <1>15, <1>16 DEF Working
    <2>2. ASSUME x = x0, \A b \in Range(next) : Tried(x, b, q, seen, paths, d) PROVE Explored(x, q, seen, paths, d)
        <3>1. x[1] = Last(e.path)
            BY <2>2
        <3> QED
            BY <2>2, <3>1 DEF Explored, next
    <2> QED
        BY <2>1, <2>2
<1>17. Search(s, q, seen, paths)
    BY <1>15, <1>16 DEF Search
<1> QED
    BY <1>7, <1>17 DEF q, seen

\* What a state was owed, it is still owed without the head, which is perhaps itself.
PassedOn(q, seen, paths, d, more) ==
    \A x \in States : Owed(x, seen, d) /\ (Waits(x, q, d) \/ Explored(x, q, seen, paths, d)) =>
       \/ Waits(x, Tail(q), d) \/ Explored(x, Tail(q), seen, more, d)
       \/ x = <<Last(Head(q).path), Head(q).hops>> /\ Len(Head(q).path) = d[x]


\* A search without its head.
LEMMA HeadGone ==
    ASSUME Chosen, NEW s, NEW q, NEW seen, NEW paths, NEW d, NEW m, Steady(s, q, seen, paths, d, m), q # <<>>,
           NEW more \in Seq(Seq(Nodes)), Len(paths) <= Len(more), \A i \in 1..Len(paths) : more[i] = paths[i],
           \A i \in 1..Len(more) : IsFlow(more[i]) /\ more[i][1] = s,
           Last(Head(q).path) \in Sinks /\ Len(Head(q).path) <= MaxDepth
             => \E i \in 1..Len(more) : Last(more[i]) = Last(Head(q).path)
    PROVE  /\ Steady(s, Tail(q), seen, more, d, m)
           /\ PassedOn(q, seen, paths, d, more)
<1> DEFINE e == Head(q)
           r == Tail(q)
<1>1. q \in Seq(Entries) /\ seen \subseteq States /\ d \in [States -> Nat] /\ m \in Nat /\ paths \in Seq(Seq(Nodes))
    BY DEF Steady
<1>2. /\ r \in Seq(Entries) /\ Len(r) \in Nat /\ Len(q) = Len(r) + 1 /\ e = q[1] /\ \A i \in 1..Len(r) : r[i] = q[i + 1]
      /\ Len(paths) \in Nat /\ Len(more) \in Nat
    BY <1>1
<1> HIDE DEF e, r
<1>3. \A i \in 1..Len(r) : i + 1 \in 1..Len(q)
    BY <1>2
<1>4. \A i \in 1..Len(q) : i = 1 \/ \E j \in 1..Len(r) : i = j + 1
    <2>1. ASSUME NEW i \in 1..Len(q), i # 1 PROVE i - 1 \in 1..Len(r) /\ i = i - 1 + 1
        BY <1>2, <2>1
    <2> QED
        BY <2>1
<1>5. Steady(s, r, seen, more, d, m)
    <2>1. \A i \in 1..Len(r) : Sound(r[i], s) /\ Traced(r[i], seen, d)
        BY <1>2, <1>3 DEF Steady
    <2>2. InLevels(r, m)
        <3>1. InLevels(q, m)
            BY DEF Steady
        <3>2. ASSUME NEW i \in 1..Len(r)
              PROVE  Len(r[i].path) \in {m, m + 1} /\ \A j \in 1..i : Len(r[j].path) <= Len(r[i].path)
            <4>1. r[i] = q[i + 1] /\ i + 1 \in 1..Len(q) /\ \A j \in 1..i : r[j] = q[j + 1] /\ j + 1 \in 1..i + 1
                BY <1>2
            <4> QED
                BY <3>1, <4>1 DEF InLevels
        <3> QED
            BY <3>2 DEF InLevels
    <2> QED
        BY <1>1, <1>2, <2>1, <2>2 DEF Steady
<1>6. ASSUME NEW x, Waits(x, q, d), ~(Last(e.path) = x[1] /\ e.hops = x[2] /\ Len(e.path) = d[x]) PROVE Waits(x, r, d)
    <2>1. PICK i \in 1..Len(q) : Last(q[i].path) = x[1] /\ q[i].hops = x[2] /\ Len(q[i].path) = d[x]
        BY <1>6 DEF Waits
    <2>2. i # 1
        BY <1>2, <1>6, <2>1
    <2>3. PICK j \in 1..Len(r) : i = j + 1
        BY <1>4, <2>2
    <2> QED
        BY <1>2, <2>1, <2>3 DEF Waits
<1>7. ASSUME NEW b \in Sinks, NEW n, Caught(b, n, q, paths), n <= MaxDepth, n \in Nat PROVE Caught(b, n, r, more)
    <2>1. CASE \E i \in 1..Len(paths) : Last(paths[i]) = b
        <3>1. \A i \in 1..Len(paths) : i \in 1..Len(more)
            BY <1>2
        <3> QED
            BY <2>1, <3>1 DEF Caught
    <2>2. CASE \E i \in 1..Len(q) : Last(q[i].path) = b /\ Len(q[i].path) <= n
        <3>1. PICK i \in 1..Len(q) : Last(q[i].path) = b /\ Len(q[i].path) <= n
            BY <2>2
        <3>2. CASE i = 1
            <4>1. Len(e.path) \in Nat
                BY <1>1, <1>2, <3>2 DEF Entries
            <4>2. Last(e.path) \in Sinks /\ Len(e.path) <= MaxDepth /\ Last(e.path) = b
                BY <1>2, <1>7, <3>1, <3>2, <4>1, LimitsAssumption
            <4> QED
                BY <4>2 DEF Caught, e
        <3>3. CASE i # 1
            <4>1. PICK j \in 1..Len(r) : i = j + 1
                BY <1>4, <3>3
            <4> QED
                BY <1>2, <3>1, <4>1 DEF Caught
        <3> QED
            BY <3>2, <3>3
    <2> QED
        BY <1>7, <2>1, <2>2 DEF Caught
<1>8. ASSUME NEW x \in States, Owed(x, seen, d), Explored(x, q, seen, paths, d) PROVE Explored(x, r, seen, more, d)
    <2>1. d[x] \in Nat /\ d[x] + 1 <= MaxDepth /\ d[x] + 1 \in Nat
        BY <1>1, <1>8, LimitsAssumption DEF Owed
    <2>2. ASSUME NEW b, Tried(x, b, q, seen, paths, d) PROVE Tried(x, b, r, seen, more, d)
        <3>1. b \in Sinks /\ Caught(b, d[x] + 1, q, paths) => Caught(b, d[x] + 1, r, more)
            BY <1>7, <2>1
        <3> QED
            BY <2>2, <3>1 DEF Tried
    <2> QED
        BY <1>8, <2>2 DEF Explored
<1>9. ASSUME NEW x \in States, Owed(x, seen, d), Waits(x, q, d) \/ Explored(x, q, seen, paths, d)
      PROVE  Waits(x, r, d) \/ Explored(x, r, seen, more, d) \/ (x = <<Last(e.path), e.hops>> /\ Len(e.path) = d[x])
    <2>1. x = <<x[1], x[2]>>
        BY DEF States
    <2> QED
        BY <1>6, <1>8, <1>9, <2>1
<1> QED
    BY <1>5, <1>9 DEF PassedOn, e, r

\* The paths in the queue are not shorter than the first.
LEMMA FirstIsShortest ==
    ASSUME Chosen, NEW s, NEW q, NEW seen, NEW paths, Search(s, q, seen, paths), q # <<>>
    PROVE  /\ Head(q) \in Entries /\ Sound(Head(q), s)
           /\ \E d : /\ Steady(s, q, seen, paths, d, Len(Head(q).path)) /\ Traced(Head(q), seen, d)
                     /\ \A x \in States : Owed(x, seen, d) => Waits(x, q, d) \/ Explored(x, q, seen, paths, d)
<1>1. PICK d, m : /\ Steady(s, q, seen, paths, d, m)
                  /\ \A x \in States : Owed(x, seen, d) => Waits(x, q, d) \/ Explored(x, q, seen, paths, d)
    BY DEF Search
<1>2. q \in Seq(Entries) /\ Head(q) = q[1] /\ 1 \in 1..Len(q) /\ q[1] \in Entries /\ Len(q) \in Nat /\ m \in Nat
    BY <1>1 DEF Steady
<1> DEFINE n == Len(q[1].path)
<1>3. Sound(q[1], s) /\ Traced(q[1], seen, d) /\ InLevels(q, m) /\ n \in {m, m + 1} /\ n \in Nat
    BY <1>1, <1>2 DEF Steady, InLevels
<1>4. InLevels(q, n)
    <2>1. ASSUME NEW i \in 1..Len(q) PROVE Len(q[i].path) \in {n, n + 1}
        <3>1. 1 \in 1..i
            BY <1>2
        <3>2. n <= Len(q[i].path) /\ Len(q[i].path) \in {m, m + 1}
            BY <1>3, <3>1 DEF InLevels
        <3> HIDE DEF n
        <3> QED
            BY <1>2, <1>3, <3>2
    <2> QED
        BY <1>3, <2>1 DEF InLevels
<1> HIDE DEF n
<1>5. \A x \in seen : x[1] \notin Sinks => d[x] <= n + 1
    <2>1. \A x \in seen : d[x] \in Nat /\ (x[1] \notin Sinks => d[x] <= m + 1)
        BY <1>1 DEF Steady
    <2> QED
        BY <1>2, <1>3, <2>1
<1>6. Steady(s, q, seen, paths, d, n)
    BY <1>1, <1>3, <1>4, <1>5 DEF Steady
<1> QED
    BY <1>1, <1>2, <1>3, <1>6 DEF n

LEMMA HeadDropped ==
    ASSUME Chosen, NEW s, NEW q, NEW seen, NEW paths, Search(s, q, seen, paths), q # <<>>,
           TooLong(Head(q)) \/ (Longest(Head(q)) /\ Last(Head(q).path) \notin Sinks)
    PROVE  Search(s, Tail(q), seen, paths)
<1> DEFINE e == Head(q)
           m == Len(e.path)
<1>1. PICK d : /\ Steady(s, q, seen, paths, d, m)
               /\ \A x \in States : Owed(x, seen, d) => Waits(x, q, d) \/ Explored(x, q, seen, paths, d)
    BY FirstIsShortest
<1>2. e \in Entries /\ m \in Nat /\ paths \in Seq(Seq(Nodes)) /\ Len(paths) \in Nat /\ d \in [States -> Nat]
    BY <1>1, FirstIsShortest DEF Entries, Steady
<1>3. \A i \in 1..Len(paths) : IsFlow(paths[i]) /\ paths[i][1] = s
    BY <1>1 DEF Steady
<1>4. m >= MaxDepth /\ ~(Last(e.path) \in Sinks /\ m <= MaxDepth)
    BY <1>2, LimitsAssumption DEF TooLong, Longest
<1>5. /\ Steady(s, Tail(q), seen, paths, d, m)
      /\ \A x \in States : Owed(x, seen, d) /\ (Waits(x, q, d) \/ Explored(x, q, seen, paths, d)) =>
           Waits(x, Tail(q), d) \/ Explored(x, Tail(q), seen, paths, d) \/ m = d[x]
    <2> HIDE DEF m
    <2>1. Len(paths) <= Len(paths)
        BY <1>2
    <2>2. /\ Chosen /\ q # <<>> /\ Steady(s, q, seen, paths, d, m) /\ \A i \in 1..Len(paths) : paths[i] = paths[i]
          /\ ~(Last(Head(q).path) \in Sinks /\ Len(Head(q).path) <= MaxDepth) /\ paths \in Seq(Seq(Nodes))
        BY <1>1, <1>2, <1>4 DEF m
    <2>3. Steady(s, Tail(q), seen, paths, d, m) /\ PassedOn(q, seen, paths, d, paths)
        BY ONLY <1>3, <2>1, <2>2, HeadGone
    <2>4. \A x \in States : x = <<Last(e.path), e.hops>> /\ Len(e.path) = d[x] => m = d[x]
        BY DEF m
    <2> QED
        BY <2>3, <2>4 DEF PassedOn
<1> HIDE DEF m
<1>6. ASSUME NEW x \in States, Owed(x, seen, d) PROVE m # d[x]
    BY <1>2, <1>4, <1>6, LimitsAssumption DEF Owed
<1> QED
    BY <1>1, <1>5, <1>6 DEF Search

LEMMA HeadRecorded ==
    ASSUME Chosen, NEW s, NEW q, NEW seen, NEW paths, Search(s, q, seen, paths), q # <<>>,
           ~TooLong(Head(q)), Last(Head(q).path) \in Sinks
    PROVE  Search(s, Tail(q), seen, Append(paths, Head(q).path))
<1> DEFINE e == Head(q)
           m == Len(e.path)
           more == Append(paths, e.path)
<1>1. PICK d : /\ Steady(s, q, seen, paths, d, m) /\ Traced(e, seen, d)
               /\ \A x \in States : Owed(x, seen, d) => Waits(x, q, d) \/ Explored(x, q, seen, paths, d)
    BY FirstIsShortest
<1>2. e \in Entries /\ Sound(e, s) /\ m \in Nat /\ paths \in Seq(Seq(Nodes)) /\ Len(paths) \in Nat /\ e.path \in Seq(Nodes)
    BY <1>1, FirstIsShortest DEF Entries, Steady
<1>3. IsFlow(e.path) /\ e.path[1] = s
    <2>1. m <= MaxDepth
        BY <1>2, LimitsAssumption DEF TooLong, Sound
    <2> QED
        BY <1>2, <2>1 DEF IsFlow, Sound, WithinBudget
<1>4. more \in Seq(Seq(Nodes)) /\ Len(more) = Len(paths) + 1 /\ more[Len(paths) + 1] = e.path /\ \A i \in 1..Len(paths) : more[i] = paths[i]
    BY <1>2
<1> HIDE DEF more, m
<1>5. \A i \in 1..Len(more) : IsFlow(more[i]) /\ more[i][1] = s
    <2>1. \A i \in 1..Len(more) : i \in 1..Len(paths) \/ i = Len(paths) + 1
        BY <1>2, <1>4
    <2>2. \A i \in 1..Len(paths) : IsFlow(paths[i]) /\ paths[i][1] = s
        BY <1>1 DEF Steady
    <2>3. \A i \in 1..Len(paths) : more[i] = paths[i]
        BY <1>4
    <2>4. IsFlow(more[Len(paths) + 1]) /\ more[Len(paths) + 1][1] = s
        BY <1>3, <1>4
    <2> QED
        BY ONLY <2>1, <2>2, <2>3, <2>4
<1>6. Len(paths) <= Len(more) /\ Len(paths) + 1 \in 1..Len(more)
    BY <1>2, <1>4
<1>7. \E i \in 1..Len(more) : Last(more[i]) = Last(e.path)
    BY <1>4, <1>6
<1> HIDE DEF e
<1>8. /\ Steady(s, Tail(q), seen, more, d, m)
      /\ \A x \in States : Owed(x, seen, d) /\ (Waits(x, q, d) \/ Explored(x, q, seen, paths, d)) =>
           \/ Waits(x, Tail(q), d) \/ Explored(x, Tail(q), seen, more, d)
           \/ x = <<Last(e.path), e.hops>> /\ m = d[x]
    <2>1. \E i \in 1..Len(more) : Last(more[i]) = Last(Head(q).path)
        BY <1>7 DEF e
    <2>2. more \in Seq(Seq(Nodes)) /\ \A i \in 1..Len(paths) : more[i] = paths[i]
        BY <1>4
    <2>3. Steady(s, q, seen, paths, d, m)
        BY <1>1
    <2>4. Chosen /\ q # <<>> /\ Len(paths) <= Len(more)
        BY <1>6
    <2>5. Steady(s, Tail(q), seen, more, d, m) /\ PassedOn(q, seen, paths, d, more)
        BY ONLY <1>5, <2>1, <2>2, <2>3, <2>4, HeadGone
    <2> QED
        BY <2>5 DEF PassedOn, e, m
<1>9. ASSUME NEW x \in States, Owed(x, seen, d) PROVE x # <<Last(e.path), e.hops>>
    BY <1>9 DEF Owed, e
<1> QED
    BY <1>1, <1>8, <1>9 DEF Search, more, e

LEMMA HeadExtended ==
    ASSUME Chosen, NEW s, NEW q, NEW seen, NEW paths, Search(s, q, seen, paths), q # <<>>,
           ~Longest(Head(q)), Last(Head(q).path) \notin Sinks
    PROVE  Goer(s, Head(q)) /\ \E d : Going(s, Head(q), Tail(q), seen, paths, d, {})
<1> DEFINE e == Head(q)
           m == Len(e.path)
<1>1. PICK d : /\ Steady(s, q, seen, paths, d, m) /\ Traced(e, seen, d)
               /\ \A x \in States : Owed(x, seen, d) => Waits(x, q, d) \/ Explored(x, q, seen, paths, d)
    BY FirstIsShortest
<1>2. e \in Entries /\ Sound(e, s)
    BY FirstIsShortest
<1>3. \A i \in 1..Len(paths) : IsFlow(paths[i]) /\ paths[i][1] = s
    BY <1>1 DEF Steady
<1>4. paths \in Seq(Seq(Nodes)) /\ Len(paths) <= Len(paths)
    <2>1. paths \in Seq(Seq(Nodes))
        BY <1>1 DEF Steady
    <2>2. Len(paths) \in Nat
        BY <2>1
    <2> QED
        BY <2>1, <2>2
<1> HIDE DEF m
<1>5. /\ Steady(s, Tail(q), seen, paths, d, m)
      /\ \A x \in States : Owed(x, seen, d) /\ (Waits(x, q, d) \/ Explored(x, q, seen, paths, d)) =>
           \/ Waits(x, Tail(q), d) \/ Explored(x, Tail(q), seen, paths, d)
           \/ x = <<Last(e.path), e.hops>> /\ m = d[x]
    BY <1>1, <1>3, <1>4, HeadGone DEF PassedOn, m
<1>6. Working(Tail(q), seen, paths, d, m, <<Last(e.path), e.hops>>, {})
    BY <1>1, <1>5 DEF Working
<1> QED
    BY <1>1, <1>2, <1>5, <1>6 DEF Going, Goer, m

\* The search of a source, as NextSource starts it.
LEMMA FreshSearch ==
    ASSUME Chosen, NEW s \in Nodes
    PROVE  Search(s, <<[path |-> <<s>>, hops |-> 0, file |-> Node(s).file]>>, {SeenAs(s, 0)}, <<>>)
<1> DEFINE p == <<s>>
           f == Node(s).file
           e == [path |-> p, hops |-> 0, file |-> f]
           q == <<e>>
           x0 == <<s, 0>>
           seen == {x0}
           d == [x \in States |-> 1]
<1>1. p \in Seq(Nodes) /\ Len(p) = 1 /\ p[1] = s /\ Last(p) = s
    BY DEF Last
<1> HIDE DEF p
<1>2. IsPath(p)
    <2>1. \A i, j \in 1..Len(p) : i = j
        BY <1>1
    <2>2. 1..Len(p) - 1 = {}
        BY <1>1
    <2> QED
        BY <1>1, <2>1, <2>2 DEF IsPath
<1>3. Carries(p, f)
    <2> HIDE DEF f
    <2>1. 1 \in 1..Len(p) /\ \A k : k \notin 1 + 1..Len(p)
        BY <1>1
    <2>2. \A i \in 1..Len(p) : i = 1
        BY <1>1
    <2> QED
        BY <1>1, <2>1, <2>2 DEF Carries, f
<1>4. Hops(p) = 0
    <2>1. \A i, j \in 1..Len(p) : ~(j < i)
        BY <1>1
    <2>2. Bounds(p) = {}
        BY <2>1 DEF Bounds
    <2> QED
        BY <1>1, <2>2, HopsIs, FS_EmptySet
<1>5. e.path = p /\ e.hops = 0 /\ e.file = f /\ e \in Entries
    BY <1>1 DEF Entries
<1>6. q \in Seq(Entries) /\ Len(q) = 1 /\ q[1] = e
    BY <1>5
<1>7. x0 \in States /\ seen \subseteq States /\ d \in [States -> Nat] /\ d[x0] = 1 /\ x0[1] = s /\ x0[2] = 0
    BY DEF States
<1> HIDE DEF e, f, q, d
<1>8. Sound(e, s)
    <2>1. \A m \in 1..Len(p) - 1 : p[m] \notin Sinks
        BY <1>1
    <2> QED
        <3>1. 0 <= MaxHops /\ 1 <= MaxDepth
            BY LimitsAssumption
        <3> QED
            BY <1>1, <1>2, <1>3, <1>4, <1>5, <2>1, <3>1 DEF Sound
<1>9. Met(s, 0, 1, seen, d)
    BY <1>7 DEF Met
<1>10. Traced(e, seen, d)
    <2>1. \A m \in 1..Len(p) : m = 1
        BY <1>1
    <2> QED
        BY <1>1, <1>5, <1>9, <2>1 DEF Traced
<1>11. \A i \in 1..Len(q) : i = 1
    BY <1>6
<1>12. InLevels(q, 1)
    <2>1. ASSUME NEW i \in 1..Len(q)
          PROVE  Len(q[i].path) \in {1, 1 + 1} /\ \A j \in 1..i : Len(q[j].path) <= Len(q[i].path)
        <3>1. i = 1 /\ q[1] = e /\ Len(e.path) = 1
            BY <1>1, <1>5, <1>6, <1>11
        <3>2. \A j \in 1..i : j = 1
            BY <3>1
        <3>3. \A j \in 1..i : Len(q[j].path) = 1
            BY <3>1, <3>2
        <3>4. Len(q[i].path) = 1
            BY <3>1
        <3>5. 1 \in {1, 1 + 1} /\ 1 <= 1
            OBVIOUS
        <3> QED
            BY <3>3, <3>4, <3>5, Zenon
    <2> QED
        BY <1>6, <2>1 DEF InLevels
<1>13. \A x \in seen : x = x0
    OBVIOUS
<1> HIDE DEF seen, x0
<1>14. Steady(s, q, seen, <<>>, d, 1)
    <2>1. <<>> \in Seq(Seq(Nodes)) /\ \A i : i \notin 1..Len(<<>>)
        OBVIOUS
    <2>2. \A x \in seen : d[x] <= 1 + 1
        BY <1>7, <1>13
    <2> QED
        BY <1>6, <1>7, <1>8, <1>9, <1>10, <1>11, <1>12, <2>1, <2>2 DEF Steady
<1>15. Waits(x0, q, d)
    <2>1. 1 \in 1..Len(q)
        BY <1>6
    <2> QED
        BY <1>1, <1>5, <1>6, <1>7, <2>1 DEF Waits
<1>16. Search(s, q, seen, <<>>)
    BY <1>13, <1>14, <1>15 DEF Search, Owed
<1> QED
    BY <1>16 DEF q, e, p, f, seen, x0, SeenAs

\* The steps of a path that cross a file boundary, up to its node m.
CrossedTo(p, m) == Cardinality({i \in 1..m - 1 : Node(p[i]).file # Node(p[i + 1]).file})

LEMMA CrossedToIs ==
    ASSUME NEW p, NEW n \in Nat
    PROVE  /\ CrossedTo(p, 1) = 0
           /\ \A m \in 1..n : CrossedTo(p, m) \in Nat /\ CrossedTo(p, m) <= CrossedTo(p, n)
           /\ \A m \in 1..n - 1 : CrossedTo(p, m + 1) = CrossedTo(p, m) + (IF Node(p[m]).file # Node(p[m + 1]).file THEN 1 ELSE 0)
<1> DEFINE X(i) == Node(p[i]).file # Node(p[i + 1]).file
           C(m) == {i \in 1..m - 1 : X(i)}
<1>1. \A m : CrossedTo(p, m) = Cardinality(C(m))
    BY DEF CrossedTo
<1> HIDE DEF X
<1>2. ASSUME NEW m \in Nat, m > 0 PROVE IsFiniteSet(C(m)) /\ Cardinality(C(m)) \in Nat
    <2>1. IsFiniteSet(1..m - 1)
        BY <1>2, FirstNaturals
    <2>2. C(m) \subseteq 1..m - 1
        OBVIOUS
    <2> HIDE DEF C
    <2> QED
        BY <2>1, <2>2, FS_Subset, FS_CardinalityType
<1>3. C(1) = {}
    OBVIOUS
<1>4. ASSUME NEW m \in 1..n PROVE Cardinality(C(m)) \in Nat /\ Cardinality(C(m)) <= Cardinality(C(n))
    <2>1. C(m) \subseteq C(n) /\ m \in Nat /\ m > 0 /\ n > 0
        OBVIOUS
    <2> HIDE DEF C
    <2> QED
        BY <1>2, <2>1, FS_Subset
<1>5. ASSUME NEW m \in 1..n - 1 PROVE Cardinality(C(m + 1)) = Cardinality(C(m)) + (IF X(m) THEN 1 ELSE 0)
    <2>1. \A i : i \in 1..m + 1 - 1 <=> i \in 1..m - 1 \/ i = m
        OBVIOUS
    <2>2. C(m + 1) = (IF X(m) THEN C(m) \cup {m} ELSE C(m)) /\ m \notin C(m)
        <3>1. m \notin C(m)
            OBVIOUS
        <3>2. ASSUME NEW i PROVE i \in C(m + 1) <=> i \in C(m) \/ (i = m /\ X(m))
            BY <2>1
        <3> HIDE DEF C
        <3> QED
            BY <3>1, <3>2
    <2>3. m \in Nat /\ m > 0
        OBVIOUS
    <2> HIDE DEF C
    <2> QED
        BY <1>2, <2>2, <2>3, FS_AddElement
<1> HIDE DEF C
<1>6. CrossedTo(p, 1) = 0
    BY <1>1, <1>3, FS_EmptySet
<1> QED
    BY <1>1, <1>4, <1>5, <1>6 DEF X

\* A search that is over found every sink that its source reaches.
LEMMA SearchComplete ==
    ASSUME Chosen, NEW s \in Nodes, s \notin Sinks, NEW seen, NEW paths, Search(s, <<>>, seen, paths),
           NEW p, IsPath(p), p[1] = s, Len(p) <= MaxDepth, Len(p) > 1, Last(p) \in Sinks,
           WithinBudget(Crossed(p)), \A i \in 1..Len(p) - 1 : p[i] \notin Sinks
    PROVE  \E i \in 1..Len(paths) : Last(paths[i]) = Last(p)
<1> DEFINE n == Len(p)
           Count(m) == IF Discovery THEN CrossedTo(p, m) ELSE 0
<1>1. PICK d, lev : /\ Steady(s, <<>>, seen, paths, d, lev)
                    /\ \A x \in States : Owed(x, seen, d) => Waits(x, <<>>, d) \/ Explored(x, <<>>, seen, paths, d)
    BY DEF Search
<1>2. p \in Seq(Nodes) /\ n \in Nat /\ n > 1 /\ n <= MaxDepth /\ MaxDepth \in Nat
    BY LimitsAssumption DEF IsPath
<1>3. seen \subseteq States /\ d \in [States -> Nat] /\ Met(s, 0, 1, seen, d)
    BY <1>1 DEF Steady
<1>4. \A x : ~Waits(x, <<>>, d)
    BY DEF Waits
<1>5. Crossed(p) = CrossedTo(p, n)
    BY DEF Crossed, CrossedTo
<1> HIDE DEF n
<1>6. /\ Count(1) = 0 /\ \A m \in 1..n : Count(m) \in Nat
      /\ \A m \in 1..n - 1 : Count(m + 1) = Count(m) + Cost(p[m], p[m + 1]) /\ WithinBudget(Count(m + 1))
    <2>1. /\ CrossedTo(p, 1) = 0
          /\ \A m \in 1..n : CrossedTo(p, m) \in Nat /\ CrossedTo(p, m) <= CrossedTo(p, n)
          /\ \A m \in 1..n - 1 : CrossedTo(p, m + 1) = CrossedTo(p, m) + (IF Node(p[m]).file # Node(p[m + 1]).file THEN 1 ELSE 0)
        BY <1>2, CrossedToIs
    <2>2. \A m \in 1..n - 1 : m + 1 \in 1..n
        BY <1>2
    <2>3. CASE ~Discovery
        BY <2>3 DEF Cost, WithinBudget
    <2>4. CASE Discovery
        <3>1. CrossedTo(p, n) <= MaxHops /\ CrossedTo(p, n) \in Nat
            BY <1>2, <1>5, <2>1, <2>4 DEF WithinBudget
        <3>2. \A m \in 1..n - 1 : CrossedTo(p, m + 1) <= MaxHops
            BY <2>1, <2>2, <3>1, LimitsAssumption
        <3> QED
            BY <2>1, <2>4, <3>2 DEF Cost, WithinBudget
    <2> QED
        BY <2>3, <2>4
<1> HIDE DEF Count
<1>7. ASSUME NEW m \in 1..n - 1, Met(p[m], Count(m), m, seen, d)
      PROVE  IF p[m + 1] \in Sinks THEN \E i \in 1..Len(paths) : Last(paths[i]) = p[m + 1]
             ELSE Met(p[m + 1], Count(m + 1), m + 1, seen, d)
    <2> DEFINE b == p[m + 1]
    <2>1. PICK k \in 0..Count(m) : <<p[m], k>> \in seen /\ d[<<p[m], k>>] <= m
        BY <1>7 DEF Met
    <2> DEFINE x == <<p[m], k>>
    <2>2. x \in seen /\ x \in States /\ x[1] = p[m] /\ x[2] = k /\ d[x] \in Nat /\ d[x] <= m
        BY <1>3, <2>1
    <2>3. m \in Nat /\ m < n /\ m \in 1..n /\ m + 1 \in 1..n
        BY <1>2
    <2>4. p[m] \notin Sinks /\ b \in Range(Neighbors(p[m]))
        BY DEF IsPath, n
    <2> HIDE DEF x, b
    <2>5. Owed(x, seen, d)
        BY <1>2, <2>2, <2>3, <2>4 DEF Owed
    <2>6. Tried(x, b, <<>>, seen, paths, d)
        BY <1>1, <1>4, <2>2, <2>4, <2>5 DEF Explored
    <2>7. Cost(p[m], b) \in {0, 1} /\ Count(m) \in Nat /\ Count(m + 1) = Count(m) + Cost(p[m], b) /\ WithinBudget(Count(m + 1))
        BY <1>6, <2>3 DEF Cost, b
    <2>8. k + Cost(p[m], b) \in 0..Count(m + 1)
        BY <2>1, <2>7
    <2>9. WithinBudget(k + Cost(p[m], b))
        BY <2>7, <2>8, LimitsAssumption DEF WithinBudget
    <2>10. CASE b \in Sinks
        <3>1. Caught(b, d[x] + 1, <<>>, paths)
            BY <2>2, <2>6, <2>9, <2>10 DEF Tried
        <3> QED
            BY <2>10, <3>1 DEF Caught, b
    <2>11. CASE b \notin Sinks
        <3>1. Met(b, k + Cost(p[m], b), d[x] + 1, seen, d)
            BY <2>2, <2>6, <2>9, <2>11 DEF Tried
        <3>2. PICK j \in 0..k + Cost(p[m], b) : <<b, j>> \in seen /\ d[<<b, j>>] <= d[x] + 1
            BY <3>1 DEF Met
        <3>3. d[<<b, j>>] \in Nat
            BY <1>3, <3>2
        <3>4. j \in 0..Count(m + 1)
            <4>1. \A c \in Nat : \A e \in 0..c : \A i \in 0..e : i \in 0..c
                OBVIOUS
            <4> QED
                BY ONLY <2>7, <2>8, <3>2, <4>1
        <3>5. d[<<b, j>>] <= m + 1
            <4>1. \A u, v, w \in Nat : u <= v + 1 /\ v <= w => u <= w + 1
                OBVIOUS
            <4> QED
                BY ONLY <2>2, <2>3, <3>2, <3>3, <4>1
        <3> QED
            BY <2>11, <3>2, <3>4, <3>5 DEF Met, b
    <2> QED
        BY <2>10, <2>11
<1> DEFINE most == n - 2
           Good(k) == Met(p[k + 1], Count(k + 1), k + 1, seen, d)
           K == {k \in 0..most : Good(k)}
<1>8. most \in Nat /\ most + 1 = n - 1 /\ n - 1 \in 1..n - 1
    BY <1>2
<1>9. 0 \in K
    <2>1. 0 + 1 = 1
        OBVIOUS
    <2>2. Good(0)
        BY <1>3, <1>6, <2>1
    <2> HIDE DEF Good
    <2> QED
        BY <1>8, <2>2
<1>10. ASSUME NEW k \in 1..most, k - 1 \in K PROVE k \in K
    <2>1. k \in 1..n - 1 /\ k + 1 \in 1..n - 1 /\ k - 1 + 1 = k
        BY <1>8
    <2>2. Met(p[k], Count(k), k, seen, d)
        BY <1>10, <2>1
    <2>3. p[k + 1] \notin Sinks
        BY <2>1 DEF n
    <2>4. Good(k)
        BY <1>7, <2>1, <2>2, <2>3
    <2> HIDE DEF Good
    <2> QED
        BY <2>4
<1>11. Good(most)
    <2> HIDE DEF Good, most, K
    <2>1. \A k \in 0..most : k \in K
        BY <1>8, <1>9, <1>10, Climb
    <2>2. most \in 0..most
        BY <1>8
    <2> QED
        BY <2>1, <2>2 DEF K
<1>12. Met(p[n - 1], Count(n - 1), n - 1, seen, d) /\ n - 1 + 1 = n
    BY <1>2, <1>8, <1>11
<1>13. p[n] = Last(p)
    BY DEF Last, n
<1>14. \E i \in 1..Len(paths) : Last(paths[i]) = p[n]
    BY <1>7, <1>8, <1>12, <1>13
<1> QED
    BY <1>13, <1>14

-----------------------------------------------------------------------------
(***************************************************************************)
(* From the recorded paths to slices.                                      *)
(***************************************************************************)
LEMMA ScoreIs ==
    ASSUME Chosen, NEW p \in Seq(Nodes), Len(p) > 0
    PROVE  Score(p) \in Int /\ ScoreUnit(p) \in Nat /\ ScoreUnit(p) > 0
<1>1. Len(p) \in Nat /\ DOMAIN p = 1..Len(p) /\ IsFiniteSet(1..Len(p))
    BY FirstNaturals
<1> DEFINE n == Len(p)
           files  == {Node(p[i]).file : i \in 1..n}
           scopes == {Node(p[i]).scope : i \in 1..n}
           explicit  == Cardinality({i \in 1..n : Node(p[i]).role = "sanitizer"})
           heuristic == Cardinality({i \in 1..n : Node(p[i]).role # "sanitizer" /\ Node(p[i]).clean})
           crossings == AtLeast(0, Cardinality(files) - 1) + AtLeast(0, Cardinality(scopes \ {Unknown}) - 1)
           ambiguity == IF explicit > 0 THEN 0 ELSE IF heuristic > 0 THEN 4 ELSE 10
           gap       == IF "auth" \in Kinds(p) THEN 2 ELSE IF Node(Last(p)).role = "sink" \/ Node(Last(p)).web THEN 7 ELSE 5
           factor    == AtLeast(30, 100 - 15 * explicit - 5 * heuristic)
<1>2. n * (n + 1) \in Nat /\ n * (n + 1) > 0
    <2>1. \A k \in Nat : k > 0 => k * (k + 1) \in Nat /\ k * (k + 1) > 0
        OBVIOUS
    <2> QED
        BY <1>1, <2>1
<1>3. ScoreUnit(p) \in Nat /\ ScoreUnit(p) > 0
    BY <1>2 DEF ScoreUnit
<1>4. explicit \in Nat /\ heuristic \in Nat
    <2>1. \A T \in SUBSET (1..n) : Cardinality(T) \in Nat
        BY <1>1, FS_Subset, FS_CardinalityType
    <2> QED
        BY <2>1
<1>5. Cardinality(files) \in Nat /\ Cardinality(scopes \ {Unknown}) \in Nat
    <2>1. files = {Node(p[i]).file : i \in 1..n} /\ IsFiniteSet(files)
        <3> DEFINE f == [i \in 1..n |-> Node(p[i]).file]
        <3>1. files = {f[i] : i \in 1..n} /\ f \in Surjection(1..n, files)
            BY DEF Surjection
        <3> QED
            BY <1>1, <3>1, FS_Surjection
    <2>2. IsFiniteSet(scopes)
        <3> DEFINE f == [i \in 1..n |-> Node(p[i]).scope]
        <3>1. f \in Surjection(1..n, scopes)
            BY DEF Surjection
        <3> QED
            BY <1>1, <3>1, FS_Surjection
    <2> HIDE DEF files, scopes
    <2> QED
        BY <2>1, <2>2, FS_Subset, FS_CardinalityType
<1>6. Score(p) = (35 * n + 25 * (n + 1) + (4 * AtMost(5, crossings) + ambiguity + gap) * ScoreUnit(p)) * factor
    BY <1>1 DEF Score, Values, Hits
<1> HIDE DEF files, scopes, explicit, heuristic
<1>7. crossings \in Int /\ ambiguity \in Int /\ gap \in Int /\ factor \in Int
    BY <1>4, <1>5 DEF AtLeast
<1> HIDE DEF crossings, ambiguity, gap, factor
<1>8. AtMost(5, crossings) \in Int
    BY <1>7 DEF AtMost
<1> HIDE DEF n
<1>9. n \in Int
    BY <1>1 DEF n
<1>10. Score(p) \in Int
    BY <1>3, <1>6, <1>7, <1>8, <1>9
<1> QED
    BY <1>3, <1>10

\* Fractions with positive denominators, compared by products.
LEMMA Products ==
    ASSUME NEW a \in Int, NEW b \in Int, NEW c \in Int, NEW u \in Nat, u > 0, NEW v \in Nat, v > 0, NEW w \in Nat, w > 0,
           a * v > b * u, ~(c * v > b * w)
    PROVE  a * w > c * u
<1>1. (a * v) * w > (b * u) * w
    <2>1. \A x, y \in Int : \A z \in Nat : z > 0 /\ x > y => x * z > y * z
        OBVIOUS
    <2>2. a * v \in Int /\ b * u \in Int
        OBVIOUS
    <2> QED
        BY <2>1, <2>2
<1>2. (c * v) * u <= (b * w) * u
    <2>1. \A x, y \in Int : \A z \in Nat : z > 0 /\ x <= y => x * z <= y * z
        OBVIOUS
    <2>2. c * v \in Int /\ b * w \in Int /\ c * v <= b * w
        OBVIOUS
    <2> QED
        BY <2>1, <2>2
<1>3. (a * w) * v > (c * u) * v
    <2>1. (a * v) * w = (a * w) * v /\ (b * u) * w = (b * w) * u /\ (c * v) * u = (c * u) * v
        OBVIOUS
    <2>2. (a * w) * v \in Int /\ (b * w) * u \in Int /\ (c * u) * v \in Int
        OBVIOUS
    <2> QED
        BY <1>1, <1>2, <2>1, <2>2
<1>4. \A x, y \in Int : \A z \in Nat : z > 0 /\ ~(x > y) => ~(x * z > y * z)
    OBVIOUS
<1>5. a * w \in Int /\ c * u \in Int
    OBVIOUS
<1> QED
    BY <1>3, <1>4, <1>5

\* Scores rank the paths.
Higher(paths) == {ij \in (1..Len(paths)) \X (1..Len(paths)) : Above(paths[ij[1]], paths[ij[2]])}

LEMMA ScoresRank ==
    ASSUME Chosen, NEW paths \in Seq(Seq(Nodes)), \A i \in 1..Len(paths) : Len(paths[i]) > 0
    PROVE  Ranks(Higher(paths), Len(paths))
<1> DEFINE D == 1..Len(paths)
           a(i) == Score(paths[i])
           u(i) == ScoreUnit(paths[i])
           R == Higher(paths)
<1>1. \A i \in D : a(i) \in Int /\ u(i) \in Nat /\ u(i) > 0
    BY ScoreIs
<1>2. \A i, j \in D : <<i, j>> \in R <=> a(i) * u(j) > a(j) * u(i)
    BY DEF Higher, Above
<1> HIDE DEF a, u, R
<1>3. \A i \in D : <<i, i>> \notin R
    <2>1. \A i \in D : a(i) * u(i) \in Int
        BY <1>1
    <2> QED
        BY <1>2, <2>1
<1>4. \A i, j \in D : <<i, j>> \in R => <<j, i>> \notin R
    <2>1. \A i, j \in D : a(i) * u(j) \in Int
        BY <1>1
    <2> QED
        BY <1>2, <2>1
<1>5. ASSUME NEW i \in D, NEW j \in D, NEW k \in D, <<i, j>> \in R, <<k, j>> \notin R PROVE <<i, k>> \in R
    <2>1. a(i) * u(j) > a(j) * u(i) /\ ~(a(k) * u(j) > a(j) * u(k))
        BY <1>2, <1>5
    <2>2. a(i) * u(k) > a(k) * u(i)
        BY <1>1, <2>1, Products
    <2> QED
        BY <1>2, <2>2
<1> HIDE DEF D
<1>6. Ranks(R, Len(paths))
    BY <1>3, <1>4, <1>5 DEF Ranks, D
<1> QED
    BY <1>6 DEF R

\* The best paths are paths; all of them when they are not too many.
LEMMA BestOfIs ==
    ASSUME Chosen, NEW paths \in Seq(Seq(Nodes)), \A i \in 1..Len(paths) : Len(paths[i]) > 0, NEW max \in Nat
    PROVE  /\ BestOf(paths, max) \in Seq(Seq(Nodes)) /\ Range(BestOf(paths, max)) \subseteq Range(paths)
           /\ Len(paths) <= max => Range(BestOf(paths, max)) = Range(paths)
<1> DEFINE n == Len(paths)
           R == Higher(paths)
           ahead(i) == Cardinality(Before(R, n, i))
           best == AtMost(max, n)
           pick(r) == CHOOSE i \in 1..n : ahead(i) = r - 1
           kept == [r \in 1..best |-> paths[pick(r)]]
<1>1. n \in Nat /\ DOMAIN paths = 1..n /\ \A i \in 1..n : paths[i] \in Seq(Nodes) /\ paths[i] \in Range(paths)
    <2>1. n \in Nat /\ DOMAIN paths = 1..n /\ \A i \in 1..n : paths[i] \in Seq(Nodes)
        OBVIOUS
    <2> QED
        BY <2>1 DEF Range
<1>2. best \in Nat /\ best <= n /\ (n <= max => best = n)
    <2> HIDE DEF n
    <2> QED
        BY <1>1 DEF AtMost
<1>3. \A i \in 1..n : Before(R, n, i)
         = {j \in 1..n : Above(paths[j], paths[i]) \/ (j < i /\ ~Above(paths[i], paths[j]))}
    BY DEF Before, Higher
<1>4. BestOf(paths, max) = kept
    <2>1. \A i \in 1..n : ahead(i) = Cardinality({j \in 1..n : Above(paths[j], paths[i]) \/ (j < i /\ ~Above(paths[i], paths[j]))})
        BY <1>3
    <2> DEFINE over(i) == Cardinality({j \in 1..n : Above(paths[j], paths[i]) \/ (j < i /\ ~Above(paths[i], paths[j]))})
    <2>2. BestOf(paths, max) = [r \in 1..best |-> paths[CHOOSE i \in 1..n : over(i) = r - 1]]
        BY <1>1 DEF BestOf
    <2> HIDE DEF over, ahead, best
    <2>3. \A i \in 1..n : ahead(i) = over(i)
        BY <2>1 DEF over
    <2>4. ASSUME NEW r PROVE (CHOOSE i \in 1..n : over(i) = r - 1) = pick(r)
        BY <2>3, Zenon
    <2> HIDE DEF pick
    <2>5. \A r : paths[CHOOSE i \in 1..n : over(i) = r - 1] = paths[pick(r)]
        BY <2>4
    <2> QED
        BY <2>2, <2>5
<1>5. /\ \A i \in 1..n : ahead(i) \in 0..(n - 1)
      /\ \A i, k \in 1..n : ahead(i) = ahead(k) => i = k
      /\ \A r \in 0..(n - 1) : \E i \in 1..n : ahead(i) = r
    BY <1>1, ScoresRank, PlacesAre
<1> HIDE DEF ahead, best, n
<1>6. ASSUME NEW r \in 1..best PROVE pick(r) \in 1..n /\ ahead(pick(r)) = r - 1
    <2>1. r - 1 \in 0..(n - 1)
        BY <1>1, <1>2
    <2> QED
        BY <1>5, <2>1
<1>7. \A r \in 1..best : kept[r] = paths[pick(r)] /\ kept[r] \in Range(paths) /\ kept[r] \in Seq(Nodes)
    BY <1>1, <1>6
<1>8. ASSUME best = n, NEW i \in 1..n PROVE \E r \in 1..best : kept[r] = paths[i]
    <2>1. PICK r : r \in 1..best /\ r - 1 = ahead(i)
        <3>1. ASSUME NEW k \in Nat, NEW a \in 0..(k - 1) PROVE \E r \in 1..k : r - 1 = a
            <4>1. a + 1 \in 1..k
                OBVIOUS
            <4> WITNESS a + 1 \in 1..k
            <4> QED
                OBVIOUS
        <3> QED
            BY <1>1, <1>5, <1>8, <3>1
    <2> HIDE DEF pick
    <2>2. pick(r) = i
        BY <1>5, <1>6, <2>1
    <2> QED
        BY <2>1, <2>2
<1>9. kept \in Seq(Seq(Nodes)) /\ DOMAIN kept = 1..best
    BY <1>2, <1>7
<1> HIDE DEF kept
<1>10. Range(kept) \subseteq Range(paths)
    BY <1>7, <1>9 DEF Range
<1>11. n <= max => Range(kept) = Range(paths)
    <2>1. ASSUME n <= max, NEW p \in Range(paths) PROVE p \in Range(kept)
        BY <1>1, <1>2, <1>8, <1>9, <2>1 DEF Range
    <2> QED
        BY <1>10, <2>1
<1> QED
    BY <1>4, <1>9, <1>10, <1>11 DEF n

\* A list made of a list's items, one by one.
LEMMA ListOf ==
    ASSUME NEW n \in Nat, NEW f, f = [i \in 1..n |-> f[i]]
    PROVE  f \in Seq(Range(f)) /\ Len(f) = n
<1>1. DOMAIN f = 1..n
    OBVIOUS
<1>2. \A i \in 1..n : f[i] \in Range(f)
    BY <1>1 DEF Range
<1> QED
    BY <1>2

\* Four numbers, the first that differs counts.
Over(a, b) ==
    \/ a[1] > b[1]
    \/ a[1] = b[1] /\ a[2] > b[2]
    \/ a[1] = b[1] /\ a[2] = b[2] /\ a[3] > b[3]
    \/ a[1] = b[1] /\ a[2] = b[2] /\ a[3] = b[3] /\ a[4] > b[4]

RankOf(s) == <<IF s.dfg THEN 1 ELSE 0, s.confidence, s.severity, -Len(s.path)>>

LEMMA OutranksIs == ASSUME NEW s, NEW t PROVE Outranks(s, t) <=> Over(RankOf(s), RankOf(t))
<1> DEFINE a == RankOf(s)
           b == RankOf(t)
<1>1. Outranks(s, t) <=> \E i \in 1..4 : a[i] > b[i] /\ \A j \in 1..i - 1 : a[j] = b[j]
    BY DEF Outranks, RankOf
<1> HIDE DEF a, b
<1>2. \A i \in 1..4 : i = 1 \/ i = 2 \/ i = 3 \/ i = 4
    OBVIOUS
<1>3. /\ (\A j \in 1..1 - 1 : a[j] = b[j])
      /\ (\A j \in 1..2 - 1 : a[j] = b[j]) <=> a[1] = b[1]
      /\ (\A j \in 1..3 - 1 : a[j] = b[j]) <=> a[1] = b[1] /\ a[2] = b[2]
      /\ (\A j \in 1..4 - 1 : a[j] = b[j]) <=> a[1] = b[1] /\ a[2] = b[2] /\ a[3] = b[3]
    OBVIOUS
<1>4. 1 \in 1..4 /\ 2 \in 1..4 /\ 3 \in 1..4 /\ 4 \in 1..4
    OBVIOUS
<1>5. (\E i \in 1..4 : a[i] > b[i] /\ \A j \in 1..i - 1 : a[j] = b[j]) <=> Over(a, b)
    BY <1>2, <1>3, <1>4 DEF Over
<1> QED
    BY <1>1, <1>5 DEF a, b

Four(a) == a[1] \in Int /\ a[2] \in Int /\ a[3] \in Int /\ a[4] \in Int

LEMMA OverRanks ==
    ASSUME NEW a, NEW b, NEW c, Four(a), Four(b), Four(c)
    PROVE  ~Over(a, a) /\ (Over(a, b) => ~Over(b, a)) /\ (Over(a, b) /\ ~Over(c, b) => Over(a, c))
<1>1. \A x1, x2, x3, x4 \in Int : ~(x1 > x1) /\ ~(x2 > x2) /\ ~(x3 > x3) /\ ~(x4 > x4)
    OBVIOUS
<1>2. \A x, y \in Int : (x > y => ~(y > x) /\ x # y /\ y # x) /\ (~(x > y) => x = y \/ y > x)
    OBVIOUS
<1>3. \A x, y, z \in Int : x > y /\ y > z => x > z
    OBVIOUS
<1>4. ~Over(a, a)
    BY <1>1 DEF Four, Over
<1>5. Over(a, b) => ~Over(b, a)
    BY <1>2 DEF Four, Over
<1>6. ASSUME Over(a, b), ~Over(c, b) PROVE Over(a, c)
    <2>1. \/ b[1] > c[1]
          \/ b[1] = c[1] /\ b[2] > c[2]
          \/ b[1] = c[1] /\ b[2] = c[2] /\ b[3] > c[3]
          \/ b[1] = c[1] /\ b[2] = c[2] /\ b[3] = c[3] /\ (b[4] = c[4] \/ b[4] > c[4])
        BY <1>2, <1>6 DEF Four, Over
    <2>2. CASE a[1] > b[1]
        <3>1. a[1] > c[1]
            BY <1>3, <2>1, <2>2 DEF Four
        <3> QED
            BY <3>1 DEF Over
    <2>3. CASE a[1] = b[1] /\ a[2] > b[2]
        <3>1. a[1] > c[1] \/ (a[1] = c[1] /\ a[2] > c[2])
            BY <1>3, <2>1, <2>3 DEF Four
        <3> QED
            BY <3>1 DEF Over
    <2>4. CASE a[1] = b[1] /\ a[2] = b[2] /\ a[3] > b[3]
        <3>1. a[1] > c[1] \/ (a[1] = c[1] /\ a[2] > c[2]) \/ (a[1] = c[1] /\ a[2] = c[2] /\ a[3] > c[3])
            BY <1>3, <2>1, <2>4 DEF Four
        <3> QED
            BY <3>1 DEF Over
    <2>5. CASE a[1] = b[1] /\ a[2] = b[2] /\ a[3] = b[3] /\ a[4] > b[4]
        <3>1. \/ a[1] > c[1] \/ (a[1] = c[1] /\ a[2] > c[2]) \/ (a[1] = c[1] /\ a[2] = c[2] /\ a[3] > c[3])
              \/ (a[1] = c[1] /\ a[2] = c[2] /\ a[3] = c[3] /\ a[4] > c[4])
            BY <1>3, <2>1, <2>5 DEF Four
        <3> QED
            BY <3>1 DEF Over
    <2> QED
        BY <1>6, <2>2, <2>3, <2>4, <2>5 DEF Over
<1> QED
    BY <1>4, <1>5, <1>6

\* A slice whose rank is made of numbers.
Ranked(s) == s.confidence \in Int /\ s.severity \in Int /\ Len(s.path) \in Int
Better(slices) == {ij \in (1..Len(slices)) \X (1..Len(slices)) : Outranks(slices[ij[1]], slices[ij[2]])}

LEMMA SlicesRank ==
    ASSUME NEW slices, Len(slices) \in Nat, \A i \in 1..Len(slices) : Ranked(slices[i])
    PROVE  Ranks(Better(slices), Len(slices))
<1> DEFINE D == 1..Len(slices)
           r(i) == RankOf(slices[i])
           R == Better(slices)
<1>1. \A i, j \in D : <<i, j>> \in R <=> Over(r(i), r(j))
    BY OutranksIs DEF Better
<1>2. \A i \in D : Four(r(i))
    BY DEF RankOf, Ranked, Four
<1> HIDE DEF r, R
<1>3. ASSUME NEW i \in D, NEW j \in D, NEW k \in D
      PROVE  ~Over(r(i), r(i)) /\ (Over(r(i), r(j)) => ~Over(r(j), r(i)))
             /\ (Over(r(i), r(j)) /\ ~Over(r(k), r(j)) => Over(r(i), r(k)))
    BY <1>2, OverRanks
<1> HIDE DEF D
<1>4. Ranks(R, Len(slices))
    BY <1>1, <1>3 DEF Ranks, D
<1> QED
    BY <1>4 DEF R

\* Removing duplicates leaves slices, and one at every place.
LEMMA DeduplicatedIs ==
    ASSUME NEW slices, slices \in Seq(Range(slices)), \A i \in 1..Len(slices) : Ranked(slices[i])
    PROVE  /\ Range(Deduplicated(slices)) \subseteq Range(slices)
           /\ \A i \in 1..Len(slices) : \E s \in Range(Deduplicated(slices)) : Place(s) = Place(slices[i])
<1> DEFINE n == Len(slices)
           R == Better(slices)
           best == {i \in 1..n : \A j \in 1..n : Place(slices[j]) = Place(slices[i])
                      => (j < i => Outranks(slices[i], slices[j])) /\ ~Outranks(slices[j], slices[i])}
           places == InOrder(slices, best)
           out == [k \in DOMAIN places |-> slices[places[k]]]
<1>1. n \in Nat /\ DOMAIN slices = 1..n
    OBVIOUS
<1>2. Deduplicated(slices) = out
    BY <1>1 DEF Deduplicated, Map
<1> HIDE DEF R
<1>3. Ranks(R, n)
    BY <1>1, SlicesRank DEF R
<1>4. \A i, j \in 1..n : <<i, j>> \in R <=> Outranks(slices[i], slices[j])
    BY DEF R, Better
<1>5. ASSUME NEW i \in 1..n PROVE \E k \in best : Place(slices[k]) = Place(slices[i])
    <2> DEFINE same == {j \in 1..n : Place(slices[j]) = Place(slices[i])}
    <2>1. same # {} /\ same \in SUBSET (1..n)
        OBVIOUS
    <2> HIDE DEF n
    <2>2. PICK k \in same : \A j \in same : <<j, k>> \notin R /\ (j < k => <<k, j>> \in R)
        <3> HIDE DEF same
        <3> QED
            BY <1>1, <1>3, <2>1, FirstBest
    <2>3. k \in best
        BY <1>4, <2>2
    <2> QED
        BY <2>2, <2>3
<1>6. places \in Seq(1..n) /\ Range(places) = best
    <2>1. best \in SUBSET (1..n)
        OBVIOUS
    <2> HIDE DEF best
    <2> QED
        BY <2>1, InOrderIs
<1> HIDE DEF best, places
<1>7. DOMAIN out = DOMAIN places /\ \A k \in DOMAIN places : out[k] = slices[places[k]] /\ places[k] \in 1..n
    BY <1>6
<1> HIDE DEF out, n
<1>8. Range(out) \subseteq Range(slices)
    BY <1>1, <1>7 DEF Range
<1>9. ASSUME NEW i \in 1..n PROVE \E s \in Range(out) : Place(s) = Place(slices[i])
    <2>1. PICK k \in best : Place(slices[k]) = Place(slices[i])
        BY <1>5
    <2>2. PICK j \in DOMAIN places : places[j] = k
        BY <1>6 DEF Range
    <2> QED
        BY <1>7, <2>1, <2>2 DEF Range
<1> QED
    BY <1>2, <1>8, <1>9 DEF n

\* What PathDiscovery.discover makes of the paths.
LEMMA DiscoveredIs ==
    ASSUME Chosen, Discovery, NEW paths \in Seq(Seq(Nodes)), \A i \in 1..Len(paths) : Len(paths[i]) > 0
    PROVE  /\ \A s \in Range(Discovered(paths)) : \E p \in Range(paths) : s.path = p /\ s.source = p[1] /\ s.sink = Last(p)
           /\ Len(paths) <= MaxPaths => \A p \in Range(paths) :
                 Len(p) > 1 /\ Scores(p) /\ ~(Node(Last(p)).db /\ Prepared(p))
                   => \E s \in Range(Discovered(paths)) : s.source = p[1] /\ s.sink = Last(p)
<1> DEFINE S == Seq(Nodes)
           short == {p \in Range(paths) : Len(p) < 2}
           long  == Not(paths, short)
           low   == {p \in Range(paths) : ~Scores(p)}
           good  == Not(long, low)
           kept  == BestOf(good, MaxPaths)
           safe  == {p \in Range(kept) : Node(Last(p)).db /\ Prepared(p)}
           left  == Not(kept, safe)
           out   == [i \in DOMAIN left |-> DiscoverySlice(left[i])]
<1>1. Discovered(paths) = out
    BY DEF Discovered, Long, Map
<1> HIDE DEF out
<1>2. long \in Seq(S) /\ Range(long) = Range(paths) \ short /\ Len(long) <= Len(paths)
    <2> HIDE DEF short, S
    <2>1. paths \in Seq(S)
        BY DEF S
    <2> QED
        BY <2>1, NotIs
<1>3. good \in Seq(S) /\ Range(good) = Range(long) \ low /\ Len(good) <= Len(long)
    <2> HIDE DEF low, long, S
    <2> QED
        BY <1>2, NotIs
<1>4. \A i \in 1..Len(good) : Len(good[i]) > 0
    <2>1. \A p \in Range(paths) : Len(p) > 0
        BY DEF Range
    <2> HIDE DEF good, long, short, low, S
    <2>2. \A i \in 1..Len(good) : good[i] \in Range(good)
        BY <1>3 DEF Range
    <2> QED
        BY <1>2, <1>3, <2>1, <2>2
<1> HIDE DEF long, good, kept
<1>5. kept \in Seq(S) /\ Range(kept) \subseteq Range(good) /\ (Len(good) <= MaxPaths => Range(kept) = Range(good))
    BY <1>3, <1>4, BestOfIs, LimitsAssumption DEF kept
<1> HIDE DEF safe, S
<1>6. left \in Seq(S) /\ Range(left) = Range(kept) \ safe
    BY <1>5, NotIs
<1> HIDE DEF left
<1>7. \A s : s \in Range(out) <=> \E p \in Range(left) : s = DiscoverySlice(p)
    BY DEF Range, out
<1>8. \A p : DiscoverySlice(p).path = p /\ DiscoverySlice(p).source = p[1] /\ DiscoverySlice(p).sink = Last(p)
    BY DEF DiscoverySlice
<1>9. \A s \in Range(out) : \E p \in Range(paths) : s.path = p /\ s.source = p[1] /\ s.sink = Last(p)
    BY <1>2, <1>3, <1>5, <1>6, <1>7, <1>8
<1>10. ASSUME Len(paths) <= MaxPaths, NEW p \in Range(paths), Len(p) > 1, Scores(p), ~(Node(Last(p)).db /\ Prepared(p))
       PROVE  \E s \in Range(out) : s.source = p[1] /\ s.sink = Last(p)
    <2>1. Len(good) <= MaxPaths
        <3>1. Len(good) \in Nat /\ Len(long) \in Nat /\ Len(paths) \in Nat /\ MaxPaths \in Nat
            BY <1>2, <1>3, LimitsAssumption
        <3> QED
            BY <1>2, <1>3, <1>10, <3>1
    <2>2. p \notin short /\ p \notin low /\ p \notin safe
        <3>1. Len(p) \in Nat
            BY DEF Range
        <3> QED
            BY <1>10, <3>1 DEF safe
    <2>3. p \in Range(left)
        BY <1>2, <1>3, <1>5, <1>6, <2>1, <2>2
    <2> QED
        BY <1>7, <1>8, <2>3
<1> QED
    BY <1>1, <1>9, <1>10

LEMMA MatchSlicesAre ==
    ASSUME Chosen, ~Discovery
    PROVE  MatchSlices \in Seq(Range(MatchSlices)) /\ \A s \in Range(MatchSlices) : s.path = <<>> /\ Ranked(s)
<1> DEFINE M == Range(fgraph.matches)
           other == {m \in M : m.rule # fjob.rule \/ ~m.admitted}
           hits == Not(fgraph.matches, other)
           cleaned(m) == m.sanitized /\ ~fjob.compliant
           S(m) == [rule |-> fjob.rule, source |-> 0, sink |-> 0, path |-> <<>>, dfg |-> FALSE,
                    label |-> m.label, lines |-> {m.line}, file |-> m.file,
                    confidence |-> IF cleaned(m) THEN 1 ELSE fjob.confidence,
                    severity |-> IF cleaned(m) THEN Downgraded(fjob.severity) ELSE fjob.severity]
           out == [i \in DOMAIN hits |-> S(hits[i])]
<1>1. fgraph.matches \in Seq(M) /\ fjob.confidence \in Nat /\ fjob.severity \in Nat
    BY GraphAssumption, JobAssumption DEF Chosen, Discovery
<1>2. MatchSlices = out
    BY DEF MatchSlices
<1> HIDE DEF M, other
<1>3. hits \in Seq(M)
    BY <1>1, NotIs
<1>4. ASSUME NEW m PROVE S(m).path = <<>> /\ Ranked(S(m))
    <2>1. Downgraded(fjob.severity) \in Int
        BY <1>1 DEF Downgraded
    <2>2. /\ S(m).path = <<>>
          /\ S(m).confidence = IF cleaned(m) THEN 1 ELSE fjob.confidence
          /\ S(m).severity = IF cleaned(m) THEN Downgraded(fjob.severity) ELSE fjob.severity
        OBVIOUS
    <2> HIDE DEF S, cleaned
    <2>3. Len(<<>>) = 0
        OBVIOUS
    <2> QED
        BY <1>1, <2>1, <2>2, <2>3 DEF Ranked
<1> HIDE DEF S, hits
<1>5. Len(hits) \in Nat /\ DOMAIN hits = 1..Len(hits)
    BY <1>3
<1>6. \A s \in Range(out) : \E m : s = S(m)
    BY DEF Range
<1>7. out \in Seq(Range(out))
    <2> DEFINE n == Len(hits)
    <2>1. out = [i \in 1..n |-> S(hits[i])] /\ n \in Nat
        BY <1>5
    <2>2. out = [i \in 1..n |-> out[i]]
        BY <2>1
    <2> HIDE DEF out
    <2> QED
        BY <2>1, <2>2, ListOf
<1> HIDE DEF out
<1> QED
    BY <1>2, <1>4, <1>6, <1>7

LEMMA RuleSliceIs ==
    ASSUME Chosen, ~Discovery, NEW p, Len(p) \in Nat
    PROVE  /\ RuleSlice(p).path = p /\ RuleSlice(p).source = p[1] /\ RuleSlice(p).sink = Last(p)
           /\ Ranked(RuleSlice(p))
<1>1. fjob.confidence \in Nat /\ fjob.severity \in Nat
    BY JobAssumption DEF Chosen, Discovery
<1>2. Downgraded(fjob.severity) \in Int
    BY <1>1 DEF Downgraded
<1> DEFINE cleaned == \E i \in DOMAIN p : Node(p[i]).role = "sanitizer" \/ Node(p[i]).clean
<1>3. /\ RuleSlice(p).path = p /\ RuleSlice(p).source = p[1] /\ RuleSlice(p).sink = Last(p)
      /\ RuleSlice(p).confidence = IF cleaned THEN 1 ELSE fjob.confidence
      /\ RuleSlice(p).severity = IF cleaned THEN Downgraded(fjob.severity) ELSE fjob.severity
    BY DEF RuleSlice
<1> HIDE DEF cleaned
<1> QED
    BY <1>1, <1>2, <1>3 DEF Ranked

\* What QueryExecutor.execute_query makes of the paths.
LEMMA ExecutedIs ==
    ASSUME Chosen, ~Discovery, NEW paths \in Seq(Seq(Nodes))
    PROVE  /\ \A s \in Range(Executed(paths)) : s.path # <<>> =>
                 \E p \in Range(paths) : s.path = p /\ s.source = p[1]
           /\ Len(paths) <= MaxPaths /\ Sources # {} /\ Sinks # {} => \A p \in Range(paths) :
                 Len(p) > 1 /\ ~(fjob.sql /\ Prepared(p)) =>
                    \E s \in Range(Executed(paths)) : Place(s) = Place(RuleSlice(p))
<1> DEFINE S == Seq(Nodes)
           some == AtMost(MaxPaths, Len(paths))
           first == SubSeq(paths, 1, some)
           short == {p \in Range(first) : Len(p) < 2}
           long  == Not(first, short)
           safe  == {p \in Range(first) : fjob.sql /\ Prepared(p)}
           flows == Not(long, safe)
           made  == [i \in DOMAIN flows |-> RuleSlice(flows[i])]
           all   == made \o MatchSlices
<1>1. Executed(paths) = IF Sources = {} \/ Sinks = {} THEN MatchSlices ELSE Deduplicated(all)
    BY DEF Executed, Long, Map
<1>2. Len(paths) \in Nat /\ MaxPaths \in Nat
    BY LimitsAssumption
<1>0. DOMAIN paths = 1..Len(paths)
    OBVIOUS
<1>3. some \in Nat /\ some <= Len(paths) /\ (Len(paths) <= MaxPaths => some = Len(paths))
    BY <1>2 DEF AtMost
<1> HIDE DEF some
<1>4. first \in Seq(S) /\ Range(first) \subseteq Range(paths) /\ (Len(paths) <= MaxPaths => Range(first) = Range(paths))
    <2>1. first \in Seq(S) /\ Len(first) = some /\ \A i \in 1..some : first[i] = paths[i] /\ i \in 1..Len(paths)
        BY <1>2, <1>3
    <2>2. DOMAIN first = 1..some
        BY <2>1
    <2> HIDE DEF first
    <2> QED
        BY <1>0, <1>2, <1>3, <2>1, <2>2 DEF Range
<1> HIDE DEF first, S
<1>5. long \in Seq(S) /\ Range(long) = Range(first) \ short
    <2> HIDE DEF short
    <2> QED
        BY <1>4, NotIs
<1> HIDE DEF long
<1>6. flows \in Seq(S) /\ Range(flows) = Range(long) \ safe
    <2> HIDE DEF safe
    <2> QED
        BY <1>5, NotIs
<1> HIDE DEF flows
<1>7. \A p \in Range(flows) : p \in Range(paths) /\ Len(p) \in Nat
    <2>1. \A p \in S : Len(p) \in Nat
        BY DEF S
    <2>2. \A p \in Range(flows) : p \in S
        BY <1>6 DEF Range
    <2> QED
        BY <1>4, <1>5, <1>6, <2>1, <2>2
<1>8. made \in Seq(Range(made)) /\ Len(made) \in Nat /\ \A s : s \in Range(made) <=> \E p \in Range(flows) : s = RuleSlice(p)
    <2> DEFINE n == Len(flows)
    <2>1. n \in Nat /\ DOMAIN flows = 1..n
        BY <1>6
    <2>2. made = [i \in 1..n |-> made[i]]
        BY <2>1
    <2>3. \A s : s \in Range(made) <=> \E p \in Range(flows) : s = RuleSlice(p)
        BY DEF Range
    <2> HIDE DEF made, n
    <2> QED
        BY <2>1, <2>2, <2>3, ListOf
<1> HIDE DEF made
<1>9. \A s \in Range(made) : \E p \in Range(flows) : s.path = p /\ s.source = p[1] /\ s.sink = Last(p) /\ Ranked(s)
    BY <1>7, <1>8, RuleSliceIs
<1>10. MatchSlices \in Seq(Range(MatchSlices)) /\ \A s \in Range(MatchSlices) : s.path = <<>> /\ Ranked(s)
    BY MatchSlicesAre
<1>11. Range(all) = Range(made) \cup Range(MatchSlices) /\ all \in Seq(Range(all))
    <2> DEFINE T == Range(made) \cup Range(MatchSlices)
               a == Len(made)
               b == Len(MatchSlices)
    <2>1. a \in Nat /\ b \in Nat /\ DOMAIN made = 1..a /\ DOMAIN MatchSlices = 1..b
        BY <1>8, <1>10
    <2>2. made \in Seq(T) /\ MatchSlices \in Seq(T)
        <3>1. (\A i \in 1..a : made[i] \in T) /\ \A i \in 1..b : MatchSlices[i] \in T
            BY <2>1 DEF Range
        <3> HIDE DEF T
        <3> QED
            BY <1>8, <1>10, <2>1, <3>1
    <2> HIDE DEF T
    <2>3. /\ all \in Seq(T) /\ Len(all) = a + b /\ (\A i \in 1..a : all[i] = made[i])
          /\ \A i \in 1..b : all[a + i] = MatchSlices[i]
        BY <2>1, <2>2
    <2> HIDE DEF all, a, b
    <2>4. DOMAIN all = 1..a + b
        BY <2>1, <2>3
    <2>5. ASSUME NEW x \in Range(made) \cup Range(MatchSlices) PROVE x \in Range(all)
        <3>1. CASE x \in Range(made)
            <4>1. PICK i \in 1..a : x = made[i]
                BY <2>1, <3>1 DEF Range
            <4>2. i \in 1..a + b
                BY <2>1
            <4> QED
                BY <2>3, <2>4, <4>1, <4>2 DEF Range
        <3>2. CASE x \in Range(MatchSlices)
            <4>1. PICK i \in 1..b : x = MatchSlices[i]
                BY <2>1, <3>2 DEF Range
            <4>2. a + i \in 1..a + b
                BY <2>1
            <4> QED
                BY <2>3, <2>4, <4>1, <4>2 DEF Range
        <3> QED
            BY <3>1, <3>2
    <2>6. Range(all) \subseteq T
        BY <2>3, <2>4 DEF Range
    <2>7. Range(all) = T
        BY <2>5, <2>6 DEF T
    <2> QED
        BY <2>3, <2>7 DEF T
<1> HIDE DEF all
<1>12. \A i \in 1..Len(all) : Ranked(all[i]) /\ all[i] \in Range(all)
    <2>1. \A i \in 1..Len(all) : all[i] \in Range(all)
        BY <1>11
    <2> QED
        BY <1>9, <1>10, <1>11, <2>1
<1>13. /\ Range(Deduplicated(all)) \subseteq Range(all)
       /\ \A i \in 1..Len(all) : \E s \in Range(Deduplicated(all)) : Place(s) = Place(all[i])
    BY <1>11, <1>12, DeduplicatedIs
<1>14. ASSUME NEW s \in Range(Executed(paths)), s.path # <<>> PROVE \E p \in Range(paths) : s.path = p /\ s.source = p[1]
    <2>1. s \in Range(MatchSlices) \/ s \in Range(made)
        BY <1>1, <1>11, <1>13, <1>14
    <2>2. s \in Range(made)
        BY <1>10, <1>14, <2>1
    <2> QED
        BY <1>7, <1>9, <2>2
<1>15. ASSUME Len(paths) <= MaxPaths, Sources # {}, Sinks # {}, NEW p \in Range(paths), Len(p) > 1, ~(fjob.sql /\ Prepared(p))
       PROVE  \E s \in Range(Executed(paths)) : Place(s) = Place(RuleSlice(p))
    <2>1. Len(p) \in Nat
        <3>1. p \in Seq(Nodes)
            BY DEF Range
        <3> QED
            BY <3>1
    <2>2. p \notin short /\ p \notin safe
        BY <1>15, <2>1
    <2>3. p \in Range(flows)
        BY <1>4, <1>5, <1>6, <1>15, <2>2
    <2>4. RuleSlice(p) \in Range(all)
        BY <1>8, <1>11, <2>3
    <2>5. PICK i \in 1..Len(all) : all[i] = RuleSlice(p)
        BY <1>11, <2>4 DEF Range
    <2>6. PICK s \in Range(Deduplicated(all)) : Place(s) = Place(all[i])
        BY <1>13
    <2> QED
        BY <1>1, <1>15, <2>5, <2>6
<1> QED
    BY <1>14, <1>15

-----------------------------------------------------------------------------
(***************************************************************************)
(* The job around the searches.                                            *)
(***************************************************************************)
Reachable(s, p) ==
    /\ IsPath(p) /\ p[1] = s /\ Len(p) <= MaxDepth /\ Len(p) > 1 /\ Last(p) \in Sinks
    /\ WithinBudget(Crossed(p)) /\ \A i \in 1..Len(p) - 1 : p[i] \notin Sinks

\* Every sink that s reaches has a recorded path from s.
Complete(s, paths) ==
    \A p : Reachable(s, p) => \E i \in 1..Len(paths) : paths[i][1] = s /\ Last(paths[i]) = Last(p)

Wanted == ~ftruncated /\ ~Guarded /\ Sinks # {}

\* No source was taken yet, or s was and those before it are done with.
NoSourceYet == fqueue = <<>> /\ fpaths = <<>> /\ (Wanted => Sources \subseteq Range(ftodo))
SourceTaken(s) ==
    /\ Search(s, fqueue, fseen, fpaths)
    /\ Wanted => \A t \in Sources \ Sinks : t \in Range(ftodo) \/ t = s \/ Complete(t, ffound)

SlicesAreFlows == \A i \in DOMAIN fslices : fslices[i].path # <<>> => IsFlow(fslices[i].path) /\ fslices[i].source = fslices[i].path[1]
FlowsAccounted == ~ftruncated /\ Sources # {} => \A i \in 1..Len(ffound) : Len(ffound[i]) > 1 => Accounted(ffound[i])

FlowInv ==
    /\ Chosen /\ fphase \in {"start", "search", "end"}
    /\ ftodo \in Seq(Nodes) /\ ffound \in Seq(Seq(Nodes)) /\ \A i \in 1..Len(ffound) : IsFlow(ffound[i])
    /\ fphase = "start" => fqueue = <<>> /\ fpaths = <<>> /\ ffound = <<>>
    /\ fphase = "search" => NoSourceYet \/ \E s \in Nodes : SourceTaken(s)
    /\ fphase = "end" => /\ SlicesAreFlows /\ FlowsAccounted
                         /\ Wanted => \A t \in Sources \ Sinks : Complete(t, ffound)

LEMMA JoinedIs ==
    ASSUME NEW S, NEW a \in Seq(S), NEW b \in Seq(S)
    PROVE  /\ a \o b \in Seq(S) /\ Len(a \o b) = Len(a) + Len(b)
           /\ \A i \in 1..Len(a) : (a \o b)[i] = a[i]
           /\ \A i \in 1..Len(b) : (a \o b)[Len(a) + i] = b[i]
           /\ \A i \in 1..Len(a \o b) : i \in 1..Len(a) \/ \E j \in 1..Len(b) : i = Len(a) + j
<1>1. Len(a) \in Nat /\ Len(b) \in Nat /\ a \o b \in Seq(S) /\ Len(a \o b) = Len(a) + Len(b)
    OBVIOUS
<1>2. \A i \in 1..Len(a) + Len(b) : i \in 1..Len(a) \/ (i - Len(a) \in 1..Len(b) /\ i = Len(a) + (i - Len(a)))
    BY <1>1
<1> QED
    BY <1>1, <1>2

LEMMA MoreIsComplete ==
    ASSUME NEW S, NEW a \in Seq(S), NEW b \in Seq(S), NEW s
    PROVE  /\ Complete(s, a) => Complete(s, a \o b)
           /\ Complete(s, b) => Complete(s, a \o b)
<1> DEFINE c == a \o b
<1>1. /\ Len(c) = Len(a) + Len(b) /\ (\A i \in 1..Len(a) : c[i] = a[i]) /\ \A i \in 1..Len(b) : c[Len(a) + i] = b[i]
    BY JoinedIs
<1>2. Len(a) \in Nat /\ Len(b) \in Nat
    OBVIOUS
<1> HIDE DEF c
<1>3. (\A i \in 1..Len(a) : i \in 1..Len(c)) /\ \A i \in 1..Len(b) : Len(a) + i \in 1..Len(c)
    BY <1>1, <1>2
<1>4. ASSUME Complete(s, a) PROVE Complete(s, c)
    BY <1>1, <1>3, <1>4 DEF Complete
<1>5. ASSUME Complete(s, b) PROVE Complete(s, c)
    BY <1>1, <1>3, <1>5 DEF Complete
<1> QED
    BY <1>4, <1>5 DEF c

\* The searches that are over, with the current one when nothing is left in its queue.
LEMMA SearchOver ==
    ASSUME FlowInv, fphase = "search"
    PROVE  /\ fpaths \in Seq(Seq(Nodes)) /\ \A i \in 1..Len(fpaths) : IsFlow(fpaths[i])
           /\ Wanted /\ fqueue = <<>> =>
                \A t \in Sources \ Sinks : t \in Range(ftodo) \/ Complete(t, ffound \o fpaths)
<1>1. Chosen /\ ffound \in Seq(Seq(Nodes))
    BY DEF FlowInv
<1>2. CASE NoSourceYet
    <2>1. <<>> \in Seq(Seq(Nodes)) /\ \A i : i \notin 1..Len(<<>>)
        OBVIOUS
    <2> QED
        BY <1>2, <2>1 DEF NoSourceYet
<1>3. CASE \E s \in Nodes : SourceTaken(s)
    <2>1. PICK s \in Nodes : SourceTaken(s)
        BY <1>3
    <2>2. fpaths \in Seq(Seq(Nodes)) /\ \A i \in 1..Len(fpaths) : IsFlow(fpaths[i]) /\ fpaths[i][1] = s
        BY <2>1 DEF SourceTaken, Search, Steady
    <2>3. ASSUME Wanted, fqueue = <<>>, NEW t \in Sources \ Sinks, t \notin Range(ftodo) PROVE Complete(t, ffound \o fpaths)
        <3>1. CASE t # s
            <4>1. Complete(t, ffound)
                BY <2>1, <2>3, <3>1 DEF SourceTaken
            <4> QED
                BY <1>1, <2>2, <4>1, MoreIsComplete
        <3>2. CASE t = s
            <4>1. Search(s, <<>>, fseen, fpaths) /\ s \notin Sinks
                BY <2>1, <2>3, <3>2 DEF SourceTaken
            <4>2. ASSUME NEW p, Reachable(s, p) PROVE \E i \in 1..Len(fpaths) : fpaths[i][1] = s /\ Last(fpaths[i]) = Last(p)
                <5>1. \E i \in 1..Len(fpaths) : Last(fpaths[i]) = Last(p)
                    BY <1>1, <4>1, <4>2, SearchComplete DEF Reachable
                <5> QED
                    BY <2>2, <5>1
            <4>3. Complete(s, fpaths)
                BY <4>2 DEF Complete
            <4> QED
                BY <1>1, <2>2, <3>2, <4>3, MoreIsComplete
        <3> QED
            BY <3>1, <3>2
    <2> QED
        BY <2>2, <2>3
<1> QED
    BY <1>2, <1>3 DEF FlowInv

LEMMA FlowInvInit == FlowInit => FlowInv
<1> SUFFICES ASSUME FlowInit PROVE FlowInv
    OBVIOUS
<1>1. <<>> \in Seq(Nodes) /\ <<>> \in Seq(Seq(Nodes)) /\ \A i : i \notin 1..Len(<<>>)
    OBVIOUS
<1> QED
    BY <1>1 DEF FlowInit, FlowInv, Chosen

\* What the invariant says of a graph and a job does not change with the rest.
LEMMA GraphStays ==
    ASSUME fgraph' = fgraph, fjob' = fjob
    PROVE  /\ Chosen' <=> Chosen
           /\ Nodes' = Nodes /\ Sources' = Sources /\ Sinks' = Sinks
           /\ Guarded' <=> Guarded
           /\ \A p : IsFlow(p)' <=> IsFlow(p)
           /\ \A s, paths : Complete(s, paths)' <=> Complete(s, paths)
           /\ \A s, q, seen, paths : Search(s, q, seen, paths)' <=> Search(s, q, seen, paths)
<1>1. (Chosen' <=> Chosen) /\ Nodes' = Nodes /\ Sources' = Sources /\ Sinks' = Sinks /\ (Guarded' <=> Guarded)
    BY DEF Chosen, Nodes, Node, Sources, Sinks, Guarded, Discovery
<1>2. ASSUME NEW p PROVE IsFlow(p)' <=> IsFlow(p)
    BY DEF IsFlow, IsPath, Hops, Node, Nodes, Sinks, Discovery, Followed, Neighbors, WithinBudget
<1>3. ASSUME NEW s, NEW paths PROVE Complete(s, paths)' <=> Complete(s, paths)
    BY DEF Complete, Reachable, IsPath, Crossed, Node, Nodes, Sinks, Discovery, Followed, Neighbors, WithinBudget
<1>4. ASSUME NEW s, NEW q, NEW seen, NEW paths PROVE Search(s, q, seen, paths)' <=> Search(s, q, seen, paths)
    BY DEF Search, Steady, Sound, Traced, Met, Waits, Caught, Cost, Tried, Explored, IsFlow, InLevels, Owed,
           IsPath, Carries, Hops, Node, Nodes, Sinks, Discovery, Followed, Neighbors, WithinBudget, States, Entries
<1> QED
    BY <1>1, <1>2, <1>3, <1>4

\* The steps of a search.
LEMMA SearchGoesOn ==
    ASSUME FlowInv, fphase = "search", UNCHANGED <<fgraph, fjob, fphase, ftodo, ffound, ftruncated, fslices>>,
           NEW s \in Nodes, SourceTaken(s), NEW q, NEW seen, NEW paths, Search(s, q, seen, paths),
           q = fqueue', seen = fseen', paths = fpaths'
    PROVE  FlowInv'
<1>1. /\ Chosen' <=> Chosen
      /\ Nodes' = Nodes /\ Sources' = Sources /\ Sinks' = Sinks
      /\ Guarded' <=> Guarded
      /\ \A p : IsFlow(p)' <=> IsFlow(p)
      /\ \A t, ps : Complete(t, ps)' <=> Complete(t, ps)
      /\ Search(s, q, seen, paths)' <=> Search(s, q, seen, paths)
    BY GraphStays
<1>2. Search(s, fqueue, fseen, fpaths)'
    BY <1>1
<1>3. Wanted' <=> Wanted
    BY <1>1 DEF Wanted
<1>4. \A t : Complete(t, ffound)' <=> Complete(t, ffound)
    BY <1>1
<1>5. SourceTaken(s)'
    <2>1. Wanted' => \A t \in Sources' \ Sinks' : t \in Range(ftodo') \/ t = s \/ Complete(t, ffound)'
        BY <1>1, <1>3, <1>4 DEF SourceTaken
    <2> QED
        BY <1>2, <2>1 DEF SourceTaken
<1>6. /\ Chosen' /\ ftodo' \in Seq(Nodes') /\ ffound' \in Seq(Seq(Nodes')) /\ fphase' = "search"
      /\ \A i \in 1..Len(ffound') : IsFlow(ffound[i])'
    BY <1>1 DEF FlowInv
<1>7. (\E t \in Nodes : SourceTaken(t))'
    BY <1>1, <1>5
<1> QED
    BY <1>6, <1>7 DEF FlowInv

LEMMA StepsOfASearch == FlowInv /\ (DropPath \/ RecordPath \/ ExtendPath) => FlowInv'
<1> SUFFICES ASSUME FlowInv, DropPath \/ RecordPath \/ ExtendPath PROVE FlowInv'
    OBVIOUS
<1>1. Searching /\ fphase = "search" /\ fqueue # <<>> /\ Chosen
    BY DEF DropPath, RecordPath, ExtendPath, Searching, FlowInv
<1>2. PICK s \in Nodes : SourceTaken(s)
    BY <1>1 DEF FlowInv, NoSourceYet
<1>3. Search(s, fqueue, fseen, fpaths)
    BY <1>2 DEF SourceTaken
<1>4. UNCHANGED <<fgraph, fjob, fphase, ftodo, ffound, ftruncated, fslices>>
    BY DEF DropPath, RecordPath, ExtendPath
<1>5. CASE DropPath
    <2>1. PICK q : q = fqueue'
        OBVIOUS
    <2>2. PICK seen : seen = fseen'
        OBVIOUS
    <2>3. PICK paths : paths = fpaths'
        OBVIOUS
    <2>4. q = Tail(fqueue) /\ seen = fseen /\ paths = fpaths
        BY <1>5, <2>1, <2>2, <2>3 DEF DropPath
    <2>5. Search(s, Tail(fqueue), fseen, fpaths)
        BY <1>1, <1>3, <1>5, HeadDropped DEF DropPath
    <2>6. Search(s, q, seen, paths)
        BY <2>4, <2>5
    <2> QED
        BY <1>1, <1>2, <1>4, <2>1, <2>2, <2>3, <2>6, SearchGoesOn
<1>6. CASE RecordPath
    <2>1. PICK q : q = fqueue'
        OBVIOUS
    <2>2. PICK seen : seen = fseen'
        OBVIOUS
    <2>3. PICK paths : paths = fpaths'
        OBVIOUS
    <2>4. q = Tail(fqueue) /\ seen = fseen /\ paths = Append(fpaths, Head(fqueue).path)
        BY <1>6, <2>1, <2>2, <2>3 DEF RecordPath
    <2>5. Search(s, Tail(fqueue), fseen, Append(fpaths, Head(fqueue).path))
        BY <1>1, <1>3, <1>6, HeadRecorded DEF RecordPath
    <2>6. Search(s, q, seen, paths)
        BY <2>4, <2>5
    <2> QED
        BY <1>1, <1>2, <1>4, <2>1, <2>2, <2>3, <2>6, SearchGoesOn
<1>7. CASE ExtendPath
    <2>1. PICK q : q = fqueue'
        OBVIOUS
    <2>2. PICK seen : seen = fseen'
        OBVIOUS
    <2>3. PICK paths : paths = fpaths'
        OBVIOUS
    <2> DEFINE e == Head(fqueue)
    <2>4. q = Expanded(e).queue /\ seen = Expanded(e).seen /\ paths = fpaths
        BY <1>7, <2>1, <2>2, <2>3 DEF ExtendPath
    <2>5. ~Longest(e) /\ Last(e.path) \notin Sinks
        BY <1>7 DEF ExtendPath
    <2>6. Goer(s, e) /\ \E d : Going(s, e, Tail(fqueue), fseen, fpaths, d, {})
        BY <1>1, <1>3, <2>5, HeadExtended
    <2>7. Search(s, Expanded(e).queue, Expanded(e).seen, fpaths)
        BY <1>1, <2>6, ExpandedKeeps
    <2>8. Search(s, q, seen, paths)
        BY <2>4, <2>7
    <2> QED
        BY <1>1, <1>2, <1>4, <2>1, <2>2, <2>3, <2>8, SearchGoesOn
<1> QED
    BY <1>5, <1>6, <1>7

LEMMA StartJobKeeps == FlowInv /\ StartJob => FlowInv'
<1> SUFFICES ASSUME FlowInv, StartJob PROVE FlowInv'
    OBVIOUS
<1>1. fphase = "start" /\ fphase' = "search" /\ UNCHANGED <<fgraph, fjob, fqueue, fpaths, ffound, ftruncated>>
    BY DEF StartJob
<1>2. /\ Chosen' <=> Chosen
      /\ Nodes' = Nodes /\ Sources' = Sources /\ Sinks' = Sinks /\ (Guarded' <=> Guarded)
      /\ \A p : IsFlow(p)' <=> IsFlow(p)
    BY <1>1, GraphStays
<1>3. Chosen /\ fqueue' = <<>> /\ fpaths' = <<>> /\ ffound' = <<>>
    BY <1>1 DEF FlowInv
<1> DEFINE order == InOrder(fgraph.nodes, Sources)
<1>4. order \in Seq(Nodes) /\ Range(order) = Sources
    <2>1. fgraph.nodes \in Seq(Range(fgraph.nodes))
        BY <1>3, GraphAssumption DEF Chosen
    <2>2. Nodes = 1..Len(fgraph.nodes) /\ Sources \subseteq Nodes
        BY <1>3, GraphIs
    <2> QED
        BY <2>1, <2>2, InOrderIs
<1> HIDE DEF order
<1>5. ftodo' = IF Sinks = {} \/ Guarded THEN <<>> ELSE order
    BY DEF StartJob, order
<1>6. ftodo' \in Seq(Nodes)
    BY <1>4, <1>5
<1>7. Wanted' => Sources' \subseteq Range(ftodo')
    BY <1>2, <1>4, <1>5 DEF Wanted
<1>8. NoSourceYet'
    BY <1>3, <1>7 DEF NoSourceYet
<1>9. ffound' \in Seq(Seq(Nodes)) /\ \A i : i \notin 1..Len(ffound')
    BY <1>3
<1> QED
    BY <1>1, <1>2, <1>3, <1>6, <1>8, <1>9 DEF FlowInv

LEMMA NextSourceKeeps == FlowInv /\ NextSource => FlowInv'
<1> SUFFICES ASSUME FlowInv, NextSource PROVE FlowInv'
    OBVIOUS
<1> DEFINE s == Head(ftodo)
           entry == [path |-> <<s>>, hops |-> 0, file |-> Node(s).file]
<1>1. /\ fphase = "search" /\ ftodo # <<>> /\ ftodo' = Tail(ftodo) /\ fpaths' = <<>> /\ ffound' = ffound \o fpaths
      /\ ftruncated' = (ftruncated \/ fqueue # <<>>) /\ fqueue' = <<entry>> /\ fseen' = {SeenAs(s, 0)}
      /\ UNCHANGED <<fgraph, fjob, fphase>>
    BY DEF NextSource
<1>2. /\ Chosen' <=> Chosen
      /\ Nodes' = Nodes /\ Sources' = Sources /\ Sinks' = Sinks /\ (Guarded' <=> Guarded)
      /\ \A p : IsFlow(p)' <=> IsFlow(p)
      /\ \A t, ps : Complete(t, ps)' <=> Complete(t, ps)
      /\ \A t, q, seen, ps : Search(t, q, seen, ps)' <=> Search(t, q, seen, ps)
    BY <1>1, GraphStays
<1>3. /\ Chosen /\ ftodo \in Seq(Nodes) /\ ffound \in Seq(Seq(Nodes)) /\ \A i \in 1..Len(ffound) : IsFlow(ffound[i])
    BY DEF FlowInv
<1>4. s \in Nodes /\ ftodo' \in Seq(Nodes) /\ \A t \in Range(ftodo) : t = s \/ t \in Range(ftodo')
    <2>1. s \in Nodes /\ Tail(ftodo) \in Seq(Nodes) /\ Len(Tail(ftodo)) = Len(ftodo) - 1 /\ Len(ftodo) \in Nat
        BY <1>1, <1>3
    <2>2. ASSUME NEW i \in 1..Len(ftodo) PROVE ftodo[i] = s \/ ftodo[i] \in Range(Tail(ftodo))
        <3>1. CASE i = 1
            BY <1>3, <3>1
        <3>2. CASE i # 1
            <4>1. i - 1 \in 1..Len(Tail(ftodo)) /\ Tail(ftodo)[i - 1] = ftodo[i]
                BY <1>1, <1>3, <2>1, <3>2
            <4>2. DOMAIN Tail(ftodo) = 1..Len(Tail(ftodo))
                BY <2>1
            <4> QED
                BY <4>1, <4>2 DEF Range
        <3> QED
            BY <3>1, <3>2
    <2>3. \A t \in Range(ftodo) : \E i \in 1..Len(ftodo) : t = ftodo[i]
        BY <1>3 DEF Range
    <2> QED
        BY <1>1, <2>1, <2>2, <2>3
<1>5. /\ fpaths \in Seq(Seq(Nodes)) /\ \A i \in 1..Len(fpaths) : IsFlow(fpaths[i])
      /\ Wanted /\ fqueue = <<>> => \A t \in Sources \ Sinks : t \in Range(ftodo) \/ Complete(t, ffound \o fpaths)
    BY <1>1, SearchOver
<1> DEFINE joined == ffound \o fpaths
<1>6. joined \in Seq(Seq(Nodes)) /\ \A i \in 1..Len(joined) : IsFlow(joined[i])
    BY <1>3, <1>5, JoinedIs
<1>7. Search(s, <<entry>>, {SeenAs(s, 0)}, <<>>)
    BY <1>3, <1>4, FreshSearch
<1> HIDE DEF s, entry, joined
<1>8. PICK t \in Nodes : t = s
    BY <1>4
<1>9. PICK q : q = <<entry>>
    OBVIOUS
<1>10. PICK seen : seen = {SeenAs(s, 0)}
    OBVIOUS
<1>11. PICK found : found = joined
    OBVIOUS
<1>12. q = fqueue' /\ seen = fseen' /\ found = ffound' /\ found = ffound \o fpaths
    BY <1>1, <1>9, <1>10, <1>11 DEF joined
<1>13. Search(t, q, seen, <<>>)'
    BY <1>2, <1>7, <1>8, <1>9, <1>10
<1>14. Search(t, fqueue, fseen, fpaths)'
    BY <1>1, <1>12, <1>13
<1>15. ASSUME Wanted', NEW u \in Sources' \ Sinks', u \notin Range(ftodo'), u # t PROVE Complete(u, ffound)'
    <2>1. Wanted /\ fqueue = <<>>
        BY <1>1, <1>2, <1>15 DEF Wanted
    <2>2. u \in Sources \ Sinks /\ u \notin Range(ftodo)
        BY <1>2, <1>4, <1>8, <1>15
    <2>3. Complete(u, found)
        BY <1>5, <1>12, <2>1, <2>2
    <2>4. Complete(u, found)'
        BY <1>2, <2>3
    <2> QED
        BY <1>12, <2>4
<1>16. SourceTaken(t)'
    <2>1. Wanted' => \A u \in Sources' \ Sinks' : u \in Range(ftodo') \/ u = t \/ Complete(u, ffound)'
        BY <1>15
    <2> QED
        BY <1>14, <2>1 DEF SourceTaken
<1>17. ffound' \in Seq(Seq(Nodes')) /\ \A i \in 1..Len(ffound') : IsFlow(ffound[i])'
    <2>1. \A i \in 1..Len(found) : IsFlow(found[i])'
        BY <1>2, <1>6, <1>11
    <2>2. ASSUME NEW i \in 1..Len(ffound') PROVE IsFlow(ffound[i])'
        <3>1. PICK p : p = found[i]
            OBVIOUS
        <3>2. IsFlow(p)'
            BY <1>12, <2>1, <3>1, <2>2
        <3>3. p = ffound'[i]
            BY <1>12, <3>1
        <3> QED
            BY <3>2, <3>3
    <2>3. ffound' \in Seq(Seq(Nodes'))
        BY <1>2, <1>6, <1>11, <1>12
    <2> QED
        BY <2>2, <2>3
<1>18. fphase' = "search" /\ Chosen' /\ ftodo' \in Seq(Nodes') /\ \E u \in Nodes' : SourceTaken(u)'
    BY <1>1, <1>2, <1>3, <1>4, <1>16
<1> QED
    BY <1>17, <1>18 DEF FlowInv

\* Accounted, of any slices and any paths.
AccountedIn(slices, found, path) ==
  LET alike == {j \in DOMAIN found : found[j][1] = path[1] /\ Last(found[j]) = Last(path)}
  IN
    \/ Discovery /\ \E i \in DOMAIN slices : slices[i].source = path[1] /\ slices[i].sink = Last(path)
    \/ Discovery /\ Node(Last(path)).db /\ Node(Last(path)).bound
    \/ Discovery /\ \E j \in alike : ~Scores(found[j])
    \/ ~Discovery /\ \E j \in alike, i \in DOMAIN slices : Place(slices[i]) = Place(RuleSlice(found[j]))
    \/ ~Discovery /\ fjob.sql /\ Node(Last(path)).bound

\* A slice with the ends, of path discovery, is enough.
LEMMA SliceAccounts ==
    ASSUME Discovery, NEW slices, NEW found, NEW path,
           NEW i \in DOMAIN slices, slices[i].source = path[1], slices[i].sink = Last(path)
    PROVE  AccountedIn(slices, found, path)
    BY DEF AccountedIn

\* What the slices of the recorded paths are, and which of the paths have one.
SlicesOf(found) == IF Discovery THEN Discovered(found) ELSE Executed(found)

LEMMA SlicesOfFlows ==
    ASSUME Chosen, NEW found \in Seq(Seq(Nodes)), \A i \in 1..Len(found) : IsFlow(found[i]), NEW slices, slices = SlicesOf(found)
    PROVE  /\ \A i \in DOMAIN slices : slices[i].path # <<>> => IsFlow(slices[i].path) /\ slices[i].source = slices[i].path[1]
           /\ Len(found) <= MaxPaths /\ Sources # {} =>
                \A i \in 1..Len(found) : Len(found[i]) > 1 => AccountedIn(slices, found, found[i])
<1>1. DOMAIN found = 1..Len(found)
    OBVIOUS
<1>2. \A p \in Range(found) : IsFlow(p)
    BY <1>1 DEF Range
<1>3. \A i \in DOMAIN slices : slices[i] \in Range(slices)
    BY DEF Range
<1>4. \A x \in Range(slices) : \E i \in DOMAIN slices : slices[i] = x
    BY DEF Range
<1>5. \A i \in 1..Len(found) : found[i] \in Range(found)
    BY <1>1 DEF Range
<1>6. \A i \in 1..Len(found) : Len(found[i]) > 0 /\ Last(found[i]) \in Sinks
    BY DEF IsFlow, IsPath
<1>7. CASE Discovery
    <2>1. slices = Discovered(found)
        BY <1>7 DEF SlicesOf
    <2>2. \A x \in Range(slices) : \E p \in Range(found) : x.path = p /\ x.source = p[1] /\ x.sink = Last(p)
        BY <1>6, <1>7, <2>1, DiscoveredIs
    <2>3. Len(found) <= MaxPaths => \A p \in Range(found) :
             Len(p) > 1 /\ Scores(p) /\ ~(Node(Last(p)).db /\ Prepared(p))
                => \E x \in Range(slices) : x.source = p[1] /\ x.sink = Last(p)
        BY <1>6, <1>7, <2>1, DiscoveredIs
    <2>4. \A i \in DOMAIN slices : IsFlow(slices[i].path) /\ slices[i].source = slices[i].path[1]
        BY <1>2, <1>3, <2>2
    <2>5. ASSUME Len(found) <= MaxPaths, NEW i \in 1..Len(found), Len(found[i]) > 1 PROVE AccountedIn(slices, found, found[i])
        <3>1. PICK p : p = found[i]
            OBVIOUS
        <3>2. CASE ~Scores(p)
            <4>1. \E j \in DOMAIN found : found[j][1] = found[i][1] /\ Last(found[j]) = Last(found[i]) /\ ~Scores(found[j])
                BY <1>1, <3>1, <3>2
            <4> QED
                BY <1>7, <4>1 DEF AccountedIn
        <3>3. CASE Node(Last(p)).db /\ Prepared(p)
            <4>1. Node(Last(found[i])).db /\ Node(Last(found[i])).bound
                BY <3>1, <3>3 DEF Prepared
            <4> QED
                BY <1>7, <4>1 DEF AccountedIn
        <3>4. CASE Scores(p) /\ ~(Node(Last(p)).db /\ Prepared(p))
            <4>1. p \in Range(found) /\ Len(p) > 1
                BY <1>5, <2>5, <3>1
            <4>2. \E x \in Range(slices) : x.source = p[1] /\ x.sink = Last(p)
                BY <2>3, <2>5, <3>4, <4>1
            <4>3. PICK j \in DOMAIN slices : slices[j].source = found[i][1] /\ slices[j].sink = Last(found[i])
                BY <1>4, <3>1, <4>2
            <4> QED
                BY <1>7, <4>3, SliceAccounts
        <3> QED
            BY <3>2, <3>3, <3>4
    <2> QED
        BY <2>4, <2>5
<1>8. CASE ~Discovery
    <2>1. slices = Executed(found)
        BY <1>8 DEF SlicesOf
    <2>2. \A x \in Range(slices) : x.path # <<>> => \E p \in Range(found) : x.path = p /\ x.source = p[1]
        BY <1>8, <2>1, ExecutedIs
    <2>3. Len(found) <= MaxPaths /\ Sources # {} /\ Sinks # {} => \A p \in Range(found) :
             Len(p) > 1 /\ ~(fjob.sql /\ Prepared(p)) => \E x \in Range(slices) : Place(x) = Place(RuleSlice(p))
        BY <1>8, <2>1, ExecutedIs
    <2>4. \A i \in DOMAIN slices : slices[i].path # <<>> => IsFlow(slices[i].path) /\ slices[i].source = slices[i].path[1]
        BY <1>2, <1>3, <2>2
    <2>5. ASSUME Len(found) <= MaxPaths, Sources # {}, NEW i \in 1..Len(found), Len(found[i]) > 1
          PROVE  AccountedIn(slices, found, found[i])
        <3>1. PICK p : p = found[i]
            OBVIOUS
        <3>2. p \in Range(found) /\ Len(p) > 1 /\ Sinks # {}
            BY <1>5, <1>6, <2>5, <3>1
        <3>3. CASE fjob.sql /\ Prepared(p)
            <4>1. fjob.sql /\ Node(Last(found[i])).bound
                BY <3>1, <3>3 DEF Prepared
            <4> QED
                BY <1>8, <4>1 DEF AccountedIn
        <3>4. CASE ~(fjob.sql /\ Prepared(p))
            <4>1. \E x \in Range(slices) : Place(x) = Place(RuleSlice(p))
                BY <2>3, <2>5, <3>2, <3>4
            <4>2. PICK k \in DOMAIN slices : Place(slices[k]) = Place(RuleSlice(found[i]))
                BY <1>4, <3>1, <4>1
            <4>3. i \in {j \in DOMAIN found : found[j][1] = found[i][1] /\ Last(found[j]) = Last(found[i])}
                BY <1>1
            <4> QED
                BY <1>8, <4>2, <4>3 DEF AccountedIn
        <3> QED
            BY <3>3, <3>4
    <2> QED
        BY <2>4, <2>5
<1> QED
    BY <1>7, <1>8

LEMMA AccountedStays ==
    ASSUME fgraph' = fgraph, fjob' = fjob
    PROVE  \A slices, found, p : AccountedIn(slices, found, p)' <=> AccountedIn(slices, found, p)
<1>1. ASSUME NEW p PROVE Scores(p)' <=> Scores(p)
    BY DEF Scores, Score, ScoreUnit, Values, Hits, AtLeast, AtMost, Node, Kinds
<1>2. (Discovery' <=> Discovery) /\ \A n : Node(n)' = Node(n)
    BY DEF Discovery, Node
<1>3. ASSUME NEW p PROVE RuleSlice(p)' = RuleSlice(p)
    BY DEF RuleSlice, Lines, Values, Node, Downgraded
<1>4. ASSUME NEW s PROVE Place(s)' = Place(s)
    BY DEF Place
<1>5. ASSUME NEW slices, NEW found, NEW p PROVE AccountedIn(slices, found, p)' <=> AccountedIn(slices, found, p)
    <2>1. \A i, j : (Place(slices[i]) = Place(RuleSlice(found[j])))' <=> Place(slices[i]) = Place(RuleSlice(found[j]))
        BY <1>3, <1>4
    <2> QED
        BY <1>1, <1>2, <2>1 DEF AccountedIn
<1> QED
    BY <1>5

LEMMA AccountedIs == \A path : Accounted(path) <=> AccountedIn(fslices, ffound, path)
    BY DEF Accounted, AccountedIn

LEMMA FinishJobKeeps == FlowInv /\ FinishJob => FlowInv'
<1> SUFFICES ASSUME FlowInv, FinishJob PROVE FlowInv'
    OBVIOUS
<1>1. /\ fphase = "search" /\ ftodo = <<>> /\ fphase' = "end" /\ ffound' = ffound \o fpaths
      /\ ftruncated' = (ftruncated \/ fqueue # <<>> \/ Len(ffound') > MaxPaths)
      /\ fslices' = IF Discovery THEN Discovered(ffound') ELSE Executed(ffound')
      /\ UNCHANGED <<fgraph, fjob, ftodo>>
    BY DEF FinishJob
<1>2. /\ Chosen' <=> Chosen
      /\ Nodes' = Nodes /\ Sources' = Sources /\ Sinks' = Sinks /\ (Guarded' <=> Guarded)
      /\ \A p : IsFlow(p)' <=> IsFlow(p)
      /\ \A t, ps : Complete(t, ps)' <=> Complete(t, ps)
    BY <1>1, GraphStays
<1>3. /\ Chosen /\ ftodo \in Seq(Nodes) /\ ffound \in Seq(Seq(Nodes)) /\ \A i \in 1..Len(ffound) : IsFlow(ffound[i])
    BY DEF FlowInv
<1>4. /\ fpaths \in Seq(Seq(Nodes)) /\ \A i \in 1..Len(fpaths) : IsFlow(fpaths[i])
      /\ Wanted /\ fqueue = <<>> => \A t \in Sources \ Sinks : t \in Range(ftodo) \/ Complete(t, ffound \o fpaths)
    BY <1>1, SearchOver
<1>5. PICK found : found = ffound \o fpaths
    OBVIOUS
<1>6. found \in Seq(Seq(Nodes)) /\ Len(found) \in Nat /\ \A i \in 1..Len(found) : IsFlow(found[i])
    BY <1>3, <1>4, <1>5, JoinedIs
<1>7. PICK slices : slices = SlicesOf(found)
    OBVIOUS
<1>8. found = ffound' /\ slices = fslices'
    BY <1>1, <1>5, <1>7 DEF SlicesOf
<1>9. /\ \A i \in DOMAIN slices : slices[i].path # <<>> => IsFlow(slices[i].path) /\ slices[i].source = slices[i].path[1]
      /\ Len(found) <= MaxPaths /\ Sources # {} =>
           \A i \in 1..Len(found) : Len(found[i]) > 1 => AccountedIn(slices, found, found[i])
    BY <1>3, <1>6, <1>7, SlicesOfFlows
<1>10. SlicesAreFlows'
    <2>1. ASSUME NEW i \in DOMAIN fslices', fslices'[i].path # <<>>
          PROVE  IsFlow(fslices[i].path)' /\ fslices'[i].source = fslices'[i].path[1]
        <3>1. PICK p : p = slices[i].path
            OBVIOUS
        <3>2. IsFlow(p) /\ slices[i].source = p[1]
            BY <1>8, <1>9, <2>1, <3>1
        <3>3. IsFlow(p)'
            BY <1>2, <3>2
        <3>4. p = fslices'[i].path
            BY <1>8, <3>1
        <3> QED
            BY <1>8, <3>2, <3>3, <3>4
    <2> QED
        BY <2>1 DEF SlicesAreFlows
<1>11. FlowsAccounted'
    <2>1. ASSUME ~ftruncated', Sources' # {}, NEW i \in 1..Len(ffound'), Len(ffound'[i]) > 1 PROVE Accounted(ffound[i])'
        <3>1. PICK p : p = found[i]
            OBVIOUS
        <3>2. Len(found) <= MaxPaths
            <4>1. \A m, n \in Nat : ~(m > n) => m <= n
                OBVIOUS
            <4>2. ~(Len(found) > MaxPaths)
                BY <1>1, <1>8, <2>1
            <4> QED
                BY ONLY <1>6, <4>1, <4>2, LimitsAssumption
        <3>3. AccountedIn(slices, found, p)
            BY <1>2, <1>8, <1>9, <2>1, <3>1, <3>2
        <3>4. AccountedIn(slices, found, p)'
            BY <1>1, <3>3, AccountedStays
        <3>5. p = ffound'[i]
            BY <1>8, <3>1
        <3>6. (\A path : Accounted(path) <=> AccountedIn(fslices, ffound, path))'
            BY AccountedIs, PTL
        <3>7. \A path : Accounted(path)' <=> AccountedIn(fslices, ffound, path)'
            BY <3>6
        <3>8. Accounted(p)'
            BY <1>8, <3>4, <3>7
        <3> QED
            BY <3>5, <3>8
    <2> QED
        BY <2>1 DEF FlowsAccounted
<1>12. Wanted' => \A t \in Sources' \ Sinks' : Complete(t, ffound)'
    <2>1. ASSUME Wanted', NEW t \in Sources' \ Sinks' PROVE Complete(t, ffound)'
        <3>1. Wanted /\ fqueue = <<>>
            BY <1>1, <1>2, <2>1 DEF Wanted
        <3>2. t \notin Range(ftodo)
            BY <1>1 DEF Range
        <3>3. Complete(t, found)
            BY <1>2, <1>4, <1>5, <2>1, <3>1, <3>2
        <3>4. Complete(t, found)'
            BY <1>2, <3>3
        <3> QED
            BY <1>8, <3>4
    <2> QED
        BY <2>1
<1>13. ffound' \in Seq(Seq(Nodes')) /\ \A i \in 1..Len(ffound') : IsFlow(ffound[i])'
    <2>1. \A i \in 1..Len(found) : IsFlow(found[i])'
        BY <1>2, <1>6
    <2>2. ASSUME NEW i \in 1..Len(ffound') PROVE IsFlow(ffound[i])'
        <3>1. PICK p : p = found[i]
            OBVIOUS
        <3>2. IsFlow(p)'
            BY <1>8, <2>1, <3>1, <2>2
        <3>3. p = ffound'[i]
            BY <1>8, <3>1
        <3> QED
            BY <3>2, <3>3
    <2>3. ffound' \in Seq(Seq(Nodes'))
        BY <1>2, <1>6, <1>8
    <2> QED
        BY <2>2, <2>3
<1>14. fphase' = "end" /\ Chosen' /\ ftodo' \in Seq(Nodes')
    BY <1>1, <1>2, <1>3
<1> QED
    BY <1>10, <1>11, <1>12, <1>13, <1>14 DEF FlowInv

LEMMA FlowStutters == FlowInv /\ UNCHANGED flowVars => FlowInv'
<1> SUFFICES ASSUME FlowInv, UNCHANGED flowVars PROVE FlowInv'
    OBVIOUS
<1>1. UNCHANGED <<fgraph, fjob, fphase, ftodo, fqueue, fseen, fops, fpaths, ffound, ftruncated, fslices>>
    BY DEF flowVars
<1>2. /\ Chosen' <=> Chosen
      /\ Nodes' = Nodes /\ Sources' = Sources /\ Sinks' = Sinks /\ (Guarded' <=> Guarded)
      /\ \A p : IsFlow(p)' <=> IsFlow(p)
      /\ \A t, ps : Complete(t, ps)' <=> Complete(t, ps)
      /\ \A t, q, seen, ps : Search(t, q, seen, ps)' <=> Search(t, q, seen, ps)
    BY <1>1, GraphStays
<1>3. PICK found : found = ffound
    OBVIOUS
<1>4. PICK slices : slices = fslices
    OBVIOUS
<1>5. PICK q : q = fqueue
    OBVIOUS
<1>6. PICK seen : seen = fseen
    OBVIOUS
<1>7. PICK paths : paths = fpaths
    OBVIOUS
<1>8. found = ffound' /\ slices = fslices' /\ q = fqueue' /\ seen = fseen' /\ paths = fpaths'
    BY <1>1, <1>3, <1>4, <1>5, <1>6, <1>7
<1>9. (Wanted' <=> Wanted) /\ \A t : Complete(t, ffound)' <=> Complete(t, ffound)
    <2>1. \A t : Complete(t, ffound)' <=> Complete(t, found)'
        BY <1>8
    <2> QED
        BY <1>1, <1>2, <1>3, <2>1 DEF Wanted
<1>10. \A t : Search(t, fqueue, fseen, fpaths)' <=> Search(t, fqueue, fseen, fpaths)
    <2>1. \A t : Search(t, fqueue, fseen, fpaths)' <=> Search(t, q, seen, paths)'
        BY <1>8
    <2> QED
        BY <1>2, <1>5, <1>6, <1>7, <2>1
<1>11. \A t : SourceTaken(t)' <=> SourceTaken(t)
    BY <1>1, <1>2, <1>9, <1>10 DEF SourceTaken
<1>12. NoSourceYet' <=> NoSourceYet
    BY <1>1, <1>2, <1>9 DEF NoSourceYet
<1>13. FlowsAccounted => FlowsAccounted'
    <2>1. \A p : AccountedIn(fslices, ffound, p)' <=> AccountedIn(slices, found, p)'
        BY <1>8
    <2>2. \A p : AccountedIn(slices, found, p)' <=> AccountedIn(slices, found, p)
        BY <1>1, AccountedStays
    <2>3. (\A path : Accounted(path) <=> AccountedIn(fslices, ffound, path))'
        BY AccountedIs, PTL
    <2>4. \A p : Accounted(p)' <=> Accounted(p)
        BY <1>3, <1>4, <2>1, <2>2, <2>3, AccountedIs
    <2>5. ASSUME FlowsAccounted, ~ftruncated', Sources' # {}, NEW i \in 1..Len(ffound'), Len(ffound'[i]) > 1
          PROVE  Accounted(ffound[i])'
        <3>1. PICK p : p = found[i]
            OBVIOUS
        <3>2. Accounted(p)
            BY <1>1, <1>2, <1>3, <2>5, <3>1 DEF FlowsAccounted
        <3>3. Accounted(p)' /\ p = ffound'[i]
            BY <1>8, <2>4, <3>1, <3>2
        <3> QED
            BY <3>3
    <2> QED
        BY <2>5 DEF FlowsAccounted
<1>14. SlicesAreFlows => SlicesAreFlows'
    <2>1. ASSUME SlicesAreFlows, NEW i \in DOMAIN fslices', fslices'[i].path # <<>>
          PROVE  IsFlow(fslices[i].path)' /\ fslices'[i].source = fslices'[i].path[1]
        <3>1. PICK p : p = slices[i].path
            OBVIOUS
        <3>2. IsFlow(p)' /\ slices[i].source = p[1] /\ p = fslices'[i].path
            BY <1>1, <1>2, <1>4, <1>8, <2>1, <3>1 DEF SlicesAreFlows
        <3> QED
            BY <1>8, <3>2
    <2> QED
        BY <2>1 DEF SlicesAreFlows
<1>15. (\A i \in 1..Len(ffound) : IsFlow(ffound[i])) => \A i \in 1..Len(ffound') : IsFlow(ffound[i])'
    <2>1. ASSUME \A i \in 1..Len(ffound) : IsFlow(ffound[i]), NEW i \in 1..Len(ffound') PROVE IsFlow(ffound[i])'
        <3>1. PICK p : p = found[i]
            OBVIOUS
        <3>2. IsFlow(p)' /\ p = ffound'[i]
            BY <1>1, <1>2, <1>3, <1>8, <2>1, <3>1
        <3> QED
            BY <3>2
    <2> QED
        BY <2>1
<1>16. /\ Chosen' /\ fphase' = fphase /\ ftodo' \in Seq(Nodes') /\ ffound' \in Seq(Seq(Nodes'))
       /\ \A i \in 1..Len(ffound') : IsFlow(ffound[i])'
    BY <1>1, <1>2, <1>15 DEF FlowInv
<1>17. CASE fphase = "start"
    BY <1>1, <1>16, <1>17 DEF FlowInv
<1>18. CASE fphase = "search"
    BY <1>2, <1>11, <1>12, <1>16, <1>18 DEF FlowInv
<1>19. CASE fphase = "end"
    BY <1>2, <1>9, <1>13, <1>14, <1>16, <1>19 DEF FlowInv
<1> QED
    BY <1>17, <1>18, <1>19 DEF FlowInv

LEMMA FlowInvNext == FlowInv /\ [FlowNext]_flowVars => FlowInv'
    BY StartJobKeeps, NextSourceKeeps, StepsOfASearch, FinishJobKeeps, FlowStutters DEF FlowNext

\* What is true of the end is what the property says.
LEMMA FlowInvIsEnough == FlowInv => FlowsFound
<1> SUFFICES ASSUME FlowInv, fphase = "end"
             PROVE  /\ ~ftruncated /\ ~Guarded => \A s \in Sources \ Sinks : \A path \in PathsFrom(s) :
                         Last(path) \in Sinks /\ Len(path) > 1 /\ WithinBudget(Crossed(path))
                           /\ (\A i \in 1..Len(path) - 1 : path[i] \notin Sinks) => Accounted(path)
                    /\ \A i \in DOMAIN fslices : fslices[i].path # <<>> =>
                         fslices[i].path \in PathsFrom(fslices[i].source) /\ WithinBudget(Hops(fslices[i].path))
    BY DEF FlowsFound
<1>1. /\ Chosen /\ SlicesAreFlows /\ FlowsAccounted /\ \A i \in 1..Len(ffound) : IsFlow(ffound[i])
      /\ Wanted => \A t \in Sources \ Sinks : Complete(t, ffound)
    BY DEF FlowInv
<1>2. \A s \in Nodes : \A p : p \in PathsFrom(s) <=> IsPath(p) /\ p[1] = s /\ Len(p) <= MaxDepth
    BY <1>1, PathsFromAre
<1>3. Sources \subseteq Nodes
    BY <1>1, GraphIs
<1>4. ASSUME ~ftruncated, ~Guarded, NEW s \in Sources \ Sinks, NEW path \in PathsFrom(s),
             Last(path) \in Sinks, Len(path) > 1, WithinBudget(Crossed(path)), \A i \in 1..Len(path) - 1 : path[i] \notin Sinks
      PROVE  Accounted(path)
    <2>1. Reachable(s, path)
        BY <1>2, <1>3, <1>4 DEF Reachable
    <2>2. Complete(s, ffound)
        BY <1>1, <1>4 DEF Wanted
    <2>3. PICK i \in 1..Len(ffound) : ffound[i][1] = s /\ Last(ffound[i]) = Last(path)
        BY <2>1, <2>2 DEF Complete
    <2>4. Len(ffound[i]) \in Nat /\ Len(ffound[i]) > 0
        BY <1>1 DEF IsFlow, IsPath
    <2>5. Len(ffound[i]) # 1
        BY <1>4, <2>3 DEF Last
    <2>6. Accounted(ffound[i])
        <3>1. Len(ffound[i]) > 1
            <4>1. \A n \in Nat : n > 0 /\ n # 1 => n > 1
                OBVIOUS
            <4> QED
                BY ONLY <2>4, <2>5, <4>1
        <3> QED
            BY <1>1, <1>4, <3>1 DEF FlowsAccounted
    <2>7. path[1] = ffound[i][1] /\ Last(path) = Last(ffound[i])
        BY <2>1, <2>3 DEF Reachable
    <2> QED
        BY <2>6, <2>7 DEF Accounted
<1>5. ASSUME NEW i \in DOMAIN fslices, fslices[i].path # <<>>
      PROVE  fslices[i].path \in PathsFrom(fslices[i].source) /\ WithinBudget(Hops(fslices[i].path))
    <2>1. PICK p : p = fslices[i].path
        OBVIOUS
    <2>2. IsFlow(p) /\ fslices[i].source = p[1]
        BY <1>1, <1>5, <2>1 DEF SlicesAreFlows
    <2>3. IsPath(p) /\ Len(p) <= MaxDepth /\ WithinBudget(Hops(p)) /\ p[1] \in Nodes
        <3>1. IsPath(p) /\ Len(p) <= MaxDepth /\ WithinBudget(Hops(p))
            BY <2>2 DEF IsFlow
        <3> QED
            BY <3>1 DEF IsPath
    <2> QED
        BY <1>2, <2>1, <2>2, <2>3
<1> QED
    BY <1>4, <1>5

(***************************************************************************)
(* The searches of path discovery and of a rule (_bfs_paths of             *)
(* path_discovery.py and of query_executor/executor.py) hide no flow:      *)
(* whatever the code graph, the job and the limits, when no limit on paths *)
(* or steps was hit, every sink that a source reaches within the depth and *)
(* the file boundaries allowed, and past no other sink, has a slice unless *)
(* the code drops it by name: in path discovery a slice from that source   *)
(* to that sink, for a rule a slice with the name, the file and the lines  *)
(* of a flow from that source to that sink, which flows of other nodes may *)
(* share.  And every slice made of a path is a real flow within those      *)
(* bounds.                                                                 *)
(***************************************************************************)
THEOREM FlowsAreFound == FlowSpec => []FlowsFound
<1>1. FlowInit => FlowInv
    BY FlowInvInit
<1>2. FlowInv /\ [FlowNext]_flowVars => FlowInv'
    BY FlowInvNext
<1>3. FlowInv => FlowsFound
    BY FlowInvIsEnough
<1> QED
    BY <1>1, <1>2, <1>3, PTL DEF FlowSpec
=============================================================================
