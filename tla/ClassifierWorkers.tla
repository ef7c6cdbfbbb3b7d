-------------------------- MODULE ClassifierWorkers --------------------------
(***************************************************************************)
(* SemanticClassifier.classify_slices (semantic_engine/classifier/         *)
(* classifier.py) with the LLMService and RoleAwareLLMPool each of its     *)
(* worker tasks owns (llm_service.py, llm_pool.py).  The slices that need  *)
(* an LLM are 1..N in the order of the queue (most confident first); the   *)
(* first MaxLlmCalls are queued, the others go to the static fallback.     *)
(***************************************************************************)
EXTENDS Integers, Sequences, FiniteSets

CONSTANTS N,              \* slices that need an LLM
          MaxLlmCalls,    \* MAX_LLM_DETECTION_CALLS
          Workers,        \* worker tasks: min(LLM_CLASSIFIER_WORKERS, N) of them
          Models,         \* the detection cascade, in order
          ProviderOf      \* model -> provider

ASSUME SizeAssumption == N \in Nat /\ MaxLlmCalls \in Nat
ASSUME WorkersAssumption == IsFiniteSet(Workers)
ASSUME CascadeAssumption == /\ \A i, j \in DOMAIN Models : Models[i] = Models[j] => i = j
                            /\ Models \in Seq({Models[i] : i \in DOMAIN Models})

Cascade == {Models[i] : i \in DOMAIN Models}
Slices  == 1..N
Queued  == IF N < MaxLlmCalls THEN N ELSE MaxLlmCalls
None    == 0                    \* no slice in hand
Nobody  == "nobody"             \* no sticky model

VARIABLES phase,      \* classify_slices: "workers", "drain", "over", "finished"
          taken,      \* slices 1..taken have left the queue
          hand,       \* [Workers -> slice a worker is classifying, or None]
          wpc,        \* [Workers -> {"loop", "call", "done"}]
          untried,    \* [Workers -> models its call has yet to try]
          soft, hard, \* [Workers -> models its pool gave up on, until reset / for the day]
          sticky,     \* [Workers -> model that answered last, or Nobody]
          cached,     \* [Workers -> an answer is in its _response_cache]
          settled     \* what became of the slices, in the order it happened

vars  == <<phase, taken, hand, wpc, untried, soft, hard, sticky, cached, settled>>
pools == <<untried, soft, hard, sticky, cached>>

exhausted(w) == soft[w] \cup hard[w]
is_available(w) == Cascade \ exhausted(w) # {}

\* llm: a model answered; unreadable: no usable text, exhausted: no model left (both
\* _get_fallback_result); cap: _fallback_classify.  All but the first carry one of
\* the explanations that mark a finding as unconfirmed.
Hows == {"llm", "unreadable", "exhausted", "cap"}
Settle(i, how) == settled' = Append(settled, [slice |-> i, how |-> how])

Init == /\ phase = "workers"
        /\ taken = 0
        /\ hand = [w \in Workers |-> None]
        /\ wpc = [w \in Workers |-> "loop"]
        /\ untried = [w \in Workers |-> {}]
        /\ soft = [w \in Workers |-> {}]
        /\ hard = [w \in Workers |-> {}]
        /\ sticky = [w \in Workers |-> Nobody]
        /\ cached = [w \in Workers |-> FALSE]
        /\ settled = <<>>

\* get_nowait: the next slice leaves the queue for worker w.
Pull(w) == /\ taken' = taken + 1
           /\ hand' = [hand EXCEPT ![w] = taken + 1]
           /\ untried' = [untried EXCEPT ![w] = Cascade \ exhausted(w)]
           /\ wpc' = [wpc EXCEPT ![w] = "call"]
           /\ UNCHANGED <<phase, soft, hard, sticky, cached, settled>>

\* Mutant: the pool is not looked at before a slice is pulled.
TakeSlice_unchecked(w) == wpc[w] = "loop" /\ taken < Queued /\ Pull(w)

\* _worker pulls the next slice and asks its pool.
TakeSlice(w) == wpc[w] = "loop" /\ is_available(w) /\ taken < Queued /\ Pull(w)

\* An empty snippet, or a prompt answered before: settled without a call.
TakeKnownSlice(w) ==
    /\ wpc[w] = "loop" /\ is_available(w) /\ taken < Queued
    /\ taken' = taken + 1
    /\ \E how \in {"unreadable"} \cup (IF cached[w] THEN {"llm"} ELSE {}) :
          Settle(taken + 1, how)
    /\ UNCHANGED <<phase, hand, wpc, pools>>

\* Mutant: a worker waits for more at the end of the queue.
StopWorker_waits(w) ==
    /\ wpc[w] = "loop"
    /\ ~is_available(w)
    /\ wpc' = [wpc EXCEPT ![w] = "done"]
    /\ UNCHANGED <<phase, taken, hand, pools, settled>>

\* The pool is exhausted or the queue empty: the task ends.
StopWorker(w) ==
    /\ wpc[w] = "loop"
    /\ ~is_available(w) \/ taken >= Queued
    /\ wpc' = [wpc EXCEPT ![w] = "done"]
    /\ UNCHANGED <<phase, taken, hand, pools, settled>>

\* The slice in hand has its classification; back to the top of the loop.
Return(w, how) ==
    /\ Settle(hand[w], how)
    /\ hand' = [hand EXCEPT ![w] = None]
    /\ wpc' = [wpc EXCEPT ![w] = "loop"]
    /\ untried' = [untried EXCEPT ![w] = {}]
    /\ UNCHANGED <<phase, taken>>

\* The models of this call not exhausted meanwhile; a scraping block takes siblings.
Candidates(w) == untried[w] \ exhausted(w)

\* Whose turn it is: the sticky model's, then the first of the cascade's.
Position(m) == CHOOSE i \in DOMAIN Models : Models[i] = m
Turn(w) == IF sticky[w] \in Candidates(w) THEN sticky[w]
           ELSE CHOOSE m \in Candidates(w) : \A o \in Candidates(w) : Position(m) <= Position(o)

\* _try_provider returns a text: it is parsed, or is empty or unparsable.
ModelAnswers(w) ==
    /\ wpc[w] = "call" /\ Candidates(w) # {}
    /\ sticky' = [sticky EXCEPT ![w] = Turn(w)]
    /\ \E how \in {"llm", "unreadable"} :
          /\ Return(w, how)
          /\ cached' = [cached EXCEPT ![w] = @ \/ how = "llm"]
    /\ UNCHANGED <<soft, hard>>

\* A failed attempt: models leave the pool and the cascade goes on.
GiveUp(w, lost, isDaily) ==
    /\ IF isDaily THEN hard' = [hard EXCEPT ![w] = @ \cup lost] /\ UNCHANGED soft
                  ELSE soft' = [soft EXCEPT ![w] = @ \cup lost] /\ UNCHANGED hard
    /\ sticky' = [sticky EXCEPT ![w] = IF @ \in lost THEN Nobody ELSE @]
    /\ untried' = [untried EXCEPT ![w] = @ \ {Turn(w)}]
    /\ UNCHANGED <<phase, taken, hand, wpc, cached, settled>>

\* A per-minute limit, a timeout or any other error: until the next reset.
RateLimited(w) ==
    wpc[w] = "call" /\ Candidates(w) # {} /\ GiveUp(w, {Turn(w)}, FALSE)

\* The daily quota: for good.
QuotaExceeded(w) ==
    wpc[w] = "call" /\ Candidates(w) # {} /\ GiveUp(w, {Turn(w)}, TRUE)

\* A scraping block of the token: every model of the provider.
ScrapingBlocked(w) ==
    /\ wpc[w] = "call" /\ Candidates(w) # {}
    /\ GiveUp(w, {m \in Cascade : ProviderOf[m] = ProviderOf[Turn(w)]}, FALSE)

\* Mutant: the slice goes back to the loop without a classification.
CascadeEnds_drops(w) ==
    /\ wpc[w] = "call" /\ Candidates(w) = {}
    /\ hand' = [hand EXCEPT ![w] = None]
    /\ wpc' = [wpc EXCEPT ![w] = "loop"]
    /\ untried' = [untried EXCEPT ![w] = {}]
    /\ UNCHANGED <<phase, taken, soft, hard, sticky, cached, settled>>

\* call returns None: the static fallback of LLMService.
CascadeEnds(w) ==
    /\ wpc[w] = "call" /\ Candidates(w) = {}
    /\ Return(w, "exhausted")
    /\ UNCHANGED <<soft, hard, sticky, cached>>

\* Mutant: the first task to end starts the drain.
JoinWorkers_any ==
    /\ phase = "workers"
    /\ \E w \in Workers : wpc[w] = "done"
    /\ phase' = "drain"
    /\ UNCHANGED <<taken, hand, wpc, pools, settled>>

\* gather returns when every task has ended.
JoinWorkers ==
    /\ phase = "workers"
    /\ \A w \in Workers : wpc[w] = "done"
    /\ phase' = "drain"
    /\ UNCHANGED <<taken, hand, wpc, pools, settled>>

\* _fallback_worker: what exhausted workers left in the queue.
DrainSlice ==
    /\ phase = "drain"
    /\ taken < Queued
    /\ taken' = taken + 1
    /\ Settle(taken + 1, "cap")
    /\ UNCHANGED <<phase, hand, wpc, pools>>

EndDrain ==
    /\ phase = "drain"
    /\ taken >= Queued
    /\ phase' = "over"
    /\ UNCHANGED <<taken, hand, wpc, pools, settled>>

\* The slices beyond the budget, then the merged list is returned.
OverBudget ==
    /\ phase = "over"
    /\ settled' = settled \o [k \in 1..(N - Queued) |->
                                 [slice |-> Queued + k, how |-> "cap"]]
    /\ phase' = "finished"
    /\ UNCHANGED <<taken, hand, wpc, pools>>

Work(w) == \/ TakeSlice(w) \/ TakeKnownSlice(w) \/ StopWorker(w) \/ ModelAnswers(w)
           \/ RateLimited(w) \/ QuotaExceeded(w) \/ ScrapingBlocked(w) \/ CascadeEnds(w)

Main == JoinWorkers \/ DrainSlice \/ EndDrain \/ OverBudget

Next == Main \/ \E w \in Workers : Work(w)

Spec == Init /\ [][Next]_vars

\* Every LLM call is under wait_for and every loop step is scheduled by asyncio.
FairSpec == Spec /\ WF_vars(Main) /\ \A w \in Workers : WF_vars(Work(w))

-----------------------------------------------------------------------------
\* No slice is lost and none classified twice, whichever workers died on which
\* slice: at every moment a slice that left the queue is in one worker's hands or
\* settled once, and when the list is returned every slice is in it.
EachSliceOnce ==
    /\ \A i, j \in DOMAIN settled : settled[i].slice = settled[j].slice => i = j
    /\ \A v, w \in Workers : hand[v] = hand[w] /\ hand[v] # None => v = w
    /\ \A i \in DOMAIN settled, w \in Workers : settled[i].slice # hand[w]
    /\ \A s \in 1..taken : \/ \E i \in DOMAIN settled : settled[i].slice = s
                           \/ \E w \in Workers : hand[w] = s
    /\ phase = "finished" =>
          \A s \in Slices : \E i \in DOMAIN settled : settled[i].slice = s

\* The comment on the pool check: an exhausted worker leaves the queue to the live
\* ones, so a queued slice goes to the static fallback only when no pool has a
\* model left.
DrainedOnlyWhenDead ==
    phase = "drain" /\ taken < Queued => \A w \in Workers : ~is_available(w)

\* A worker whose pool dies takes one slice down with it and no more: there are never
\* more slices lost to exhausted pools than exhausted pools.
OneLossPerWorker ==
    Cardinality({i \in DOMAIN settled : settled[i].how = "exhausted"})
       <= Cardinality({w \in Workers : ~is_available(w)})

\* classify_slices returns.
Finishes == <>(phase = "finished")
=============================================================================
