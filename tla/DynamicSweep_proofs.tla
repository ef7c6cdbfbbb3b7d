------------------------ MODULE DynamicSweep_proofs ------------------------
(***************************************************************************)
(* Whichever way a sweep ends, its listener, browser and clients are gone; *)
(* one that reaches its end has tried every item its request asked for; no *)
(* step takes a finding back; and the audit record holds what it is to     *)
(* hold: for every request, every set of URLs and every cap.               *)
(***************************************************************************)
EXTENDS DynamicSweep, FiniteSetTheorems, SequenceTheorems, TLAPS

\* Released speaks of the exits only.  What leads there: the finally is reached
\* without browser and clients, a browser is open only while the DOM stage has
\* items left, and nothing is acquired before its place.
Tidy ==
  /\ stage \in {"setup", "connect", "except", "finally"} \cup Stages \cup Exits
  /\ collaborator \in {"none", "up", "down"} /\ pair \in {"new", "open", "closed"}
  /\ browser \in {"closed", "open"}
  /\ stage = "setup" => collaborator = "none"
  /\ stage \in {"setup", "connect"} => pair = "new"
  /\ browser = "open" => stage = "dom" /\ todo # <<>>
  /\ stage = "finally" => pair # "open"

IInv == Tidy /\ Released

\* The stages of the body and the places outside it do not overlap.
LEMMA StagesApart ==
  /\ Stages \cap (Exits \cup {"setup", "connect", "except", "finally"}) = {}
  /\ Discovery \cup Probing \subseteq Stages
  BY DEF Stages, Discovery, Probing, Exits

\* Leaving a stage of the body leads to another one, or to the handlers.
LEMMA AdvanceStays ==
  ASSUME NEW s, Advance(s)
  PROVE  stage' \in Stages \cup {"except"}
  BY DEF Advance

\* A step that leaves the resources alone and stays in the body or goes to the
\* handlers, from a point of the body where no browser is open.
LEMMA BodyStep ==
  ASSUME IInv, stage \in Stages, browser = "closed",
         stage' \in Stages \cup {"except"}, UNCHANGED bounded
  PROVE  IInv'
<1>1. stage' \notin Exits \cup {"setup", "connect", "finally"}
    BY StagesApart DEF Exits
<1>2. UNCHANGED <<collaborator, pair, browser>>
    BY DEF bounded
<1> QED
    BY <1>1, <1>2 DEF IInv, Tidy, Released, Exits

LEMMA InitIInv == Init => IInv
  BY StagesApart DEF Init, IInv, Tidy, Released, Exits

LEMMA NextIInv == IInv /\ [Next]_vars => IInv'
<1> SUFFICES ASSUME IInv, [Next]_vars PROVE IInv'
    OBVIOUS
<1>0. browser = "closed" \/ (stage = "dom" /\ todo # <<>>)
    BY DEF IInv, Tidy
<1>1. CASE Setup
    BY <1>1, StagesApart DEF Setup, swept, shown, IInv, Tidy, Released, Exits
<1>2. CASE Connect
    <2>1. "crawl" \in Stages
        BY DEF Stages, Discovery
    <2> QED
        BY <1>2, <2>1, StagesApart DEF Connect, IInv, Tidy, Released, Exits
<1>3. CASE Announce
    BY <1>0, <1>3, BodyStep, AdvanceStays DEF Announce, Stages
<1>4. CASE Payload
    <2>1. stage' \in Stages \cup {"except"}
        BY <1>4, AdvanceStays DEF Payload
    <2> QED
        BY <1>0, <1>4, <2>1, BodyStep DEF Payload, Stages
<1>5. CASE DomBlock
    BY <1>5, StagesApart DEF DomBlock, IInv, Tidy, Released, Exits
<1>6. CASE BridgeTarget
    BY <1>0, <1>6, BodyStep, StagesApart DEF BridgeTarget, Probing
<1>7. CASE Logout
    BY <1>0, <1>7, BodyStep, AdvanceStays DEF Logout, Stages
<1>8. CASE Final
    BY <1>0, <1>8, StagesApart DEF Final, shown, IInv, Tidy, Released, Exits
<1>9. CASE Except
    <2>1. browser = "closed"
        BY <1>0, <1>9 DEF Except
    <2> QED
        BY <1>9, <2>1, StagesApart DEF Except, Closed, IInv, Tidy, Released, Exits
<1>10. CASE Finally
    <2>1. browser = "closed" /\ pair # "open"
        BY <1>0, <1>10 DEF Finally, IInv, Tidy
    <2>2. stage' \in Exits /\ UNCHANGED <<pair, browser>> /\ collaborator' \in {"none", "down"}
        BY <1>10 DEF Finally, Exits, IInv, Tidy
    <2> QED
        BY <2>1, <2>2, StagesApart DEF IInv, Tidy, Released, Exits
<1>11. CASE Cancel
    BY <1>11, StagesApart DEF Cancel, Closed, swept, shown, IInv, Tidy, Released, Exits
<1>12. ASSUME NEW s \in Discovery, Discover(s) PROVE IInv'
    <2>1. browser = "closed" /\ stage \in Stages
        BY <1>0, <1>12, StagesApart DEF Discover, Discovery
    <2> QED
        BY <1>12, <2>1, BodyStep, AdvanceStays DEF Discover
<1>13. ASSUME NEW s \in Probing \ {"dom", "bridge"}, Probe(s) PROVE IInv'
    <2>1. browser = "closed" /\ stage \in Stages /\ stage' \in Stages
        BY <1>0, <1>13, StagesApart DEF Probe
    <2> QED
        BY <1>13, <2>1, BodyStep DEF Probe
<1>14. ASSUME NEW s \in Probing, LoopDone(s) PROVE IInv'
    <2>1. browser = "closed" /\ stage \in Stages
        BY <1>0, <1>14, StagesApart DEF LoopDone
    <2> QED
        BY <1>14, <2>1, BodyStep, AdvanceStays DEF LoopDone
<1>15. CASE UNCHANGED vars
    BY <1>15 DEF vars, IInv, Tidy, Released
<1> QED
    BY <1>1, <1>2, <1>3, <1>4, <1>5, <1>6, <1>7, <1>8, <1>9, <1>10, <1>11, <1>12, <1>13,
       <1>14, <1>15 DEF Next, Step

\* A sweep that ended - returned, raised or cancelled at any await - holds no
\* listener, no browser and no entered session pair.
THEOREM ResourcesReleased == Spec => []Released
<1>1. IInv => Released
    BY DEF IInv
<1> QED
    BY InitIInv, NextIInv, <1>1, PTL DEF Spec

-----------------------------------------------------------------------------
(***************************************************************************)
(* Progress: it is a function of the checkpoint, and that function is      *)
(* monotone and stays in the window, the rounding down included.           *)
(***************************************************************************)
ProgressInv ==
  checkpoint \in 0.._DAST_TOTAL_CHECKPOINTS /\ progress = Progress(checkpoint)

\* A checkpoint's share of a window of w points, rounded down.
LEMMA ShareMonotone ==
  ASSUME NEW w \in Nat, NEW c \in 0..14
  PROVE  /\ (w * c) \div 15 \in Int
         /\ 0 <= (w * c) \div 15
         /\ (w * c) \div 15 <= (w * (c + 1)) \div 15
<1>1. w * c \in Nat /\ w * (c + 1) \in Nat /\ w * (c + 1) = w * c + w
    OBVIOUS
<1>2. \A x, y \in Nat : x \div 15 \in Int /\ 0 <= x \div 15 /\ (x <= y => x \div 15 <= y \div 15)
    OBVIOUS
<1> QED
    BY <1>1, <1>2

LEMMA ProgressBounds ==
  ASSUME NEW c \in 0..14
  PROVE  /\ Progress(c) \in progress_start..progress_end
         /\ Progress(c + 1) \in progress_start..progress_end
         /\ Progress(c) <= Progress(c + 1)
<1> DEFINE w == progress_end - progress_start
           lo == (w * c) \div 15
           hi == (w * (c + 1)) \div 15
<1>1. progress_start \in Nat /\ progress_end \in Nat /\ progress_start <= progress_end
    BY SweepAssumption
<1>2. w \in Nat
    BY <1>1
<1>3. lo \in Int /\ 0 <= lo /\ lo <= hi
    BY <1>2, ShareMonotone
<1>4. hi \in Int
    <2>1. w * (c + 1) \in Nat
        BY <1>2
    <2> QED
        BY <2>1
<1>5. /\ Progress(c) = IF progress_start + lo < progress_end
                         THEN progress_start + lo ELSE progress_end
      /\ Progress(c + 1) = IF progress_start + hi < progress_end
                             THEN progress_start + hi ELSE progress_end
    BY DEF Progress, _DAST_TOTAL_CHECKPOINTS
<1> HIDE DEF lo, hi, w
<1> QED
    BY <1>1, <1>3, <1>4, <1>5

\* One progress line: the next checkpoint, or the last one again.
LEMMA StepAdvances ==
  ASSUME ProgressInv, _dast_step
  PROVE  /\ ProgressInv'
         /\ progress' >= progress /\ progress' \in progress_start..progress_end
<1>1. CASE checkpoint < 15
    <2>1. checkpoint \in 0..14 /\ checkpoint' = checkpoint + 1
        BY <1>1 DEF ProgressInv, _dast_step, _DAST_TOTAL_CHECKPOINTS
    <2>2. progress = Progress(checkpoint) /\ progress' = Progress(checkpoint + 1)
        BY <2>1 DEF ProgressInv, _dast_step
    <2>3. Progress(checkpoint)' = Progress(checkpoint')
        BY DEF Progress
    <2>4. progress' = Progress(checkpoint)' /\ checkpoint' \in 0.._DAST_TOTAL_CHECKPOINTS
        BY <2>1, <2>3 DEF _dast_step, _DAST_TOTAL_CHECKPOINTS
    <2>5. /\ Progress(checkpoint) \in progress_start..progress_end
          /\ Progress(checkpoint + 1) \in progress_start..progress_end
          /\ Progress(checkpoint) <= Progress(checkpoint + 1)
        BY <2>1, ProgressBounds
    <2>6. progress' >= progress /\ progress' \in progress_start..progress_end
        BY <2>2, <2>5, SweepAssumption
    <2> QED
        BY <2>4, <2>6 DEF ProgressInv
<1>2. CASE ~(checkpoint < 15)
    <2>1. checkpoint = 15 /\ checkpoint' = 15
        BY <1>2 DEF ProgressInv, _dast_step, _DAST_TOTAL_CHECKPOINTS
    <2>2. progress = Progress(15) /\ progress' = Progress(15)
        BY <2>1 DEF ProgressInv, _dast_step
    <2>3. Progress(15) \in progress_start..progress_end
        BY ProgressBounds, 14 \in 0..14, 14 + 1 = 15
    <2> QED
        BY <2>1, <2>2, <2>3, SweepAssumption DEF ProgressInv, _DAST_TOTAL_CHECKPOINTS, Progress
<1> QED
    BY <1>1, <1>2

\* No progress line: the document's progress stays.
LEMMA ProgressStays ==
  ASSUME ProgressInv, UNCHANGED shown
  PROVE  /\ ProgressInv'
         /\ progress' >= progress /\ progress' \in progress_start..progress_end
<1>1. checkpoint' = checkpoint /\ progress' = progress
    BY DEF shown
<1>2. progress \in progress_start..progress_end
    <2>1. CASE checkpoint = 15
        <3>1. Progress(15) \in progress_start..progress_end
            BY ProgressBounds, 14 \in 0..14, 14 + 1 = 15
        <3> QED
            BY <2>1, <3>1 DEF ProgressInv
    <2>2. CASE checkpoint # 15
        <3>1. checkpoint \in 0..14
            BY <2>2 DEF ProgressInv, _DAST_TOTAL_CHECKPOINTS
        <3> QED
            BY <3>1, ProgressBounds DEF ProgressInv
    <2> QED
        BY <2>1, <2>2
<1> QED
    BY <1>1, <1>2, SweepAssumption DEF ProgressInv, Progress

LEMMA AdvanceShows == ASSUME NEW s, Advance(s) PROVE _dast_step \/ UNCHANGED shown
  BY DEF Advance

LEMMA NextShows == [Next]_vars => _dast_step \/ UNCHANGED shown
<1> SUFFICES ASSUME [Next]_vars PROVE _dast_step \/ UNCHANGED shown
    OBVIOUS
<1>1. CASE Setup \/ Final \/ Except \/ Finally \/ Cancel
    BY <1>1 DEF Setup, Final, Except, Finally, Cancel
<1>2. CASE Connect \/ Announce \/ Payload \/ Logout
    BY <1>2, AdvanceShows DEF Connect, Announce, Payload, Logout
<1>3. CASE DomBlock \/ BridgeTarget
    BY <1>3 DEF DomBlock, BridgeTarget
<1>4. ASSUME NEW s \in Discovery, Discover(s) PROVE _dast_step \/ UNCHANGED shown
    BY <1>4, AdvanceShows DEF Discover
<1>5. ASSUME NEW s, Probe(s) PROVE UNCHANGED shown
    BY <1>5 DEF Probe
<1>6. ASSUME NEW s, LoopDone(s) PROVE _dast_step \/ UNCHANGED shown
    BY <1>6, AdvanceShows DEF LoopDone
<1>7. CASE UNCHANGED vars
    BY <1>7 DEF vars, shown
<1> QED
    BY <1>1, <1>2, <1>3, <1>4, <1>5, <1>6, <1>7 DEF Next, Step

\* For every window, the progress of a sweep never falls and never leaves it.
THEOREM ProgressAdvances == Spec => ProgressInWindow
<1>1. Init => ProgressInv
    <2> SUFFICES ASSUME Init PROVE ProgressInv
        OBVIOUS
    <2>1. checkpoint = 0 /\ progress = progress_start
        BY DEF Init
    <2>2. progress_start \in Nat /\ progress_end \in Nat /\ progress_start <= progress_end
        BY SweepAssumption
    <2>3. ((progress_end - progress_start) * 0) \div 15 = 0
        BY <2>2
    <2>4. Progress(0) = progress_start
        BY <2>2, <2>3 DEF Progress, _DAST_TOTAL_CHECKPOINTS
    <2> QED
        BY <2>1, <2>4 DEF ProgressInv, _DAST_TOTAL_CHECKPOINTS
<1>2. ProgressInv /\ [Next]_vars => ProgressInv'
    BY NextShows, StepAdvances, ProgressStays
<1>3. ProgressInv /\ [Next]_vars
        => [progress' >= progress /\ progress' \in progress_start..progress_end]_vars
    BY NextShows, StepAdvances, ProgressStays
<1> QED
    BY <1>1, <1>2, <1>3, PTL DEF Spec, ProgressInWindow

-----------------------------------------------------------------------------
(***************************************************************************)
(* What was tried and found.  The stages have an order, each loop stage    *)
(* keeps the items not tried yet in todo, and only the discovery changes   *)
(* the lists the loops run over.                                           *)
(***************************************************************************)
Loops == Probing \ {"dom"}

\* The sweep is not at stage s yet, and it is past it.
Before(s) == \/ stage \in {"setup", "connect"}
             \/ stage \in Stages /\ Position(stage) < Position(s)
After(s)  == \/ stage \in Stages /\ Position(s) < Position(stage)
             \/ ended = "ok"

SweepTypes ==
  /\ cfg \in ConfigType
  /\ stage \in {"setup", "connect", "except", "finally"} \cup Stages \cup Exits
  /\ ended = "ok" => stage \in {"finally"} \cup Exits
  /\ check_urls \in Seq(URLs) /\ forms \in Nat /\ todo \in Seq(Nat)

TriedOf(s) == {t[2] : t \in {t \in tried : t[1] = s}}

LoopTried(s) ==
  /\ Before(s) => TriedOf(s) = {}
  /\ stage = s => TriedOf(s) \cup Range(todo) = Range(Items(s, check_urls, forms))
  /\ After(s) /\ ~Skipped(s, forms) => TriedOf(s) = Range(Items(s, check_urls, forms))

OnceTried ==
  /\ After("payload") => <<"payload", 0>> \in tried
  /\ After("logout") /\ cfg.auth # "none" => <<"logout", 1>> \in tried

TriedInv == SweepTypes /\ OnceTried /\ \A s \in Loops : LoopTried(s)

\* The places of the stages in the order.
LEMMA Positions ==
  /\ Position("crawl") = 1 /\ Position("openapi") = 2 /\ Position("source") = 3
  /\ Position("browser") = 4 /\ Position("state") = 5 /\ Position("announce") = 6
  /\ Position("payload") = 7 /\ Position("dom") = 8 /\ Position("bridge") = 9
  /\ Position("xss") = 10 /\ Position("ssrf") = 11 /\ Position("jwt") = 12
  /\ Position("logout") = 13 /\ Position("visible") = 14 /\ Position("user") = 15
  /\ Position("final") = 16
<1>1. DOMAIN Order = 1..16
    BY DEF Order
<1>2. /\ Order[1] = "crawl" /\ Order[2] = "openapi" /\ Order[3] = "source"
      /\ Order[4] = "browser" /\ Order[5] = "state" /\ Order[6] = "announce"
      /\ Order[7] = "payload" /\ Order[8] = "dom" /\ Order[9] = "bridge"
      /\ Order[10] = "xss" /\ Order[11] = "ssrf" /\ Order[12] = "jwt"
      /\ Order[13] = "logout" /\ Order[14] = "visible" /\ Order[15] = "user"
      /\ Order[16] = "final"
    BY DEF Order
<1>3. \A i, j \in 1..16 : Order[i] = Order[j] => i = j
    <2> SUFFICES ASSUME NEW i \in 1..16, NEW j \in 1..16, Order[i] = Order[j] PROVE i = j
        OBVIOUS
    <2>1. i \in {1,2,3,4,5,6,7,8,9,10,11,12,13,14,15,16}
        OBVIOUS
    <2>2. j \in {1,2,3,4,5,6,7,8,9,10,11,12,13,14,15,16}
        OBVIOUS
    <2> QED
        BY <1>2, <2>1, <2>2
<1>4. \A i \in 1..16 : Position(Order[i]) = i
    BY <1>1, <1>3 DEF Position
<1> QED
    BY <1>2, <1>4

LEMMA PositionTypes ==
  /\ \A s \in Stages : Position(s) \in 1..16
  /\ \A s, t \in Stages : Position(s) = Position(t) => s = t
  /\ \A s \in Discovery : Position(s) \in 1..5
  /\ \A s \in Probing : Position(s) \in 8..15
<1>1. \A s \in Discovery : Position(s) \in 1..5
    BY Positions DEF Discovery
<1>2. \A s \in Probing : Position(s) \in 8..15
    BY Positions DEF Probing
<1>3. \A s \in Stages : Position(s) \in 1..16
    BY Positions DEF Stages, Discovery, Probing
<1>4. \A s, t \in Stages : Position(s) = Position(t) => s = t
    BY Positions DEF Stages, Discovery, Probing
<1> QED
    BY <1>1, <1>2, <1>3, <1>4

LEMMA NumberedSeq ==
  ASSUME NEW n \in Nat
  PROVE  Numbered(n) \in Seq(Nat) /\ Len(Numbered(n)) = n /\ \A i \in 1..n : Numbered(n)[i] = i
<1>1. Numbered(n) \in [1..n -> Nat] /\ \A i \in 1..n : Numbered(n)[i] = i
    BY DEF Numbered
<1>2. Numbered(n) \in Seq(Nat)
    BY <1>1
<1> QED
    BY <1>1, <1>2

LEMMA TakeSeq ==
  ASSUME NEW S, NEW q \in Seq(S), NEW n \in Nat
  PROVE  Take(q, n) \in Seq(S) /\ Len(Take(q, n)) \in Nat
<1>1. Len(q) \in Nat /\ \A i \in 1..Len(q) : q[i] \in S
    OBVIOUS
<1>2. \A m \in 0..Len(q) : SubSeq(q, 1, m) \in Seq(S)
    <2> SUFFICES ASSUME NEW m \in 0..Len(q) PROVE SubSeq(q, 1, m) \in Seq(S)
        OBVIOUS
    <2>1. \A i \in 1..m : q[i] \in S
        BY <1>1
    <2>2. 1 \in Int /\ m \in Int
        BY <1>1
    <2> QED
        BY <2>1, <2>2, SubSeqProperties
<1>3. Take(q, n) \in Seq(S)
    BY <1>1, <1>2 DEF Take
<1> QED
    BY <1>3

LEMMA ConfigFacts ==
  /\ {MAX_FORMS_TO_PROBE, MAX_SSRF_URLS_TO_PROBE, MAX_DOM_XSS_URLS_TO_PROBE} \subseteq Nat
  /\ \A c \in ConfigType : Len(c.bridge) \in Nat /\ Len(c.user) \in Nat
<1>1. \A c \in ConfigType : c.bridge \in Seq(BridgeRules)
                            /\ c.user \in Seq({"gated", "ungated", "needs_second"})
    BY DEF ConfigType
<1> QED
    BY <1>1, SweepAssumption

\* Every list a loop runs over is a list of numbers, none twice.
LEMMA ItemsListed ==
  ASSUME cfg \in ConfigType, NEW s \in Stages, NEW urls \in Seq(URLs), NEW nforms \in Nat
  PROVE  /\ Items(s, urls, nforms) \in Seq(Nat)
         /\ IsInjective(Items(s, urls, nforms))
<1> DEFINE q == Items(s, urls, nforms)
<1>1. q = <<>> \/ q = <<1>> \/ \E n \in Nat : q = Numbered(n)
    <2>1. CASE s = "dom"
        <3>1. Len(Take(urls, MAX_DOM_XSS_URLS_TO_PROBE)) \in Nat
            BY TakeSeq, ConfigFacts
        <3>2. 2 * Len(Take(urls, MAX_DOM_XSS_URLS_TO_PROBE)) \in Nat
            BY <3>1
        <3> QED
            BY <2>1, <3>2 DEF Items
    <2>2. CASE s = "bridge"
        BY <2>2, ConfigFacts DEF Items
    <2>3. CASE s = "xss"
        BY <2>3, ConfigFacts DEF Items
    <2>4. CASE s = "ssrf"
        <3>1. Len(Take(urls, MAX_SSRF_URLS_TO_PROBE)) \in Nat
            BY TakeSeq, ConfigFacts
        <3>2. q = IF cfg.active THEN Numbered(Len(Take(urls, MAX_SSRF_URLS_TO_PROBE))) ELSE <<>>
            BY <2>4 DEF Items
        <3> QED
            BY <3>1, <3>2
    <2>5. CASE s = "jwt"
        BY <2>5 DEF Items
    <2>6. CASE s = "visible"
        BY <2>6 DEF Items
    <2>7. CASE s = "user"
        BY <2>7, ConfigFacts DEF Items
    <2>8. CASE s \notin Probing
        BY <2>8 DEF Items, Probing
    <2> QED
        BY <2>1, <2>2, <2>3, <2>4, <2>5, <2>6, <2>7, <2>8 DEF Probing
<1> HIDE DEF q
<1>2. CASE q = <<>>
    BY <1>2 DEF IsInjective, q
<1>3. CASE q = <<1>>
    <2>1. <<1>> \in Seq(Nat) /\ DOMAIN <<1>> = {1}
        OBVIOUS
    <2> QED
        BY <1>3, <2>1 DEF IsInjective, q
<1>4. ASSUME NEW n \in Nat, q = Numbered(n) PROVE q \in Seq(Nat) /\ IsInjective(q)
    <2>1. q \in Seq(Nat) /\ Len(q) = n /\ \A i \in 1..n : q[i] = i
        BY <1>4, NumberedSeq
    <2>2. DOMAIN q = 1..n
        BY <2>1
    <2> QED
        BY <2>1, <2>2 DEF IsInjective
<1> QED
    BY <1>1, <1>2, <1>3, <1>4 DEF q

LEMMA LoopsApart ==
  /\ \A s \in Loops : s \in Stages /\ s \in Probing /\ Position(s) \in 8..15
  /\ Loops \cap (Discovery \cup {"dom", "announce", "payload", "logout", "final"}) = {}
  BY PositionTypes DEF Loops, Probing, Discovery, Stages

LEMMA TriedOfOne ==
  ASSUME NEW s, NEW x, tried' = tried \cup {<<s, x>>}
  PROVE  /\ TriedOf(s)' = TriedOf(s) \cup {x}
         /\ \A u : u # s => TriedOf(u)' = TriedOf(u)
<1>1. <<s, x>>[1] = s /\ <<s, x>>[2] = x
    OBVIOUS
<1>2. ASSUME NEW y PROVE y \in TriedOf(s)' <=> y \in TriedOf(s) \cup {x}
    BY <1>1 DEF TriedOf
<1>3. ASSUME NEW u, u # s, NEW y PROVE y \in TriedOf(u)' <=> y \in TriedOf(u)
    BY <1>1, <1>3 DEF TriedOf
<1> QED
    BY <1>2, <1>3

LEMMA ListHead ==
  ASSUME NEW q \in Seq(Nat), q # <<>>
  PROVE  /\ Head(q) \in Nat /\ Tail(q) \in Seq(Nat)
         /\ Range(q) = {Head(q)} \cup Range(Tail(q))
         /\ IsInjective(q) => IsInjective(Tail(q)) /\ Head(q) \notin Range(Tail(q))
<1>1. /\ Len(q) \in Nat /\ Len(q) > 0 /\ DOMAIN q = 1..Len(q) /\ Head(q) = q[1]
      /\ \A i \in 1..Len(q) : q[i] \in Nat
    BY EmptySeq
<1>2. /\ Tail(q) \in Seq(Nat) /\ DOMAIN Tail(q) = 1..(Len(q) - 1)
      /\ \A i \in 1..(Len(q) - 1) : Tail(q)[i] = q[i + 1]
    <2>1. /\ Tail(q) \in Seq(Nat) /\ Len(Tail(q)) = Len(q) - 1
          /\ \A i \in 1..Len(Tail(q)) : Tail(q)[i] = q[i + 1]
        BY HeadTailProperties
    <2>2. DOMAIN Tail(q) = 1..Len(Tail(q))
        BY <2>1
    <2> QED
        BY <2>1, <2>2
<1>3. Range(q) = {Head(q)} \cup Range(Tail(q))
    <2>1. ASSUME NEW y \in Range(q) PROVE y = Head(q) \/ y \in Range(Tail(q))
        <3>1. PICK i \in 1..Len(q) : y = q[i]
            BY <1>1 DEF Range
        <3>2. CASE i = 1
            BY <1>1, <3>1, <3>2
        <3>3. CASE i # 1
            <4>1. i - 1 \in 1..(Len(q) - 1) /\ (i - 1) + 1 = i
                BY <1>1, <3>3
            <4>2. Tail(q)[i - 1] = y
                BY <1>2, <3>1, <4>1
            <4> QED
                BY <1>2, <4>1, <4>2 DEF Range
        <3> QED
            BY <3>2, <3>3
    <2>2. ASSUME NEW y \in Range(Tail(q)) PROVE y \in Range(q)
        <3>1. PICK i \in 1..(Len(q) - 1) : y = Tail(q)[i]
            BY <1>2 DEF Range
        <3>2. i + 1 \in 1..Len(q) /\ y = q[i + 1]
            BY <1>1, <1>2, <3>1
        <3> QED
            BY <1>1, <3>2 DEF Range
    <2>3. Head(q) \in Range(q)
        <3>1. 1 \in 1..Len(q)
            BY <1>1
        <3> QED
            BY <1>1, <3>1 DEF Range
    <2> QED
        BY <2>1, <2>2, <2>3
<1>4. ASSUME IsInjective(q) PROVE IsInjective(Tail(q)) /\ Head(q) \notin Range(Tail(q))
    <2>1. \A i, j \in 1..Len(q) : q[i] = q[j] => i = j
        BY <1>1, <1>4 DEF IsInjective
    <2>2. ASSUME NEW i \in 1..(Len(q) - 1), NEW j \in 1..(Len(q) - 1), Tail(q)[i] = Tail(q)[j]
          PROVE  i = j
        <3>1. i + 1 \in 1..Len(q) /\ j + 1 \in 1..Len(q) /\ q[i + 1] = q[j + 1]
            BY <1>1, <1>2, <2>2
        <3>2. i + 1 = j + 1
            BY <2>1, <3>1
        <3> QED
            BY <3>2
    <2>3. ASSUME NEW i \in 1..(Len(q) - 1) PROVE Tail(q)[i] # Head(q)
        <3>1. i + 1 \in 1..Len(q) /\ 1 \in 1..Len(q) /\ i + 1 # 1 /\ Tail(q)[i] = q[i + 1]
            BY <1>1, <1>2
        <3> QED
            BY <1>1, <2>1, <3>1
    <2> QED
        BY <1>2, <2>2, <2>3 DEF IsInjective, Range
<1> QED
    BY <1>1, <1>2, <1>3, <1>4

LEMMA ListsSame ==
  ASSUME cfg' = cfg, NEW s, NEW urls, NEW nforms
  PROVE  /\ Skipped(s, nforms)' <=> Skipped(s, nforms')
         /\ Items(s, urls, nforms)' = Items(s, urls', nforms')
  BY DEF Skipped, Items

\* One more item of a loop.
LEMMA ItemTried ==
  ASSUME TriedInv, NEW s \in Loops, stage = s, todo # <<>>,
         tried' = tried \cup {<<s, Head(todo)>>}, todo' = Tail(todo),
         UNCHANGED <<cfg, stage, check_urls, forms, ended>>
  PROVE  TriedInv'
<1>1. SweepTypes /\ OnceTried /\ \A u \in Loops : LoopTried(u)
    BY DEF TriedInv
<1>2. Tail(todo) \in Seq(Nat) /\ Range(todo) = {Head(todo)} \cup Range(Tail(todo))
    BY <1>1, ListHead DEF SweepTypes
<1>3. SweepTypes'
    BY <1>1, <1>2 DEF SweepTypes
<1>4. OnceTried'
    BY <1>1 DEF OnceTried, After
<1>5. ASSUME NEW u \in Loops PROVE LoopTried(u)'
    <2>1. /\ Before(u)' <=> Before(u)
          /\ After(u)' <=> After(u)
          /\ Skipped(u, forms)' <=> Skipped(u, forms)
          /\ Items(u, check_urls, forms)' = Items(u, check_urls, forms)
        BY DEF Before, After, Skipped, Items
    <2>2. CASE u # s
        <3>1. TriedOf(u)' = TriedOf(u)
            BY <2>2, TriedOfOne
        <3> QED
            BY <1>1, <2>1, <2>2, <3>1 DEF LoopTried
    <2>3. CASE u = s
        <3>1. TriedOf(u)' = TriedOf(u) \cup {Head(todo)}
            BY <2>3, TriedOfOne
        <3>2. ~Before(u) /\ ~After(u)
            <4>1. Position(u) \in 8..15 /\ s \in Stages
                BY LoopsApart
            <4>2. ~(Position(u) < Position(u))
                BY <4>1
            <4>3. s \notin {"setup", "connect", "finally"} \cup Exits
                BY <4>1, StagesApart
            <4> QED
                BY <1>1, <2>3, <4>2, <4>3 DEF Before, After, SweepTypes
        <3>3. TriedOf(u) \cup Range(todo) = Range(Items(u, check_urls, forms))
            BY <1>1, <2>3 DEF LoopTried
        <3>4. TriedOf(u)' \cup Range(todo)' = Range(Items(u, check_urls, forms))
            <4>1. Range(todo)' = Range(Tail(todo))
                BY DEF Range
            <4> QED
                BY <1>2, <3>1, <3>3, <4>1
        <3> QED
            BY <2>1, <2>3, <3>2, <3>4 DEF LoopTried
    <2> QED
        BY <2>2, <2>3
<1> QED
    BY <1>3, <1>4, <1>5 DEF TriedInv

\* The DOM stage, which may leave items out, is none of the loops.
LEMMA DomTried ==
  ASSUME TriedInv, stage = "dom", todo' \in Seq(Nat),
         tried' = tried \/ \E x : tried' = tried \cup {<<"dom", x>>},
         UNCHANGED <<cfg, stage, check_urls, forms, ended>>
  PROVE  TriedInv'
<1>1. SweepTypes /\ OnceTried /\ \A u \in Loops : LoopTried(u)
    BY DEF TriedInv
<1>2. SweepTypes'
    BY <1>1 DEF SweepTypes
<1>3. tried \subseteq tried'
    OBVIOUS
<1>4. OnceTried'
    BY <1>1, <1>3 DEF OnceTried, After
<1>5. ASSUME NEW u \in Loops PROVE LoopTried(u)'
    <2>1. /\ Before(u)' <=> Before(u)
          /\ After(u)' <=> After(u)
          /\ Skipped(u, forms)' <=> Skipped(u, forms)
          /\ Items(u, check_urls, forms)' = Items(u, check_urls, forms)
        BY DEF Before, After, Skipped, Items
    <2>2. u # "dom" /\ stage # u
        BY LoopsApart
    <2>3. TriedOf(u)' = TriedOf(u)
        <3>1. CASE tried' = tried
            BY <3>1 DEF TriedOf
        <3>2. ASSUME NEW x, tried' = tried \cup {<<"dom", x>>} PROVE TriedOf(u)' = TriedOf(u)
            BY <2>2, <3>2, TriedOfOne
        <3> QED
            BY <3>1, <3>2
    <2> QED
        BY <1>1, <2>1, <2>2, <2>3 DEF LoopTried
<1> QED
    BY <1>2, <1>4, <1>5 DEF TriedInv

LEMMA AdvanceTo ==
  ASSUME NEW s, Advance(s)
  PROVE  \/ stage' = "except" /\ ended' = "failed" /\ todo' = todo
         \/ \E t \in Stages : /\ Follows(s, t, forms') /\ stage' = t
                              /\ todo' = Items(t, check_urls', forms') /\ ended' = ended
  BY DEF Advance

\* A step to the handlers or out of the sweep, short of its end.
LEMMA LeaveTried ==
  ASSUME TriedInv, stage' \in {"except", "finally"} \cup Exits, ended' # "ok",
         cfg' = cfg, check_urls' \in Seq(URLs), forms' \in Nat, todo' \in Seq(Nat)
  PROVE  TriedInv'
<1>1. cfg' \in ConfigType
    BY DEF TriedInv, SweepTypes
<1>2. SweepTypes'
    BY <1>1 DEF SweepTypes
<1>3. \A u : ~Before(u)' /\ ~After(u)'
    <2>1. stage' \notin Stages
        BY StagesApart
    <2>2. stage' \notin {"setup", "connect"}
        BY DEF Exits
    <2> QED
        BY <2>1, <2>2 DEF Before, After
<1>4. OnceTried'
    BY <1>3 DEF OnceTried
<1>5. \A u \in Loops : u # stage'
    BY StagesApart, LoopsApart
<1>6. \A u \in Loops : LoopTried(u)'
    BY <1>3, <1>5 DEF LoopTried
<1> QED
    BY <1>2, <1>4, <1>6 DEF TriedInv

\* On to the next stage: the loop that ends is through, the stages in between
\* were skipped, and the one that begins was not tried before.
LEMMA AdvanceTried ==
  ASSUME TriedInv, NEW s \in Stages, stage = s, Advance(s), cfg' = cfg,
         s \in Loops => todo = <<>>,
         check_urls' \in Seq(URLs), forms' \in Nat,
         s \in Discovery \/ UNCHANGED <<check_urls, forms>>,
         \A u \in Loops : TriedOf(u)' = TriedOf(u), tried \subseteq tried',
         s = "payload" /\ stage' # "except" => <<"payload", 0>> \in tried',
         s = "logout" => <<"logout", 1>> \in tried'
  PROVE  TriedInv'
<1>1. SweepTypes /\ OnceTried /\ \A u \in Loops : LoopTried(u)
    BY DEF TriedInv
<1>2. ended # "ok"
    BY <1>1, StagesApart DEF SweepTypes
<1>3. CASE stage' = "except" /\ ended' = "failed" /\ todo' = todo
    <2>1. todo' \in Seq(Nat) /\ ended' # "ok"
        BY <1>1, <1>3 DEF SweepTypes
    <2> QED
        BY <1>3, <2>1, LeaveTried
<1>4. ASSUME NEW t \in Stages, Follows(s, t, forms'), stage' = t,
             todo' = Items(t, check_urls', forms'), ended' = ended
      PROVE  TriedInv'
    <2>1. /\ Position(s) < Position(t)
          /\ \A u \in Stages : Position(s) < Position(u) /\ Position(u) < Position(t)
                                  => Skipped(u, forms')
        BY <1>4 DEF Follows
    <2>2. Position(s) \in 1..16 /\ Position(t) \in 1..16
        BY PositionTypes
    <2>3. cfg \in ConfigType /\ todo' \in Seq(Nat)
        BY <1>1, <1>4, ItemsListed DEF SweepTypes
    <2>4. SweepTypes'
        BY <1>2, <1>4, <2>3 DEF SweepTypes
    <2>5. \A u : After(u)' <=> Position(u) < Position(t)
        BY <1>2, <1>4 DEF After
    <2>6. \A u : Before(u)' <=> Position(t) < Position(u)
        BY <1>4, StagesApart DEF Before
    <2>7. \A u : Position(u) < Position(s) => After(u)
        BY DEF After
    <2>8. \A u : Position(s) < Position(u) => Before(u)
        BY DEF Before
    <2>9. OnceTried'
        <3>1. ASSUME After("payload")' PROVE <<"payload", 0>> \in tried'
            <4>1. "payload" \in Stages /\ Position("payload") \in Int
                BY Positions DEF Stages
            <4>2. ~Skipped("payload", forms')
                BY DEF Skipped
            <4>3. ~(Position(s) < Position("payload"))
                BY <2>1, <2>5, <3>1, <4>1, <4>2
            <4>4. CASE s = "payload"
                <5>1. t # "except"
                    BY StagesApart
                <5> QED
                    BY <1>4, <4>4, <5>1
            <4>5. CASE s # "payload"
                <5>1. Position(s) # Position("payload")
                    BY <4>1, <4>5, PositionTypes
                <5>2. Position(s) \in Int
                    BY <2>2
                <5>3. Position("payload") < Position(s)
                    BY <4>1, <4>3, <5>1, <5>2
                <5>4. After("payload")
                    BY <2>7, <5>3, Zenon
                <5> QED
                    BY <1>1, <5>4 DEF OnceTried
            <4> QED
                BY <4>4, <4>5
        <3>2. ASSUME After("logout")', cfg'.auth # "none" PROVE <<"logout", 1>> \in tried'
            <4>1. "logout" \in Stages /\ Position("logout") \in Int
                BY Positions DEF Stages
            <4>2. ~Skipped("logout", forms')
                BY <3>2 DEF Skipped
            <4>3. ~(Position(s) < Position("logout"))
                BY <2>1, <2>5, <3>2, <4>1, <4>2
            <4>4. CASE s # "logout"
                <5>1. Position(s) # Position("logout")
                    BY <4>1, <4>4, PositionTypes
                <5>2. Position(s) \in Int
                    BY <2>2
                <5>3. Position("logout") < Position(s)
                    BY <4>1, <4>3, <5>1, <5>2
                <5>4. After("logout")
                    BY <2>7, <5>3, Zenon
                <5> QED
                    BY <1>1, <3>2, <5>4 DEF OnceTried
            <4> QED
                BY <4>4
        <3> QED
            BY <3>1, <3>2 DEF OnceTried
    <2>10. ASSUME NEW u \in Loops PROVE LoopTried(u)'
        <3>1. u \in Stages /\ u \in Probing /\ Position(u) \in 8..15
            BY LoopsApart
        <3>2. /\ Skipped(u, forms)' <=> Skipped(u, forms')
              /\ Items(u, check_urls, forms)' = Items(u, check_urls', forms')
            BY DEF Skipped, Items
        <3>3. TriedOf(u)' = TriedOf(u)
            OBVIOUS
        <3>4. CASE u = t
            <4>1. TriedOf(u) = {}
                BY <1>1, <2>1, <2>8, <3>4 DEF LoopTried
            <4>2. ~After(u)'
                BY <2>2, <2>5, <3>4
            <4>3. Range(todo)' = Range(Items(u, check_urls', forms'))
                BY <1>4, <3>4 DEF Range
            <4> QED
                BY <3>2, <3>3, <4>1, <4>2, <4>3 DEF LoopTried
        <3>5. CASE u # t
            <4>1. u # stage'
                BY <1>4, <3>5
            <4>2. ASSUME Before(u)' PROVE TriedOf(u) = {}
                <5>1. Position(t) < Position(u)
                    BY <2>6, <4>2, Zenon
                <5>2. Position(s) < Position(u)
                    <6>1. Position(s) \in Int /\ Position(t) \in Int /\ Position(u) \in Int
                        BY <2>2, <3>1
                    <6>2. Position(s) < Position(t)
                        BY <2>1
                    <6> QED
                        BY <5>1, <6>1, <6>2
                <5>3. Before(u)
                    BY <2>8, <5>2, Zenon
                <5> QED
                    BY <1>1, <5>3 DEF LoopTried
            <4>3. ASSUME After(u)', ~Skipped(u, forms')
                  PROVE  TriedOf(u) = Range(Items(u, check_urls', forms'))
                <5>1. ~(Position(s) < Position(u))
                    BY <2>1, <2>5, <3>1, <4>3
                <5>2. UNCHANGED <<check_urls, forms>>
                    BY <2>2, <3>1, <5>1, PositionTypes
                <5>3. CASE u = s
                    <6>1. Range(todo) = {}
                        BY <5>3 DEF Range
                    <6>2. TriedOf(u) \cup Range(todo) = Range(Items(u, check_urls, forms))
                        BY <1>1, <5>3 DEF LoopTried
                    <6> QED
                        BY <5>2, <6>1, <6>2
                <5>4. CASE u # s
                    <6>1. Position(u) # Position(s)
                        BY <3>1, <5>4, PositionTypes
                    <6>2. After(u)
                        <7>1. Position(s) \in Int /\ Position(u) \in Int
                            BY <2>2, <3>1
                        <7>2. Position(u) < Position(s)
                            BY <5>1, <6>1, <7>1
                        <7> QED
                            BY <2>7, <7>2, Zenon
                    <6>3. ~Skipped(u, forms)
                        BY <4>3, <5>2
                    <6> QED
                        BY <1>1, <5>2, <6>2, <6>3 DEF LoopTried
                <5> QED
                    BY <5>3, <5>4
            <4> QED
                BY <3>2, <3>3, <4>1, <4>2, <4>3 DEF LoopTried
        <3> QED
            BY <3>4, <3>5
    <2> QED
        BY <2>4, <2>9, <2>10 DEF TriedInv
<1> QED
    BY <1>3, <1>4, AdvanceTo

\* The step from the login to the first stage.
LEMMA ConnectTried == ASSUME TriedInv, Connect PROVE TriedInv'
<1>1. SweepTypes /\ OnceTried /\ \A u \in Loops : LoopTried(u)
    BY DEF TriedInv
<1>2. stage = "connect" /\ UNCHANGED <<cfg, todo, forms, tried>>
    BY DEF Connect
<1>3. ended # "ok"
    BY <1>1, <1>2 DEF SweepTypes, Exits
<1>4. CASE stage' = "crawl" /\ check_urls' = <<Target>> /\ ended' = ended
    <2>1. <<Target>> \in Seq(URLs)
        BY SweepAssumption
    <2>2. "crawl" \in Stages /\ Position("crawl") = 1
        BY Positions DEF Stages, Discovery
    <2>3. SweepTypes'
        BY <1>1, <1>2, <1>3, <1>4, <2>1, <2>2 DEF SweepTypes
    <2>4. \A u : Position(u) \in 1..16 => ~After(u)'
        BY <1>3, <1>4, <2>2 DEF After
    <2>5. "payload" \in Stages /\ "logout" \in Stages
        BY DEF Stages
    <2>6. OnceTried'
        BY <2>4, <2>5, PositionTypes DEF OnceTried
    <2>7. ASSUME NEW u \in Loops PROVE LoopTried(u)'
        <3>1. Before(u)
            BY <1>2 DEF Before
        <3>2. TriedOf(u)' = {}
            BY <1>1, <1>2, <3>1 DEF LoopTried, TriedOf
        <3>3. u # "crawl" /\ ~After(u)'
            BY <2>4, LoopsApart, PositionTypes DEF Discovery
        <3> QED
            BY <1>4, <3>2, <3>3 DEF LoopTried
    <2> QED
        BY <2>3, <2>6, <2>7 DEF TriedInv
<1>5. CASE stage' = "except" /\ ended' = "failed" /\ check_urls' = check_urls
    <2>1. /\ cfg' = cfg /\ check_urls' \in Seq(URLs) /\ forms' \in Nat /\ todo' \in Seq(Nat)
          /\ ended' # "ok"
        BY <1>1, <1>2, <1>5 DEF SweepTypes
    <2> QED
        BY <1>5, <2>1, LeaveTried
<1> QED
    BY <1>4, <1>5 DEF Connect

LEMMA FinalTried == ASSUME TriedInv, Final PROVE TriedInv'
<1>1. SweepTypes /\ OnceTried /\ \A u \in Loops : LoopTried(u)
    BY DEF TriedInv
<1>2. /\ stage = "final" /\ stage' = "finally" /\ ended' = "ok"
      /\ UNCHANGED <<cfg, todo, check_urls, forms, tried>>
    BY DEF Final, swept
<1>3. SweepTypes'
    BY <1>1, <1>2 DEF SweepTypes
<1>4. \A u : Position(u) \in 1..15 => After(u)
    <2>1. "final" \in Stages /\ Position("final") = 16
        BY Positions DEF Stages
    <2> QED
        BY <1>2, <2>1 DEF After
<1>5. OnceTried'
    <2>1. After("payload") /\ After("logout")
        BY <1>4, Positions
    <2> QED
        BY <1>1, <1>2, <2>1 DEF OnceTried
<1>6. ASSUME NEW u \in Loops PROVE LoopTried(u)'
    <2>1. After(u)
        BY <1>4, LoopsApart
    <2>2. ~Before(u)' /\ u # stage'
        BY <1>2, LoopsApart, StagesApart DEF Before
    <2>3. /\ Skipped(u, forms)' <=> Skipped(u, forms)
          /\ Items(u, check_urls, forms)' = Items(u, check_urls, forms)
          /\ TriedOf(u)' = TriedOf(u)
        BY <1>2 DEF Skipped, Items, TriedOf
    <2> QED
        BY <1>1, <2>1, <2>2, <2>3 DEF LoopTried
<1> QED
    BY <1>3, <1>5, <1>6 DEF TriedInv

\* The finally: how the sweep ended stays.
LEMMA FinallyTried == ASSUME TriedInv, Finally PROVE TriedInv'
<1>1. SweepTypes /\ OnceTried /\ \A u \in Loops : LoopTried(u)
    BY DEF TriedInv
<1>2. /\ stage = "finally" /\ stage' \in Exits
      /\ UNCHANGED <<cfg, todo, check_urls, forms, tried, ended>>
    BY DEF Finally, swept, Exits
<1>3. SweepTypes'
    BY <1>1, <1>2 DEF SweepTypes
<1>4. \A u : After(u)' => After(u)
    BY <1>2, StagesApart DEF After
<1>5. OnceTried'
    BY <1>1, <1>2, <1>4 DEF OnceTried
<1>6. ASSUME NEW u \in Loops PROVE LoopTried(u)'
    <2>1. ~Before(u)' /\ u # stage'
        <3>1. stage' \notin {"setup", "connect"}
            BY <1>2 DEF Exits
        <3> QED
            BY <1>2, <3>1, LoopsApart, StagesApart DEF Before
    <2>2. /\ Skipped(u, forms)' <=> Skipped(u, forms)
          /\ Items(u, check_urls, forms)' = Items(u, check_urls, forms)
          /\ TriedOf(u)' = TriedOf(u)
        BY <1>2 DEF Skipped, Items, TriedOf
    <2> QED
        BY <1>1, <1>4, <2>1, <2>2 DEF LoopTried
<1> QED
    BY <1>3, <1>5, <1>6 DEF TriedInv

\* What a discovery step adds is a list of URLs.
LEMMA DiscoverLists ==
  ASSUME SweepTypes, NEW s \in Discovery, Discover(s)
  PROVE  check_urls' \in Seq(URLs) /\ forms' \in Nat
<1>1. check_urls \in Seq(URLs) /\ forms \in Nat
    BY DEF SweepTypes
<1>2. CASE UNCHANGED <<check_urls, forms>>
    BY <1>1, <1>2
<1>3. ASSUME NEW found \in SeqOf(URLs \ Range(check_urls), MaxFound),
             check_urls' = Merged(s, found)
      PROVE  check_urls' \in Seq(URLs)
    <2>1. found \in Seq(URLs)
        <3>1. PICK m \in 0..MaxFound : found \in [1..m -> URLs \ Range(check_urls)]
            BY <1>3 DEF SeqOf
        <3>2. m \in Nat
            BY SweepAssumption
        <3>3. found \in [1..m -> URLs]
            BY <3>1
        <3> QED
            BY <3>2, <3>3
    <2>2. Cap(s) \in Nat
        BY SweepAssumption DEF Cap
    <2>3. Take(found, Cap(s)) \in Seq(URLs)
        BY <2>1, <2>2, TakeSeq
    <2> QED
        BY <1>1, <1>3, <2>3 DEF Merged
<1>4. forms' \in Nat
    <2>1. forms + 1 \in Nat
        BY <1>1
    <2>2. forms' \in {forms, forms + 1} \/ forms' = forms
        BY DEF Discover
    <2> QED
        BY <1>1, <2>1, <2>2
<1>5. UNCHANGED <<check_urls, forms>>
      \/ \E found \in SeqOf(URLs \ Range(check_urls), MaxFound) : check_urls' = Merged(s, found)
    BY DEF Discover
<1> QED
    BY <1>2, <1>3, <1>4, <1>5

LEMMA NextTried == TriedInv /\ [Next]_vars => TriedInv'
<1> SUFFICES ASSUME TriedInv, [Next]_vars PROVE TriedInv'
    OBVIOUS
<1>1. SweepTypes /\ check_urls \in Seq(URLs) /\ forms \in Nat /\ todo \in Seq(Nat)
      /\ cfg \in ConfigType
    BY DEF TriedInv, SweepTypes
<1>2. CASE Setup
    <2>1. stage = "setup" /\ UNCHANGED <<cfg, todo, check_urls, forms, tried>>
          /\ \/ stage' = "connect" /\ ended' = ended
             \/ stage' = "raised" /\ ended' = "failed"
        BY <1>2 DEF Setup, swept
    <2>2. CASE stage' = "raised" /\ ended' = "failed"
        <3>1. ended' # "ok" /\ stage' \in Exits /\ check_urls' \in Seq(URLs) /\ forms' \in Nat
              /\ todo' \in Seq(Nat)
            BY <1>1, <2>1, <2>2 DEF Exits
        <3> QED
            BY <2>1, <3>1, LeaveTried
    <2>3. CASE stage' = "connect" /\ ended' = ended
        <3>1. ended # "ok"
            BY <1>1, <2>1 DEF SweepTypes, Exits
        <3>2. SweepTypes'
            BY <1>1, <2>1, <2>3, <3>1 DEF SweepTypes
        <3>3. \A u : ~After(u)'
            BY <2>3, <3>1, StagesApart DEF After
        <3>4. OnceTried'
            BY <3>3 DEF OnceTried
        <3>5. ASSUME NEW u \in Loops PROVE LoopTried(u)'
            <4>1. Before(u)
                BY <2>1 DEF Before
            <4>2. TriedOf(u)' = {}
                BY <2>1, <4>1 DEF TriedInv, LoopTried, TriedOf
            <4>3. u # stage'
                BY <2>3, LoopsApart, StagesApart
            <4> QED
                BY <3>3, <4>2, <4>3 DEF LoopTried
        <3> QED
            BY <3>2, <3>4, <3>5 DEF TriedInv
    <2> QED
        BY <2>1, <2>2, <2>3
<1>3. CASE Connect
    BY <1>3, ConnectTried
<1>4. CASE Announce
    <2>1. /\ stage = "announce" /\ Advance("announce") /\ UNCHANGED <<cfg, check_urls, forms, tried>>
          /\ "announce" \in Stages /\ "announce" \notin Loops
        BY <1>4, LoopsApart DEF Announce, swept, bounded, Stages
    <2>2. \A u \in Loops : TriedOf(u)' = TriedOf(u)
        BY <2>1 DEF TriedOf
    <2> QED
        BY <1>1, <2>1, <2>2, AdvanceTried
<1>5. CASE Payload
    <2>1. stage = "payload" /\ cfg' = cfg /\ UNCHANGED <<check_urls, forms>>
          /\ "payload" \in Stages /\ "payload" \notin Loops
        BY <1>5, LoopsApart DEF Payload, swept, bounded, Stages
    <2>2. CASE tried' = tried \cup {<<"payload", 0>>} /\ Advance("payload")
        <3>1. \A u \in Loops : TriedOf(u)' = TriedOf(u)
            BY <2>1, <2>2, TriedOfOne
        <3>2. tried \subseteq tried' /\ <<"payload", 0>> \in tried'
            BY <2>2
        <3> QED
            BY <1>1, <2>1, <2>2, <3>1, <3>2, AdvanceTried
    <2>3. CASE stage' = "except" /\ ended' = "timeout" /\ todo' = todo
        <3>1. ended' # "ok"
            BY <2>3
        <3> QED
            BY <1>1, <2>1, <2>3, <3>1, LeaveTried
    <2> QED
        BY <1>5, <2>2, <2>3 DEF Payload
<1>6. CASE DomBlock
    <2>1. /\ stage = "dom" /\ todo # <<>> /\ UNCHANGED <<cfg, stage, check_urls, forms, ended>>
          /\ tried' = tried \/ tried' = tried \cup {<<"dom", Head(todo)>>}
          /\ todo' \in {todo, <<>>, Tail(todo)}
        BY <1>6 DEF DomBlock
    <2>2. todo' \in Seq(Nat)
        <3>1. todo \in Seq(Nat) /\ <<>> \in Seq(Nat)
            BY <1>1 DEF SweepTypes
        <3>2. Tail(todo) \in Seq(Nat)
            BY <2>1, <3>1, ListHead
        <3>3. todo' = todo \/ todo' = <<>> \/ todo' = Tail(todo)
            BY <2>1
        <3> QED
            BY <3>1, <3>2, <3>3
    <2> QED
        BY <2>1, <2>2, DomTried
<1>7. CASE BridgeTarget
    BY <1>7, ItemTried DEF BridgeTarget, bounded, Loops, Probing
<1>8. CASE Logout
    <2>1. /\ stage = "logout" /\ cfg' = cfg /\ UNCHANGED <<check_urls, forms>>
          /\ tried' = tried \cup {<<"logout", 1>>} /\ Advance("logout")
          /\ "logout" \in Stages /\ "logout" \notin Loops
        BY <1>8, LoopsApart DEF Logout, bounded, Stages
    <2>2. \A u \in Loops : TriedOf(u)' = TriedOf(u)
        BY <2>1, TriedOfOne
    <2>3. tried \subseteq tried' /\ <<"logout", 1>> \in tried'
        BY <2>1
    <2> QED
        BY <1>1, <2>1, <2>2, <2>3, AdvanceTried
<1>9. CASE Final
    BY <1>9, FinalTried
<1>10. CASE Except
    <2>1. stage = "except" /\ stage' = "finally" /\ UNCHANGED <<cfg, todo, check_urls, forms>>
          /\ ended' \in {ended, "raised"}
        BY <1>10 DEF Except, swept
    <2>2. ended' # "ok"
        BY <1>1, <2>1 DEF SweepTypes, Exits
    <2> QED
        BY <1>1, <2>1, <2>2, LeaveTried
<1>11. CASE Finally
    BY <1>11, FinallyTried
<1>12. CASE Cancel
    <2>1. /\ stage' \in {"cancelled", "finally"} /\ ended' = "cancelled"
          /\ UNCHANGED <<cfg, todo, check_urls, forms>>
        BY <1>12 DEF Cancel, swept
    <2>2. stage' \in {"except", "finally"} \cup Exits /\ ended' # "ok"
        BY <2>1 DEF Exits
    <2> QED
        BY <1>1, <2>1, <2>2, LeaveTried
<1>13. ASSUME NEW s \in Discovery, Discover(s) PROVE TriedInv'
    <2>1. /\ stage = s /\ cfg' = cfg /\ tried' = tried /\ Advance(s)
        BY <1>13 DEF Discover, bounded
    <2>2. s \in Stages /\ s \notin Loops /\ s # "payload" /\ s # "logout"
        BY LoopsApart, StagesApart DEF Discovery
    <2>3. check_urls' \in Seq(URLs) /\ forms' \in Nat
        BY <1>1, <1>13, DiscoverLists
    <2>4. \A u \in Loops : TriedOf(u)' = TriedOf(u)
        BY <2>1 DEF TriedOf
    <2> QED
        BY <2>1, <2>2, <2>3, <2>4, AdvanceTried
<1>14. ASSUME NEW s \in Probing \ {"dom", "bridge"}, Probe(s) PROVE TriedInv'
    BY <1>14, ItemTried DEF Probe, bounded, Loops
<1>15. ASSUME NEW s \in Probing, LoopDone(s) PROVE TriedInv'
    <2>1. /\ stage = s /\ todo = <<>> /\ cfg' = cfg /\ Advance(s)
          /\ UNCHANGED <<check_urls, forms, tried>>
        BY <1>15 DEF LoopDone, bounded
    <2>2. s \in Stages /\ s # "payload" /\ s # "logout"
        BY StagesApart DEF Probing
    <2>3. \A u \in Loops : TriedOf(u)' = TriedOf(u)
        BY <2>1 DEF TriedOf
    <2> QED
        BY <1>1, <2>1, <2>2, <2>3, AdvanceTried
<1>16. CASE UNCHANGED vars
    <2>1. UNCHANGED <<cfg, stage, todo, check_urls, forms, ended, tried>>
        BY <1>16 DEF vars
    <2>2. SweepTypes' /\ OnceTried'
        BY <2>1 DEF TriedInv, SweepTypes, OnceTried, After
    <2>3. ASSUME NEW u \in Loops PROVE LoopTried(u)'
        <3>1. /\ Before(u)' <=> Before(u)
              /\ After(u)' <=> After(u)
              /\ Skipped(u, forms)' <=> Skipped(u, forms)
              /\ Items(u, check_urls, forms)' = Items(u, check_urls, forms)
              /\ TriedOf(u)' = TriedOf(u)
              /\ Range(todo)' = Range(todo)
            BY <2>1 DEF Before, After, Skipped, Items, TriedOf, Range
        <3> QED
            BY <2>1, <3>1 DEF TriedInv, LoopTried
    <2> QED
        BY <2>2, <2>3 DEF TriedInv
<1> QED
    BY <1>2, <1>3, <1>4, <1>5, <1>6, <1>7, <1>8, <1>9, <1>10, <1>11, <1>12, <1>13, <1>14,
       <1>15, <1>16 DEF Next, Step

LEMMA InitTried == Init => TriedInv
<1> SUFFICES ASSUME Init PROVE TriedInv
    OBVIOUS
<1>1. /\ cfg \in ConfigType /\ stage = "setup" /\ todo = <<>> /\ check_urls = <<>>
      /\ forms = 0 /\ tried = {} /\ ended = ""
    BY SweepAssumption DEF Init
<1>2. ended # "ok"
    BY <1>1
<1>3. SweepTypes
    <2>1. <<>> \in Seq(Nat) /\ <<>> \in Seq(URLs) /\ 0 \in Nat
        OBVIOUS
    <2> QED
        BY <1>1, <1>2, <2>1 DEF SweepTypes
<1>4. \A u : ~After(u)
    BY <1>1, <1>2, StagesApart DEF After
<1>5. \A u : TriedOf(u) = {}
    BY <1>1 DEF TriedOf
<1>6. \A u \in Loops : u # stage
    BY <1>1, LoopsApart, StagesApart
<1> QED
    BY <1>3, <1>4, <1>5, <1>6 DEF TriedInv, OnceTried, LoopTried

LEMMA TriedInvariant == Spec => []TriedInv
<1>1. TriedInv /\ [Next]_vars => TriedInv'
    BY NextTried
<1> QED
    BY InitTried, <1>1, PTL DEF Spec

\* A sweep that gets to its end has tried every item its request asked for: for
\* every request, list of bridge targets, number of URLs and forms, and cap.
THEOREM AllTried == Spec => []EveryProbeTried
<1>1. TriedInv => EveryProbeTried
    <2> SUFFICES ASSUME TriedInv, ended = "ok" PROVE
              /\ <<"payload", 0>> \in tried
              /\ cfg.auth # "none" => <<"logout", 1>> \in tried
              /\ \A s \in Probing \ {"dom"} : ~Skipped(s, forms) =>
                   {t[2] : t \in {t \in tried : t[1] = s}} = Range(Items(s, check_urls, forms))
        BY DEF EveryProbeTried
    <2>1. \A u : After(u)
        BY DEF After
    <2> QED
        BY <2>1 DEF TriedInv, OnceTried, LoopTried, TriedOf, Loops
<1> QED
    BY <1>1, TriedInvariant, PTL

-----------------------------------------------------------------------------
(***************************************************************************)
(* What is found.  A step either stays in its stage and finds nothing, or  *)
(* adds the finding of the loop's next item, or leaves its stage, which    *)
(* the payload and the logout stage do with what they found.               *)
(***************************************************************************)
Rules == {"SIDE", "INJECT", "READ", "SSRF_LIVE", "DOM_XSS_LIVE", "JWT_WEAKNESS_LIVE",
          "DOM_OR_REDIRECT", "STORED_XSS", "LOGOUT_VISIBLE_ON_EVERY_PAGE", "USER",
          "LOGOUT_INVALIDATES_SESSION"}
Verdicts == {"ran", "skipped", "not_configured", "not_tested", "inconclusive", "fail", "pass"}
Found == [src : Probing \cup {"payload", "logout"}, rule : Rules, item : Nat, v : Verdicts]

\* A finding comes from a stage the sweep has reached, of an item it is through
\* with, and no other one is of the same item.
FoundOnce ==
  /\ findings \in Seq(Found)
  /\ \A i, j \in DOMAIN findings :
       findings[i].src = findings[j].src /\ findings[i].item = findings[j].item => i = j
  /\ \A i \in DOMAIN findings :
       /\ ~Before(findings[i].src)
       /\ stage = findings[i].src => stage \in Probing /\ findings[i].item \notin Range(todo)
       /\ findings[i].src = "dom" => ~AuditedRule(findings[i])
  /\ stage \in Probing => IsInjective(todo)

\* Up to the pass over all findings, the record is of the DOM stage alone.
Recorded ==
  /\ active_mode_audit \in Seq(Found)
  /\ IsInjective(active_mode_audit)
  /\ \A f \in Range(active_mode_audit) : f \in Range(findings) /\ Touched(f)
  /\ Before("bridge") \/ stage = "bridge" =>
       \A f \in Range(active_mode_audit) : f.src = "dom"
  /\ \A f \in Range(findings) :
       Touched(f) /\ (f.src \in Probing \ {"bridge"} \/ (AuditedRule(f) /\ After("bridge")))
         => f \in Range(active_mode_audit)

Idle ==
  /\ UNCHANGED <<stage, ended, findings, active_mode_audit>>
  /\ todo' \in {todo, <<>>} \/ (stage \in Probing /\ todo # <<>> /\ todo' = Tail(todo))

OneMore(f) ==
  /\ stage \in Probing /\ todo # <<>>
  /\ f \in Found /\ f.src = stage /\ f.item = Head(todo)
  /\ stage = "dom" => ~AuditedRule(f)
  /\ UNCHANGED <<stage, ended>>
  /\ todo' = Tail(todo)
  /\ findings' = Append(findings, f)
  /\ active_mode_audit' = IF stage = "bridge" THEN active_mode_audit
                          ELSE _audit(active_mode_audit, f)

Onward ==
  /\ \A u \in Stages : Before(u)' => Before(u)
  /\ \A u \in Stages : stage = u => ~Before(u)'
  /\ \A u \in Stages : stage' = u => Before(u)
  /\ stage' \in Probing => IsInjective(todo)'
  /\ After("bridge")' => After("bridge") \/ stage = "bridge"
  /\ stage \in {"payload", "logout"} => stage' # stage

Passed ==
  /\ Onward /\ findings' = findings
  /\ active_mode_audit' = IF stage = "bridge" /\ After("bridge")' THEN AuditSweep
                          ELSE active_mode_audit

Swept ==
  /\ Onward /\ stage = "payload" /\ active_mode_audit' = active_mode_audit
  /\ findings' = PayloadFindings("payload", 0, PayloadRules, Len(check_urls))

LoggedOff ==
  /\ Onward /\ stage = "logout" /\ active_mode_audit' = active_mode_audit
  /\ \E v \in Verdicts :
       findings' = Append(findings, Finding("logout", "LOGOUT_INVALIDATES_SESSION", 1, v))

\* Where a stage of the body leads to.
LEMMA AdvanceOnward ==
  ASSUME TriedInv, NEW s \in Stages, stage = s, Advance(s), cfg' = cfg,
         check_urls' \in Seq(URLs), forms' \in Nat
  PROVE  Onward /\ (stage' # "except" => \E t \in Stages : stage' = t) /\ stage' # s
         /\ (stage' # "except" /\ s = "bridge" => After("bridge")')
         /\ (stage' = "except" => ~After("bridge")')
<1>1. SweepTypes
    BY DEF TriedInv
<1>2. ended # "ok"
    BY <1>1, StagesApart DEF SweepTypes
<1>3. CASE stage' = "except" /\ ended' = "failed" /\ todo' = todo
    <2>1. stage' \notin Stages /\ stage' # "setup" /\ stage' # "connect" /\ ended' # "ok"
        BY <1>3, StagesApart
    <2>2. \A u : ~Before(u)' /\ ~After(u)'
        BY <2>1 DEF Before, After
    <2>3. stage' \notin Probing
        BY <2>1, StagesApart
    <2>4. stage' # s
        BY <2>1
    <2> QED
        BY <1>3, <2>1, <2>2, <2>3, <2>4 DEF Onward
<1>4. ASSUME NEW t \in Stages, Follows(s, t, forms'), stage' = t,
             todo' = Items(t, check_urls', forms'), ended' = ended
      PROVE  /\ Onward /\ t # s /\ t # "except"
             /\ s = "bridge" => After("bridge")'
    <2>1. /\ Position(s) < Position(t)
          /\ \A u \in Stages : Position(s) < Position(u) /\ Position(u) < Position(t)
                                  => Skipped(u, forms')
        BY <1>4 DEF Follows
    <2>2. /\ Position(s) \in 1..16 /\ Position(t) \in 1..16
          /\ \A u \in Stages : Position(u) \in 1..16
        BY PositionTypes
    <2>3. \A u \in Stages : Before(u)' <=> Position(t) < Position(u)
        BY <1>4, StagesApart DEF Before
    <2>4. \A u \in Stages : Before(u) <=> Position(s) < Position(u)
        BY StagesApart DEF Before
    <2>5. \A u \in Stages : Before(u)' => Before(u)
        <3>1. SUFFICES ASSUME NEW u \in Stages, Position(t) < Position(u)
                       PROVE  Position(s) < Position(u)
            BY <2>3, <2>4
        <3>2. Position(s) \in Int /\ Position(t) \in Int /\ Position(u) \in Int
            BY <2>2
        <3>3. Position(s) < Position(t)
            BY <2>1
        <3> QED
            BY <3>1, <3>2, <3>3
    <2>6. ~(Position(t) < Position(s))
        <3>1. Position(s) \in Int /\ Position(t) \in Int /\ Position(s) < Position(t)
            BY <2>1, <2>2
        <3> QED
            BY <3>1
    <2>7. \A u \in Stages : stage = u => ~Before(u)'
        BY <2>3, <2>6
    <2>8. \A u \in Stages : stage' = u => Before(u)
        BY <1>4, <2>1, <2>4
    <2>9. IsInjective(todo)'
        <3>1. cfg \in ConfigType
            BY <1>1 DEF SweepTypes
        <3>2. IsInjective(Items(t, check_urls', forms'))
            <4>1. \A urls \in Seq(URLs), nforms \in Nat : IsInjective(Items(t, urls, nforms))
                BY <3>1, ItemsListed
            <4>2. \A urls, nforms : Items(t, urls, nforms)' = Items(t, urls, nforms)
                BY DEF Items
            <4> QED
                BY <4>1, <4>2
        <3> QED
            BY <1>4, <3>2 DEF IsInjective
    <2>10. t # s /\ t # "except"
        BY <2>1, <2>2, StagesApart
    <2>11. "bridge" \in Stages /\ ~Skipped("bridge", forms')
        BY DEF Stages, Probing, Skipped
    <2>12. After("bridge")' <=> Position("bridge") < Position(t)
        BY <1>2, <1>4 DEF After
    <2>13. After("bridge") <=> Position("bridge") < Position(s)
        BY <1>2 DEF After
    <2>14. After("bridge")' => After("bridge") \/ s = "bridge"
        <3>1. SUFFICES ASSUME Position("bridge") < Position(t), s # "bridge"
                       PROVE  Position("bridge") < Position(s)
            BY <2>12, <2>13
        <3>2. Position(s) # Position("bridge")
            BY <2>11, <3>1, PositionTypes
        <3>3. ~(Position(s) < Position("bridge"))
            BY <2>1, <2>11, <3>1
        <3>4. Position(s) \in Int /\ Position("bridge") \in Int
            BY <2>2, <2>11
        <3> QED
            BY <3>2, <3>3, <3>4
    <2>15. s = "bridge" => After("bridge")'
        BY <2>1, <2>12
    <2> QED
        BY <1>4, <2>5, <2>7, <2>8, <2>9, <2>10, <2>14, <2>15 DEF Onward
<1> QED
    BY <1>2, <1>3, <1>4, AdvanceTo DEF After

\* A step to the handlers, or out of the sweep.
LEMMA LeaveOnward ==
  ASSUME stage' \in {"except", "finally"} \cup Exits,
         After("bridge")' => After("bridge")
  PROVE  Onward
<1>1. stage' \notin Stages /\ stage' # "setup" /\ stage' # "connect"
    BY StagesApart DEF Exits
<1>2. \A u : ~Before(u)'
    BY <1>1 DEF Before
<1>3. stage' \notin Probing /\ stage' # "payload" /\ stage' # "logout"
    BY <1>1, StagesApart DEF Stages
<1> QED
    BY <1>1, <1>2, <1>3 DEF Onward


LEMMA RangeIs ==
  ASSUME NEW S, NEW q \in Seq(S)
  PROVE  /\ Len(q) \in Nat /\ DOMAIN q = 1..Len(q)
         /\ \A y : y \in Range(q) <=> \E i \in 1..Len(q) : y = q[i]
         /\ \A i \in 1..Len(q) : q[i] \in S
  BY DEF Range

LEMMA AppendIs ==
  ASSUME NEW S, NEW q \in Seq(S), NEW f \in S
  PROVE  /\ Append(q, f) \in Seq(S)
         /\ DOMAIN Append(q, f) = 1..(Len(q) + 1)
         /\ \A i \in 1..Len(q) : Append(q, f)[i] = q[i]
         /\ Append(q, f)[Len(q) + 1] = f
         /\ Range(Append(q, f)) = Range(q) \cup {f}
<1>1. Len(q) \in Nat /\ DOMAIN q = 1..Len(q)
    OBVIOUS
<1>2. /\ Append(q, f) \in Seq(S) /\ Len(Append(q, f)) = Len(q) + 1
      /\ \A i \in 1..Len(q) : Append(q, f)[i] = q[i]
      /\ Append(q, f)[Len(q) + 1] = f
    BY <1>1
<1>3. DOMAIN Append(q, f) = 1..(Len(q) + 1)
    BY <1>2
<1>4. ASSUME NEW y PROVE y \in Range(Append(q, f)) <=> y \in Range(q) \cup {f}
    <2>1. y \in Range(Append(q, f)) <=> \E i \in 1..(Len(q) + 1) : y = Append(q, f)[i]
        BY <1>3 DEF Range
    <2>2. y \in Range(q) <=> \E i \in 1..Len(q) : y = q[i]
        BY <1>1 DEF Range
    <2>3. 1..(Len(q) + 1) = 1..Len(q) \cup {Len(q) + 1}
        BY <1>1
    <2> QED
        BY <1>2, <2>1, <2>2, <2>3
<1> QED
    BY <1>2, <1>3, <1>4

\* A stage that neither finds nor moves on, though it may give up its list.
LEMMA IdleFound ==
  ASSUME TriedInv, FoundOnce, Idle
  PROVE  FoundOnce'
<1>1. UNCHANGED <<stage, ended, findings>>
    BY DEF Idle
<1>2. \A u : Before(u)' <=> Before(u)
    BY <1>1 DEF Before
<1>3. todo \in Seq(Nat)
    BY DEF TriedInv, SweepTypes
<1>4. /\ \A x : x \in Range(todo)' => x \in Range(todo)
      /\ IsInjective(todo) => IsInjective(todo)'
    <2>1. CASE todo' = todo
        BY <2>1 DEF Range, IsInjective
    <2>2. CASE todo' = <<>>
        <3>1. DOMAIN <<>> = {}
            OBVIOUS
        <3> QED
            BY <2>2, <3>1 DEF Range, IsInjective
    <2>3. CASE todo # <<>> /\ todo' = Tail(todo)
        <3>1. Range(todo)' = Range(Tail(todo)) /\ (IsInjective(Tail(todo)) => IsInjective(todo)')
            BY <2>3 DEF Range, IsInjective
        <3> QED
            BY <1>3, <2>3, <3>1, ListHead
    <2> QED
        BY <2>1, <2>2, <2>3 DEF Idle
<1>5. \A f : AuditedRule(f)' <=> AuditedRule(f)
    BY DEF AuditedRule
<1> QED
    BY <1>1, <1>2, <1>4, <1>5 DEF FoundOnce

LEMMA PassedFound ==
  ASSUME FoundOnce, Onward, findings' = findings
  PROVE  FoundOnce'
<1>1. findings \in Seq(Found) /\ \A i \in DOMAIN findings : findings[i] \in Found
    BY RangeIs DEF FoundOnce
<1>2. \A i \in DOMAIN findings : findings[i].src \in Stages
    BY <1>1, StagesApart DEF Found, Stages
<1>3. ASSUME NEW i \in DOMAIN findings
      PROVE  /\ ~Before(findings[i].src)'
             /\ stage' # findings[i].src
             /\ findings[i].src = "dom" => ~AuditedRule(findings[i])
    BY <1>2, <1>3 DEF FoundOnce, Onward
<1> QED
    BY <1>3 DEF FoundOnce, Onward

LEMMA OneMoreFound ==
  ASSUME TriedInv, FoundOnce, NEW f, OneMore(f)
  PROVE  FoundOnce' /\ f \notin Range(findings)
<1>1. /\ stage \in Probing /\ todo # <<>> /\ f \in Found /\ f.src = stage /\ f.item = Head(todo)
      /\ stage = "dom" => ~AuditedRule(f)
      /\ stage' = stage /\ ended' = ended /\ todo' = Tail(todo) /\ findings' = Append(findings, f)
    BY DEF OneMore
<1>2. \A u : Before(u)' <=> Before(u)
    BY <1>1 DEF Before
<1>3. todo \in Seq(Nat) /\ IsInjective(todo)
    BY <1>1 DEF TriedInv, SweepTypes, FoundOnce
<1>4. /\ Head(todo) \in Range(todo) /\ Head(todo) \notin Range(Tail(todo))
      /\ Range(Tail(todo)) \subseteq Range(todo) /\ IsInjective(Tail(todo))
    BY <1>1, <1>3, ListHead
<1>5. Range(todo)' = Range(Tail(todo)) /\ IsInjective(todo)'
    BY <1>1, <1>4 DEF Range, IsInjective
<1>6. findings \in Seq(Found) /\ DOMAIN findings = 1..Len(findings) /\ Len(findings) \in Nat
    BY RangeIs DEF FoundOnce
<1>7. PICK last : /\ findings' \in Seq(Found) /\ findings'[last] = f
                  /\ last \notin DOMAIN findings /\ DOMAIN findings' = DOMAIN findings \cup {last}
                  /\ \A i \in DOMAIN findings : findings'[i] = findings[i]
    <2>1. /\ findings' \in Seq(Found) /\ DOMAIN findings' = 1..(Len(findings) + 1)
          /\ \A i \in DOMAIN findings : findings'[i] = findings[i]
          /\ findings'[Len(findings) + 1] = f
        BY <1>1, <1>6, AppendIs
    <2>2. /\ 1..(Len(findings) + 1) = DOMAIN findings \cup {Len(findings) + 1}
          /\ Len(findings) + 1 \notin DOMAIN findings
        BY <1>6
    <2> QED
        BY <2>1, <2>2
<1>8. \A i \in DOMAIN findings : ~(findings[i].src = f.src /\ findings[i].item = f.item)
    BY <1>1, <1>4 DEF FoundOnce
<1>9. ~Before(stage)
    <2>1. stage \in Stages /\ Position(stage) \in 1..16
        BY <1>1, StagesApart, PositionTypes
    <2>2. ~(Position(stage) < Position(stage))
        BY <2>1
    <2> QED
        BY <2>1, <2>2, StagesApart DEF Before
<1>10. ASSUME NEW i \in DOMAIN findings', NEW j \in DOMAIN findings',
              findings'[i].src = findings'[j].src, findings'[i].item = findings'[j].item
       PROVE  i = j
    <2>1. CASE i \in DOMAIN findings /\ j \in DOMAIN findings
        BY <1>7, <1>10, <2>1 DEF FoundOnce
    <2>2. CASE i \in DOMAIN findings /\ j = last
        BY <1>7, <1>8, <1>10, <2>2
    <2>3. CASE i = last /\ j \in DOMAIN findings
        BY <1>7, <1>8, <1>10, <2>3
    <2> QED
        BY <1>7, <2>1, <2>2, <2>3
<1>11. ASSUME NEW i \in DOMAIN findings'
       PROVE  /\ ~Before(findings[i].src)'
              /\ stage' = findings'[i].src =>
                   stage' \in Probing /\ findings'[i].item \notin Range(todo)'
              /\ findings'[i].src = "dom" => ~AuditedRule(findings[i])'
    <2>1. CASE i \in DOMAIN findings
        <3>1. /\ ~Before(findings[i].src)
              /\ stage = findings[i].src => findings[i].item \notin Range(todo)
              /\ findings[i].src = "dom" => ~AuditedRule(findings[i])
            BY <2>1 DEF FoundOnce
        <3>2. findings'[i] = findings[i]
            BY <1>7, <2>1
        <3>3. ~Before(findings[i].src)'
            BY <1>1, <3>1, <3>2 DEF Before
        <3>4. findings'[i].src = "dom" => ~AuditedRule(findings[i])'
            BY <3>1, <3>2 DEF AuditedRule
        <3> QED
            BY <1>1, <1>4, <1>5, <3>1, <3>2, <3>3, <3>4
    <2>2. CASE i = last
        <3>1. findings'[i] = f
            BY <1>7, <2>2
        <3>2. ~Before(findings[i].src)'
            BY <1>1, <1>9, <3>1 DEF Before
        <3>3. findings'[i].src = "dom" => ~AuditedRule(findings[i])'
            BY <1>1, <3>1 DEF AuditedRule
        <3> QED
            BY <1>1, <1>4, <1>5, <3>1, <3>2, <3>3
    <2> QED
        BY <1>7, <2>1, <2>2
<1>12. FoundOnce'
    BY <1>5, <1>7, <1>10, <1>11 DEF FoundOnce
<1>13. f \notin Range(findings)
    BY <1>8 DEF Range
<1> QED
    BY <1>12, <1>13


\* The verdict that a gate gives.
LEMMA GatedVerdict == Gated \in Verdicts /\ "ran" \in Verdicts /\ "not_configured" \in Verdicts
  BY DEF Gated, Verdicts

LEMMA PayloadFound ==
  ASSUME NEW n \in Nat
  PROVE  /\ PayloadFindings("payload", 0, PayloadRules, n) \in Seq(Found)
         /\ \A k \in DOMAIN PayloadFindings("payload", 0, PayloadRules, n) :
              /\ PayloadFindings("payload", 0, PayloadRules, n)[k].src = "payload"
              /\ PayloadFindings("payload", 0, PayloadRules, n)[k].item = k
<1> DEFINE q == PayloadFindings("payload", 0, PayloadRules, n)
           r(k) == PayloadRules[((k - 1) % Len(PayloadRules)) + 1]
<1>1. /\ Len(PayloadRules) = 3 /\ n * Len(PayloadRules) \in Nat
      /\ \A k \in 1..3 : PayloadRules[k] \in Rules
    <2>1. Len(PayloadRules) = 3
        BY DEF PayloadRules
    <2>2. n * 3 \in Nat
        OBVIOUS
    <2>3. \A k \in {1, 2, 3} : PayloadRules[k] \in Rules
        BY DEF PayloadRules, Rules
    <2>4. 1..3 = {1, 2, 3}
        OBVIOUS
    <2> QED
        BY <2>1, <2>2, <2>3, <2>4
<1>2. ASSUME NEW k \in 1..(n * Len(PayloadRules)) PROVE r(k) \in Rules
    <2>1. ((k - 1) % 3) + 1 \in 1..3
        BY <1>1
    <2> QED
        BY <1>1, <2>1
<1>3. q = [k \in 1..(n * Len(PayloadRules)) |->
             Finding("payload", r(k), k, IF r(k) = "READ" THEN "ran" ELSE Gated)]
    BY DEF PayloadFindings
<1> HIDE DEF r, q
<1>4. ASSUME NEW k \in 1..(n * Len(PayloadRules))
      PROVE  q[k] \in Found /\ q[k].src = "payload" /\ q[k].item = k
    <2>1. k \in Nat
        BY <1>1
    <2>2. q[k] = Finding("payload", r(k), k, IF r(k) = "READ" THEN "ran" ELSE Gated)
        BY <1>3
    <2>3. (IF r(k) = "READ" THEN "ran" ELSE Gated) \in Verdicts
        BY GatedVerdict
    <2> QED
        BY <1>2, <2>1, <2>2, <2>3 DEF Finding, Found
<1>5. DOMAIN q = 1..(n * Len(PayloadRules))
    BY <1>3
<1>6. q \in Seq(Found)
    <2>1. q \in [1..(n * Len(PayloadRules)) -> Found]
        BY <1>3, <1>4, <1>5
    <2> QED
        BY <1>1, <2>1
<1> QED
    BY <1>4, <1>5, <1>6 DEF q

\* Nothing is found before the payload sweep.
LEMMA NothingYet ==
  ASSUME FoundOnce, stage \in {"setup", "connect", "payload"} \cup Discovery \cup {"announce"}
  PROVE  DOMAIN findings = {}
<1> SUFFICES ASSUME NEW i \in DOMAIN findings PROVE FALSE
    OBVIOUS
<1>1. findings[i] \in Found
    BY RangeIs DEF FoundOnce
<1>2. findings[i].src \in Probing \cup {"payload", "logout"}
    BY <1>1 DEF Found
<1>3. /\ ~Before(findings[i].src)
      /\ stage = findings[i].src => stage \in Probing
    BY DEF FoundOnce
<1>4. CASE stage \in {"setup", "connect"}
    BY <1>3, <1>4 DEF Before
<1>5. CASE stage \in {"payload", "announce"} \cup Discovery
    <2>1. stage \in Stages /\ Position(stage) \in 1..7
        <3>1. stage \in Discovery => Position(stage) \in 1..5
            BY PositionTypes
        <3>2. stage \in {"payload", "announce"} => Position(stage) \in 1..7
            BY Positions
        <3> QED
            BY <1>5, <3>1, <3>2, StagesApart DEF Stages
    <2>2. ~(Position(stage) < Position(findings[i].src))
        BY <1>3, <2>1 DEF Before
    <2>3. CASE findings[i].src \in Probing
        <3>1. Position(findings[i].src) \in 8..15
            BY <2>3, PositionTypes
        <3> QED
            BY <2>1, <2>2, <3>1
    <2>4. CASE findings[i].src = "logout"
        <3>1. Position(findings[i].src) = 13
            BY <2>4, Positions
        <3> QED
            BY <2>1, <2>2, <3>1
    <2>5. CASE findings[i].src = "payload"
        <3>1. Position(findings[i].src) = 7 /\ "payload" \in Stages /\ findings[i].src \in Stages
            BY <2>5, Positions DEF Stages
        <3>2. Position(stage) = Position(findings[i].src)
            BY <2>1, <2>2, <3>1
        <3>3. stage = "payload"
            BY <2>1, <2>5, <3>1, <3>2, PositionTypes
        <3> QED
            BY <1>3, <2>5, <3>3 DEF Probing
    <2> QED
        BY <1>2, <2>3, <2>4, <2>5
<1> QED
    BY <1>4, <1>5

LEMMA SweptFound ==
  ASSUME TriedInv, FoundOnce, Swept
  PROVE  FoundOnce'
<1>1. Len(check_urls) \in Nat
    BY DEF TriedInv, SweepTypes
<1>2. /\ findings' \in Seq(Found)
      /\ \A k \in DOMAIN findings' : findings'[k].src = "payload" /\ findings'[k].item = k
    BY <1>1, PayloadFound DEF Swept
<1>3. ~Before("payload")' /\ stage' # "payload" /\ (stage' \in Probing => IsInjective(todo)')
    BY DEF Swept, Onward, Stages
<1>4. ASSUME NEW i \in DOMAIN findings'
      PROVE  ~Before(findings[i].src)' /\ stage' # findings'[i].src /\ findings'[i].src # "dom"
    BY <1>2, <1>3 DEF Before
<1> QED
    BY <1>2, <1>3, <1>4 DEF FoundOnce

LEMMA LoggedOffFound ==
  ASSUME TriedInv, FoundOnce, LoggedOff
  PROVE  FoundOnce' /\ findings' \in Seq(Found) /\ \E f \in Found : /\ findings' = Append(findings, f)
                                         /\ f.src = "logout" /\ ~AuditedRule(f)
<1>1. stage = "logout" /\ Onward
    BY DEF LoggedOff
<1>2. PICK v \in Verdicts :
        findings' = Append(findings, Finding("logout", "LOGOUT_INVALIDATES_SESSION", 1, v))
    BY DEF LoggedOff
<1> DEFINE f == Finding("logout", "LOGOUT_INVALIDATES_SESSION", 1, v)
<1>3. f \in Found /\ f.src = "logout" /\ f.item = 1 /\ ~AuditedRule(f)
    BY DEF Finding, Found, Rules, AuditedRule
<1> HIDE DEF f
<1>4. findings \in Seq(Found) /\ DOMAIN findings = 1..Len(findings) /\ Len(findings) \in Nat
    BY RangeIs DEF FoundOnce
<1>5. PICK last : /\ findings' \in Seq(Found) /\ findings'[last] = f
                  /\ last \notin DOMAIN findings /\ DOMAIN findings' = DOMAIN findings \cup {last}
                  /\ \A i \in DOMAIN findings : findings'[i] = findings[i]
    <2>1. /\ findings' \in Seq(Found) /\ DOMAIN findings' = 1..(Len(findings) + 1)
          /\ \A i \in DOMAIN findings : findings'[i] = findings[i]
          /\ findings'[Len(findings) + 1] = f
        BY <1>2, <1>3, <1>4, AppendIs DEF f
    <2>2. /\ 1..(Len(findings) + 1) = DOMAIN findings \cup {Len(findings) + 1}
          /\ Len(findings) + 1 \notin DOMAIN findings
        BY <1>4
    <2> QED
        BY <2>1, <2>2
<1>6. \A i \in DOMAIN findings : findings[i].src # "logout" /\ findings[i].src \in Stages
    <2>1. \A i \in DOMAIN findings : findings[i].src \in Stages
        <3>1. \A i \in DOMAIN findings : findings[i] \in Found
            BY <1>4
        <3>2. \A g \in Found : g.src \in Stages
            BY StagesApart DEF Found, Stages
        <3> QED
            BY <3>1, <3>2
    <2>2. "logout" \notin Probing
        BY DEF Probing
    <2> QED
        BY <1>1, <2>1, <2>2 DEF FoundOnce
<1>7. ASSUME NEW i \in DOMAIN findings', NEW j \in DOMAIN findings',
             findings'[i].src = findings'[j].src, findings'[i].item = findings'[j].item
      PROVE  i = j
    <2>1. CASE i \in DOMAIN findings /\ j \in DOMAIN findings
        BY <1>5, <1>7, <2>1 DEF FoundOnce
    <2>2. CASE i \in DOMAIN findings /\ j = last
        BY <1>3, <1>5, <1>6, <1>7, <2>2
    <2>3. CASE i = last /\ j \in DOMAIN findings
        BY <1>3, <1>5, <1>6, <1>7, <2>3
    <2> QED
        BY <1>5, <2>1, <2>2, <2>3
<1>8. ASSUME NEW i \in DOMAIN findings'
      PROVE  /\ ~Before(findings[i].src)'
             /\ stage' # findings'[i].src
             /\ findings'[i].src = "dom" => ~AuditedRule(findings[i])'
    <2>1. CASE i \in DOMAIN findings
        <3>1. findings'[i] = findings[i] /\ findings[i].src \in Stages
            BY <1>5, <1>6, <2>1
        <3>2. /\ ~Before(findings[i].src) /\ findings[i].src \in Stages
              /\ findings[i].src = "dom" => ~AuditedRule(findings[i])
            BY <1>6, <2>1 DEF FoundOnce
        <3>3. \A u \in Stages : (Before(u)' => Before(u)) /\ (stage' = u => Before(u))
            BY <1>1 DEF Onward
        <3>4. ~Before(findings[i].src)'
            BY <3>1, <3>2, <3>3 DEF Before
        <3>5. findings'[i].src = "dom" => ~AuditedRule(findings[i])'
            BY <3>1, <3>2 DEF AuditedRule
        <3> QED
            BY <3>1, <3>2, <3>3, <3>4, <3>5
    <2>2. CASE i = last
        <3>1. findings'[i].src = "logout"
            BY <1>3, <1>5, <2>2
        <3>2. ~Before("logout")' /\ stage' # "logout"
            BY <1>1 DEF Onward, Stages
        <3> QED
            BY <3>1, <3>2 DEF Before
    <2> QED
        BY <1>5, <2>1, <2>2
<1>9. FoundOnce'
    BY <1>1, <1>5, <1>7, <1>8 DEF FoundOnce, Onward
<1> QED
    BY <1>2, <1>3, <1>5, <1>9 DEF f


-----------------------------------------------------------------------------
(***************************************************************************)
(* The audit record.                                                       *)
(***************************************************************************)
LEMMA PartFinite ==
  ASSUME NEW n \in Nat, NEW S \in SUBSET (1..n)
  PROVE  IsFiniteSet(S)
<1>1. 1 \in Int /\ n \in Int
    OBVIOUS
<1>2. IsFiniteSet(1..n)
    BY <1>1, FS_Interval
<1> QED
    BY <1>2, FS_Subset

LEMMA RankTypes ==
  ASSUME NEW n \in Nat, NEW S \in SUBSET (1..n), NEW i \in S
  PROVE  /\ IsFiniteSet(S) /\ Cardinality(S) \in Nat
         /\ Cardinality({j \in S : j <= i}) \in 1..Cardinality(S)
<1>1. IsFiniteSet(S)
    BY PartFinite
<1>2. {j \in S : j <= i} \in SUBSET S
    OBVIOUS
<1>3. /\ IsFiniteSet({j \in S : j <= i})
      /\ Cardinality({j \in S : j <= i}) <= Cardinality(S)
    BY <1>1, <1>2, FS_Subset
<1>4. Cardinality(S) \in Nat /\ Cardinality({j \in S : j <= i}) \in Nat
    BY <1>1, <1>3, FS_CardinalityType
<1>5. i \in {j \in S : j <= i}
    OBVIOUS
<1>6. Cardinality({j \in S : j <= i}) # 0
    BY <1>3, <1>5, FS_EmptySet
<1> QED
    BY <1>1, <1>3, <1>4, <1>6

LEMMA RankApart ==
  ASSUME NEW n \in Nat, NEW S \in SUBSET (1..n), NEW a \in S, NEW b \in S,
         Cardinality({j \in S : j <= a}) = Cardinality({j \in S : j <= b})
  PROVE  a = b
<1>1. ASSUME NEW x \in S, NEW y \in S, x < y,
             Cardinality({j \in S : j <= x}) = Cardinality({j \in S : j <= y})
      PROVE  FALSE
    <2>1. {j \in S : j <= x} \in SUBSET {j \in S : j <= y}
        <3>1. \A j \in S : j \in Int
            OBVIOUS
        <3>2. x \in Int /\ y \in Int
            BY <3>1
        <3>3. \A j \in S : j <= x => j <= y
            BY <1>1, <3>1, <3>2
        <3> QED
            BY <3>3
    <2>2. IsFiniteSet({j \in S : j <= y})
        <3>1. IsFiniteSet(S) /\ {j \in S : j <= y} \in SUBSET S
            BY RankTypes
        <3> QED
            BY <3>1, FS_Subset
    <2>3. {j \in S : j <= y} = {j \in S : j <= x}
        BY <1>1, <2>1, <2>2, FS_Subset
    <2>4. y \in {j \in S : j <= y} /\ y \notin {j \in S : j <= x}
        BY <1>1
    <2> QED
        BY <2>3, <2>4
<1>2. a \in Int /\ b \in Int
    OBVIOUS
<1>3. ~(a < b) /\ ~(b < a)
    BY <1>1
<1> QED
    BY <1>2, <1>3

\* The enumeration holds each number of the set, and none twice.
LEMMA InOrderIs ==
  ASSUME NEW n \in Nat, NEW S \in SUBSET (1..n)
  PROVE  /\ InOrder(S) \in Seq(S)
         /\ IsInjective(InOrder(S))
         /\ Range(InOrder(S)) = S
<1> DEFINE size(i) == Cardinality({j \in S : j <= i})
           rank == [i \in S |-> size(i)]
           c == Cardinality(S)
<1>1. IsFiniteSet(S) /\ c \in Nat /\ IsFiniteSet(1..c) /\ Cardinality(1..c) = c
    <2>1. IsFiniteSet(S)
        BY PartFinite
    <2>2. c \in Nat
        BY <2>1, FS_CardinalityType
    <2>3. IsFiniteSet(1..c) /\ Cardinality(1..c) = IF 1 > c THEN 0 ELSE c - 1 + 1
        BY <2>2, FS_Interval
    <2> QED
        BY <2>1, <2>2, <2>3
<1>2. rank \in [S -> 1..c]
    <2>1. \A i \in S : size(i) \in 1..c
        BY RankTypes
    <2> HIDE DEF size, c
    <2> QED
        BY <2>1
<1>3. \A a, b \in S : rank[a] = rank[b] => a = b
    <2>1. \A a, b \in S : size(a) = size(b) => a = b
        BY RankApart
    <2> HIDE DEF size
    <2> QED
        BY <2>1
<1>4. rank \in Injection(S, 1..c)
    BY <1>2, <1>3 DEF Injection, IsInjective
<1>5. rank \in Surjection(S, 1..c)
    BY <1>1, <1>4, FS_Injection
<1>6. \A k \in 1..c : \E i \in S : rank[i] = k
    BY <1>5 DEF Surjection
<1>7. InOrder(S) = [k \in 1..c |-> CHOOSE i \in S : rank[i] = k]
    <2>1. ASSUME NEW k \in 1..c
          PROVE  (CHOOSE i \in S : Cardinality({j \in S : j <= i}) = k) = CHOOSE i \in S : rank[i] = k
        OBVIOUS
    <2> QED
        BY <2>1 DEF InOrder
<1> DEFINE q == InOrder(S)
<1> HIDE DEF rank, c, q
<1>8. \A k \in 1..c : q[k] \in S /\ rank[q[k]] = k
    BY <1>6, <1>7 DEF q
<1>9. DOMAIN q = 1..c
    BY <1>7 DEF q
<1>10. q \in Seq(S)
    <2>1. q \in [1..c -> S]
        BY <1>7, <1>8, <1>9 DEF q
    <2> QED
        BY <1>1, <2>1
<1>11. IsInjective(q)
    BY <1>8, <1>9 DEF IsInjective
<1>12. ASSUME NEW i \in S PROVE i \in Range(q)
    <2>1. rank[i] \in 1..c
        BY <1>2
    <2>2. q[rank[i]] = i
        BY <1>3, <1>8, <2>1
    <2> QED
        BY <1>9, <2>1, <2>2 DEF Range
<1>13. Range(q) \subseteq S
    BY <1>8, <1>9 DEF Range
<1> QED
    BY <1>10, <1>11, <1>12, <1>13 DEF q


LEMMA IdleRecorded ==
  ASSUME Recorded, Idle
  PROVE  Recorded'
<1>1. UNCHANGED <<stage, ended, findings, active_mode_audit>>
    BY DEF Idle
<1>2. (Before("bridge")' <=> Before("bridge")) /\ (After("bridge")' <=> After("bridge"))
    BY <1>1 DEF Before, After
<1>3. \A f : (AuditedRule(f)' <=> AuditedRule(f)) /\ (Touched(f)' <=> Touched(f))
    BY DEF AuditedRule, Touched
<1> QED
    BY <1>1, <1>2, <1>3 DEF Recorded, IsInjective, Range

\* Up to the bridge's end the record is of the DOM stage alone.
LEMMA OnwardBefore ==
  ASSUME Onward
  PROVE  Before("bridge")' \/ stage' = "bridge" => Before("bridge")
  BY DEF Onward, Stages, Probing

LEMMA OneMoreRecorded ==
  ASSUME TriedInv, FoundOnce, Recorded, NEW f, OneMore(f), f \notin Range(findings)
  PROVE  Recorded'
<1>1. /\ stage \in Probing /\ f \in Found /\ f.src = stage
      /\ stage = "dom" => ~AuditedRule(f)
      /\ stage' = stage /\ ended' = ended /\ findings' = Append(findings, f)
      /\ active_mode_audit' = IF stage = "bridge" THEN active_mode_audit
                              ELSE _audit(active_mode_audit, f)
    BY DEF OneMore
<1>2. (Before("bridge")' <=> Before("bridge")) /\ (After("bridge")' <=> After("bridge"))
    BY <1>1 DEF Before, After
<1>3. Range(findings)' = Range(findings) \cup {f}
    <2>1. findings \in Seq(Found)
        BY DEF FoundOnce
    <2>2. Range(Append(findings, f)) = Range(findings) \cup {f}
        BY <1>1, <2>1, AppendIs
    <2> QED
        BY <1>1, <2>2 DEF Range
<1>4. active_mode_audit \in Seq(Found) /\ f \notin Range(active_mode_audit)
    BY DEF Recorded
<1>5. Before("bridge") => stage = "dom"
    <2>1. stage \in Stages /\ Position(stage) \in 8..15
        BY <1>1, StagesApart, PositionTypes
    <2>2. ASSUME Position(stage) < Position("bridge") PROVE stage = "dom"
        <3>1. Position(stage) = Position("dom")
            BY <2>1, <2>2, Positions
        <3> QED
            BY <2>1, <3>1, PositionTypes, StagesApart DEF Probing
    <2> QED
        BY <2>1, <2>2, StagesApart DEF Before
<1>6. ~After("bridge") \/ stage # "bridge"
    <2>1. ASSUME stage = "bridge" PROVE ~After("bridge")
        <3>1. ended # "ok"
            BY <2>1, StagesApart DEF TriedInv, SweepTypes, Probing
        <3>2. ~(Position("bridge") < Position("bridge"))
            BY Positions
        <3> QED
            BY <2>1, <3>1, <3>2 DEF After
    <2> QED
        BY <2>1
<1>7. CASE active_mode_audit' = active_mode_audit /\ (stage = "bridge" \/ ~Touched(f))
    <2>1. /\ active_mode_audit' \in Seq(Found) /\ IsInjective(active_mode_audit)'
          /\ Range(active_mode_audit)' = Range(active_mode_audit)
        BY <1>7 DEF Recorded, IsInjective, Range
    <2>2. \A g \in Range(active_mode_audit)' : g \in Range(findings)' /\ Touched(g)
        BY <1>3, <2>1 DEF Recorded
    <2>3. Before("bridge")' \/ stage' = "bridge" => \A g \in Range(active_mode_audit)' : g.src = "dom"
        BY <1>1, <1>2, <2>1 DEF Recorded
    <2>4. ASSUME NEW g \in Range(findings)', Touched(g),
                 g.src \in Probing \ {"bridge"} \/ (AuditedRule(g) /\ After("bridge")')
          PROVE  g \in Range(active_mode_audit)'
        <3>1. CASE g \in Range(findings)
            BY <1>2, <2>1, <2>4, <3>1 DEF Recorded
        <3>2. CASE g = f
            BY <1>1, <1>2, <1>6, <1>7, <2>4, <3>2
        <3> QED
            BY <1>3, <3>1, <3>2
    <2>5. \A g : (AuditedRule(g)' <=> AuditedRule(g)) /\ (Touched(g)' <=> Touched(g))
        BY DEF AuditedRule, Touched
    <2> QED
        BY <2>1, <2>2, <2>3, <2>4 DEF Recorded, Touched, AuditedRule
<1>8. CASE active_mode_audit' = Append(active_mode_audit, f) /\ stage # "bridge" /\ Touched(f)
    <2>1. PICK last : /\ active_mode_audit' \in Seq(Found) /\ active_mode_audit'[last] = f
                      /\ DOMAIN active_mode_audit' = DOMAIN active_mode_audit \cup {last}
                      /\ \A i \in DOMAIN active_mode_audit :
                           active_mode_audit'[i] = active_mode_audit[i]
                      /\ Range(active_mode_audit)' = Range(active_mode_audit) \cup {f}
        <3>1. Len(active_mode_audit) \in Nat /\ DOMAIN active_mode_audit = 1..Len(active_mode_audit)
            BY <1>4
        <3>2. /\ active_mode_audit' \in Seq(Found)
              /\ DOMAIN active_mode_audit' = 1..(Len(active_mode_audit) + 1)
              /\ \A i \in DOMAIN active_mode_audit : active_mode_audit'[i] = active_mode_audit[i]
              /\ active_mode_audit'[Len(active_mode_audit) + 1] = f
              /\ Range(Append(active_mode_audit, f)) = Range(active_mode_audit) \cup {f}
            <4>1. f \in Found /\ active_mode_audit' = Append(active_mode_audit, f)
                BY <1>1, <1>8
            <4> QED
                BY <1>4, <3>1, <4>1, AppendIs
        <3>3. 1..(Len(active_mode_audit) + 1) = DOMAIN active_mode_audit \cup {Len(active_mode_audit) + 1}
            BY <3>1
        <3>4. Range(active_mode_audit)' = Range(Append(active_mode_audit, f))
            BY <1>8 DEF Range
        <3> QED
            BY <3>2, <3>3, <3>4
    <2>2. \A i \in DOMAIN active_mode_audit : active_mode_audit[i] # f
        BY <1>4 DEF Range
    <2>3. ASSUME NEW i \in DOMAIN active_mode_audit', NEW j \in DOMAIN active_mode_audit',
                 active_mode_audit'[i] = active_mode_audit'[j]
          PROVE  i = j
        <3>1. CASE i \in DOMAIN active_mode_audit /\ j \in DOMAIN active_mode_audit
            BY <2>1, <2>3, <3>1 DEF Recorded, IsInjective
        <3>2. CASE i \in DOMAIN active_mode_audit /\ j = last
            BY <2>1, <2>2, <2>3, <3>2
        <3>3. CASE i = last /\ j \in DOMAIN active_mode_audit
            BY <2>1, <2>2, <2>3, <3>3
        <3> QED
            BY <2>1, <3>1, <3>2, <3>3
    <2>4. \A g \in Range(active_mode_audit)' : g \in Range(findings)' /\ Touched(g)
        BY <1>3, <1>8, <2>1 DEF Recorded
    <2>5. Before("bridge")' \/ stage' = "bridge" => \A g \in Range(active_mode_audit)' : g.src = "dom"
        BY <1>1, <1>2, <1>5, <1>8, <2>1 DEF Recorded
    <2>6. ASSUME NEW g \in Range(findings)', Touched(g),
                 g.src \in Probing \ {"bridge"} \/ (AuditedRule(g) /\ After("bridge")')
          PROVE  g \in Range(active_mode_audit)'
        BY <1>2, <1>3, <2>1, <2>6 DEF Recorded
    <2>7. IsInjective(active_mode_audit)'
        BY <2>3 DEF IsInjective
    <2> QED
        BY <2>1, <2>4, <2>5, <2>6, <2>7 DEF Recorded, Touched, AuditedRule
<1> QED
    BY <1>1, <1>7, <1>8 DEF _audit


LEMMA ConcatApart ==
  ASSUME NEW T, NEW p \in Seq(T), NEW r \in Seq(T), IsInjective(p), IsInjective(r),
         Range(p) \cap Range(r) = {}
  PROVE  /\ p \o r \in Seq(T)
         /\ IsInjective(p \o r)
         /\ Range(p \o r) = Range(p) \cup Range(r)
<1> DEFINE w == p \o r
           m == Len(p)
           n == Len(r)
<1>1. /\ m \in Nat /\ n \in Nat /\ DOMAIN p = 1..m /\ DOMAIN r = 1..n
    OBVIOUS
<1>2. /\ w \in Seq(T) /\ DOMAIN w = 1..(m + n)
      /\ \A i \in 1..(m + n) : w[i] = IF i <= m THEN p[i] ELSE r[i - m]
    BY ConcatProperties
<1> HIDE DEF w, m, n
<1>3. ASSUME NEW i \in 1..(m + n)
      PROVE  \/ i \in 1..m /\ w[i] = p[i] /\ w[i] \in Range(p)
             \/ i - m \in 1..n /\ w[i] = r[i - m] /\ w[i] \in Range(r)
    <2>1. CASE i <= m
        <3>1. i \in 1..m /\ w[i] = p[i]
            BY <1>1, <1>2, <2>1
        <3> QED
            BY <1>1, <3>1 DEF Range
    <2>2. CASE ~(i <= m)
        <3>1. i - m \in 1..n /\ w[i] = r[i - m]
            BY <1>1, <1>2, <2>2
        <3> QED
            BY <1>1, <3>1 DEF Range
    <2> QED
        BY <2>1, <2>2
<1>4. ASSUME NEW i \in 1..(m + n), NEW j \in 1..(m + n), w[i] = w[j] PROVE i = j
    <2>1. CASE w[i] \in Range(p)
        <3>1. i \in 1..m /\ j \in 1..m /\ p[i] = p[j]
            BY <1>3, <1>4, <2>1
        <3> QED
            BY <1>1, <3>1 DEF IsInjective
    <2>2. CASE w[i] \in Range(r)
        <3>1. i - m \in 1..n /\ j - m \in 1..n /\ r[i - m] = r[j - m]
            BY <1>3, <1>4, <2>2
        <3>2. i - m = j - m
            BY <1>1, <3>1 DEF IsInjective
        <3> QED
            BY <1>1, <3>2
    <2> QED
        BY <1>3, <2>1, <2>2
<1>5. ASSUME NEW y \in Range(w) PROVE y \in Range(p) \cup Range(r)
    <2>1. PICK i \in 1..(m + n) : y = w[i]
        BY <1>2 DEF Range
    <2> QED
        BY <1>3, <2>1
<1>6. ASSUME NEW y \in Range(p) PROVE y \in Range(w)
    <2>1. PICK i \in 1..m : y = p[i]
        BY <1>1 DEF Range
    <2>2. i \in 1..(m + n) /\ w[i] = y
        BY <1>1, <1>2, <2>1
    <2> QED
        BY <1>2, <2>2 DEF Range
<1>7. ASSUME NEW y \in Range(r) PROVE y \in Range(w)
    <2>1. PICK i \in 1..n : y = r[i]
        BY <1>1 DEF Range
    <2>2. i + m \in 1..(m + n) /\ ~(i + m <= m) /\ (i + m) - m = i
        BY <1>1
    <2>3. w[i + m] = y
        BY <1>2, <2>1, <2>2
    <2> QED
        BY <1>2, <2>2, <2>3 DEF Range
<1> QED
    BY <1>2, <1>4, <1>5, <1>6, <1>7 DEF w, IsInjective


LEMMA PassedRecorded ==
  ASSUME Recorded, Onward, findings' = findings, active_mode_audit' = active_mode_audit,
         After("bridge")' => After("bridge")
  PROVE  Recorded'
<1>1. \A f : (AuditedRule(f)' <=> AuditedRule(f)) /\ (Touched(f)' <=> Touched(f))
    BY DEF AuditedRule, Touched
<1>2. Before("bridge")' \/ stage' = "bridge" => Before("bridge")
    BY OnwardBefore
<1> QED
    BY <1>1, <1>2 DEF Recorded, IsInjective, Range

\* The pass over all findings records those of the audited rules, and the DOM
\* stage, which recorded its own, has none of them.
LEMMA PassRecords ==
  ASSUME FoundOnce, Recorded, Onward, stage = "bridge", findings' = findings,
         active_mode_audit' = AuditSweep
  PROVE  Recorded'
<1> DEFINE S == {i \in DOMAIN findings : AuditedRule(findings[i]) /\ Touched(findings[i])}
           q == InOrder(S)
           picked == [k \in DOMAIN q |-> findings[q[k]]]
<1>1. findings \in Seq(Found) /\ Len(findings) \in Nat /\ DOMAIN findings = 1..Len(findings)
      /\ \A i \in DOMAIN findings : findings[i] \in Found
    BY RangeIs DEF FoundOnce
<1>2. S \in SUBSET (1..Len(findings)) /\ S \in SUBSET DOMAIN findings
    BY <1>1
<1>3. q \in Seq(S) /\ IsInjective(q) /\ Range(q) = S
    BY <1>1, <1>2, InOrderIs
<1>4. active_mode_audit' = active_mode_audit \o picked
    BY DEF AuditSweep
<1>5. \A i \in S : i \in DOMAIN findings /\ AuditedRule(findings[i]) /\ Touched(findings[i])
    OBVIOUS
<1>6. \A i \in DOMAIN findings : AuditedRule(findings[i]) /\ Touched(findings[i]) => i \in S
    OBVIOUS
<1> HIDE DEF S, q
<1>7. Len(q) \in Nat /\ DOMAIN q = 1..Len(q) /\ \A k \in DOMAIN q : q[k] \in S
    BY <1>3, RangeIs
<1>8. DOMAIN picked = DOMAIN q /\ \A k \in DOMAIN q : picked[k] = findings[q[k]]
    OBVIOUS
<1> HIDE DEF picked
<1>9. picked \in Seq(Found)
    <2>1. \A k \in DOMAIN q : picked[k] \in Found
        BY <1>1, <1>2, <1>7, <1>8
    <2>2. picked \in [1..Len(q) -> Found]
        BY <1>7, <1>8, <2>1 DEF picked
    <2> QED
        BY <1>7, <2>2
<1>10. \A g : g \in Range(picked) <=> \E i \in S : g = findings[i]
    <2>1. ASSUME NEW g \in Range(picked) PROVE \E i \in S : g = findings[i]
        BY <1>7, <1>8, <2>1 DEF Range
    <2>2. ASSUME NEW i \in S PROVE findings[i] \in Range(picked)
        <3>1. PICK k \in DOMAIN q : q[k] = i
            BY <1>3 DEF Range
        <3> QED
            BY <1>8, <3>1 DEF Range
    <2> QED
        BY <2>1, <2>2
<1>11. IsInjective(picked)
    <2> SUFFICES ASSUME NEW a \in DOMAIN q, NEW b \in DOMAIN q, findings[q[a]] = findings[q[b]]
                 PROVE  a = b
        BY <1>8 DEF IsInjective
    <2>1. q[a] \in DOMAIN findings /\ q[b] \in DOMAIN findings
        BY <1>5, <1>7
    <2>2. q[a] = q[b]
        BY <2>1 DEF FoundOnce
    <2> QED
        BY <1>3, <2>2 DEF IsInjective
<1>12. \A g \in Range(active_mode_audit) : g.src = "dom" /\ g \in Range(findings) /\ Touched(g)
    BY DEF Recorded
<1>13. \A g \in Range(active_mode_audit) : ~AuditedRule(g)
    <2> SUFFICES ASSUME NEW g \in Range(active_mode_audit) PROVE ~AuditedRule(g)
        OBVIOUS
    <2>1. PICK i \in DOMAIN findings : g = findings[i]
        BY <1>12 DEF Range
    <2> QED
        BY <1>12, <2>1 DEF FoundOnce
<1>14. Range(active_mode_audit) \cap Range(picked) = {}
    BY <1>5, <1>10, <1>13
<1>15. /\ active_mode_audit' \in Seq(Found) /\ IsInjective(active_mode_audit)'
       /\ Range(active_mode_audit)' = Range(active_mode_audit) \cup Range(picked)
    <2>1. active_mode_audit \in Seq(Found) /\ IsInjective(active_mode_audit)
        BY DEF Recorded
    <2>2. /\ active_mode_audit \o picked \in Seq(Found)
          /\ IsInjective(active_mode_audit \o picked)
          /\ Range(active_mode_audit \o picked) = Range(active_mode_audit) \cup Range(picked)
        BY <1>9, <1>11, <1>14, <2>1, ConcatApart
    <2> QED
        BY <1>4, <2>2 DEF IsInjective, Range
<1>16. ASSUME NEW g \in Range(active_mode_audit)' PROVE g \in Range(findings)' /\ Touched(g)'
    <2>1. CASE g \in Range(active_mode_audit)
        BY <1>12, <2>1 DEF Touched, Range
    <2>2. ASSUME NEW i \in S, g = findings[i] PROVE g \in Range(findings)' /\ Touched(g)'
        BY <1>5, <2>2 DEF Touched, Range
    <2> QED
        BY <1>10, <1>15, <2>1, <2>2
<1>17. ~Before("bridge")' /\ stage' # "bridge"
    <2>1. ~Before("bridge")'
        BY DEF Onward, Stages, Probing
    <2>2. ~Before("bridge")
        <3>1. ~(Position("bridge") < Position("bridge"))
            BY Positions
        <3> QED
            BY <3>1 DEF Before
    <2> QED
        BY <2>1, <2>2, OnwardBefore
<1>18. ASSUME NEW g \in Range(findings)', Touched(g)',
              g.src \in Probing \ {"bridge"} \/ AuditedRule(g)'
       PROVE  g \in Range(active_mode_audit)'
    <2>1. g \in Range(findings) /\ Touched(g)
        BY <1>18 DEF Range, Touched
    <2>2. CASE g.src \in Probing \ {"bridge"}
        BY <1>15, <2>1, <2>2 DEF Recorded
    <2>3. CASE AuditedRule(g)'
        <3>1. AuditedRule(g)
            BY <2>3 DEF AuditedRule
        <3>2. PICK i \in DOMAIN findings : g = findings[i]
            BY <2>1 DEF Range
        <3> QED
            BY <1>6, <1>10, <1>15, <2>1, <3>1, <3>2
    <2> QED
        BY <1>18, <2>2, <2>3
<1> QED
    BY <1>15, <1>16, <1>17, <1>18 DEF Recorded

LEMMA SweptRecorded ==
  ASSUME TriedInv, FoundOnce, Recorded, Swept
  PROVE  Recorded'
<1>1. Len(check_urls) \in Nat
    BY DEF TriedInv, SweepTypes
<1>2. /\ stage = "payload" /\ active_mode_audit' = active_mode_audit /\ Onward
      /\ \A k \in DOMAIN findings' : findings'[k].src = "payload"
    BY <1>1, PayloadFound DEF Swept
<1>3. Range(active_mode_audit) = {}
    BY <1>2, NothingYet DEF Recorded, Range
<1>4. ~After("bridge")'
    <2>1. ~(Position("payload") > Position("bridge"))
        BY Positions
    <2>2. ended # "ok"
        BY <1>2, StagesApart DEF TriedInv, SweepTypes, Stages
    <2>3. ~After("bridge")
        BY <1>2, <2>1, <2>2, Positions DEF After
    <2> QED
        BY <1>2, <2>3 DEF Onward
<1>5. \A g \in Range(findings)' : g.src = "payload"
    BY <1>2 DEF Range
<1>6. "payload" \notin Probing
    BY DEF Probing
<1>7. Range(active_mode_audit)' = {} /\ IsInjective(active_mode_audit)'
      /\ active_mode_audit' \in Seq(Found)
    BY <1>2, <1>3 DEF Recorded, Range, IsInjective
<1> QED
    BY <1>4, <1>5, <1>6, <1>7 DEF Recorded

LEMMA LoggedOffRecorded ==
  ASSUME TriedInv, FoundOnce, Recorded, LoggedOff
  PROVE  Recorded'
<1>1. stage = "logout" /\ Onward /\ active_mode_audit' = active_mode_audit
    BY DEF LoggedOff
<1>2. PICK f \in Found : findings' = Append(findings, f) /\ f.src = "logout" /\ ~AuditedRule(f)
    BY LoggedOffFound
<1>3. Range(findings)' = Range(findings) \cup {f}
    <2>1. Range(Append(findings, f)) = Range(findings) \cup {f}
        BY AppendIs DEF FoundOnce
    <2> QED
        BY <1>2, <2>1 DEF Range
<1>4. /\ Range(active_mode_audit)' = Range(active_mode_audit)
      /\ IsInjective(active_mode_audit)' /\ active_mode_audit' \in Seq(Found)
    BY <1>1 DEF Recorded, Range, IsInjective
<1>5. Before("bridge")' \/ stage' = "bridge" => Before("bridge")
    BY <1>1, OnwardBefore
<1>6. After("bridge")' => After("bridge")
    BY <1>1 DEF Onward
<1>7. \A g : (AuditedRule(g)' <=> AuditedRule(g)) /\ (Touched(g)' <=> Touched(g))
    BY DEF AuditedRule, Touched
<1>8. "logout" \notin Probing
    BY DEF Probing
<1> QED
    BY <1>2, <1>3, <1>4, <1>5, <1>6, <1>7, <1>8 DEF Recorded


-----------------------------------------------------------------------------
(***************************************************************************)
(* Every step is one of the five.                                          *)
(***************************************************************************)
Kinds ==
  \/ Idle \/ Passed \/ Swept \/ LoggedOff
  \/ \E f : OneMore(f)

LEMMA FindingFound ==
  ASSUME NEW s \in Probing \cup {"payload", "logout"}, NEW r \in Rules, NEW i \in Nat,
         NEW v \in Verdicts
  PROVE  /\ Finding(s, r, i, v) \in Found
         /\ Finding(s, r, i, v).src = s /\ Finding(s, r, i, v).rule = r
         /\ Finding(s, r, i, v).item = i
  BY DEF Finding, Found

\* What the probe of an item of another stage than the bridge returns.
LEMMA ProbeFound ==
  ASSUME NEW s \in Probing \ {"bridge"}, NEW i \in Nat, NEW f \in ProbeFindings(s, i)
  PROVE  f \in Found /\ f.src = s /\ f.item = i /\ (s = "dom" => ~AuditedRule(f))
<1>1. \E r \in Rules, v \in Verdicts :
        f = Finding(s, r, i, v) /\ (s = "dom" => r = "DOM_OR_REDIRECT")
    <2>1. CASE s = "dom"
        <3>1. f = Finding(s, "DOM_OR_REDIRECT", i, Gated)
            BY <2>1 DEF ProbeFindings
        <3> QED
            BY <3>1, GatedVerdict DEF Rules
    <2>2. CASE s = "xss"
        <3>1. f = Finding(s, "STORED_XSS", i, Gated)
            BY <2>2 DEF ProbeFindings
        <3> QED
            BY <2>2, <3>1, GatedVerdict DEF Rules
    <2>3. CASE s = "ssrf"
        <3>1. f = Finding(s, "SSRF_LIVE", i, Gated)
            BY <2>3 DEF ProbeFindings
        <3> QED
            BY <2>3, <3>1, GatedVerdict DEF Rules
    <2>4. CASE s = "jwt"
        <3>1. \E v \in {Gated, "not_configured"} : f = Finding(s, "JWT_WEAKNESS_LIVE", i, v)
            BY <2>4 DEF ProbeFindings
        <3> QED
            BY <2>4, <3>1, GatedVerdict DEF Rules
    <2>5. CASE s = "visible"
        <3>1. f = Finding(s, "LOGOUT_VISIBLE_ON_EVERY_PAGE", i, "ran")
            BY <2>5 DEF ProbeFindings
        <3> QED
            BY <2>5, <3>1, GatedVerdict DEF Rules
    <2>6. CASE s = "user"
        <3>1. f = Finding(s, "USER", i,
                    CASE cfg.user[i] = "gated" -> Gated
                      [] cfg.user[i] = "needs_second" /\ ~cfg.second -> "not_configured"
                      [] OTHER -> "ran")
            BY <2>6 DEF ProbeFindings
        <3>2. (CASE cfg.user[i] = "gated" -> Gated
                 [] cfg.user[i] = "needs_second" /\ ~cfg.second -> "not_configured"
                 [] OTHER -> "ran") \in {Gated, "not_configured", "ran"}
            OBVIOUS
        <3> QED
            BY <2>6, <3>1, <3>2, GatedVerdict DEF Rules
    <2> QED
        BY <2>1, <2>2, <2>3, <2>4, <2>5, <2>6 DEF Probing
<1>2. PICK r \in Rules, v \in Verdicts :
        f = Finding(s, r, i, v) /\ (s = "dom" => r = "DOM_OR_REDIRECT")
    BY <1>1
<1>3. s \in Probing /\ (r = "DOM_OR_REDIRECT" => r \notin {"SIDE", "SSRF_LIVE"})
    OBVIOUS
<1>4. /\ Finding(s, r, i, v).src = s /\ Finding(s, r, i, v).rule = r
      /\ Finding(s, r, i, v).item = i /\ Finding(s, r, i, v) \in Found
    BY FindingFound
<1> QED
    BY <1>2, <1>3, <1>4 DEF AuditedRule

\* What a bridge target yields: one finding, or none behind a closed gate.
LEMMA BridgeFound ==
  ASSUME cfg \in ConfigType, NEW i \in 1..Len(cfg.bridge)
  PROVE  \/ BridgeResults(i) = <<>>
         \/ \E f \in Found : BridgeResults(i) = <<f>> /\ f.src = "bridge" /\ f.item = i
<1>1. cfg.bridge \in Seq(BridgeRules)
    BY DEF ConfigType
<1>2. cfg.bridge[i] \in BridgeRules /\ i \in Nat
    BY <1>1
<1>3. Range(PayloadRules) = {"SIDE", "INJECT", "READ"}
    <2>1. DOMAIN PayloadRules = {1, 2, 3}
        BY DEF PayloadRules
    <2>2. PayloadRules[1] = "SIDE" /\ PayloadRules[2] = "INJECT" /\ PayloadRules[3] = "READ"
        BY DEF PayloadRules
    <2> QED
        BY <2>1, <2>2 DEF Range
<1>4. cfg.bridge[i] \in Rules
    BY <1>2, <1>3 DEF BridgeRules, Rules
<1>5. \A v \in Verdicts : /\ Finding("bridge", cfg.bridge[i], i, v) \in Found
                          /\ Finding("bridge", cfg.bridge[i], i, v).src = "bridge"
                          /\ Finding("bridge", cfg.bridge[i], i, v).item = i
    <2>1. "bridge" \in Probing
        BY DEF Probing
    <2> QED
        BY <1>2, <1>4, <2>1, FindingFound
<1>6. \/ BridgeResults(i) = <<>>
      \/ \E v \in Verdicts : BridgeResults(i) = <<Finding("bridge", cfg.bridge[i], i, v)>>
    <2>1. CASE cfg.bridge[i] \in {"SSRF_LIVE", "DOM_XSS_LIVE", "JWT_WEAKNESS_LIVE"}
        <3>1. BridgeResults(i) \in {<<>>, <<Finding("bridge", cfg.bridge[i], i, Gated)>>}
            <4>1. CASE cfg.bridge[i] = "SSRF_LIVE"
                BY <4>1 DEF BridgeResults
            <4>2. CASE cfg.bridge[i] = "DOM_XSS_LIVE"
                BY <4>2 DEF BridgeResults
            <4>3. CASE cfg.bridge[i] = "JWT_WEAKNESS_LIVE"
                BY <4>3 DEF BridgeResults
            <4> QED
                BY <2>1, <4>1, <4>2, <4>3
        <3> QED
            BY <3>1, GatedVerdict
    <2>2. CASE cfg.bridge[i] \notin {"SSRF_LIVE", "DOM_XSS_LIVE", "JWT_WEAKNESS_LIVE"}
        <3> DEFINE r == cfg.bridge[i]
                   v == IF r = "READ" THEN "ran" ELSE Gated
        <3>1. BridgeResults(i) = PayloadFindings("bridge", i, <<r>>, 1)
            BY <2>2 DEF BridgeResults
        <3>2. Len(<<r>>) = 1 /\ 1 * 1 = 1 /\ <<r>>[1] = r
            OBVIOUS
        <3>3. PayloadFindings("bridge", i, <<r>>, 1) = [k \in 1..1 |-> Finding("bridge", r, i, v)]
            <4>1. \A k \in 1..1 : ((k - 1) % 1) + 1 = 1
                OBVIOUS
            <4> HIDE DEF r
            <4> QED
                BY <3>2, <4>1 DEF PayloadFindings
        <3>4. v \in Verdicts
            BY GatedVerdict
        <3>5. \A x : [k \in 1..1 |-> x] = <<x>>
            OBVIOUS
        <3> HIDE DEF v
        <3> QED
            BY <3>1, <3>3, <3>4, <3>5
    <2> QED
        BY <2>1, <2>2
<1> QED
    BY <1>5, <1>6


LEMMA LogoutVerdicts == \A o \in LogoutOutcomes : o[1] \in Verdicts
<1> SUFFICES ASSUME NEW o \in LogoutOutcomes PROVE o[1] \in Verdicts
    OBVIOUS
<1>1. \E v, l : o = <<v, l>> /\ v \in {"not_tested", "inconclusive", "fail", "pass"}
    <2>1. ASSUME NEW m, o \in PostLogout(m)
          PROVE  \E v, l : o = <<v, l>> /\ v \in {"not_tested", "inconclusive", "fail", "pass"}
        BY <2>1 DEF PostLogout
    <2> QED
        BY <2>1 DEF LogoutOutcomes
<1> QED
    BY <1>1 DEF Verdicts


LEMMA AppendOne ==
  ASSUME NEW S, NEW q \in Seq(S), NEW f \in S
  PROVE  q \o <<f>> = Append(q, f)
  OBVIOUS

LEMMA NextKinds == TriedInv /\ FoundOnce /\ [Next]_vars => Kinds
<1> SUFFICES ASSUME TriedInv, FoundOnce, [Next]_vars PROVE Kinds
    OBVIOUS
<1>1. SweepTypes /\ check_urls \in Seq(URLs) /\ forms \in Nat /\ todo \in Seq(Nat)
      /\ cfg \in ConfigType
    BY DEF TriedInv, SweepTypes
<1>2. CASE Setup
    <2>1. stage = "setup" /\ UNCHANGED <<findings, active_mode_audit>>
          /\ \/ stage' = "connect" /\ ended' = ended
             \/ stage' = "raised" /\ ended' = "failed"
        BY <1>2 DEF Setup, swept
    <2>2. CASE stage' = "raised" /\ ended' = "failed"
        <3>1. stage' \in Exits /\ ~After("bridge")'
            BY <2>2, StagesApart DEF Exits, After
        <3>2. Onward
            BY <3>1, LeaveOnward
        <3> QED
            BY <2>1, <3>1, <3>2 DEF Kinds, Passed
    <2>3. CASE stage' = "connect" /\ ended' = ended
        <3>1. \A u : Before(u)
            BY <2>1 DEF Before
        <3>2. stage \notin Stages /\ stage' \notin Stages /\ stage' \notin Probing
            BY <2>1, <2>3, StagesApart
        <3>3. After("bridge")' => After("bridge")
            BY <2>3, <3>2 DEF After
        <3>4. Onward
            BY <2>1, <2>3, <3>1, <3>2, <3>3 DEF Onward
        <3> QED
            BY <2>1, <3>4 DEF Kinds, Passed
    <2> QED
        BY <2>1, <2>2, <2>3
<1>3. CASE Connect
    <2>1. stage = "connect" /\ UNCHANGED <<findings, active_mode_audit>>
          /\ \/ stage' = "crawl" /\ ended' = ended /\ todo' = todo
             \/ stage' = "except" /\ ended' = "failed"
        BY <1>3 DEF Connect
    <2>2. \A u : Before(u)
        BY <2>1 DEF Before
    <2>3. CASE stage' = "except" /\ ended' = "failed"
        <3>1. ~After("bridge")'
            BY <2>3, StagesApart DEF After
        <3>2. Onward
            BY <2>3, <3>1, LeaveOnward
        <3> QED
            BY <2>1, <3>2 DEF Kinds, Passed
    <2>4. CASE stage' = "crawl" /\ ended' = ended
        <3>1. stage \notin Stages /\ stage' \notin Probing
            BY <2>1, <2>4, StagesApart DEF Probing
        <3>2. ~After("bridge")'
            <4>1. ended' # "ok"
                BY <1>1, <2>1, <2>4, StagesApart DEF SweepTypes, Exits
            <4>2. ~(Position("bridge") < Position("crawl"))
                BY Positions
            <4> QED
                BY <2>4, <4>1, <4>2 DEF After
        <3>3. Onward
            BY <2>1, <2>2, <3>1, <3>2 DEF Onward
        <3> QED
            BY <2>1, <3>2, <3>3 DEF Kinds, Passed
    <2> QED
        BY <2>1, <2>3, <2>4
<1>4. CASE Announce
    <2>1. /\ stage = "announce" /\ Advance("announce") /\ "announce" \in Stages
          /\ UNCHANGED <<cfg, check_urls, forms, findings, active_mode_audit>>
        BY <1>4 DEF Announce, swept, bounded, Stages
    <2>2. Onward
        BY <1>1, <2>1, AdvanceOnward
    <2> QED
        BY <2>1, <2>2 DEF Kinds, Passed
<1>5. CASE Payload
    <2>1. stage = "payload" /\ "payload" \in Stages /\ cfg' = cfg
        BY <1>5 DEF Payload, bounded, Stages
    <2>2. CASE /\ findings' = PayloadFindings("payload", 0, PayloadRules, Len(check_urls))
               /\ Advance("payload") /\ UNCHANGED <<check_urls, forms, active_mode_audit>>
        <3>1. Onward
            BY <1>1, <2>1, <2>2, AdvanceOnward
        <3> QED
            BY <2>1, <2>2, <3>1 DEF Kinds, Swept
    <2>3. CASE /\ stage' = "except" /\ ended' = "timeout"
               /\ UNCHANGED <<findings, active_mode_audit>>
        <3>1. ~After("bridge")'
            BY <2>3, StagesApart DEF After
        <3>2. Onward
            BY <2>3, <3>1, LeaveOnward
        <3> QED
            BY <2>1, <2>3, <3>2 DEF Kinds, Passed
    <2> QED
        BY <1>5, <2>2, <2>3 DEF Payload, swept
<1>6. CASE DomBlock
    <2>1. stage = "dom" /\ todo # <<>> /\ UNCHANGED <<stage, ended>> /\ stage \in Probing \ {"bridge"}
        BY <1>6 DEF DomBlock, Probing
    <2>2. CASE todo' \in {todo, <<>>} /\ UNCHANGED <<findings, active_mode_audit>>
        BY <2>1, <2>2 DEF Kinds, Idle
    <2>3. ASSUME NEW f \in ProbeFindings("dom", Head(todo)), findings' = Append(findings, f),
                 active_mode_audit' = _audit(active_mode_audit, f), todo' = Tail(todo)
          PROVE  Kinds
        <3>1. Head(todo) \in Nat
            BY <1>1, <2>1, ListHead
        <3>2. f \in Found /\ f.src = "dom" /\ f.item = Head(todo) /\ ~AuditedRule(f)
            BY <2>1, <3>1, ProbeFound
        <3> QED
            BY <2>1, <2>3, <3>2 DEF Kinds, OneMore
    <2> QED
        BY <1>6, <2>2, <2>3 DEF DomBlock
<1>7. CASE BridgeTarget
    <2>1. /\ stage = "bridge" /\ todo # <<>> /\ UNCHANGED <<stage, ended, active_mode_audit>>
          /\ todo' = Tail(todo) /\ stage \in Probing
          /\ findings' \in {findings, findings \o BridgeResults(Head(todo))}
        BY <1>7 DEF BridgeTarget, Probing
    <2>2. Head(todo) \in 1..Len(cfg.bridge)
        <3>1. Len(cfg.bridge) \in Nat
            BY <1>1, ConfigFacts
        <3>2. Head(todo) \in Range(todo)
            BY <1>1, <2>1, ListHead
        <3>3. LoopTried("bridge")
            BY DEF TriedInv, Loops, Probing
        <3>4. Head(todo) \in Range(Items("bridge", check_urls, forms))
            BY <2>1, <3>2, <3>3 DEF LoopTried
        <3>5. Items("bridge", check_urls, forms) = Numbered(Len(cfg.bridge))
            BY DEF Items
        <3> QED
            BY <3>1, <3>4, <3>5 DEF Range, Numbered
    <2>3. findings \in Seq(Found)
        BY DEF FoundOnce
    <2>4. CASE findings' = findings
        BY <2>1, <2>4 DEF Kinds, Idle
    <2>5. CASE findings' = findings \o BridgeResults(Head(todo)) /\ BridgeResults(Head(todo)) = <<>>
        <3>1. findings' = findings
            BY <2>3, <2>5, ConcatEmptySeq
        <3> QED
            BY <2>4, <3>1
    <2>6. ASSUME NEW f \in Found, findings' = findings \o BridgeResults(Head(todo)),
                 BridgeResults(Head(todo)) = <<f>>, f.src = "bridge", f.item = Head(todo)
          PROVE  Kinds
        <3>1. findings' = Append(findings, f)
            BY <2>3, <2>6, AppendOne
        <3> QED
            BY <2>1, <2>6, <3>1 DEF Kinds, OneMore
    <2> QED
        BY <1>1, <2>1, <2>2, <2>4, <2>5, <2>6, BridgeFound
<1>8. CASE Logout
    <2>1. /\ stage = "logout" /\ cfg' = cfg /\ UNCHANGED <<check_urls, forms, active_mode_audit>>
          /\ Advance("logout") /\ "logout" \in Stages
          /\ \E o \in LogoutOutcomes :
               findings' = Append(findings, Finding("logout", "LOGOUT_INVALIDATES_SESSION", 1, o[1]))
        BY <1>8 DEF Logout, bounded, Stages
    <2>2. Onward
        BY <1>1, <2>1, AdvanceOnward
    <2>3. \A o \in LogoutOutcomes : o[1] \in Verdicts
        BY LogoutVerdicts
    <2> QED
        BY <2>1, <2>2, <2>3 DEF Kinds, LoggedOff
<1>9. CASE Final
    <2>1. stage = "final" /\ stage' = "finally" /\ UNCHANGED <<findings, active_mode_audit>>
        BY <1>9 DEF Final, swept
    <2>2. After("bridge") /\ stage # "bridge"
        <3>1. "final" \in Stages
            BY DEF Stages
        <3> QED
            BY <2>1, <3>1, Positions DEF After
    <2>3. Onward
        BY <2>1, <2>2, LeaveOnward
    <2> QED
        BY <2>1, <2>2, <2>3 DEF Kinds, Passed
<1>10. CASE Except
    <2>1. stage = "except" /\ stage' = "finally" /\ UNCHANGED <<findings, active_mode_audit>>
          /\ ended' \in {ended, "raised"}
        BY <1>10 DEF Except, swept
    <2>2. ~After("bridge")' /\ stage # "bridge"
        <3>1. ended' # "ok"
            BY <1>1, <2>1 DEF SweepTypes, Exits
        <3> QED
            BY <2>1, <3>1, StagesApart DEF After
    <2>3. Onward
        BY <2>1, <2>2, LeaveOnward
    <2> QED
        BY <2>1, <2>2, <2>3 DEF Kinds, Passed
<1>11. CASE Finally
    <2>1. stage = "finally" /\ stage' \in Exits /\ ended' = ended
          /\ UNCHANGED <<findings, active_mode_audit>>
        BY <1>11 DEF Finally, swept, Exits
    <2>2. (After("bridge")' => After("bridge")) /\ stage # "bridge"
        BY <2>1, StagesApart DEF After
    <2>3. Onward
        BY <2>1, <2>2, LeaveOnward
    <2> QED
        BY <2>1, <2>2, <2>3 DEF Kinds, Passed
<1>12. CASE Cancel
    <2>1. /\ stage' \in {"cancelled", "finally"} /\ ended' = "cancelled"
          /\ UNCHANGED <<findings, active_mode_audit>>
        BY <1>12 DEF Cancel, swept
    <2>2. stage' \in {"except", "finally"} \cup Exits /\ ~After("bridge")'
        BY <2>1, StagesApart DEF Exits, After
    <2>3. Onward
        BY <2>2, LeaveOnward
    <2> QED
        BY <2>1, <2>2, <2>3 DEF Kinds, Passed
<1>13. ASSUME NEW s \in Discovery, Discover(s) PROVE Kinds
    <2>1. /\ stage = s /\ cfg' = cfg /\ Advance(s) /\ UNCHANGED <<findings, active_mode_audit>>
        BY <1>13 DEF Discover, bounded
    <2>2. s \in Stages /\ s # "bridge"
        BY StagesApart DEF Discovery
    <2>3. check_urls' \in Seq(URLs) /\ forms' \in Nat
        BY <1>1, <1>13, DiscoverLists
    <2>4. Onward
        BY <2>1, <2>2, <2>3, AdvanceOnward
    <2> QED
        BY <2>1, <2>2, <2>4 DEF Kinds, Passed
<1>14. ASSUME NEW s \in Probing \ {"dom", "bridge"}, Probe(s) PROVE Kinds
    <2>1. /\ stage = s /\ todo # <<>> /\ todo' = Tail(todo) /\ UNCHANGED <<stage, ended>>
          /\ \/ \E f \in ProbeFindings(s, Head(todo)) :
                  /\ findings' = Append(findings, f)
                  /\ active_mode_audit' = _audit(active_mode_audit, f)
             \/ UNCHANGED <<findings, active_mode_audit>>
        BY <1>14 DEF Probe
    <2>2. CASE UNCHANGED <<findings, active_mode_audit>>
        BY <2>1, <2>2 DEF Kinds, Idle
    <2>3. ASSUME NEW f \in ProbeFindings(s, Head(todo)), findings' = Append(findings, f),
                 active_mode_audit' = _audit(active_mode_audit, f)
          PROVE  Kinds
        <3>1. Head(todo) \in Nat
            BY <1>1, <2>1, ListHead
        <3>2. f \in Found /\ f.src = s /\ f.item = Head(todo)
            BY <3>1, ProbeFound
        <3> QED
            BY <2>1, <2>3, <3>2 DEF Kinds, OneMore
    <2> QED
        BY <2>1, <2>2, <2>3
<1>15. ASSUME NEW s \in Probing, LoopDone(s) PROVE Kinds
    <2>1. /\ stage = s /\ cfg' = cfg /\ Advance(s) /\ s \in Stages
          /\ UNCHANGED <<check_urls, forms, findings>>
          /\ active_mode_audit' = IF s = "bridge" /\ stage' # "except" THEN AuditSweep
                                  ELSE active_mode_audit
        BY <1>15, StagesApart DEF LoopDone, bounded
    <2>2. /\ Onward
          /\ stage' # "except" /\ s = "bridge" => After("bridge")'
          /\ stage' = "except" => ~After("bridge")'
        BY <1>1, <2>1, AdvanceOnward
    <2> QED
        BY <2>1, <2>2 DEF Kinds, Passed
<1>16. CASE UNCHANGED vars
    BY <1>16 DEF vars, Kinds, Idle
<1> QED
    BY <1>2, <1>3, <1>4, <1>5, <1>6, <1>7, <1>8, <1>9, <1>10, <1>11, <1>12, <1>13, <1>14,
       <1>15, <1>16 DEF Next, Step


LEMMA InitFound == Init => FoundOnce /\ Recorded
<1> SUFFICES ASSUME Init PROVE FoundOnce /\ Recorded
    OBVIOUS
<1>1. findings = <<>> /\ active_mode_audit = <<>> /\ stage = "setup"
    BY DEF Init
<1>2. <<>> \in Seq(Found) /\ DOMAIN <<>> = {}
    OBVIOUS
<1>3. stage \notin Probing
    BY <1>1, StagesApart
<1>4. Range(findings) = {} /\ Range(active_mode_audit) = {}
    BY <1>1, <1>2 DEF Range
<1> QED
    BY <1>1, <1>2, <1>3, <1>4 DEF FoundOnce, Recorded, IsInjective

LEMMA NextFound ==
  ASSUME TriedInv, FoundOnce, Recorded, [Next]_vars
  PROVE  FoundOnce' /\ Recorded'
<1>1. Kinds
    BY NextKinds
<1>2. CASE Idle
    BY <1>2, IdleFound, IdleRecorded
<1>3. CASE Passed
    <2>1. Onward /\ findings' = findings
        BY <1>3 DEF Passed
    <2>2. CASE stage = "bridge" /\ After("bridge")'
        <3>1. active_mode_audit' = AuditSweep
            BY <1>3, <2>2 DEF Passed
        <3> QED
            BY <2>1, <2>2, <3>1, PassedFound, PassRecords
    <2>3. CASE ~(stage = "bridge" /\ After("bridge")')
        <3>1. active_mode_audit' = active_mode_audit /\ (After("bridge")' => After("bridge"))
            BY <1>3, <2>3 DEF Passed, Onward
        <3> QED
            BY <2>1, <3>1, PassedFound, PassedRecorded
    <2> QED
        BY <2>2, <2>3
<1>4. CASE Swept
    BY <1>4, SweptFound, SweptRecorded
<1>5. CASE LoggedOff
    BY <1>5, LoggedOffFound, LoggedOffRecorded
<1>6. ASSUME NEW f, OneMore(f) PROVE FoundOnce' /\ Recorded'
    BY <1>6, OneMoreFound, OneMoreRecorded
<1> QED
    BY <1>1, <1>2, <1>3, <1>4, <1>5, <1>6 DEF Kinds

LEMMA FoundInvariant == Spec => [](TriedInv /\ FoundOnce /\ Recorded)
<1>1. Init => TriedInv /\ FoundOnce /\ Recorded
    BY InitTried, InitFound
<1>2. TriedInv /\ FoundOnce /\ Recorded /\ [Next]_vars => (TriedInv /\ FoundOnce /\ Recorded)'
    BY NextTried, NextFound
<1> QED
    BY <1>1, <1>2, PTL DEF Spec

\* The audit record is exact: whatever fails, is skipped or ends the sweep, it
\* holds each finding at most once and none that never touched the target, and
\* after a whole sweep every one that a stage or the audit pass is to record.
THEOREM AuditIsExact == Spec => []AuditExact
<1>1. Recorded => AuditExact
    <2> SUFFICES ASSUME Recorded PROVE AuditExact
        OBVIOUS
    <2>1. ended = "ok" => After("bridge")
        BY DEF After
    <2> QED
        BY <2>1 DEF Recorded, AuditExact
<1> QED
    BY <1>1, FoundInvariant, PTL

LEMMA PrefixOfItself ==
  ASSUME NEW S, NEW q \in Seq(S)
  PROVE  IsPrefix(q, q)
  BY DEF IsPrefix

LEMMA PrefixOfAppend ==
  ASSUME NEW S, NEW q \in Seq(S), NEW f \in S
  PROVE  IsPrefix(q, Append(q, f))
<1>1. Len(q) \in Nat /\ Len(Append(q, f)) = Len(q) + 1
      /\ \A i \in 1..Len(q) : Append(q, f)[i] = q[i] /\ q[i] \in S
    OBVIOUS
<1>2. /\ SubSeq(q, 1, Len(q)) \in Seq(S) /\ Len(SubSeq(q, 1, Len(q))) = Len(q)
      /\ \A i \in 1..Len(q) : SubSeq(q, 1, Len(q))[i] = q[i]
    <2>1. Len(q) \in Int /\ 1 \in Int /\ Len(q) - 1 + 1 = Len(q)
        BY <1>1
    <2> QED
        BY <1>1, <2>1
<1>3. /\ SubSeq(Append(q, f), 1, Len(q)) \in Seq(S)
      /\ Len(SubSeq(Append(q, f), 1, Len(q))) = Len(q)
      /\ \A i \in 1..Len(q) : SubSeq(Append(q, f), 1, Len(q))[i] = q[i]
    <2>1. Len(q) \in Int /\ 1 \in Int /\ Len(q) - 1 + 1 = Len(q)
        BY <1>1
    <2>2. Append(q, f) \in Seq(S)
        OBVIOUS
    <2>3. \A i \in 1..Len(q) : Append(q, f)[i] \in S
        BY <1>1
    <2> QED
        BY <1>1, <2>1, <2>2, <2>3, SubSeqProperties
<1>4. SubSeq(q, 1, Len(q)) = SubSeq(Append(q, f), 1, Len(q))
    BY <1>2, <1>3, SeqEqual
<1> QED
    BY <1>1, <1>4 DEF IsPrefix

\* No stage, failure, handler or cancellation takes back a finding: what a step
\* leaves begins with what it found.
THEOREM NothingTakenBack == Spec => FindingsGrow
<1>1. TriedInv /\ FoundOnce /\ [Next]_vars => IsPrefix(findings, findings')
    <2> SUFFICES ASSUME TriedInv, FoundOnce, [Next]_vars PROVE IsPrefix(findings, findings')
        OBVIOUS
    <2>1. findings \in Seq(Found)
        BY DEF FoundOnce
    <2>2. CASE findings' = findings
        BY <2>1, <2>2, PrefixOfItself
    <2>3. ASSUME NEW f \in Found, findings' = Append(findings, f)
          PROVE  IsPrefix(findings, findings')
        BY <2>1, <2>3, PrefixOfAppend
    <2>4. CASE Swept
        <3>1. stage = "payload"
            BY <2>4 DEF Swept
        <3>2. DOMAIN findings = {}
            BY <3>1, NothingYet
        <3>3. findings = <<>>
            BY <2>1, <3>2, EmptySeq
        <3>4. findings' \in Seq(Found)
            <4>1. Len(check_urls) \in Nat
                BY DEF TriedInv, SweepTypes
            <4> QED
                BY <2>4, <4>1, PayloadFound DEF Swept
        <3>5. Len(findings') \in Nat /\ Len(<<>>) = 0
            BY <3>4
        <3>6. SubSeq(<<>>, 1, 0) = <<>> /\ SubSeq(findings', 1, 0) = <<>>
            BY SubSeqEmpty
        <3> QED
            BY <3>3, <3>5, <3>6 DEF IsPrefix
    <2>5. CASE LoggedOff
        BY <2>3, <2>5, LoggedOffFound
    <2>6. ASSUME NEW f, OneMore(f) PROVE IsPrefix(findings, findings')
        BY <2>3, <2>6 DEF OneMore
    <2> QED
        BY <2>2, <2>4, <2>5, <2>6, NextKinds DEF Kinds, Idle, Passed
<1>2. TriedInv /\ FoundOnce /\ [Next]_vars => [IsPrefix(findings, findings')]_vars
    BY <1>1
<1> QED
    BY <1>2, FoundInvariant, PTL DEF Spec, FindingsGrow

=============================================================================
