---------------------- MODULE RepositoryAnalysis_proofs ----------------------
(***************************************************************************)
(* Proofs about the static analysis of a repository: the links that its    *)
(* graph makes across files, the clusters that removing duplicates makes   *)
(* of the findings, and what the reports keep of them.                     *)
(***************************************************************************)
EXTENDS RepoGraph, AnalysisPipeline, Common_proofs

-----------------------------------------------------------------------------
(* The graph across files *)

Files  == DOMAIN repo.content

RgTypes ==
    /\ repo \in Repositories
    /\ rgStage \in {"parse", "expand", "link", "flow", "call", "done"}
    /\ rgThread \in [Files -> {"queued", "running", "added", "failed"}]
    /\ rgModules \in [DOMAIN rgModules -> Added]
    /\ rgOrder \in Seq(DOMAIN rgModules)
    /\ \A n \in DOMAIN rgModules : \E i \in DOMAIN rgOrder : rgOrder[i] = n

\* While the threads run, the table has what each file itself exports.
ParseInv ==
    /\ Added \subseteq DOMAIN rgOwner
    /\ rgStage = "parse" => rgExports = [f \in Added |-> OwnExports(f, rgOwner[f])]
    /\ rgStage # "parse" => \A f \in Files : rgThread[f] \in {"added", "failed"}

\* The tables in which each file has its own exports, and of those of others
\* the ones that the files it offers define.
Exported == UNION {Text(h).exports : h \in Added}
Entries  == [node : {<<rgOwner[h], "export", s>> : h \in Added, s \in Exported}, default : BOOLEAN]
Tables   == [Added -> UNION {[S -> Entries] : S \in SUBSET Exported}]
Defines(f, s, node) == \E h \in Offering(f) : s \in Text(h).exports /\ node = <<rgOwner[h], "export", s>>
GroundTables ==
    {t \in Tables : \A f \in Added : /\ Text(f).exports \subseteq DOMAIN t[f]
                                     /\ \A s \in DOMAIN t[f] : Defines(f, s, t[f][s].node)}

\* Every module of the table has the symbols of the files it re-exports.
Complete(t) == \A f \in Table : \A g \in Reexports(f) : DOMAIN t[g] \subseteq DOMAIN t[f]

\* What the property says of the edges.
LinkedIn(edges, fi, g) ==
    LET f == fi[1]
        i == fi[2]
        origins == {<<rgOwner[h], "export", i.name>> : h \in {k \in Offering(g) : i.name \in Text(k).exports}}
    IN  i.name # "default" /\ origins # {} =>
          \E n \in origins :
            /\ Edge("import", ImportNode(f, i), n) \in edges
            /\ g \in Table \ {f} /\ i.as \in Text(f).uses  => Edge("flow", n, <<rgOwner[f], "use", i.as>>) \in edges
            /\ g \in Table \ {f} /\ i.as \in Text(f).calls => Edge("call", <<rgOwner[f], "call", i.as>>, n) \in edges
AllLinked == \A fi \in Imports : \A g \in Targets(fi) : LinkedIn(rgEdges, fi, g)

RgInv ==
    /\ RgTypes /\ ParseInv
    /\ rgStage # "parse" => rgExports \in GroundTables
    /\ rgStage \notin {"parse", "expand"} => Complete(rgExports)
    /\ rgStage \in {"flow", "call", "done"} => AllLinked

-----------------------------------------------------------------------------
\* A path resolves to at most one file, and that one is in the table.
LEMMA ResolvedIs ==
    ASSUME RgTypes, NEW f, NEW path
    PROVE  /\ Resolved(f, path) \subseteq Added
           /\ \A g, h \in Resolved(f, path) : g = h
<1> DEFINE relative == IF <<f, path>> \in DOMAIN RelativeImports THEN {RelativeImports[<<f, path>>]} \cap Added ELSE {}
           suffixed == {i \in DOMAIN rgOrder : <<rgOrder[i], path>> \in SuffixMatches}
           first == {k \in suffixed : \A j \in suffixed : k <= j}
<1>1. Resolved(f, path) = IF relative # {} THEN relative
                          ELSE IF path \in DOMAIN rgModules THEN {rgModules[path]}
                          ELSE {rgModules[rgOrder[i]] : i \in first}
    BY DEF Resolved
<1>2. relative \subseteq Added /\ \A g, h \in relative : g = h
    OBVIOUS
<1>3. path \in DOMAIN rgModules => rgModules[path] \in Added
    BY DEF RgTypes
<1>4. \A i \in first : rgModules[rgOrder[i]] \in Added
    BY DEF RgTypes
<1>5. \A i, j \in first : i = j
    <2>1. first \subseteq Nat
        BY DEF RgTypes
    <2> QED
        BY <2>1
<1> HIDE DEF relative, first
<1> QED
    BY <1>1, <1>2, <1>3, <1>4, <1>5

LEMMA ReexportsAdded ==
    ASSUME RgTypes, NEW f
    PROVE  Reexports(f) \subseteq Added
    BY ResolvedIs DEF Reexports

\* Offering is the least of the sets that Follows accepts.
LEMMA OfferingIs ==
    ASSUME RgTypes, NEW g \in Added
    PROVE  /\ g \in Offering(g) /\ Offering(g) \subseteq Added
           /\ Follows(Offering(g))
           /\ \A set \in SUBSET Added : g \in set /\ Follows(set) => Offering(g) \subseteq set
<1>1. g \in Offering(g) /\ Offering(g) \subseteq Added
    BY DEF Offering
<1>2. \A set \in SUBSET Added : g \in set /\ Follows(set) => Offering(g) \subseteq set
    BY DEF Offering
<1>3. ASSUME NEW f \in Offering(g) \cap Table, NEW h \in Reexports(f) PROVE h \in Offering(g)
    <2>1. h \in Added
        BY ReexportsAdded
    <2>2. ASSUME NEW set \in SUBSET Added, g \in set, Follows(set) PROVE h \in set
        BY <1>2, <1>3, <2>2 DEF Follows
    <2> QED
        BY <2>1, <2>2 DEF Offering
<1> QED
    BY <1>1, <1>2, <1>3 DEF Follows

\* What a re-exported file offers, the file that re-exports it offers.
LEMMA OfferingFollows ==
    ASSUME RgTypes, NEW f \in Table, f \in Added, NEW g \in Reexports(f)
    PROVE  Offering(g) \subseteq Offering(f)
<1>1. g \in Added
    BY ReexportsAdded
<1>2. g \in Offering(f) /\ Follows(Offering(f)) /\ Offering(f) \subseteq Added
    BY OfferingIs DEF Follows
<1> QED
    BY <1>1, <1>2, OfferingIs

\* What a table of the first kind has, it keeps when it becomes the second.
More(t, u) == \A f \in Added : DOMAIN t[f] \subseteq DOMAIN u[f]

LEMMA TakesIs ==
    ASSUME RgTypes, NEW t \in GroundTables, NEW f \in Table, f \in Added,
           NEW k \in DOMAIN Text(f).reexports
    PROVE  LET path == Text(f).reexports[k]
               u    == Takes(t, f, path)
           IN  /\ u \in GroundTables /\ More(t, u)
               /\ \A g \in Resolved(f, path) : DOMAIN t[g] \subseteq DOMAIN u[f]
<1> DEFINE path == Text(f).reexports[k]
           u    == Takes(t, f, path)
<1> SUFFICES /\ u \in GroundTables /\ More(t, u)
             /\ \A g \in Resolved(f, path) : DOMAIN t[g] \subseteq DOMAIN u[f]
    OBVIOUS
<1>1. CASE Resolved(f, path) = {}
    BY <1>1 DEF Takes, More
<1>2. CASE Resolved(f, path) # {}
    <2> DEFINE g == CHOOSE h \in Resolved(f, path) : TRUE
    <2>1. g \in Resolved(f, path) /\ g \in Added /\ \A h \in Resolved(f, path) : h = g
        BY <1>2, ResolvedIs
    <2>2. g \in Reexports(f)
        BY <2>1 DEF Reexports
    <2>3. Offering(g) \subseteq Offering(f)
        BY <2>2, OfferingFollows
    <2> DEFINE new == [s \in DOMAIN t[f] \cup DOMAIN t[g] |-> IF s \in DOMAIN t[f] THEN t[f][s] ELSE t[g][s]]
    <2>4. u = [t EXCEPT ![f] = new]
        BY <1>2 DEF Takes
    <2> HIDE DEF g, u, path
    <2>5. PICK S \in SUBSET Exported : t[f] \in [S -> Entries]
        BY DEF GroundTables, Tables
    <2>6. PICK R \in SUBSET Exported : t[g] \in [R -> Entries]
        BY <2>1 DEF GroundTables, Tables
    <2>7. new \in [S \cup R -> Entries] /\ S \cup R \in SUBSET Exported
        BY <2>5, <2>6
    <2>8. DOMAIN new = DOMAIN t[f] \cup DOMAIN t[g]
        OBVIOUS
    <2>9. \A s \in DOMAIN new : Defines(f, s, new[s].node)
        <3> SUFFICES ASSUME NEW s \in DOMAIN new PROVE Defines(f, s, new[s].node)
            OBVIOUS
        <3>1. CASE s \in DOMAIN t[f]
            BY <3>1 DEF GroundTables
        <3>2. CASE s \notin DOMAIN t[f]
            <4>1. new[s] = t[g][s] /\ s \in DOMAIN t[g]
                BY <3>2
            <4>2. Defines(g, s, t[g][s].node)
                BY <2>1, <4>1 DEF GroundTables
            <4> QED
                BY <2>3, <4>1, <4>2 DEF Defines
        <3> QED
            BY <3>1, <3>2
    <2> HIDE DEF new
    <2>10. t \in Tables /\ u[f] = new /\ (\A h \in Added \ {f} : u[h] = t[h])
        BY <2>4 DEF GroundTables, Tables
    <2>11. u \in Tables
        BY <2>4, <2>7, <2>10 DEF Tables
    <2>12. u \in GroundTables
        <3> SUFFICES ASSUME NEW h \in Added
                     PROVE  Text(h).exports \subseteq DOMAIN u[h] /\ \A s \in DOMAIN u[h] : Defines(h, s, u[h][s].node)
            BY <2>11 DEF GroundTables
        <3>1. CASE h = f
            BY <2>8, <2>9, <2>10, <3>1 DEF GroundTables
        <3>2. CASE h # f
            BY <2>10, <3>2 DEF GroundTables
        <3> QED
            BY <3>1, <3>2
    <2> QED
        BY <2>1, <2>8, <2>10, <2>12 DEF More
<1> QED
    BY <1>1, <1>2

LEMMA MoreTwice ==
    ASSUME NEW t, NEW u, NEW v, More(t, u), More(u, v)
    PROVE  More(t, v)
    BY DEF More

\* One module's turn in a pass.
LEMMA ReexportedIs ==
    ASSUME RgTypes, NEW t \in GroundTables, NEW f \in Table, f \in Added, Text(f).reexports \in Seq(STRING)
    PROVE  /\ Reexported(t, f) \in GroundTables /\ More(t, Reexported(t, f))
           /\ \A g \in Reexports(f) : DOMAIN t[g] \subseteq DOMAIN Reexported(t, f)[f]
<1> DEFINE paths == Text(f).reexports
           N == Len(paths)
           Turn(v, k) == Takes(v, f, paths[k])
<1>1. N \in Nat /\ DOMAIN paths = 1..N
    OBVIOUS
<1>2. ASSUME NEW v \in GroundTables, NEW k \in 1..N
      PROVE  /\ Turn(v, k) \in GroundTables /\ More(v, Turn(v, k))
             /\ \A g \in Resolved(f, paths[k]) : DOMAIN v[g] \subseteq DOMAIN Turn(v, k)[f]
    BY <1>1, TakesIs
<1> HIDE DEF N
<1> DEFINE step == [p \in GroundTables \X (1..N) |-> Turn(p[1], p[2])]
           IsRun(r) == r = [k \in 0..N |-> IF k = 0 THEN t ELSE Turn(r[k - 1], k)]
<1>3. \E r : IsRun(r)
    <2> HIDE DEF Turn
    <2>1. step \in [GroundTables \X (1..N) -> GroundTables]
        <3>1. \A v \in GroundTables, k \in 1..N : Turn(v, k) \in GroundTables
            BY <1>2
        <3>2. \A p \in GroundTables \X (1..N) : p[1] \in GroundTables /\ p[2] \in 1..N
            OBVIOUS
        <3>3. \A p \in GroundTables \X (1..N) : Turn(p[1], p[2]) \in GroundTables
            BY <3>1, <3>2
        <3> QED
            BY <3>3
    <2> HIDE DEF step
    <2>0. Loop(N, GroundTables, t, step)
        BY <1>1, <2>1 DEF Loop
    <2>2. PICK r : /\ r \in [0..N -> GroundTables] /\ r[0] = t
                   /\ \A k \in 1..N : r[k] = step[<<r[k - 1], k>>]
        BY <2>0, Recursion DEF IsRunOf
    <2>3. ASSUME NEW k \in 1..N PROVE r[k] = Turn(r[k - 1], k)
        <3>1. k - 1 \in 0..N
            BY <1>1
        <3>2. <<r[k - 1], k>> \in GroundTables \X (1..N)
            BY <2>2, <3>1
        <3> QED
            BY <2>2, <3>2 DEF step
    <2>4. IsRun(r)
        <3>1. \A k \in 0..N : k # 0 => k \in 1..N
            BY <1>1
        <3>2. \A k \in 0..N : r[k] = IF k = 0 THEN t ELSE Turn(r[k - 1], k)
            BY <2>2, <2>3, <3>1
        <3> QED
            BY <2>2, <3>2
    <2> QED
        BY <2>4
<1> DEFINE taken == CHOOSE r : IsRun(r)
<1>4. Reexported(t, f) = taken[N]
    BY DEF Reexported, N
<1>5. IsRun(taken)
    <2> HIDE DEF IsRun
    <2> QED
        BY <1>3
<1> HIDE DEF taken
<1>6. taken[0] = t /\ \A k \in 1..N : taken[k] = Turn(taken[k - 1], k)
    <2> HIDE DEF Turn
    <2>1. \A k \in 0..N : taken[k] = IF k = 0 THEN t ELSE Turn(taken[k - 1], k)
        BY <1>5
    <2> QED
        BY <1>1, <2>1
<1> DEFINE Good(k) == /\ taken[k] \in GroundTables /\ More(t, taken[k])
                      /\ \A j \in 1..k : \A g \in Resolved(f, paths[j]) : DOMAIN t[g] \subseteq DOMAIN taken[k][f]
           K == {k \in 0..N : Good(k)}
<1> HIDE DEF Turn, IsRun, step, paths
<1>7. 0 \in K
    BY <1>1, <1>6 DEF More
<1>8. ASSUME NEW k \in 1..N, k - 1 \in K PROVE k \in K
    <2>1. Good(k - 1) /\ taken[k] = Turn(taken[k - 1], k)
        BY <1>6, <1>8
    <2> DEFINE v == taken[k - 1]
               w == taken[k]
    <2>2. /\ w \in GroundTables /\ More(v, w)
          /\ \A g \in Resolved(f, paths[k]) : DOMAIN v[g] \subseteq DOMAIN w[f]
        BY <1>2, <2>1
    <2>3. More(t, w)
        BY <2>1, <2>2, MoreTwice
    <2>4. ASSUME NEW j \in 1..k, NEW g \in Resolved(f, paths[j]) PROVE DOMAIN t[g] \subseteq DOMAIN w[f]
        <3>1. g \in Added
            BY ResolvedIs
        <3>2. DOMAIN t[g] \subseteq DOMAIN v[g]
            BY <2>1, <3>1 DEF More
        <3>3. CASE j = k
            BY <2>2, <3>2, <3>3
        <3>4. CASE j # k
            <4>1. j \in 1..(k - 1)
                BY <3>4
            <4>2. DOMAIN t[g] \subseteq DOMAIN v[f]
                BY <2>1, <4>1
            <4> QED
                BY <2>2, <4>2 DEF More
        <3> QED
            BY <3>3, <3>4
    <2> QED
        BY <2>2, <2>3, <2>4
<1>9. Good(N)
    <2> HIDE DEF K
    <2>1. \A k \in 0..N : k \in K
        BY <1>1, <1>7, <1>8, Climb
    <2>2. N \in K
        BY <1>1, <2>1
    <2> QED
        BY <2>2 DEF K
<1>10. \A g \in Reexports(f) : \E j \in 1..N : g \in Resolved(f, paths[j])
    BY <1>1 DEF Reexports, paths
<1> QED
    BY <1>4, <1>9, <1>10

LEMMA TextIs ==
    ASSUME RgTypes, NEW f \in Added
    PROVE  Text(f).reexports \in Seq(STRING)
    BY TextAssumption, RepositoryAssumption DEF RgTypes, Text, Added

\* A pass over the table.
LEMMA PassIs ==
    ASSUME RgTypes, rgExports \in GroundTables
    PROVE  /\ Pass \in GroundTables /\ More(rgExports, Pass)
           /\ \A f \in Table : \A g \in Reexports(f) : DOMAIN rgExports[g] \subseteq DOMAIN Pass[f]
<1> DEFINE N == Len(rgOrder)
           Turn(v, k) == Reexported(v, rgModules[rgOrder[k]])
<1>1. N \in Nat /\ DOMAIN rgOrder = 1..N
    BY DEF RgTypes
<1>2. ASSUME NEW v \in GroundTables, NEW k \in 1..N
      PROVE  /\ Turn(v, k) \in GroundTables /\ More(v, Turn(v, k))
             /\ \A g \in Reexports(rgModules[rgOrder[k]]) : DOMAIN v[g] \subseteq DOMAIN Turn(v, k)[rgModules[rgOrder[k]]]
    <2>1. rgModules[rgOrder[k]] \in Table /\ rgModules[rgOrder[k]] \in Added
        BY <1>1 DEF RgTypes, Table
    <2> QED
        BY <2>1, TextIs, ReexportedIs
<1> HIDE DEF N
<1> DEFINE step == [p \in GroundTables \X (1..N) |-> Turn(p[1], p[2])]
           IsRun(r) == r = [k \in 0..N |-> IF k = 0 THEN rgExports ELSE Turn(r[k - 1], k)]
<1>3. \E r : IsRun(r)
    <2> HIDE DEF Turn
    <2>1. step \in [GroundTables \X (1..N) -> GroundTables]
        <3>1. \A v \in GroundTables, k \in 1..N : Turn(v, k) \in GroundTables
            BY <1>2
        <3>2. \A p \in GroundTables \X (1..N) : p[1] \in GroundTables /\ p[2] \in 1..N
            OBVIOUS
        <3>3. \A p \in GroundTables \X (1..N) : Turn(p[1], p[2]) \in GroundTables
            BY <3>1, <3>2
        <3> QED
            BY <3>3
    <2> HIDE DEF step
    <2>0. Loop(N, GroundTables, rgExports, step)
        BY <1>1, <2>1 DEF Loop
    <2>2. PICK r : /\ r \in [0..N -> GroundTables] /\ r[0] = rgExports
                   /\ \A k \in 1..N : r[k] = step[<<r[k - 1], k>>]
        BY <2>0, Recursion DEF IsRunOf
    <2>3. ASSUME NEW k \in 1..N PROVE r[k] = Turn(r[k - 1], k)
        <3>1. k - 1 \in 0..N
            BY <1>1
        <3>2. <<r[k - 1], k>> \in GroundTables \X (1..N)
            BY <2>2, <3>1
        <3> QED
            BY <2>2, <3>2 DEF step
    <2>4. IsRun(r)
        <3>1. \A k \in 0..N : k # 0 => k \in 1..N
            BY <1>1
        <3>2. \A k \in 0..N : r[k] = IF k = 0 THEN rgExports ELSE Turn(r[k - 1], k)
            BY <2>2, <2>3, <3>1
        <3> QED
            BY <2>2, <3>2
    <2> QED
        BY <2>4
<1> DEFINE passed == CHOOSE r : IsRun(r)
<1>4. Pass = passed[N]
    BY DEF Pass, N
<1>5. IsRun(passed)
    <2> HIDE DEF IsRun
    <2> QED
        BY <1>3
<1> HIDE DEF passed
<1>6. passed[0] = rgExports /\ \A k \in 1..N : passed[k] = Turn(passed[k - 1], k)
    <2> HIDE DEF Turn
    <2>1. \A k \in 0..N : passed[k] = IF k = 0 THEN rgExports ELSE Turn(passed[k - 1], k)
        BY <1>5
    <2> QED
        BY <1>1, <2>1
<1> DEFINE Good(k) == /\ passed[k] \in GroundTables /\ More(rgExports, passed[k])
                      /\ \A j \in 1..k : \A g \in Reexports(rgModules[rgOrder[j]]) :
                            DOMAIN rgExports[g] \subseteq DOMAIN passed[k][rgModules[rgOrder[j]]]
           K == {k \in 0..N : Good(k)}
<1> HIDE DEF Turn, IsRun, step
<1>7. 0 \in K
    BY <1>1, <1>6 DEF More
<1>8. ASSUME NEW k \in 1..N, k - 1 \in K PROVE k \in K
    <2>1. Good(k - 1) /\ passed[k] = Turn(passed[k - 1], k)
        BY <1>6, <1>8
    <2> DEFINE v == passed[k - 1]
               w == passed[k]
    <2>2. /\ w \in GroundTables /\ More(v, w)
          /\ \A g \in Reexports(rgModules[rgOrder[k]]) : DOMAIN v[g] \subseteq DOMAIN w[rgModules[rgOrder[k]]]
        BY <1>2, <2>1
    <2>3. More(rgExports, w)
        BY <2>1, <2>2, MoreTwice
    <2>4. ASSUME NEW j \in 1..k, NEW g \in Reexports(rgModules[rgOrder[j]])
          PROVE  DOMAIN rgExports[g] \subseteq DOMAIN w[rgModules[rgOrder[j]]]
        <3>1. g \in Added
            BY ReexportsAdded
        <3>2. DOMAIN rgExports[g] \subseteq DOMAIN v[g]
            BY <2>1, <3>1 DEF More
        <3>3. CASE j = k
            BY <2>2, <3>2, <3>3
        <3>4. CASE j # k
            <4>1. j \in 1..(k - 1) /\ j \in DOMAIN rgOrder
                BY <1>1, <3>4
            <4>2. DOMAIN rgExports[g] \subseteq DOMAIN v[rgModules[rgOrder[j]]]
                BY <2>1, <4>1
            <4>3. rgModules[rgOrder[j]] \in Added
                BY <4>1 DEF RgTypes
            <4> QED
                BY <2>2, <4>2, <4>3 DEF More
        <3> QED
            BY <3>3, <3>4
    <2> QED
        BY <2>2, <2>3, <2>4
<1>9. Good(N)
    <2> HIDE DEF K
    <2>1. \A k \in 0..N : k \in K
        BY <1>1, <1>7, <1>8, Climb
    <2>2. N \in K
        BY <1>1, <2>1
    <2> QED
        BY <2>2 DEF K
<1>10. \A f \in Table : \E j \in 1..N : f = rgModules[rgOrder[j]]
    BY <1>1 DEF Table, RgTypes
<1> QED
    BY <1>4, <1>9, <1>10

\* Once the files are parsed, no step changes what these operators read.
Parsed == <<repo, rgThread, rgOwner, rgOrder, rgModules>>

LEMMA ParsedSame ==
    ASSUME RgTypes, UNCHANGED Parsed
    PROVE  /\ Added' = Added /\ Table' = Table /\ Files' = Files
           /\ GroundTables' = GroundTables /\ Imports' = Imports
           /\ \A f : Reexports(f)' = Reexports(f) /\ Text(f)' = Text(f) /\ Offering(f)' = Offering(f)
           /\ \A fi : Targets(fi)' = Targets(fi)
<1>1. Added' = Added /\ Table' = Table /\ Files' = Files
    BY DEF Parsed, Added, Table, Files
<1>2. ASSUME NEW f PROVE Text(f)' = Text(f)
    BY DEF Parsed, Text
<1>3. ASSUME NEW f, NEW path PROVE Resolved(f, path)' = Resolved(f, path)
    BY <1>1 DEF Parsed, Resolved
<1>4. ASSUME NEW f PROVE Reexports(f)' = Reexports(f)
    BY <1>2, <1>3 DEF Reexports
<1>5. ASSUME NEW set PROVE Follows(set)' = Follows(set)
    BY <1>1, <1>4 DEF Follows
<1>6. ASSUME NEW f PROVE Offering(f)' = Offering(f)
    BY <1>1, <1>5 DEF Offering
<1>7. Exported' = Exported
    BY <1>1, <1>2 DEF Exported
<1>8. Entries' = Entries
    BY <1>1, <1>7 DEF Entries, Parsed
<1>9. Tables' = Tables
    BY <1>1, <1>7, <1>8 DEF Tables
<1>10. ASSUME NEW f, NEW s, NEW node PROVE Defines(f, s, node)' = Defines(f, s, node)
    BY <1>2, <1>6 DEF Defines, Parsed
<1>11. GroundTables' = GroundTables
    BY <1>1, <1>2, <1>9, <1>10 DEF GroundTables
<1>12. ASSUME NEW f PROVE ImportsOf(f)' = ImportsOf(f)
    BY <1>2 DEF ImportsOf
<1>13. Imports' = Imports
    BY <1>1, <1>12 DEF Imports
<1>14. ASSUME NEW fi PROVE Targets(fi)' = Targets(fi)
    BY <1>1, <1>3 DEF Targets
<1> QED
    BY <1>1, <1>2, <1>4, <1>6, <1>11, <1>13, <1>14

LEMMA ParsedTypes ==
    ASSUME RgTypes, ParseInv, UNCHANGED Parsed, rgStage # "parse",
           rgStage' \in {"expand", "link", "flow", "call", "done"}
    PROVE  RgTypes' /\ ParseInv'
<1>1. Added' = Added /\ Files' = Files
    BY ParsedSame
<1>2. RgTypes'
    BY <1>1 DEF RgTypes, Parsed
<1>3. ParseInv'
    BY <1>1 DEF ParseInv, Parsed
<1> QED
    BY <1>2, <1>3

\* What is linked stays linked when edges are added.
LEMMA LinkedStays ==
    ASSUME RgTypes, UNCHANGED Parsed, UNCHANGED rgExports, NEW edges, edges \subseteq rgEdges',
           \A fi \in Imports : \A g \in Targets(fi) : LinkedIn(edges, fi, g)
    PROVE  AllLinked'
<1> SUFFICES ASSUME NEW fi \in Imports, NEW g \in Targets(fi) PROVE LinkedIn(rgEdges, fi, g)'
    BY ParsedSame DEF AllLinked
<1>1. LinkedIn(edges, fi, g)
    OBVIOUS
<1>2. /\ Table' = Table /\ Offering(g)' = Offering(g) /\ rgOwner' = rgOwner
      /\ \A f : Text(f)' = Text(f)
    BY ParsedSame DEF Parsed
<1>3. ImportNode(fi[1], fi[2])' = ImportNode(fi[1], fi[2])
    BY <1>2 DEF ImportNode
<1> DEFINE f == fi[1]
           i == fi[2]
           origins == {<<rgOwner[h], "export", i.name>> : h \in {k \in Offering(g) : i.name \in Text(k).exports}}
           Has(n, some) ==
             /\ Edge("import", ImportNode(f, i), n) \in some
             /\ g \in Table \ {f} /\ i.as \in Text(f).uses  => Edge("flow", n, <<rgOwner[f], "use", i.as>>) \in some
             /\ g \in Table \ {f} /\ i.as \in Text(f).calls => Edge("call", <<rgOwner[f], "call", i.as>>, n) \in some
<1>4. ASSUME NEW n, Has(n, edges) PROVE Has(n, rgEdges')
    BY <1>4
<1>5. LinkedIn(edges, fi, g) <=> (i.name # "default" /\ origins # {} => \E n \in origins : Has(n, edges))
    BY DEF LinkedIn
<1>6. PICK later : later = rgEdges'
    OBVIOUS
<1>7. LinkedIn(later, fi, g) <=> (i.name # "default" /\ origins # {} => \E n \in origins : Has(n, later))
    BY DEF LinkedIn
<1>8. LinkedIn(rgEdges, fi, g)' <=> LinkedIn(later, fi, g)
    BY ONLY <1>2, <1>3, <1>6 DEF LinkedIn, Edge
<1> HIDE DEF Has, origins
<1> QED
    BY <1>1, <1>4, <1>5, <1>6, <1>7, <1>8

\* Linking, over tables that are complete and grounded.
LEMMA LinkReaches ==
    ASSUME RgTypes, rgExports \in GroundTables, Complete(rgExports),
           NEW fi \in Imports, NEW g \in Targets(fi),
           NEW edges, ImportEdges \cup UsageEdges \subseteq edges
    PROVE  LinkedIn(edges, fi, g)
<1> DEFINE f == fi[1]
           i == fi[2]
           origins == {<<rgOwner[h], "export", i.name>> : h \in {k \in Offering(g) : i.name \in Text(k).exports}}
<1> SUFFICES ASSUME i.name # "default", origins # {}
             PROVE  \E n \in origins :
                      /\ Edge("import", ImportNode(f, i), n) \in edges
                      /\ g \in Table \ {f} /\ i.as \in Text(f).uses  => Edge("flow", n, <<rgOwner[f], "use", i.as>>) \in edges
                      /\ g \in Table \ {f} /\ i.as \in Text(f).calls => Edge("call", <<rgOwner[f], "call", i.as>>, n) \in edges
    BY DEF LinkedIn
<1>1. g \in Added
    BY DEF Targets
<1>2. i.name \in DOMAIN rgExports[g]
    <2> DEFINE C == {h \in Added : DOMAIN rgExports[h] \subseteq DOMAIN rgExports[g]}
    <2>1. PICK h \in Offering(g) : i.name \in Text(h).exports
        OBVIOUS
    <2>2. Follows(C)
        <3> SUFFICES ASSUME NEW k \in C \cap Table, NEW m \in Reexports(k) PROVE m \in C
            BY DEF Follows
        <3>1. m \in Added
            BY ReexportsAdded
        <3>2. DOMAIN rgExports[m] \subseteq DOMAIN rgExports[k]
            BY DEF Complete
        <3> QED
            BY <3>1, <3>2
    <2>3. Offering(g) \subseteq C
        BY <1>1, <2>2, OfferingIs
    <2>4. Text(h).exports \subseteq DOMAIN rgExports[h]
        BY <2>1, <2>3 DEF GroundTables
    <2> QED
        BY <2>1, <2>3, <2>4
<1> DEFINE n == rgExports[g][i.name].node
<1>3. n \in origins
    <2>1. Defines(g, i.name, n)
        BY <1>1, <1>2 DEF GroundTables
    <2> QED
        BY <2>1 DEF Defines
<1>4. Names(i, g, i.name)
    BY DEF Names
<1>5. Edge("import", ImportNode(f, i), n) \in ImportEdges
    BY <1>2, <1>4 DEF ImportEdges
<1>6. ASSUME g \in Table \ {f}
      PROVE  /\ i.as \in Text(f).uses  => Edge("flow", n, <<rgOwner[f], "use", i.as>>) \in UsageEdges
             /\ i.as \in Text(f).calls => Edge("call", <<rgOwner[f], "call", i.as>>, n) \in UsageEdges
    <2> DEFINE Symbols(fj, h) == {s \in DOMAIN rgExports[h] : Names(fj[2], h, s) \/ fj[2].name = s}
               Flows(fj, h) == {Edge("flow", rgExports[h][s].node, <<rgOwner[fj[1]], "use", fj[2].as>>) :
                                  s \in IF fj[2].as \in Text(fj[1]).uses THEN Symbols(fj, h) ELSE {}}
               Calls(fj, h) == {Edge("call", <<rgOwner[fj[1]], "call", fj[2].as>>, rgExports[h][s].node) :
                                  s \in IF fj[2].as \in Text(fj[1]).calls THEN Symbols(fj, h) ELSE {}}
               Both(fj, h) == Flows(fj, h) \cup Calls(fj, h)
    <2>1. UsageEdges = UNION {UNION {Both(fj, h) : h \in (Targets(fj) \cap Table) \ {fj[1]}} : fj \in Imports}
        BY DEF UsageEdges
    <2>2. i.name \in Symbols(fi, g)
        BY <1>2
    <2>3. /\ i.as \in Text(f).uses  => Edge("flow", n, <<rgOwner[f], "use", i.as>>) \in Both(fi, g)
          /\ i.as \in Text(f).calls => Edge("call", <<rgOwner[f], "call", i.as>>, n) \in Both(fi, g)
        BY <2>2
    <2> HIDE DEF Both
    <2>4. Both(fi, g) \subseteq UsageEdges
        BY <1>6, <2>1
    <2> QED
        BY <2>3, <2>4
<1> QED
    BY <1>3, <1>5, <1>6

LEMMA RgInitOK == RgInit => RgInv
<1> SUFFICES ASSUME RgInit PROVE RgInv
    OBVIOUS
<1>1. Added = {} /\ rgStage = "parse" /\ DOMAIN rgModules = {} /\ DOMAIN rgOwner = {}
    BY DEF RgInit, Added, EmptyTable
<1>2. RgTypes
    BY <1>1 DEF RgTypes, RgInit, Files, EmptyTable
<1>3. ParseInv
    BY <1>1 DEF ParseInv, RgInit, EmptyTable
<1> QED
    BY <1>1, <1>2, <1>3 DEF RgInv

\* A thread of the pool gets on, and no module is added.
LEMMA ThreadKeeps ==
    ASSUME RgInv, NEW f \in Files, rgStage = "parse",
           UNCHANGED <<repo, rgStage, rgOrder, rgModules, rgExports, rgEdges>>,
           rgThread' \in [Files -> {"queued", "running", "added", "failed"}],
           \A g \in Files : rgThread'[g] = "added" <=> rgThread[g] = "added",
           DOMAIN rgOwner \subseteq DOMAIN rgOwner', \A g \in Added : rgOwner'[g] = rgOwner[g]
    PROVE  RgInv'
<1>1. Added' = Added /\ Files' = Files
    BY DEF Added, Files
<1>2. RgTypes'
    BY <1>1 DEF RgInv, RgTypes, Files
<1>3. \A g \in Added : OwnExports(g, rgOwner[g])' = OwnExports(g, rgOwner[g])
    BY DEF OwnExports, Text
<1>4. ParseInv'
    BY <1>1, <1>3 DEF RgInv, ParseInv, Files
<1> QED
    BY <1>2, <1>4 DEF RgInv

LEMMA JoinedIs ==
    ASSUME NEW function, NEW x, NEW value
    PROVE  /\ DOMAIN Joined(function, x, value) = DOMAIN function \cup {x}
           /\ Joined(function, x, value)[x] = value
           /\ \A y \in DOMAIN function \ {x} : Joined(function, x, value)[y] = function[y]
    BY DEF Joined

LEMMA AddKeeps ==
    ASSUME RgInv, NEW f \in Files, AddModule(f)
    PROVE  RgInv'
<1>1. rgStage = "parse" /\ rgStage' = "parse" /\ Files' = Files /\ repo' = repo /\ rgOwner' = rgOwner
    BY DEF RgInv, ParseInv, AddModule, Files
<1>2. rgThread' \in [Files -> {"queued", "running", "added", "failed"}]
    BY DEF RgInv, RgTypes, AddModule, Files
<1>3. Added' = Added \cup {f} /\ f \notin Added
    BY DEF RgInv, RgTypes, AddModule, Added, Files
<1> DEFINE name == repo.module[f]
<1>4. rgModules' \in [DOMAIN rgModules' -> Added'] /\ DOMAIN rgModules' = DOMAIN rgModules \cup {name}
    <2>1. rgModules' = Joined(rgModules, name, f) /\ rgModules \in [DOMAIN rgModules -> Added]
        BY DEF AddModule, RgInv, RgTypes
    <2> QED
        BY <1>3, <2>1 DEF Joined
<1> HIDE DEF name
<1>5. /\ rgOrder' \in Seq(DOMAIN rgModules')
      /\ \A n \in DOMAIN rgModules' : \E i \in DOMAIN rgOrder' : rgOrder'[i] = n
    <2>1. /\ rgOrder \in Seq(DOMAIN rgModules)
          /\ \A n \in DOMAIN rgModules : \E i \in DOMAIN rgOrder : rgOrder[i] = n
        BY DEF RgInv, RgTypes
    <2>2. rgOrder \in Seq(DOMAIN rgModules')
        BY <1>4, <2>1
    <2>3. CASE name \in DOMAIN rgModules
        <3>1. rgOrder' = rgOrder
            BY <2>3 DEF AddModule, name
        <3> QED
            BY <1>4, <2>1, <2>2, <2>3, <3>1
    <2>4. CASE name \notin DOMAIN rgModules
        <3>1. rgOrder' = Append(rgOrder, name)
            BY <2>4 DEF AddModule, name
        <3>2. name \in DOMAIN rgModules'
            BY <1>4
        <3>3. rgOrder' \in Seq(DOMAIN rgModules')
            BY <2>2, <3>1, <3>2
        <3>4. Len(rgOrder') = Len(rgOrder) + 1 /\ rgOrder'[Len(rgOrder) + 1] = name
            BY <2>2, <3>1
        <3>5. \A i \in DOMAIN rgOrder : i \in DOMAIN rgOrder' /\ rgOrder'[i] = rgOrder[i]
            BY <2>2, <3>1
        <3>6. Len(rgOrder) + 1 \in DOMAIN rgOrder'
            BY <2>2, <3>3, <3>4
        <3> QED
            BY <1>4, <2>1, <3>3, <3>4, <3>5, <3>6
    <2> QED
        BY <2>3, <2>4
<1>6. RgTypes'
    BY <1>1, <1>2, <1>4, <1>5 DEF RgTypes, RgInv
<1>7. f \in DOMAIN rgOwner /\ Added \subseteq DOMAIN rgOwner
    BY DEF AddModule, RgInv, ParseInv
<1>8. rgExports' = [g \in Added' |-> OwnExports(g, rgOwner[g])]
    <2>1. rgExports = [g \in Added |-> OwnExports(g, rgOwner[g])]
        BY <1>1 DEF RgInv, ParseInv
    <2>2. rgExports' = Joined(rgExports, f, OwnExports(f, rgOwner[f]))
        BY DEF AddModule
    <2> HIDE DEF name
    <2> QED
        BY <1>3, <2>1, <2>2 DEF Joined
<1>9. \A g : OwnExports(g, rgOwner[g])' = OwnExports(g, rgOwner[g])
    BY <1>1 DEF OwnExports, Text
<1>10. ParseInv'
    BY <1>1, <1>3, <1>7, <1>8, <1>9 DEF ParseInv
<1> QED
    BY <1>1, <1>6, <1>10 DEF RgInv

\* What the threads leave is grounded.
LEMMA EndKeeps ==
    ASSUME RgInv, EndParsing
    PROVE  RgInv'
<1>1. /\ rgStage = "parse" /\ rgStage' = "expand" /\ rgExports' = rgExports
      /\ UNCHANGED Parsed /\ rgEdges' = rgEdges
      /\ \A f \in DOMAIN rgThread : rgThread[f] \in {"added", "failed"}
    BY DEF EndParsing, Parsed
<1>2. RgTypes /\ RgTypes' /\ Added' = Added /\ Files' = Files /\ GroundTables' = GroundTables
    <2>1. RgTypes /\ Added' = Added /\ Files' = Files /\ GroundTables' = GroundTables
        BY <1>1, ParsedSame DEF RgInv
    <2> QED
        BY <1>1, <2>1 DEF RgTypes, Parsed
<1>3. ParseInv'
    BY <1>1, <1>2 DEF ParseInv, RgInv, RgTypes, Parsed
<1>4. rgExports = [f \in Added |-> OwnExports(f, rgOwner[f])]
    BY <1>1 DEF RgInv, ParseInv
<1>5. \A f \in Added : OwnExports(f, rgOwner[f]) \in [Text(f).exports -> Entries]
    <2> SUFFICES ASSUME NEW f \in Added, NEW s \in Text(f).exports
                 PROVE  [node |-> <<rgOwner[f], "export", s>>, default |-> s = Text(f).default] \in Entries
        BY DEF OwnExports
    <2>1. s \in Exported
        BY DEF Exported
    <2>2. (s = Text(f).default) \in BOOLEAN
        OBVIOUS
    <2>3. <<rgOwner[f], "export", s>> \in {<<rgOwner[h], "export", ss>> : h \in Added, ss \in Exported}
        BY <2>1
    <2> QED
        BY <2>2, <2>3 DEF Entries
<1>6. rgExports \in Tables
    <2>1. \A f \in Added : Text(f).exports \in SUBSET Exported
        BY DEF Exported
    <2>2. \A f \in Added : rgExports[f] \in UNION {[S -> Entries] : S \in SUBSET Exported}
        BY <1>4, <1>5, <2>1
    <2> QED
        BY <1>4, <2>2 DEF Tables
<1>7. rgExports \in GroundTables
    <2> SUFFICES ASSUME NEW f \in Added
                 PROVE  /\ Text(f).exports \subseteq DOMAIN rgExports[f]
                        /\ \A s \in DOMAIN rgExports[f] : Defines(f, s, rgExports[f][s].node)
        BY <1>6 DEF GroundTables
    <2>1. rgExports[f] = OwnExports(f, rgOwner[f])
        BY <1>4
    <2>2. f \in Offering(f)
        BY <1>2, OfferingIs
    <2> QED
        BY <2>1, <2>2 DEF OwnExports, Defines
<1> QED
    BY <1>1, <1>2, <1>3, <1>7 DEF RgInv

LEMMA ExpandKeeps ==
    ASSUME RgInv, ExpandPass
    PROVE  RgInv'
<1>1. /\ rgStage = "expand" /\ rgStage' \in {"expand", "link"} /\ rgExports' = Pass
      /\ UNCHANGED Parsed /\ rgEdges' = rgEdges
      /\ rgStage' = "link" => Pass = rgExports
    BY DEF ExpandPass, Parsed, Settled
<1>2. RgTypes /\ ParseInv /\ rgExports \in GroundTables
    BY <1>1 DEF RgInv
<1>3. RgTypes' /\ ParseInv'
    BY <1>1, <1>2, ParsedTypes
<1>4. rgExports' \in GroundTables'
    BY <1>1, <1>2, ParsedSame, PassIs
<1>5. rgStage' = "link" => Complete(rgExports)'
    <2> SUFFICES ASSUME rgStage' = "link" PROVE Complete(rgExports)'
        OBVIOUS
    <2>1. Table' = Table /\ \A f : Reexports(f)' = Reexports(f)
        BY <1>1, <1>2, ParsedSame
    <2>2. \A f \in Table : \A g \in Reexports(f) : DOMAIN rgExports[g] \subseteq DOMAIN rgExports[f]
        BY <1>1, <1>2, PassIs
    <2> QED
        BY <1>1, <2>1, <2>2 DEF Complete
<1> QED
    BY <1>1, <1>3, <1>4, <1>5 DEF RgInv

LEMMA LaterKeeps ==
    ASSUME RgInv, UNCHANGED Parsed, UNCHANGED rgExports,
           rgStage \in {"link", "flow", "call", "done"}, rgStage' \in {"flow", "call", "done"},
           AllLinked'
    PROVE  RgInv'
<1>1. RgTypes /\ ParseInv /\ rgExports \in GroundTables /\ Complete(rgExports)
    BY DEF RgInv
<1>2. RgTypes' /\ ParseInv' /\ rgExports' \in GroundTables'
    BY <1>1, ParsedSame, ParsedTypes
<1>3. Complete(rgExports)'
    <2>1. Table' = Table /\ \A f : Reexports(f)' = Reexports(f)
        BY <1>1, ParsedSame
    <2> QED
        BY <1>1, <2>1 DEF Complete
<1> QED
    BY <1>2, <1>3 DEF RgInv

LEMMA LinkKeeps ==
    ASSUME RgInv, Link
    PROVE  RgInv'
<1>1. /\ rgStage = "link" /\ rgStage' = "flow" /\ UNCHANGED Parsed /\ rgExports' = rgExports
      /\ ImportEdges \cup UsageEdges \subseteq rgEdges'
    BY DEF Link, Parsed
<1>2. RgTypes /\ ParseInv /\ rgExports \in GroundTables /\ Complete(rgExports)
    BY <1>1 DEF RgInv
<1>3. AllLinked'
    <2> DEFINE edges == ImportEdges \cup UsageEdges
    <2>1. \A fi \in Imports : \A g \in Targets(fi) : LinkedIn(edges, fi, g)
        BY <1>2, LinkReaches
    <2> HIDE DEF edges
    <2>2. edges \subseteq rgEdges'
        BY <1>1 DEF edges
    <2> QED
        BY <1>1, <1>2, <2>1, <2>2, LinkedStays
<1> QED
    BY <1>1, <1>3, LaterKeeps

LEMMA LinkedKeeps ==
    ASSUME RgInv, PropagateFlow \/ LinkCalls
    PROVE  RgInv'
<1>1. /\ rgStage \in {"flow", "call"} /\ rgStage' \in {"call", "done"}
      /\ UNCHANGED Parsed /\ UNCHANGED rgExports /\ rgEdges \subseteq rgEdges'
    <2>1. CASE PropagateFlow
        <3>1. rgEdges \subseteq rgEdges'
            BY <2>1 DEF PropagateFlow
        <3> QED
            BY <2>1, <3>1 DEF PropagateFlow, Parsed
    <2>2. CASE LinkCalls
        <3>1. rgEdges \subseteq rgEdges'
            BY <2>2 DEF LinkCalls
        <3> QED
            BY <2>2, <3>1 DEF LinkCalls, Parsed
    <2> QED
        BY <2>1, <2>2
<1>2. RgTypes /\ \A fi \in Imports : \A g \in Targets(fi) : LinkedIn(rgEdges, fi, g)
    BY <1>1 DEF RgInv, AllLinked
<1>3. PICK edges : edges = rgEdges
    OBVIOUS
<1>4. AllLinked'
    BY <1>1, <1>2, <1>3, LinkedStays
<1> QED
    BY <1>1, <1>4, LaterKeeps

LEMMA RgStutters ==
    ASSUME RgInv, UNCHANGED rgVars
    PROVE  RgInv'
<1>1. UNCHANGED Parsed /\ UNCHANGED <<rgStage, rgExports, rgEdges>>
    BY DEF rgVars, Parsed
<1>2. CASE rgStage \in {"flow", "call", "done"}
    <2>1. RgTypes /\ \A fi \in Imports : \A g \in Targets(fi) : LinkedIn(rgEdges, fi, g)
        BY <1>2 DEF RgInv, AllLinked
    <2>2. PICK edges : edges = rgEdges
        OBVIOUS
    <2>3. AllLinked'
        BY <1>1, <2>1, <2>2, LinkedStays
    <2> QED
        BY <1>1, <1>2, <2>3, LaterKeeps
<1>3. CASE rgStage \notin {"flow", "call", "done"}
    <2>1. /\ Added' = Added /\ Files' = Files /\ GroundTables' = GroundTables /\ Table' = Table
          /\ \A f : Reexports(f)' = Reexports(f) /\ Text(f)' = Text(f)
        BY <1>1, ParsedSame DEF RgInv
    <2>2. RgTypes'
        BY <1>1, <2>1 DEF RgInv, RgTypes, Parsed
    <2>3. \A f : OwnExports(f, rgOwner[f])' = OwnExports(f, rgOwner[f])
        BY <1>1, <2>1 DEF OwnExports, Parsed
    <2>4. ParseInv'
        BY <1>1, <2>1, <2>3 DEF RgInv, ParseInv, Parsed
    <2>5. Complete(rgExports)' <=> Complete(rgExports)
        BY <1>1, <2>1 DEF Complete
    <2> QED
        BY <1>1, <1>3, <2>1, <2>2, <2>4, <2>5 DEF RgInv
<1> QED
    BY <1>2, <1>3

LEMMA RgKept == RgInv /\ [RgNext]_rgVars => RgInv'
<1> SUFFICES ASSUME RgInv, [RgNext]_rgVars PROVE RgInv'
    OBVIOUS
<1>0. rgThread \in [Files -> {"queued", "running", "added", "failed"}] /\ Added \subseteq DOMAIN rgOwner
      /\ (rgStage # "parse" => \A f \in Files : rgThread[f] \in {"added", "failed"})
    BY DEF RgInv, RgTypes, ParseInv
<1>1. ASSUME NEW f \in Files, TakeCached(f) PROVE RgInv'
    <2>1. PICK i \in Cached(f) : rgOwner' = Joined(rgOwner, f, rgCache[i][2])
        BY <1>1 DEF TakeCached
    <2>2. f \notin Added
        BY <1>1 DEF TakeCached, Added
    <2>3. DOMAIN rgOwner \subseteq DOMAIN rgOwner' /\ \A g \in Added : rgOwner'[g] = rgOwner[g]
        BY <1>0, <2>1, <2>2 DEF Joined
    <2>4. /\ rgThread' \in [Files -> {"queued", "running", "added", "failed"}]
          /\ \A g \in Files : rgThread'[g] = "added" <=> rgThread[g] = "added"
        BY <1>0, <1>1 DEF TakeCached
    <2> QED
        BY <1>1, <2>3, <2>4, ThreadKeeps DEF TakeCached
<1>2. ASSUME NEW f \in Files, MissCache(f) \/ ParseFails(f) PROVE RgInv'
    <2>1. /\ rgThread' \in [Files -> {"queued", "running", "added", "failed"}]
          /\ \A g \in Files : rgThread'[g] = "added" <=> rgThread[g] = "added"
        BY <1>0, <1>2 DEF MissCache, ParseFails
    <2>2. rgStage = "parse" /\ UNCHANGED <<repo, rgStage, rgOwner, rgOrder, rgModules, rgExports, rgEdges>>
        BY <1>0, <1>2 DEF MissCache, ParseFails
    <2> QED
        BY <2>1, <2>2, ThreadKeeps
<1>3. ASSUME NEW f \in Files, StoreGraph(f) PROVE RgInv'
    <2>1. rgOwner' = Joined(rgOwner, f, f) /\ f \notin DOMAIN rgOwner /\ rgThread[f] = "running" /\ rgThread' = rgThread
        BY <1>3 DEF StoreGraph
    <2>2. DOMAIN rgOwner \subseteq DOMAIN rgOwner' /\ \A g \in Added : rgOwner'[g] = rgOwner[g]
        BY <1>0, <2>1 DEF Joined
    <2>3. rgStage = "parse" /\ UNCHANGED <<repo, rgStage, rgOrder, rgModules, rgExports, rgEdges>>
        BY <1>0, <1>3 DEF StoreGraph
    <2> QED
        BY <1>0, <2>1, <2>2, <2>3, ThreadKeeps
<1> QED
    BY <1>1, <1>2, <1>3, AddKeeps, EndKeeps, ExpandKeeps, LinkKeeps, LinkedKeeps, RgStutters DEF RgNext, Files

\* An import of a name that some file behind the module imported from defines is
\* linked to such a file, whatever the threads, the cache and the repository are.
THEOREM ImportsReach == RgSpec => []ImportsReachTheirSource
<1>1. RgInv => ImportsReachTheirSource
    BY DEF RgInv, AllLinked, LinkedIn, ImportsReachTheirSource
<1> QED
    BY RgInitOK, RgKept, <1>1, PTL DEF RgSpec

-----------------------------------------------------------------------------
(* The union-find *)

\* parent is a forest over D: rt has the root of each node and depth its
\* distance; no tree is deeper than there are nodes that are not roots.
Inner(D, parent) == {x \in D : parent[x] # x}
IsForest(D, parent, rt, depth) ==
    /\ parent \in [D -> D] /\ rt \in [D -> D] /\ depth \in [D -> Nat]
    /\ \A x \in D : /\ parent[rt[x]] = rt[x] /\ rt[parent[x]] = rt[x]
                    /\ parent[x] = x => rt[x] = x /\ depth[x] = 0
                    /\ parent[x] # x => depth[x] = depth[parent[x]] + 1
                    /\ depth[x] <= Cardinality(Inner(D, parent))
Forests(D) == {parent \in [D -> D] : \E rt, depth : IsForest(D, parent, rt, depth)}

LEMMA InnerFew ==
    ASSUME NEW n \in Nat, NEW parent
    PROVE  /\ IsFiniteSet(Inner(1..n, parent)) /\ Cardinality(Inner(1..n, parent)) \in Nat
           /\ Cardinality(Inner(1..n, parent)) <= n
<1>1. IsFiniteSet(1..n) /\ Cardinality(1..n) = n
    BY FirstNaturals
<1>2. Inner(1..n, parent) \subseteq 1..n
    BY DEF Inner
<1> QED
    BY <1>1, <1>2, FS_Subset, FS_CardinalityType

\* Root climbs to the root.
LEMMA RootIs ==
    ASSUME NEW n \in Nat, NEW parent, NEW rt, NEW depth, IsForest(1..n, parent, rt, depth),
           Len(parent) = n, NEW i \in 1..n
    PROVE  Root(parent, i) = rt[i]
<1> DEFINE D == 1..n
           IsUp(f) == f = [k \in 0..n |-> IF k = 0 THEN i ELSE parent[f[k - 1]]]
<1>1. parent \in [D -> D] /\ rt \in [D -> D] /\ depth \in [D -> Nat]
    BY DEF IsForest
<1>2. \E f : IsUp(f)
    <2> DEFINE step == [p \in D \X (1..n) |-> parent[p[1]]]
    <2>1. step \in [D \X (1..n) -> D]
        BY <1>1
    <2> HIDE DEF step, D
    <2>2. Loop(n, D, i, step)
        BY <2>1 DEF Loop, D
    <2>3. PICK f : f \in [0..n -> D] /\ f[0] = i /\ \A k \in 1..n : f[k] = step[<<f[k - 1], k>>]
        <3>1. \E f : IsRunOf(f, n, D, i, step)
            BY <2>2, Recursion
        <3> QED
            BY <3>1 DEF IsRunOf
    <2>4. ASSUME NEW k \in 1..n PROVE f[k] = parent[f[k - 1]]
        <3>1. k - 1 \in 0..n
            OBVIOUS
        <3>2. <<f[k - 1], k>> \in D \X (1..n)
            BY <2>3, <3>1
        <3> QED
            BY <2>3, <3>2 DEF step
    <2>5. IsUp(f)
        <3>1. \A k \in 0..n : k # 0 => k \in 1..n
            OBVIOUS
        <3> QED
            BY <2>3, <2>4, <3>1
    <2> QED
        BY <2>5
<1> DEFINE up == CHOOSE f : IsUp(f)
<1>3. Root(parent, i) = up[n]
    BY DEF Root
<1>4. IsUp(up)
    <2> HIDE DEF IsUp
    <2> QED
        BY <1>2
<1> HIDE DEF up
<1>5. up[0] = i /\ \A k \in 1..n : up[k] = parent[up[k - 1]]
    <2>1. \A k \in 0..n : up[k] = IF k = 0 THEN i ELSE parent[up[k - 1]]
        BY <1>4
    <2> QED
        BY <2>1
<1> HIDE DEF IsUp
<1> DEFINE Good(k) == /\ up[k] \in D /\ rt[up[k]] = rt[i]
                      /\ depth[up[k]] = 0 \/ depth[up[k]] + k <= depth[i]
           K == {k \in 0..n : Good(k)}
<1>6. 0 \in K
    <2>1. up[0] = i /\ i \in D /\ depth[i] \in Nat
        BY <1>1, <1>5
    <2>2. Good(0)
        BY <2>1
    <2> QED
        BY <2>2
<1>7. ASSUME NEW k \in 1..n, k - 1 \in K PROVE k \in K
    <2>1. Good(k - 1) /\ up[k] = parent[up[k - 1]]
        BY <1>5, <1>7
    <2> DEFINE x == up[k - 1]
    <2>2. /\ x \in D /\ parent[x] \in D /\ rt[parent[x]] = rt[x]
          /\ parent[x] = x => depth[x] = 0
          /\ parent[x] # x => depth[x] = depth[parent[x]] + 1
          /\ depth[x] \in Nat /\ depth[parent[x]] \in Nat /\ depth[i] \in Nat
        BY <1>1, <2>1 DEF IsForest
    <2> HIDE DEF x
    <2>3. depth[parent[x]] = 0 \/ depth[parent[x]] + k <= depth[i]
        <3>1. depth[x] = 0 \/ depth[x] + (k - 1) <= depth[i]
            BY <2>1 DEF x
        <3> QED
            BY <2>2, <3>1
    <2> QED
        BY <2>1, <2>2, <2>3 DEF x
<1>8. Good(n)
    <2> HIDE DEF K
    <2>1. \A k \in 0..n : k \in K
        BY <1>6, <1>7, Climb
    <2>2. n \in K
        BY <2>1
    <2> QED
        BY <2>2 DEF K
<1>9. depth[up[n]] = 0
    <2>1. depth[i] <= Cardinality(Inner(D, parent)) /\ depth[i] \in Nat /\ depth[up[n]] \in Nat
        BY <1>1, <1>8 DEF IsForest
    <2>2. Cardinality(Inner(D, parent)) \in Nat /\ Cardinality(Inner(D, parent)) <= n
        BY InnerFew
    <2> QED
        BY <1>8, <2>1, <2>2
<1>10. parent[up[n]] = up[n]
    <2>1. parent[up[n]] # up[n] => depth[up[n]] = depth[parent[up[n]]] + 1 /\ depth[parent[up[n]]] \in Nat
        BY <1>1, <1>8 DEF IsForest
    <2> QED
        BY <1>9, <2>1
<1>11. rt[up[n]] = up[n]
    BY <1>8, <1>10 DEF IsForest
<1> QED
    BY <1>3, <1>8, <1>11

LEMMA ForestLength ==
    ASSUME NEW n \in Nat, NEW parent \in [1..n -> 1..n]
    PROVE  Len(parent) = n
    OBVIOUS

\* A union joins the trees of i and j, and no others.
LEMMA UnionIs ==
    ASSUME NEW n \in Nat, NEW parent \in Forests(1..n), NEW i \in 1..n, NEW j \in 1..n
    PROVE  LET u == Union(parent, i, j)
           IN  /\ u \in Forests(1..n) /\ Root(u, i) = Root(u, j)
               /\ \A x, y \in 1..n : Root(parent, x) = Root(parent, y) => Root(u, x) = Root(u, y)
               /\ \A x, y \in 1..n : Root(u, x) = Root(u, y) =>
                    \/ Root(parent, x) = Root(parent, y)
                    \/ {Root(parent, x), Root(parent, y)} \subseteq {Root(parent, i), Root(parent, j)}
<1> DEFINE D == 1..n
           u == Union(parent, i, j)
<1>1. PICK rt, depth : IsForest(D, parent, rt, depth)
    BY DEF Forests
<1>2. parent \in [D -> D] /\ rt \in [D -> D] /\ depth \in [D -> Nat] /\ Len(parent) = n
    BY <1>1, ForestLength DEF IsForest
<1>3. \A x \in D : Root(parent, x) = rt[x]
    BY <1>1, <1>2, RootIs
<1> DEFINE ri == rt[i]
           rj == rt[j]
<1>4. u = [parent EXCEPT ![ri] = rj] /\ ri \in D /\ rj \in D
    BY <1>2, <1>3 DEF Union
<1>5. parent[ri] = ri /\ parent[rj] = rj /\ rt[ri] = ri /\ rt[rj] = rj /\ depth[ri] = 0 /\ depth[rj] = 0
    BY <1>1, <1>4 DEF IsForest
<1>6. CASE ri = rj
    <2>1. u = parent
        BY <1>2, <1>4, <1>5, <1>6
    <2> QED
        BY <1>3, <1>6, <2>1
<1>7. CASE ri # rj
    <2> DEFINE rt2 == [x \in D |-> IF rt[x] = ri THEN rj ELSE rt[x]]
               depth2 == [x \in D |-> IF rt[x] = ri THEN depth[x] + 1 ELSE depth[x]]
    <2>1. u \in [D -> D] /\ rt2 \in [D -> D] /\ depth2 \in [D -> Nat] /\ Len(u) = n
        <3>1. u \in [D -> D]
            BY <1>2, <1>4
        <3>2. Len(u) = n
            <4> HIDE DEF u
            <4> QED
                BY <3>1, ForestLength
        <3>3. rt2 \in [D -> D]
            BY <1>2, <1>4
        <3>4. ASSUME NEW x \in D PROVE depth[x] + 1 \in Nat /\ depth[x] \in Nat
            <4>1. depth[x] \in Nat
                BY <1>2
            <4> QED
                BY <4>1
        <3>5. depth2 \in [D -> Nat]
            <4> DEFINE Value(x) == IF rt[x] = ri THEN depth[x] + 1 ELSE depth[x]
            <4>1. \A x \in D : Value(x) \in Nat
                BY <3>4
            <4>2. depth2 = [x \in D |-> Value(x)]
                OBVIOUS
            <4> HIDE DEF Value, depth2, D
            <4> QED
                BY <4>1, <4>2, Zenon
        <3> HIDE DEF u, rt2, depth2
        <3> QED
            BY <3>1, <3>2, <3>3, <3>5
    <2>2. Cardinality(Inner(D, u)) = Cardinality(Inner(D, parent)) + 1
        <3>1. Inner(D, u) = Inner(D, parent) \cup {ri} /\ ri \notin Inner(D, parent)
            <4>1. \A x \in D : u[x] = IF x = ri THEN rj ELSE parent[x]
                BY <1>2, <1>4
            <4> HIDE DEF u, D, rt2, depth2
            <4> QED
                BY <1>4, <1>5, <1>7, <4>1 DEF Inner
        <3>2. IsFiniteSet(Inner(D, parent))
            BY InnerFew
        <3> QED
            BY <3>1, <3>2, FS_AddElement
    <2>3. Cardinality(Inner(D, parent)) \in Nat
        BY InnerFew
    <2>4. ASSUME NEW x \in D
          PROVE  /\ u[rt2[x]] = rt2[x] /\ rt2[u[x]] = rt2[x]
                 /\ u[x] = x => rt2[x] = x /\ depth2[x] = 0
                 /\ u[x] # x => depth2[x] = depth2[u[x]] + 1
                 /\ depth2[x] <= Cardinality(Inner(D, u))
        <3>1. /\ parent[rt[x]] = rt[x] /\ rt[parent[x]] = rt[x]
              /\ parent[x] = x => rt[x] = x /\ depth[x] = 0
              /\ parent[x] # x => depth[x] = depth[parent[x]] + 1
              /\ depth[x] <= Cardinality(Inner(D, parent))
              /\ depth[x] \in Nat /\ parent[x] \in D /\ rt[x] \in D /\ depth[parent[x]] \in Nat
            BY <1>1, <1>2 DEF IsForest
        <3>2. /\ rt2[x] = IF rt[x] = ri THEN rj ELSE rt[x]
              /\ depth2[x] = IF rt[x] = ri THEN depth[x] + 1 ELSE depth[x]
              /\ u[x] = IF x = ri THEN rj ELSE parent[x]
              /\ rt2[rj] = rj /\ depth2[rj] = 0
              /\ rt2[parent[x]] = rt2[x]
              /\ depth2[parent[x]] = IF rt[x] = ri THEN depth[parent[x]] + 1 ELSE depth[parent[x]]
            BY <1>2, <1>4, <1>5, <1>7, <3>1
        <3>3. \A y \in D : u[y] = IF y = ri THEN rj ELSE parent[y]
            BY <1>2, <1>4
        <3>4. u[rt2[x]] = rt2[x]
            BY <1>4, <1>5, <1>7, <3>1, <3>2, <3>3
        <3> HIDE DEF u, rt2, depth2
        <3>5. depth2[x] <= Cardinality(Inner(D, u))
            BY <2>2, <2>3, <3>1, <3>2
        <3>6. CASE x = ri
            BY <1>5, <1>7, <3>1, <3>2, <3>4, <3>5, <3>6
        <3>7. CASE x # ri
            BY <1>5, <1>7, <3>1, <3>2, <3>4, <3>5, <3>7
        <3> QED
            BY <3>6, <3>7
    <2>5. IsForest(D, u, rt2, depth2)
        BY <2>1, <2>4 DEF IsForest
    <2>6. u \in Forests(D)
        <3> HIDE DEF rt2, depth2
        <3> QED
            BY <2>1, <2>5 DEF Forests
    <2>7. \A x \in D : Root(u, x) = rt2[x]
        <3> HIDE DEF u, rt2, depth2
        <3> QED
            BY <2>1, <2>5, RootIs
    <2>8. \A x \in D : rt2[x] = IF rt[x] = ri THEN rj ELSE rt[x]
        OBVIOUS
    <2> HIDE DEF u, rt2, depth2
    <2>9. Root(u, i) = Root(u, j)
        BY <1>5, <2>7, <2>8
    <2>10. \A x, y \in D : Root(parent, x) = Root(parent, y) => Root(u, x) = Root(u, y)
        BY <1>3, <2>7, <2>8
    <2>11. \A x, y \in D : Root(u, x) = Root(u, y) =>
                    \/ Root(parent, x) = Root(parent, y)
                    \/ {Root(parent, x), Root(parent, y)} \subseteq {Root(parent, i), Root(parent, j)}
        BY <1>3, <2>7, <2>8
    <2> QED
        BY <2>6, <2>9, <2>10, <2>11 DEF u
<1> QED
    BY <1>6, <1>7

-----------------------------------------------------------------------------
(* Which findings are linked *)

Finds == DOMAIN anClassified
Same(i, j) == SameFinding(anClassified[i].slice, anClassified[j].slice)

LEMMA SameTurned ==
    ASSUME NEW i, NEW j, Same(i, j)
    PROVE  Same(j, i)
    BY DEF Same, SameFinding

\* Linked is an equivalence: the complement of a closed set is closed.
LEMMA LinkedIs ==
    ASSUME NEW i \in Finds
    PROVE  /\ i \in Linked(i) /\ Linked(i) \in SUBSET Finds /\ Closed(Linked(i))
           /\ \A set \in SUBSET Finds : i \in set /\ Closed(set) => Linked(i) \subseteq set
<1>1. i \in Linked(i) /\ Linked(i) \in SUBSET Finds
    BY DEF Linked, Finds
<1>2. \A set \in SUBSET Finds : i \in set /\ Closed(set) => Linked(i) \subseteq set
    BY DEF Linked, Finds
<1>3. ASSUME NEW h \in Linked(i), NEW j \in Finds, Same(h, j) PROVE j \in Linked(i)
    <2>1. ASSUME NEW set \in SUBSET Finds, i \in set, Closed(set) PROVE j \in set
        <3>1. h \in set
            BY <1>2, <2>1
        <3> QED
            BY <1>3, <2>1, <3>1 DEF Closed, Same, Finds
    <2> QED
        BY <2>1 DEF Linked, Finds
<1> QED
    BY <1>1, <1>2, <1>3 DEF Closed, Same, Finds

LEMMA LinkedTurned ==
    ASSUME NEW i \in Finds, NEW j \in Linked(i)
    PROVE  j \in Finds /\ Linked(j) = Linked(i)
<1>1. j \in Finds /\ Closed(Linked(i)) /\ Linked(i) \in SUBSET Finds
    BY LinkedIs
<1>2. Linked(j) \subseteq Linked(i)
    BY <1>1, LinkedIs
<1>3. i \in Linked(j)
    <2> SUFFICES ASSUME i \notin Linked(j) PROVE FALSE
        OBVIOUS
    <2> DEFINE rest == Finds \ Linked(j)
    <2>1. Closed(rest)
        <3> SUFFICES ASSUME NEW h \in rest, NEW k \in Finds, Same(h, k) PROVE k \in rest
            BY DEF Closed, Same, Finds
        <3>1. Same(k, h)
            BY SameTurned
        <3>2. Closed(Linked(j))
            BY <1>1, LinkedIs
        <3> QED
            BY <3>1, <3>2 DEF Closed, Same, Finds
    <2>2. Linked(i) \subseteq rest
        BY <2>1, LinkedIs
    <2>3. j \in Linked(j)
        BY <1>1, LinkedIs
    <2> QED
        BY <2>2, <2>3
<1>4. Linked(i) \subseteq Linked(j)
    BY <1>1, <1>3, LinkedIs
<1> QED
    BY <1>1, <1>2, <1>4

LEMMA SameLinked ==
    ASSUME NEW i \in Finds, NEW j \in Finds, Same(i, j)
    PROVE  Linked(i) = Linked(j)
<1>1. j \in Linked(i)
    BY LinkedIs DEF Closed, Same, Finds
<1> QED
    BY <1>1, LinkedTurned

\* The forests whose trees hold linked findings only.
SoundForests == {p \in Forests(Finds) : \A x, y \in Finds : Root(p, x) = Root(p, y) => Linked(x) = Linked(y)}
\* What is in one tree of p is in one tree of q.
Joins(p, q) == \A x, y \in Finds : Root(p, x) = Root(p, y) => Root(q, x) = Root(q, y)

LEMMA JoinsTwice ==
    ASSUME NEW p, NEW q, NEW r, Joins(p, q), Joins(q, r)
    PROVE  Joins(p, r)
    BY DEF Joins

LEMMA UnionSound ==
    ASSUME NEW n \in Nat, Finds = 1..n, NEW p \in SoundForests, NEW i \in Finds, NEW j \in Finds, Same(i, j)
    PROVE  /\ Union(p, i, j) \in SoundForests /\ Joins(p, Union(p, i, j))
           /\ Root(Union(p, i, j), i) = Root(Union(p, i, j), j)
<1>1. p \in Forests(1..n) /\ \A x, y \in Finds : Root(p, x) = Root(p, y) => Linked(x) = Linked(y)
    BY DEF SoundForests
<1> DEFINE u == Union(p, i, j)
<1>2. /\ u \in Forests(1..n) /\ Root(u, i) = Root(u, j)
      /\ \A x, y \in Finds : Root(p, x) = Root(p, y) => Root(u, x) = Root(u, y)
      /\ \A x, y \in Finds : Root(u, x) = Root(u, y) =>
                    \/ Root(p, x) = Root(p, y)
                    \/ {Root(p, x), Root(p, y)} \subseteq {Root(p, i), Root(p, j)}
    BY <1>1, UnionIs
<1> HIDE DEF u
<1>3. Linked(i) = Linked(j)
    BY SameLinked
<1>4. ASSUME NEW x \in Finds, NEW y \in Finds, Root(u, x) = Root(u, y) PROVE Linked(x) = Linked(y)
    <2>1. CASE Root(p, x) = Root(p, y)
        BY <1>1, <2>1
    <2>2. CASE {Root(p, x), Root(p, y)} \subseteq {Root(p, i), Root(p, j)}
        <3>1. Linked(x) = Linked(i)
            BY <1>1, <1>3, <2>2
        <3>2. Linked(y) = Linked(i)
            BY <1>1, <1>3, <2>2
        <3> QED
            BY <3>1, <3>2
    <2> QED
        BY <1>2, <1>4, <2>1, <2>2
<1>5. u \in SoundForests
    BY <1>2, <1>4 DEF SoundForests
<1> QED
    BY <1>2, <1>5 DEF Joins, u

\* One turn of the inner loop.
Step(p, i, j) == IF i < j /\ Same(i, j) THEN Union(p, i, j) ELSE p

LEMMA StepSound ==
    ASSUME NEW n \in Nat, Finds = 1..n, NEW p \in SoundForests, NEW i \in Finds, NEW j \in Finds
    PROVE  /\ Step(p, i, j) \in SoundForests /\ Joins(p, Step(p, i, j))
           /\ i < j /\ Same(i, j) => Root(Step(p, i, j), i) = Root(Step(p, i, j), j)
<1>1. CASE i < j /\ Same(i, j)
    BY <1>1, UnionSound DEF Step
<1>2. CASE ~(i < j /\ Same(i, j))
    BY <1>2 DEF Step, Joins
<1> QED
    BY <1>1, <1>2

LEMMA RowSound ==
    ASSUME NEW n \in Nat, Finds = 1..n, Len(anClassified) = n, NEW p \in SoundForests, NEW i \in Finds
    PROVE  /\ Row(anClassified, p, i) \in SoundForests /\ Joins(p, Row(anClassified, p, i))
           /\ \A j \in Finds : i < j /\ Same(i, j) => Root(Row(anClassified, p, i), i) = Root(Row(anClassified, p, i), j)
<1> DEFINE IsRun(r) == r = [j \in 0..n |-> IF j = 0 THEN p ELSE
                              IF i < j /\ SameFinding(anClassified[i].slice, anClassified[j].slice) THEN Union(r[j - 1], i, j) ELSE r[j - 1]]
<1>1. \E r : IsRun(r)
    <2> DEFINE step == [q \in SoundForests \X (1..n) |-> Step(q[1], i, q[2])]
    <2>1. step \in [SoundForests \X (1..n) -> SoundForests]
        <3>1. \A v \in SoundForests, k \in 1..n : Step(v, i, k) \in SoundForests
            BY StepSound
        <3>2. \A q \in SoundForests \X (1..n) : q[1] \in SoundForests /\ q[2] \in 1..n
            OBVIOUS
        <3>3. \A q \in SoundForests \X (1..n) : Step(q[1], i, q[2]) \in SoundForests
            BY <3>1, <3>2
        <3> QED
            BY <3>3
    <2> HIDE DEF step
    <2>2. Loop(n, SoundForests, p, step)
        BY <2>1 DEF Loop
    <2>3. PICK r : IsRunOf(r, n, SoundForests, p, step)
        BY <2>2, Recursion
    <2>4. r \in [0..n -> SoundForests] /\ r[0] = p /\ \A k \in 1..n : r[k] = step[<<r[k - 1], k>>]
        BY <2>3 DEF IsRunOf
    <2>5. ASSUME NEW k \in 1..n PROVE r[k] = Step(r[k - 1], i, k)
        <3>1. k - 1 \in 0..n
            OBVIOUS
        <3>2. <<r[k - 1], k>> \in SoundForests \X (1..n)
            BY <2>4, <3>1
        <3> QED
            BY <2>4, <3>2 DEF step
    <2>6. \A k \in 0..n : k # 0 => k \in 1..n
        OBVIOUS
    <2>7. \A k \in 0..n : r[k] = IF k = 0 THEN p ELSE Step(r[k - 1], i, k)
        BY <2>4, <2>5, <2>6
    <2>8. IsRun(r)
        BY <2>4, <2>7 DEF Step, Same
    <2> QED
        BY <2>8
<1> DEFINE row == CHOOSE r : IsRun(r)
<1>2. Row(anClassified, p, i) = row[n]
    BY DEF Row
<1>3. IsRun(row)
    <2> HIDE DEF IsRun
    <2> QED
        BY <1>1
<1> HIDE DEF row
<1>4. row[0] = p /\ \A j \in 1..n : row[j] = Step(row[j - 1], i, j)
    <2>1. \A j \in 0..n : row[j] = IF j = 0 THEN p ELSE Step(row[j - 1], i, j)
        BY <1>3 DEF Step, Same
    <2> QED
        BY <2>1
<1> HIDE DEF IsRun
<1> DEFINE Good(k) == /\ row[k] \in SoundForests /\ Joins(p, row[k])
                      /\ \A j \in 1..k : i < j /\ Same(i, j) => Root(row[k], i) = Root(row[k], j)
           K == {k \in 0..n : Good(k)}
<1>5. 0 \in K
    BY <1>4 DEF Joins
<1>6. ASSUME NEW k \in 1..n, k - 1 \in K PROVE k \in K
    <2>1. Good(k - 1) /\ row[k] = Step(row[k - 1], i, k)
        BY <1>4, <1>6
    <2> DEFINE v == row[k - 1]
               w == row[k]
    <2>2. /\ w \in SoundForests /\ Joins(v, w)
          /\ i < k /\ Same(i, k) => Root(w, i) = Root(w, k)
        BY <2>1, StepSound
    <2>3. Joins(p, w)
        BY <2>1, <2>2, JoinsTwice
    <2>4. ASSUME NEW j \in 1..k, i < j, Same(i, j) PROVE Root(w, i) = Root(w, j)
        <3>1. CASE j = k
            BY <2>2, <2>4, <3>1
        <3>2. CASE j # k
            <4>1. j \in 1..(k - 1) /\ j \in Finds
                BY <3>2
            <4>2. Root(v, i) = Root(v, j)
                BY <2>1, <2>4, <4>1
            <4> QED
                BY <2>2, <4>1, <4>2 DEF Joins
        <3> QED
            BY <3>1, <3>2
    <2> QED
        BY <2>2, <2>3, <2>4
<1>7. Good(n)
    <2> HIDE DEF K
    <2>1. \A k \in 0..n : k \in K
        BY <1>5, <1>6, Climb
    <2>2. n \in K
        BY <2>1
    <2> QED
        BY <2>2 DEF K
<1> QED
    BY <1>2, <1>7

\* The forest of singletons the loops start from.
LEMMA SingletonsSound ==
    ASSUME NEW n \in Nat, Finds = 1..n
    PROVE  [j \in Finds |-> j] \in SoundForests
<1> DEFINE p == [j \in Finds |-> j]
           zero == [j \in Finds |-> 0]
<1>1. Cardinality(Inner(1..n, p)) \in Nat
    BY InnerFew
<1>2. p \in [Finds -> Finds] /\ zero \in [Finds -> Nat] /\ \A x \in Finds : p[x] = x /\ zero[x] = 0
    OBVIOUS
<1> HIDE DEF p, zero
<1>3. IsForest(1..n, p, p, zero)
    BY <1>1, <1>2 DEF IsForest
<1>4. p \in Forests(1..n)
    BY <1>2, <1>3 DEF Forests
<1>5. Len(p) = n
    BY <1>2, ForestLength
<1>6. \A x \in Finds : Root(p, x) = x
    BY <1>2, <1>3, <1>5, RootIs
<1> QED
    BY <1>4, <1>6 DEF SoundForests, p

\* The forest at the end: its trees are the sets of linked findings.
LEMMA ParentsIs ==
    ASSUME NEW n \in Nat, Finds = 1..n, Len(anClassified) = n
    PROVE  /\ Parents(anClassified) \in SoundForests
           /\ \A i, j \in Finds : Same(i, j) => Root(Parents(anClassified), i) = Root(Parents(anClassified), j)
<1> DEFINE base == [j \in Finds |-> j]
           Turn(v, i) == Row(anClassified, v, i)
           IsRun(r) == r = [i \in 0..n |-> IF i = 0 THEN base ELSE Turn(r[i - 1], i)]
<1>0. base \in SoundForests
    BY SingletonsSound
<1>1. ASSUME NEW v \in SoundForests, NEW i \in Finds
      PROVE  /\ Turn(v, i) \in SoundForests /\ Joins(v, Turn(v, i))
             /\ \A j \in Finds : i < j /\ Same(i, j) => Root(Turn(v, i), i) = Root(Turn(v, i), j)
    BY RowSound
<1>2. Parents(anClassified) = LET rows == CHOOSE r : IsRun(r) IN rows[n]
    BY DEF Parents, Finds
<1> HIDE DEF Turn, base
<1>3. \E r : IsRun(r)
    <2> DEFINE step == [q \in SoundForests \X (1..n) |-> Turn(q[1], q[2])]
    <2>1. step \in [SoundForests \X (1..n) -> SoundForests]
        <3>1. \A v \in SoundForests, k \in 1..n : Turn(v, k) \in SoundForests
            BY <1>1
        <3>2. \A q \in SoundForests \X (1..n) : q[1] \in SoundForests /\ q[2] \in 1..n
            OBVIOUS
        <3>3. \A q \in SoundForests \X (1..n) : Turn(q[1], q[2]) \in SoundForests
            BY <3>1, <3>2
        <3> QED
            BY <3>3
    <2> HIDE DEF step
    <2>2. Loop(n, SoundForests, base, step)
        BY <1>0, <2>1 DEF Loop
    <2>3. PICK r : IsRunOf(r, n, SoundForests, base, step)
        BY <2>2, Recursion
    <2>4. r \in [0..n -> SoundForests] /\ r[0] = base /\ \A k \in 1..n : r[k] = step[<<r[k - 1], k>>]
        BY <2>3 DEF IsRunOf
    <2>5. ASSUME NEW k \in 1..n PROVE r[k] = Turn(r[k - 1], k)
        <3>1. k - 1 \in 0..n
            OBVIOUS
        <3>2. <<r[k - 1], k>> \in SoundForests \X (1..n)
            BY <2>4, <3>1
        <3> QED
            BY <2>4, <3>2 DEF step
    <2>6. \A k \in 0..n : k # 0 => k \in 1..n
        OBVIOUS
    <2>7. \A k \in 0..n : r[k] = IF k = 0 THEN base ELSE Turn(r[k - 1], k)
        BY <2>4, <2>5, <2>6
    <2>8. IsRun(r)
        BY <2>4, <2>7
    <2> QED
        BY <2>8
<1> DEFINE rows == CHOOSE r : IsRun(r)
<1>4. IsRun(rows)
    <2> HIDE DEF IsRun
    <2> QED
        BY <1>3
<1>5. Parents(anClassified) = rows[n]
    BY <1>2
<1> HIDE DEF rows
<1>6. rows[0] = base /\ \A i \in 1..n : rows[i] = Turn(rows[i - 1], i)
    <2>1. \A i \in 0..n : rows[i] = IF i = 0 THEN base ELSE Turn(rows[i - 1], i)
        BY <1>4
    <2> QED
        BY <2>1
<1> HIDE DEF IsRun
<1> DEFINE Good(k) == /\ rows[k] \in SoundForests
                      /\ \A i \in 1..k : \A j \in Finds : i < j /\ Same(i, j) => Root(rows[k], i) = Root(rows[k], j)
           K == {k \in 0..n : Good(k)}
<1>7. 0 \in K
    BY <1>0, <1>6
<1>8. ASSUME NEW k \in 1..n, k - 1 \in K PROVE k \in K
    <2>1. Good(k - 1) /\ rows[k] = Turn(rows[k - 1], k)
        BY <1>6, <1>8
    <2> DEFINE v == rows[k - 1]
               w == rows[k]
    <2>2. /\ w \in SoundForests /\ Joins(v, w)
          /\ \A j \in Finds : k < j /\ Same(k, j) => Root(w, k) = Root(w, j)
        BY <1>1, <2>1
    <2>3. ASSUME NEW i \in 1..k, NEW j \in Finds, i < j, Same(i, j) PROVE Root(w, i) = Root(w, j)
        <3>1. CASE i = k
            BY <2>2, <2>3, <3>1
        <3>2. CASE i # k
            <4>1. i \in 1..(k - 1) /\ i \in Finds
                BY <3>2
            <4>2. Root(v, i) = Root(v, j)
                BY <2>1, <2>3, <4>1
            <4> QED
                BY <2>2, <4>1, <4>2 DEF Joins
        <3> QED
            BY <3>1, <3>2
    <2> QED
        BY <2>2, <2>3
<1>9. Good(n)
    <2> HIDE DEF K
    <2>1. \A k \in 0..n : k \in K
        BY <1>7, <1>8, Climb
    <2>2. n \in K
        BY <2>1
    <2> QED
        BY <2>2 DEF K
<1> DEFINE p == rows[n]
<1>10. ASSUME NEW i \in Finds, NEW j \in Finds, Same(i, j) PROVE Root(p, i) = Root(p, j)
    <2>1. CASE i < j
        BY <1>9, <1>10, <2>1
    <2>2. CASE j < i
        <3>1. Same(j, i)
            BY <1>10, SameTurned
        <3> QED
            BY <1>9, <2>2, <3>1
    <2> QED
        BY <2>1, <2>2
<1> QED
    BY <1>5, <1>9, <1>10

\* The clusters are the sets of linked findings.
LEMMA ClustersIs ==
    ASSUME NEW n \in Nat, Finds = 1..n, Len(anClassified) = n
    PROVE  Clusters(anClassified) = {Linked(i) : i \in Finds}
<1> DEFINE p == Parents(anClassified)
<1>1. /\ \A x, y \in Finds : Root(p, x) = Root(p, y) => Linked(x) = Linked(y)
      /\ \A i, j \in Finds : Same(i, j) => Root(p, i) = Root(p, j)
    BY ParentsIs DEF SoundForests
<1> DEFINE Under(r) == {i \in Finds : Root(p, i) = r}
           Tree(x) == Under(Root(p, x))
<1>2. Clusters(anClassified) = {Tree(x) : x \in Finds}
    <2>1. Clusters(anClassified) = {Under(r) : r \in {Root(p, i) : i \in Finds}}
        BY DEF Clusters, Finds
    <2> HIDE DEF p, Under
    <2> QED
        BY <2>1
<1> HIDE DEF p
<1>3. ASSUME NEW x \in Finds PROVE Tree(x) = Linked(x)
    <2>1. Tree(x) \in SUBSET Finds /\ x \in Tree(x)
        OBVIOUS
    <2>2. Closed(Tree(x))
        <3> SUFFICES ASSUME NEW h \in Tree(x), NEW j \in Finds, Same(h, j) PROVE j \in Tree(x)
            BY DEF Closed, Same, Finds
        <3> QED
            BY <1>1
    <2>3. Linked(x) \subseteq Tree(x)
        BY <2>1, <2>2, LinkedIs
    <2>4. Tree(x) \subseteq Linked(x)
        <3> SUFFICES ASSUME NEW y \in Finds, Root(p, y) = Root(p, x) PROVE y \in Linked(x)
            OBVIOUS
        <3>1. Linked(y) = Linked(x)
            BY <1>1
        <3> QED
            BY <3>1, LinkedIs
    <2> QED
        BY <2>3, <2>4
<1> HIDE DEF Tree
<1> QED
    BY <1>2, <1>3

-----------------------------------------------------------------------------
(* The strongest finding of a cluster, and the list of the reports *)

\* A finite set is listed whole, each member once.
LEMMA SetToSeqIs ==
    ASSUME NEW S, IsFiniteSet(S)
    PROVE  /\ SetToSeq(S) \in [1..Cardinality(S) -> S]
           /\ \A x \in S : \E r \in DOMAIN SetToSeq(S) : SetToSeq(S)[r] = x
           /\ \A r, q \in DOMAIN SetToSeq(S) : SetToSeq(S)[r] = SetToSeq(S)[q] => r = q
<1> DEFINE D == 1..Cardinality(S)
           f == SetToSeq(S)
<1>1. Cardinality(S) \in Nat /\ ExistsBijection(D, S)
    BY FS_CardinalityType
<1>2. \E g \in [D -> S] : IsInjective(g)
    <2>1. PICK g \in Bijection(D, S) : TRUE
        BY <1>1 DEF ExistsBijection
    <2>2. g \in [D -> S] /\ IsInjective(g)
        BY <2>1 DEF Bijection, Injection
    <2> QED
        BY <2>2
<1>3. f \in [D -> S] /\ IsInjective(f)
    <2>1. f = CHOOSE g \in [D -> S] : IsInjective(g)
        BY DEF SetToSeq
    <2> HIDE DEF f
    <2> QED
        BY <1>2, <2>1
<1>4. f \in Injection(D, S)
    BY <1>3 DEF Injection
<1>5. Cardinality(D) = Cardinality(S)
    BY <1>1, FirstNaturals
<1>6. f \in Surjection(D, S)
    BY <1>4, <1>5, FS_Injection
<1>7. DOMAIN f = D /\ \A a, b \in D : f[a] = f[b] => a = b
    BY <1>3 DEF IsInjective
<1>8. \A x \in S : \E r \in D : f[r] = x
    BY <1>6 DEF Surjection
<1> HIDE DEF f
<1>9. /\ f \in [1..Cardinality(S) -> S]
      /\ \A x \in S : \E r \in DOMAIN f : f[r] = x
      /\ \A r, q \in DOMAIN f : f[r] = f[q] => r = q
    BY <1>3, <1>7, <1>8
<1> QED
    BY <1>9 DEF f

\* A finding as the classifier grades it here: no two differ in the middle two
\* of the four numbers.
Graded(v) == v.strength \in Nat /\ v.slice.len \in Nat /\ v.confidence = 1 /\ v.severity = 1

LEMMA StrongerIs ==
    ASSUME NEW v, NEW w, Graded(v), Graded(w)
    PROVE  Stronger(v, w) <=> v.strength > w.strength \/ (v.strength = w.strength /\ v.slice.len < w.slice.len)
<1> DEFINE a == <<v.strength, v.confidence, v.severity, -v.slice.len>>
           b == <<w.strength, w.confidence, w.severity, -w.slice.len>>
<1>1. Stronger(v, w) <=> \E i \in 1..4 : a[i] > b[i] /\ \A j \in 1..i - 1 : a[j] = b[j]
    BY DEF Stronger
<1>2. a[1] = v.strength /\ a[2] = 1 /\ a[3] = 1 /\ a[4] = -v.slice.len
    BY DEF Graded
<1>3. b[1] = w.strength /\ b[2] = 1 /\ b[3] = 1 /\ b[4] = -w.slice.len
    BY DEF Graded
<1> HIDE DEF a, b
<1>4. \A i \in 1..4 : i = 1 \/ i = 2 \/ i = 3 \/ i = 4
    OBVIOUS
<1>5. (\E i \in 1..4 : a[i] > b[i] /\ \A j \in 1..i - 1 : a[j] = b[j])
      <=> a[1] > b[1] \/ (a[1] = b[1] /\ -v.slice.len > -w.slice.len)
    <2>1. ASSUME NEW i \in 1..4, a[i] > b[i], \A j \in 1..i - 1 : a[j] = b[j]
          PROVE  a[1] > b[1] \/ (a[1] = b[1] /\ -v.slice.len > -w.slice.len)
        <3>1. i # 2 /\ i # 3
            BY <1>2, <1>3, <2>1
        <3>2. i = 4 => a[1] = b[1]
            BY <2>1
        <3> QED
            BY <1>2, <1>3, <1>4, <2>1, <3>1, <3>2
    <2>2. ASSUME a[1] > b[1] PROVE \E i \in 1..4 : a[i] > b[i] /\ \A j \in 1..i - 1 : a[j] = b[j]
        <3>1. 1 \in 1..4 /\ \A j \in 1..1 - 1 : a[j] = b[j]
            OBVIOUS
        <3> QED
            BY <2>2, <3>1
    <2>3. ASSUME a[1] = b[1], -v.slice.len > -w.slice.len
          PROVE \E i \in 1..4 : a[i] > b[i] /\ \A j \in 1..i - 1 : a[j] = b[j]
        <3>1. 4 \in 1..4 /\ \A j \in 1..4 - 1 : j = 1 \/ j = 2 \/ j = 3
            OBVIOUS
        <3>2. a[4] > b[4]
            BY <1>2, <1>3, <2>3
        <3>3. \A j \in 1..4 - 1 : a[j] = b[j]
            BY <1>2, <1>3, <2>3, <3>1
        <3> QED
            BY <3>1, <3>2, <3>3
    <2> QED
        BY <2>1, <2>2, <2>3
<1> QED
    BY <1>1, <1>2, <1>3, <1>5 DEF Graded

LEMMA StrongerOrders ==
    ASSUME NEW u, NEW v, NEW w, Graded(u), Graded(v), Graded(w)
    PROVE  /\ ~Stronger(u, u)
           /\ Stronger(u, v) => ~Stronger(v, u)
           /\ Stronger(u, v) /\ ~Stronger(w, v) => Stronger(u, w)
<1>1. /\ Stronger(u, u) <=> u.strength > u.strength \/ (u.strength = u.strength /\ u.slice.len < u.slice.len)
      /\ Stronger(u, v) <=> u.strength > v.strength \/ (u.strength = v.strength /\ u.slice.len < v.slice.len)
      /\ Stronger(v, u) <=> v.strength > u.strength \/ (v.strength = u.strength /\ v.slice.len < u.slice.len)
      /\ Stronger(w, v) <=> w.strength > v.strength \/ (w.strength = v.strength /\ w.slice.len < v.slice.len)
      /\ Stronger(u, w) <=> u.strength > w.strength \/ (u.strength = w.strength /\ u.slice.len < w.slice.len)
    BY StrongerIs
<1> QED
    BY <1>1 DEF Graded

\* Every cluster has a primary, and none of its findings is stronger.
LEMMA PrimaryIs ==
    ASSUME NEW n \in Nat, Finds = 1..n, \A i \in Finds : Graded(anClassified[i]),
           NEW cluster \in SUBSET Finds, cluster # {}
    PROVE  /\ Primary(cluster, anClassified) \in cluster
           /\ \A j \in cluster : ~Stronger(anClassified[j], anClassified[Primary(cluster, anClassified)])
<1> DEFINE Over(i, j) == Stronger(anClassified[i], anClassified[j])
           Best(set, i) == \A j \in set : ~Over(j, i) /\ (j < i => Over(i, j))
           First(k) == {i \in cluster : i <= k}
           Good(k) == First(k) = {} \/ \E i \in First(k) : Best(First(k), i)
           K == {k \in 0..n : Good(k)}
<1>1. \A i, j, k \in Finds : ~Over(i, i) /\ (Over(i, j) => ~Over(j, i)) /\ (Over(i, j) /\ ~Over(k, j) => Over(i, k))
    BY StrongerOrders
<1> HIDE DEF Over
<1>2. 0 \in K
    <2>1. \A i \in cluster : ~(i <= 0)
        OBVIOUS
    <2>2. First(0) = {}
        BY <2>1
    <2> QED
        BY <2>2
<1>3. ASSUME NEW k \in 1..n, k - 1 \in K PROVE k \in K
    <2>1. Good(k - 1)
        BY <1>3
    <2>2. CASE k \notin cluster
        <3>1. \A i \in cluster : i <= k <=> i <= k - 1
            BY <2>2
        <3>2. First(k) = First(k - 1)
            BY <3>1
        <3> HIDE DEF First
        <3>3. Good(k)
            BY <2>1, <3>2
        <3> QED
            BY <3>3
    <2>3. CASE k \in cluster
        <3>1. First(k) = First(k - 1) \cup {k} /\ (\A i \in First(k - 1) : i < k /\ i \in Finds) /\ k \in Finds
            <4>1. \A i \in cluster : (i <= k <=> i <= k - 1 \/ i = k) /\ (i <= k - 1 => i < k)
                BY <2>3
            <4> QED
                BY <2>3, <4>1
        <3> HIDE DEF First
        <3>2. CASE First(k - 1) = {}
            <4>1. Best(First(k), k)
                BY <1>1, <3>1, <3>2
            <4>2. k \in First(k)
                BY <3>1
            <4> HIDE DEF Best
            <4>3. Good(k)
                BY <4>1, <4>2
            <4> QED
                BY <4>3
        <3>3. CASE First(k - 1) # {}
            <4>1. PICK m \in First(k - 1) : Best(First(k - 1), m)
                BY <2>1, <3>3
            <4>2. m < k /\ m \in Finds
                BY <3>1
            <4>3. CASE Over(k, m)
                <5>1. \A j \in First(k - 1) : Over(k, j) /\ ~Over(j, k)
                    BY <1>1, <3>1, <4>1, <4>2, <4>3
                <5>2. Best(First(k), k) /\ k \in First(k)
                    BY <1>1, <3>1, <5>1
                <5> HIDE DEF Best
                <5>3. Good(k)
                    BY <5>2
                <5> QED
                    BY <5>3
            <4>4. CASE ~Over(k, m)
                <5>1. Best(First(k), m) /\ m \in First(k)
                    BY <3>1, <4>1, <4>2, <4>4
                <5> HIDE DEF Best
                <5>2. Good(k)
                    BY <5>1
                <5> QED
                    BY <5>2
            <4> QED
                BY <4>3, <4>4
        <3> QED
            BY <3>2, <3>3
    <2> QED
        BY <2>2, <2>3
<1>4. Good(n)
    <2> HIDE DEF K
    <2>1. \A k \in 0..n : k \in K
        BY <1>2, <1>3, Climb
    <2>2. n \in K
        BY <2>1
    <2> QED
        BY <2>2 DEF K
<1>5. First(n) = cluster
    <2>1. \A i \in cluster : i <= n
        OBVIOUS
    <2> QED
        BY <2>1
<1>6. \E i \in cluster : Best(cluster, i)
    BY <1>4, <1>5
<1>7. Primary(cluster, anClassified) = CHOOSE i \in cluster : Best(cluster, i)
    BY DEF Primary, Over
<1> QED
    BY <1>6, <1>7 DEF Over

-----------------------------------------------------------------------------
(* What the reports keep *)

\* NoFindingLost of a list of reports.
Told(i, reports) == {r \in DOMAIN reports : reports[r].primary \in Linked(i)}
Tells(i, report, rule) ==
    /\ rule \in DOMAIN Rules => Rules[rule].controls \subseteq report.controls
    /\ rule \in DOMAIN Rules \ NamedIn(report) =>
         /\ report.rule \notin DOMAIN Rules
         /\ report.polarity = Rules[rule].polarity
         /\ \A j \in Linked(i) : anClassified[j].slice.rule \in DOMAIN Rules \ NamedIn(report)
              => anClassified[j].slice.rule = rule
    /\ report.triage <=> \A j \in Linked(i) : anClassified[j].slice.rule \notin DOMAIN Rules
Keeps(i, reports, r) ==
    /\ ~Stronger(anClassified[i], anClassified[reports[r].primary])
    /\ Tells(i, reports[r], anClassified[i].slice.rule)
AllTold(reports) ==
    \A i \in Finds : Cardinality(Told(i, reports)) = 1 /\ \A r \in Told(i, reports) : Keeps(i, reports, r)

\* The rules of a cluster that are in the catalog.
RulesOf(x) == {anClassified[j].slice.rule : j \in Linked(x)} \cap DOMAIN Rules

\* A report on the findings linked to x, of which first gives the polarity: its
\* primary is one of them, so that it is about one cluster.
About(report, x, first) ==
    /\ report.primary \in Linked(x)
    /\ \A j \in Linked(x) : ~Stronger(anClassified[j], anClassified[report.primary])
    /\ report.rule = anClassified[report.primary].slice.rule
    /\ report.contributing = {r \in RulesOf(x) : r # first}
    /\ report.rule \in RulesOf(x) => first = report.rule
    /\ report.controls = UNION {Rules[r].controls : r \in RulesOf(x)}
    /\ RulesOf(x) # {} => report.polarity = Rules[first].polarity
    /\ report.triage <=> RulesOf(x) = {}

LEMMA ReportIs ==
    ASSUME NEW n \in Nat, Finds = 1..n, \A i \in Finds : Graded(anClassified[i]), NEW x \in Finds
    PROVE  \E first : About(Report(Linked(x), anClassified), x, first)
<1> DEFINE report  == Report(Linked(x), anClassified)
           primary == Primary(Linked(x), anClassified)
           own     == anClassified[primary].slice.rule
           rules   == Cataloged({anClassified[j].slice.rule : j \in Linked(x)})
           first   == IF own \in rules THEN own
                      ELSE CHOOSE r \in rules : \E i \in DOMAIN SortedRules :
                             SortedRules[i] = r /\ \A j \in 1..i - 1 : SortedRules[j] \notin rules
<1>1. Linked(x) \in SUBSET Finds /\ Linked(x) # {}
    BY LinkedIs
<1>2. /\ primary \in Linked(x)
      /\ \A j \in Linked(x) : ~Stronger(anClassified[j], anClassified[primary])
    BY <1>1, PrimaryIs
<1>3. rules = RulesOf(x)
    BY DEF Cataloged, RulesOf
<1>4. report = [primary |-> primary, rule |-> own, contributing |-> {r \in rules : r # first},
                controls |-> UNION {Rules[r].controls : r \in rules},
                polarity |-> IF rules = {} THEN "vulnerable" ELSE Rules[first].polarity,
                triage |-> rules = {}]
    BY DEF Report
<1>5. own \in rules => first = own
    OBVIOUS
<1> HIDE DEF report, primary, rules, first
<1>6. About(report, x, first)
    BY <1>2, <1>3, <1>4, <1>5 DEF About
<1> QED
    BY <1>6 DEF report

\* What such a report tells of each finding of its cluster.
LEMMA AboutTells ==
    ASSUME NEW i, i \in Linked(i), NEW report, NEW first, About(report, i, first), NEW rule, rule = anClassified[i].slice.rule
    PROVE  Tells(i, report, rule)
<1>1. \A j \in Linked(i) : anClassified[j].slice.rule \in DOMAIN Rules => anClassified[j].slice.rule \in RulesOf(i)
    BY DEF RulesOf
<1>2. \A j \in Linked(i) : anClassified[j].slice.rule \in DOMAIN Rules \ NamedIn(report) => anClassified[j].slice.rule = first
    BY <1>1 DEF About, NamedIn
<1>3. report.rule \in DOMAIN Rules => first = report.rule
    BY <1>1 DEF About
<1>4. first = report.rule => first \in NamedIn(report)
    BY DEF NamedIn
<1>5. rule \in DOMAIN Rules => Rules[rule].controls \subseteq report.controls
    BY <1>1 DEF About
<1>6. report.triage <=> \A j \in Linked(i) : anClassified[j].slice.rule \notin DOMAIN Rules
    BY <1>1 DEF About, RulesOf
<1>7. ASSUME rule \in DOMAIN Rules \ NamedIn(report)
      PROVE  /\ report.rule \notin DOMAIN Rules
             /\ report.polarity = Rules[rule].polarity
             /\ \A j \in Linked(i) : anClassified[j].slice.rule \in DOMAIN Rules \ NamedIn(report)
                  => anClassified[j].slice.rule = rule
    <2>1. rule = first /\ RulesOf(i) # {}
        BY <1>1, <1>2, <1>7
    <2> QED
        BY <1>2, <1>3, <1>4, <1>7, <2>1 DEF About
<1> QED
    BY <1>5, <1>6, <1>7 DEF Tells

LEMMA ReportsTell ==
    ASSUME NEW n \in Nat, Finds = 1..n, Len(anClassified) = n, \A i \in Finds : Graded(anClassified[i]),
           NEW reports, reports = SetToSeq({Report(c, anClassified) : c \in Clusters(anClassified)})
    PROVE  AllTold(reports)
<1> DEFINE R(x) == Report(Linked(x), anClassified)
           S == {R(x) : x \in Finds}
<1>1. {Report(c, anClassified) : c \in Clusters(anClassified)} = S
    BY ClustersIs
<1>2. IsFiniteSet(S)
    <2> DEFINE f == [x \in 1..n |-> R(x)]
    <2> HIDE DEF R
    <2>1. f \in Surjection(1..n, S)
        BY DEF Surjection
    <2>2. IsFiniteSet(1..n)
        BY FirstNaturals
    <2> QED
        BY <2>1, <2>2, FS_Surjection
<1> HIDE DEF R
<1>3. /\ reports \in [1..Cardinality(S) -> S]
      /\ \A y \in S : \E r \in DOMAIN reports : reports[r] = y
      /\ \A r, q \in DOMAIN reports : reports[r] = reports[q] => r = q
    <2> HIDE DEF S
    <2>1. reports = SetToSeq(S)
        BY <1>1
    <2> QED
        BY ONLY <1>2, <2>1, SetToSeqIs
<1>4. \A q \in DOMAIN reports : \E x \in Finds : reports[q] = R(x)
    <2>1. \A q \in DOMAIN reports : reports[q] \in S
        <3> HIDE DEF S
        <3> QED
            BY <1>3
    <2> QED
        BY <2>1
<1>5. \A x \in Finds : \E r \in DOMAIN reports : reports[r] = R(x)
    BY <1>3
<1>6. \A r, q \in DOMAIN reports : reports[r] = reports[q] => r = q
    BY <1>3
<1> HIDE DEF S
<1>7. ASSUME NEW x \in Finds
      PROVE  \E first : About(R(x), x, first)
    BY ReportIs DEF R
<1>8. ASSUME NEW i \in Finds PROVE Cardinality(Told(i, reports)) = 1 /\ \A r \in Told(i, reports) : Keeps(i, reports, r)
    <2>1. i \in Linked(i) /\ Linked(i) \in SUBSET Finds
        BY LinkedIs
    <2>2. PICK r \in DOMAIN reports : reports[r] = R(i)
        BY <1>5
    <2>3. ASSUME NEW q \in DOMAIN reports, reports[q].primary \in Linked(i) PROVE q = r
        <3>1. PICK x \in Finds : reports[q] = R(x)
            BY <1>4
        <3>2. R(x).primary \in Linked(x) /\ R(x).primary \in Linked(i)
            BY <1>7, <2>3, <3>1 DEF About
        <3>3. Linked(x) = Linked(i)
            BY <3>2, LinkedTurned
        <3>4. R(x) = R(i)
            BY <3>3 DEF R
        <3> QED
            BY <1>6, <2>2, <3>1, <3>4
    <2>4. r \in Told(i, reports)
        BY <1>7, <2>2 DEF Told, About
    <2>5. Told(i, reports) = {r}
        BY <2>3, <2>4 DEF Told
    <2>6. Cardinality(Told(i, reports)) = 1
        BY <2>5, FS_Singleton
    <2>7. Keeps(i, reports, r)
        <3>1. PICK first : About(R(i), i, first)
            BY <1>7
        <3>2. ~Stronger(anClassified[i], anClassified[R(i).primary])
            BY <2>1, <3>1 DEF About
        <3>3. Tells(i, R(i), anClassified[i].slice.rule)
            BY <2>1, <3>1, AboutTells
        <3> QED
            BY <2>2, <3>2, <3>3 DEF Keeps
    <2> QED
        BY <2>5, <2>6, <2>7
<1> QED
    BY <1>8 DEF AllTold

-----------------------------------------------------------------------------
(* The stages *)

SlicesOf(a) == Range(a.discovered) \cup UNION {Range(a.answers[r]) : r \in DOMAIN Rules}
FindingsOf(a) == [slice : SlicesOf(a), strength : Nat, confidence : {1}, severity : {1}]

\* What the searches of an analysis find.
LEMMA SlicesAre ==
    ASSUME NEW a \in Analyses
    PROVE  /\ a.discovered \in Seq(SlicesOf(a)) /\ \A r \in DOMAIN Rules : a.answers[r] \in Seq(SlicesOf(a))
           /\ \A s \in SlicesOf(a) : s.len \in Nat /\ s.from <= s.to
<1>1. /\ DOMAIN a.answers = DOMAIN Rules
      /\ \A slices \in {a.discovered} \cup Range(a.answers) :
           /\ slices \in Seq(Range(slices))
           /\ \A s \in Range(slices) : s.len \in Nat /\ s.from <= s.to
    BY SliceAssumption
<1>2. \A r \in DOMAIN Rules : a.answers[r] \in Range(a.answers)
    BY <1>1 DEF Range
<1>3. /\ a.discovered \in Seq(Range(a.discovered)) /\ Range(a.discovered) \subseteq SlicesOf(a)
      /\ \A s \in Range(a.discovered) : s.len \in Nat /\ s.from <= s.to
    BY <1>1 DEF SlicesOf
<1>4. ASSUME NEW r \in DOMAIN Rules
      PROVE  /\ a.answers[r] \in Seq(Range(a.answers[r])) /\ Range(a.answers[r]) \subseteq SlicesOf(a)
             /\ \A s \in Range(a.answers[r]) : s.len \in Nat /\ s.from <= s.to
    BY <1>1, <1>2 DEF SlicesOf
<1>5. \A S, T : \A q \in Seq(S) : S \subseteq T => q \in Seq(T)
    OBVIOUS
<1>6. a.discovered \in Seq(SlicesOf(a)) /\ \A r \in DOMAIN Rules : a.answers[r] \in Seq(SlicesOf(a))
    BY <1>3, <1>4, <1>5
<1>7. ASSUME NEW s \in SlicesOf(a) PROVE s.len \in Nat /\ s.from <= s.to
    <2>1. s \in Range(a.discovered) \/ \E r \in DOMAIN Rules : s \in Range(a.answers[r])
        BY DEF SlicesOf
    <2> QED
        BY <1>3, <1>4, <2>1
<1> QED
    BY <1>6, <1>7

AnTypes ==
    /\ an \in Analyses
    /\ anStage \in {"graph", "discover", "queries", "classify", "report", "config", "capabilities", "dependencies", "done", "failed"}
    /\ anQueries \in Seq(DOMAIN Rules)
    /\ anFound \in Seq(SlicesOf(an)) /\ anQueried \in Seq(SlicesOf(an))
    /\ anClassified \in Seq(FindingsOf(an))

\* A discovered slice is on the list, or one its own rule's query found again.
OnList(found) == \A k \in DOMAIN an.discovered :
                   \E j \in DOMAIN found : found[j].rule = an.discovered[k].rule /\ SameFinding(found[j], an.discovered[k])

AnInv ==
    /\ AnTypes
    /\ anStage = "queries" => anFound = an.discovered
    /\ anStage = "classify" => OnList(anFound)
    /\ anStage \in {"config", "capabilities", "dependencies", "done"} => AllTold(anReports)

LEMMA ConcatIs ==
    ASSUME NEW S, NEW a \in Seq(S), NEW b \in Seq(S)
    PROVE  /\ a \o b \in Seq(S) /\ Len(a \o b) = Len(a) + Len(b)
           /\ \A i \in 1..Len(a) : (a \o b)[i] = a[i]
           /\ \A i \in 1..Len(b) : (a \o b)[Len(a) + i] = b[i]
    OBVIOUS

\* What the filter drops, a query found.
LEMMA FilterKeeps ==
    ASSUME AnTypes, anFound = an.discovered,
           NEW found, found = Not(anFound, {s \in Range(anFound) : Redetected(s)}) \o anQueried
    PROVE  found \in Seq(SlicesOf(an)) /\ OnList(found)
<1> DEFINE S == SlicesOf(an)
           set == {s \in Range(anFound) : Redetected(s)}
           kept == Not(anFound, set)
<1>1. /\ an.discovered \in Seq(S) /\ anFound \in Seq(S) /\ anQueried \in Seq(S)
      /\ \A s \in S : s.len \in Nat /\ s.from <= s.to
    BY SlicesAre DEF AnTypes
<1> HIDE DEF S
<1>2. kept \in Seq(S) /\ Range(kept) = Range(anFound) \ set
    <2> HIDE DEF set
    <2> QED
        BY <1>1, NotIs
<1>3. \A s : s \in set <=> s \in Range(anFound) /\ Redetected(s)
    OBVIOUS
<1>4. found = kept \o anQueried
    OBVIOUS
<1> HIDE DEF kept, set
<1>5. /\ found \in Seq(S) /\ Len(found) = Len(kept) + Len(anQueried)
      /\ \A i \in 1..Len(kept) : found[i] = kept[i]
      /\ \A i \in 1..Len(anQueried) : found[Len(kept) + i] = anQueried[i]
    BY ONLY <1>1, <1>2, <1>4, ConcatIs
<1>6. ASSUME NEW k \in DOMAIN an.discovered
      PROVE  \E j \in DOMAIN found : found[j].rule = an.discovered[k].rule /\ SameFinding(found[j], an.discovered[k])
    <2> DEFINE s == an.discovered[k]
    <2>1. s \in S /\ s \in Range(anFound)
        BY <1>1 DEF Range
    <2> HIDE DEF s
    <2>2. CASE Redetected(s)
        <3>1. PICK i \in DOMAIN anQueried : anQueried[i].rule = s.rule /\ SameFinding(s, anQueried[i])
            BY <2>2 DEF Redetected
        <3>2. Len(kept) + i \in DOMAIN found /\ found[Len(kept) + i] = anQueried[i]
            BY <1>1, <1>2, <1>5
        <3>3. SameFinding(anQueried[i], s)
            BY <3>1 DEF SameFinding
        <3> QED
            BY <3>1, <3>2, <3>3 DEF s
    <2>3. CASE ~Redetected(s)
        <3>1. s \in Range(kept)
            BY <1>2, <1>3, <2>1, <2>3
        <3>2. PICK i \in DOMAIN kept : kept[i] = s
            BY <3>1 DEF Range
        <3>3. i \in DOMAIN found /\ found[i] = s
            BY <1>1, <1>2, <1>5, <3>2
        <3>4. SameFinding(s, s)
            BY <1>1, <2>1 DEF SameFinding
        <3> QED
            BY <3>3, <3>4 DEF s
    <2> QED
        BY <2>2, <2>3
<1> QED
    BY <1>5, <1>6 DEF OnList, S

\* The classifier's vulnerabilities are graded slices of the list.
LEMMA ClassifyTypes ==
    ASSUME AnTypes, NEW grade \in [DOMAIN anFound -> Strengths \cup {-1}],
           NEW graded, graded = [i \in DOMAIN anFound |-> [slice |-> anFound[i], strength |-> grade[i], confidence |-> 1, severity |-> 1]],
           NEW classified, classified = Not(graded, {v \in Range(graded) : v.strength < 0})
    PROVE  classified \in Seq(FindingsOf(an))
<1> DEFINE S == SlicesOf(an)
           V == [slice : S, strength : Strengths \cup {-1}, confidence : {1}, severity : {1}]
           set == {v \in Range(graded) : v.strength < 0}
<1>1. anFound \in Seq(S) /\ DOMAIN anFound = 1..Len(anFound) /\ Len(anFound) \in Nat
    BY DEF AnTypes
<1> HIDE DEF S
<1>2. \A i \in DOMAIN anFound : graded[i] \in V
    BY <1>1
<1>3. DOMAIN graded = DOMAIN anFound
    OBVIOUS
<1> HIDE DEF V
<1>4. graded \in Seq(V)
    <2>1. graded \in [1..Len(anFound) -> V]
        <3>1. graded = [i \in 1..Len(anFound) |-> graded[i]]
            BY <1>1
        <3> QED
            BY <1>1, <1>2, <3>1
    <2> QED
        BY <1>1, <2>1
<1>5. classified \in Seq(V) /\ Range(classified) = Range(graded) \ set
    <2>1. classified = Not(graded, set)
        OBVIOUS
    <2> HIDE DEF set
    <2> QED
        BY ONLY <1>4, <2>1, NotIs
<1>6. Strengths \subseteq Nat
    BY PipelineAssumption
<1>7. ASSUME NEW i \in 1..Len(classified) PROVE classified[i] \in FindingsOf(an)
    <2>1. classified[i] \in V /\ classified[i] \in Range(classified)
        BY ONLY <1>5, <1>7 DEF Range
    <2> DEFINE v == classified[i]
    <2>2. ~(v.strength < 0)
        BY ONLY <1>5, <2>1 DEF set, v
    <2> HIDE DEF v
    <2>3. v.strength \in Strengths \cup {-1} /\ v.slice \in S /\ v.confidence \in {1} /\ v.severity \in {1}
          /\ v = [slice |-> v.slice, strength |-> v.strength, confidence |-> v.confidence, severity |-> v.severity]
        BY ONLY <2>1 DEF V, v
    <2>4. v.strength \in Nat
        <3>1. v.strength \in Strengths \/ v.strength = -1
            BY ONLY <2>3
        <3>2. -1 < 0
            OBVIOUS
        <3>3. v.strength # -1
            BY ONLY <2>2, <3>2, Zenon
        <3> QED
            BY ONLY <1>6, <3>1, <3>3, Zenon
    <2>5. v \in FindingsOf(an)
        BY ONLY <2>3, <2>4 DEF FindingsOf, S
    <2> QED
        BY <2>5 DEF v
<1> HIDE DEF set
<1> QED
    BY ONLY <1>5, <1>7

-----------------------------------------------------------------------------
(* The invariant of the stages *)

LEMMA GradesKnown ==
    ASSUME AnTypes
    PROVE  /\ Len(anClassified) \in Nat /\ Finds = 1..Len(anClassified)
           /\ \A i \in Finds : Graded(anClassified[i])
<1>1. an \in Analyses /\ anClassified \in Seq(FindingsOf(an))
    BY DEF AnTypes
<1>2. Len(anClassified) \in Nat /\ Finds = 1..Len(anClassified)
    BY <1>1 DEF Finds
<1>3. ASSUME NEW i \in Finds PROVE Graded(anClassified[i])
    <2>1. anClassified[i] \in FindingsOf(an)
        BY <1>1, <1>2
    <2> QED
        BY <1>1, <2>1, SlicesAre DEF FindingsOf, Graded
<1> QED
    BY <1>2, <1>3

LEMMA AnInitOK == AnInit => AnInv
<1> SUFFICES ASSUME AnInit PROVE AnInv
    OBVIOUS
<1>1. RuleOrder \in Seq(DOMAIN Rules)
    BY PipelineAssumption
<1> QED
    BY <1>1 DEF AnInit, AnInv, AnTypes

LEMMA FilterOK ==
    ASSUME AnInv, FilterSlices
    PROVE  AnInv'
<1>1. AnTypes /\ anFound = an.discovered
    BY DEF AnInv, FilterSlices
<1>2. PICK found : found = anFound'
    OBVIOUS
<1>3. found = Not(anFound, {s \in Range(anFound) : Redetected(s)}) \o anQueried
    BY <1>2 DEF FilterSlices
<1>4. found \in Seq(SlicesOf(an)) /\ OnList(found)
    BY <1>1, <1>3, FilterKeeps
<1>5. anStage' = "classify" /\ UNCHANGED <<an, anQueries, anQueried, anClassified>>
    BY DEF FilterSlices
<1>6. AnTypes'
    BY <1>1, <1>2, <1>4, <1>5 DEF AnTypes
<1>7. OnList(anFound)'
    BY <1>2, <1>4, <1>5 DEF OnList
<1> QED
    BY <1>5, <1>6, <1>7 DEF AnInv

LEMMA ClassifyOK ==
    ASSUME AnInv, ClassifySlices
    PROVE  AnInv'
<1>1. AnTypes
    BY DEF AnInv
<1>2. PICK classified : classified = anClassified'
    OBVIOUS
<1>3. PICK grade \in [DOMAIN anFound -> Strengths \cup {-1}] :
        LET graded == [i \in DOMAIN anFound |-> [slice |-> anFound[i], strength |-> grade[i], confidence |-> 1, severity |-> 1]]
        IN  anClassified' = Not(graded, {v \in Range(graded) : v.strength < 0})
    BY DEF ClassifySlices
<1>4. PICK graded : graded = [i \in DOMAIN anFound |-> [slice |-> anFound[i], strength |-> grade[i], confidence |-> 1, severity |-> 1]]
    OBVIOUS
<1>5. classified = Not(graded, {v \in Range(graded) : v.strength < 0})
    BY <1>2, <1>3, <1>4
<1>6. classified \in Seq(FindingsOf(an))
    BY <1>1, <1>4, <1>5, ClassifyTypes
<1>7. anStage' = "report" /\ UNCHANGED <<an, anQueries, anFound, anQueried>>
    BY DEF ClassifySlices
<1>8. AnTypes'
    BY <1>1, <1>2, <1>6, <1>7 DEF AnTypes
<1> QED
    BY <1>7, <1>8 DEF AnInv

\* The reports stay what they tell while the findings they are about do.
LEMMA ToldStays ==
    ASSUME NEW reports, reports = anReports', anClassified' = anClassified, AllTold(reports)
    PROVE  AllTold(anReports)'
<1>1. \A i : Linked(i)' = Linked(i)
    BY DEF Linked, Closed
<1>2. \A i : Told(i, anReports)' = Told(i, reports)
    BY <1>1 DEF Told
<1>3. \A i, r : Keeps(i, anReports, r)' = Keeps(i, reports, r)
    BY <1>1 DEF Keeps, Tells, NamedIn
<1>4. Finds' = Finds
    BY DEF Finds
<1> QED
    BY <1>2, <1>3, <1>4 DEF AllTold

LEMMA ReportOK ==
    ASSUME AnInv, ReportFindings
    PROVE  AnInv'
<1>1. AnTypes
    BY DEF AnInv
<1>2. PICK reports : reports = anReports'
    OBVIOUS
<1>3. reports = SetToSeq({Report(c, anClassified) : c \in Clusters(anClassified)})
    BY <1>2 DEF ReportFindings
<1>4. AllTold(reports)
    BY <1>1, <1>3, GradesKnown, ReportsTell
<1>5. anStage' \in {"done", "config"} /\ UNCHANGED <<an, anQueries, anFound, anQueried, anClassified>>
    BY DEF ReportFindings
<1>6. AnTypes'
    BY <1>1, <1>5 DEF AnTypes
<1>7. AllTold(anReports)'
    BY <1>2, <1>4, <1>5, ToldStays
<1> QED
    BY <1>5, <1>6, <1>7 DEF AnInv

LEMMA QueryOK ==
    ASSUME AnInv, ExecuteQuery
    PROVE  AnInv'
<1>1. AnTypes
    BY DEF AnInv
<1>2. /\ anStage = "queries" /\ anStage' = "queries" /\ UNCHANGED <<an, anFound, anClassified>>
      /\ anQueries # <<>> /\ anQueries' = Tail(anQueries)
      /\ anQueried' \in {anQueried, anQueried \o an.answers[Head(anQueries)]}
    BY DEF ExecuteQuery
<1>3. an \in Analyses /\ anQueries \in Seq(DOMAIN Rules) /\ anQueried \in Seq(SlicesOf(an))
    BY <1>1 DEF AnTypes
<1>4. Head(anQueries) \in DOMAIN Rules /\ anQueries' \in Seq(DOMAIN Rules)
    BY <1>2, <1>3
<1>5. an.answers[Head(anQueries)] \in Seq(SlicesOf(an))
    BY <1>3, <1>4, SlicesAre
<1>6. anQueried \o an.answers[Head(anQueries)] \in Seq(SlicesOf(an))
    BY <1>3, <1>5, ConcatIs
<1>7. anQueried' \in Seq(SlicesOf(an))
    BY <1>2, <1>3, <1>6
<1>8. AnTypes'
    BY <1>1, <1>2, <1>4, <1>7 DEF AnTypes
<1> QED
    BY <1>2, <1>8 DEF AnInv

\* A step of another stage, and a stutter, leave the findings and the reports.
LEMMA QuietOK ==
    ASSUME AnInv, UNCHANGED <<an, anQueries, anQueried, anClassified>>,
           anStage' \in {"discover", "queries", "capabilities", "dependencies", "done", "failed"} \/ anStage' = anStage,
           anStage' = "queries" => anFound' = an.discovered,
           anStage' \in {"capabilities", "dependencies", "done"}
             => anReports' = anReports /\ anStage \in {"config", "capabilities", "dependencies", "done"},
           anStage' = anStage => UNCHANGED <<anFound, anReports>>,
           anFound' \in {anFound, an.discovered}
    PROVE  AnInv'
<1>1. AnTypes
    BY DEF AnInv
<1>2. an.discovered \in Seq(SlicesOf(an))
    BY <1>1, SlicesAre DEF AnTypes
<1>3. AnTypes'
    BY <1>1, <1>2 DEF AnTypes
<1>4. ASSUME anStage' = "classify" PROVE OnList(anFound)'
    <2>1. anStage = "classify" /\ UNCHANGED anFound
        BY <1>4
    <2> QED
        BY <2>1 DEF AnInv, OnList
<1>5. ASSUME anStage' \in {"config", "capabilities", "dependencies", "done"} PROVE AllTold(anReports)'
    <2>1. anReports' = anReports /\ anStage \in {"config", "capabilities", "dependencies", "done"}
        BY <1>5
    <2>2. AllTold(anReports)
        BY <2>1 DEF AnInv
    <2>3. PICK reports : reports = anReports
        OBVIOUS
    <2>4. AllTold(reports) /\ reports = anReports'
        BY <2>1, <2>2, <2>3
    <2> QED
        BY <2>4, ToldStays
<1> QED
    BY <1>3, <1>4, <1>5 DEF AnInv

LEMMA AnKept == AnInv /\ [AnNext]_anVars => AnInv'
<1> SUFFICES ASSUME AnInv, [AnNext]_anVars PROVE AnInv'
    OBVIOUS
<1>1. CASE BuildGraph
    BY <1>1, QuietOK DEF BuildGraph
<1>2. CASE DiscoverPaths
    BY <1>2, QuietOK DEF DiscoverPaths
<1>3. CASE InspectConfig
    BY <1>3, QuietOK DEF InspectConfig
<1>4. CASE CheckCapabilities
    BY <1>4, QuietOK DEF CheckCapabilities
<1>5. CASE ScanDependencies
    BY <1>5, QuietOK DEF ScanDependencies
<1>6. CASE StageRaises
    BY <1>6, QuietOK DEF StageRaises
<1>7. CASE UNCHANGED anVars
    <2>1. UNCHANGED <<an, anStage, anQueries, anFound, anQueried, anClassified, anReports>>
        BY <1>7 DEF anVars
    <2>2. anStage = "queries" => anFound = an.discovered
        BY DEF AnInv
    <2> QED
        BY <2>1, <2>2, QuietOK
<1> QED
    BY <1>1, <1>2, <1>3, <1>4, <1>5, <1>6, <1>7, QueryOK, FilterOK, ClassifyOK, ReportOK DEF AnNext

\* Removing duplicates drops no signal, whatever the searches find, the rules are
\* and fails: every confirmed finding is in one report, with the controls of its
\* rule and with its rule's name unless it is the one rule that a report under an
\* uncatalogued primary takes its polarity from and does not name; and every
\* discovered slice is on the list to classify.
THEOREM FindingsKept == AnSpec => []NoFindingLost
<1>1. AnInv => NoFindingLost
    <2> SUFFICES ASSUME AnInv PROVE NoFindingLost
        OBVIOUS
    <2>1. anStage = "done" => AllTold(anReports)
        BY DEF AnInv
    <2>2. anStage = "classify" => OnList(anFound)
        BY DEF AnInv
    <2> QED
        BY <2>1, <2>2 DEF NoFindingLost, AllTold, Told, Keeps, Tells, OnList, Finds
<1> QED
    BY AnInitOK, AnKept, <1>1, PTL DEF AnSpec
=============================================================================
