----------------------------- MODULE FlowSearch -----------------------------
(***************************************************************************)
(* The searches of the semantic engine over one code graph.  A job is      *)
(* PathDiscovery.discover, or QueryExecutor.execute_query for one rule and *)
(* one of its patterns: a breadth-first search from each source node, then *)
(* the slices made of the paths it recorded.                               *)
(***************************************************************************)
EXTENDS Integers, Sequences, FiniteSets, SequencesExt, Selection

CONSTANTS
  CodeGraphs,     \* [nodes : sequence, edges : sequence, matches : sequence], below
  Jobs,           \* [name : "discovery"] or [name : "rule", rule, pattern, ...]
  MaxDepth, MaxHops, MaxPaths, MaxOps, \* max_path_length, max_cross_file_hops, max_paths, MAX_BFS_OPS
  Threshold       \* path_score_threshold, in hundredths

ASSUME LimitsAssumption == MaxDepth \in Nat \ {0} /\ MaxHops \in Nat /\ MaxPaths \in Nat /\ MaxOps \in Nat

\* An end of an edge that is missing from the node list is a node without a file
\* that matches nothing.
ASSUME GraphAssumption ==
  \A g \in CodeGraphs :
    /\ g.nodes \in Seq(Range(g.nodes)) /\ g.edges \in Seq(Range(g.edges)) /\ g.matches \in Seq(Range(g.matches))
    /\ \A e \in Range(g.edges) : e.to \in DOMAIN g.nodes

ASSUME JobAssumption ==
  \A j \in Jobs : j.name # "discovery" => j.name = "rule" /\ {j.confidence, j.severity} \subseteq Nat

(***************************************************************************)
(* A node has a name, which need not be its own, a line (0 when it has     *)
(* none), the rules whose source and sink patterns match its label (srcs,  *)
(* snks), those whose source patterns match its value or metadata only     *)
(* (also), the rules of other languages (foreign), a security role, and    *)
(* whether its label or code names a sanitizer (clean), a required guard   *)
(* (guard), a database call (db), one with a bind array (bound), or is an  *)
(* HTTP endpoint or response (web).                                        *)
(***************************************************************************)
VARIABLES
  fgraph, fjob,
  fphase,         \* "start" | "search" | "end"
  ftodo,          \* the sources left, in the order of the nodes
  fqueue, fseen, fops, \* the search of one source
  fpaths,         \* the paths it recorded
  ffound,         \* those of all the sources
  ftruncated,     \* history: a limit ended a search early
  fslices

flowVars == <<fgraph, fjob, fphase, ftodo, fqueue, fseen, fops, fpaths, ffound, ftruncated, fslices>>

FlowInit ==
  /\ fgraph \in CodeGraphs /\ fjob \in Jobs
  /\ fphase = "start" /\ ftodo = <<>> /\ fqueue = <<>> /\ fseen = {} /\ fops = 0
  /\ fpaths = <<>> /\ ffound = <<>> /\ ftruncated = FALSE /\ fslices = <<>>

Discovery == fjob.name = "discovery"
Node(n)   == fgraph.nodes[n]
Nodes     == DOMAIN fgraph.nodes

\* The file of a node without one, and the scope.
Unknown == ""

\* The indices of a list that are in set, in the order of the list.
InOrder(list, set) == Not([i \in DOMAIN list |-> i], DOMAIN list \ set)

Sources ==
  IF Discovery
  THEN {n \in Nodes : Node(n).srcs # {} \/ Node(n).role = "source"}
  ELSE {n \in Nodes : fjob.rule \in (Node(n).srcs \cup Node(n).also) \ Node(n).foreign}

Sinks ==
  IF Discovery
  THEN {n \in Nodes : Node(n).snks # {} \/ Node(n).role = "sink"}
  ELSE {n \in Nodes : fjob.rule \in Node(n).snks \ Node(n).foreign}

\* The kinds of edges a job follows; "flow" stands for DFG_FLOW, DFG_INTERP and
\* DFG_PARAM_PASS, "data" for the other data-flow edges and the call graph.
Followed ==
  IF Discovery THEN {"flow", "taint", "data", "auth", "route"}
  ELSE CASE fjob.pattern = "DFG_FLOW"   -> {"flow", "taint", "data", "attr"}
         [] fjob.pattern = "TAINT_FLOW" -> {"flow", "taint"}
         [] fjob.pattern = "CFG_NEXT"   -> {"cfg"}
         [] fjob.pattern = "ANY"        -> {"flow", "taint", "cfg"}
         [] OTHER                       -> {"flow"}

Neighbors(n) ==
  LET out == Not(fgraph.edges, {e \in Range(fgraph.edges) : e.from # n \/ e.kind \notin Followed})
  IN  [i \in DOMAIN out |-> out[i].to]

-----------------------------------------------------------------------------
(***************************************************************************)
(* The breadth-first search of one source.  Path discovery counts the file *)
(* boundaries a path crosses and remembers a node once per count.          *)
(***************************************************************************)
HopTo(e, n) ==
  IF Discovery /\ e.file # Unknown /\ Node(n).file \notin {Unknown, e.file} THEN e.hops + 1 ELSE e.hops

\* Mutant: a node is remembered without the count it was reached with.
SeenAs_node(n, hops) == <<n, 0>>
SeenAs(n, hops) == <<n, hops>>

\* One neighbor of entry e: the queue and the memory after it was looked at.
Looked(acc, e, n) ==
  LET hops  == HopTo(e, n)
      state == SeenAs(n, hops)
  IN  IF \/ n \in Range(e.path)
         \/ Discovery /\ hops > MaxHops
         \/ state \in acc.seen /\ n \notin Sinks
      THEN acc
      ELSE [queue |-> Append(acc.queue, [path |-> Append(e.path, n), hops |-> hops,
                                         file |-> IF Node(n).file = Unknown THEN e.file ELSE Node(n).file]),
            seen |-> acc.seen \cup {state}]

Expanded(e) ==
  LET next == Neighbors(Last(e.path))
      looked[k \in 0..Len(next)] ==
        IF k = 0 THEN [queue |-> Tail(fqueue), seen |-> fseen] ELSE Looked(looked[k - 1], e, next[k])
  IN  looked[Len(next)]

Searching == fphase = "search" /\ fqueue # <<>> /\ Len(fpaths) < MaxPaths /\ fops < MaxOps

\* Path discovery skips a path that is too long before it looks at its end; a
\* rule's search looks first and does not extend the longest paths.
TooLong(e) == Discovery /\ Len(e.path) > MaxDepth
Longest(e) == ~Discovery /\ Len(e.path) >= MaxDepth

DropPath ==
  /\ Searching
  /\ LET e == Head(fqueue)
     IN  TooLong(e) \/ (Longest(e) /\ Last(e.path) \notin Sinks)
  /\ fqueue' = Tail(fqueue) /\ fops' = fops + 1
  /\ UNCHANGED <<fgraph, fjob, fphase, ftodo, fseen, fpaths, ffound, ftruncated, fslices>>

\* A path that ends in a sink is recorded and not extended.
RecordPath ==
  /\ Searching /\ ~TooLong(Head(fqueue)) /\ Last(Head(fqueue).path) \in Sinks
  /\ fpaths' = Append(fpaths, Head(fqueue).path)
  /\ fqueue' = Tail(fqueue) /\ fops' = fops + 1
  /\ UNCHANGED <<fgraph, fjob, fphase, ftodo, fseen, ffound, ftruncated, fslices>>

ExtendPath ==
  /\ Searching
  /\ LET e == Head(fqueue)
     IN  /\ ~TooLong(e) /\ ~Longest(e) /\ Last(e.path) \notin Sinks
         /\ fqueue' = Expanded(e).queue /\ fseen' = Expanded(e).seen
  /\ fops' = fops + 1
  /\ UNCHANGED <<fgraph, fjob, fphase, ftodo, fpaths, ffound, ftruncated, fslices>>

(***************************************************************************)
(* discover and execute_query around the searches.                         *)
(***************************************************************************)
\* A rule's pattern is skipped when a guard it requires exists anywhere.
Guarded == fjob.name = "rule" /\ fjob.guards /\ \E n \in Nodes : Node(n).guard

StartJob ==
  /\ fphase = "start" /\ fphase' = "search"
  /\ ftodo' = IF Sinks = {} \/ Guarded THEN <<>> ELSE InOrder(fgraph.nodes, Sources)
  /\ UNCHANGED <<fgraph, fjob, fqueue, fseen, fops, fpaths, ffound, ftruncated, fslices>>

\* The search of the last source, if any, is over: its paths are kept.
NextSource ==
  /\ fphase = "search" /\ ~Searching /\ ftodo # <<>>
  /\ LET s == Head(ftodo)
     IN  /\ fqueue' = <<[path |-> <<s>>, hops |-> 0, file |-> Node(s).file]>>
         /\ fseen' = {SeenAs(s, 0)}
  /\ ftodo' = Tail(ftodo) /\ fops' = 0 /\ fpaths' = <<>> /\ ffound' = ffound \o fpaths
  /\ ftruncated' = (ftruncated \/ fqueue # <<>>)
  /\ UNCHANGED <<fgraph, fjob, fphase, fslices>>

-----------------------------------------------------------------------------
(***************************************************************************)
(* From paths to slices.                                                   *)
(***************************************************************************)
Values(path, f(_)) == {f(path[i]) : i \in DOMAIN path}
Hits(path, P(_))   == Cardinality({i \in DOMAIN path : P(path[i])})
Kinds(path) == {fgraph.edges[j].kind : j \in {k \in DOMAIN fgraph.edges :
                   \E i \in 1..Len(path) - 1 : fgraph.edges[k].from = path[i] /\ fgraph.edges[k].to = path[i + 1]}}
AtLeast(a, b) == IF a > b THEN a ELSE b
AtMost(a, b)  == IF a < b THEN a ELSE b

\* _score_path, in 1 / (10000 * ScoreUnit) of the code's score.
ScoreUnit(path) == Len(path) * (Len(path) + 1)
Score(path) ==
  LET n == Len(path)
      crossings == AtLeast(0, Cardinality(Values(path, LAMBDA x : Node(x).file)) - 1)
                     + AtLeast(0, Cardinality(Values(path, LAMBDA x : Node(x).scope) \ {Unknown}) - 1)
      explicit  == Hits(path, LAMBDA x : Node(x).role = "sanitizer")
      heuristic == Hits(path, LAMBDA x : Node(x).role # "sanitizer" /\ Node(x).clean)
      ambiguity == IF explicit > 0 THEN 0 ELSE IF heuristic > 0 THEN 4 ELSE 10
      gap       == IF "auth" \in Kinds(path) THEN 2 ELSE IF Node(Last(path)).role = "sink" \/ Node(Last(path)).web THEN 7 ELSE 5
      factor    == AtLeast(30, 100 - 15 * explicit - 5 * heuristic)
  IN  (35 * n + 25 * (n + 1) + (4 * AtMost(5, crossings) + ambiguity + gap) * ScoreUnit(path)) * factor

Scores(path) == Score(path) >= Threshold * 100 * ScoreUnit(path)
Above(p, q)  == Score(p) * ScoreUnit(q) > Score(q) * ScoreUnit(p)

\* candidates.sort(reverse=True)[:max]: the best, ties in the order they were found.
BestOf(paths, max) ==
  LET ahead(i) == Cardinality({j \in DOMAIN paths : Above(paths[j], paths[i])
                                                    \/ (j < i /\ ~Above(paths[i], paths[j]))})
  IN  [r \in 1..AtMost(max, Len(paths)) |-> paths[CHOOSE i \in DOMAIN paths : ahead(i) = r - 1]]

\* _attribute_rule: the first of the rules that own both ends.
OwnersOf(path) == Node(path[1]).srcs \cap Node(Last(path)).snks
Attributed(path, order) ==
  IF OwnersOf(path) = {} THEN "PATH_DISCOVERY"
  ELSE LET first == CHOOSE i \in DOMAIN order : order[i] \in OwnersOf(path) /\ \A j \in 1..i - 1 : order[j] \notin OwnersOf(path)
       IN  order[first]

Downgraded(severity) == IF severity > 2 THEN 2 ELSE severity

DiscoverySlice(path) ==
  [rule |-> Attributed(path, fjob.order), source |-> path[1], sink |-> Last(path), path |-> path]

\* The lines of a path: those its nodes have, or line 1.
Lines(path) ==
  LET known == Values(path, LAMBDA x : Node(x).line) \ {0}
  IN  IF known = {} THEN {1} ELSE known

\* _extract_slice; severity 4 is critical, confidence 3 is high.  A slice is
\* labelled with the name of its sink and is in the file of its source.
RuleSlice(path) ==
  LET cleaned == \E i \in DOMAIN path : Node(path[i]).role = "sanitizer" \/ Node(path[i]).clean
  IN  [rule |-> fjob.rule, source |-> path[1], sink |-> Last(path), path |-> path, dfg |-> fjob.pattern = "DFG_FLOW",
       label |-> Node(Last(path)).name, lines |-> Lines(path),
       file |-> IF Node(path[1]).file = Unknown THEN Node(Last(path)).file ELSE Node(path[1]).file,
       confidence |-> IF cleaned THEN 1 ELSE fjob.confidence,
       severity |-> IF cleaned THEN Downgraded(fjob.severity) ELSE fjob.severity]

\* _execute_regex_patterns: one slice per match in a file the rule's filters admit,
\* labelled with the sink token of the rule that the matched text contains.
MatchSlices ==
  LET hits == Not(fgraph.matches, {m \in Range(fgraph.matches) : m.rule # fjob.rule \/ ~m.admitted})
      cleaned(m) == m.sanitized /\ ~fjob.compliant
  IN  [i \in DOMAIN hits |->
        [rule |-> fjob.rule, source |-> 0, sink |-> 0, path |-> <<>>, dfg |-> FALSE,
         label |-> hits[i].label, lines |-> {hits[i].line}, file |-> hits[i].file,
         confidence |-> IF cleaned(hits[i]) THEN 1 ELSE fjob.confidence,
         severity |-> IF cleaned(hits[i]) THEN Downgraded(fjob.severity) ELSE fjob.severity]]

Map(f(_), s) == [i \in DOMAIN s |-> f(s[i])]

\* _deduplicate_slices: the best slice of one label, file and first and last line,
\* so that two sinks of one name on one line, two calls of cursor.execute say,
\* make one slice.  rank orders by (data flow, confidence, severity, shortest
\* path); every slice has a snippet.
Place(s) == <<s.label, s.file, CHOOSE x \in s.lines : \A y \in s.lines : x <= y,
              CHOOSE x \in s.lines : \A y \in s.lines : x >= y>>
Outranks(s, t) ==
  LET one(b) == IF b THEN 1 ELSE 0
      rank(x) == <<one(x.dfg), x.confidence, x.severity, -Len(x.path)>>
  IN  \E i \in 1..4 : rank(s)[i] > rank(t)[i] /\ \A j \in 1..i - 1 : rank(s)[j] = rank(t)[j]
Deduplicated(slices) ==
  LET best == {i \in DOMAIN slices : \A j \in DOMAIN slices : Place(slices[j]) = Place(slices[i])
                 => (j < i => Outranks(slices[i], slices[j])) /\ ~Outranks(slices[j], slices[i])}
  IN  Map(LAMBDA i : slices[i], InOrder(slices, best))

Long(paths)  == Not(paths, {p \in Range(paths) : Len(p) < 2})

\* discover drops a call with a bind array to whatever looks like a database call,
\* _extract_slice to any sink of the SQL rule.
Prepared(p) == Node(Last(p)).bound
Discovered(paths) ==
  LET good == Not(Long(paths), {p \in Range(paths) : ~Scores(p)})
      kept == BestOf(good, MaxPaths)
  IN  Map(DiscoverySlice, Not(kept, {p \in Range(kept) : Node(Last(p)).db /\ Prepared(p)}))

Executed(paths) ==
  LET first == SubSeq(paths, 1, AtMost(MaxPaths, Len(paths)))
      flows == Not(Long(first), {p \in Range(first) : fjob.sql /\ Prepared(p)})
  IN  IF Sources = {} \/ Sinks = {} THEN MatchSlices
      ELSE Deduplicated(Map(RuleSlice, flows) \o MatchSlices)

FinishJob ==
  /\ fphase = "search" /\ ~Searching /\ ftodo = <<>>
  /\ fphase' = "end" /\ ffound' = ffound \o fpaths
  /\ ftruncated' = (ftruncated \/ fqueue # <<>> \/ Len(ffound') > MaxPaths)
  /\ fslices' = IF Discovery THEN Discovered(ffound') ELSE Executed(ffound')
  /\ UNCHANGED <<fgraph, fjob, ftodo, fqueue, fseen, fops, fpaths>>

FlowNext == StartJob \/ NextSource \/ DropPath \/ RecordPath \/ ExtendPath \/ FinishJob

FlowSpec == FlowInit /\ [][FlowNext]_flowVars

-----------------------------------------------------------------------------
\* The paths without repetition from s along followed edges, by length.
PathsFrom(s) ==
  LET paths[n \in 1..MaxDepth] ==
        IF n = 1 THEN {<<s>>}
        ELSE {Append(pn[1], pn[2]) : pn \in {q \in paths[n - 1] \X Nodes :
                 q[2] \notin Range(q[1]) /\ q[2] \in Range(Neighbors(Last(q[1])))}}
  IN  UNION {paths[n] : n \in 1..MaxDepth}

\* The file boundaries of a path: from one known file to another, and with a
\* node of unknown file counted as a file of its own.
Hops(path) == Cardinality({i \in DOMAIN path : Node(path[i]).file # Unknown /\ \E j \in 1..i - 1 :
                /\ Node(path[j]).file \notin {Unknown, Node(path[i]).file}
                /\ \A k \in j + 1..i - 1 : Node(path[k]).file = Unknown})
Crossed(path) == Cardinality({i \in 1..Len(path) - 1 : Node(path[i]).file # Node(path[i + 1]).file})
WithinBudget(count) == ~Discovery \/ count <= MaxHops

\* The flow along path is shown by a slice, or what dropped it is written in the
\* code.  Of path discovery the slice has the ends of the path; of a rule it has
\* the label, the file and the lines of a flow that was found between those ends.
Accounted(path) ==
  LET alike == {j \in DOMAIN ffound : ffound[j][1] = path[1] /\ Last(ffound[j]) = Last(path)}
  IN  \/ Discovery /\ \E i \in DOMAIN fslices : fslices[i].source = path[1] /\ fslices[i].sink = Last(path)
      \/ Discovery /\ Node(Last(path)).db /\ Node(Last(path)).bound
      \/ Discovery /\ \E j \in alike : ~Scores(ffound[j])
      \/ ~Discovery /\ \E j \in alike, i \in DOMAIN fslices : Place(fslices[i]) = Place(RuleSlice(ffound[j]))
      \/ ~Discovery /\ fjob.sql /\ Node(Last(path)).bound

(***************************************************************************)
(* Search order, memory and budgets do not hide a flow: when no limit on   *)
(* the number of paths or of steps was hit, every sink a source reaches    *)
(* through nodes that are not sinks, within the depth and the file         *)
(* boundaries allowed, is shown by a slice unless the code drops it by     *)
(* name; and a slice of a path is a real flow within those bounds.  Path   *)
(* discovery has a slice from that source to that sink.  For a rule there  *)
(* is a slice with the sink's name at the file and the lines of a flow     *)
(* between the two, which may be of other nodes: the report cannot tell    *)
(* two sinks of one name on the same lines apart (executor.py:1006-1016).  *)
(* Paths that meet at a node of unknown file are told apart by their       *)
(* count alone, not by the file they come from (path_discovery.py:311),    *)
(* so a path is only promised when it stays in bounds with that node as a  *)
(* file of its own.                                                        *)
(***************************************************************************)
FlowsFound ==
  fphase = "end" =>
    /\ ~ftruncated /\ ~Guarded => \A s \in Sources \ Sinks :
         \A path \in PathsFrom(s) :
            Last(path) \in Sinks /\ Len(path) > 1 /\ WithinBudget(Crossed(path))
              /\ (\A i \in 1..Len(path) - 1 : path[i] \notin Sinks)
              => Accounted(path)
    /\ \A i \in DOMAIN fslices : fslices[i].path # <<>> =>
         fslices[i].path \in PathsFrom(fslices[i].source) /\ WithinBudget(Hops(fslices[i].path))

(***************************************************************************)
(* path_discovery.py:260 describes _bfs_paths as the "BFS that finds all   *)
(* source->sink paths, bounded by max depth, candidate count, and the      *)
(* number of file boundaries": no source is left without its flows.  The   *)
(* code ends the search of a source that is itself a sink of some rule at  *)
(* that source (298-300).                                                  *)
(***************************************************************************)
EverySourceSearched ==
  fphase = "end" /\ Discovery /\ ~ftruncated =>
    \A s \in Sources : \A path \in PathsFrom(s) :
      Last(path) \in Sinks /\ Len(path) > 1 /\ WithinBudget(Crossed(path))
        /\ (\A i \in 2..Len(path) - 1 : path[i] \notin Sinks)
        => Accounted(path)
=============================================================================
