-------------------------- MODULE MCStaticAnalysis --------------------------
(* TLC instance of the static analysis of a repository: its graph across      *)
(* files, the searches over a graph, the pipeline around them, the queue of   *)
(* the LLM classifier and the scan of its dependencies.  They share no state, *)
(* so each behaviour runs one of them, the others at an initial state.        *)
EXTENDS ClassifierWorkers, RepoGraph, FlowSearch, AnalysisPipeline, DependencyScan, TLC

MCModels     == <<"gpt", "phi", "llama">>
MCProviderOf == [gpt |-> "github", phi |-> "github", llama |-> "groq"]

-----------------------------------------------------------------------------
\* Code graphs of six nodes in two files: a source, or one that is a sink of
\* another rule too, then a sanitizer, a file boundary or a guard on the way,
\* two sinks of one name, and any of the optional edges, one of them a loop.
Plain == [name |-> "x", file |-> "f1", scope |-> "", line |-> 1, srcs |-> {}, also |-> {}, snks |-> {}, foreign |-> {},
          role |-> "none", clean |-> FALSE, guard |-> FALSE, db |-> FALSE, bound |-> FALSE, web |-> FALSE]
First  == {[Plain EXCEPT !.srcs = {"r1"}], [Plain EXCEPT !.srcs = {"r1", "r2"}, !.snks = {"r2"}]}
Second == {[Plain EXCEPT !.file = "f2", !.line = 2], [Plain EXCEPT !.file = "f2", !.role = "sanitizer"],
           [Plain EXCEPT !.also = {"r1"}, !.guard = TRUE]}
Fourth == {Plain, [Plain EXCEPT !.clean = TRUE, !.scope = "g", !.line = 0]}
Fifth  == {[Plain EXCEPT !.line = 3, !.role = "source"],
           [Plain EXCEPT !.name = "db.q", !.snks = {"r1", "r2"}, !.db = TRUE, !.file = ""]}
Sixth  == {[Plain EXCEPT !.name = "db.q", !.snks = {"r1"}, !.file = "f2", !.db = TRUE, !.role = "sink"],
           [Plain EXCEPT !.name = "db.q", !.snks = {"r1"}, !.foreign = {"r2"}, !.file = "f2", !.db = TRUE, !.bound = TRUE,
                         !.web = TRUE, !.scope = "h", !.line = 4]}

Arc(a, b, type) == [from |-> a, to |-> b, kind |-> type]
Fixed    == <<Arc(1, 3, "flow"), Arc(2, 5, "data"), Arc(3, 4, "flow")>>
Optional == {Arc(4, 5, "flow"), Arc(5, 6, "flow"), Arc(5, 1, "taint"), Arc(2, 6, "auth"), Arc(1, 2, "flow"), Arc(4, 6, "flow")}
MCMatches == {<<>>, <<[rule |-> "r1", admitted |-> TRUE, sanitized |-> TRUE, label |-> "db.q", file |-> "f1", line |-> 1],
                      [rule |-> "r2", admitted |-> FALSE, sanitized |-> FALSE, label |-> "open", file |-> "f1", line |-> 1]>>}
MCGraphs == {[nodes |-> <<a, b, Plain, d, g, h>>, edges |-> Fixed \o SetToSeq(o), matches |-> m] :
   a \in First, b \in Second, d \in Fourth, g \in Fifth, h \in Sixth, o \in SUBSET Optional, m \in MCMatches}

FirstGraph == CHOOSE g \in MCGraphs : TRUE

MCJobs == {[name |-> "discovery", order |-> <<"r1", "r2">>]} \cup
  {[name |-> "rule", rule |-> r, pattern |-> p, guards |-> p = "DFG_FLOW" /\ r = "r2", sql |-> r = "r1",
    compliant |-> FALSE, confidence |-> 2, severity |-> 4] : r \in {"r1", "r2"}, p \in {"DFG_FLOW", "TAINT_FLOW"}}

-----------------------------------------------------------------------------
\* Two rules of vulnerabilities and one of a positive marker, on overlapping lines.
MCRules == ("r1" :> [controls |-> {"c1"}, polarity |-> "vulnerable"])
        @@ ("r2" :> [controls |-> {"c2", "c3"}, polarity |-> "vulnerable"])
        @@ ("r3" :> [controls |-> {"c4"}, polarity |-> "compliant"])
MCRuleOrder   == <<"r2", "r3", "r1">>
MCSortedRules == <<"r1", "r2", "r3">>
MCSinkLabels == ("db.q" :> "db.q") @@ ("self.db.q" :> "db.q") @@ ("open" :> "open")

Slice(rule, a, b, sink) == [rule |-> rule, file |-> "f1", from |-> a, to |-> b, sink |-> sink, len |-> 0]
MCAnalyses == {
  [kind |-> "repository", discovered |-> <<Slice("PATH_DISCOVERY", 1, 6, "self.db.q")>>,
   answers |-> [r1 |-> <<Slice("r1", 1, 1, "db.q")>>, r2 |-> <<Slice("r2", 5, 6, "db.q"), Slice("r2", 5, 5, "open")>>,
                r3 |-> <<Slice("r3", 5, 5, "db.q")>>]],
  [kind |-> "code", discovered |-> <<Slice("r2", 2, 4, "db.q"), [Slice("r1", 4, 9, "open") EXCEPT !.len = 3]>>,
   answers |-> [r1 |-> <<Slice("r1", 1, 2, "db.q"), Slice("r1", 4, 5, "open")>>, r2 |-> <<>>,
                r3 |-> <<Slice("r3", 4, 4, "open")>>]],
  [kind |-> "repository", discovered |-> <<>>,
   answers |-> [r1 |-> <<Slice("r1", 1, 3, "open")>>, r2 |-> <<[Slice("r2", 2, 2, "open") EXCEPT !.file = "f2"]>>,
                r3 |-> <<Slice("r3", 3, 3, "open"), Slice("r3", 7, 7, "db.q")>>]]}

-----------------------------------------------------------------------------
Pin(type, package) == [kind |-> type, package |-> package]
MCManifests == {{}, {Pin("requirements.txt", "p1"), Pin("package.json", "p2")},
                {Pin("requirements.txt", "p1"), Pin("package.json", "p2"), Pin("package-lock.json", "p3")}}
MCKnown == ("p1" :> {[cves |-> {"v1", "v2"}, breached |-> FALSE]}) @@ ("p2" :> {})
        @@ ("p3" :> {[cves |-> {"v2", "v3"}, breached |-> TRUE], [cves |-> {}, breached |-> FALSE]})

-----------------------------------------------------------------------------
\* An application, an index that re-exports a library that re-exports a core;
\* then the core's module name taken by the library too, and a copy of the core.
Source(exports, default, imports, reexports, uses, calls, flows) ==
  [exports |-> exports, default |-> default, imports |-> imports, reexports |-> reexports, uses |-> uses,
   calls |-> calls, arguments |-> calls, functions |-> exports, parameters |-> exports, flows |-> flows]
Import(path, name, as) == [from |-> path, name |-> name, as |-> as]
MCTexts == [
  app   |-> Source({}, "", {Import("./index", "run", "go"), Import("./index", "default", "main")}, <<>>,
                   {"go", "main"}, {"go"}, {<< <<"import", "./index">>, <<"use", "main">> >>}),
  index |-> Source({"boot"}, "boot", {Import("./lib", "*", "*")}, <<"./lib">>, {}, {}, {}),
  lib   |-> Source({}, "", {Import("core", "*", "*")}, <<"core">>, {}, {}, {}),
  core  |-> Source({"run"}, "", {}, <<>>, {}, {}, {})]
MCRelativeImports == (<<"f1", "./index">> :> "f2") @@ (<<"f2", "./lib">> :> "f3")
MCSuffixMatches   == {<<"src/core", "core">>, <<"api/core", "core">>}

Contents == [f1 |-> "app", f2 |-> "index", f3 |-> "lib", f4 |-> "core"]
Named    == [f1 |-> "src/app", f2 |-> "src/index", f3 |-> "src/lib", f4 |-> "src/core"]
MCRepositories == {[content |-> Contents, module |-> Named],
                   [content |-> Contents, module |-> [Named EXCEPT !["f4"] = "src/lib"]],
                   [content |-> [Contents EXCEPT !["f1"] = "core"], module |-> [Named EXCEPT !["f1"] = "api/core"]]}

-----------------------------------------------------------------------------
VARIABLE part

NoSearch   == fjob.name = "discovery" /\ fgraph = FirstGraph
NoPipeline == an.kind = "code"
NoGraph    == repo = [content |-> Contents, module |-> Named]

StaticInit ==
  /\ part \in {"classifier", "search", "pipeline", "dependencies", "graph"}
  /\ Init /\ DepInit
  /\ FlowInit /\ (part = "search" \/ NoSearch)
  /\ AnInit /\ (part = "pipeline" \/ NoPipeline)
  /\ RgInit /\ (part = "graph" \/ NoGraph)

StaticNext ==
  \/ part = "classifier" /\ Next /\ UNCHANGED <<flowVars, anVars, depVars, rgVars, part>>
  \/ part = "search" /\ FlowNext /\ UNCHANGED <<vars, anVars, depVars, rgVars, part>>
  \/ part = "pipeline" /\ AnNext /\ UNCHANGED <<vars, flowVars, depVars, rgVars, part>>
  \/ part = "dependencies" /\ DepNext /\ UNCHANGED <<vars, flowVars, anVars, rgVars, part>>
  \/ part = "graph" /\ RgNext /\ UNCHANGED <<vars, flowVars, anVars, depVars, part>>

\* The classifier's fairness, so that Finishes is about the behaviours of that
\* part; no liveness is asked of the others.
StaticSpec ==
  /\ StaticInit /\ [][StaticNext]_<<vars, flowVars, anVars, depVars, rgVars, part>>
  /\ WF_vars(Main) /\ \A w \in Workers : WF_vars(Work(w))
=============================================================================
