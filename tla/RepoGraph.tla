----------------------------- MODULE RepoGraph ------------------------------
(***************************************************************************)
(* MultiFileRepositoryGraph.build: the files of a repository are parsed by *)
(* a thread pool, through a cache of graphs, into one symbol table; then   *)
(* re-exports are expanded and imports, usages and calls are linked across *)
(* the files.  A node is <<file whose graph holds it, its label>>.         *)
(***************************************************************************)
EXTENDS Integers, Sequences, FiniteSets, SequencesExt

CONSTANTS
  Repositories,   \* [content : file -> text, module : file -> name]
  Texts,          \* text -> what is in it, see below
  RelativeImports,\* <<file, path>> -> the file a path with leading dots names
  SuffixMatches,  \* the <<module name, path>> of which one ends with the other
  ParseThreads, MaxEntries

(***************************************************************************)
(* A text has its exports, of which default is the default one; imports,   *)
(* [from, name, as] with the names "*" and "default" too; the paths it     *)
(* reexports, in order; the names it uses, those it calls and, of these,   *)
(* the ones called with an argument; the functions it defines and those    *)
(* with a parameter; and flows, the parser's own edges between its nodes,  *)
(* each a <<kind, label>>.  One statement imports all it imports from a    *)
(* path, so it is one node.                                                *)
(***************************************************************************)
ASSUME TextAssumption == \A t \in DOMAIN Texts : Texts[t].reexports \in Seq(STRING)
ASSUME RepositoryAssumption ==
  \A r \in Repositories : /\ DOMAIN r.module = DOMAIN r.content
                          /\ \A f \in DOMAIN r.content : r.content[f] \in DOMAIN Texts

VARIABLES
  repo,
  rgStage,        \* "parse" | "expand" | "link" | "flow" | "call" | "done"
  rgThread,       \* file -> "queued" | "running" | "added" | "failed"
  rgCache,        \* <<text, owner>> of the cached graphs, oldest first
  rgOwner,        \* file -> the file whose node ids its graph has
  rgOrder,        \* the names of modules, as the dict lists them
  rgModules,      \* name -> file
  rgExports,      \* file -> symbol -> [node, default]
  rgEdges         \* [kind, from, to], what linking adds

rgVars == <<repo, rgStage, rgThread, rgCache, rgOwner, rgOrder, rgModules, rgExports, rgEdges>>

EmptyTable == [x \in {} |-> x]

RgInit ==
  /\ repo \in Repositories
  /\ rgStage = "parse" /\ rgThread = [f \in DOMAIN repo.content |-> "queued"]
  /\ rgCache = <<>> /\ rgOwner = EmptyTable /\ rgOrder = <<>> /\ rgModules = EmptyTable /\ rgExports = EmptyTable
  /\ rgEdges = {}

Text(f)  == Texts[repo.content[f]]
Added    == {f \in DOMAIN repo.content : rgThread[f] = "added"}
Table    == {rgModules[n] : n \in DOMAIN rgModules}
Joined(function, x, value) == [y \in DOMAIN function \cup {x} |-> IF y = x THEN value ELSE function[y]]

-----------------------------------------------------------------------------
(***************************************************************************)
(* _parse_file in the thread pool.                                         *)
(***************************************************************************)
Cached(f) == {i \in DOMAIN rgCache : rgCache[i][1] = repo.content[f]}

\* A hit takes the cached graph with the node ids it has.
TakeCached(f) ==
  /\ rgStage = "parse" /\ rgThread[f] = "queued"
  /\ Cardinality({g \in DOMAIN rgThread : rgThread[g] = "running"}) < ParseThreads
  /\ \E i \in Cached(f) : rgOwner' = Joined(rgOwner, f, rgCache[i][2])
  /\ rgThread' = [rgThread EXCEPT ![f] = "running"]
  /\ UNCHANGED <<repo, rgStage, rgCache, rgOrder, rgModules, rgExports, rgEdges>>

\* A miss: the parser runs; until it ends, others may miss the same text.
MissCache(f) ==
  /\ rgStage = "parse" /\ rgThread[f] = "queued" /\ Cached(f) = {}
  /\ Cardinality({g \in DOMAIN rgThread : rgThread[g] = "running"}) < ParseThreads
  /\ rgThread' = [rgThread EXCEPT ![f] = "running"]
  /\ UNCHANGED <<repo, rgStage, rgCache, rgOwner, rgOrder, rgModules, rgExports, rgEdges>>

\* _namespace_graph_ids, set and _prune, which drops the oldest files.
StoreGraph(f) ==
  /\ rgThread[f] = "running" /\ f \notin DOMAIN rgOwner
  /\ rgOwner' = Joined(rgOwner, f, f)
  /\ LET kept == Append(SelectSeq(rgCache, LAMBDA e : e[1] # repo.content[f]), <<repo.content[f], f>>)
     IN  rgCache' = IF Len(kept) > MaxEntries THEN Tail(kept) ELSE kept
  /\ UNCHANGED <<repo, rgStage, rgThread, rgOrder, rgModules, rgExports, rgEdges>>

OwnExports(f, owner) ==
  [s \in Text(f).exports |-> [node |-> <<owner, "export", s>>, default |-> s = Text(f).default]]

\* add_module, under the lock.  A name that is there already keeps its place.
AddModule(f) ==
  /\ rgThread[f] = "running" /\ f \in DOMAIN rgOwner
  /\ rgThread' = [rgThread EXCEPT ![f] = "added"]
  /\ rgOrder' = IF repo.module[f] \in DOMAIN rgModules THEN rgOrder ELSE Append(rgOrder, repo.module[f])
  /\ rgModules' = Joined(rgModules, repo.module[f], f)
  /\ rgExports' = Joined(rgExports, f, OwnExports(f, rgOwner[f]))
  /\ UNCHANGED <<repo, rgStage, rgCache, rgOwner, rgEdges>>

\* The parser or the extraction raised: build goes on without the file.
ParseFails(f) ==
  /\ rgThread[f] = "running" /\ rgThread' = [rgThread EXCEPT ![f] = "failed"]
  /\ UNCHANGED <<repo, rgStage, rgCache, rgOwner, rgOrder, rgModules, rgExports, rgEdges>>

EndParsing ==
  /\ rgStage = "parse" /\ \A f \in DOMAIN rgThread : rgThread[f] \in {"added", "failed"}
  /\ rgStage' = "expand"
  /\ UNCHANGED <<repo, rgThread, rgCache, rgOwner, rgOrder, rgModules, rgExports, rgEdges>>

-----------------------------------------------------------------------------
(***************************************************************************)
(* resolve_import: a relative path, a module's name, the first module one  *)
(* of whose name and path ends with the other; the empty set otherwise.    *)
(***************************************************************************)
Resolved(f, path) ==
  LET relative == IF <<f, path>> \in DOMAIN RelativeImports THEN {RelativeImports[<<f, path>>]} \cap Added ELSE {}
      suffixed == {i \in DOMAIN rgOrder : <<rgOrder[i], path>> \in SuffixMatches}
  IN  IF relative # {} THEN relative
      ELSE IF path \in DOMAIN rgModules THEN {rgModules[path]}
      ELSE {rgModules[rgOrder[i]] : i \in {k \in suffixed : \A j \in suffixed : k <= j}}

\* One line of a pass of expand_reexports: the exports of the module it names
\* join those of its file, and a name the file has already wins.
Takes(exports, f, path) ==
  LET own   == exports[f]
      other == exports[CHOOSE g \in Resolved(f, path) : TRUE]
  IN  IF Resolved(f, path) = {} THEN exports
      ELSE [exports EXCEPT ![f] = [s \in DOMAIN own \cup DOMAIN other |-> IF s \in DOMAIN own THEN own[s] ELSE other[s]]]

\* The lines of a module, then the modules: one pass over the table.
Reexported(exports, f) ==
  LET taken[k \in 0..Len(Text(f).reexports)] ==
        IF k = 0 THEN exports ELSE Takes(taken[k - 1], f, Text(f).reexports[k])
  IN  taken[Len(Text(f).reexports)]

Pass ==
  LET passed[k \in 0..Len(rgOrder)] ==
        IF k = 0 THEN rgExports ELSE Reexported(passed[k - 1], rgModules[rgOrder[k]])
  IN  passed[Len(rgOrder)]

\* Mutant: one pass is enough.
Settled_at_once == TRUE
Settled == Pass = rgExports

ExpandPass ==
  /\ rgStage = "expand"
  /\ rgExports' = Pass /\ rgStage' = IF Settled THEN "link" ELSE "expand"
  /\ UNCHANGED <<repo, rgThread, rgCache, rgOwner, rgOrder, rgModules, rgEdges>>

-----------------------------------------------------------------------------
(***************************************************************************)
(* CrossFileLinker.  A binding is an import of a module of the table, the  *)
(* file its path resolves to and a symbol of that file that it names.      *)
(***************************************************************************)
Edge(kind, from, to) == [kind |-> kind, from |-> from, to |-> to]
ImportNode(f, i)     == <<rgOwner[f], "import", i.from>>
ImportsOf(f)         == {<<f, i>> : i \in Text(f).imports}
Imports              == UNION {ImportsOf(f) : f \in Table}
Targets(fi)          == Resolved(fi[1], fi[2].from) \cap Added

Names(i, g, s) ==
  \/ i.name = "*"
  \/ i.name = "default" /\ rgExports[g][s].default
  \/ i.name \notin {"*", "default"} /\ i.name = s

ImportEdges ==
  UNION {UNION {{Edge("import", ImportNode(fi[1], fi[2]), rgExports[g][s].node) :
                   s \in {t \in DOMAIN rgExports[g] : Names(fi[2], g, t)}} : g \in Targets(fi)} : fi \in Imports}

ModuleRefs ==
  UNION {{Edge("moduleRef", ImportNode(fi[1], fi[2]), <<g, "module", g>>) : g \in Targets(fi)} : fi \in Imports}

\* link_export_to_usages, for the modules of the table: the identifiers of the
\* importer with the name it knows the symbol by, and the calls they head.
UsageEdges ==
  UNION {UNION {
    LET f == fi[1]
        i == fi[2]
        symbols == {s \in DOMAIN rgExports[g] : Names(i, g, s) \/ i.name = s}
    IN  {Edge("flow", rgExports[g][s].node, <<rgOwner[f], "use", i.as>>) : s \in IF i.as \in Text(f).uses THEN symbols ELSE {}}
        \cup {Edge("call", <<rgOwner[f], "call", i.as>>, rgExports[g][s].node) : s \in IF i.as \in Text(f).calls THEN symbols ELSE {}}
    : g \in (Targets(fi) \cap Table) \ {fi[1]}} : fi \in Imports}

InFile == UNION {{Edge("flow", <<rgOwner[f]>> \o e[1], <<rgOwner[f]>> \o e[2]) : e \in Text(f).flows} : f \in Added}

Link ==
  /\ rgStage = "link" /\ rgStage' = "flow"
  /\ rgEdges' = InFile \cup ImportEdges \cup UsageEdges \cup ModuleRefs
  /\ UNCHANGED <<repo, rgThread, rgCache, rgOwner, rgOrder, rgModules, rgExports>>

Of(kind) == {e \in rgEdges : e.kind = kind}

\* _propagate_cross_file_dfg: what is imported flows into the import, and an
\* import stands for one of the symbols it brings, the last one linked.
PropagateFlow ==
  /\ rgStage = "flow" /\ rgStage' = "call"
  /\ LET importing == {e.from : e \in Of("import")}
     IN  \E identity \in [importing -> {e.to : e \in Of("import")}] :
           /\ \A n \in importing : Edge("import", n, identity[n]) \in rgEdges
           /\ rgEdges' = rgEdges
                \cup {Edge("flow", e.to, e.from) : e \in Of("import") \cup Of("moduleRef")}
                \cup {Edge("flow", identity[e.from], e.to) : e \in {x \in Of("flow") : x.from \in importing}}
                \cup {Edge("flow", e.from, identity[e.to]) : e \in {x \in Of("flow") : x.to \in importing}}
  /\ UNCHANGED <<repo, rgThread, rgCache, rgOwner, rgOrder, rgModules, rgExports>>

\* _link_call_graph, by the name alone, and _propagate_cross_file_arg_taint
\* over the calls that leave their file.
LinkCalls ==
  /\ rgStage = "call" /\ rgStage' = "done"
  /\ LET calls   == UNION {{Edge("call", <<rgOwner[f], "call", n>>, <<rgOwner[g], "export", n>>) :
                              n \in Text(f).calls \cap Text(g).functions} : f \in Added, g \in Added}
         all     == Of("call") \cup calls
         passing == {e \in all : /\ e.from[1] # e.to[1]
                                 /\ \E f, g \in Added : /\ <<rgOwner[f], rgOwner[g]>> = <<e.from[1], e.to[1]>>
                                                        /\ e.from[3] \in Text(f).arguments
                                                        /\ e.to[3] \in Text(g).parameters}
     IN  rgEdges' = rgEdges \cup all
            \cup {Edge("pass", <<e.from[1], "argument", e.from[3]>>, <<e.to[1], "parameter", e.to[3]>>) : e \in passing}
  /\ UNCHANGED <<repo, rgThread, rgCache, rgOwner, rgOrder, rgModules, rgExports>>

RgNext ==
  \/ \E f \in DOMAIN repo.content : TakeCached(f) \/ MissCache(f) \/ StoreGraph(f) \/ AddModule(f) \/ ParseFails(f)
  \/ EndParsing
  \/ ExpandPass
  \/ Link
  \/ PropagateFlow
  \/ LinkCalls
  \/ (rgStage = "done" /\ UNCHANGED rgVars)

RgSpec == RgInit /\ [][RgNext]_rgVars

-----------------------------------------------------------------------------
\* The files whose own exports g offers: the least set that has g and, with a
\* file of the table, the files it re-exports.
Reexports(f) == UNION {Resolved(f, Text(f).reexports[k]) : k \in DOMAIN Text(f).reexports}
Follows(set) == \A f \in set \cap Table : Reexports(f) \subseteq set
Offering(g)  == {h \in Added : \A set \in SUBSET Added : g \in set /\ Follows(set) => h \in set}

(***************************************************************************)
(* Whatever order the threads end in and whichever files come out of the   *)
(* cache, an import of a name is linked to a file that defines it, behind  *)
(* any chain of re-exports, and when the module imported from is in the    *)
(* table each use of the name receives the flow from that definition, and  *)
(* each call of it the call edge (lines 142-170, 1170-1390).               *)
(***************************************************************************)
ImportsReachTheirSource ==
  rgStage = "done" =>
    \A fi \in Imports : \A g \in Targets(fi) :
      LET f == fi[1]
          i == fi[2]
          origins == {<<rgOwner[h], "export", i.name>> : h \in {k \in Offering(g) : i.name \in Text(k).exports}}
      IN  i.name # "default" /\ origins # {} =>
            \E n \in origins :
              /\ Edge("import", ImportNode(f, i), n) \in rgEdges
              /\ g \in Table \ {f} /\ i.as \in Text(f).uses  => Edge("flow", n, <<rgOwner[f], "use", i.as>>) \in rgEdges
              /\ g \in Table \ {f} /\ i.as \in Text(f).calls => Edge("call", <<rgOwner[f], "call", i.as>>, n) \in rgEdges

=============================================================================
