------------------------------- MODULE Crawl -------------------------------
(***************************************************************************)
(* The breadth-first crawl of one target: crawler.crawl follows links (the *)
(* headless crawl of browser_crawler.py runs the same loop on rendered     *)
(* pages), then state_crawler.crawl_form_transitions submits the forms it  *)
(* found and those each submission reveals.  Every request may fail or be  *)
(* answered with something that is no page.                                *)
(***************************************************************************)
EXTENDS Integers, Sequences, FiniteSets, Functions, Selection

CONSTANTS
  StartUrl,          \* start_url
  Outside,        \* the URLs, and the forms with an action, of other origins
  Sites,          \* [links, forms : URL -> sequence, lands : form -> URL]
  MaxPages, MaxDepth, \* crawl's limits
  MaxForms, MaxChain  \* max_forms and max_depth of crawl_form_transitions

ASSUME CrawlAssumption == {MaxPages, MaxDepth, MaxForms, MaxChain} \subseteq Nat /\ StartUrl \notin Outside

\* Pages link to pages and hold forms; a form of ours is answered by a page.
ASSUME SiteAssumption ==
  \A s \in Sites :
    /\ StartUrl \in DOMAIN s.links /\ DOMAIN s.forms = DOMAIN s.links
    /\ \A u \in DOMAIN s.links : /\ s.links[u] \in Seq(DOMAIN s.links)
                                 /\ s.forms[u] \in Seq(DOMAIN s.lands \cup Outside)
    /\ \A f \in DOMAIN s.lands : s.lands[f] \in DOMAIN s.links

VARIABLES
  site, active_mode,
  walk,           \* "links" | "forms" | "end"
  queue,          \* [item, depth] of what is left to do
  visited,
  urls, crawl_forms,    \* CrawlResult; a form is its _form_key
  submitted,      \* in the order of the submissions
  read, answered, \* history: the URLs, and the forms, that gave a page
  revealed, revealed_forms  \* FormTransitionResult

crawlVars == <<site, active_mode, walk, queue, visited, urls, crawl_forms, submitted, read, answered, revealed, revealed_forms>>

CrawlInit ==
  /\ site \in Sites /\ active_mode \in BOOLEAN
  /\ walk = "links" /\ queue = <<[item |-> StartUrl, depth |-> 0]>>
  /\ visited = {} /\ urls = <<>> /\ crawl_forms = <<>>
  /\ submitted = <<>> /\ read = {} /\ answered = {} /\ revealed = <<>> /\ revealed_forms = <<>>

Ours(items) == Not(items, Outside)
At(items, depth) == [i \in DOMAIN items |-> [item |-> items[i], depth |-> depth]]

\* s followed by the items it does not have yet, each once.
AppendNew[items \in Seq(STRING), s \in Seq(STRING)] ==
  IF items = <<>> THEN s
  ELSE AppendNew[Tail(items), IF Head(items) \in Range(s) THEN s ELSE Append(s, Head(items))]

\* Mutant: queue.pop() takes the newest entry.
Popped_newest == [next |-> queue[Len(queue)], rest |-> SubSeq(queue, 1, Len(queue) - 1)]
Popped == [next |-> Head(queue), rest |-> Tail(queue)]

-----------------------------------------------------------------------------
(***************************************************************************)
(* crawl.                                                                  *)
(***************************************************************************)
Crawling == walk = "links" /\ queue # <<>> /\ Cardinality(visited) < MaxPages

SkipVisited ==
  /\ Crawling /\ Popped.next.item \in visited
  /\ queue' = Popped.rest
  /\ UNCHANGED <<site, active_mode, walk, visited, urls, crawl_forms, submitted, read, answered, revealed, revealed_forms>>

\* The fetch raises, or the answer is not HTML.
VisitPlain ==
  /\ Crawling /\ Popped.next.item \notin visited
  /\ visited' = visited \cup {Popped.next.item} /\ queue' = Popped.rest
  /\ urls' \in {urls, Append(urls, Popped.next.item)}
  /\ UNCHANGED <<site, active_mode, walk, crawl_forms, submitted, read, answered, revealed, revealed_forms>>

VisitPage ==
  /\ Crawling /\ Popped.next.item \notin visited
  /\ LET url == Popped.next.item
         depth == Popped.next.depth
         links == IF depth >= MaxDepth THEN <<>> ELSE Not(Ours(site.links[url]), visited')
     IN  /\ visited' = visited \cup {url}
         /\ urls' = Append(urls, url) /\ read' = read \cup {url}
         /\ crawl_forms' = crawl_forms \o site.forms[url]
         /\ queue' = Popped.rest \o At(links, depth + 1)
  /\ UNCHANGED <<site, active_mode, walk, submitted, answered, revealed, revealed_forms>>

\* The crawl returns; its forms seed the next one, which runs in active mode only.
CrawlEnds ==
  /\ walk = "links" /\ ~Crawling
  /\ IF active_mode THEN walk' = "forms" /\ queue' = At(crawl_forms, 0)
                    ELSE walk' = "end" /\ queue' = <<>>
  /\ UNCHANGED <<site, active_mode, visited, urls, crawl_forms, submitted, read, answered, revealed, revealed_forms>>

-----------------------------------------------------------------------------
(***************************************************************************)
(* crawl_form_transitions.  The page a form stands on is fetched first for *)
(* its hidden values; whether that succeeds changes the values only.       *)
(***************************************************************************)
Submitting == walk = "forms" /\ queue # <<>> /\ Len(submitted) < MaxForms

Submittable(f) == f \notin Range(submitted) /\ f \notin Outside

SkipForm ==
  /\ Submitting /\ ~Submittable(Popped.next.item)
  /\ queue' = Popped.rest
  /\ UNCHANGED <<site, active_mode, walk, visited, urls, crawl_forms, submitted, read, answered, revealed, revealed_forms>>

SubmitPlain ==
  /\ Submitting /\ Submittable(Popped.next.item)
  /\ submitted' = Append(submitted, Popped.next.item) /\ queue' = Popped.rest
  /\ UNCHANGED <<site, active_mode, walk, visited, urls, crawl_forms, read, answered, revealed, revealed_forms>>

SubmitPage ==
  /\ Submitting /\ Submittable(Popped.next.item)
  /\ LET f == Popped.next.item
         depth == Popped.next.depth
         page == site.lands[f]                           \* after redirects
         new == Not(site.forms[page], Range(submitted'))
         seen == <<page>> \o Ours(site.links[page])
     IN  /\ submitted' = Append(submitted, f) /\ answered' = answered \cup {f}
         /\ revealed' = AppendNew[Not(seen, {StartUrl}), revealed]
         /\ revealed_forms' = AppendNew[new, revealed_forms]
         /\ queue' = Popped.rest \o (IF depth < MaxChain THEN At(new, depth + 1) ELSE <<>>)
  /\ UNCHANGED <<site, active_mode, walk, visited, urls, crawl_forms, read>>

TransitionsEnd ==
  /\ walk = "forms" /\ ~Submitting
  /\ walk' = "end" /\ queue' = <<>>
  /\ UNCHANGED <<site, active_mode, visited, urls, crawl_forms, submitted, read, answered, revealed, revealed_forms>>

CrawlNext ==
  \/ SkipVisited \/ VisitPlain \/ VisitPage \/ CrawlEnds
  \/ SkipForm \/ SubmitPlain \/ SubmitPage \/ TransitionsEnd

CrawlSpec == CrawlInit /\ [][CrawlNext]_crawlVars

-----------------------------------------------------------------------------
\* items and those of ours one step further, through the ones that gave a page;
\* next[x] are the items x leads to.
Onward(items, next, through) == items \cup ((UNION {next[x] : x \in items \cap through}) \ Outside)

\* The items of ours at most k steps from `from`.
Within(from, next, through, limit) ==
  LET near[k \in 0..limit] ==
        IF k = 0 THEN from \ Outside
        ELSE Onward(near[k-1], next, through)
  IN  near

PageLinks == [u \in DOMAIN site.links |-> Range(site.links[u])]
FormLinks == [f \in DOMAIN site.lands |-> Range(site.forms[site.lands[f]])]

\* `done` is what a breadth-first search over `near` with room for `room` items does.
BreadthFirst(done, near, limit, room) ==
  /\ done \subseteq near[limit] /\ Cardinality(done) <= room
  /\ \/ done = near[limit]
     \/ /\ Cardinality(done) = room
        /\ \E k \in 0..limit : done \subseteq near[k] /\ (k > 0 => near[k-1] \subseteq done)

(***************************************************************************)
(* However the target's pages link each other, in circles or by several    *)
(* paths, and whichever requests fail, the two crawls cover what is within *)
(* their depth, nothing else, each item once, and when their limit stops   *)
(* them they have covered the nearest items first.                         *)
(***************************************************************************)
CrawlIsNearestFirst ==
  LET pages == Within({StartUrl}, PageLinks, read, MaxDepth)
      chain == Within(Range(crawl_forms), FormLinks, answered, MaxChain)
  IN  /\ IsInjective(urls) /\ IsInjective(submitted)
      /\ walk # "links" => BreadthFirst(visited, pages, MaxDepth, MaxPages)
      /\ walk = "end" => IF active_mode THEN BreadthFirst(Range(submitted), chain, MaxChain, MaxForms)
                                        ELSE submitted = <<>>
=============================================================================
