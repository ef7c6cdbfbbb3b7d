---------------------------- MODULE DynamicSweep ----------------------------
(***************************************************************************)
(* One call of ScanService._run_dynamic_checks: the sweep of one live      *)
(* target.  The stages run strictly one after the other on one event loop; *)
(* what makes the function hard is its failure structure.  Some stages     *)
(* contain their failures per item, some as a block, some not at all; a    *)
(* progress write that fails or the caller's wait_for may end the sweep at *)
(* any await; and a listener thread, a browser and the HTTP clients have   *)
(* to be gone whichever way it ends.                                       *)
(***************************************************************************)
EXTENDS Integers, Sequences, SequencesExt

CONSTANTS
  Target,               \* target_url
  URLs,                 \* the URLs discovery may report, Target among them
  MaxFound,             \* bound: URLs one discovery step reports
  Configs,              \* the scan requests that are swept
  MAX_ADDITIONAL_CRAWL_URLS, MAX_OPENAPI_URLS, MAX_FORMS_TO_PROBE,
  MAX_SSRF_URLS_TO_PROBE, MAX_DOM_XSS_URLS_TO_PROBE,
  progress_start, progress_end

AuthModes == {"none", "bearer", "api_key", "form_login", "oauth2"}

\* The payload rules, as the sweep tells them apart: SIDE stands for
\* REQUEST_SMUGGLING and CSRF_TOKEN_NOT_VALIDATED (require active_mode, audited),
\* INJECT for the other rules that require active_mode, READ for the rest.
PayloadRules == <<"SIDE", "INJECT", "READ">>

\* What a bridge target re-tests: one of the three special-cased rules or a
\* payload rule; every rule the bridge names is in the catalogue.
BridgeRules == {"SSRF_LIVE", "DOM_XSS_LIVE", "JWT_WEAKNESS_LIVE"} \cup Range(PayloadRules)

(***************************************************************************)
(* A request: the options of ScanStart that steer the sweep, and of the    *)
(* target only what the logout check can tell apart: whether logging out   *)
(* ends the session (kills), and how it answers a request for target_url   *)
(* that carries no valid session (access).  A user probe is gated when it  *)
(* requires active_mode; "second" says that a second actor is configured.  *)
(* Only a hybrid scan has a repository, and with it bridge targets.        *)
(***************************************************************************)
ConfigType ==
  [active : BOOLEAN, hybrid : BOOLEAN, browser : BOOLEAN, openapi : BOOLEAN,
   auth : AuthModes, second : BOOLEAN, bridge : Seq(BridgeRules),
   user : Seq({"gated", "ungated", "needs_second"}),
   kills : BOOLEAN, access : {"401", "403", "redirect", "open"}]

ASSUME SweepAssumption ==
  /\ Target \in URLs
  /\ Configs \subseteq ConfigType
  /\ \A c \in Configs : c.bridge # <<>> => c.hybrid
  /\ {MAX_ADDITIONAL_CRAWL_URLS, MAX_OPENAPI_URLS, MAX_FORMS_TO_PROBE, MaxFound,
      MAX_SSRF_URLS_TO_PROBE, MAX_DOM_XSS_URLS_TO_PROBE} \subseteq Nat
  /\ progress_start \in Nat /\ progress_end \in Nat /\ progress_start <= progress_end

VARIABLES
  cfg,          \* the request
  stage,        \* the stage the coroutine is in
  todo,         \* items of this stage not yet tried (a list the code loops over)
  check_urls,
  forms,        \* Len(discovered_form_objects)
  findings,
  active_mode_audit,
  collaborator, \* "none" | "up" | "down": the out-of-band listener
  pair,         \* "new" | "open" | "closed": the HTTP clients of the session pair
  browser,      \* "closed" | "open": the DOM-XSS sweep's Chromium
  login,        \* "none" | "valid" | "ended": does the target honour the session
  checkpoint, progress,
  ended,        \* how the try block was left
  tried         \* history: the items that were attempted, as <<stage, item>>

vars == <<cfg, stage, todo, check_urls, forms, findings, active_mode_audit, collaborator,
          pair, browser, login, checkpoint, progress, ended, tried>>
swept   == <<check_urls, forms, findings, active_mode_audit, login, tried>>
bounded == <<cfg, collaborator, pair, browser>>
shown   == <<checkpoint, progress>>

_DAST_TOTAL_CHECKPOINTS == 15

Discovery == {"crawl", "openapi", "source", "browser", "state"}
Probing   == {"dom", "bridge", "xss", "ssrf", "jwt", "visible", "user"}
Stages    == Discovery \cup Probing \cup {"announce", "payload", "logout", "final"}
Exits     == {"returned", "raised", "cancelled"}

Order == <<"crawl", "openapi", "source", "browser", "state", "announce", "payload", "dom",
           "bridge", "xss", "ssrf", "jwt", "logout", "visible", "user", "final">>

Position(s) == CHOOSE i \in DOMAIN Order : Order[i] = s

\* Stages whose code, progress write included, stands under an if.
Skipped(s, nforms) ==
  \/ s = "source" /\ ~cfg.hybrid
  \/ s \in {"browser", "dom"} /\ ~cfg.browser
  \/ s = "state" /\ nforms = 0
  \/ s \in {"logout", "visible"} /\ cfg.auth = "none"

\* t is the next stage after s whose if holds.
Follows(s, t, nforms) ==
  /\ Position(s) < Position(t) /\ ~Skipped(t, nforms)
  /\ \A u \in Stages :
       Position(s) < Position(u) /\ Position(u) < Position(t) => Skipped(u, nforms)

Take(s, n) == SubSeq(s, 1, IF n < Len(s) THEN n ELSE Len(s))
Numbered(n) == [i \in 1..n |-> i]

\* The list the loop of stage s runs over, given the URLs and forms found.
Items(s, urls, nforms) ==
  CASE s = "dom"     -> Numbered(2 * Len(Take(urls, MAX_DOM_XSS_URLS_TO_PROBE)))
    [] s = "bridge"  -> Numbered(Len(cfg.bridge))
    [] s = "xss"     -> Numbered(IF nforms < MAX_FORMS_TO_PROBE THEN nforms ELSE MAX_FORMS_TO_PROBE)
    [] s = "ssrf"    -> IF cfg.active THEN Numbered(Len(Take(urls, MAX_SSRF_URLS_TO_PROBE))) ELSE <<>>
    [] s = "jwt"     -> IF cfg.auth = "bearer" THEN <<1>> ELSE <<>>
    [] s = "visible" -> <<1>>
    [] s = "user"    -> Numbered(Len(cfg.user))
    [] OTHER         -> <<>>

-----------------------------------------------------------------------------
(***************************************************************************)
(* Progress.  _dast_step advances the checkpoint and writes the document;  *)
(* the write may raise, which nothing but the outer except contains.       *)
(***************************************************************************)
\* Mutant: the window's start is forgotten.
Progress_from_zero(c) ==
  LET pct == ((progress_end - progress_start) * c) \div _DAST_TOTAL_CHECKPOINTS
  IN  IF pct < progress_end THEN pct ELSE progress_end

Progress(c) ==
  LET pct == progress_start + ((progress_end - progress_start) * c) \div _DAST_TOTAL_CHECKPOINTS
  IN  IF pct < progress_end THEN pct ELSE progress_end

_dast_step ==
  /\ checkpoint' = IF checkpoint < _DAST_TOTAL_CHECKPOINTS THEN checkpoint + 1 ELSE checkpoint
  /\ progress' = Progress(checkpoint')

\* Leave stage s: write the progress and start the next stage.
Advance(s) ==
  \/ /\ _dast_step
     /\ \E t \in Stages : /\ Follows(s, t, forms')
                         /\ stage' = t
                         /\ todo' = Items(t, check_urls', forms')
     /\ UNCHANGED ended
  \/ /\ stage' = "except" /\ ended' = "failed"
     /\ UNCHANGED <<todo, shown>>

-----------------------------------------------------------------------------
(***************************************************************************)
(* Findings.  v is "skipped" or "not_configured" when the check never      *)
(* touched the target, which is what _audit leaves out.                    *)
(***************************************************************************)
Touched(f) == f.v \notin {"skipped", "not_configured"}

Finding(s, r, i, v) == [src |-> s, rule |-> r, item |-> i, v |-> v]

Gated == IF cfg.active THEN "ran" ELSE "skipped"

AuditedRule(f) == f.rule \in {"SIDE", "SSRF_LIVE"}

_audit(log, f) == IF Touched(f) THEN Append(log, f) ELSE log

\* run_payload_checks over n URLs: a rule with side effects is skipped
\* without active_mode, a check that raises becomes a NOT_TESTED finding, so
\* there is one finding per URL and rule.
PayloadFindings(s, i, rules, n) ==
  [k \in 1..(n * Len(rules)) |->
    LET r == rules[((k - 1) % Len(rules)) + 1]
    IN  Finding(s, r, IF s = "payload" THEN k ELSE i, IF r = "READ" THEN "ran" ELSE Gated)]

\* What bridge target i yields; a target whose gate is closed is passed over.
BridgeResults(i) ==
  LET r == cfg.bridge[i]
  IN  CASE r = "SSRF_LIVE"         -> IF collaborator = "up" THEN <<Finding("bridge", r, i, Gated)>> ELSE <<>>
        [] r = "DOM_XSS_LIVE"      -> IF cfg.browser THEN <<Finding("bridge", r, i, Gated)>> ELSE <<>>
        [] r = "JWT_WEAKNESS_LIVE" -> IF cfg.auth = "bearer" THEN <<Finding("bridge", r, i, Gated)>> ELSE <<>>
        [] OTHER                   -> PayloadFindings("bridge", i, <<r>>, 1)

\* The findings that the probe of item i of another stage may return.
ProbeFindings(s, i) ==
  CASE s = "dom"     -> {Finding(s, "DOM_OR_REDIRECT", i, Gated)}
    [] s = "xss"     -> {Finding(s, "STORED_XSS", i, Gated)}
    [] s = "ssrf"    -> {Finding(s, "SSRF_LIVE", i, Gated)}
    [] s = "jwt"     -> {Finding(s, "JWT_WEAKNESS_LIVE", i, v) :
                           v \in {Gated} \cup IF cfg.active THEN {"not_configured"} ELSE {}}
    [] s = "visible" -> {Finding(s, "LOGOUT_VISIBLE_ON_EVERY_PAGE", i, "ran")}
    [] s = "user"    -> {Finding(s, "USER", i,
                           CASE cfg.user[i] = "gated" -> Gated
                             [] cfg.user[i] = "needs_second" /\ ~cfg.second -> "not_configured"
                             [] OTHER -> "ran")}

\* Requesting a logout URL, as a crawler following links or a check given the
\* URLs found may do, ends the session of a target that honours logout.
LoggedOut(l) == IF cfg.kills /\ cfg.auth # "none" THEN "ended" ELSE l
Visited(l) == {l, LoggedOut(l)}

\* DastSession.request: a 401 makes a form_login or oauth2 session log in
\* again and retry, once; a bearer or api_key session stays as it is, and so
\* does any session that is turned away with something other than 401.
CanReauth == cfg.auth \in {"form_login", "oauth2"} /\ cfg.access = "401"
Reauthed(l) == {l} \cup IF l = "ended" /\ CanReauth THEN {"valid"} ELSE {}
AfterRequest(l) == Visited(l) \cup Reauthed(l)

-----------------------------------------------------------------------------
Init ==
  /\ cfg \in Configs
  /\ stage = "setup" /\ todo = <<>>
  /\ check_urls = <<>> /\ forms = 0
  /\ findings = <<>> /\ active_mode_audit = <<>>
  /\ collaborator = "none" /\ pair = "new" /\ browser = "closed" /\ login = "none"
  /\ checkpoint = 0 /\ progress = progress_start
  /\ ended = "" /\ tried = {}

\* The listener is started before the try, and only under active_mode.  The
\* warning about its loopback default is a database write that may raise,
\* and then there is no listener yet and nothing catches the exception.
Setup ==
  /\ stage = "setup"
  /\ \/ /\ collaborator' = IF cfg.active THEN "up" ELSE "none"
        /\ stage' = "connect"
        /\ UNCHANGED ended
     \/ /\ cfg.active
        /\ stage' = "raised" /\ ended' = "failed"
        /\ UNCHANGED collaborator
  /\ UNCHANGED <<cfg, todo, pair, browser, swept, shown>>

\* DastSessionPair.__aenter__: primary and second actor log in.  When a login
\* raises, __aexit__ does not run and the clients stay as they are; when the
\* first progress write raises, it does.
Connect ==
  /\ stage = "connect"
  /\ \/ /\ pair' = "open"
        /\ login' = IF cfg.auth = "none" THEN "none" ELSE "valid"
        /\ check_urls' = <<Target>>
        /\ _dast_step
        /\ stage' = "crawl"
        /\ UNCHANGED ended
     \/ /\ stage' = "except" /\ ended' = "failed"
        /\ pair' \in {"new", "open"}
        /\ login' = IF pair' = "new" \/ cfg.auth = "none" THEN "none" ELSE "valid"
        /\ UNCHANGED <<check_urls, shown>>
  /\ UNCHANGED <<cfg, todo, forms, findings, active_mode_audit, tried, collaborator, browser>>

\* How many of the new URLs stage s takes over; source routes are not capped.
Cap(s) ==
  CASE s = "openapi" -> MAX_OPENAPI_URLS
    [] s = "source"  -> MaxFound
    [] OTHER         -> MAX_ADDITIONAL_CRAWL_URLS

\* found: what the step reports and the list did not hold before it; a URL that
\* the step itself reports twice is taken over twice.
Merged(s, found) == check_urls \o Take(found, Cap(s))

\* crawl, OpenAPI, source routes, browser crawl and form transitions: each
\* contains its own failure and leaves what was known.  Bound: one form per
\* step, and one more than the stored-XSS loop takes.
Discover(s) ==
  /\ stage = s
  /\ \/ s = "openapi" /\ ~cfg.openapi /\ UNCHANGED <<check_urls, forms, login>>
     \/ s = "state" /\ ~cfg.active /\ UNCHANGED <<check_urls, forms, login>>
     \/ /\ s = "openapi" => cfg.openapi
        /\ s = "state" => cfg.active
        /\ \/ /\ \E found \in SeqOf(URLs \ Range(check_urls), MaxFound) : check_urls' = Merged(s, found)
              /\ forms' \in IF s \in {"crawl", "browser", "state"}
                            THEN {forms, forms + 1} \cap 0..(MAX_FORMS_TO_PROBE + 1) ELSE {forms}
           \/ UNCHANGED <<check_urls, forms>>
        /\ login' \in CASE s \in {"crawl", "state"} -> AfterRequest(login)
                       [] s = "browser"           -> Visited(login)
                       [] s = "openapi"           -> Reauthed(login)
                       [] OTHER                   -> {login}
  /\ Advance(s)
  /\ UNCHANGED <<bounded, findings, active_mode_audit, tried>>

\* The progress line before the payload checks.
Announce ==
  /\ stage = "announce"
  /\ UNCHANGED <<bounded, swept>>
  /\ Advance("announce")

\* The payload sweep assigns its whole result at once: a timeout leaves
\* nothing of it and is not contained here.
Payload ==
  /\ stage = "payload"
  /\ \/ /\ findings' = PayloadFindings("payload", 0, PayloadRules, Len(check_urls))
        /\ login' \in AfterRequest(login)
        /\ UNCHANGED <<check_urls, forms, active_mode_audit>>
        /\ tried' = tried \cup {<<"payload", 0>>}
        /\ Advance("payload")
     \/ /\ stage' = "except" /\ ended' = "timeout"
        /\ UNCHANGED <<todo, swept, shown>>
  /\ UNCHANGED bounded
\* The DOM-XSS and redirect probes share one browser, which a finally closes.
\* They are contained as one block: the first failure ends the stage.
DomBlock ==
  /\ stage = "dom" /\ todo # <<>>
  /\ \/ /\ browser = "closed"
        /\ \/ browser' = "open" /\ UNCHANGED todo
           \/ todo' = <<>> /\ UNCHANGED browser
        /\ UNCHANGED <<findings, active_mode_audit, tried>>
     \/ /\ browser = "open"
        /\ tried' = tried \cup {<<"dom", Head(todo)>>}
        /\ \/ /\ \E f \in ProbeFindings("dom", Head(todo)) :
                 /\ findings' = Append(findings, f)
                 /\ active_mode_audit' = _audit(active_mode_audit, f)
              /\ todo' = Tail(todo)
           \/ /\ todo' = <<>>
              /\ UNCHANGED <<findings, active_mode_audit>>
        /\ browser' = IF todo' = <<>> THEN "closed" ELSE "open"
  /\ login' \in IF browser = "open" THEN Visited(login) ELSE {login}
  /\ UNCHANGED <<cfg, stage, check_urls, forms, collaborator, pair, shown, ended>>

\* Mutant: a closed gate leaves the loop instead of passing on.
BridgeTarget_breaks ==
  /\ stage = "bridge" /\ todo # <<>>
  /\ tried' = tried \cup {<<"bridge", Head(todo)>>}
  /\ todo' = IF BridgeResults(Head(todo)) = <<>> THEN <<>> ELSE Tail(todo)
  /\ \/ /\ findings' = findings \o BridgeResults(Head(todo))
        /\ login' \in AfterRequest(login)
     \/ UNCHANGED <<findings, login>>
  /\ UNCHANGED <<bounded, stage, check_urls, forms, active_mode_audit, shown, ended>>

\* One bridge target: a closed gate or a failure passes on to the next one.
BridgeTarget ==
  /\ stage = "bridge" /\ todo # <<>>
  /\ tried' = tried \cup {<<"bridge", Head(todo)>>}
  /\ todo' = Tail(todo)
  /\ \/ /\ findings' = findings \o BridgeResults(Head(todo))
        /\ login' \in AfterRequest(login)
     \/ UNCHANGED <<findings, login>>
  /\ UNCHANGED <<bounded, stage, check_urls, forms, active_mode_audit, shown, ended>>

\* Mutant: an item that failed is queued again.
Probe_requeues(s) ==
  /\ stage = s /\ todo # <<>>
  /\ tried' = tried \cup {<<s, Head(todo)>>}
  /\ \/ /\ todo' = Tail(todo)
        /\ \E f \in ProbeFindings(s, Head(todo)) :
             /\ findings' = Append(findings, f)
             /\ active_mode_audit' = _audit(active_mode_audit, f)
        /\ login' \in AfterRequest(login)
     \/ /\ todo' = Append(Tail(todo), Head(todo))
        /\ UNCHANGED <<findings, active_mode_audit, login>>
  /\ UNCHANGED <<bounded, stage, check_urls, forms, shown, ended>>

\* One item of the loops that contain failures per item and audit what they
\* append: stored XSS, SSRF, JWT, logout visibility, user-supplied probes.
Probe(s) ==
  /\ stage = s /\ todo # <<>>
  /\ tried' = tried \cup {<<s, Head(todo)>>}
  /\ todo' = Tail(todo)
  /\ \/ /\ \E f \in ProbeFindings(s, Head(todo)) :
             /\ findings' = Append(findings, f)
             /\ active_mode_audit' = _audit(active_mode_audit, f)
        /\ login' \in AfterRequest(login)
     \/ UNCHANGED <<findings, active_mode_audit, login>>
  /\ UNCHANGED <<bounded, stage, check_urls, forms, shown, ended>>

\* Mutant: the pass records every check that ran, those that recorded
\* themselves included.
AuditSweep_all == active_mode_audit \o SelectSeq(findings, Touched)

\* A finite set of numbers, from the least on.
InOrder(S) == [k \in 1..Cardinality(S) |-> CHOOSE i \in S : Cardinality({j \in S : j <= i}) = k]

\* The findings of the payload checks and the bridge that the audit record
\* is to hold; the later stages audit their own.
AuditSweep ==
  LET picked == InOrder({i \in DOMAIN findings : AuditedRule(findings[i]) /\ Touched(findings[i])})
  IN  active_mode_audit \o [k \in DOMAIN picked |-> findings[picked[k]]]

\* A loop is through.  After the bridge's progress line the audit pass runs.
LoopDone(s) ==
  /\ stage = s /\ todo = <<>>
  /\ UNCHANGED <<check_urls, forms, findings, login, tried, bounded>>
  /\ Advance(s)
  /\ active_mode_audit' = IF s = "bridge" /\ stage' # "except" THEN AuditSweep ELSE active_mode_audit

\* The answer to the request for target_url that follows the logout, given
\* the session l it is made with: verdict and session afterwards.
PostLogout(l) ==
  IF l # "ended" \/ cfg.access = "open" THEN {<<"fail", l>>}
  ELSE IF CanReauth THEN {<<"fail", "valid">>, <<"not_tested", "ended">>}
  ELSE {<<"pass", l>>}

\* discover_logout_url (a link found on the page, or a candidate path, which is
\* then already requested), the anonymous baseline request, which follows
\* redirects and may fail, and the scenario with its answers 429 and error.
LogoutOutcomes ==
  LET reached == {login, LoggedOut(login)}
  IN  {<<"not_tested", login>>}
      \cup {<<v, l>> : v \in {"not_tested", "inconclusive"}, l \in reached}
      \cup PostLogout(LoggedOut(login))

Logout ==
  /\ stage = "logout"
  /\ \E o \in LogoutOutcomes :
       /\ findings' = Append(findings, Finding("logout", "LOGOUT_INVALIDATES_SESSION", 1, o[1]))
       /\ login' = o[2]
  /\ tried' = tried \cup {<<"logout", 1>>}
  /\ UNCHANGED <<bounded, check_urls, forms, active_mode_audit>>
  /\ Advance("logout")

\* The body is through: __aexit__ closes the clients.
Final ==
  /\ stage = "final"
  /\ pair' = "closed" /\ stage' = "finally" /\ ended' = "ok"
  /\ UNCHANGED <<cfg, todo, swept, collaborator, browser, shown>>

Closed(p) == IF p = "open" THEN "closed" ELSE p

\* Mutant: the handler drops what was found, as its log line says.
Except_resets ==
  /\ stage = "except"
  /\ pair' = Closed(pair)
  /\ stage' = "finally"
  /\ ended' \in {ended, "raised"}
  /\ findings' = <<>>
  /\ UNCHANGED <<cfg, todo, check_urls, forms, active_mode_audit, login, tried, collaborator,
                 browser, shown>>

\* except TimeoutError and except Exception: one log line, whose write may
\* itself raise; the findings so far stay.
Except ==
  /\ stage = "except"
  /\ pair' = Closed(pair)
  /\ stage' = "finally"
  /\ ended' \in {ended, "raised"}
  /\ UNCHANGED <<cfg, todo, swept, collaborator, browser, shown>>

\* The hybrid path's wait_for(240) cancels the coroutine at its current await.
\* CancelledError is no Exception: nothing but the finallys sees it.
Cancel ==
  /\ cfg.hybrid
  /\ stage \notin Exits \cup {"finally"}
  /\ stage' = IF stage = "setup" THEN "cancelled" ELSE "finally"
  /\ ended' = "cancelled"
  /\ pair' = Closed(pair) /\ browser' = "closed"
  /\ UNCHANGED <<cfg, todo, swept, collaborator, shown>>

\* Mutant: stop() stands behind the handlers, where a cancellation never comes.
Finally_skipped ==
  /\ stage = "finally"
  /\ collaborator' = IF collaborator = "up" /\ ended # "cancelled" THEN "down" ELSE collaborator
  /\ stage' = CASE ended = "cancelled" -> "cancelled"
               [] ended = "raised"    -> "raised"
               [] OTHER               -> "returned"
  /\ UNCHANGED <<cfg, todo, swept, pair, browser, shown, ended>>

\* finally: stop the listener; then return what was found, or go on raising.
Finally ==
  /\ stage = "finally"
  /\ collaborator' = IF collaborator = "up" THEN "down" ELSE collaborator
  /\ stage' = CASE ended = "cancelled" -> "cancelled"
               [] ended = "raised"    -> "raised"
               [] OTHER               -> "returned"
  /\ UNCHANGED <<cfg, todo, swept, pair, browser, shown, ended>>

Step ==
  \/ Setup \/ Connect \/ Announce \/ Payload \/ DomBlock \/ BridgeTarget \/ Logout
  \/ Final \/ Except \/ Finally
  \/ \E s \in Discovery : Discover(s)
  \/ \E s \in Probing \ {"dom", "bridge"} : Probe(s)
  \/ \E s \in Probing : LoopDone(s)

Next == Step \/ Cancel

Spec == Init /\ [][Next]_vars

\* Every await of the sweep ends: probes, crawls and the payload sweep under
\* wait_for, the logout check through the clients' own request timeout.
FairSpec == Spec /\ WF_vars(Step)

-----------------------------------------------------------------------------
\* Released: whichever way the sweep ends - through, after a timeout, an
\* exception in a handler, or cancelled at any await - the listener thread is
\* stopped, the browser closed, and a session pair that was entered is closed.
Released ==
  stage \in Exits => collaborator # "up" /\ browser = "closed" /\ pair # "open"

\* FindingsGrow: no later stage, failure or handler takes back a finding that
\* an earlier stage appended, so what a sweep returns after an exception is all
\* it had found.
FindingsGrow == [][IsPrefix(findings, findings')]_vars

\* EveryProbeTried: a sweep that reaches its end has tried every bridge target,
\* form, SSRF URL, user-supplied probe and check its request asked for, however
\* many of them failed on the way.
EveryProbeTried ==
  ended = "ok" =>
    /\ <<"payload", 0>> \in tried
    /\ cfg.auth # "none" => <<"logout", 1>> \in tried
    /\ \A s \in Probing \ {"dom"} : ~Skipped(s, forms) =>
         {t[2] : t \in {t \in tried : t[1] = s}} = Range(Items(s, check_urls, forms))

\* AuditExact: the audit record holds no finding twice, none that is not among
\* the findings and none that never touched the target; and a sweep that
\* reaches its end has recorded each one the stages and the audit pass name.
AuditExact ==
  /\ IsInjective(active_mode_audit)
  /\ \A f \in Range(active_mode_audit) : f \in Range(findings) /\ Touched(f)
  /\ ended = "ok" =>
       \A f \in Range(findings) :
         Touched(f) /\ (AuditedRule(f) \/ f.src \in Probing \ {"bridge"})
           => f \in Range(active_mode_audit)

\* ProgressInWindow: sixteen progress lines share fifteen checkpoints, and yet
\* the progress never falls and never leaves the window the caller gave this
\* target, the next target's being right behind it.
ProgressInWindow ==
  [][progress' >= progress /\ progress' \in progress_start..progress_end]_vars

\* Ends: the sweep returns, raises or is cancelled.
Ends == <>(stage \in Exits)

\* LogoutFailIsReal: a FAIL of LOGOUT_INVALIDATES_SESSION on a page that needs a
\* session says that the target kept honouring the session after the logout.
LogoutFailIsReal ==
  \A f \in Range(findings) :
    f.src = "logout" /\ f.v = "fail" /\ cfg.access # "open" => ~cfg.kills

=============================================================================
