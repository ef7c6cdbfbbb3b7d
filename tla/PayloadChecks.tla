---------------------------- MODULE PayloadChecks ----------------------------
(***************************************************************************)
(* The checks of dast/checks.py at one URL, in run_payload_checks' order.  *)
(* Each check sends its payloads one after the other to a target whose     *)
(* answers nothing promises: a request may raise, be turned away or be     *)
(* answered without a trace of the payload.  Timing and byte extraction    *)
(* are SqlEscalation's; the pause between two checks is left out.          *)
(***************************************************************************)
EXTENDS Integers, Sequences

CONSTANTS
  ParamLists,     \* the query parameters the URL may carry, in order
  Candidates      \* candidate_params of the CRLF and redirect rules

ASSUME ParamAssumption == ParamLists \cup {Candidates} \subseteq Seq(STRING)

\* _CHECK_FUNCTIONS, in its order.
Rules == <<"DOUBLE_DECODE", "CRLF", "REDIRECT", "SMUGGLING", "CSRF", "UNAUTH", "COMMAND", "SSTI",
           "XXE", "NOSQL", "CORS", "XSS", "SQL", "WS_UNAUTH", "WS_DERIVED">>

RequiresActive == {"SMUGGLING", "CSRF", "COMMAND", "SSTI", "XXE", "NOSQL", "SQL"}

\* Checks that loop over parameters; the first two guess their names.
GuessedParams == {"CRLF", "REDIRECT"}
PerParam == GuessedParams \cup {"COMMAND", "SSTI", "NOSQL", "XSS", "SQL"}

VARIABLES
  call,           \* [active, collaborator, session, params] of the call
  pos,            \* the rule being run; Len(Rules) + 1 at the end
  running,        \* a check is inside its parameter loop
  hole,           \* where the target executes this rule's payload: parameters, or {"*"}
  params_left, observed_response,
  found,          \* the verdict of the finding appended last, "none" at the start
  smooth,         \* history: every answer so far was 2xx and showed what it should
  of              \* history: [hole, smooth] of the check that gave `found`

pcVars == <<call, pos, running, hole, params_left, observed_response, found, smooth, of>>

-----------------------------------------------------------------------------
(***************************************************************************)
(* Answers.  "signal" is the mark the check at hand looks for: its marker  *)
(* in a header or a page, an SQL error text, the arithmetic product, a     *)
(* token.  "usual" and "other" are two bodies response_diff_oracle tells   *)
(* apart.                                                                  *)
(***************************************************************************)
Answer == [status : {"error", "404", "403", "2xx", "3xx", "5xx"}, body : {"usual", "other", "signal"}]

Lost(r)       == r.status = "error"
Unanswered(r) == r.status \in {"error", "404"}
Shows(r)      == r.body = "signal"
Differ(a, b)  == a.status = b.status /\ a.body # b.body

\* The answers to a payload whose mark appears only where it is executed.
Marked(h) == {r \in Answer : Shows(r) => h}

\* An effect (a delay, a callback, a token) that only the weakness has.
Only(h) == {FALSE, h}

\* What one parameter's requests amount to; plain says that the target
\* answered each with 2xx (a redirect, with 3xx) and hid nothing.
Reading(seen, hit, plain) == [seen |-> seen, hit |-> seen /\ hit, plain |-> plain]

\* One request, whose mark is dangerous wherever it comes back.
MarkReadings(h) ==
  {Reading(~Unanswered(r), Shows(r), r.status = "2xx" /\ (h => Shows(r))) : r \in Marked(h)}

RedirectReadings(h) ==
  {Reading(~Unanswered(r), r.status = "3xx" /\ Shows(r), r.status = "3xx" /\ (h => Shows(r))) :
     r \in Marked(h)}

\* A dangerous context is judged by regular expressions, on any page.
XssReadings(h) ==
  {Reading(~Unanswered(r), Shows(r), r.status = "2xx" /\ (h => Shows(r))) : r \in Answer}

\* The pair of an always-true and an always-false condition.
SqlReading(t, f, h) ==
  Reading(~Lost(t) /\ ~Lost(f) /\ ~(t.status = "404" /\ f.status = "404"),
          Shows(t) \/ Shows(f) \/ Differ(t, f),
          t.status = "2xx" /\ f.status = "2xx" /\ (h => t.body # f.body))

\* A harmless request, then four delimiters' sleep payloads under timing_oracle.
CommandReading(base, slept, h) ==
  Reading(~Unanswered(base), slept, base.status = "2xx" /\ (h => slept))

\* Mutant: the arithmetic product may have been on the page before.
SstiReading_no_baseline(base, arith, h) ==
  Reading(~Unanswered(base), ~Lost(arith) /\ Shows(arith),
          base.status = "2xx" /\ ~Shows(base) /\ arith.status = "2xx" /\ (h => Shows(arith)))

\* The untouched page, then the same page with the arithmetic polyglot.
SstiReading(base, arith, h) ==
  Reading(~Unanswered(base), ~Shows(base) /\ ~Lost(arith) /\ Shows(arith),
          base.status = "2xx" /\ ~Shows(base) /\ arith.status = "2xx" /\ (h => Shows(arith)))

\* A value that cannot match, then the operators [$ne] and [$gt].
NosqlReading(control, ne, gt, h) ==
  Reading(~Unanswered(control),
          (~Lost(ne) /\ Differ(ne, control)) \/ (~Lost(gt) /\ Differ(gt, control)),
          \A r \in {control, ne, gt} : r.status = "2xx" /\ (h => ne.body # control.body))

Readings(rule, h) ==
  CASE rule = "CRLF"     -> MarkReadings(h)
    [] rule = "REDIRECT" -> RedirectReadings(h)
    [] rule = "XSS"      -> XssReadings(h)
    [] rule = "SQL"      -> {SqlReading(t, f, h) : t \in Answer, f \in Answer}
    [] rule = "COMMAND"  -> {CommandReading(b, s, h) : b \in Answer, s \in Only(h)}
    [] rule = "SSTI"     -> {SstiReading(b, a, h) : b \in Answer, a \in Marked(h)} \cup
                            {SstiReading(b, a, h) : b \in {r \in Answer : Shows(r)}, a \in Answer}
    [] rule = "NOSQL"    -> {NosqlReading(c, n, g, h) :
                               c \in Answer, n \in Answer, g \in {r \in Answer : r.status \in {"error", "2xx"}}}

\* The verdicts of a check that saw its signal: a second stage (a browser and
\* a callback, a timed query, a callback) may reproduce the impact.
Strengths(rule, h) ==
  {"fail"} \cup
  IF h /\ (rule = "SQL" \/ (rule \in {"XSS", "COMMAND", "SSTI"} /\ call.collaborator))
  THEN {"confirmed"} ELSE {}

-----------------------------------------------------------------------------
(***************************************************************************)
(* Checks without a parameter loop: from the answers to the verdict.       *)
(***************************************************************************)
Blocked(r) == r.status \in {"403", "404"}

DoubleDecode(single, double) ==
  CASE Lost(single) \/ Lost(double)              -> "not_tested"
    [] Blocked(single) /\ ~Blocked(double)       -> IF Shows(double) THEN "fail" ELSE "inconclusive"
    [] single.status = "404" /\ double.status = "404" -> "not_tested"
    [] single.status = double.status             -> "pass"
    [] OTHER                                     -> "inconclusive"

Smuggling(r) == IF Lost(r) THEN "not_tested" ELSE IF Shows(r) THEN "fail" ELSE "pass"

\* The page with a form that carries a token, and the form sent back without it.
Csrf(page, hasTokenForm, tampered) ==
  CASE Unanswered(page) \/ ~hasTokenForm \/ Lost(tampered) -> "not_tested"
    [] tampered.status = "403"                             -> "pass"
    [] tampered.status \in {"2xx", "3xx"}                  -> "fail"
    [] OTHER                                               -> "inconclusive"

Unauthenticated(public, authed, anon) ==
  CASE public                                          -> "not_tested"
    [] ~call.session                                   -> "not_configured"
    [] authed.status # "2xx" \/ Lost(anon)             -> "not_tested"
    [] anon.status \in {"403", "3xx"}                  -> "pass"
    [] anon.status = "2xx"                             -> "fail"
    [] OTHER                                           -> "inconclusive"

Xxe(r, calledBack) ==
  IF ~call.collaborator \/ Unanswered(r) THEN "not_tested"
  ELSE IF calledBack THEN "confirmed" ELSE "pass"

Cors(r, credentials) ==
  CASE Unanswered(r)                       -> "not_tested"
    [] Shows(r)                            -> "fail"       \* the probe's Origin is reflected
    [] r.body = "other" /\ credentials     -> "fail"       \* "*" with credentials
    [] OTHER                               -> "pass"

TokenIn(r) == r.status = "2xx" /\ Shows(r)

WebsocketUnauth(tokenPath, authed, anon) ==
  CASE ~tokenPath                          -> "not_tested"
    [] ~call.session                       -> "not_configured"
    [] ~TokenIn(authed) \/ Lost(anon)      -> "not_tested"
    [] OTHER                               -> IF TokenIn(anon) THEN "fail" ELSE "pass"

WebsocketDerived(tokenPath, r, reused) ==
  CASE ~tokenPath                          -> "not_tested"
    [] ~call.session                       -> "not_configured"
    [] ~TokenIn(r)                         -> "not_tested"
    [] OTHER                               -> IF reused THEN "fail" ELSE "pass"

\* The verdicts a check may give; h says whether the target has the weakness.
Verdicts(rule, h) ==
  CASE rule = "DOUBLE_DECODE" -> {DoubleDecode(s, d) : s \in Answer, d \in Marked(h)}
    [] rule = "SMUGGLING"  -> {Smuggling(r) : r \in Marked(h)}
    [] rule = "CSRF"       -> {Csrf(p, f, t) : p \in Answer, f \in BOOLEAN, t \in Answer}
    [] rule = "UNAUTH"     -> {Unauthenticated(p, a, n) : p \in BOOLEAN, a \in Answer, n \in Answer}
    [] rule = "XXE"        -> {Xxe(r, c) : r \in Answer, c \in Only(h)}
    [] rule = "CORS"       -> {Cors(r, c) : r \in Marked(h), c \in Only(h)}
    [] rule = "WS_UNAUTH"  -> {WebsocketUnauth(p, a, n) : p \in BOOLEAN, a \in Answer, n \in Marked(h)}
    [] rule = "WS_DERIVED" -> {WebsocketDerived(p, r, d) : p \in BOOLEAN, r \in Answer, d \in Only(h)}

-----------------------------------------------------------------------------
PcInit ==
  /\ call \in [active : BOOLEAN, collaborator : BOOLEAN, session : BOOLEAN, params : ParamLists]
  /\ call.collaborator => call.active
  /\ pos = 1 /\ running = FALSE /\ hole = {} /\ params_left = <<>> /\ observed_response = FALSE
  /\ found = "none" /\ smooth = FALSE /\ of = [hole |-> {}, smooth |-> FALSE]

Chk == Rules[pos]

\* Exactly one finding per rule: append it and go on to the next rule.
Append1(v) ==
  /\ found' = v /\ of' = [hole |-> hole', smooth |-> smooth']
  /\ pos' = pos + 1
  /\ running' = FALSE /\ params_left' = <<>> /\ observed_response' = FALSE
  /\ UNCHANGED call

Skip ==
  /\ pos <= Len(Rules) /\ ~running
  /\ Chk \in RequiresActive /\ ~call.active
  /\ hole' = {} /\ smooth' = FALSE
  /\ Append1("skipped")

May == pos <= Len(Rules) /\ ~running /\ (Chk \in RequiresActive => call.active)

\* An exception no check expects becomes a finding as well.
CheckRaises ==
  /\ pos <= Len(Rules) /\ (running \/ May)
  /\ smooth' = FALSE
  /\ UNCHANGED hole
  /\ Append1("not_tested")

CheckUrl ==
  /\ May /\ Chk \notin PerParam
  /\ hole' \in {{}, {"*"}} /\ smooth' = FALSE
  /\ \E v \in Verdicts(Chk, hole' # {}) : Append1(v)

NoParams ==
  /\ May /\ Chk \in PerParam \ GuessedParams /\ call.params = <<>>
  /\ hole' = {} /\ smooth' = FALSE
  /\ Append1("not_tested")

StartLoop ==
  /\ May /\ Chk \in PerParam
  /\ params_left' = IF Chk \in GuessedParams THEN Candidates ELSE call.params
  /\ params_left' # <<>>
  /\ hole' \in SUBSET ({params_left'[i] : i \in DOMAIN params_left'} \cup IF Chk = "REDIRECT" THEN {"Host"} ELSE {})
  /\ running' = TRUE /\ observed_response' = FALSE /\ smooth' = TRUE
  /\ UNCHANGED <<call, pos, found, of>>

\* Mutant: the loop ends with the first parameter the target answered.
TryParam_first ==
  /\ running /\ params_left # <<>>
  /\ \E x \in Readings(Chk, Head(params_left) \in hole) :
       /\ smooth' = (smooth /\ x.plain)
       /\ UNCHANGED hole
       /\ \/ x.hit /\ \E v \in Strengths(Chk, Head(params_left) \in hole) : Append1(v)
          \/ /\ ~x.hit
             /\ params_left' = IF x.seen THEN <<>> ELSE Tail(params_left)
             /\ observed_response' = (observed_response \/ x.seen)
             /\ UNCHANGED <<call, pos, running, found, of>>

\* One parameter: a signal ends the check, anything else goes on to the next.
TryParam ==
  /\ running /\ params_left # <<>>
  /\ \E x \in Readings(Chk, Head(params_left) \in hole) :
       /\ smooth' = (smooth /\ x.plain)
       /\ UNCHANGED hole
       /\ \/ x.hit /\ \E v \in Strengths(Chk, Head(params_left) \in hole) : Append1(v)
          \/ /\ ~x.hit
             /\ params_left' = Tail(params_left)
             /\ observed_response' = (observed_response \/ x.seen)
             /\ UNCHANGED <<call, pos, running, found, of>>

\* The redirect check's last try, a forged Host header, is not an observation.
EndLoop ==
  /\ running /\ params_left = <<>>
  /\ UNCHANGED hole
  /\ LET quiet == IF observed_response THEN "pass" ELSE "not_tested" IN
     IF Chk = "REDIRECT"
     THEN \E x \in RedirectReadings("Host" \in hole) :
            smooth' = (smooth /\ x.plain) /\ Append1(IF x.hit THEN "fail" ELSE quiet)
     ELSE UNCHANGED smooth /\ Append1(quiet)

PcNext == Skip \/ CheckRaises \/ CheckUrl \/ NoParams \/ StartLoop \/ TryParam \/ EndLoop

PcSpec == PcInit /\ [][PcNext]_pcVars

-----------------------------------------------------------------------------
LastRule == Rules[pos - 1]

\* Rules whose signal only a target with the weakness can give.  The others
\* fail on a heuristic: a page that differs, a reflection, a status.
Exact == {"DOUBLE_DECODE", "CRLF", "REDIRECT", "SMUGGLING", "COMMAND", "SSTI", "CORS",
          "WS_UNAUTH", "WS_DERIVED"}

\* CONFIRMED, and a FAIL of a check whose mark appears nowhere by chance, is
\* given only to a target that has the weakness, whatever was on the page
\* before and whichever requests were lost (verdict.py:14-20).
SignalIsReal ==
  found = "confirmed" \/ (found = "fail" /\ LastRule \in Exact) => of.hole # {}

\* A weakness behind any parameter is reported, whichever position it has
\* and whichever parameters come first, on a target that answers plainly
\* (the loops of checks.py).
HoleIsFound == of.smooth /\ found \in {"pass", "not_tested"} => of.hole = {}
=============================================================================
