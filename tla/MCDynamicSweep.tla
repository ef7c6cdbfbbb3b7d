--------------------------- MODULE MCDynamicSweep ---------------------------
(* TLC instance of a dynamic scan: the sweep with five requests that between  *)
(* them switch every option on, and the checks, probes, crawlers and client   *)
(* the sweep runs.  They share no state, so each behaviour runs one of them,  *)
(* the others at one of their initial states.                                 *)
EXTENDS DynamicSweep, SqlEscalation, PaddingOracle, PayloadChecks, ActiveProbes,
        Crawl, ProbeSession, TLC

Request(act, hyb, brw, api, au, sec, br, us, kl, acc) ==
  [active |-> act, hybrid |-> hyb, browser |-> brw, openapi |-> api, auth |-> au,
   second |-> sec, bridge |-> br, user |-> us, kills |-> kl, access |-> acc]

MCConfigs ==
  {Request(TRUE, TRUE, FALSE, TRUE, "bearer", TRUE,
           <<"SSRF_LIVE", "JWT_WEAKNESS_LIVE">>, <<"gated">>, TRUE, "401"),
   Request(TRUE, TRUE, FALSE, FALSE, "form_login", FALSE,
           <<"JWT_WEAKNESS_LIVE", "SIDE">>, <<"ungated">>, TRUE, "401"),
   Request(TRUE, TRUE, TRUE, FALSE, "none", FALSE, <<"DOM_XSS_LIVE", "INJECT">>, <<>>, FALSE, "open"),
   Request(FALSE, TRUE, TRUE, TRUE, "api_key", FALSE,
           <<"SSRF_LIVE", "READ">>, <<"needs_second">>, TRUE, "redirect"),
   Request(TRUE, FALSE, FALSE, FALSE, "oauth2", TRUE, <<>>, <<"needs_second", "gated">>, FALSE, "403")}

\* Servers that sleep once or twice per query; characters below, at, inside, at
\* the end of and above the range that is searched.
MCServers    == [dialect : 0..4, times : {1, 2}, code : {10, 32, 53, 126, 200}]
MCParams     == {<<>>, <<"a">>, <<"a", "b">>}
MCCandidates == <<"next", "url">>

\* Sites of six pages and one of another origin, x: with a link back, one out,
\* pages reached at two depths, and forms that share their target.
MCSites ==
  LET nets == {("p0" :> a @@ "p1" :> b @@ "p2" :> c @@ "p3" :> d @@ "p4" :> e @@ "p5" :> <<"p0">> @@ "x" :> <<"p1">>) :
                 a \in {<<"p1", "p2">>, <<"p2", "x", "p3">>}, b \in {<<"p2", "p3">>, <<"p3", "p0">>, <<"p4">>},
                 c \in {<<"p1">>, <<"p4", "p5">>}, d \in {<<>>, <<"p5">>}, e \in {<<"p3">>, <<"p5">>}}
      on   == ("p0" :> <<"f1">> @@ "p1" :> <<"f2", "fx">> @@ "p2" :> <<"f1">> @@ "p3" :> <<"f3">> @@
               "p4" :> <<"f4">> @@ "p5" :> <<"f2", "f4">> @@ "x" :> <<"f4">>)
      ends == {("f1" :> "p5" @@ "f2" :> "x" @@ "f3" :> "p3" @@ "f4" :> "p4"),
               ("f1" :> "p3" @@ "f2" :> "p1" @@ "f3" :> "p4" @@ "f4" :> "p0")}
  IN  [links : nets, forms : {on}, lands : ends]

VARIABLE part

NoSweep      == cfg.hybrid /\ cfg.browser /\ cfg.active
NoEscalation == server = [dialect |-> 0, times |-> 1, code |-> 32]
NoPadding    == allowed = [active |-> FALSE, session |-> FALSE] /\ leak = 0 /\ load = 0
NoChecks     == call.params = <<>> /\ ~call.active /\ ~call.session
NoProbes     == kind = "dom" /\ ~gate.active /\ ~weak
NoCrawl      == ~active_mode /\ site = CHOOSE x \in Sites : TRUE
NoSession    == auth_mode = "none"

DynamicInit ==
  /\ part \in {"sweep", "escalation", "padding", "checks", "probes", "crawl", "session"}
  /\ Init      /\ (part = "sweep"      \/ NoSweep)
  /\ EscInit   /\ (part = "escalation" \/ NoEscalation)
  /\ PadInit   /\ (part = "padding"    \/ NoPadding)
  /\ PcInit    /\ (part = "checks"     \/ NoChecks)
  /\ ApInit    /\ (part = "probes"     \/ NoProbes)
  /\ CrawlInit /\ (part = "crawl"      \/ NoCrawl)
  /\ SessInit  /\ (part = "session"    \/ NoSession)

DynamicNext ==
  \/ /\ part = "sweep" /\ Next
     /\ UNCHANGED <<escVars, padVars, pcVars, apVars, crawlVars, sessVars, part>>
  \/ /\ part = "escalation" /\ EscNext
     /\ UNCHANGED <<vars, padVars, pcVars, apVars, crawlVars, sessVars, part>>
  \/ /\ part = "padding" /\ PadNext
     /\ UNCHANGED <<vars, escVars, pcVars, apVars, crawlVars, sessVars, part>>
  \/ /\ part = "checks" /\ PcNext
     /\ UNCHANGED <<vars, escVars, padVars, apVars, crawlVars, sessVars, part>>
  \/ /\ part = "probes" /\ ApNext
     /\ UNCHANGED <<vars, escVars, padVars, pcVars, crawlVars, sessVars, part>>
  \/ /\ part = "crawl" /\ CrawlNext
     /\ UNCHANGED <<vars, escVars, padVars, pcVars, apVars, sessVars, part>>
  \/ /\ part = "session" /\ SessNext
     /\ UNCHANGED <<vars, escVars, padVars, pcVars, apVars, crawlVars, part>>

allVars == <<vars, escVars, padVars, pcVars, apVars, crawlVars, sessVars, part>>

\* The sweep's fairness, so that Ends is about the behaviours of that part; no
\* liveness is asked of the others.
DynamicSpec == DynamicInit /\ [][DynamicNext]_allVars /\ WF_vars(Step)
=============================================================================
