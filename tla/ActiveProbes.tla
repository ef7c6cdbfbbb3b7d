---------------------------- MODULE ActiveProbes ----------------------------
(***************************************************************************)
(* The probes of app/domain/analysis/dast that have an engine of their own.*)
(* Each behaviour is one call of one of them: what it sends, in which      *)
(* order, what the target does meanwhile on its own (a callback that comes *)
(* late, two requests that overlap), and what the probe concludes.         *)
(***************************************************************************)
EXTENDS Integers, FiniteSets

CONSTANTS
  SsrfParams,     \* the candidate parameters of the SSRF probe
  Concurrency,    \* requests of the race probe
  MaxSuccesses,   \* max_expected_successes of the race probe
  Pages,          \* reflection_check_urls of the stored-XSS probe
  MAX_REFLECTION, \* _MAX_REFLECTION_CHECK_URLS
  Payloads,       \* how many fuzz payloads a fuzzing probe sends
  FloodPeers      \* the flood connections of the media probe

ASSUME ProbeAssumption ==
  /\ {Concurrency, MaxSuccesses, Pages, MAX_REFLECTION, Payloads} \subseteq Nat
  /\ Concurrency > 0 /\ Payloads > 0
  /\ "earlier" \notin SsrfParams         \* no two probes share a token

Kinds == {"ssrf", "race", "mass", "jwt", "idor", "stored", "dom", "link", "fuzz", "flood",
          "malformed", "srtp"}

\* Probes that may be told not to require active_mode; those that need a second
\* session, payloads or flood connections; those that take a browser page.
OptIn == {"idor", "race", "fuzz", "flood", "malformed", "srtp"}
Needy == {"mass", "idor", "race", "fuzz", "flood", "malformed"}
Paged == {"dom", "link"}

VARIABLES
  kind, gate,     \* gate: [active, required, ready]: active_mode, whether the probe
                  \* requires it, and whether what a Needy probe needs is configured
  weak,           \* the target has the weakness the probe looks for
  public,         \* the resource needs no credentials at all
  pc,             \* where the probe is; "done" with a finding, "gone" when cancelled
  k,              \* loop index, requests so far
  sent, kept, hits, \* SSRF: parameters sent, answered, called back
  state,          \* the target's own state, by kind
  opened,         \* pages and peer connections that are open
  verdict,
  why             \* history: what was so when the verdict was reached

apVars == <<kind, gate, weak, public, pc, k, sent, kept, hits, state, opened, verdict, why>>
ssrfVars == <<sent, kept, hits>>
fixed == <<kind, gate, weak, public>>

ApInit ==
  /\ kind \in Kinds
  /\ gate \in [active : BOOLEAN, required : BOOLEAN, ready : BOOLEAN]
  /\ gate.required \/ kind \in OptIn
  /\ gate.ready \/ kind \in Needy
  /\ weak \in BOOLEAN /\ public \in (IF kind \in {"jwt", "idor"} THEN BOOLEAN ELSE {FALSE})
  /\ pc = "start" /\ k = 0 /\ sent = {} /\ kept = {} /\ hits = {} /\ opened = {}
  /\ state = CASE kind = "race" -> [i \in 1..Concurrency |-> "new"]
               [] kind = "mass" -> <<"plain">>
               [] OTHER -> <<"up">>
  /\ verdict = "none" /\ why = "none"

\* Every probe ends in exactly one finding; a finally closes what is listed.
Done(v, reason) ==
  /\ verdict' = v /\ why' = reason /\ pc' = "done"
  /\ opened' = {}
  /\ UNCHANGED <<fixed, k, ssrfVars, state>>

On(kinds, place) == kind \in kinds /\ pc = place
Goes(place) == pc' = place /\ UNCHANGED <<fixed, verdict, why>>

\* The peer connection a WebRTC probe opens first.
FirstPeer == CASE kind = "flood" -> "control" [] kind = "srtp" -> "attacker" [] OTHER -> "peer"

-----------------------------------------------------------------------------
\* The gates: active_mode, then the configuration, before any request.
Permitted == gate.required => gate.active

Decline ==
  /\ pc = "start"
  /\ \/ ~Permitted /\ Done("skipped", "none")
     \/ Permitted /\ ~gate.ready /\ Done("not_configured", "none")

Start ==
  /\ pc = "start" /\ Permitted /\ gate.ready
  /\ Goes("run")
  /\ opened' = IF kind \in Paged THEN {"page"} ELSE {}
  /\ UNCHANGED <<k, ssrfVars, state>>

-----------------------------------------------------------------------------
(***************************************************************************)
(* SSRF: all candidate parameters first, each with a token of its own,     *)
(* then one wait.  The target fetches when it likes, also after the wait;  *)
(* "earlier" is the token of a probe of another URL, called back only now. *)
(***************************************************************************)
SsrfSend ==
  /\ On({"ssrf"}, "run")
  /\ \E p \in SsrfParams \ sent :
       /\ sent' = sent \cup {p}
       /\ kept' \in {kept, kept \cup {p}}      \* kept unless it raised or was a 404
  /\ Goes("run") /\ UNCHANGED <<k, hits, state, opened>>

SsrfFetch ==
  /\ kind = "ssrf" /\ pc # "start"
  /\ \E p \in (IF weak THEN sent ELSE {}) \cup {"earlier"} : p \notin hits /\ hits' = hits \cup {p}
  /\ UNCHANGED <<fixed, pc, k, sent, kept, state, opened, verdict, why>>

\* A token that was kept has a hit.
SsrfFound == kept \cap hits # {}

SsrfReport ==
  /\ On({"ssrf"}, "run") /\ sent = SsrfParams
  /\ IF kept = {} THEN Done("not_tested", "none")
     ELSE Done(IF SsrfFound THEN "fail" ELSE "pass", "none")

-----------------------------------------------------------------------------
(***************************************************************************)
(* The race probe: Concurrency requests at once.  A server that checks and *)
(* acts in two steps may let more through than it allows; any response may *)
(* be lost on its way back.                                                *)
(***************************************************************************)
Applied == {i \in DOMAIN state : state[i] \in {"done", "lost_done"}}

RaceCheck(i) ==
  /\ On({"race"}, "run") /\ state[i] = "new"
  /\ \/ /\ Cardinality(Applied) >= MaxSuccesses
        /\ state' = [state EXCEPT ![i] = "refused"]
     \/ /\ Cardinality(Applied) < MaxSuccesses
        /\ state' = [state EXCEPT ![i] = IF weak THEN "checked" ELSE "done"]
  /\ UNCHANGED <<fixed, pc, k, ssrfVars, opened, verdict, why>>

RaceAct(i) ==
  /\ On({"race"}, "run") /\ state[i] = "checked"
  /\ state' = [state EXCEPT ![i] = "done"]
  /\ UNCHANGED <<fixed, pc, k, ssrfVars, opened, verdict, why>>

RaceLose(i) ==
  /\ On({"race"}, "run")
  /\ \/ state[i] = "done" /\ state' = [state EXCEPT ![i] = "lost_done"]
     \/ state[i] = "refused" /\ state' = [state EXCEPT ![i] = "lost"]
  /\ UNCHANGED <<fixed, pc, k, ssrfVars, opened, verdict, why>>

\* Mutant: every response that arrived counts as a success.
Successful_reached == {i \in DOMAIN state : state[i] \in {"done", "refused"}}

Successful == {i \in DOMAIN state : state[i] = "done"}

\* gather returns once every request is answered or has raised.
RaceReport ==
  /\ On({"race"}, "run")
  /\ \A i \in DOMAIN state : state[i] \notin {"new", "checked"}
  /\ IF \A i \in DOMAIN state : state[i] \in {"lost", "lost_done"} THEN Done("not_tested", "none")
     ELSE Done(IF Cardinality(Successful) > MaxSuccesses THEN "fail" ELSE "pass", "none")

-----------------------------------------------------------------------------
(***************************************************************************)
(* Two actors.  Mass assignment: the second reads, the first submits the   *)
(* privileged value, the second reads again.  The account may hold the     *)
(* value already, or get it from somebody else meanwhile: not modelled.    *)
(***************************************************************************)
MassBaseline ==
  /\ On({"mass"}, "run")
  /\ \/ Done("not_tested", "none")                     \* raises, 404, not JSON
     \/ Done("inconclusive", "held already")
     \/ Goes("submit") /\ UNCHANGED <<k, ssrfVars, state, opened>>

MassSubmit ==
  /\ On({"mass"}, "submit")
  /\ \/ Done("not_tested", "none")
     \/ /\ state' = IF weak THEN <<"privileged">> ELSE state
        /\ Goes("verify") /\ UNCHANGED <<k, ssrfVars, opened>>

MassVerify ==
  /\ On({"mass"}, "verify")
  /\ \/ Done("not_tested", "none")
     \/ Done(IF state = <<"privileged">> THEN "confirmed" ELSE "pass", "none")

\* IDOR: the owner's request has to succeed first; then the other actor's.
IdorOwner ==
  /\ On({"idor"}, "run")
  /\ \/ Done("not_tested", "none")
     \/ Goes("submit") /\ UNCHANGED <<k, ssrfVars, state, opened>>

IdorOther ==
  /\ On({"idor"}, "submit")
  /\ \/ Done("not_tested", "none") \/ Done("inconclusive", "none")
     \/ ~weak /\ ~public /\ Done("pass", "none")           \* 401, 403 or 404
     \/ (weak \/ public) /\ Done("fail", "none")           \* 2xx

-----------------------------------------------------------------------------
(***************************************************************************)
(* JWT: the session's own token forged in up to two ways, replayed without *)
(* credentials after one request with the real ones.  There is no request  *)
(* without any token.                                                      *)
(***************************************************************************)
JwtBaseline ==
  /\ On({"jwt"}, "run")
  /\ \/ Done("not_configured", "none") \/ Done("not_tested", "none")
     \/ Goes("forged") /\ k' \in {1, 2} /\ UNCHANGED <<ssrfVars, state, opened>>

JwtForged ==
  /\ On({"jwt"}, "forged")
  /\ \/ k = 0 /\ Done("pass", "none")
     \/ k > 0 /\ (weak \/ public) /\ Done("confirmed", "none")
     \/ /\ k > 0 /\ k' = k - 1                          \* refused, or raises
        /\ Goes("forged") /\ UNCHANGED <<ssrfVars, state, opened>>

-----------------------------------------------------------------------------
(***************************************************************************)
(* Stored XSS: submit once, then look at the answer and at the first pages.*)
(* weak: the target stores the value and some page shows it unescaped.     *)
(***************************************************************************)
StoredSubmit ==
  /\ On({"stored"}, "run")
  /\ \/ Done("not_tested", "none")
     \/ weak /\ Done("fail", "none")
     \/ Goes("pages") /\ k' = 0 /\ UNCHANGED <<ssrfVars, state, opened>>

\* Page k + 1: state counts the pages that could be read.
StoredPage ==
  /\ On({"stored"}, "pages")
  /\ IF k < Pages /\ k < MAX_REFLECTION
     THEN \/ weak /\ Done("fail", "none")
          \/ /\ k' = k + 1 /\ state' \in {state, <<"read">>}
             /\ Goes("pages") /\ UNCHANGED <<ssrfVars, opened>>
     ELSE Done(IF state = <<"read">> THEN "pass" ELSE "inconclusive", "none")

\* DOM XSS and the external-link warning: load, evaluate or click, compare;
\* each may raise, a link may be missing or open a tab of its own, and the page
\* is closed on every way out.
PageProbe ==
  /\ On(Paged, "run")
  /\ \/ Done("not_tested", "none")
     \/ Done(IF weak THEN "fail" ELSE "pass", "none")

-----------------------------------------------------------------------------
(***************************************************************************)
(* The fuzzing probes: a first contact, then payload after payload with a  *)
(* look at the listener (or the connection) after each.  An outage of the  *)
(* target's own is not excluded.                                           *)
(***************************************************************************)
Fuzzing == {"fuzz", "malformed"}

FuzzConnect ==
  /\ On(Fuzzing, "run")
  /\ \/ Done("not_tested", "none")
     \/ /\ Goes("payload") /\ k' = 0
        /\ opened' = IF kind = "malformed" THEN {FirstPeer} ELSE {}
        /\ UNCHANGED <<ssrfVars, state>>

FuzzPayload ==
  /\ On(Fuzzing, "payload") /\ k < Payloads
  /\ \E alive \in BOOLEAN, outage \in BOOLEAN :
       /\ ~alive => weak \/ outage
       /\ \/ ~alive /\ Done("fail", IF outage THEN "outage" ELSE "none")
          \/ /\ alive /\ ~outage /\ k' = k + 1
             /\ Goes("payload") /\ UNCHANGED <<ssrfVars, state, opened>>

FuzzReport == On(Fuzzing, "payload") /\ k = Payloads /\ Done("pass", "none")

-----------------------------------------------------------------------------
(***************************************************************************)
(* WebRTC with several peers.  establish_connection closes its peer when   *)
(* signalling fails, but not when it is cancelled; the flood probe knows   *)
(* its peers only once gather has returned them all.                       *)
(***************************************************************************)
PeerConnect ==
  /\ On({"flood", "srtp"}, "run")
  /\ \/ Done("not_tested", "none")
     \/ /\ opened' = {FirstPeer}
        /\ Goes("others") /\ UNCHANGED <<k, ssrfVars, state>>

\* The observer of the SRTP probe, or all the flood connections.
PeerOthers ==
  /\ On({"flood", "srtp"}, "others")
  /\ \/ kind = "srtp" /\ Done("not_tested", "none")
     \/ /\ kind = "srtp" /\ opened' = opened \cup {"observer"}
        /\ Goes("measure") /\ UNCHANGED <<k, ssrfVars, state>>
     \/ /\ kind = "flood"
        /\ \E peers \in SUBSET FloodPeers : opened' = opened \cup peers
        /\ Goes("measure") /\ UNCHANGED <<k, ssrfVars, state>>

\* The control call still flows, or a corrupted packet is relayed; the SRTP
\* probe wants to see an untouched packet relayed first.
PeerMeasure ==
  /\ On({"flood", "srtp"}, "measure")
  /\ \/ kind = "srtp" /\ Done("not_tested", "none")
     \/ kind = "flood" /\ Done("fail", "outage")
     \/ Done(IF weak THEN "fail" ELSE "pass", "none")

\* The sweep's wait_for cancels a user-supplied probe at an await.
PeerCancel ==
  /\ kind \in {"flood", "srtp", "malformed"} /\ pc \in {"run", "others", "measure", "payload"}
  /\ pc' = "gone"
  /\ \/ pc # "run" /\ opened' = {}
     \/ pc = "run" /\ opened' \in {{}, {FirstPeer}}
     \/ pc = "others" /\ kind = "srtp" /\ opened' \in {{"attacker"}, {"attacker", "observer"}}
     \/ pc = "others" /\ kind = "flood" /\ opened' \in SUBSET FloodPeers
  /\ UNCHANGED <<fixed, k, ssrfVars, state, verdict, why>>

ApNext ==
  \/ Decline \/ Start
  \/ SsrfSend \/ SsrfFetch \/ SsrfReport
  \/ (\E i \in DOMAIN state : RaceCheck(i) \/ RaceAct(i) \/ RaceLose(i)) \/ RaceReport
  \/ MassBaseline \/ MassSubmit \/ MassVerify \/ IdorOwner \/ IdorOther
  \/ JwtBaseline \/ JwtForged \/ StoredSubmit \/ StoredPage \/ PageProbe
  \/ FuzzConnect \/ FuzzPayload \/ FuzzReport
  \/ PeerConnect \/ PeerOthers \/ PeerMeasure \/ PeerCancel

ApSpec == ApInit /\ [][ApNext]_apVars

-----------------------------------------------------------------------------
\* A positive verdict is given only to a target that has the weakness, in
\* whatever order callbacks and overlapping requests come in, unless the
\* target failed for another reason; and whatever it found, a probe that
\* returned has closed every page and peer it opened.
ProbeIsReal ==
  /\ verdict \in {"fail", "confirmed"} /\ kind \notin {"jwt", "idor"} /\ why # "outage" => weak
  /\ pc = "done" => opened = {}
=============================================================================
