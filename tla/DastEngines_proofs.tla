-------------------------- MODULE DastEngines_proofs --------------------------
(***************************************************************************)
(* What the sweep's engines conclude, proved for any parameters, payloads, *)
(* pages, peers, samples and concurrent calls: the probes, the payload     *)
(* checks, the escalation of an SQL signal, the timing comparison, the     *)
(* crawls of any site, and the session they share.  The six parts share no *)
(* state.                                                                  *)
(***************************************************************************)
EXTENDS ProbeSession, PayloadChecks, ActiveProbes, SqlEscalation, PaddingOracle, Crawl,
        Common_proofs

-----------------------------------------------------------------------------
(* The session *)

Places == {"idle", "renewing", "sending", "answered", "relogin", "resending", "done"}
Busy   == {"renewing", "relogin"}

SessTyped ==
    /\ token \in Nat /\ issued \in Nat /\ accepted \in Nat
    /\ reauth_in_progress \in BOOLEAN
    /\ at \in [Calls -> Places]
    /\ reply \in [Calls -> {"none", "ok", "401", "raised", "cancelled"}]
    /\ excused \in [Calls -> BOOLEAN]

\* The flag is up exactly while one call logs in.
FlagInv ==
    /\ \A c, d \in Calls : at[c] \in Busy /\ at[d] \in Busy => c = d
    /\ \A c \in Calls : at[c] \in Busy => reauth_in_progress
    /\ reauth_in_progress => \E c \in Calls : at[c] \in Busy

\* The target accepts what the next login gives; a call about to send again has
\* a token the target accepts, or the session expired since; a 401 that reached
\* its caller has an excuse.
ReplyInv ==
    /\ accepted <= issued + 1
    /\ \A c \in Calls : at[c] = "resending" => token >= accepted \/ excused[c]
    /\ \A c \in Calls : at[c] = "done" /\ reply[c] = "401" => excused[c]

SessInv == SessTyped /\ FlagInv /\ ReplyInv

LEMMA InitSessInv == SessInit => SessInv
<1> SUFFICES ASSUME SessInit
             PROVE  SessInv
    OBVIOUS
<1>1. token \in Nat /\ issued \in Nat /\ accepted \in Nat /\ accepted <= issued + 1
    BY DEF SessInit
<1>2. /\ reauth_in_progress = FALSE
      /\ at = [c \in Calls |-> "idle"] /\ reply = [c \in Calls |-> "none"]
    BY DEF SessInit
<1>3. excused \in [Calls -> BOOLEAN]
    <2>1. excused = [c \in Calls |-> FALSE]
        BY DEF SessInit
    <2> QED
        BY <2>1, Zenon
<1>4. SessTyped
    BY <1>1, <1>2, <1>3 DEF SessTyped, Places
<1>5. FlagInv
    BY <1>2 DEF FlagInv, Busy
<1>6. ReplyInv
    BY <1>1, <1>2 DEF ReplyInv
<1> QED
    BY <1>4, <1>5, <1>6 DEF SessInv

LEMMA TypedStep == SessTyped /\ [SessNext]_sessVars => SessTyped'
<1> SUFFICES ASSUME SessTyped, [SessNext]_sessVars
             PROVE  SessTyped'
    OBVIOUS
<1> USE DEF SessTyped, Places, envVars, GiveToken, KeepToken
<1>1. CASE Authenticate \/ Revoke \/ Due
    BY <1>1 DEF Authenticate, Revoke, Due
<1>2. ASSUME NEW c \in Calls, Call(c)
      PROVE  SessTyped'
    BY <1>2 DEF Call
<1>3. ASSUME NEW c \in Calls, Renew(c) \/ Relogin(c)
      PROVE  SessTyped'
    <2>1. token' \in Nat /\ issued' \in Nat /\ accepted' \in Nat
        BY <1>3 DEF Renew, Relogin
    <2>2. reauth_in_progress' = FALSE /\ excused' = excused
        BY <1>3 DEF Renew, Relogin
    <2>3. at' \in [Calls -> Places] /\ reply' \in [Calls -> {"none", "ok", "401", "raised", "cancelled"}]
        BY <1>3 DEF Renew, Relogin
    <2> HIDE DEF Places
    <2> QED
        BY <2>1, <2>2, <2>3
<1>4. ASSUME NEW c \in Calls, Send(c)
      PROVE  SessTyped'
    BY <1>4 DEF Send
<1>5. ASSUME NEW c \in Calls, React(c)
      PROVE  SessTyped'
    BY <1>5 DEF React
<1>6. ASSUME NEW c \in Calls, CancelCall(c)
      PROVE  SessTyped'
    <2>1. (reauth_in_progress /\ at[c] \notin {"renewing", "relogin"}) \in BOOLEAN
        OBVIOUS
    <2>2. reauth_in_progress' \in BOOLEAN
        BY <1>6, <2>1, Zenon DEF CancelCall
    <2> QED
        BY <1>6, <2>2 DEF CancelCall
<1>7. CASE UNCHANGED sessVars
    BY <1>7 DEF sessVars
<1>8. CASE Expire
    <2>1. excused' = [c \in Calls |-> excused[c] \/ at[c] = "resending"]
        BY <1>8 DEF Expire
    <2>2. \A c \in Calls : (excused[c] \/ at[c] = "resending") \in BOOLEAN
        BY Zenon
    <2>3. excused' \in [Calls -> BOOLEAN]
        BY <2>1, <2>2, Zenon
    <2> HIDE DEF SessTyped
    <2>4. issued \in Nat
        BY DEF SessTyped
    <2>5. accepted' \in Nat /\ token' = token /\ issued' = issued
        BY <1>8, <2>4 DEF Expire
    <2>6. reauth_in_progress' = reauth_in_progress /\ at' = at /\ reply' = reply
        BY <1>8 DEF Expire
    <2> QED
        BY <2>3, <2>5, <2>6, Zenon DEF SessTyped
<1> QED
    BY <1>1, <1>2, <1>3, <1>4, <1>5, <1>6, <1>7, <1>8 DEF SessNext

\* A call takes the flag only when it is down, and every way out of the login,
\* a failure or a cancellation included, puts it down again.
LEMMA FlagStep == SessTyped /\ FlagInv /\ [SessNext]_sessVars => FlagInv'
<1> SUFFICES ASSUME SessTyped, FlagInv, [SessNext]_sessVars
             PROVE  FlagInv'
    OBVIOUS
<1> USE DEF SessTyped, FlagInv, Places, Busy, envVars
<1>1. CASE Authenticate \/ Expire \/ Revoke \/ Due
    BY <1>1 DEF Authenticate, Expire, Revoke, Due, KeepToken
<1>2. ASSUME NEW c \in Calls, Call(c)
      PROVE  FlagInv'
    BY <1>2 DEF Call
<1>3. ASSUME NEW c \in Calls, Renew(c) \/ Relogin(c)
      PROVE  FlagInv'
    BY <1>3 DEF Renew, Relogin
<1>4. ASSUME NEW c \in Calls, Send(c)
      PROVE  FlagInv'
    BY <1>4 DEF Send
<1>5. ASSUME NEW c \in Calls, React(c)
      PROVE  FlagInv'
    BY <1>5 DEF React
<1>6. ASSUME NEW c \in Calls, CancelCall(c)
      PROVE  FlagInv'
    BY <1>6 DEF CancelCall
<1>7. CASE UNCHANGED sessVars
    BY <1>7 DEF sessVars
<1> QED
    BY <1>1, <1>2, <1>3, <1>4, <1>5, <1>6, <1>7 DEF SessNext

\* A new token is one the target accepts, whatever expired before.
LEMMA NewTokenAccepted ==
    ASSUME SessTyped, ReplyInv, GiveToken, accepted' = accepted
    PROVE  accepted' <= issued' + 1 /\ token' >= accepted'
    BY DEF SessTyped, ReplyInv, GiveToken

LEMMA ReplyStep == SessTyped /\ ReplyInv /\ [SessNext]_sessVars => ReplyInv'
<1> SUFFICES ASSUME SessTyped, ReplyInv, [SessNext]_sessVars
             PROVE  ReplyInv'
    OBVIOUS
<1> USE DEF Places, envVars
<1>1. CASE Authenticate
    <2>1. at' = at /\ reply' = reply /\ excused' = excused /\ accepted' = accepted
        BY <1>1 DEF Authenticate
    <2>2. CASE GiveToken
        BY <2>1, <2>2, NewTokenAccepted DEF ReplyInv
    <2>3. CASE KeepToken
        BY <2>1, <2>3 DEF ReplyInv, KeepToken
    <2> QED
        BY <1>1, <2>2, <2>3 DEF Authenticate
<1>2. CASE Revoke \/ Due
    BY <1>2 DEF Revoke, Due, KeepToken, ReplyInv
<1>3. CASE Expire
    <2>1. at' = at /\ reply' = reply /\ issued' = issued /\ accepted' = issued + 1
        BY <1>3 DEF Expire, KeepToken
    <2>2. ASSUME NEW d \in Calls
          PROVE  excused'[d] = (excused[d] \/ at[d] = "resending")
        BY <1>3 DEF Expire
    <2>3. ASSUME NEW d \in Calls, at'[d] = "resending"
          PROVE  excused'[d]
        BY <2>1, <2>2, <2>3
    <2>4. ASSUME NEW d \in Calls, at'[d] = "done", reply'[d] = "401"
          PROVE  excused'[d]
        <3>1. excused[d]
            BY <2>1, <2>4 DEF ReplyInv
        <3> QED
            BY <2>2, <3>1
    <2>5. accepted' <= issued' + 1
        BY <2>1 DEF SessTyped
    <2> QED
        BY <2>3, <2>4, <2>5 DEF ReplyInv
<1>4. ASSUME NEW c \in Calls, Call(c)
      PROVE  ReplyInv'
    BY <1>4 DEF Call, KeepToken, SessTyped, ReplyInv
<1>5. ASSUME NEW c \in Calls, Renew(c)
      PROVE  ReplyInv'
    <2>1. /\ at' = [at EXCEPT ![c] = "sending"]
          /\ reply' = reply /\ excused' = excused /\ accepted' = accepted
        BY <1>5 DEF Renew
    <2>2. /\ \A d \in Calls : at'[d] = "resending" => at[d] = "resending"
          /\ \A d \in Calls : at'[d] = "done" => at[d] = "done"
        BY <2>1 DEF SessTyped
    <2>3. CASE GiveToken
        BY <2>1, <2>2, <2>3, NewTokenAccepted DEF ReplyInv
    <2>4. CASE KeepToken
        BY <2>1, <2>2, <2>4 DEF ReplyInv, KeepToken
    <2> QED
        BY <1>5, <2>3, <2>4 DEF Renew
<1>6. ASSUME NEW c \in Calls, Relogin(c)
      PROVE  ReplyInv'
    <2>1. excused' = excused /\ accepted' = accepted
        BY <1>6 DEF Relogin
    <2>2. CASE GiveToken /\ at' = [at EXCEPT ![c] = "resending"] /\ reply' = reply
        <3>1. \A d \in Calls : at'[d] = "done" => at[d] = "done"
            BY <2>2 DEF SessTyped
        <3>2. accepted' <= issued' + 1 /\ token' >= accepted'
            BY <2>1, <2>2, NewTokenAccepted
        <3> QED
            BY <2>1, <2>2, <3>1, <3>2 DEF ReplyInv
    <2>3. CASE /\ KeepToken /\ at' = [at EXCEPT ![c] = "done"]
               /\ reply' = [reply EXCEPT ![c] = "raised"]
        <3>1. \A d \in Calls : at'[d] = "resending" => at[d] = "resending"
            BY <2>3 DEF SessTyped
        <3>2. \A d \in Calls : at'[d] = "done" /\ reply'[d] = "401"
                                => at[d] = "done" /\ reply[d] = "401"
            BY <2>3 DEF SessTyped
        <3> QED
            BY <2>1, <2>3, <3>1, <3>2 DEF ReplyInv, KeepToken
    <2> QED
        BY <1>6, <2>2, <2>3 DEF Relogin
<1>7. ASSUME NEW c \in Calls, Send(c)
      PROVE  ReplyInv'
    BY <1>7 DEF Send, KeepToken, SessTyped, ReplyInv
<1>8. ASSUME NEW c \in Calls, React(c)
      PROVE  ReplyInv'
    BY <1>8 DEF React, Renewable, KeepToken, SessTyped, ReplyInv
<1>9. ASSUME NEW c \in Calls, CancelCall(c)
      PROVE  ReplyInv'
    BY <1>9 DEF CancelCall, KeepToken, SessTyped, ReplyInv
<1>10. CASE UNCHANGED sessVars
    BY <1>10 DEF sessVars, ReplyInv
<1> QED
    BY <1>1, <1>2, <1>3, <1>4, <1>5, <1>6, <1>7, <1>8, <1>9, <1>10 DEF SessNext

LEMMA SessInvHeals == SessInv => SessionHeals
<1> SUFFICES ASSUME SessInv
             PROVE  SessionHeals
    OBVIOUS
<1> DEFINE busy == {c \in Calls : at[c] \in {"renewing", "relogin"}}
<1>1. Cardinality(busy) <= 1
    <2>1. CASE busy = {}
        BY <2>1, FS_EmptySet
    <2>2. CASE busy # {}
        <3>1. PICK c \in busy : TRUE
            BY <2>2
        <3>2. busy = {c}
            BY <3>1 DEF SessInv, FlagInv, Busy
        <3> QED
            BY <3>2, FS_Singleton
    <2> QED
        BY <2>1, <2>2
<1>2. reauth_in_progress <=> busy # {}
    BY DEF SessInv, SessTyped, FlagInv, Busy
<1> QED
    BY <1>1, <1>2 DEF SessionHeals, SessInv, ReplyInv

\* However calls overlap, logins fail and calls are cancelled, the flag never
\* outlives the call that raised it, and a caller sees a 401 only where no login
\* can help or another call was logging in (session.py:300-333).
THEOREM SessionRecovers == SessSpec => []SessionHeals
<1>1. SessInv /\ [SessNext]_sessVars => SessInv'
    BY TypedStep, FlagStep, ReplyStep DEF SessInv
<1> QED
    BY InitSessInv, <1>1, SessInvHeals, PTL DEF SessSpec

-----------------------------------------------------------------------------
(* The probes *)

\* What a target without the weakness has done so far.  No probe of it was
\* called back but an earlier one's token, at most MaxSuccesses requests went
\* through, and the privileged value was not stored.
QuietTarget ==
    /\ kept \subseteq sent /\ sent \subseteq SsrfParams
    /\ ~weak => hits \subseteq {"earlier"}
    /\ kind = "mass" /\ ~weak => state # <<"privileged">>

RaceStates == {"new", "checked", "refused", "done", "lost", "lost_done"}

RaceInv ==
    kind = "race" =>
        /\ state \in [1..Concurrency -> RaceStates]
        /\ ~weak => /\ \A i \in 1..Concurrency : state[i] # "checked"
                    /\ Cardinality(Applied) <= MaxSuccesses

ProbeInv == weak \in BOOLEAN /\ QuietTarget /\ RaceInv /\ ProbeIsReal

LEMMA InitProbeInv == ApInit => ProbeInv
<1> SUFFICES ASSUME ApInit
             PROVE  ProbeInv
    OBVIOUS
<1>1. weak \in BOOLEAN /\ verdict = "none" /\ pc = "start" /\ opened = {}
    BY DEF ApInit
<1>2. QuietTarget
    <2>1. sent = {} /\ kept = {} /\ hits = {}
        BY DEF ApInit
    <2>2. CASE kind = "mass"
        <3>1. state = <<"plain">>
            BY <2>2 DEF ApInit
        <3>2. state # <<"privileged">>
            BY <3>1
        <3> QED
            BY <2>1, <3>2 DEF QuietTarget
    <2> QED
        BY <2>1, <2>2 DEF QuietTarget
<1>3. RaceInv
    <2> SUFFICES ASSUME kind = "race"
                 PROVE  RaceInv
        BY DEF RaceInv
    <2>1. state = [i \in 1..Concurrency |-> "new"]
        BY DEF ApInit
    <2>2. state \in [1..Concurrency -> RaceStates]
        BY <2>1 DEF RaceStates
    <2>3. Applied = {}
        BY <2>1 DEF Applied
    <2>4. Cardinality(Applied) = 0
        BY <2>3, FS_EmptySet
    <2>5. MaxSuccesses \in Nat
        BY ProbeAssumption
    <2> QED
        BY <2>1, <2>2, <2>4, <2>5 DEF RaceInv
<1>4. ProbeIsReal
    BY <1>1 DEF ProbeIsReal
<1> QED
    BY <1>1, <1>2, <1>3, <1>4 DEF ProbeInv

-----------------------------------------------------------------------------
\* A step of the race probe changes `state` alone, at one request.
RaceStep(i) == RaceCheck(i) \/ RaceAct(i) \/ RaceLose(i)

LEMMA RaceOnly ==
    ASSUME ProbeInv, NEW i \in DOMAIN state, RaceStep(i)
    PROVE  /\ kind = "race" /\ i \in 1..Concurrency
           /\ UNCHANGED <<kind, gate, weak, public, pc, k, sent, kept, hits, opened, verdict, why>>
           /\ \E v \in RaceStates : state' = [state EXCEPT ![i] = v]
<1> USE DEF fixed, ssrfVars, On, RaceStates
<1>1. kind = "race"
    BY DEF RaceStep, RaceCheck, RaceAct, RaceLose
<1>2. i \in 1..Concurrency
    BY <1>1 DEF ProbeInv, RaceInv
<1>3. CASE RaceCheck(i)
    BY <1>1, <1>2, <1>3 DEF RaceCheck
<1>4. CASE RaceAct(i)
    BY <1>1, <1>2, <1>4 DEF RaceAct
<1>5. CASE RaceLose(i)
    BY <1>1, <1>2, <1>5 DEF RaceLose
<1> QED
    BY <1>3, <1>4, <1>5 DEF RaceStep

\* A target that checks and acts in one step never exceeds its limit.
LEMMA RaceKept ==
    ASSUME ProbeInv, NEW i \in DOMAIN state, RaceStep(i)
    PROVE  RaceInv'
<1> DEFINE N == 1..Concurrency
<1>1. /\ kind = "race" /\ i \in N /\ kind' = kind /\ weak' = weak
    BY RaceOnly
<1>2. state \in [N -> RaceStates]
    BY <1>1 DEF ProbeInv, RaceInv
<1>3. state' \in [N -> RaceStates]
    BY <1>1, <1>2, RaceOnly
<1>4. ASSUME ~weak
      PROVE  /\ \A j \in N : state'[j] # "checked"
             /\ Cardinality(Applied') <= MaxSuccesses
    <2>1. /\ \A j \in N : state[j] # "checked"
          /\ Cardinality(Applied) <= MaxSuccesses
        BY <1>1, <1>4 DEF ProbeInv, RaceInv
    <2>2. MaxSuccesses \in Nat /\ Concurrency \in Nat
        BY ProbeAssumption
    <2>3. IsFiniteSet(Applied) /\ Cardinality(Applied) \in Nat
        <3>1. Applied \subseteq N
            BY <1>2 DEF Applied
        <3>2. IsFiniteSet(N)
            BY <2>2, FS_Interval
        <3> QED
            BY <3>1, <3>2, FS_Subset, FS_CardinalityType
    <2>4. CASE RaceCheck(i) /\ Cardinality(Applied) < MaxSuccesses
        <3>1. state' = [state EXCEPT ![i] = "done"] /\ state[i] = "new"
            BY <1>4, <2>2, <2>3, <2>4 DEF RaceCheck
        <3>2. Applied' = Applied \cup {i} /\ i \notin Applied
            BY <1>1, <1>2, <3>1 DEF Applied
        <3>3. Cardinality(Applied') = Cardinality(Applied) + 1
            BY <2>3, <3>2, FS_AddElement
        <3> QED
            BY <1>1, <1>2, <2>1, <2>2, <2>3, <2>4, <3>1, <3>3
    <2>5. CASE ~(RaceCheck(i) /\ Cardinality(Applied) < MaxSuccesses)
        <3>1. \/ state[i] = "done" /\ state' = [state EXCEPT ![i] = "lost_done"]
              \/ state[i] \in {"new", "refused"} /\ \E v \in {"refused", "lost"} : state' = [state EXCEPT ![i] = v]
            <4>1. CASE RaceCheck(i)
                BY <4>1, <2>2, <2>3, <2>5 DEF RaceCheck
            <4>2. CASE RaceAct(i)
                BY <1>1, <2>1, <4>2 DEF RaceAct
            <4>3. CASE RaceLose(i)
                BY <4>3 DEF RaceLose
            <4> QED
                BY <4>1, <4>2, <4>3 DEF RaceStep
        <3>2. Applied' = Applied
            BY <1>1, <1>2, <3>1 DEF Applied
        <3> QED
            BY <1>1, <1>2, <2>1, <3>1, <3>2
    <2> QED
        BY <2>4, <2>5
<1> QED
    BY <1>1, <1>3, <1>4 DEF RaceInv

-----------------------------------------------------------------------------
\* Every other step leaves the racing requests alone.
LEMMA NoRace ==
    ASSUME ProbeInv, UNCHANGED <<kind, weak>>, UNCHANGED state \/ kind # "race"
    PROVE  RaceInv'
<1>1. CASE kind # "race"
    BY <1>1 DEF RaceInv
<1>2. CASE UNCHANGED state
    <2>1. RaceInv /\ Applied' = Applied
        BY <1>2 DEF ProbeInv, Applied
    <2> QED
        BY <1>2, <2>1 DEF RaceInv
<1> QED
    BY <1>1, <1>2

LEMMA Concludes ==
    ASSUME ProbeInv, NEW v, NEW r, Done(v, r),
           v \in {"fail", "confirmed"} /\ kind \notin {"jwt", "idor"} /\ r # "outage" => weak
    PROVE  ProbeInv'
<1> USE DEF Done, fixed, ssrfVars
<1>1. ProbeIsReal'
    BY DEF ProbeIsReal
<1>2. QuietTarget' /\ weak' \in BOOLEAN
    BY DEF ProbeInv, QuietTarget
<1>3. RaceInv'
    BY NoRace
<1> QED
    BY <1>1, <1>2, <1>3 DEF ProbeInv

LEMMA Silent ==
    ASSUME ProbeInv, NEW v, NEW r, Done(v, r), v \notin {"fail", "confirmed"}
    PROVE  ProbeInv'
BY Concludes

\* A step within a probe: no verdict yet.
LEMMA Proceeds ==
    ASSUME ProbeInv, NEW place, Goes(place), place # "done", UNCHANGED ssrfVars,
           kind \in {"race", "mass"} => UNCHANGED state
    PROVE  ProbeInv'
<1> USE DEF Goes, fixed, ssrfVars
<1>1. ProbeIsReal'
    BY DEF ProbeInv, ProbeIsReal
<1>2. QuietTarget' /\ weak' \in BOOLEAN
    BY DEF ProbeInv, QuietTarget
<1>3. RaceInv'
    BY NoRace
<1> QED
    BY <1>1, <1>2, <1>3 DEF ProbeInv

-----------------------------------------------------------------------------
LEMMA SsrfKept == ProbeInv /\ (SsrfSend \/ SsrfFetch \/ SsrfReport) => ProbeInv'
<1> SUFFICES ASSUME ProbeInv, SsrfSend \/ SsrfFetch \/ SsrfReport
             PROVE  ProbeInv'
    OBVIOUS
<1>1. CASE SsrfSend
    <2>1. QuietTarget' /\ weak' \in BOOLEAN
        BY <1>1 DEF SsrfSend, ProbeInv, QuietTarget, On, Goes, fixed
    <2>2. ProbeIsReal'
        BY <1>1 DEF SsrfSend, ProbeInv, ProbeIsReal, Goes, fixed
    <2>3. RaceInv'
        BY <1>1, NoRace DEF SsrfSend, Goes, fixed
    <2> QED
        BY <2>1, <2>2, <2>3 DEF ProbeInv
<1>2. CASE SsrfFetch
    <2>1. QuietTarget' /\ weak' \in BOOLEAN
        <3>1. PICK p \in (IF weak THEN sent ELSE {}) \cup {"earlier"} : hits' = hits \cup {p}
            BY <1>2 DEF SsrfFetch
        <3> QED
            BY <1>2, <3>1 DEF SsrfFetch, ProbeInv, QuietTarget, fixed
    <2>2. ProbeIsReal'
        BY <1>2 DEF SsrfFetch, ProbeInv, ProbeIsReal, fixed
    <2>3. RaceInv'
        BY <1>2, NoRace DEF SsrfFetch, fixed
    <2> QED
        BY <2>1, <2>2, <2>3 DEF ProbeInv
<1>3. CASE SsrfReport
    <2>1. SsrfFound => weak
        BY ProbeAssumption DEF SsrfFound, ProbeInv, QuietTarget
    <2>2. CASE kept = {}
        <3>1. Done("not_tested", "none")
            BY <1>3, <2>2 DEF SsrfReport
        <3> QED
            BY <3>1, Silent
    <2>3. CASE kept # {} /\ ~SsrfFound
        <3>1. Done("pass", "none")
            BY <1>3, <2>3 DEF SsrfReport
        <3> QED
            BY <3>1, Silent
    <2>4. CASE kept # {} /\ SsrfFound
        <3>1. Done("fail", "none")
            BY <1>3, <2>4 DEF SsrfReport
        <3> QED
            BY <2>1, <2>4, <3>1, Concludes
    <2> QED
        BY <2>2, <2>3, <2>4
<1> QED
    BY <1>1, <1>2, <1>3

LEMMA RaceReportKept == ProbeInv /\ RaceReport => ProbeInv'
<1> SUFFICES ASSUME ProbeInv, RaceReport
             PROVE  ProbeInv'
    OBVIOUS
<1>1. CASE Done("not_tested", "none")
    BY <1>1, Silent
<1>2. CASE ~Done("not_tested", "none")
    <2>1. Done(IF Cardinality(Successful) > MaxSuccesses THEN "fail" ELSE "pass", "none")
        BY <1>2 DEF RaceReport
    <2>2. ASSUME ~weak
          PROVE  ~(Cardinality(Successful) > MaxSuccesses)
        <3>1. /\ state \in [1..Concurrency -> RaceStates]
              /\ Cardinality(Applied) <= MaxSuccesses
            BY <2>2 DEF RaceReport, On, ProbeInv, RaceInv
        <3>2. MaxSuccesses \in Nat /\ Concurrency \in Nat
            BY ProbeAssumption
        <3>3. Successful \subseteq Applied /\ Applied \subseteq 1..Concurrency
            BY <3>1 DEF Successful, Applied
        <3>4. IsFiniteSet(Applied)
            <4>1. IsFiniteSet(1..Concurrency)
                BY <3>2, FS_Interval
            <4> QED
                BY <3>3, <4>1, FS_Subset
        <3>5. /\ IsFiniteSet(Successful) /\ Cardinality(Successful) <= Cardinality(Applied)
            BY <3>3, <3>4, FS_Subset
        <3>6. Cardinality(Successful) \in Nat /\ Cardinality(Applied) \in Nat
            BY <3>4, <3>5, FS_CardinalityType
        <3> QED
            BY <3>1, <3>2, <3>5, <3>6
    <2>3. CASE Cardinality(Successful) > MaxSuccesses
        <3>1. Done("fail", "none")
            BY <2>1, <2>3, Zenon
        <3> QED
            BY <2>2, <2>3, <3>1, Concludes
    <2>4. CASE ~(Cardinality(Successful) > MaxSuccesses)
        <3>1. Done("pass", "none")
            BY <2>1, <2>4, Zenon
        <3> QED
            BY <3>1, Silent
    <2> QED
        BY <2>3, <2>4
<1> QED
    BY <1>1, <1>2

LEMMA MassKept == ProbeInv /\ (MassBaseline \/ MassSubmit \/ MassVerify) => ProbeInv'
<1> SUFFICES ASSUME ProbeInv, MassBaseline \/ MassSubmit \/ MassVerify
             PROVE  ProbeInv'
    OBVIOUS
<1>1. CASE \E v \in {"not_tested", "pass"} : Done(v, "none")
    BY <1>1, Silent
<1>2. CASE MassBaseline /\ Goes("submit")
    BY <1>2, Proceeds DEF MassBaseline, Goes, Done
<1>3. CASE MassSubmit /\ Goes("verify")
    <2>1. /\ state' = IF weak THEN <<"privileged">> ELSE state
          /\ UNCHANGED <<k, ssrfVars, opened>> /\ kind = "mass"
        BY <1>3 DEF MassSubmit, Goes, Done, On
    <2>2. QuietTarget' /\ weak' \in BOOLEAN
        BY <1>3, <2>1 DEF Goes, ProbeInv, QuietTarget, fixed, ssrfVars
    <2>3. ProbeIsReal'
        BY <1>3, <2>1 DEF Goes, ProbeInv, ProbeIsReal, fixed
    <2>4. RaceInv'
        BY <1>3, <2>1, NoRace DEF Goes, fixed
    <2> QED
        BY <2>2, <2>3, <2>4 DEF ProbeInv
<1>4. CASE MassVerify /\ state = <<"privileged">>
    <2>1. CASE Done("not_tested", "none")
        BY <2>1, Silent
    <2>2. CASE Done("confirmed", "none")
        <3>1. weak
            BY <1>4 DEF MassVerify, On, ProbeInv, QuietTarget
        <3> QED
            BY <2>2, <3>1, Concludes
    <2> QED
        BY <1>4, <2>1, <2>2 DEF MassVerify
<1>5. CASE MassVerify /\ state # <<"privileged">>
    BY <1>1, <1>5 DEF MassVerify
<1>6. CASE MassBaseline
    <2>1. Done("not_tested", "none") \/ Done("inconclusive", "held already") \/ Goes("submit")
        BY <1>6 DEF MassBaseline
    <2>2. CASE Done("inconclusive", "held already")
        BY <2>2, Silent
    <2> QED
        BY <1>1, <1>2, <1>6, <2>1, <2>2
<1>7. CASE MassSubmit
    BY <1>1, <1>3, <1>7 DEF MassSubmit
<1> QED
    BY <1>4, <1>5, <1>6, <1>7

LEMMA PairedKept ==
    ProbeInv /\ (IdorOwner \/ IdorOther \/ JwtBaseline \/ JwtForged) => ProbeInv'
<1> SUFFICES ASSUME ProbeInv, IdorOwner \/ IdorOther \/ JwtBaseline \/ JwtForged
             PROVE  ProbeInv'
    OBVIOUS
<1>1. kind \in {"idor", "jwt"}
    BY DEF IdorOwner, IdorOther, JwtBaseline, JwtForged, On
<1>2. CASE \E v \in {"not_tested", "inconclusive", "pass", "fail", "not_configured", "confirmed"} :
             Done(v, "none")
    BY <1>1, <1>2, Concludes
<1>3. CASE Goes("submit") \/ Goes("forged")
    <2>1. UNCHANGED <<ssrfVars, state>>
        BY <1>3 DEF IdorOwner, IdorOther, JwtBaseline, JwtForged, Goes, Done
    <2> QED
        BY <1>3, <2>1, Proceeds
<1> QED
    BY <1>2, <1>3 DEF IdorOwner, IdorOther, JwtBaseline, JwtForged

LEMMA StoredKept == ProbeInv /\ (StoredSubmit \/ StoredPage \/ PageProbe) => ProbeInv'
<1> SUFFICES ASSUME ProbeInv, StoredSubmit \/ StoredPage \/ PageProbe
             PROVE  ProbeInv'
    OBVIOUS
<1>1. CASE \E v \in {"not_tested", "pass", "inconclusive"} : Done(v, "none")
    BY <1>1, Silent
<1>2. CASE weak /\ \E v \in {"fail", "confirmed"} : Done(v, "none")
    BY <1>2, Concludes
<1>3. CASE Goes("pages") /\ (StoredSubmit \/ StoredPage)
    <2>1. UNCHANGED ssrfVars /\ kind = "stored"
        BY <1>3 DEF StoredSubmit, StoredPage, Goes, Done, On
    <2> QED
        BY <1>3, <2>1, Proceeds
<1>4. CASE StoredSubmit
    BY <1>1, <1>2, <1>3, <1>4 DEF StoredSubmit
<1>5. CASE StoredPage
    BY <1>1, <1>2, <1>3, <1>5 DEF StoredPage
<1>6. CASE PageProbe
    BY <1>1, <1>2, <1>6 DEF PageProbe
<1> QED
    BY <1>4, <1>5, <1>6

LEMMA FuzzKept == ProbeInv /\ (FuzzConnect \/ FuzzPayload \/ FuzzReport) => ProbeInv'
<1> SUFFICES ASSUME ProbeInv, FuzzConnect \/ FuzzPayload \/ FuzzReport
             PROVE  ProbeInv'
    OBVIOUS
<1>1. CASE \E v \in {"not_tested", "pass"} : Done(v, "none")
    BY <1>1, Silent
<1>2. CASE Goes("payload")
    <2>1. UNCHANGED <<ssrfVars, state>>
        BY <1>2 DEF FuzzConnect, FuzzPayload, FuzzReport, Goes, Done
    <2> QED
        BY <1>2, <2>1, Proceeds
<1>3. CASE FuzzPayload /\ ~Goes("payload")
    <2>1. PICK alive \in BOOLEAN, outage \in BOOLEAN :
             /\ ~alive => weak \/ outage
             /\ ~alive /\ Done("fail", IF outage THEN "outage" ELSE "none")
        BY <1>3 DEF FuzzPayload
    <2>2. CASE outage
        <3>1. Done("fail", "outage")
            BY <2>1, <2>2
        <3> QED
            BY <3>1, Concludes
    <2>3. CASE ~outage
        <3>1. Done("fail", "none") /\ weak
            BY <2>1, <2>3
        <3> QED
            BY <3>1, Concludes
    <2> QED
        BY <2>2, <2>3
<1> QED
    BY <1>1, <1>2, <1>3 DEF FuzzConnect, FuzzReport

LEMMA PeersKept ==
    ProbeInv /\ (PeerConnect \/ PeerOthers \/ PeerMeasure \/ PeerCancel) => ProbeInv'
<1> SUFFICES ASSUME ProbeInv, PeerConnect \/ PeerOthers \/ PeerMeasure \/ PeerCancel
             PROVE  ProbeInv'
    OBVIOUS
<1>1. CASE \E v \in {"not_tested", "pass"} : Done(v, "none")
    BY <1>1, Silent
<1>2. CASE Done("fail", "outage")
    BY <1>2, Concludes
<1>3. CASE weak /\ Done("fail", "none")
    BY <1>3, Concludes
<1>4. CASE (PeerConnect \/ PeerOthers) /\ (Goes("others") \/ Goes("measure"))
    <2>1. UNCHANGED <<ssrfVars, state>>
        BY <1>4 DEF PeerConnect, PeerOthers, Goes, Done
    <2> QED
        BY <1>4, <2>1, Proceeds
<1>5. CASE PeerCancel
    <2>1. QuietTarget' /\ weak' \in BOOLEAN
        BY <1>5 DEF PeerCancel, ProbeInv, QuietTarget, fixed, ssrfVars
    <2>2. ProbeIsReal'
        BY <1>5 DEF PeerCancel, ProbeInv, ProbeIsReal, fixed
    <2>3. RaceInv'
        BY <1>5, NoRace DEF PeerCancel, fixed
    <2> QED
        BY <2>1, <2>2, <2>3 DEF ProbeInv
<1>6. CASE PeerConnect \/ PeerOthers
    BY <1>1, <1>4, <1>6 DEF PeerConnect, PeerOthers
<1>7. CASE PeerMeasure
    BY <1>1, <1>2, <1>3, <1>7 DEF PeerMeasure
<1> QED
    BY <1>5, <1>6, <1>7

\* A positive verdict needs the weakness, for any number of parameters, racing
\* requests, payloads, pages and peers and for every order of the target's
\* answers, and a probe that returned holds nothing open (dast/*_probe.py).
THEOREM ProbesAreReal == ApSpec => []ProbeIsReal
<1>1. ProbeInv /\ [ApNext]_apVars => ProbeInv'
    <2> SUFFICES ASSUME ProbeInv, [ApNext]_apVars
                 PROVE  ProbeInv'
        OBVIOUS
    <2>1. CASE Decline
        BY <2>1, Silent DEF Decline
    <2>2. CASE Start
        BY <2>2, Proceeds DEF Start
    <2>3. ASSUME NEW i \in DOMAIN state, RaceStep(i)
          PROVE  ProbeInv'
        <3>1. /\ kind = "race"
              /\ UNCHANGED <<kind, weak, pc, sent, kept, hits, opened, verdict, why>>
            BY <2>3, RaceOnly
        <3>2. QuietTarget' /\ weak' \in BOOLEAN
            BY <3>1 DEF ProbeInv, QuietTarget
        <3>3. ProbeIsReal'
            BY <3>1 DEF ProbeInv, ProbeIsReal
        <3>4. RaceInv'
            BY <2>3, RaceKept
        <3> QED
            BY <3>2, <3>3, <3>4 DEF ProbeInv
    <2>4. CASE UNCHANGED apVars
        <3>1. UNCHANGED <<kind, weak, pc, sent, kept, hits, opened, verdict, why, state>>
            BY <2>4 DEF apVars
        <3>2. QuietTarget' /\ weak' \in BOOLEAN /\ ProbeIsReal'
            BY <3>1 DEF ProbeInv, QuietTarget, ProbeIsReal
        <3> QED
            BY <3>1, <3>2, NoRace DEF ProbeInv
    <2> QED
        BY <2>1, <2>2, <2>3, <2>4, SsrfKept, RaceReportKept, MassKept, PairedKept, StoredKept,
           FuzzKept, PeersKept
        DEF ApNext, RaceStep
<1>2. ProbeInv => ProbeIsReal
    BY DEF ProbeInv
<1> QED
    BY InitProbeInv, <1>1, <1>2, PTL DEF ApSpec

-----------------------------------------------------------------------------
(* The payload checks *)

\* What the loop of a check relies on: on a target that answered every request
\* plainly, only a parameter that is still to be tried can have the weakness.
LoopInv ==
    running =>
        /\ pos \in 1..Len(Rules) /\ Chk \in PerParam
        /\ params_left \in Seq(STRING)
        /\ smooth => \A p \in hole : \/ \E i \in 1..Len(params_left) : params_left[i] = p
                                     \/ Chk = "REDIRECT" /\ p = "Host"

ChecksInv ==
    /\ call.params \in Seq(STRING) /\ pos \in Nat \ {0}
    /\ smooth \in BOOLEAN /\ observed_response \in BOOLEAN
    /\ LoopInv /\ SignalIsReal /\ HoleIsFound

-----------------------------------------------------------------------------
\* What one parameter's answers say about it: a hit of a check with a mark of
\* its own needs the weakness, and a target that answers plainly gives one
\* where the weakness is.
Telling(rule, h, x) == (x.hit /\ rule \in Exact => h) /\ (h /\ x.plain => x.hit)

LEMMA OnlyTrue == ASSUME NEW h, NEW s \in Only(h), s PROVE h
BY Zenon DEF Only

LEMMA MarkTells ==
    ASSUME NEW h \in BOOLEAN, NEW rule, NEW x \in MarkReadings(h)
    PROVE  Telling(rule, h, x)
BY DEF MarkReadings, Reading, Marked, Answer, Shows, Unanswered, Telling

LEMMA RedirectTells ==
    ASSUME NEW h \in BOOLEAN, NEW rule, NEW x \in RedirectReadings(h)
    PROVE  Telling(rule, h, x)
BY DEF RedirectReadings, Reading, Marked, Answer, Shows, Unanswered, Telling

LEMMA ReadingsTell ==
    ASSUME NEW h \in BOOLEAN, NEW rule \in PerParam, NEW x \in Readings(rule, h)
    PROVE  Telling(rule, h, x)
<1>1. CASE rule = "CRLF"
    BY <1>1, MarkTells DEF Readings
<1>2. CASE rule = "REDIRECT"
    BY <1>2, RedirectTells DEF Readings
<1>3. CASE rule = "XSS"
    <2>1. PICK r \in Answer :
            x = Reading(~Unanswered(r), Shows(r), r.status = "2xx" /\ (h => Shows(r)))
        BY <1>3 DEF Readings, XssReadings
    <2> QED
        BY <1>3, <2>1 DEF Reading, Unanswered, Telling, Exact
<1>4. CASE rule = "SQL"
    <2>1. PICK t \in Answer, f \in Answer : x = SqlReading(t, f, h)
        BY <1>4 DEF Readings
    <2> QED
        BY <1>4, <2>1 DEF SqlReading, Reading, Lost, Differ, Telling, Exact
<1>5. CASE rule = "COMMAND"
    <2>1. PICK b \in Answer, s \in Only(h) : x = CommandReading(b, s, h)
        BY <1>5 DEF Readings
    <2>2. s => h
        BY OnlyTrue
    <2> QED
        BY <2>1, <2>2 DEF CommandReading, Reading, Unanswered, Telling
<1>6. CASE rule = "SSTI"
    <2>1. \/ \E b \in Answer, a \in Marked(h) : x = SstiReading(b, a, h)
          \/ \E b \in {r \in Answer : Shows(r)}, a \in Answer : x = SstiReading(b, a, h)
        BY <1>6 DEF Readings
    <2>2. PICK b \in Answer, a \in Answer : x = SstiReading(b, a, h) /\ (Shows(b) \/ (Shows(a) => h))
        BY <2>1 DEF Marked
    <2> QED
        BY <2>2 DEF SstiReading, Reading, Unanswered, Lost, Telling
<1>7. CASE rule = "NOSQL"
    <2>1. PICK c \in Answer, n \in Answer, g \in Answer : x = NosqlReading(c, n, g, h)
        BY <1>7 DEF Readings
    <2> QED
        BY <1>7, <2>1 DEF NosqlReading, Reading, Unanswered, Lost, Differ, Telling, Exact
<1> QED
    BY <1>1, <1>2, <1>3, <1>4, <1>5, <1>6, <1>7 DEF PerParam, GuessedParams

LEMMA StrengthsEarned ==
    ASSUME NEW h \in BOOLEAN, NEW rule, NEW v \in Strengths(rule, h)
    PROVE  v \in {"fail", "confirmed"} /\ (v = "confirmed" => h)
BY DEF Strengths

\* The checks without a loop claim nothing beyond what the target has either.
LEMMA VerdictsEarned ==
    ASSUME NEW h \in BOOLEAN, NEW rule, NEW i \in 1..Len(Rules), rule = Rules[i],
           rule \notin PerParam, NEW v \in Verdicts(rule, h)
    PROVE  v = "confirmed" \/ (v = "fail" /\ rule \in Exact) => h
<1>1. CASE rule = "DOUBLE_DECODE"
    <2>1. PICK s \in Answer, d \in Marked(h) : v = DoubleDecode(s, d)
        BY <1>1 DEF Verdicts
    <2> QED
        BY <2>1 DEF DoubleDecode, Marked
<1>2. CASE rule = "SMUGGLING"
    <2>1. PICK r \in Marked(h) : v = Smuggling(r)
        BY <1>2 DEF Verdicts
    <2> QED
        BY <2>1 DEF Smuggling, Marked
<1>3. CASE rule = "CSRF"
    <2>1. PICK p \in Answer, f \in BOOLEAN, t \in Answer : v = Csrf(p, f, t)
        BY <1>3 DEF Verdicts
    <2> QED
        BY <1>3, <2>1 DEF Csrf, Exact
<1>4. CASE rule = "UNAUTH"
    <2>1. PICK p \in BOOLEAN, a \in Answer, n \in Answer : v = Unauthenticated(p, a, n)
        BY <1>4 DEF Verdicts
    <2> QED
        BY <1>4, <2>1 DEF Unauthenticated, Exact
<1>5. CASE rule = "XXE"
    <2>1. PICK r \in Answer, c \in Only(h) : v = Xxe(r, c)
        BY <1>5 DEF Verdicts
    <2>2. c => h
        BY OnlyTrue
    <2> QED
        BY <1>5, <2>1, <2>2 DEF Xxe, Exact
<1>6. CASE rule = "CORS"
    <2>1. PICK r \in Marked(h), c \in Only(h) : v = Cors(r, c)
        BY <1>6 DEF Verdicts
    <2>2. (c => h) /\ (Shows(r) => h)
        BY OnlyTrue DEF Marked
    <2> QED
        BY <2>1, <2>2 DEF Cors
<1>7. CASE rule = "WS_UNAUTH"
    <2>1. PICK p \in BOOLEAN, a \in Answer, n \in Marked(h) : v = WebsocketUnauth(p, a, n)
        BY <1>7 DEF Verdicts
    <2> QED
        BY <2>1 DEF WebsocketUnauth, Marked, TokenIn
<1>8. CASE rule = "WS_DERIVED"
    <2>1. PICK p \in BOOLEAN, r \in Answer, d \in Only(h) : v = WebsocketDerived(p, r, d)
        BY <1>8 DEF Verdicts
    <2>2. d => h
        BY OnlyTrue
    <2> QED
        BY <2>1, <2>2 DEF WebsocketDerived
<1> QED
    BY <1>1, <1>2, <1>3, <1>4, <1>5, <1>6, <1>7, <1>8 DEF Rules, PerParam, GuessedParams

-----------------------------------------------------------------------------
LEMMA InitChecksInv == PcInit => ChecksInv
<1> SUFFICES ASSUME PcInit
             PROVE  ChecksInv
    OBVIOUS
<1>1. call.params \in Seq(STRING)
    BY ParamAssumption DEF PcInit
<1>2. /\ pos = 1 /\ running = FALSE /\ observed_response = FALSE
      /\ found = "none" /\ smooth = FALSE
    BY DEF PcInit
<1>3. SignalIsReal
    BY <1>2 DEF SignalIsReal
<1>4. HoleIsFound
    BY <1>2 DEF HoleIsFound
<1>5. smooth \in BOOLEAN /\ observed_response \in BOOLEAN
    BY <1>2, Zenon
<1>6. pos \in Nat \ {0}
    BY <1>2
<1>7. LoopInv
    BY <1>2 DEF LoopInv
<1> QED
    BY <1>1, <1>3, <1>4, <1>5, <1>6, <1>7 DEF ChecksInv

\* What has to be shown when a check gives its verdict v.
LEMMA Appended ==
    ASSUME ChecksInv, NEW v, Append1(v), smooth' \in BOOLEAN,
           v = "confirmed" \/ (v = "fail" /\ Chk \in Exact) => hole' # {},
           smooth' /\ v \in {"pass", "not_tested"} => hole' = {}
    PROVE  ChecksInv'
<1>1. /\ call' = call /\ pos' = pos + 1 /\ pos \in Nat \ {0} /\ running' = FALSE
      /\ observed_response' = FALSE /\ found' = v
      /\ of' = [hole |-> hole', smooth |-> smooth']
    BY DEF Append1, ChecksInv
<1>2. call'.params \in Seq(STRING) /\ pos' \in Nat \ {0}
    BY <1>1 DEF ChecksInv
<1>3. LoopInv'
    BY <1>1 DEF LoopInv
<1>4. SignalIsReal'
    <2>1. LastRule' = Chk
        <3>1. pos' - 1 = pos
            BY <1>1
        <3> QED
            BY <3>1 DEF LastRule, Chk, Rules
    <2> QED
        BY <1>1, <2>1 DEF SignalIsReal
<1>5. HoleIsFound'
    BY <1>1 DEF HoleIsFound
<1> QED
    BY <1>1, <1>2, <1>3, <1>4, <1>5 DEF ChecksInv

\* A step inside a loop leaves the last finding alone.
LEMMA Unfinished ==
    ASSUME ChecksInv, UNCHANGED <<call, pos, found, of>>, smooth' \in BOOLEAN,
           observed_response' \in BOOLEAN, LoopInv'
    PROVE  ChecksInv'
<1>1. SignalIsReal'
    BY DEF ChecksInv, SignalIsReal, LastRule, Rules
<1>2. HoleIsFound'
    BY DEF ChecksInv, HoleIsFound
<1> QED
    BY <1>1, <1>2 DEF ChecksInv

LEMMA StartLoopKept == ChecksInv /\ StartLoop => ChecksInv'
<1> SUFFICES ASSUME ChecksInv, StartLoop
             PROVE  ChecksInv'
    OBVIOUS
<1>1. params_left' \in Seq(STRING)
    BY ParamAssumption DEF StartLoop, ChecksInv
<1>2. /\ UNCHANGED <<call, pos, found, of>> /\ smooth' = TRUE /\ observed_response' = FALSE
      /\ Chk \in PerParam /\ pos \in 1..Len(Rules)
    <2>1. pos \in Nat \ {0} /\ pos <= Len(Rules) /\ Len(Rules) = 15
        BY DEF StartLoop, May, ChecksInv, Rules
    <2> QED
        BY <2>1 DEF StartLoop
<1>3. \A p \in hole' : \/ \E i \in 1..Len(params_left') : params_left'[i] = p
                       \/ Chk = "REDIRECT" /\ p = "Host"
    <2>1. hole' \subseteq {params_left'[i] : i \in DOMAIN params_left'}
                          \cup IF Chk = "REDIRECT" THEN {"Host"} ELSE {}
        BY DEF StartLoop
    <2>2. DOMAIN params_left' = 1..Len(params_left')
        BY <1>1
    <2> QED
        BY <2>1, <2>2
<1>4. LoopInv'
    <2>1. Chk' = Chk
        BY <1>2 DEF Chk, Rules
    <2> QED
        BY <1>1, <1>2, <1>3, <2>1 DEF LoopInv
<1> QED
    BY <1>2, <1>4, Unfinished

LEMMA TryParamKept == ChecksInv /\ TryParam => ChecksInv'
<1> SUFFICES ASSUME ChecksInv, TryParam
             PROVE  ChecksInv'
    OBVIOUS
<1> DEFINE p == Head(params_left)
           h == p \in hole
<1>1. /\ running /\ params_left # <<>> /\ hole' = hole
      /\ pos \in 1..Len(Rules) /\ Chk \in PerParam /\ params_left \in Seq(STRING)
      /\ smooth \in BOOLEAN /\ observed_response \in BOOLEAN
    BY DEF TryParam, ChecksInv, LoopInv
<1>2. PICK x \in Readings(Chk, h) :
        /\ smooth' = (smooth /\ x.plain)
        /\ \/ x.hit /\ \E v \in Strengths(Chk, h) : Append1(v)
           \/ /\ ~x.hit /\ params_left' = Tail(params_left)
              /\ observed_response' = (observed_response \/ x.seen)
              /\ UNCHANGED <<call, pos, running, found, of>>
    BY DEF TryParam
<1>3. Telling(Chk, h, x)
    <2>1. h \in BOOLEAN
        OBVIOUS
    <2> HIDE DEF h
    <2> QED
        BY <1>1, <2>1, ReadingsTell
<1>4. smooth' \in BOOLEAN
    BY <1>1, <1>2
<1>5. CASE x.hit /\ \E v \in Strengths(Chk, h) : Append1(v)
    <2>1. PICK v \in Strengths(Chk, h) : Append1(v)
        BY <1>5
    <2>2. v \in {"fail", "confirmed"} /\ (v = "confirmed" => h)
        <3>1. h \in BOOLEAN
            OBVIOUS
        <3> HIDE DEF h
        <3> QED
            BY <3>1, StrengthsEarned
    <2>3. v = "confirmed" \/ (v = "fail" /\ Chk \in Exact) => hole' # {}
        BY <1>1, <1>3, <1>5, <2>2 DEF Telling
    <2> QED
        BY <1>4, <2>1, <2>2, <2>3, Appended
<1>6. CASE ~x.hit /\ params_left' = Tail(params_left)
    <2>1. /\ UNCHANGED <<call, pos, running, found, of>>
          /\ observed_response' = (observed_response \/ x.seen)
        BY <1>2, <1>6
    <2>2. observed_response' \in BOOLEAN
        BY <1>1, <2>1
    <2>3. /\ params_left' \in Seq(STRING)
          /\ Len(params_left') = Len(params_left) - 1 /\ Len(params_left) \in Nat \ {0}
          /\ \A i \in 1..Len(params_left') : params_left'[i] = params_left[i + 1]
          /\ p = params_left[1]
        BY <1>1, <1>6
    <2>4. ASSUME smooth', NEW q \in hole
          PROVE  \/ \E i \in 1..Len(params_left') : params_left'[i] = q
                 \/ Chk = "REDIRECT" /\ q = "Host"
        <3>1. smooth /\ x.plain
            BY <1>1, <1>2, <2>4
        <3>2. q # p
            BY <1>3, <1>6, <2>4, <3>1 DEF Telling
        <3>3. CASE \E i \in 1..Len(params_left) : params_left[i] = q
            <4>1. PICK i \in 1..Len(params_left) : params_left[i] = q
                BY <3>3
            <4>2. i - 1 \in 1..Len(params_left') /\ params_left'[i - 1] = q
                BY <2>3, <3>2, <4>1
            <4> QED
                BY <4>2
        <3> QED
            BY <1>1, <2>4, <3>1, <3>3 DEF ChecksInv, LoopInv
    <2>5. LoopInv'
        <3>1. Chk' = Chk
            BY <2>1 DEF Chk, Rules
        <3> QED
            BY <1>1, <2>1, <2>3, <2>4, <3>1 DEF LoopInv
    <2> QED
        BY <1>4, <2>1, <2>2, <2>5, Unfinished
<1> QED
    BY <1>2, <1>5, <1>6

LEMMA EndLoopKept == ChecksInv /\ EndLoop => ChecksInv'
<1> SUFFICES ASSUME ChecksInv, EndLoop
             PROVE  ChecksInv'
    OBVIOUS
<1> DEFINE quiet == IF observed_response THEN "pass" ELSE "not_tested"
<1>1. /\ running /\ params_left = <<>> /\ hole' = hole /\ smooth \in BOOLEAN
    BY DEF EndLoop, ChecksInv
<1>2. smooth => \A p \in hole : Chk = "REDIRECT" /\ p = "Host"
    BY <1>1 DEF ChecksInv, LoopInv
<1>3. quiet \in {"pass", "not_tested"}
    OBVIOUS
<1>4. CASE Chk = "REDIRECT"
    <2>1. PICK x \in RedirectReadings("Host" \in hole) :
            smooth' = (smooth /\ x.plain) /\ Append1(IF x.hit THEN "fail" ELSE quiet)
        BY <1>4 DEF EndLoop
    <2>2. Telling("REDIRECT", "Host" \in hole, x)
        <3> DEFINE h == "Host" \in hole
        <3>1. h \in BOOLEAN
            OBVIOUS
        <3> HIDE DEF h
        <3>2. x \in RedirectReadings(h) => Telling("REDIRECT", h, x)
            BY <3>1, RedirectTells
        <3> QED
            BY <3>2 DEF h
    <2>3. smooth' \in BOOLEAN
        BY <1>1, <2>1
    <2>4. CASE x.hit
        <3>1. Append1("fail")
            BY <2>1, <2>4
        <3>2. hole' # {}
            BY <1>1, <2>2, <2>4 DEF Telling, Exact
        <3> QED
            BY <2>3, <3>1, <3>2, Appended
    <2>5. CASE ~x.hit
        <3>1. Append1(quiet)
            BY <2>1, <2>5
        <3>2. smooth' => hole' = {}
            <4> SUFFICES ASSUME smooth'
                         PROVE  hole = {}
                BY <1>1
            <4>1. smooth /\ x.plain
                BY <1>1, <2>1
            <4>2. "Host" \notin hole
                BY <2>2, <2>5, <4>1 DEF Telling
            <4> QED
                BY <1>2, <4>1, <4>2
        <3> HIDE DEF quiet
        <3> QED
            BY <1>3, <2>3, <3>1, <3>2, Appended
    <2> QED
        BY <2>4, <2>5
<1>5. CASE Chk # "REDIRECT"
    <2>1. smooth' = smooth /\ Append1(quiet)
        BY <1>5 DEF EndLoop
    <2>2. smooth' => hole' = {}
        BY <1>1, <1>2, <1>5, <2>1
    <2> HIDE DEF quiet
    <2> QED
        BY <1>1, <1>3, <2>1, <2>2, Appended
<1> QED
    BY <1>4, <1>5

LEMMA ChecksInvKept == ChecksInv /\ [PcNext]_pcVars => ChecksInv'
<1> SUFFICES ASSUME ChecksInv, [PcNext]_pcVars
             PROVE  ChecksInv'
    OBVIOUS
<1>1. CASE Skip
    BY <1>1, Appended DEF Skip
<1>2. CASE CheckRaises
    BY <1>2, Appended DEF CheckRaises
<1>3. CASE NoParams
    BY <1>3, Appended DEF NoParams
<1>4. CASE CheckUrl
    <2>1. /\ smooth' = FALSE /\ Chk \notin PerParam /\ hole' \in {{}, {"*"}}
        BY <1>4 DEF CheckUrl
    <2>2. PICK v \in Verdicts(Chk, hole' # {}) : Append1(v)
        BY <1>4 DEF CheckUrl
    <2>3. pos \in 1..Len(Rules)
        <3>1. pos \in Nat \ {0} /\ pos <= Len(Rules) /\ Len(Rules) = 15
            BY <1>4 DEF CheckUrl, May, ChecksInv, Rules
        <3> QED
            BY <3>1
    <2>4. v = "confirmed" \/ (v = "fail" /\ Chk \in Exact) => hole' # {}
        <3> DEFINE h == hole' # {}
        <3>1. h \in BOOLEAN
            OBVIOUS
        <3> HIDE DEF h
        <3>2. v \in Verdicts(Chk, h) => (v = "confirmed" \/ (v = "fail" /\ Chk \in Exact) => h)
            BY <2>1, <2>3, <3>1, VerdictsEarned DEF Chk
        <3> QED
            BY <3>2 DEF h
    <2> QED
        BY <2>1, <2>2, <2>4, Appended
<1>5. CASE UNCHANGED pcVars
    <2>1. UNCHANGED <<call, pos, running, hole, params_left, observed_response, found, smooth, of>>
        BY <1>5 DEF pcVars
    <2>2. LoopInv'
        BY <2>1 DEF ChecksInv, LoopInv, Chk, Rules
    <2> QED
        BY <2>1, <2>2, Unfinished DEF ChecksInv
<1> QED
    BY <1>1, <1>2, <1>3, <1>4, <1>5, StartLoopKept, TryParamKept, EndLoopKept DEF PcNext

\* CONFIRMED, and a FAIL on a mark that appears nowhere by chance, needs the
\* weakness, for any parameters and any answers (checks.py, verdict.py:14-20).
THEOREM SignalsAreReal == PcSpec => []SignalIsReal
<1>1. ChecksInv => SignalIsReal
    BY DEF ChecksInv
<1> QED
    BY InitChecksInv, ChecksInvKept, <1>1, PTL DEF PcSpec

\* On a target that answers plainly a weakness behind any one of any number of
\* parameters is reported (the loops of checks.py).
THEOREM HolesAreFound == PcSpec => []HoleIsFound
<1>1. ChecksInv => HoleIsFound
    BY DEF ChecksInv
<1> QED
    BY InitChecksInv, ChecksInvKept, <1>1, PTL DEF PcSpec

-----------------------------------------------------------------------------
(* The escalation of an SQL signal *)

\* The sets of samples of a series are finite and no larger than the series.
LEMMA PartOfSeries ==
    ASSUME NEW s \in Seq(Nat), NEW A, A \subseteq 1..Len(s)
    PROVE  IsFiniteSet(A) /\ Cardinality(A) \in Nat /\ Cardinality(A) <= Len(s)
<1>1. IsFiniteSet(1..Len(s)) /\ Cardinality(1..Len(s)) = Len(s)
    BY FirstNaturals
<1> QED
    BY <1>1, FS_Subset, FS_CardinalityType

\* The samples of a series have an upper bound.
LEMMA SeriesBounded ==
    ASSUME NEW s \in Seq(Nat)
    PROVE  \E b \in Nat : \A i \in 1..Len(s) : s[i] <= b
<1> DEFINE N == Len(s)
           Above(n) == \E b \in Nat : \A i \in 1..n : s[i] <= b
           Bad == {n \in 0..N : ~Above(n)}
<1>1. N \in Nat /\ \A i \in 1..N : s[i] \in Nat
    OBVIOUS
<1>2. ASSUME Bad # {}
      PROVE  FALSE
    <2>1. Bad \in SUBSET Nat
        BY <1>1
    <2>2. PICK n \in Bad : \A m \in Bad : n <= m
        <3> HIDE DEF Bad
        <3> QED
            BY <1>2, <2>1, LeastNat
    <2>3. n \in Nat /\ n <= N /\ ~Above(n)
        BY <1>1
    <2> HIDE DEF N
    <2>4. n # 0
        <3>1. \A i \in 1..0 : s[i] <= 0
            OBVIOUS
        <3>2. Above(0)
            BY <3>1
        <3> HIDE DEF Above
        <3> QED
            BY <2>3, <3>2
    <2>5. n - 1 \in 0..N /\ ~(n <= n - 1) /\ n \in 1..N
        BY <1>1, <2>3, <2>4
    <2>6. n - 1 \notin Bad
        <3> HIDE DEF Bad
        <3> QED
            BY <2>2, <2>5
    <2>7. Above(n - 1)
        <3> HIDE DEF Above
        <3> QED
            BY <2>5, <2>6
    <2>8. PICK b \in Nat : \A i \in 1..(n - 1) : s[i] <= b
        BY <2>7
    <2>9. s[n] \in Nat
        BY <1>1, <2>5
    <2> HIDE DEF Above
    <2>10. PICK c \in Nat : b <= c /\ s[n] <= c
        <3>1. b <= s[n] \/ s[n] <= b
            BY <2>9
        <3> QED
            BY <2>9, <3>1
    <2>11. ASSUME NEW i \in 1..n
           PROVE  s[i] <= c
        <3>1. i \in 1..N /\ s[i] \in Nat
            BY <1>1, <2>3
        <3>2. CASE i = n
            BY <2>10, <3>2
        <3>3. CASE i \in 1..(n - 1)
            <4>1. s[i] <= b
                BY <2>8, <3>3
            <4> QED
                BY <2>10, <3>1, <4>1
        <3> QED
            BY <2>3, <3>2, <3>3
    <2>12. Above(n)
        BY <2>10, <2>11 DEF Above
    <2> QED
        BY <2>3, <2>12
<1>3. N \in 0..N
    <2> HIDE DEF N
    <2> QED
        BY <1>1
<1>4. N \notin Bad
    BY <1>2
<1> QED
    BY <1>3, <1>4

LEMMA OddHalves ==
    ASSUME NEW n \in Nat, n % 2 = 1, NEW c \in Nat, ~(2 * c > n)
    PROVE  2 * c < n
OBVIOUS

\* What the median of an odd number of samples is: one of them, with fewer than
\* half of the samples below it and more than half not above it.
LEMMA MedianIs ==
    ASSUME NEW s \in Seq(Nat), Len(s) % 2 = 1
    PROVE  /\ \E i \in 1..Len(s) : Median(s) = s[i]
           /\ 2 * Cardinality(Below(s, Median(s))) < Len(s)
           /\ 2 * Cardinality(UpTo(s, Median(s))) > Len(s)
<1> DEFINE R == {s[i] : i \in DOMAIN s}
           Mid(x) == /\ 2 * Cardinality(Below(s, x)) < Len(s)
                     /\ 2 * Cardinality(UpTo(s, x)) > Len(s)
           T == {x \in Nat : 2 * Cardinality(UpTo(s, x)) > Len(s)}
<1>1. /\ Len(s) \in Nat /\ Len(s) > 0 /\ DOMAIN s = 1..Len(s)
      /\ \A i \in 1..Len(s) : s[i] \in Nat
    OBVIOUS
<1>2. \A x \in Nat : /\ Cardinality(Below(s, x)) \in Nat
                     /\ Cardinality(UpTo(s, x)) \in Nat
    BY <1>1, PartOfSeries DEF Below, UpTo
<1>3. T # {}
    <2>2. PICK b \in Nat : \A i \in 1..Len(s) : s[i] <= b
        BY SeriesBounded
    <2>3. UpTo(s, b) = 1..Len(s)
        BY <1>1, <2>2 DEF UpTo
    <2>4. Cardinality(UpTo(s, b)) = Len(s)
        BY <1>1, <2>3, FirstNaturals
    <2> QED
        BY <1>1, <2>4
<1>4. PICK x \in T : \A y \in T : x <= y
    <2>1. T \in SUBSET Nat
        OBVIOUS
    <2> HIDE DEF T
    <2> QED
        BY <1>3, <2>1, LeastNat
<1>5. x \in Nat /\ 2 * Cardinality(UpTo(s, x)) > Len(s)
    OBVIOUS
<1>6. 2 * Cardinality(Below(s, x)) < Len(s)
    <2>1. CASE x = 0
        <3>1. Below(s, x) = {}
            BY <1>1, <2>1 DEF Below
        <3>2. Cardinality(Below(s, x)) = 0
            BY <3>1, FS_EmptySet
        <3> QED
            BY <1>1, <3>2
    <2>2. CASE x > 0
        <3>1. Below(s, x) = UpTo(s, x - 1)
            BY <1>1, <1>5, <2>2 DEF Below, UpTo
        <3>2. x - 1 \in Nat /\ ~(x <= x - 1)
            BY <1>5, <2>2
        <3>3. x - 1 \notin T
            <4> HIDE DEF T
            <4> QED
                BY <1>4, <3>2
        <3>4. ~(2 * Cardinality(UpTo(s, x - 1)) > Len(s))
            BY <3>2, <3>3
        <3> DEFINE c == Cardinality(UpTo(s, x - 1))
        <3>5. c \in Nat /\ ~(2 * c > Len(s))
            BY <1>2, <3>2, <3>4
        <3>6. 2 * c < Len(s)
            <4> HIDE DEF c
            <4> QED
                BY <1>1, <3>5, OddHalves
        <3> QED
            BY <3>1, <3>6 DEF c
    <2> QED
        BY <1>5, <2>1, <2>2
<1>7. x \in R
    <2>1. SUFFICES ASSUME \A i \in 1..Len(s) : s[i] # x
                   PROVE  FALSE
        BY <1>1
    <2>2. UpTo(s, x) = Below(s, x)
        BY <1>1, <1>5, <2>1 DEF UpTo, Below
    <2> DEFINE c == Cardinality(Below(s, x))
    <2>3. c \in Nat
        BY <1>2, <1>5
    <2>4. 2 * c < Len(s) /\ 2 * c > Len(s)
        BY <1>5, <1>6, <2>2
    <2>5. Len(s) \in Nat
        BY <1>1
    <2>6. \A a, b \in Nat : ~(2 * a < b /\ 2 * a > b)
        OBVIOUS
    <2> HIDE DEF c
    <2> QED
        BY ONLY <2>3, <2>4, <2>5, <2>6
<1>8. Median(s) = CHOOSE y \in R : Mid(y)
    BY DEF Median
<1>9. Median(s) \in R /\ Mid(Median(s))
    <2>1. \E y \in R : Mid(y)
        BY <1>5, <1>6, <1>7
    <2> HIDE DEF R, Mid
    <2> QED
        BY <1>8, <2>1
<1> QED
    BY <1>1, <1>9
-----------------------------------------------------------------------------
EscTypes ==
    /\ server \in TypeOfServer /\ dialect \in Nat \ {0}
    /\ baseline \in Seq(Nat) /\ injected \in Seq(Nat)
    /\ stalls \in Nat /\ stalls <= MaxStalls
    /\ lo \in Int /\ hi \in Int /\ lo <= hi
    /\ step \in {"time", "base", "bisect", "done"}
    /\ confirmed \in Nat /\ byte \in Nat /\ dropped \in BOOLEAN

\* The server sleeps when it is given the payload being tried.
Sleeps == server.dialect = dialect /\ server.times > 0

\* The requests of the second series that took something else than a usual time.
Slow == {i \in DOMAIN injected : \A l \in Latencies : injected[i] # Took(l)}

\* What the two series hold so far.  A request may take longer than usual, never
\* less; of a server that does not sleep only stalls are slow.
SeriesInv ==
    /\ Len(injected) <= Samples /\ (injected # <<>> => Len(baseline) = Samples)
    /\ \A i \in 1..Len(baseline) : \E l \in Latencies : Took(l) <= baseline[i]
    /\ ~Sleeps => Cardinality(Slow) <= stalls

\* The character stays between the bounds of the bisection.
ExtractInv ==
    /\ step = "time" => confirmed = 0 /\ byte = 0 /\ lo = Lo /\ hi = Hi
    /\ step \in {"base", "bisect"} =>
         /\ confirmed # 0 /\ byte = 0
         /\ server.code \in Lo..Hi => lo <= server.code /\ server.code <= hi

EscInv == EscTypes /\ SeriesInv /\ ExtractInv /\ EscalationIsReal

LEMMA Constants ==
    /\ Dialects \in Nat /\ Delay \in Nat /\ Samples \in Nat /\ Timeout \in Nat /\ Lo \in Nat /\ Hi \in Nat
    /\ Stall \in Nat /\ MaxStalls \in Nat /\ Samples > 0 /\ Lo <= Hi
    /\ Latencies \subseteq Nat /\ Extractable \subseteq 1..Dialects
BY EscalationAssumption

LEMMA InitEscInv == EscInit => EscInv
<1> SUFFICES ASSUME EscInit
             PROVE  EscInv
    OBVIOUS
<1>1. /\ server \in TypeOfServer /\ dialect = 1 /\ baseline = <<>> /\ injected = <<>> /\ stalls = 0
      /\ lo = Lo /\ hi = Hi /\ step = "time" /\ confirmed = 0 /\ byte = 0
    BY ServerAssumption DEF EscInit
<1>2. dropped = FALSE
    BY DEF EscInit
<1>3. EscTypes
    <2>1. dropped \in BOOLEAN
        BY <1>2, Zenon
    <2> QED
        BY <1>1, <2>1, Constants DEF EscTypes
<1>4. SeriesInv
    <2>1. Slow = {}
        BY <1>1 DEF Slow
    <2>2. Cardinality(Slow) = 0
        BY <2>1, FS_EmptySet
    <2> QED
        BY <1>1, <2>2, Constants DEF SeriesInv
<1>5. ExtractInv
    BY <1>1 DEF ExtractInv
<1>6. EscalationIsReal
    BY <1>1 DEF EscalationIsReal
<1> QED
    BY <1>3, <1>4, <1>5, <1>6 DEF EscInv

-----------------------------------------------------------------------------
(* Timing *)

LEMMA TookIs ==
    ASSUME NEW t \in Nat
    PROVE  Took(t) \in Nat /\ Took(t) <= t /\ Took(t) <= Timeout
BY Constants DEF Took

\* Waiting for the timeout brings response times closer together, never apart.
LEMMA TookCloser ==
    ASSUME NEW a \in Nat, NEW b \in Nat
    PROVE  Took(a) - Took(b) <= a - b \/ Took(a) - Took(b) <= 0
BY Constants DEF Took

\* How long one request takes.
Duration(d, lat, late) ==
    Took(lat + late + (IF server.dialect = dialect THEN server.times * d ELSE 0))

LEMMA ElapsedIs ==
    ASSUME EscInv, NEW d \in {0, Delay}, Elapsed(d)
    PROVE  /\ Delay > 0
           /\ \E lat \in Latencies, late \in {0, Stall} :
                /\ Duration(d, lat, late) \in Nat /\ Took(lat) <= Duration(d, lat, late)
                /\ late = 0 /\ ~Sleeps => Duration(d, lat, late) = Took(lat)
                /\ stalls' \in Nat /\ stalls' <= MaxStalls
                /\ stalls' = IF late = 0 THEN stalls ELSE stalls + 1
                /\ d = 0 => baseline' = Append(baseline, Duration(d, lat, late)) /\ UNCHANGED injected
                /\ d # 0 => injected' = Append(injected, Duration(d, lat, late)) /\ UNCHANGED baseline
<1> DEFINE slept == IF server.dialect = dialect THEN server.times * d ELSE 0
<1>1. PICK lat \in Latencies, late \in {0} \cup (IF stalls < MaxStalls THEN {Stall} ELSE {}) :
        /\ stalls' = IF late = 0 THEN stalls ELSE stalls + 1
        /\ IF d = 0 THEN baseline' = Append(baseline, Duration(d, lat, late)) /\ UNCHANGED injected
                    ELSE injected' = Append(injected, Duration(d, lat, late)) /\ UNCHANGED baseline
    BY DEF Elapsed, Duration
<1>2. lat \in Nat /\ late \in {0, Stall} /\ late \in Nat /\ d \in Nat /\ Delay \in Nat
    BY Constants
<1>3. Delay > 0
    <2>1. 2 * (lat - lat) < 3 * Delay
        BY SeriesAssumption
    <2> QED
        BY <1>2, <2>1
<1>4. slept \in Nat /\ (~Sleeps => slept = 0)
    <2>1. server.times \in Nat
        BY DEF EscInv, EscTypes, TypeOfServer
    <2>2. CASE server.dialect = dialect
        <3>1. server.times * d \in Nat
            BY <1>2, <2>1
        <3>2. ASSUME server.times = 0
              PROVE  server.times * d = 0
            BY <1>2, <3>2
        <3>3. Sleeps \/ server.times = 0
            BY <2>1, <2>2 DEF Sleeps
        <3> QED
            BY <2>2, <3>1, <3>2, <3>3
    <2>3. CASE server.dialect # dialect
        BY <2>3
    <2> QED
        BY <2>2, <2>3
<1>5. Duration(d, lat, late) = Took(lat + late + slept)
    BY DEF Duration
<1> HIDE DEF slept
<1>6. Took(lat + late + slept) \in Nat /\ Took(lat) <= Took(lat + late + slept)
    BY <1>2, <1>4, Constants DEF Took
<1>7. ASSUME late = 0, ~Sleeps
      PROVE  Duration(d, lat, late) = Took(lat)
    <2>1. lat + late + slept = lat
        BY <1>2, <1>4, <1>7
    <2> QED
        BY <1>5, <2>1
<1>8. stalls' \in Nat /\ stalls' <= MaxStalls
    <2>1. stalls \in Nat /\ stalls <= MaxStalls /\ MaxStalls \in Nat
        BY Constants DEF EscInv, EscTypes
    <2>2. late # 0 => stalls < MaxStalls
        BY <1>1
    <2> QED
        BY <1>1, <2>1, <2>2
<1> QED
    BY <1>1, <1>2, <1>3, <1>5, <1>6, <1>7, <1>8

\* A sample leaves the extraction alone.
LEMMA OthersKept ==
    ASSUME EscInv, UNCHANGED <<server, dialect, lo, hi, step, confirmed, byte, dropped>>,
           baseline' \in Seq(Nat), injected' \in Seq(Nat), stalls' \in Nat, stalls' <= MaxStalls,
           SeriesInv'
    PROVE  EscInv'
<1>1. EscTypes'
    BY DEF EscInv, EscTypes
<1>2. ExtractInv'
    BY DEF EscInv, ExtractInv
<1>3. EscalationIsReal'
    BY DEF EscInv, EscalationIsReal
<1> QED
    BY <1>1, <1>2, <1>3 DEF EscInv

LEMMA BaselineKept ==
    ASSUME EscInv, SampleBaseline,
           UNCHANGED <<server, dialect, lo, hi, step, confirmed, byte, dropped>>
    PROVE  EscInv'
<1>1. Len(baseline) < Samples /\ Elapsed(0)
    BY DEF SampleBaseline
<1>2. PICK lat \in Latencies, late \in {0, Stall} :
        /\ Duration(0, lat, late) \in Nat /\ Took(lat) <= Duration(0, lat, late)
        /\ stalls' \in Nat /\ stalls' <= MaxStalls
        /\ stalls' = IF late = 0 THEN stalls ELSE stalls + 1
        /\ baseline' = Append(baseline, Duration(0, lat, late)) /\ injected' = injected
    BY <1>1, ElapsedIs
<1>3. /\ baseline \in Seq(Nat) /\ injected \in Seq(Nat) /\ stalls \in Nat
      /\ Len(injected) <= Samples /\ Samples \in Nat
      /\ injected # <<>> => Len(baseline) = Samples
    BY Constants DEF EscInv, EscTypes, SeriesInv
<1> DEFINE t == Duration(0, lat, late)
<1>4. baseline' \in Seq(Nat) /\ Len(baseline') = Len(baseline) + 1
    BY <1>2, <1>3
<1>5. injected = <<>>
    <2>1. Len(baseline) # Samples
        BY <1>1, <1>3
    <2> QED
        BY <1>3, <2>1
<1>6. ASSUME NEW i \in 1..Len(baseline')
      PROVE  \E l \in Latencies : Took(l) <= baseline'[i]
    <2> HIDE DEF t
    <2>1. CASE i = Len(baseline) + 1
        <3>1. baseline'[i] = Duration(0, lat, late)
            BY <1>2, <1>3, <2>1
        <3> QED
            BY <1>2, <3>1
    <2>2. CASE i \in 1..Len(baseline)
        <3>1. baseline'[i] = baseline[i]
            BY <1>2, <1>3, <2>2
        <3> QED
            BY <2>2, <3>1 DEF EscInv, SeriesInv
    <2> QED
        BY <1>3, <1>4, <2>1, <2>2
<1>7. ~Sleeps' => Cardinality(Slow') <= stalls'
    <2>1. Sleeps' = Sleeps /\ Slow' = Slow
        BY <1>2 DEF Sleeps, Slow
    <2>2. Slow = {}
        BY <1>5 DEF Slow
    <2>3. Cardinality(Slow) = 0
        BY <2>2, FS_EmptySet
    <2> QED
        BY <1>2, <2>1, <2>3
<1>8. SeriesInv'
    BY <1>2, <1>3, <1>5, <1>6, <1>7 DEF SeriesInv
<1> QED
    BY <1>2, <1>3, <1>4, <1>8, OthersKept

LEMMA InjectedKept ==
    ASSUME EscInv, SampleInjected,
           UNCHANGED <<server, dialect, lo, hi, step, confirmed, byte, dropped>>
    PROVE  EscInv'
<1>1. Len(baseline) = Samples /\ Len(injected) < Samples /\ Elapsed(Delay)
    BY DEF SampleInjected
<1>2. Delay # 0
    BY <1>1, ElapsedIs, Constants
<1>3. PICK lat \in Latencies, late \in {0, Stall} :
        /\ Duration(Delay, lat, late) \in Nat
        /\ late = 0 /\ ~Sleeps => Duration(Delay, lat, late) = Took(lat)
        /\ stalls' \in Nat /\ stalls' <= MaxStalls
        /\ stalls' = IF late = 0 THEN stalls ELSE stalls + 1
        /\ injected' = Append(injected, Duration(Delay, lat, late)) /\ baseline' = baseline
    BY <1>1, <1>2, ElapsedIs
<1>4. /\ baseline \in Seq(Nat) /\ injected \in Seq(Nat) /\ stalls \in Nat
      /\ Len(injected) <= Samples /\ Samples \in Nat
    BY Constants DEF EscInv, EscTypes, SeriesInv
<1> DEFINE t == Duration(Delay, lat, late)
           n == Len(injected) + 1
<1>5. t \in Nat
    BY <1>3
<1> HIDE DEF t
<1>6. /\ injected' \in Seq(Nat) /\ Len(injected') = n /\ n \in Nat /\ n <= Samples
      /\ \A i \in 1..Len(injected) : injected'[i] = injected[i]
      /\ injected'[n] = t
    BY <1>1, <1>3, <1>4, <1>5 DEF t
<1>7. ASSUME ~Sleeps
      PROVE  Cardinality(Slow') <= stalls'
    <2>1. IsFiniteSet(Slow) /\ Cardinality(Slow) \in Nat /\ Cardinality(Slow) <= stalls
        <3>1. Slow \subseteq 1..Len(injected)
            BY <1>4 DEF Slow
        <3>2. Cardinality(Slow) <= stalls
            BY <1>7 DEF EscInv, SeriesInv
        <3> QED
            BY <1>4, <3>1, <3>2, PartOfSeries
    <2>2. DOMAIN injected' = 1..n /\ DOMAIN injected = 1..Len(injected) /\ 1..n = 1..Len(injected) \cup {n}
        BY <1>4, <1>6
    <2>3. Slow' \subseteq Slow \cup {n}
        BY <1>6, <2>2 DEF Slow
    <2>4. CASE late = 0
        <3>1. t = Took(lat)
            BY <1>3, <1>7, <2>4 DEF t
        <3>2. n \notin Slow'
            BY <1>6, <3>1 DEF Slow
        <3>3. Slow' \subseteq Slow
            BY <2>3, <3>2
        <3>4. Cardinality(Slow') <= Cardinality(Slow) /\ Cardinality(Slow') \in Nat
            BY <2>1, <3>3, FS_Subset, FS_CardinalityType
        <3> QED
            BY <1>3, <1>4, <2>1, <2>4, <3>4
    <2>5. CASE late # 0
        <3>1. /\ IsFiniteSet(Slow \cup {n}) /\ Cardinality(Slow \cup {n}) \in Nat
              /\ Cardinality(Slow \cup {n}) <= Cardinality(Slow) + 1
            <4>1. CASE n \in Slow
                <5>1. Slow \cup {n} = Slow
                    BY <4>1
                <5>2. Cardinality(Slow) <= Cardinality(Slow) + 1
                    BY <2>1
                <5> QED
                    BY <2>1, <5>1, <5>2, Zenon
            <4>2. CASE n \notin Slow
                <5>1. IsFiniteSet(Slow \cup {n}) /\ Cardinality(Slow \cup {n}) = Cardinality(Slow) + 1
                    BY <2>1, <4>2, FS_AddElement
                <5> QED
                    BY <2>1, <5>1
            <4> QED
                BY <4>1, <4>2
        <3>2. Cardinality(Slow') <= Cardinality(Slow \cup {n}) /\ Cardinality(Slow') \in Nat
            BY <2>3, <3>1, FS_Subset, FS_CardinalityType
        <3> QED
            BY <1>3, <1>4, <2>1, <2>5, <3>1, <3>2
    <2> QED
        BY <2>4, <2>5
<1>8. SeriesInv'
    <2>1. Sleeps' = Sleeps
        BY DEF Sleeps
    <2>2. \A i \in 1..Len(baseline') : \E l \in Latencies : Took(l) <= baseline'[i]
        BY <1>3 DEF EscInv, SeriesInv
    <2>3. Len(injected') <= Samples /\ Len(baseline') = Samples
        BY <1>1, <1>3, <1>6
    <2> QED
        BY <1>7, <2>1, <2>2, <2>3 DEF SeriesInv
<1> QED
    BY <1>3, <1>4, <1>6, <1>8, OthersKept

\* A dialect is confirmed only for a server that sleeps: of the second series
\* fewer than half of the samples stalled and fewer than half lie below the
\* median, so some sample of a server that does not sleep is both a usual
\* response time and not below it, and it exceeds the first median by less
\* than what is asked for.
LEMMA ConfirmedSleeps ==
    ASSUME EscInv, Len(injected) = Samples, TimingConfirmed
    PROVE  Sleeps
<1> SUFFICES ASSUME ~Sleeps
             PROVE  FALSE
    OBVIOUS
<1> DEFINE x == Median(injected)
           y == Median(baseline)
<1>1. /\ baseline \in Seq(Nat) /\ injected \in Seq(Nat) /\ stalls \in Nat /\ stalls <= MaxStalls
      /\ Samples \in Nat /\ Samples > 0 /\ MaxStalls \in Nat /\ Delay \in Nat
      /\ Samples % 2 = 1 /\ 2 * MaxStalls < Samples
    BY Constants, SeriesAssumption DEF EscInv, EscTypes
<1>2. Len(baseline) = Samples
    <2>1. injected # <<>>
        BY <1>1
    <2> QED
        BY <2>1 DEF EscInv, SeriesInv
<1>3. /\ \E i \in 1..Samples : x = injected[i]
      /\ 2 * Cardinality(Below(injected, x)) < Samples
    BY <1>1, MedianIs
<1>4. \E i \in 1..Samples : y = baseline[i]
    BY <1>1, <1>2, MedianIs
<1>5. x \in Nat /\ y \in Nat
    BY <1>1, <1>2, <1>3, <1>4
<1>6. Delay > 0 /\ 2 * (x - y) >= 3 * Delay
    BY DEF TimingConfirmed
<1> HIDE DEF x, y
<1>7. PICK l \in Latencies : Took(l) <= y
    BY <1>2, <1>4 DEF EscInv, SeriesInv
<1>8. PICK i \in 1..Samples : i \notin Slow \cup Below(injected, x)
    <2> DEFINE A == Slow
               B == Below(injected, x)
    <2>1. A \subseteq 1..Len(injected) /\ B \subseteq 1..Len(injected)
        BY <1>1 DEF Slow, Below
    <2>2. /\ IsFiniteSet(A) /\ Cardinality(A) \in Nat
          /\ IsFiniteSet(B) /\ Cardinality(B) \in Nat
        BY <1>1, <2>1, PartOfSeries
    <2>3. Cardinality(A) <= stalls
        BY DEF EscInv, SeriesInv
    <2>4. 2 * Cardinality(B) < Samples
        BY <1>3
    <2> HIDE DEF A, B
    <2>5. Cardinality(A) + Cardinality(B) < Samples
        BY <1>1, <2>2, <2>3, <2>4
    <2>6. Cardinality(A \cup B) <= Cardinality(A) + Cardinality(B)
        <3>1. /\ IsFiniteSet(A \cap B) /\ Cardinality(A \cap B) \in Nat
              /\ Cardinality(A \cup B) = Cardinality(A) + Cardinality(B) - Cardinality(A \cap B)
            BY <2>2, FS_Union, FS_Intersection, FS_CardinalityType
        <3> QED
            BY <2>2, <3>1
    <2>7. Cardinality(A \cup B) \in Nat
        BY <2>2, FS_Union, FS_CardinalityType
    <2>8. Cardinality(1..Samples) = Samples
        BY <1>1, FirstNaturals
    <2>9. ~(1..Samples \subseteq A \cup B)
        <3> SUFFICES ASSUME 1..Samples \subseteq A \cup B
                     PROVE  FALSE
            OBVIOUS
        <3>1. IsFiniteSet(A \cup B)
            BY <2>2, FS_Union
        <3>2. Cardinality(1..Samples) <= Cardinality(A \cup B)
            BY <3>1, FS_Subset
        <3> QED
            BY <1>1, <2>2, <2>5, <2>6, <2>7, <2>8, <3>2
    <2> QED
        BY <2>9 DEF A, B
<1>9. DOMAIN injected = 1..Samples /\ injected[i] \in Nat
    BY <1>1
<1>10. PICK m \in Latencies : injected[i] = Took(m)
    BY <1>8, <1>9 DEF Slow
<1>11. ~(injected[i] < x)
    BY <1>8, <1>9 DEF Below
<1>12. /\ l \in Nat /\ m \in Nat /\ Took(l) \in Nat /\ Took(m) \in Nat
       /\ 2 * (m - l) < 3 * Delay
       /\ Took(m) - Took(l) <= m - l \/ Took(m) - Took(l) <= 0
    <2>1. l \in Nat /\ m \in Nat
        BY Constants
    <2> QED
        BY <2>1, SeriesAssumption, TookIs, TookCloser
<1>13. x - y <= Took(m) - Took(l)
    BY <1>5, <1>7, <1>9, <1>10, <1>11, <1>12
<1> QED
    BY <1>1, <1>5, <1>6, <1>12, <1>13

LEMMA JudgeKept ==
    ASSUME EscInv, Judge, UNCHANGED <<server, stalls, lo, hi, byte, dropped>>
    PROVE  EscInv'
<1>1. /\ step = "time" /\ Len(injected) = Samples /\ baseline' = <<>> /\ injected' = <<>>
      /\ dialect \in Nat \ {0} /\ server \in TypeOfServer /\ lo = Lo /\ hi = Hi
      /\ confirmed = 0 /\ byte = 0 /\ stalls \in Nat
    BY DEF Judge, EscInv, EscTypes, ExtractInv
<1>2. SeriesInv'
    <2>1. Slow' = {}
        BY <1>1 DEF Slow
    <2>2. Cardinality(Slow') = 0
        BY <2>1, FS_EmptySet
    <2>3. Cardinality(Slow') <= stalls'
        BY <1>1, <2>2
    <2> QED
        BY <1>1, <2>3, Constants DEF SeriesInv
<1>3. CASE TimingConfirmed
    <2>1. /\ server.dialect = dialect /\ server.times > 0
          /\ confirmed' = dialect /\ dialect' = dialect
          /\ step' = IF dialect \in Extractable THEN "base" ELSE "done"
        BY <1>1, <1>3, ConfirmedSleeps DEF Judge, Sleeps
    <2>2. EscTypes'
        BY <1>1, <2>1 DEF EscInv, EscTypes
    <2>3. ExtractInv'
        BY <1>1, <2>1 DEF ExtractInv
    <2>4. EscalationIsReal'
        BY <1>1, <2>1 DEF EscalationIsReal
    <2> QED
        BY <1>2, <2>2, <2>3, <2>4 DEF EscInv
<1>4. CASE ~TimingConfirmed
    <2>1. /\ dialect' = dialect + 1 /\ confirmed' = 0
          /\ step' = IF dialect = Dialects THEN "done" ELSE "time"
        BY <1>1, <1>4 DEF Judge
    <2>2. EscTypes'
        BY <1>1, <2>1 DEF EscInv, EscTypes
    <2>3. ExtractInv'
        BY <1>1, <2>1 DEF ExtractInv
    <2>4. EscalationIsReal'
        <3>1. 0 \notin Extractable
            BY Constants
        <3> QED
            BY <1>1, <2>1, <3>1 DEF EscalationIsReal
    <2> QED
        BY <1>2, <2>2, <2>3, <2>4 DEF EscInv
<1> QED
    BY <1>3, <1>4

-----------------------------------------------------------------------------
(* Extraction *)

\* A bisection's step: the series stay as they are.
LEMMA ExtractionKept ==
    ASSUME EscInv, UNCHANGED <<server, dialect, baseline, injected, stalls, confirmed>>,
           step' \in {"base", "bisect", "done"}, lo' \in Int, hi' \in Int, lo' <= hi', byte' \in Nat,
           dropped' \in BOOLEAN, ExtractInv', EscalationIsReal'
    PROVE  EscInv'
<1>1. EscTypes'
    BY DEF EscInv, EscTypes
<1>2. SeriesInv'
    <2>1. Sleeps' = Sleeps /\ Slow' = Slow
        BY DEF Sleeps, Slow
    <2> QED
        BY <2>1 DEF EscInv, SeriesInv
<1> QED
    BY <1>1, <1>2 DEF EscInv

LEMMA RaisesKept ==
    ASSUME EscInv, step \in {"base", "bisect"}, Raises,
           UNCHANGED <<server, dialect, baseline, injected, stalls, confirmed>>
    PROVE  EscInv'
<1>1. /\ step' = "done" /\ lo' = lo /\ hi' = hi /\ byte' = byte
      /\ lo \in Int /\ hi \in Int /\ lo <= hi /\ byte = 0 /\ confirmed # 0
    BY DEF Raises, EscInv, EscTypes, ExtractInv
<1>2. dropped'
    BY DEF Raises
<1>3. dropped' \in BOOLEAN
    BY Zenon DEF Raises
<1>4. ExtractInv'
    BY <1>1 DEF ExtractInv
<1>5. EscalationIsReal'
    BY <1>1, <1>2 DEF EscInv, EscalationIsReal
<1> QED
    BY <1>1, <1>3, <1>4, <1>5, ExtractionKept

LEMMA ExtractKept ==
    ASSUME EscInv, FetchFalsePage \/ Bisect \/ ConfirmByte,
           UNCHANGED <<server, dialect, baseline, injected, stalls, confirmed>>
    PROVE  EscInv'
<1>1. /\ step \in {"base", "bisect"}
      /\ lo \in Int /\ hi \in Int /\ lo <= hi /\ byte = 0 /\ byte \in Nat /\ dropped \in BOOLEAN
      /\ confirmed # 0 /\ server.dialect = confirmed /\ server.times > 0
      /\ server.code \in Nat
      /\ server.code \in Lo..Hi => lo <= server.code /\ server.code <= hi
    <2>1. step \in {"base", "bisect"}
        BY DEF FetchFalsePage, Bisect, ConfirmByte
    <2> QED
        BY <2>1 DEF EscInv, EscTypes, ExtractInv, EscalationIsReal, TypeOfServer
<1>2. CASE Raises
    BY <1>1, <1>2, RaisesKept
<1>3. CASE FetchFalsePage /\ ~Raises
    <2>1. step' = "bisect" /\ UNCHANGED <<lo, hi, byte, dropped>>
        BY <1>3 DEF FetchFalsePage
    <2>2. ExtractInv' /\ EscalationIsReal'
        BY <1>1, <2>1 DEF ExtractInv, EscalationIsReal
    <2> QED
        BY <1>1, <2>1, <2>2, ExtractionKept
<1>4. CASE Bisect /\ ~Raises
    <2> DEFINE mid == (lo + hi) \div 2
    <2>1. /\ step = "bisect" /\ lo < hi /\ UNCHANGED <<step, byte, dropped>>
          /\ IF Holds(server.code > mid) THEN lo' = mid + 1 /\ UNCHANGED hi
                                         ELSE hi' = mid /\ UNCHANGED lo
        BY <1>4 DEF Bisect
    <2>2. mid \in Int /\ lo <= mid /\ mid < hi
        BY <1>1, <2>1
    <2> HIDE DEF mid
    <2>3. Holds(server.code > mid) <=> server.code > mid
        BY <1>1 DEF Holds
    <2>4. /\ lo' \in Int /\ hi' \in Int /\ lo' <= hi'
          /\ server.code \in Lo..Hi => lo' <= server.code /\ server.code <= hi'
        BY <1>1, <2>1, <2>2, <2>3
    <2>5. ExtractInv' /\ EscalationIsReal'
        BY <1>1, <2>1, <2>4 DEF ExtractInv, EscalationIsReal
    <2> QED
        BY <1>1, <2>1, <2>4, <2>5, ExtractionKept
<1>5. CASE ConfirmByte /\ ~Raises
    <2>1. /\ lo = hi /\ step' = "done" /\ UNCHANGED <<lo, hi, dropped>>
          /\ byte' = IF Holds(server.code = lo) THEN lo ELSE 0
        BY <1>5 DEF ConfirmByte
    <2>2. Holds(server.code = lo) <=> server.code = lo
        BY <1>1 DEF Holds
    <2>3. byte' = IF server.code = lo THEN lo ELSE 0
        BY <2>1, <2>2
    <2>4. byte' \in Nat
        BY <1>1, <2>3
    <2>5. byte' # 0 => byte' = server.code
        BY <2>3
    <2>6. server.code \in Lo..Hi => byte' = server.code
        BY <1>1, <2>1, <2>3
    <2>7. ExtractInv' /\ EscalationIsReal'
        BY <1>1, <2>1, <2>5, <2>6 DEF ExtractInv, EscalationIsReal
    <2> QED
        BY <1>1, <2>1, <2>4, <2>7, ExtractionKept
<1> QED
    BY <1>2, <1>3, <1>4, <1>5

\* For any dialects, number of samples and range of characters: a dialect is
\* confirmed only for a server that sleeps, and an extracted character is the
\* server's, found whenever it is in range and every request was answered
\* (oracles.py:81-144, checks.py:862-952).
THEOREM EscalationProves == EscSpec => []EscalationIsReal
<1>1. EscInv /\ [EscNext]_escVars => EscInv'
    <2> SUFFICES ASSUME EscInv, [EscNext]_escVars
                 PROVE  EscInv'
        OBVIOUS
    <2>1. CASE UNCHANGED escVars
        <3>1. UNCHANGED <<server, dialect, baseline, injected, stalls, lo, hi, step, confirmed, byte, dropped>>
            BY <2>1 DEF escVars
        <3>2. SeriesInv'
            <4>1. Sleeps' = Sleeps /\ Slow' = Slow
                BY <3>1 DEF Sleeps, Slow
            <4> QED
                BY <3>1, <4>1 DEF EscInv, SeriesInv
        <3> QED
            BY <3>1, <3>2, OthersKept DEF EscInv, EscTypes
    <2> QED
        BY <2>1, BaselineKept, InjectedKept, JudgeKept, ExtractKept DEF EscNext
<1>2. EscInv => EscalationIsReal
    BY DEF EscInv
<1> QED
    BY InitEscInv, <1>1, <1>2, PTL DEF EscSpec

-----------------------------------------------------------------------------
(* The crawls *)

\* near is what Within defines.
IsNear(near, from, next, through, limit) ==
    near = [r \in 0..limit |->
             IF r = 0 THEN from \ Outside
             ELSE Onward(near[r - 1], next, through)]

LEMMA WithinIs ==
    ASSUME NEW from, NEW next, NEW through, NEW limit \in Nat
    PROVE  IsNear(Within(from, next, through, limit), from, next, through, limit)
<1> DEFINE Up(f, n) == f = [r \in 0..n |-> IF r = 0 THEN from \ Outside ELSE Onward(f[r - 1], next, through)]
           T == {n \in 0..limit : \E f : Up(f, n)}
<1>1. 0 \in T
    <2> DEFINE f == [r \in 0..0 |-> from \ Outside]
    <2>1. Up(f, 0)
        OBVIOUS
    <2>2. \E ff : Up(ff, 0)
        BY <2>1
    <2> HIDE DEF Up
    <2> QED
        BY <2>2
<1>2. ASSUME NEW n \in 1..limit, n - 1 \in T PROVE n \in T
    <2>1. PICK f : Up(f, n - 1)
        BY <1>2
    <2> DEFINE g == [r \in 0..n |-> IF r = 0 THEN from \ Outside ELSE Onward(f[r - 1], next, through)]
    <2>2. ASSUME NEW r \in 1..n PROVE f[r - 1] = g[r - 1]
        <3>1. r - 1 \in 0..(n - 1) /\ r - 1 \in 0..n
            OBVIOUS
        <3> QED
            BY <2>1, <3>1
    <2>3. \A r \in 0..n : g[r] = IF r = 0 THEN from \ Outside ELSE Onward(f[r - 1], next, through)
        OBVIOUS
    <2> HIDE DEF g
    <2>4. \A r \in 0..n : g[r] = IF r = 0 THEN from \ Outside ELSE Onward(g[r - 1], next, through)
        BY <2>2, <2>3
    <2>5. g = [r \in 0..n |-> g[r]]
        BY DEF g
    <2>6. Up(g, n)
        BY <2>4, <2>5
    <2> HIDE DEF Up
    <2> QED
        BY <2>6
<1>3. limit \in T
    <2> HIDE DEF T
    <2>1. \A r \in 0..limit : r \in T
        BY <1>1, <1>2, Climb
    <2> QED
        BY <2>1
<1>4. PICK f : Up(f, limit)
    BY <1>3
<1>5. Within(from, next, through, limit) = CHOOSE ff : Up(ff, limit)
    BY DEF Within
<1>6. Up(Within(from, next, through, limit), limit)
    <2> HIDE DEF Up
    <2> QED
        BY <1>4, <1>5
<1> QED
    BY <1>6 DEF IsNear

LEMMA NearAt ==
    ASSUME NEW near, NEW from, NEW next, NEW through, NEW limit \in Nat,
           IsNear(near, from, next, through, limit)
    PROVE  /\ near[0] = from \ Outside
           /\ \A r \in 0..limit : r > 0 =>
                near[r] = Onward(near[r - 1], next, through)
<1> DEFINE Value(r) == IF r = 0 THEN from \ Outside
                       ELSE Onward(near[r - 1], next, through)
<1>1. near = [r \in 0..limit |-> Value(r)]
    BY DEF IsNear
<1>2. ASSUME NEW r \in 0..limit PROVE near[r] = Value(r)
    <2> HIDE DEF Value
    <2> QED
        BY <1>1
<1>3. near[0] = Value(0)
    <2>1. 0 \in 0..limit
        OBVIOUS
    <2> QED
        BY <1>2, <2>1
<1>4. near[0] = from \ Outside
    BY <1>3
<1>5. ASSUME NEW r \in 0..limit, r > 0
      PROVE  near[r] = Onward(near[r - 1], next, through)
    <2> DEFINE Further == Onward(near[r - 1], next, through)
    <2>1. Value(r) = IF r = 0 THEN from \ Outside ELSE Further
        OBVIOUS
    <2> HIDE DEF Further
    <2>2. Value(r) = Further
        BY <1>5, <2>1
    <2> QED
        BY <1>2, <2>2 DEF Further
<1> QED
    BY <1>4, <1>5

\* Each round has what the one before had, and nothing of another origin.
LEMMA NearGrows ==
    ASSUME NEW near, NEW from, NEW next, NEW through, NEW limit \in Nat,
           IsNear(near, from, next, through, limit)
    PROVE  \A r \in 0..limit : near[r] \cap Outside = {} /\ \A j \in 0..r : near[j] \subseteq near[r]
<1> DEFINE T == {r \in 0..limit : near[r] \cap Outside = {} /\ \A j \in 0..r : near[j] \subseteq near[r]}
<1>1. 0 \in T
    BY NearAt
<1>2. ASSUME NEW r \in 1..limit, r - 1 \in T PROVE r \in T
    <2>1. near[r - 1] \cap Outside = {} /\ \A j \in 0..(r - 1) : near[j] \subseteq near[r - 1]
        BY <1>2
    <2>2. near[r] = Onward(near[r - 1], next, through)
        BY NearAt
    <2>3. near[r - 1] \subseteq near[r] /\ near[r] \cap Outside = {}
        BY <2>1, <2>2 DEF Onward
    <2>4. \A j \in 0..r : j = r \/ j \in 0..(r - 1)
        OBVIOUS
    <2> QED
        BY <2>1, <2>3, <2>4
<1>3. \A r \in 0..limit : r \in T
    <2> HIDE DEF T
    <2> QED
        BY <1>1, <1>2, Climb
<1> QED
    BY <1>3

\* A page that is not near enough changes nothing nearer.
LEMMA NearKept ==
    ASSUME NEW near, NEW nearer, NEW from, NEW next, NEW through, NEW more, NEW limit \in Nat,
           IsNear(near, from, next, through, limit), IsNear(nearer, from, next, more, limit),
           NEW d \in 0..limit,
           d > 0 => near[d - 1] \cap through = near[d - 1] \cap more
    PROVE  \A r \in 0..d : nearer[r] = near[r]
<1> DEFINE T == {r \in 0..d : nearer[r] = near[r]}
<1>1. 0 \in T
    <2>1. near[0] = from \ Outside /\ nearer[0] = from \ Outside
        BY NearAt
    <2> QED
        BY <2>1
<1>2. ASSUME NEW r \in 1..d, r - 1 \in T PROVE r \in T
    <2>1. near[r - 1] \subseteq near[d - 1]
        <3>1. r - 1 \in 0..(d - 1) /\ d - 1 \in 0..limit
            OBVIOUS
        <3> QED
            BY <3>1, NearGrows
    <2>2. near[r - 1] \cap through = near[r - 1] \cap more
        BY <2>1
    <2>3. near[r] = Onward(near[r - 1], next, through)
        BY NearAt
    <2>4. nearer[r] = Onward(nearer[r - 1], next, more)
        BY NearAt
    <2>5. nearer[r - 1] = near[r - 1]
        BY <1>2
    <2>6. nearer[r] = near[r]
        BY <2>2, <2>3, <2>4, <2>5 DEF Onward
    <2> QED
        BY <2>6
<1>3. \A r \in 0..d : r \in T
    <2> HIDE DEF T
    <2> QED
        BY <1>1, <1>2, Climb
<1> QED
    BY <1>3

\* Once nothing that gave a page lies beyond round d, neither does anything else.
LEMMA NearStops ==
    ASSUME NEW near, NEW from, NEW next, NEW through, NEW limit \in Nat,
           IsNear(near, from, next, through, limit), NEW d \in 0..limit,
           through \subseteq near[d], d < limit => near[d + 1] \subseteq near[d]
    PROVE  \A r \in 0..limit : r >= d => near[r] = near[d]
<1> DEFINE T == {r \in 0..limit : r >= d => near[r] = near[d]}
<1>1. 0 \in T
    OBVIOUS
<1>2. ASSUME NEW r \in 1..limit, r - 1 \in T PROVE r \in T
    <2>1. CASE r > d
        <3>1. r - 1 \in 0..limit /\ r - 1 >= d /\ near[r - 1] = near[d]
            BY <1>2, <2>1
        <3>2. near[r] = Onward(near[r - 1], next, through)
            BY NearAt
        <3>3. near[d + 1] = Onward(near[d], next, through)
            <4>1. d + 1 \in 0..limit /\ d + 1 > 0 /\ (d + 1) - 1 = d
                BY <2>1
            <4> QED
                BY <4>1, NearAt
        <3>4. near[d + 1] \subseteq near[d]
            BY <2>1
        <3>5. near[r] = near[d + 1] /\ near[d + 1] = near[d]
            BY <3>1, <3>2, <3>3, <3>4 DEF Onward
        <3> QED
            BY <3>5
    <2> QED
        BY <2>1
<1>3. \A r \in 0..limit : r \in T
    <2> HIDE DEF T
    <2> QED
        BY <1>1, <1>2, Climb
<1> QED
    BY <1>3
\* The search stands at round d: everything nearer is done, everything of round d
\* and of the next one is done or queued, in that order, and nothing farther.
Frontier(todo, done, through, near, limit, d) ==
    /\ d \in 0..limit
    /\ through \subseteq done /\ done \subseteq near[d]
    /\ d > 0 => near[d - 1] \subseteq done
    /\ \A x \in near[d] : x \in done \/ \E i \in 1..Len(todo) : todo[i].item = x /\ todo[i].depth = d
    /\ d < limit => \A x \in near[d + 1] : x \in done \/ \E i \in 1..Len(todo) : todo[i].item = x
    /\ \A i \in 1..Len(todo) : /\ todo[i].depth \in {d, d + 1} /\ todo[i].depth <= limit
                              /\ todo[i].item \in Outside \cup near[todo[i].depth]
    /\ \A i, j \in 1..Len(todo) : i < j => todo[i].depth <= todo[j].depth

Entries(Items) == Seq([item : Items, depth : Nat])

LEMMA EntriesAre ==
    ASSUME NEW Items, NEW todo \in Entries(Items)
    PROVE  /\ Len(todo) \in Nat /\ \A i \in 1..Len(todo) : todo[i].item \in Items /\ todo[i].depth \in Nat
           /\ todo # <<>> => /\ 1 \in 1..Len(todo) /\ Head(todo) = todo[1]
                            /\ Tail(todo) \in Entries(Items)
<1> DEFINE Entry == [item : Items, depth : Nat]
<1>1. todo \in Seq(Entry) /\ Entries(Items) = Seq(Entry)
    BY DEF Entries
<1>2. \A e \in Entry : e.item \in Items /\ e.depth \in Nat
    OBVIOUS
<1> HIDE DEF Entry
<1>3. \A i \in 1..Len(todo) : todo[i] \in Entry
    BY <1>1
<1>4. Len(todo) \in Nat /\ (todo # <<>> => Len(todo) # 0 /\ Head(todo) = todo[1] /\ Tail(todo) \in Seq(Entry))
    BY <1>1
<1> QED
    BY <1>1, <1>2, <1>3, <1>4

LEMMA FrontierStarts ==
    ASSUME NEW near, NEW from, NEW next, NEW limit \in Nat, IsNear(near, from, next, {}, limit),
           NEW Items, NEW todo \in Entries(Items),
           \A x \in from : \E i \in 1..Len(todo) : todo[i].item = x,
           \A i \in 1..Len(todo) : todo[i].item \in from /\ todo[i].depth = 0
    PROVE  Frontier(todo, {}, {}, near, limit, 0)
<1>1. near[0] = from \ Outside
    BY NearAt
<1>2. 0 < limit => near[1] = near[0]
    <2>1. ASSUME 0 < limit PROVE near[1] = Onward(near[0], next, {})
        <3>1. 1 \in 0..limit /\ 1 > 0 /\ 1 - 1 = 0
            BY <2>1
        <3> QED
            BY <3>1, NearAt
    <2> QED
        BY <2>1 DEF Onward
<1> QED
    BY <1>1, <1>2 DEF Frontier

\* When the next entry is of the next round, this one is finished.
LEMMA FrontierAdvances ==
    ASSUME NEW near, NEW from, NEW next, NEW through, NEW limit \in Nat,
           IsNear(near, from, next, through, limit),
           NEW Items, NEW todo \in Entries(Items), todo # <<>>,
           NEW done, NEW d, Frontier(todo, done, through, near, limit, d), todo[1].depth # d
    PROVE  Frontier(todo, done, through, near, limit, d + 1)
<1>1. Len(todo) \in Nat /\ 1 \in 1..Len(todo) /\ \A i \in 1..Len(todo) : todo[i].depth \in Nat
    BY EntriesAre
<1>2. d \in Nat /\ d \in 0..limit /\ todo[1].depth = d + 1 /\ d + 1 <= limit
    BY <1>1 DEF Frontier
<1>3. \A i \in 1..Len(todo) : todo[i].depth = d + 1
    BY <1>1, <1>2 DEF Frontier
<1>4. near[d] = done
    BY <1>1, <1>2, <1>3 DEF Frontier
<1>5. near[d + 1] = Onward(near[d], next, through)
    <2>1. d + 1 \in 0..limit /\ d + 1 > 0 /\ (d + 1) - 1 = d
        BY <1>2
    <2> QED
        BY <2>1, NearAt
<1>6. through \subseteq near[d] /\ near[d] \subseteq near[d + 1]
    BY <1>4, <1>5 DEF Frontier, Onward
<1>7. ASSUME d + 1 < limit PROVE near[d + 2] = near[d + 1]
    <2>1. d + 2 \in 0..limit /\ d + 2 > 0 /\ (d + 2) - 1 = d + 1
        BY <1>2, <1>7
    <2>2. near[d + 2] = Onward(near[d + 1], next, through)
        BY <2>1, NearAt
    <2>3. near[d + 1] \cap through = near[d] \cap through
        BY <1>6
    <2> QED
        BY <1>5, <2>2, <2>3 DEF Onward
<1>8. \A x \in near[d + 1] : x \in done \/ \E i \in 1..Len(todo) : todo[i].item = x /\ todo[i].depth = d + 1
    BY <1>2, <1>3 DEF Frontier
<1>9. d + 1 > 0 => near[(d + 1) - 1] \subseteq done
    <2>1. (d + 1) - 1 = d
        BY <1>2
    <2> QED
        BY <1>4, <2>1
<1>10. d + 1 < limit => \A x \in near[(d + 1) + 1] : x \in done \/ \E i \in 1..Len(todo) : todo[i].item = x
    <2>1. (d + 1) + 1 = d + 2
        BY <1>2
    <2> QED
        BY <1>7, <1>8, <2>1
<1>11. \A i \in 1..Len(todo) : /\ todo[i].depth \in {d + 1, (d + 1) + 1} /\ todo[i].depth <= limit
                              /\ todo[i].item \in Outside \cup near[todo[i].depth]
    BY <1>3 DEF Frontier
<1>12. \A i, j \in 1..Len(todo) : i < j => todo[i].depth <= todo[j].depth
    BY DEF Frontier
<1>13. d + 1 \in 0..limit /\ through \subseteq done /\ done \subseteq near[d + 1]
    BY <1>2, <1>4, <1>6
<1> QED
    BY <1>8, <1>9, <1>10, <1>11, <1>12, <1>13 DEF Frontier

\* Entry x is taken and answered: `wider` is near for the pages read afterwards, and
\* `new` is what the entry appended, nothing unless it was read below the limit.
TakesNext(todo, done, through, near, new, more, wider, from, next, limit, Items, d, x) ==
    /\ IsNear(near, from, next, through, limit) /\ IsNear(wider, from, next, more, limit)
    /\ todo \in Entries(Items) /\ new \in Entries(Items) /\ todo # <<>> /\ x = todo[1].item /\ d = todo[1].depth
    /\ \/ more = through
       \/ more = through \cup {x} /\ x \notin done /\ x \notin Outside
    /\ \A i \in 1..Len(new) : /\ new[i].depth = d + 1 /\ d < limit
                              /\ more = through \cup {x} /\ new[i].item \in Outside \cup next[x]
    /\ more # through /\ d < limit =>
         \A y \in next[x] \ Outside : y \in done \cup {x} \/ \E i \in 1..Len(new) : new[i].item = y

LEMMA FrontierTakes ==
    ASSUME NEW from, NEW next, NEW limit \in Nat, NEW near, NEW through, NEW wider, NEW more,
           NEW Items, NEW todo, NEW new, NEW done, NEW d, NEW x,
           TakesNext(todo, done, through, near, new, more, wider, from, next, limit, Items, d, x),
           Frontier(todo, done, through, near, limit, d)
    PROVE  Frontier(Tail(todo) \o new, done \cup ({x} \ Outside), more, wider, limit, d)
<1> USE DEF TakesNext
<1> DEFINE rest == Tail(todo) \o new
           after == done \cup ({x} \ Outside)
<1>1. /\ d \in Nat /\ d \in 0..limit /\ Len(todo) \in Nat /\ Len(new) \in Nat /\ 1 \in 1..Len(todo)
      /\ \A i \in 1..Len(todo) : todo[i].depth \in Nat
    BY EntriesAre DEF Frontier
<1>2. rest \in Entries(Items) /\ Len(rest) = Len(todo) - 1 + Len(new)
    BY DEF Entries
<1>3. \A i \in 1..(Len(todo) - 1) : rest[i] = todo[i + 1]
    BY DEF Entries
<1>4. \A i \in 1..Len(new) : rest[Len(todo) - 1 + i] = new[i]
    BY DEF Entries
<1>5. ASSUME NEW i \in 1..Len(rest)
      PROVE  \/ i \in 1..(Len(todo) - 1) /\ rest[i] = todo[i + 1] /\ i + 1 \in 1..Len(todo)
             \/ \E j \in 1..Len(new) : i = Len(todo) - 1 + j /\ rest[i] = new[j]
    <2>1. CASE i <= Len(todo) - 1
        BY <1>1, <1>3, <2>1
    <2>2. CASE i > Len(todo) - 1
        <3>1. i - (Len(todo) - 1) \in 1..Len(new) /\ i = Len(todo) - 1 + (i - (Len(todo) - 1))
            BY <1>1, <1>2, <2>2
        <3> QED
            BY <1>4, <3>1
    <2> QED
        BY <1>1, <1>2, <2>1, <2>2
<1>6. ASSUME NEW y, NEW i \in 1..Len(todo), todo[i].item = y
      PROVE  y = x \/ \E j \in 1..Len(rest) : rest[j] = todo[i]
    <2>1. CASE i = 1
        BY <1>6, <2>1
    <2>2. CASE i > 1
        <3>1. i - 1 \in 1..(Len(todo) - 1) /\ i - 1 \in 1..Len(rest) /\ (i - 1) + 1 = i
            BY <1>1, <1>2, <2>2
        <3> QED
            BY <1>3, <3>1
    <2>3. i = 1 \/ i > 1
        BY <1>1
    <2> QED
        BY <2>1, <2>2, <2>3
<1>7. \A r \in 0..d : wider[r] = near[r]
    <2>1. ASSUME d > 0 PROVE near[d - 1] \cap through = near[d - 1] \cap more
        <3>1. near[d - 1] \subseteq done
            BY <2>1 DEF Frontier
        <3> QED
            BY <3>1
    <2>2. d \in 0..limit /\ (d > 0 => near[d - 1] \cap through = near[d - 1] \cap more)
        BY <1>1, <2>1
    <2>3. IsNear(near, from, next, through, limit) /\ IsNear(wider, from, next, more, limit)
        OBVIOUS
    <2> HIDE DEF TakesNext
    <2>4. \A r \in 0..d : wider[r] = near[r]
        <3>1. IsNear(near, from, next, through, limit) /\ IsNear(wider, from, next, more, limit) /\ limit \in Nat
              /\ d \in 0..limit /\ (d > 0 => near[d - 1] \cap through = near[d - 1] \cap more)
            BY <2>2, <2>3
        <3> QED
            BY ONLY <3>1, NearKept
    <2> QED
        BY <2>4
<1>8. near[d] \cap Outside = {} /\ (d < limit => wider[d + 1] \cap Outside = {})
    <2>1. d < limit => d + 1 \in 0..limit
        BY <1>1
    <2> QED
        BY <1>1, <2>1, NearGrows
<1>9. x \in Outside \/ x \in near[d]
    BY <1>1 DEF Frontier
<1>10. ASSUME d < limit
       PROVE  /\ near[d + 1] \subseteq wider[d + 1]
              /\ \A y \in wider[d + 1] : y \in near[d + 1] \/ (more # through /\ y \in next[x] \ Outside)
              /\ more = through \cup {x} => next[x] \ Outside \subseteq wider[d + 1]
    <2>1. d + 1 \in 0..limit /\ d + 1 > 0 /\ (d + 1) - 1 = d
        BY <1>1, <1>10
    <2>2. near[d + 1] = Onward(near[d], next, through)
        BY <2>1, NearAt
    <2>3. wider[d + 1] = Onward(wider[d], next, more)
        BY <2>1, NearAt
    <2>4. wider[d] = near[d]
        BY <1>1, <1>7
    <2>5. wider[d + 1] = Onward(near[d], next, more)
        BY <2>3, <2>4
    <2>6. CASE more = through
        <3>1. wider[d + 1] = near[d + 1]
            BY <2>2, <2>5, <2>6
        <3>2. more = through \cup {x} => x \in through
            BY <2>6
        <3>3. x \in through => x \in near[d]
            BY DEF Frontier
        <3>4. x \in through => next[x] \ Outside \subseteq wider[d + 1]
            BY <2>5, <2>6, <3>3 DEF Onward
        <3> QED
            BY <3>1, <3>2, <3>4
    <2>7. CASE more # through
        <3>1. more = through \cup {x} /\ x \in near[d]
            BY <2>7, <1>9
        <3>2. near[d] \cap more = (near[d] \cap through) \cup {x}
            BY <3>1
        <3> QED
            BY <2>2, <2>5, <2>7, <3>1, <3>2 DEF Onward
    <2> QED
        BY <2>6, <2>7
<1> HIDE DEF rest
<1>11. more \subseteq after /\ after \subseteq wider[d]
    <2>1. through \subseteq done /\ done \subseteq near[d] /\ near[d] = wider[d]
        BY <1>1, <1>7 DEF Frontier
    <2> QED
        BY <1>9, <2>1
<1>12. d > 0 => wider[d - 1] \subseteq after
    <2>1. ASSUME d > 0 PROVE d - 1 \in 0..d
        BY <1>1, <2>1
    <2>2. ASSUME d > 0 PROVE wider[d - 1] = near[d - 1]
        BY <1>7, <2>1, <2>2
    <2> QED
        BY <2>2 DEF Frontier
<1>13. ASSUME NEW y \in wider[d]
       PROVE  y \in after \/ \E i \in 1..Len(rest) : rest[i].item = y /\ rest[i].depth = d
    <2>1. y \in near[d]
        BY <1>1, <1>7
    <2>2. y \in done \/ \E i \in 1..Len(todo) : todo[i].item = y /\ todo[i].depth = d
        BY <2>1 DEF Frontier
    <2>3. y \notin Outside
        BY <1>8, <2>1
    <2> QED
        BY <1>6, <2>2, <2>3
<1>14. ASSUME d < limit, NEW y \in wider[d + 1]
       PROVE  y \in after \/ \E i \in 1..Len(rest) : rest[i].item = y
    <2>1. y \notin Outside
        BY <1>8, <1>14
    <2>2. CASE y \in near[d + 1]
        <3>1. y \in done \/ \E i \in 1..Len(todo) : todo[i].item = y
            BY <1>14, <2>2 DEF Frontier
        <3> QED
            BY <1>6, <2>1, <3>1
    <2>3. CASE more # through /\ y \in next[x] \ Outside
        <3>1. y \in done \cup {x} \/ \E i \in 1..Len(new) : new[i].item = y
            BY <1>14, <2>3
        <3>2. \A i \in 1..Len(new) : Len(todo) - 1 + i \in 1..Len(rest)
            BY <1>1, <1>2
        <3> QED
            BY <1>4, <2>1, <3>1, <3>2
    <2> QED
        BY <1>10, <1>14, <2>2, <2>3
<1>15. ASSUME NEW i \in 1..Len(rest)
       PROVE  /\ rest[i].depth \in {d, d + 1} /\ rest[i].depth <= limit
              /\ rest[i].item \in Outside \cup wider[rest[i].depth]
    <2>1. CASE i \in 1..(Len(todo) - 1) /\ rest[i] = todo[i + 1] /\ i + 1 \in 1..Len(todo)
        <3>1. /\ rest[i].depth \in {d, d + 1} /\ rest[i].depth <= limit
              /\ rest[i].item \in Outside \cup near[rest[i].depth]
            BY <2>1 DEF Frontier
        <3>2. CASE rest[i].depth = d
            BY <1>1, <1>7, <3>1, <3>2
        <3>3. CASE rest[i].depth = d + 1
            BY <1>1, <1>10, <3>1, <3>3
        <3> QED
            BY <3>1, <3>2, <3>3
    <2>2. CASE \E j \in 1..Len(new) : i = Len(todo) - 1 + j /\ rest[i] = new[j]
        <3>1. PICK j \in 1..Len(new) : rest[i] = new[j]
            BY <2>2
        <3>2. rest[i].depth = d + 1 /\ d < limit /\ more = through \cup {x} /\ rest[i].item \in Outside \cup next[x]
            BY <3>1
        <3>3. rest[i].item \in Outside \cup wider[d + 1]
            BY <1>10, <3>2
        <3> QED
            BY <1>1, <3>2, <3>3
    <2> QED
        BY <1>5, <2>1, <2>2
<1>16. ASSUME NEW i \in 1..Len(rest), NEW j \in 1..Len(rest), i < j PROVE rest[i].depth <= rest[j].depth
    <2>1. CASE j \in 1..(Len(todo) - 1)
        <3>1. i \in 1..(Len(todo) - 1) /\ i + 1 \in 1..Len(todo) /\ j + 1 \in 1..Len(todo) /\ i + 1 < j + 1
            BY <1>1, <1>16, <2>1
        <3>2. todo[i + 1].depth <= todo[j + 1].depth
            BY <3>1 DEF Frontier
        <3> QED
            BY <1>3, <2>1, <3>1, <3>2
    <2>2. CASE \E r \in 1..Len(new) : j = Len(todo) - 1 + r /\ rest[j] = new[r]
        <3>1. rest[j].depth = d + 1
            BY <2>2
        <3>2. rest[i].depth \in {d, d + 1}
            BY <1>15
        <3>3. d \in Nat
            BY <1>1
        <3> QED
            BY <3>1, <3>2, <3>3
    <2> QED
        BY <1>5, <2>1, <2>2
<1> QED
    BY <1>1, <1>11, <1>12, <1>13, <1>14, <1>15, <1>16 DEF Frontier, rest

\* However a search that stands at round d is stopped, it went nearest first.
LEMMA FrontierEnds ==
    ASSUME NEW near, NEW from, NEW next, NEW through, NEW limit \in Nat,
           IsNear(near, from, next, through, limit), NEW room \in Nat,
           NEW Items, NEW todo \in Entries(Items), NEW done, NEW d,
           Frontier(todo, done, through, near, limit, d),
           Cardinality(done) \in Nat, Cardinality(done) <= room,
           ~(todo # <<>> /\ Cardinality(done) < room)
    PROVE  BreadthFirst(done, near, limit, room)
<1>1. d \in 0..limit /\ done \subseteq near[d]
    BY DEF Frontier
<1>2. near[d] \subseteq near[limit]
    <2>1. limit \in 0..limit /\ d \in 0..limit
        BY <1>1
    <2> QED
        BY <2>1, NearGrows
<1>3. CASE todo = <<>>
    <2>1. Len(todo) = 0
        BY <1>3
    <2>2. near[d] \subseteq done /\ (d < limit => near[d + 1] \subseteq done)
        BY <2>1 DEF Frontier
    <2>3. near[d] = done /\ through \subseteq near[d] /\ (d < limit => near[d + 1] \subseteq near[d])
        BY <1>1, <2>2 DEF Frontier
    <2>4. limit \in 0..limit /\ limit >= d
        BY <1>1
    <2>5. near[limit] = near[d]
        BY <1>1, <2>3, <2>4, NearStops
    <2> QED
        BY <1>1, <1>2, <2>3, <2>5 DEF BreadthFirst
<1>4. CASE todo # <<>>
    <2>1. Cardinality(done) = room
        BY <1>4
    <2>2. d > 0 => near[d - 1] \subseteq done
        BY DEF Frontier
    <2> QED
        BY <1>1, <1>2, <2>1, <2>2 DEF BreadthFirst
<1> QED
    BY <1>3, <1>4
-----------------------------------------------------------------------------
\* A search with something to do stands at the round of its next entry.
LEMMA FrontierAtHead ==
    ASSUME NEW near, NEW from, NEW next, NEW through, NEW limit \in Nat,
           IsNear(near, from, next, through, limit),
           NEW Items, NEW todo \in Entries(Items), todo # <<>>,
           NEW done, \E d : Frontier(todo, done, through, near, limit, d)
    PROVE  Frontier(todo, done, through, near, limit, todo[1].depth)
<1>1. PICK d : Frontier(todo, done, through, near, limit, d)
    OBVIOUS
<1>2. CASE todo[1].depth = d
    BY <1>1, <1>2
<1>3. CASE todo[1].depth # d
    <2>1. todo[1].depth = d + 1
        <3>1. Len(todo) \in Nat /\ Len(todo) # 0
            BY DEF Entries
        <3>2. 1 \in 1..Len(todo)
            BY <3>1
        <3> QED
            BY <1>1, <1>3, <3>2 DEF Frontier
    <2>2. Frontier(todo, done, through, near, limit, d + 1)
        BY <1>1, <1>3, FrontierAdvances
    <2> QED
        BY <2>1, <2>2
<1> QED
    BY <1>2, <1>3

\* An entry that is skipped, or whose answer is no page.
LEMMA FrontierDrops ==
    ASSUME NEW near, NEW from, NEW next, NEW through, NEW limit \in Nat,
           IsNear(near, from, next, through, limit),
           NEW Items, NEW todo \in Entries(Items), todo # <<>>,
           NEW done, \E d : Frontier(todo, done, through, near, limit, d),
           NEW after, after = done \cup ({todo[1].item} \ Outside)
    PROVE  Tail(todo) \in Entries(Items) /\ \E d : Frontier(Tail(todo), after, through, near, limit, d)
<1> DEFINE x == todo[1].item
           d == todo[1].depth
<1>1. Frontier(todo, done, through, near, limit, d) /\ todo[1].depth = d /\ x = todo[1].item
    BY FrontierAtHead
<1>2. <<>> \in Entries(Items) /\ Len(<<>>) = 0
    BY DEF Entries
<1>3. Tail(todo) \in Entries(Items) /\ Tail(todo) \o <<>> = Tail(todo)
    BY DEF Entries
<1>4. after = done \cup ({x} \ Outside)
    OBVIOUS
<1> HIDE DEF x, d
<1>5. \A i \in 1..0 : FALSE
    OBVIOUS
<1>6. TakesNext(todo, done, through, near, <<>>, through, near, from, next, limit, Items, d, x)
    BY <1>1, <1>2, <1>5 DEF TakesNext
<1>7. Frontier(Tail(todo) \o <<>>, done \cup ({x} \ Outside), through, near, limit, d)
    BY <1>1, <1>6, FrontierTakes
<1> QED
    BY <1>3, <1>4, <1>7

\* An entry answered by a page, which appends entries unless it is at the limit.
ReadsNext(todo, done, through, near, new, wider, from, next, limit, Items, x) ==
    /\ IsNear(near, from, next, through, limit) /\ IsNear(wider, from, next, through \cup {x}, limit)
    /\ todo \in Entries(Items) /\ new \in Entries(Items) /\ todo # <<>>
    /\ \E d : Frontier(todo, done, through, near, limit, d)
    /\ x = todo[1].item /\ x \notin done /\ x \notin Outside
    /\ \A i \in 1..Len(new) : /\ new[i].depth = todo[1].depth + 1 /\ todo[1].depth < limit
                              /\ new[i].item \in Outside \cup next[x]
    /\ todo[1].depth < limit =>
         \A y \in next[x] \ Outside : y \in done \cup {x} \/ \E i \in 1..Len(new) : new[i].item = y

LEMMA FrontierReads ==
    ASSUME NEW from, NEW next, NEW limit \in Nat, NEW near, NEW through, NEW wider,
           NEW Items, NEW todo, NEW new, NEW done, NEW x,
           ReadsNext(todo, done, through, near, new, wider, from, next, limit, Items, x)
    PROVE  /\ Tail(todo) \o new \in Entries(Items)
           /\ \E d : Frontier(Tail(todo) \o new, done \cup {x}, through \cup {x}, wider, limit, d)
<1> DEFINE d == todo[1].depth
           more == through \cup {x}
<1>1. Frontier(todo, done, through, near, limit, d)
    BY FrontierAtHead DEF ReadsNext
<1>2. Tail(todo) \o new \in Entries(Items)
    BY DEF Entries, ReadsNext
<1>3. done \cup ({x} \ Outside) = done \cup {x}
    BY DEF ReadsNext
<1>4. TakesNext(todo, done, through, near, new, more, wider, from, next, limit, Items, d, x)
    BY DEF ReadsNext, TakesNext
<1> HIDE DEF d, more
<1>5. Frontier(Tail(todo) \o new, done \cup ({x} \ Outside), more, wider, limit, d)
    BY <1>1, <1>4, FrontierTakes
<1>6. Frontier(Tail(todo) \o new, done \cup {x}, through \cup {x}, wider, limit, d)
    BY <1>3, <1>5 DEF more
<1> QED
    BY <1>2, <1>6

\* The entries of a sequence of items of one depth.
LEMMA AtIs ==
    ASSUME NEW S, NEW items \in Seq(S), NEW depth \in Nat
    PROVE  /\ At(items, depth) \in Entries(S)
           /\ Len(At(items, depth)) = Len(items)
           /\ \A i \in 1..Len(items) : At(items, depth)[i].item = items[i] /\ At(items, depth)[i].depth = depth
<1>1. At(items, depth) = [i \in 1..Len(items) |-> [item |-> items[i], depth |-> depth]] /\ Len(items) \in Nat
    BY DEF At
<1>2. \A i \in 1..Len(items) : items[i] \in S
    OBVIOUS
<1>3. At(items, depth) \in [1..Len(items) -> [item : S, depth : Nat]]
    BY <1>1, <1>2
<1>4. At(items, depth) \in Entries(S) /\ Len(At(items, depth)) = Len(items)
    BY <1>1, <1>3 DEF Entries
<1> QED
    BY <1>1, <1>4
-----------------------------------------------------------------------------
NearPages == Within({StartUrl}, PageLinks, read, MaxDepth)
NearForms == Within(Range(crawl_forms), FormLinks, answered, MaxChain)

OurPages == DOMAIN site.links \ Outside
AllForms == DOMAIN site.lands \cup Outside

\* What is done, each once and within the limit.
DoneInv ==
    /\ site \in Sites /\ active_mode \in BOOLEAN /\ walk \in {"links", "forms", "end"}
    /\ IsFiniteSet(visited) /\ Cardinality(visited) <= MaxPages
    /\ urls \in Seq(OurPages) /\ Range(urls) \subseteq visited /\ IsInjective(urls)
    /\ crawl_forms \in Seq(AllForms)
    /\ submitted \in Seq(AllForms) /\ IsInjective(submitted) /\ Len(submitted) <= MaxForms
    /\ IsFiniteSet(Range(submitted)) /\ Cardinality(Range(submitted)) = Len(submitted)

\* Where the crawls stand.
LinksInv ==
    walk = "links" => /\ queue \in Entries(OurPages)
                      /\ \E d : Frontier(queue, visited, read, NearPages, MaxDepth, d)
                      /\ submitted = <<>> /\ answered = {}
LinksDone == walk # "links" => BreadthFirst(visited, NearPages, MaxDepth, MaxPages)
FormsInv ==
    walk = "forms" => /\ active_mode /\ queue \in Entries(AllForms)
                      /\ \E d : Frontier(queue, Range(submitted), answered, NearForms, MaxChain, d)
FormsDone ==
    walk = "end" => /\ active_mode => BreadthFirst(Range(submitted), NearForms, MaxChain, MaxForms)
                    /\ ~active_mode => submitted = <<>>

CrawlInv == DoneInv /\ LinksInv /\ LinksDone /\ FormsInv /\ FormsDone

LEMMA CrawlConstants ==
    /\ MaxPages \in Nat /\ MaxDepth \in Nat /\ MaxForms \in Nat /\ MaxChain \in Nat
    /\ StartUrl \notin Outside
BY CrawlAssumption

\* What the pages and forms of a site lead to.
LEMMA SiteIs ==
    ASSUME site \in Sites
    PROVE  /\ StartUrl \in OurPages
           /\ \A u \in OurPages : /\ site.links[u] \in Seq(DOMAIN site.links) /\ site.forms[u] \in Seq(AllForms)
                                 /\ PageLinks[u] = Range(site.links[u])
           /\ \A f \in AllForms \ Outside : /\ site.forms[site.lands[f]] \in Seq(AllForms)
                                           /\ FormLinks[f] = Range(site.forms[site.lands[f]])
<1>1. /\ StartUrl \in DOMAIN site.links
      /\ \A u \in DOMAIN site.links : /\ site.links[u] \in Seq(DOMAIN site.links)
                                     /\ site.forms[u] \in Seq(DOMAIN site.lands \cup Outside)
      /\ \A f \in DOMAIN site.lands : site.lands[f] \in DOMAIN site.links
    BY SiteAssumption
<1> QED
    BY <1>1, CrawlConstants DEF OurPages, AllForms, PageLinks, FormLinks

LEMMA InitCrawlInv == CrawlInit => CrawlInv
<1> SUFFICES ASSUME CrawlInit PROVE CrawlInv
    OBVIOUS
<1>1. /\ site \in Sites /\ active_mode \in BOOLEAN /\ walk = "links"
      /\ queue = <<[item |-> StartUrl, depth |-> 0]>> /\ visited = {} /\ urls = <<>> /\ crawl_forms = <<>>
      /\ submitted = <<>> /\ read = {} /\ answered = {}
    BY DEF CrawlInit
<1>2. Range(<<>>) = {} /\ IsInjective(<<>>) /\ Len(<<>>) = 0 /\ \A S : <<>> \in Seq(S)
    BY DEF Range, IsInjective
<1>3. IsFiniteSet({}) /\ Cardinality({}) = 0
    BY FS_EmptySet
<1>4. DoneInv
    <2>1. IsFiniteSet(visited) /\ Cardinality(visited) <= MaxPages
        BY <1>1, <1>3, CrawlConstants
    <2>2. urls \in Seq(OurPages) /\ Range(urls) \subseteq visited /\ IsInjective(urls) /\ crawl_forms \in Seq(AllForms)
        BY <1>1, <1>2
    <2>3. /\ submitted \in Seq(AllForms) /\ IsInjective(submitted) /\ Len(submitted) <= MaxForms
          /\ Range(submitted) = {} /\ Len(submitted) = 0
        BY <1>1, <1>2, CrawlConstants
    <2>4. IsFiniteSet(Range(submitted)) /\ Cardinality(Range(submitted)) = Len(submitted)
        BY <1>3, <2>3
    <2> QED
        BY <1>1, <2>1, <2>2, <2>3, <2>4 DEF DoneInv
<1>5. queue \in Entries(OurPages) /\ Len(queue) = 1 /\ queue[1].item = StartUrl /\ queue[1].depth = 0
    BY <1>1, SiteIs DEF Entries
<1>6. Frontier(queue, visited, read, NearPages, MaxDepth, 0)
    <2>1. IsNear(NearPages, {StartUrl}, PageLinks, {}, MaxDepth)
        BY <1>1, CrawlConstants, WithinIs DEF NearPages
    <2>2. /\ \A x \in {StartUrl} : \E i \in 1..Len(queue) : queue[i].item = x
          /\ \A i \in 1..Len(queue) : queue[i].item \in {StartUrl} /\ queue[i].depth = 0
        BY <1>5
    <2>3. Frontier(queue, {}, {}, NearPages, MaxDepth, 0)
        BY <1>5, <2>1, <2>2, CrawlConstants, FrontierStarts
    <2> QED
        BY <1>1, <2>3
<1>7. LinksInv
    BY <1>1, <1>5, <1>6 DEF LinksInv
<1> QED
    BY <1>1, <1>4, <1>7 DEF CrawlInv, LinksDone, FormsInv, FormsDone

\* Appending what is not there keeps a sequence injective.
LEMMA AppendedOnce ==
    ASSUME NEW S, NEW s \in Seq(S), NEW x \in S, IsInjective(s), x \notin Range(s)
    PROVE  /\ Append(s, x) \in Seq(S) /\ IsInjective(Append(s, x))
           /\ Range(Append(s, x)) = Range(s) \cup {x} /\ Len(Append(s, x)) = Len(s) + 1
<1> DEFINE t == Append(s, x)
<1>1. t \in Seq(S) /\ Len(s) \in Nat /\ Len(t) = Len(s) + 1 /\ DOMAIN s = 1..Len(s) /\ DOMAIN t = 1..Len(t)
    OBVIOUS
<1>2. t[Len(s) + 1] = x /\ \A i \in 1..Len(s) : t[i] = s[i]
    OBVIOUS
<1> HIDE DEF t
<1>3. \A i : i \in DOMAIN t <=> i \in DOMAIN s \/ i = Len(s) + 1
    BY <1>1
<1>4. Range(t) = Range(s) \cup {x}
    BY <1>1, <1>2, <1>3 DEF Range
<1>5. \A i \in DOMAIN s : s[i] # x
    BY DEF Range
<1>6. IsInjective(t)
    BY <1>1, <1>2, <1>3, <1>5 DEF IsInjective
<1> QED
    BY <1>1, <1>4, <1>6 DEF t

LEMMA PagesAre ==
    /\ IsNear(NearPages, {StartUrl}, PageLinks, read, MaxDepth)
    /\ IsNear(NearForms, Range(crawl_forms), FormLinks, answered, MaxChain)
BY CrawlConstants, WithinIs DEF NearPages, NearForms

LEMMA SkipVisitedKept == CrawlInv /\ SkipVisited => CrawlInv'
<1> SUFFICES ASSUME CrawlInv, SkipVisited PROVE CrawlInv'
    OBVIOUS
<1>1. /\ walk = "links" /\ queue # <<>> /\ queue[1].item \in visited /\ queue' = Tail(queue)
      /\ UNCHANGED <<site, active_mode, walk, visited, urls, crawl_forms, submitted, read, answered>>
    BY DEF SkipVisited, Crawling, Popped, CrawlInv, LinksInv, Entries
<1>2. queue \in Entries(OurPages) /\ \E d : Frontier(queue, visited, read, NearPages, MaxDepth, d)
    BY <1>1 DEF CrawlInv, LinksInv
<1>3. visited = visited \cup ({queue[1].item} \ Outside)
    BY <1>1
<1>4. queue' \in Entries(OurPages) /\ \E d : Frontier(queue', visited, read, NearPages, MaxDepth, d)
    BY <1>1, <1>2, <1>3, PagesAre, CrawlConstants, FrontierDrops
<1>5. NearPages' = NearPages /\ OurPages' = OurPages /\ AllForms' = AllForms
    BY <1>1 DEF NearPages, PageLinks, OurPages, AllForms
<1>6. LinksInv'
    BY <1>1, <1>4, <1>5 DEF CrawlInv, LinksInv
<1> QED
    BY <1>1, <1>5, <1>6 DEF CrawlInv, DoneInv, LinksDone, FormsInv, FormsDone

\* The URL that comes next is one of ours, and noting it keeps to the limit.
LEMMA NextPage ==
    ASSUME CrawlInv, Crawling, Popped.next.item \notin visited
    PROVE  /\ queue \in Entries(OurPages) /\ queue # <<>>
           /\ Popped.next = queue[1] /\ Popped.rest = Tail(queue)
           /\ Popped.next.item \in OurPages /\ Popped.next.depth \in Nat
           /\ Append(urls, Popped.next.item) \in Seq(OurPages) /\ IsInjective(Append(urls, Popped.next.item))
           /\ Range(Append(urls, Popped.next.item)) = Range(urls) \cup {Popped.next.item}
           /\ IsFiniteSet(visited \cup {Popped.next.item})
           /\ Cardinality(visited \cup {Popped.next.item}) <= MaxPages
<1> DEFINE x == Popped.next.item
<1>1. walk = "links" /\ queue # <<>> /\ Cardinality(visited) < MaxPages
    BY DEF Crawling
<1>2. queue \in Entries(OurPages)
    BY <1>1 DEF CrawlInv, LinksInv
<1>3. Popped.next = queue[1] /\ Popped.rest = Tail(queue)
    BY <1>1, <1>2 DEF Popped, Entries
<1>4. queue[1].item \in OurPages /\ queue[1].depth \in Nat
    BY <1>1, <1>2, EntriesAre
<1>5. x \in OurPages /\ Popped.next.depth \in Nat
    BY <1>3, <1>4
<1>6. urls \in Seq(OurPages) /\ Range(urls) \subseteq visited /\ IsInjective(urls) /\ IsFiniteSet(visited)
    BY DEF CrawlInv, DoneInv
<1>7. x \notin visited /\ x \notin Range(urls)
    BY <1>6
<1> HIDE DEF x
<1>8. Append(urls, x) \in Seq(OurPages) /\ IsInjective(Append(urls, x)) /\ Range(Append(urls, x)) = Range(urls) \cup {x}
    BY <1>5, <1>6, <1>7, AppendedOnce
<1>9. IsFiniteSet(visited \cup {x}) /\ Cardinality(visited \cup {x}) = Cardinality(visited) + 1
    BY <1>6, <1>7, FS_AddElement
<1>10. Cardinality(visited \cup {x}) <= MaxPages
    <2>1. Cardinality(visited) \in Nat
        BY <1>6, FS_CardinalityType
    <2> QED
        BY <1>1, <1>9, <2>1, CrawlConstants
<1> QED
    BY <1>1, <1>2, <1>3, <1>5, <1>8, <1>9, <1>10 DEF x

LEMMA VisitPlainKept == CrawlInv /\ VisitPlain => CrawlInv'
<1> SUFFICES ASSUME CrawlInv, VisitPlain PROVE CrawlInv'
    OBVIOUS
<1> DEFINE x == Popped.next.item
<1>1. /\ Crawling /\ walk = "links" /\ x \notin visited /\ visited' = visited \cup {x} /\ queue' = Popped.rest
      /\ urls' \in {urls, Append(urls, x)}
      /\ UNCHANGED <<site, active_mode, walk, crawl_forms, submitted, read, answered>>
    BY DEF VisitPlain, Crawling
<1>2. /\ queue \in Entries(OurPages) /\ queue # <<>> /\ queue' = Tail(queue) /\ x = queue[1].item
      /\ x \in OurPages /\ Append(urls, x) \in Seq(OurPages) /\ IsInjective(Append(urls, x))
      /\ Range(Append(urls, x)) = Range(urls) \cup {x}
      /\ IsFiniteSet(visited \cup {x}) /\ Cardinality(visited \cup {x}) <= MaxPages
    BY <1>1, NextPage
<1> HIDE DEF x
<1>3. \E d : Frontier(queue, visited, read, NearPages, MaxDepth, d)
    BY <1>1 DEF CrawlInv, LinksInv
<1>4. visited' = visited \cup ({queue[1].item} \ Outside)
    BY <1>1, <1>2 DEF OurPages
<1>5. queue' \in Entries(OurPages) /\ \E d : Frontier(queue', visited', read, NearPages, MaxDepth, d)
    BY <1>2, <1>3, <1>4, PagesAre, CrawlConstants, FrontierDrops
<1>6. NearPages' = NearPages /\ OurPages' = OurPages /\ AllForms' = AllForms
    BY <1>1 DEF NearPages, PageLinks, OurPages, AllForms
<1>7. LinksInv'
    BY <1>1, <1>5, <1>6 DEF CrawlInv, LinksInv
<1>8. urls' \in Seq(OurPages) /\ Range(urls') \subseteq visited' /\ IsInjective(urls')
    BY <1>1, <1>2 DEF CrawlInv, DoneInv
<1>9. DoneInv'
    BY <1>1, <1>2, <1>6, <1>8 DEF CrawlInv, DoneInv
<1> QED
    BY <1>1, <1>7, <1>9 DEF CrawlInv, LinksDone, FormsInv, FormsDone

LEMMA VisitPageKept == CrawlInv /\ VisitPage => CrawlInv'
<1> SUFFICES ASSUME CrawlInv, VisitPage PROVE CrawlInv'
    OBVIOUS
<1> DEFINE x == Popped.next.item
           depth == Popped.next.depth
           links == IF depth >= MaxDepth THEN <<>> ELSE Not(Ours(site.links[x]), visited \cup {x})
           new == At(links, depth + 1)
<1>1. /\ Crawling /\ walk = "links" /\ x \notin visited /\ visited' = visited \cup {x}
      /\ urls' = Append(urls, x) /\ read' = read \cup {x} /\ crawl_forms' = crawl_forms \o site.forms[x]
      /\ queue' = Popped.rest \o new
      /\ UNCHANGED <<site, active_mode, walk, submitted, answered>>
    BY DEF VisitPage, Crawling
<1>2. /\ queue \in Entries(OurPages) /\ queue # <<>> /\ queue' = Tail(queue) \o new /\ x = queue[1].item
      /\ depth = queue[1].depth /\ depth \in Nat
      /\ x \in OurPages /\ Append(urls, x) \in Seq(OurPages) /\ IsInjective(Append(urls, x))
      /\ Range(Append(urls, x)) = Range(urls) \cup {x}
      /\ IsFiniteSet(visited \cup {x}) /\ Cardinality(visited \cup {x}) <= MaxPages
    BY <1>1, NextPage
<1>3. \E d : Frontier(queue, visited, read, NearPages, MaxDepth, d)
    BY <1>1 DEF CrawlInv, LinksInv
<1>4. site \in Sites /\ PageLinks[x] = Range(site.links[x]) /\ site.links[x] \in Seq(DOMAIN site.links) /\ site.forms[x] \in Seq(AllForms)
    BY <1>2, SiteIs DEF CrawlInv, DoneInv
<1>5. links \in Seq(OurPages) /\ Range(links) \subseteq PageLinks[x]
      /\ (depth < MaxDepth => \A y \in PageLinks[x] \ Outside : y \in visited \cup {x} \/ y \in Range(links))
    <2> DEFINE ours == Ours(site.links[x])
               left == Not(ours, visited \cup {x})
    <2>1. ours \in Seq(DOMAIN site.links) /\ Range(ours) = PageLinks[x] \ Outside
        BY <1>4, NotIs DEF Ours
    <2>2. left \in Seq(DOMAIN site.links) /\ Range(left) = Range(ours) \ (visited \cup {x})
        BY <2>1, NotIs
    <2>3. left \in Seq(OurPages)
        <3> HIDE DEF left, ours
        <3>1. \A i \in 1..Len(left) : left[i] \in Range(left)
            BY <2>2 DEF Range
        <3>2. \A i \in 1..Len(left) : left[i] \in OurPages
            BY <2>1, <2>2, <3>1 DEF OurPages
        <3> QED
            BY <2>2, <3>2
    <2>4. links = IF depth >= MaxDepth THEN <<>> ELSE left
        OBVIOUS
    <2>5. <<>> \in Seq(OurPages) /\ Range(<<>>) = {}
        BY DEF Range
    <2> HIDE DEF left, ours, links
    <2>6. CASE depth >= MaxDepth
        BY <1>2, <2>4, <2>5, <2>6, CrawlConstants
    <2>7. CASE ~(depth >= MaxDepth)
        BY <2>1, <2>2, <2>3, <2>4, <2>7
    <2> QED
        BY <2>6, <2>7
<1>6. depth >= MaxDepth => Len(links) = 0
    OBVIOUS
<1> HIDE DEF links
<1>7. /\ new \in Entries(OurPages) /\ Len(new) = Len(links) /\ Len(links) \in Nat
      /\ \A i \in 1..Len(links) : new[i].item = links[i] /\ new[i].depth = depth + 1
    BY <1>2, <1>5, AtIs
<1> HIDE DEF new, x, depth
<1>8. \A i \in 1..Len(new) : /\ new[i].depth = queue[1].depth + 1 /\ queue[1].depth < MaxDepth
                             /\ new[i].item \in Outside \cup PageLinks[x]
    <2>1. \A i \in 1..Len(links) : links[i] \in Range(links)
        BY <1>5 DEF Range
    <2>2. \A i \in 1..Len(links) : depth < MaxDepth
        BY <1>2, <1>6, CrawlConstants
    <2> QED
        BY <1>2, <1>5, <1>7, <2>1, <2>2
<1>9. queue[1].depth < MaxDepth =>
        \A y \in PageLinks[x] \ Outside : y \in visited \cup {x} \/ \E i \in 1..Len(new) : new[i].item = y
    <2>1. \A y \in Range(links) : \E i \in 1..Len(links) : links[i] = y
        BY <1>5 DEF Range
    <2>2. \A i \in 1..Len(links) : i \in 1..Len(new) /\ new[i].item = links[i]
        BY <1>7
    <2>3. \A y \in Range(links) : \E i \in 1..Len(new) : new[i].item = y
        BY <2>1, <2>2
    <2>4. depth < MaxDepth => \A y \in PageLinks[x] \ Outside : y \in visited \cup {x} \/ y \in Range(links)
        BY <1>5
    <2> QED
        BY <1>2, <2>3, <2>4
<1>10. PageLinks' = PageLinks /\ OurPages' = OurPages /\ AllForms' = AllForms
    BY <1>1 DEF PageLinks, OurPages, AllForms
<1>11. IsNear(NearPages', {StartUrl}, PageLinks, read \cup {x}, MaxDepth)
    <2>1. NearPages' = Within({StartUrl}, PageLinks, read \cup {x}, MaxDepth)
        BY <1>1, <1>10 DEF NearPages
    <2> QED
        BY <2>1, CrawlConstants, WithinIs
<1>12. /\ queue' \in Entries(OurPages)
       /\ \E d : Frontier(queue', visited', read', NearPages', MaxDepth, d)
    <2> DEFINE wider == NearPages'
    <2>1. IsNear(wider, {StartUrl}, PageLinks, read \cup {x}, MaxDepth)
        BY <1>11
    <2> HIDE DEF wider
    <2>2. x \notin visited /\ x \notin Outside
        BY <1>1, <1>2 DEF OurPages
    <2>3. ReadsNext(queue, visited, read, NearPages, new, wider, {StartUrl}, PageLinks, MaxDepth, OurPages, x)
        BY <1>2, <1>3, <1>7, <1>8, <1>9, <2>1, <2>2, PagesAre DEF ReadsNext
    <2>4. /\ Tail(queue) \o new \in Entries(OurPages)
          /\ \E d : Frontier(Tail(queue) \o new, visited \cup {x}, read \cup {x}, wider, MaxDepth, d)
        BY <2>3, CrawlConstants, FrontierReads
    <2> QED
        BY <1>1, <1>2, <2>4 DEF wider
<1>13. LinksInv'
    BY <1>1, <1>10, <1>12 DEF CrawlInv, LinksInv
<1>14. crawl_forms' \in Seq(AllForms)
    BY <1>1, <1>4 DEF CrawlInv, DoneInv
<1>15. DoneInv'
    BY <1>1, <1>2, <1>10, <1>14 DEF CrawlInv, DoneInv
<1> QED
    BY <1>1, <1>13, <1>15 DEF CrawlInv, LinksDone, FormsInv, FormsDone

LEMMA CrawlEndsKept == CrawlInv /\ CrawlEnds => CrawlInv'
<1> SUFFICES ASSUME CrawlInv, CrawlEnds PROVE CrawlInv'
    OBVIOUS
<1>1. /\ walk = "links" /\ ~(queue # <<>> /\ Cardinality(visited) < MaxPages)
      /\ IF active_mode THEN walk' = "forms" /\ queue' = At(crawl_forms, 0) ELSE walk' = "end" /\ queue' = <<>>
      /\ UNCHANGED <<site, active_mode, visited, urls, crawl_forms, submitted, read, answered>>
    BY DEF CrawlEnds, Crawling
<1>2. /\ queue \in Entries(OurPages) /\ submitted = <<>> /\ answered = {}
      /\ \E d : Frontier(queue, visited, read, NearPages, MaxDepth, d)
    BY <1>1 DEF CrawlInv, LinksInv
<1>3. BreadthFirst(visited, NearPages, MaxDepth, MaxPages)
    <2>1. PICK d : Frontier(queue, visited, read, NearPages, MaxDepth, d)
        BY <1>2
    <2>2. Cardinality(visited) \in Nat /\ Cardinality(visited) <= MaxPages
        BY FS_CardinalityType DEF CrawlInv, DoneInv
    <2> QED
        BY <1>1, <1>2, <2>1, <2>2, PagesAre, CrawlConstants, FrontierEnds
<1>4. /\ NearPages' = NearPages /\ NearForms' = NearForms /\ OurPages' = OurPages /\ AllForms' = AllForms
      /\ PageLinks' = PageLinks
    BY <1>1 DEF NearPages, NearForms, PageLinks, FormLinks, OurPages, AllForms
<1>5. DoneInv'
    BY <1>1, <1>4 DEF CrawlInv, DoneInv
<1>6. LinksInv' /\ LinksDone'
    BY <1>1, <1>3, <1>4 DEF LinksInv, LinksDone
<1>7. CASE active_mode
    <2>1. walk' = "forms" /\ queue' = At(crawl_forms, 0) /\ active_mode'
        BY <1>1, <1>7
    <2>2. crawl_forms \in Seq(AllForms)
        BY DEF CrawlInv, DoneInv
    <2>3. /\ queue' \in Entries(AllForms) /\ Len(queue') = Len(crawl_forms)
          /\ \A i \in 1..Len(crawl_forms) : queue'[i].item = crawl_forms[i] /\ queue'[i].depth = 0
        BY <2>1, <2>2, AtIs
    <2>4. /\ \A x \in Range(crawl_forms) : \E i \in 1..Len(crawl_forms) : crawl_forms[i] = x
          /\ \A i \in 1..Len(crawl_forms) : crawl_forms[i] \in Range(crawl_forms)
        BY <2>2 DEF Range
    <2>5. IsNear(NearForms, Range(crawl_forms), FormLinks, {}, MaxChain)
        BY <1>2, PagesAre
    <2>6. Frontier(queue', {}, {}, NearForms, MaxChain, 0)
        <3> DEFINE todo == queue'
                   from == Range(crawl_forms)
        <3>1. /\ todo \in Entries(AllForms)
              /\ \A x \in from : \E i \in 1..Len(todo) : todo[i].item = x
              /\ \A i \in 1..Len(todo) : todo[i].item \in from /\ todo[i].depth = 0
            BY <2>3, <2>4
        <3>2. IsNear(NearForms, from, FormLinks, {}, MaxChain)
            BY <2>5
        <3> HIDE DEF todo, from
        <3>3. Frontier(todo, {}, {}, NearForms, MaxChain, 0)
            BY <3>1, <3>2, CrawlConstants, FrontierStarts
        <3> QED
            BY <3>3 DEF todo
    <2>7. Range(submitted) = {}
        BY <1>2 DEF Range
    <2>8. Frontier(queue, Range(submitted), answered, NearForms, MaxChain, 0)'
        BY <1>1, <1>2, <1>4, <2>6, <2>7
    <2>9. FormsInv' /\ FormsDone'
        BY <1>4, <2>1, <2>3, <2>8 DEF FormsInv, FormsDone
    <2> QED
        BY <1>5, <1>6, <2>9 DEF CrawlInv
<1>8. CASE ~active_mode
    <2>1. walk' = "end" /\ ~active_mode' /\ submitted' = <<>>
        BY <1>1, <1>2, <1>8
    <2> QED
        BY <1>5, <1>6, <2>1 DEF CrawlInv, FormsInv, FormsDone
<1> QED
    BY <1>7, <1>8

LEMMA SkipFormKept == CrawlInv /\ SkipForm => CrawlInv'
<1> SUFFICES ASSUME CrawlInv, SkipForm PROVE CrawlInv'
    OBVIOUS
<1>1. /\ walk = "forms" /\ queue # <<>> /\ ~Submittable(Popped.next.item) /\ queue' = Popped.rest
      /\ UNCHANGED <<site, active_mode, walk, visited, urls, crawl_forms, submitted, read, answered>>
    BY DEF SkipForm, Submitting
<1>2. /\ queue \in Entries(AllForms) /\ \E d : Frontier(queue, Range(submitted), answered, NearForms, MaxChain, d)
    BY <1>1 DEF CrawlInv, FormsInv
<1>3. Popped.next = queue[1] /\ Popped.rest = Tail(queue)
    BY <1>1, <1>2, EntriesAre DEF Popped
<1>4. Range(submitted) = Range(submitted) \cup ({queue[1].item} \ Outside)
    BY <1>1, <1>3 DEF Submittable
<1>5. queue' \in Entries(AllForms) /\ \E d : Frontier(queue', Range(submitted), answered, NearForms, MaxChain, d)
    <2> DEFINE done == Range(submitted)
               from == Range(crawl_forms)
    <2>1. done = done \cup ({queue[1].item} \ Outside) /\ \E d : Frontier(queue, done, answered, NearForms, MaxChain, d)
        BY <1>2, <1>4
    <2>2. IsNear(NearForms, from, FormLinks, answered, MaxChain)
        BY PagesAre
    <2> HIDE DEF done, from
    <2>3. Tail(queue) \in Entries(AllForms) /\ \E d : Frontier(Tail(queue), done, answered, NearForms, MaxChain, d)
        BY <1>1, <1>2, <2>1, <2>2, CrawlConstants, FrontierDrops
    <2> QED
        BY <1>1, <1>3, <2>3 DEF done
<1>6. NearPages' = NearPages /\ NearForms' = NearForms /\ OurPages' = OurPages /\ AllForms' = AllForms
    BY <1>1 DEF NearPages, NearForms, PageLinks, FormLinks, OurPages, AllForms
<1>7. FormsInv'
    BY <1>1, <1>5, <1>6 DEF CrawlInv, FormsInv
<1> QED
    BY <1>1, <1>6, <1>7 DEF CrawlInv, DoneInv, LinksInv, LinksDone, FormsDone

\* The form that comes next is one of ours, and submitting it keeps to the limit.
LEMMA NextForm ==
    ASSUME CrawlInv, Submitting, Submittable(Popped.next.item)
    PROVE  /\ queue \in Entries(AllForms) /\ queue # <<>>
           /\ Popped.next = queue[1] /\ Popped.rest = Tail(queue)
           /\ Popped.next.item \in AllForms \ Outside /\ Popped.next.item \notin Range(submitted)
           /\ Popped.next.depth \in Nat
           /\ Append(submitted, Popped.next.item) \in Seq(AllForms)
           /\ IsInjective(Append(submitted, Popped.next.item))
           /\ Range(Append(submitted, Popped.next.item)) = Range(submitted) \cup {Popped.next.item}
           /\ Len(Append(submitted, Popped.next.item)) <= MaxForms
           /\ IsFiniteSet(Range(submitted) \cup {Popped.next.item})
           /\ Cardinality(Range(submitted) \cup {Popped.next.item}) = Len(Append(submitted, Popped.next.item))
<1> DEFINE x == Popped.next.item
<1>1. walk = "forms" /\ queue # <<>> /\ Len(submitted) < MaxForms
    BY DEF Submitting
<1>2. queue \in Entries(AllForms)
    BY <1>1 DEF CrawlInv, FormsInv
<1>3. Popped.next = queue[1] /\ Popped.rest = Tail(queue) /\ queue[1].item \in AllForms /\ queue[1].depth \in Nat
    BY <1>1, <1>2, EntriesAre DEF Popped
<1>4. x \in AllForms \ Outside /\ x \in AllForms /\ x \notin Range(submitted) /\ Popped.next.depth \in Nat
    BY <1>3 DEF Submittable
<1>5. /\ submitted \in Seq(AllForms) /\ IsInjective(submitted)
      /\ IsFiniteSet(Range(submitted)) /\ Cardinality(Range(submitted)) = Len(submitted)
    BY DEF CrawlInv, DoneInv
<1> HIDE DEF x
<1>6. /\ Append(submitted, x) \in Seq(AllForms) /\ IsInjective(Append(submitted, x))
      /\ Range(Append(submitted, x)) = Range(submitted) \cup {x} /\ Len(Append(submitted, x)) = Len(submitted) + 1
    BY <1>4, <1>5, AppendedOnce
<1>7. IsFiniteSet(Range(submitted) \cup {x}) /\ Cardinality(Range(submitted) \cup {x}) = Len(submitted) + 1
    <2>1. IsFiniteSet(Range(submitted) \cup {x}) /\ Cardinality(Range(submitted) \cup {x}) = Cardinality(Range(submitted)) + 1
        BY <1>4, <1>5, FS_AddElement
    <2> QED
        BY <1>5, <2>1
<1>8. Len(submitted) + 1 <= MaxForms
    <2>1. Len(submitted) \in Nat
        BY <1>5
    <2> QED
        BY <1>1, <2>1, CrawlConstants
<1> QED
    BY <1>1, <1>2, <1>3, <1>4, <1>6, <1>7, <1>8 DEF x

LEMMA SubmitPlainKept == CrawlInv /\ SubmitPlain => CrawlInv'
<1> SUFFICES ASSUME CrawlInv, SubmitPlain PROVE CrawlInv'
    OBVIOUS
<1> DEFINE x == Popped.next.item
<1>1. /\ Submitting /\ walk = "forms" /\ Submittable(x) /\ submitted' = Append(submitted, x) /\ queue' = Popped.rest
      /\ UNCHANGED <<site, active_mode, walk, visited, urls, crawl_forms, read, answered>>
    BY DEF SubmitPlain, Submitting
<1>2. /\ queue \in Entries(AllForms) /\ queue # <<>> /\ queue' = Tail(queue) /\ x = queue[1].item
      /\ x \in AllForms \ Outside /\ Append(submitted, x) \in Seq(AllForms) /\ IsInjective(Append(submitted, x))
      /\ Range(Append(submitted, x)) = Range(submitted) \cup {x} /\ Len(Append(submitted, x)) <= MaxForms
      /\ IsFiniteSet(Range(submitted) \cup {x})
      /\ Cardinality(Range(submitted) \cup {x}) = Len(Append(submitted, x))
    BY <1>1, NextForm
<1> HIDE DEF x
<1>3. \E d : Frontier(queue, Range(submitted), answered, NearForms, MaxChain, d)
    BY <1>1 DEF CrawlInv, FormsInv
<1>4. Range(submitted') = Range(submitted) \cup ({queue[1].item} \ Outside)
    BY <1>1, <1>2
<1>5. queue' \in Entries(AllForms) /\ \E d : Frontier(queue', Range(submitted'), answered, NearForms, MaxChain, d)
    BY <1>2, <1>3, <1>4, PagesAre, CrawlConstants, FrontierDrops
<1>6. NearPages' = NearPages /\ NearForms' = NearForms /\ OurPages' = OurPages /\ AllForms' = AllForms
    BY <1>1 DEF NearPages, NearForms, PageLinks, FormLinks, OurPages, AllForms
<1>7. FormsInv'
    BY <1>1, <1>5, <1>6 DEF CrawlInv, FormsInv
<1>8. DoneInv'
    BY <1>1, <1>2, <1>6 DEF CrawlInv, DoneInv
<1> QED
    BY <1>1, <1>6, <1>7, <1>8 DEF CrawlInv, LinksInv, LinksDone, FormsDone

LEMMA SubmitPageKept == CrawlInv /\ SubmitPage => CrawlInv'
<1> SUFFICES ASSUME CrawlInv, SubmitPage PROVE CrawlInv'
    OBVIOUS
<1> DEFINE x == Popped.next.item
           depth == Popped.next.depth
           after == Append(submitted, x)
           left == Not(site.forms[site.lands[x]], Range(after))
           new == IF depth < MaxChain THEN At(left, depth + 1) ELSE <<>>
<1>1. /\ Submitting /\ walk = "forms" /\ Submittable(x) /\ submitted' = after /\ answered' = answered \cup {x}
      /\ queue' = Popped.rest \o new
      /\ UNCHANGED <<site, active_mode, walk, visited, urls, crawl_forms, read>>
    BY DEF SubmitPage, Submitting
<1>2. /\ queue \in Entries(AllForms) /\ queue # <<>> /\ queue' = Tail(queue) \o new /\ x = queue[1].item
      /\ depth = queue[1].depth /\ depth \in Nat
      /\ x \in AllForms \ Outside /\ x \notin Range(submitted) /\ after \in Seq(AllForms) /\ IsInjective(after)
      /\ Range(after) = Range(submitted) \cup {x} /\ Len(after) <= MaxForms
      /\ IsFiniteSet(Range(submitted) \cup {x}) /\ Cardinality(Range(submitted) \cup {x}) = Len(after)
    BY <1>1, NextForm
<1>3. \E d : Frontier(queue, Range(submitted), answered, NearForms, MaxChain, d)
    BY <1>1 DEF CrawlInv, FormsInv
<1>4. site.forms[site.lands[x]] \in Seq(AllForms) /\ FormLinks[x] = Range(site.forms[site.lands[x]])
    <2>1. site \in Sites /\ x \in AllForms \ Outside
        BY <1>2 DEF CrawlInv, DoneInv
    <2> HIDE DEF x
    <2> QED
        BY <2>1, SiteIs
<1>5. left \in Seq(AllForms) /\ Range(left) = FormLinks[x] \ (Range(submitted) \cup {x})
    <2> DEFINE forms == site.forms[site.lands[x]]
               had == Range(after)
    <2>1. forms \in Seq(AllForms) /\ FormLinks[x] = Range(forms) /\ had = Range(submitted) \cup {x}
        BY <1>2, <1>4
    <2>2. left = Not(forms, had)
        OBVIOUS
    <2> HIDE DEF forms, had, left, x
    <2>3. left \in Seq(AllForms) /\ Range(left) = Range(forms) \ had
        BY <2>1, <2>2, NotIs
    <2> QED
        BY <2>1, <2>3
<1> HIDE DEF left, x, depth, after
<1>6. /\ At(left, depth + 1) \in Entries(AllForms) /\ Len(At(left, depth + 1)) = Len(left) /\ Len(left) \in Nat
      /\ \A i \in 1..Len(left) : At(left, depth + 1)[i].item = left[i] /\ At(left, depth + 1)[i].depth = depth + 1
    BY <1>2, <1>5, AtIs
<1>7. /\ \A y \in Range(left) : \E i \in 1..Len(left) : left[i] = y
      /\ \A i \in 1..Len(left) : left[i] \in Range(left)
    BY <1>5 DEF Range
<1>8. /\ new \in Entries(AllForms)
      /\ \A i \in 1..Len(new) : /\ new[i].depth = queue[1].depth + 1 /\ queue[1].depth < MaxChain
                                /\ new[i].item \in Outside \cup FormLinks[x]
      /\ queue[1].depth < MaxChain =>
           \A y \in FormLinks[x] \ Outside : y \in Range(submitted) \cup {x} \/ \E i \in 1..Len(new) : new[i].item = y
    <2>1. CASE depth < MaxChain
        <3>1. new = At(left, depth + 1)
            BY <2>1
        <3> HIDE DEF new
        <3>2. /\ new \in Entries(AllForms) /\ Len(new) = Len(left)
              /\ \A i \in 1..Len(left) : new[i].item = left[i] /\ new[i].depth = depth + 1
            BY <1>6, <3>1
        <3>3. \A i \in 1..Len(left) : left[i] \in FormLinks[x]
            BY <1>5, <1>7
        <3>4. \A y \in FormLinks[x] : y \in Range(submitted) \cup {x} \/ \E i \in 1..Len(left) : left[i] = y
            <4>1. \A y \in FormLinks[x] : y \in Range(submitted) \cup {x} \/ y \in Range(left)
                BY <1>5
            <4> QED
                BY <1>7, <4>1
        <3>5. \A y \in FormLinks[x] : y \in Range(submitted) \cup {x} \/ \E i \in 1..Len(new) : new[i].item = y
            BY <3>2, <3>4
        <3>6. \A i \in 1..Len(new) : /\ new[i].depth = queue[1].depth + 1 /\ queue[1].depth < MaxChain
                                     /\ new[i].item \in Outside \cup FormLinks[x]
            BY <1>2, <2>1, <3>2, <3>3
        <3> QED
            BY <3>2, <3>5, <3>6
    <2>2. CASE ~(depth < MaxChain)
        <3>1. new = <<>>
            BY <2>2
        <3>2. <<>> \in Entries(AllForms) /\ Len(<<>>) = 0 /\ \A i : i \notin 1..0
            BY DEF Entries
        <3> HIDE DEF new
        <3> QED
            BY <1>2, <2>2, <3>1, <3>2
    <2> QED
        BY <2>1, <2>2
<1> HIDE DEF new
<1>9. /\ NearPages' = NearPages /\ FormLinks' = FormLinks /\ OurPages' = OurPages /\ AllForms' = AllForms
    BY <1>1 DEF NearPages, PageLinks, FormLinks, OurPages, AllForms
<1>10. IsNear(NearForms', Range(crawl_forms), FormLinks, answered \cup {x}, MaxChain)
    <2>1. NearForms' = Within(Range(crawl_forms), FormLinks, answered \cup {x}, MaxChain)
        BY <1>1, <1>9 DEF NearForms
    <2> QED
        BY <2>1, CrawlConstants, WithinIs
<1>11. /\ queue' \in Entries(AllForms)
       /\ \E d : Frontier(queue', Range(submitted'), answered', NearForms', MaxChain, d)
    <2> DEFINE wider == NearForms'
               from == Range(crawl_forms)
               done == Range(submitted)
    <2>1. IsNear(wider, from, FormLinks, answered \cup {x}, MaxChain) /\ IsNear(NearForms, from, FormLinks, answered, MaxChain)
        BY <1>10, PagesAre
    <2>2. /\ x \notin done /\ x \notin Outside /\ \E d : Frontier(queue, done, answered, NearForms, MaxChain, d)
          /\ queue[1].depth < MaxChain =>
               \A y \in FormLinks[x] \ Outside : y \in done \cup {x} \/ \E i \in 1..Len(new) : new[i].item = y
        BY <1>2, <1>3, <1>8
    <2>3. Range(submitted') = done \cup {x}
        BY <1>1, <1>2
    <2> HIDE DEF wider, from, done
    <2>4. ReadsNext(queue, done, answered, NearForms, new, wider, from, FormLinks, MaxChain, AllForms, x)
        BY <1>2, <1>8, <2>1, <2>2 DEF ReadsNext
    <2>5. /\ Tail(queue) \o new \in Entries(AllForms)
          /\ \E d : Frontier(Tail(queue) \o new, done \cup {x}, answered \cup {x}, wider, MaxChain, d)
        BY <2>4, CrawlConstants, FrontierReads
    <2> QED
        BY <1>1, <1>2, <2>3, <2>5 DEF wider
<1>12. FormsInv'
    BY <1>1, <1>9, <1>11 DEF CrawlInv, FormsInv
<1>13. DoneInv'
    BY <1>1, <1>2, <1>9 DEF CrawlInv, DoneInv
<1> QED
    BY <1>1, <1>9, <1>12, <1>13 DEF CrawlInv, LinksInv, LinksDone, FormsDone

LEMMA TransitionsEndKept == CrawlInv /\ TransitionsEnd => CrawlInv'
<1> SUFFICES ASSUME CrawlInv, TransitionsEnd PROVE CrawlInv'
    OBVIOUS
<1>1. /\ walk = "forms" /\ ~(queue # <<>> /\ Len(submitted) < MaxForms) /\ walk' = "end"
      /\ UNCHANGED <<site, active_mode, visited, urls, crawl_forms, submitted, read, answered>>
    BY DEF TransitionsEnd, Submitting
<1>2. /\ queue \in Entries(AllForms) /\ active_mode
      /\ \E d : Frontier(queue, Range(submitted), answered, NearForms, MaxChain, d)
    BY <1>1 DEF CrawlInv, FormsInv
<1>3. BreadthFirst(Range(submitted), NearForms, MaxChain, MaxForms)
    <2>1. PICK d : Frontier(queue, Range(submitted), answered, NearForms, MaxChain, d)
        BY <1>2
    <2>2. Cardinality(Range(submitted)) = Len(submitted) /\ Len(submitted) \in Nat /\ Len(submitted) <= MaxForms
        BY DEF CrawlInv, DoneInv
    <2>3. Cardinality(Range(submitted)) \in Nat /\ Cardinality(Range(submitted)) <= MaxForms
          /\ ~(queue # <<>> /\ Cardinality(Range(submitted)) < MaxForms)
        BY <1>1, <2>2
    <2> QED
        BY <1>2, <2>1, <2>3, PagesAre, CrawlConstants, FrontierEnds
<1>4. NearPages' = NearPages /\ NearForms' = NearForms /\ OurPages' = OurPages /\ AllForms' = AllForms
    BY <1>1 DEF NearPages, NearForms, PageLinks, FormLinks, OurPages, AllForms
<1>5. FormsDone' /\ LinksInv' /\ FormsInv'
    BY <1>1, <1>2, <1>3, <1>4 DEF FormsDone, LinksInv, FormsInv
<1> QED
    BY <1>1, <1>4, <1>5 DEF CrawlInv, DoneInv, LinksDone

LEMMA CrawlInvKept == CrawlInv /\ [CrawlNext]_crawlVars => CrawlInv'
<1> SUFFICES ASSUME CrawlInv, [CrawlNext]_crawlVars PROVE CrawlInv'
    OBVIOUS
<1>1. CASE UNCHANGED crawlVars
    BY <1>1 DEF crawlVars, CrawlInv, DoneInv, LinksInv, LinksDone, FormsInv, FormsDone, NearPages, NearForms,
                PageLinks, FormLinks, OurPages, AllForms
<1> QED
    BY <1>1, SkipVisitedKept, VisitPlainKept, VisitPageKept, CrawlEndsKept, SkipFormKept, SubmitPlainKept,
       SubmitPageKept, TransitionsEndKept DEF CrawlNext

\* crawl and crawl_form_transitions: whatever the pages lead to and whichever requests
\* fail, each item is done once, nothing beyond the depth is, and a crawl that its
\* limit stops has done the nearest items first.
THEOREM CrawlNearestFirst == CrawlSpec => []CrawlIsNearestFirst
<1>1. CrawlInv => CrawlIsNearestFirst
    BY DEF CrawlInv, DoneInv, LinksDone, FormsDone, CrawlIsNearestFirst, NearPages, NearForms
<1> QED
    BY <1>1, InitCrawlInv, CrawlInvKept, PTL DEF CrawlSpec

-----------------------------------------------------------------------------
(* The comparative timing probe *)

\* The first cut samples of s are x, the others y.
Steps(s, cut, x, y) == \A i \in 1..Len(s) : s[i] = IF i <= cut THEN x ELSE y

\* The sum of such a series.
LEMMA TotalIs ==
    ASSUME NEW s \in Seq(Nat), NEW cut \in 0..Len(s), NEW x \in Nat, NEW y \in Nat, Steps(s, cut, x, y)
    PROVE  Total(s) = cut * x + (Len(s) - cut) * y
<1> DEFINE N == Len(s)
           Sum(n) == IF n <= cut THEN n * x ELSE cut * x + (n - cut) * y
           Next(v, n) == v + s[n]
           Up(f) == f = [i \in 0..N |-> IF i = 0 THEN 0 ELSE Next(f[i - 1], i)]
           f == [i \in 0..N |-> Sum(i)]
<1>1. N \in Nat /\ cut \in Nat /\ cut <= N
    OBVIOUS
<1>2. Sum(0) = 0
    BY <1>1
<1>3. ASSUME NEW i \in 1..N
      PROVE  Sum(i) = Next(Sum(i - 1), i)
    <2>1. CASE i <= cut
        <3>1. s[i] = x
            BY <2>1 DEF Steps
        <3>2. i * x = (i - 1) * x + x
            BY <1>1
        <3> QED
            BY <1>1, <2>1, <3>1, <3>2
    <2>2. CASE ~(i <= cut)
        <3>1. s[i] = y
            BY <2>2 DEF Steps
        <3>2. (i - cut) * y = ((i - 1) - cut) * y + y
            BY <1>1
        <3>3. Sum(i) = cut * x + (i - cut) * y
            BY <2>2
        <3>4. Sum(i - 1) = cut * x + ((i - 1) - cut) * y
            <4>1. CASE i - 1 = cut
                <5>1. ((i - 1) - cut) * y = 0 /\ (i - 1) * x = cut * x /\ cut * x \in Int
                    BY <1>1, <4>1
                <5> QED
                    BY <1>1, <4>1, <5>1
            <4>2. CASE i - 1 # cut
                BY <1>1, <2>2, <4>2
            <4> QED
                BY <4>1, <4>2
        <3> DEFINE p == cut * x
                   q == ((i - 1) - cut) * y
        <3>5. p \in Int /\ q \in Int
            BY <1>1
        <3>6. Sum(i) = p + (q + y) /\ Sum(i - 1) = p + q
            BY <3>2, <3>3, <3>4
        <3> HIDE DEF p, q, Sum
        <3> QED
            BY <3>1, <3>5, <3>6
    <2> QED
        BY <2>1, <2>2
<1> HIDE DEF Sum, Next
<1>4. Up(f)
    <2>1. \A i \in 0..N : f[i] = IF i = 0 THEN 0 ELSE Next(f[i - 1], i)
        <3> SUFFICES ASSUME NEW i \in 0..N
                     PROVE  f[i] = IF i = 0 THEN 0 ELSE Next(f[i - 1], i)
            OBVIOUS
        <3>1. CASE i = 0
            BY <1>2, <3>1
        <3>2. CASE i # 0
            <4>1. i \in 1..N /\ i - 1 \in 0..N
                BY <1>1, <3>2
            <4>2. f[i] = Sum(i) /\ f[i - 1] = Sum(i - 1)
                BY <4>1
            <4> QED
                BY <1>3, <3>2, <4>1, <4>2
        <3> QED
            BY <3>1, <3>2
    <2>2. f = [i \in 0..N |-> f[i]]
        OBVIOUS
    <2> HIDE DEF f
    <2> QED
        BY <2>1, <2>2
<1> DEFINE g == CHOOSE ff : Up(ff)
<1>5. Total(s) = g[N]
    BY DEF Total, Next
<1>6. Up(g)
    <2>1. \E ff : Up(ff)
        BY <1>4
    <2> HIDE DEF Up
    <2> QED
        BY <2>1
<1> HIDE DEF g
<1>7. \A i \in 0..N : g[i] = IF i = 0 THEN 0 ELSE Next(g[i - 1], i)
    BY <1>6
<1> DEFINE T == {i \in 0..N : g[i] = Sum(i)}
<1>8. 0 \in T
    <2>1. 0 \in 0..N
        BY <1>1
    <2> QED
        BY <1>2, <1>7, <2>1
<1>9. ASSUME NEW i \in 1..N, i - 1 \in T
      PROVE  i \in T
    <2>1. i \in 0..N /\ i # 0 /\ g[i - 1] = Sum(i - 1)
        BY <1>9
    <2>2. g[i] = Next(g[i - 1], i)
        BY <1>7, <2>1
    <2> QED
        BY <1>3, <2>1, <2>2
<1>10. N \in T
    <2> HIDE DEF T, N
    <2>1. \A i \in 0..N : i \in T
        BY <1>1, <1>8, <1>9, Climb
    <2>2. N \in 0..N
        BY <1>1
    <2> QED
        BY <2>1, <2>2
<1>11. Sum(N) = cut * x + (N - cut) * y
    <2>1. CASE N <= cut
        <3>1. N = cut
            BY <1>1, <2>1
        <3>2. (N - cut) * y = 0 /\ cut * x \in Int /\ N * x = cut * x
            BY <1>1, <3>1
        <3>3. Sum(N) = N * x
            BY <2>1 DEF Sum
        <3> QED
            BY <3>2, <3>3
    <2>2. CASE ~(N <= cut)
        BY <2>2 DEF Sum
    <2> QED
        BY <2>1, <2>2
<1>12. g[N] = Sum(N)
    BY <1>10
<1> QED
    BY ONLY <1>5, <1>11, <1>12

LEMMA TwoLevels ==
    ASSUME NEW cut \in Nat, NEW m \in Nat, NEW x \in Nat, NEW y \in Nat
    PROVE  (cut + m) * (cut * (x * x) + m * (y * y)) - (cut * x + m * y) * (cut * x + m * y)
             = (cut * m) * ((x - y) * (x - y))
OBVIOUS

\* The spread of such a series.
Split(s, cut, x, y) == Spread(s) = (cut * (Len(s) - cut)) * ((x - y) * (x - y))

LEMMA SpreadIs ==
    ASSUME NEW s \in Seq(Nat), NEW cut \in 0..Len(s), NEW x \in Nat, NEW y \in Nat, Steps(s, cut, x, y)
    PROVE  Split(s, cut, x, y)
<1> DEFINE q == [i \in DOMAIN s |-> s[i] * s[i]]
           m == Len(s) - cut
<1>1. Len(s) \in Nat /\ DOMAIN s = 1..Len(s) /\ \A i \in 1..Len(s) : s[i] \in Nat
    OBVIOUS
<1>2. q \in Seq(Nat) /\ Len(q) = Len(s) /\ \A i \in 1..Len(s) : q[i] = s[i] * s[i]
    <2>1. \A i \in 1..Len(s) : s[i] * s[i] \in Nat
        BY <1>1
    <2> QED
        BY <1>1, <2>1
<1>3. Steps(q, cut, x * x, y * y)
    <2> HIDE DEF q
    <2> QED
        BY <1>2 DEF Steps
<1>4. x * x \in Nat /\ y * y \in Nat /\ m \in Nat /\ cut \in Nat /\ Len(s) = cut + m
    BY <1>1
<1>5. Total(q) = cut * (x * x) + m * (y * y)
    <2> HIDE DEF q, m
    <2>1. cut \in 0..Len(q)
        BY <1>2
    <2>2. PICK xx \in Nat, yy \in Nat : xx = x * x /\ yy = y * y
        BY <1>4
    <2>3. Steps(q, cut, xx, yy)
        BY <1>3, <2>2
    <2>4. Total(q) = cut * xx + (Len(q) - cut) * yy
        BY ONLY <1>2, <2>1, <2>2, <2>3, TotalIs
    <2>5. Len(q) - cut = m
        BY <1>2 DEF m
    <2> QED
        BY <2>2, <2>4, <2>5
<1>6. Total(s) = cut * x + m * y
    BY TotalIs
<1>7. Spread(s) = Len(s) * Total(q) - Total(s) * Total(s)
    BY DEF Spread
<1> HIDE DEF q, m
<1>8. Spread(s) = (cut + m) * (cut * (x * x) + m * (y * y)) - (cut * x + m * y) * (cut * x + m * y)
    BY <1>4, <1>5, <1>6, <1>7
<1>9. Spread(s) = (cut * m) * ((x - y) * (x - y))
    BY <1>4, <1>8, TwoLevels
<1> QED
    BY <1>9 DEF m, Split

\* Its median is the level of the greater part.
LEMMA MedianOfSteps ==
    ASSUME NEW s \in Seq(Nat), Len(s) % 2 = 1, NEW cut \in 0..Len(s), NEW x \in Nat, NEW y \in Nat,
           Steps(s, cut, x, y)
    PROVE  /\ 2 * cut > Len(s) => Median(s) = x
           /\ 2 * cut < Len(s) => Median(s) = y
<1> DEFINE N == Len(s)
           mid == Median(s)
<1>1. N \in Nat /\ DOMAIN s = 1..N /\ cut \in Nat /\ cut <= N
    OBVIOUS
<1>2. /\ \E i \in 1..N : mid = s[i]
      /\ 2 * Cardinality(Below(s, mid)) < N
      /\ 2 * Cardinality(UpTo(s, mid)) > N
    BY MedianIs
<1>3. \A i \in 1..N : s[i] = IF i <= cut THEN x ELSE y
    BY DEF Steps
<1>4. mid = x \/ mid = y
    BY <1>2, <1>3
<1>5. Cardinality(1..cut) = cut /\ Cardinality((cut + 1)..N) = N - cut
    <2>1. Cardinality(1..cut) = cut
        BY <1>1, FirstNaturals
    <2>2. Cardinality((cut + 1)..N) = IF cut + 1 > N THEN 0 ELSE N - (cut + 1) + 1
        <3>1. cut + 1 \in Int /\ N \in Int
            BY <1>1
        <3> HIDE DEF N
        <3> QED
            BY <3>1, FS_Interval
    <2> QED
        BY <1>1, <2>1, <2>2
<1> HIDE DEF mid, N
<1>6. ASSUME 2 * cut > N, mid = y, x # y
      PROVE  FALSE
    <2>1. CASE x < y
        <3>1. Below(s, mid) = 1..cut
            BY <1>1, <1>3, <1>6, <2>1 DEF Below
        <3> QED
            BY <1>1, <1>2, <1>5, <1>6, <3>1
    <2>2. CASE y < x
        <3>1. UpTo(s, mid) = (cut + 1)..N
            BY <1>1, <1>3, <1>6, <2>2 DEF UpTo
        <3> QED
            BY <1>1, <1>2, <1>5, <1>6, <3>1
    <2> QED
        BY <1>6, <2>1, <2>2
<1>7. ASSUME 2 * cut < N, mid = x, x # y
      PROVE  FALSE
    <2>1. CASE x < y
        <3>1. UpTo(s, mid) = 1..cut
            BY <1>1, <1>3, <1>7, <2>1 DEF UpTo
        <3> QED
            BY <1>1, <1>2, <1>5, <1>7, <3>1
    <2>2. CASE y < x
        <3>1. Below(s, mid) = (cut + 1)..N
            BY <1>1, <1>3, <1>7, <2>2 DEF Below
        <3> QED
            BY <1>1, <1>2, <1>5, <1>7, <3>1
    <2> QED
        BY <1>7, <2>1, <2>2
<1> QED
    BY <1>4, <1>6, <1>7 DEF mid, N

-----------------------------------------------------------------------------
PadTypes ==
    /\ allowed \in [active : BOOLEAN, session : BOOLEAN]
    /\ leak \in Leaks /\ load \in Loads /\ jumps \in Nat
    /\ a_ms \in Seq(Nat) /\ b_ms \in Seq(Nat)
    /\ Len(b_ms) <= Len(a_ms) /\ Len(a_ms) <= Len(b_ms) + 1 /\ Len(a_ms) <= Rounds

\* The first n samples, of both variants in turn, were taken at load l, the
\* others at the present one.
Sampled(n, l) ==
    /\ n <= Len(a_ms) + Len(b_ms)
    /\ \A i \in 1..Len(a_ms) : a_ms[i] = IF 2 * i - 1 <= n THEN 20 + l ELSE 20 + load
    /\ \A i \in 1..Len(b_ms) : b_ms[i] = IF 2 * i <= n THEN 20 + l + leak ELSE 20 + load + leak

\* Until the load has changed twice there is one such n.
SamplesInv == jumps <= 1 => \E n \in Nat, l \in Loads : Sampled(n, l) /\ (jumps = 0 => l = load)

PadInv == PadTypes /\ SamplesInv /\ LoadIsNoise

LEMMA PadConstants ==
    /\ Rounds \in Nat /\ Rounds >= 3 /\ Rounds % 2 = 1 /\ Noise \in Nat /\ Noise >= 3
    /\ MinDelta \in Nat /\ MinDelta > 0 /\ Leaks \subseteq Nat /\ Loads \subseteq Nat
BY PaddingAssumption

LEMMA InitPadInv == PadInit => PadInv
<1> SUFFICES ASSUME PadInit
             PROVE  PadInv
    OBVIOUS
<1>1. /\ allowed \in [active : BOOLEAN, session : BOOLEAN]
      /\ leak \in Leaks /\ load \in Loads /\ jumps = 0
      /\ a_ms = <<>> /\ b_ms = <<>> /\ answer = "none"
    BY DEF PadInit
<1>2. Len(a_ms) = 0 /\ Len(b_ms) = 0 /\ a_ms \in Seq(Nat) /\ b_ms \in Seq(Nat)
    BY <1>1
<1>3. PadTypes
    BY <1>1, <1>2, PadConstants DEF PadTypes
<1>4. Sampled(0, load)
    BY <1>2, PadConstants DEF Sampled
<1>5. SamplesInv
    BY <1>1, <1>4 DEF SamplesInv
<1>6. LoadIsNoise
    BY <1>1 DEF LoadIsNoise
<1> QED
    BY <1>3, <1>5, <1>6 DEF PadInv

\* A sample is taken at the present load.
LEMMA TimeKept == PadInv /\ Time => PadInv'
<1> SUFFICES ASSUME PadInv, Time
             PROVE  PadInv'
    OBVIOUS
<1>1. /\ Sending /\ Len(b_ms) < Rounds
      /\ \/ Len(a_ms) = Len(b_ms) /\ a_ms' = Append(a_ms, 20 + load) /\ b_ms' = b_ms
         \/ Len(a_ms) # Len(b_ms) /\ b_ms' = Append(b_ms, 20 + load + leak) /\ a_ms' = a_ms
      /\ UNCHANGED <<allowed, leak, load, jumps, answer>>
    BY DEF Time, SendsA
<1>2. /\ PadTypes /\ SamplesInv /\ load \in Nat /\ leak \in Nat /\ Loads \subseteq Nat /\ Rounds \in Nat
      /\ Len(a_ms) \in Nat /\ Len(b_ms) \in Nat
    BY PadConstants DEF PadInv, PadTypes
<1>3. PadTypes'
    <2>1. CASE Len(a_ms) = Len(b_ms) /\ a_ms' = Append(a_ms, 20 + load) /\ b_ms' = b_ms
        <3>1. 20 + load \in Nat /\ a_ms \in Seq(Nat)
            BY <1>2 DEF PadTypes
        <3>2. a_ms' \in Seq(Nat) /\ Len(a_ms') = Len(a_ms) + 1
            BY <2>1, <3>1
        <3> QED
            BY <1>1, <1>2, <2>1, <3>2 DEF PadTypes
    <2>2. CASE Len(a_ms) # Len(b_ms) /\ b_ms' = Append(b_ms, 20 + load + leak) /\ a_ms' = a_ms
        <3>1. 20 + load + leak \in Nat /\ b_ms \in Seq(Nat)
            BY <1>2 DEF PadTypes
        <3>2. b_ms' \in Seq(Nat) /\ Len(b_ms') = Len(b_ms) + 1
            BY <2>2, <3>1
        <3> QED
            BY <1>1, <1>2, <2>2, <3>2 DEF PadTypes
    <2> QED
        BY <1>1, <2>1, <2>2
<1>4. ASSUME NEW n \in Nat, NEW l \in Loads, Sampled(n, l)
      PROVE  Sampled(n, l)'
    <2>1. CASE Len(a_ms) = Len(b_ms) /\ a_ms' = Append(a_ms, 20 + load) /\ b_ms' = b_ms
        <3>1. Len(a_ms') = Len(a_ms) + 1 /\ \A i \in 1..Len(a_ms') :
                a_ms'[i] = IF i = Len(a_ms) + 1 THEN 20 + load ELSE a_ms[i]
            BY <1>2, <2>1 DEF PadTypes
        <3>2. ASSUME NEW i \in 1..Len(a_ms')
              PROVE  a_ms'[i] = IF 2 * i - 1 <= n THEN 20 + l ELSE 20 + load'
            <4>1. CASE i = Len(a_ms) + 1
                BY <1>1, <1>2, <1>4, <2>1, <3>1, <4>1 DEF Sampled
            <4>2. CASE i # Len(a_ms) + 1
                <5>1. i \in 1..Len(a_ms)
                    BY <1>2, <3>1, <4>2
                <5> QED
                    BY <1>1, <1>4, <3>1, <4>2, <5>1 DEF Sampled
            <4> QED
                BY <4>1, <4>2
        <3> QED
            BY <1>1, <1>2, <1>4, <2>1, <3>1, <3>2 DEF Sampled
    <2>2. CASE Len(a_ms) # Len(b_ms) /\ b_ms' = Append(b_ms, 20 + load + leak) /\ a_ms' = a_ms
        <3>1. Len(b_ms') = Len(b_ms) + 1 /\ \A i \in 1..Len(b_ms') :
                b_ms'[i] = IF i = Len(b_ms) + 1 THEN 20 + load + leak ELSE b_ms[i]
            BY <1>2, <2>2 DEF PadTypes
        <3>2. Len(a_ms) = Len(b_ms) + 1
            BY <1>2, <2>2 DEF PadTypes
        <3>3. ASSUME NEW i \in 1..Len(b_ms')
              PROVE  b_ms'[i] = IF 2 * i <= n THEN 20 + l + leak' ELSE 20 + load' + leak'
            <4>1. CASE i = Len(b_ms) + 1
                BY <1>1, <1>2, <1>4, <3>1, <3>2, <4>1 DEF Sampled
            <4>2. CASE i # Len(b_ms) + 1
                <5>1. i \in 1..Len(b_ms)
                    BY <1>2, <3>1, <4>2
                <5> QED
                    BY <1>1, <1>4, <3>1, <4>2, <5>1 DEF Sampled
            <4> QED
                BY <4>1, <4>2
        <3> QED
            BY <1>1, <1>2, <1>4, <2>2, <3>1, <3>3 DEF Sampled
    <2> QED
        BY <1>1, <2>1, <2>2
<1>5. SamplesInv'
    <2>1. SUFFICES ASSUME jumps <= 1
                   PROVE  \E n \in Nat, l \in Loads : Sampled(n, l)' /\ (jumps = 0 => l = load)
        BY <1>1 DEF SamplesInv
    <2>2. PICK n \in Nat, l \in Loads : Sampled(n, l) /\ (jumps = 0 => l = load)
        BY <1>2, <2>1 DEF SamplesInv
    <2> QED
        BY <1>4, <2>2
<1>6. LoadIsNoise'
    BY <1>1 DEF LoadIsNoise, Sending
<1> QED
    BY <1>3, <1>5, <1>6 DEF PadInv

\* The first change of the load divides the samples taken so far from those to come.
LEMMA LoadChangesKept == PadInv /\ LoadChanges => PadInv'
<1> SUFFICES ASSUME PadInv, LoadChanges
             PROVE  PadInv'
    OBVIOUS
<1>1. /\ answer = "none" /\ load' \in Loads /\ jumps' = jumps + 1
      /\ allowed' = allowed /\ leak' = leak /\ a_ms' = a_ms /\ b_ms' = b_ms /\ answer' = answer
    BY DEF LoadChanges, Sending
<1>2. /\ PadTypes /\ SamplesInv /\ load \in Nat /\ leak \in Nat /\ Rounds \in Nat
      /\ Len(a_ms) \in Nat /\ Len(b_ms) \in Nat /\ jumps \in Nat /\ load \in Loads
    BY PadConstants DEF PadInv, PadTypes
<1>3. PadTypes'
    BY <1>1, <1>2 DEF PadTypes
<1>4. SamplesInv'
    <2>1. SUFFICES ASSUME jumps = 0
                   PROVE  \E n \in Nat, l \in Loads : Sampled(n, l)'
        BY <1>1, <1>2 DEF SamplesInv
    <2>2. PICK n \in Nat : Sampled(n, load)
        BY <1>2, <2>1 DEF SamplesInv
    <2>3. PICK all \in Nat, l \in Loads : all = Len(a_ms) + Len(b_ms) /\ l = load
        BY <1>2
    <2>4. ASSUME NEW i \in 1..Len(a_ms)
          PROVE  2 * i - 1 <= all /\ a_ms[i] = 20 + l
        <3>1. 2 * i - 1 <= all
            BY <1>2, <2>3 DEF PadTypes
        <3> QED
            BY <2>2, <2>3, <3>1 DEF Sampled
    <2>5. ASSUME NEW i \in 1..Len(b_ms)
          PROVE  2 * i <= all /\ b_ms[i] = 20 + l + leak
        <3>1. 2 * i <= all
            BY <1>2, <2>3 DEF PadTypes
        <3> QED
            BY <2>2, <2>3, <3>1 DEF Sampled
    <2>6. Sampled(all, l)'
        BY <1>1, <2>3, <2>4, <2>5 DEF Sampled
    <2> QED
        BY <2>6
<1>5. LoadIsNoise'
    BY <1>1 DEF LoadIsNoise
<1> QED
    BY <1>3, <1>4, <1>5 DEF PadInv

\* The verdict.  A change of the load divides both series at the same place, or
\* A's one sample later.  Either both medians are on one side, and equal but for
\* the leak; or the place is the middle, and a series divided there varies by
\* nearly half the difference of its levels, which the multiplier outweighs.
LEMMA MiddleTooNoisy ==
    ASSUME NEW h \in Nat, h >= 1, NEW D \in Nat, D > 0, NEW N \in Nat, N >= 3
    PROVE  (2 * h + 1) * (2 * h + 1) * D < N * N * ((h * (h + 1)) * D)
<1> DEFINE P == (h * (h + 1)) * D
<1>1. h * (h + 1) >= 2 /\ h * (h + 1) \in Nat
    <2>1. h * (h + 1) = h * h + h /\ h * h \in Nat /\ h * h >= h
        OBVIOUS
    <2> QED
        BY <2>1
<1>2. P \in Nat /\ P >= 2 * D
    <2> DEFINE e == h * (h + 1)
    <2>1. e \in Nat /\ e >= 2
        BY <1>1
    <2> HIDE DEF e
    <2>2. e * D >= 2 * D /\ e * D \in Nat
        BY <2>1
    <2> QED
        BY <2>2 DEF e
<1>3. (2 * h + 1) * (2 * h + 1) * D = 4 * P + D
    OBVIOUS
<1>4. N * N >= 9 /\ N * N \in Nat
    OBVIOUS
<1> HIDE DEF P
<1>5. N * N * P >= 9 * P
    <2> DEFINE e == N * N
    <2>1. e \in Nat /\ e >= 9
        BY <1>4
    <2> HIDE DEF e
    <2>2. e * P >= 9 * P
        BY <1>2, <2>1
    <2> QED
        BY <2>2 DEF e
<1>6. 4 * P + D < 9 * P
    BY <1>2
<1> QED
    BY <1>2, <1>3, <1>5, <1>6 DEF P

LEMMA ReportKept == PadInv /\ Report => PadInv'
<1> SUFFICES ASSUME PadInv, Report
             PROVE  PadInv'
    OBVIOUS
<1>1. /\ Len(a_ms) = Rounds /\ Len(b_ms) = Rounds
      /\ answer' = IF Distinguishable THEN "fail" ELSE "pass"
      /\ UNCHANGED <<allowed, leak, load, jumps, a_ms, b_ms>>
    BY DEF Report
<1>2. /\ PadTypes /\ SamplesInv /\ load \in Nat /\ leak \in Nat /\ Rounds \in Nat
      /\ a_ms \in Seq(Nat) /\ b_ms \in Seq(Nat)
    BY PadConstants DEF PadInv, PadTypes
<1>3. PadTypes' /\ SamplesInv'
    BY <1>1, <1>2 DEF PadTypes, SamplesInv, Sampled
<1> DEFINE h == Rounds \div 2
           delta == Median(b_ms) - Median(a_ms)
           spread == IF Spread(a_ms) < Spread(b_ms) THEN Spread(b_ms) ELSE Spread(a_ms)
<1>4. /\ h \in Nat /\ h >= 1 /\ Rounds = 2 * h + 1
      /\ Noise \in Nat /\ Noise >= 3 /\ MinDelta \in Nat /\ MinDelta > 0
    BY PadConstants
<1>5. Distinguishable <=> /\ delta * delta >= MinDelta * MinDelta
                          /\ Rounds * Rounds * delta * delta >= Noise * Noise * spread
    BY DEF Distinguishable
<1> HIDE DEF h
\* What n samples at load l make of the two series.
<1>6. ASSUME NEW n \in Nat, NEW l \in Loads, Sampled(n, l)
      PROVE  \E cut \in 0..Rounds, m \in 0..Rounds :
               /\ m <= cut /\ cut <= m + 1
               /\ Steps(a_ms, cut, 20 + l, 20 + load)
               /\ Steps(b_ms, m, 20 + l + leak, 20 + load + leak)
    <2>1. PICK m \in Nat : n = 2 * m \/ n = 2 * m + 1
        <3>1. n \div 2 \in Nat /\ (n = 2 * (n \div 2) \/ n = 2 * (n \div 2) + 1)
            OBVIOUS
        <3> QED
            BY <3>1
    <2>2. n <= 2 * Rounds
        BY <1>1, <1>6 DEF Sampled
    <2>3. CASE n = 2 * m
        <3>1. m \in 0..Rounds
            BY <1>2, <2>2, <2>3
        <3>2. \A i \in 1..Rounds : (2 * i - 1 <= n <=> i <= m) /\ (2 * i <= n <=> i <= m)
            BY <1>2, <2>3
        <3>3. Steps(a_ms, m, 20 + l, 20 + load)
            BY <1>1, <1>6, <3>2 DEF Sampled, Steps
        <3>4. Steps(b_ms, m, 20 + l + leak, 20 + load + leak)
            BY <1>1, <1>6, <3>2 DEF Sampled, Steps
        <3> QED
            BY <2>1, <3>1, <3>3, <3>4
    <2>4. CASE n = 2 * m + 1
        <3>1. m \in 0..Rounds /\ m + 1 \in 0..Rounds
            BY <1>2, <2>2, <2>4
        <3>2. \A i \in 1..Rounds : (2 * i - 1 <= n <=> i <= m + 1) /\ (2 * i <= n <=> i <= m)
            BY <1>2, <2>4
        <3>3. Steps(a_ms, m + 1, 20 + l, 20 + load)
            BY <1>1, <1>6, <3>2 DEF Sampled, Steps
        <3>4. Steps(b_ms, m, 20 + l + leak, 20 + load + leak)
            BY <1>1, <1>6, <3>2 DEF Sampled, Steps
        <3> QED
            BY <2>1, <3>1, <3>3, <3>4
    <2> QED
        BY <2>1, <2>3, <2>4
<1>7. ASSUME jumps <= 1, leak = 0, Distinguishable
      PROVE  FALSE
    <2>1. PICK n \in Nat, l \in Loads : Sampled(n, l)
        BY <1>2, <1>7 DEF SamplesInv
    <2>2. PICK x \in Nat, y \in Nat : x = 20 + l /\ y = 20 + load
        BY <1>2, PadConstants
    <2>3. PICK cut \in 0..Rounds, m \in 0..Rounds :
             m <= cut /\ cut <= m + 1 /\ Steps(a_ms, cut, x, y) /\ Steps(b_ms, m, x, y)
        <3>1. 20 + l + leak = x /\ 20 + load + leak = y
            BY <1>2, <1>7, <2>2, PadConstants
        <3> QED
            BY <1>6, <2>1, <2>2, <3>1
    <2>4. /\ 2 * cut > Rounds => Median(a_ms) = x
          /\ 2 * cut < Rounds => Median(a_ms) = y
          /\ 2 * m > Rounds => Median(b_ms) = x
          /\ 2 * m < Rounds => Median(b_ms) = y
        BY <1>1, <1>2, <2>3, PadConstants, MedianOfSteps
    <2>5. Median(a_ms) # Median(b_ms)
        <3>1. SUFFICES ASSUME Median(a_ms) = Median(b_ms) PROVE FALSE
            OBVIOUS
        <3>2. Median(a_ms) \in Nat
            BY <1>4, <2>3, <2>4
        <3>3. delta = 0
            BY <3>1, <3>2
        <3>4. 0 >= MinDelta * MinDelta
            BY <1>5, <1>7, <3>3
        <3> QED
            BY <1>4, <3>4
    <2>6. cut = h + 1 /\ m = h /\ Median(a_ms) = x /\ Median(b_ms) = y
        BY <1>2, <1>4, <2>3, <2>4, <2>5
    <2>7. /\ Spread(a_ms) = (cut * (Len(a_ms) - cut)) * ((x - y) * (x - y))
          /\ Spread(b_ms) = (m * (Len(b_ms) - m)) * ((x - y) * (x - y))
        <3>1. cut \in 0..Len(a_ms) /\ m \in 0..Len(b_ms)
            BY <1>1
        <3>2. Split(a_ms, cut, x, y) /\ Split(b_ms, m, x, y)
            BY ONLY <1>2, <2>2, <2>3, <3>1, SpreadIs
        <3> QED
            BY <3>2 DEF Split
    <2> DEFINE D == (x - y) * (x - y)
    <2>8. D \in Nat /\ D > 0 /\ delta * delta = D
        <3>1. x - y \in Int /\ x - y # 0
            BY <2>5, <2>6
        <3>2. D \in Nat /\ D > 0
            BY <3>1
        <3>3. (y - x) * (y - x) = (x - y) * (x - y)
            OBVIOUS
        <3> QED
            BY <2>6, <3>2, <3>3
    <2>9. Spread(a_ms) = (h * (h + 1)) * D
        <3>1. Len(a_ms) - cut = h
            BY <1>1, <1>4, <2>6
        <3>2. cut * (Len(a_ms) - cut) = h * (h + 1)
            BY <1>4, <2>6, <3>1
        <3> QED
            BY <2>7, <3>2
    <2>10. Spread(b_ms) = (h * (h + 1)) * D
        <3>1. Spread(b_ms) = (m * (Len(b_ms) - m)) * D
            BY <2>7
        <3>2. m * (Len(b_ms) - m) = h * (h + 1)
            <4>1. Len(b_ms) - m = h + 1
                BY <1>1, <1>4, <2>6
            <4> QED
                BY <1>4, <2>6, <4>1
        <3> QED
            BY <3>1, <3>2
    <2>11. spread = (h * (h + 1)) * D
        BY <2>9, <2>10
    <2>12. Rounds * Rounds * delta * delta = (2 * h + 1) * (2 * h + 1) * D
        <3>1. delta \in Int
            BY <2>6
        <3> DEFINE R == 2 * h + 1
        <3>2. R \in Int /\ Rounds = R
            BY <1>4
        <3> HIDE DEF delta, D, R
        <3>3. R * R * delta * delta = R * R * (delta * delta)
            BY <3>1, <3>2
        <3> QED
            BY <2>8, <3>2, <3>3 DEF R
    <2> HIDE DEF D, delta, spread
    <2>13. (2 * h + 1) * (2 * h + 1) * D < Noise * Noise * ((h * (h + 1)) * D)
        BY <1>4, <2>8, MiddleTooNoisy
    <2>14. (2 * h + 1) * (2 * h + 1) * D >= Noise * Noise * ((h * (h + 1)) * D)
        BY <1>5, <1>7, <2>11, <2>12
    <2>15. (2 * h + 1) * (2 * h + 1) * D \in Int /\ Noise * Noise * ((h * (h + 1)) * D) \in Int
        BY <1>4, <2>8
    <2> QED
        BY <2>13, <2>14, <2>15
<1>8. ASSUME jumps = 0, leak >= MinDelta
      PROVE  Distinguishable
    <2>1. PICK n \in Nat : Sampled(n, load)
        BY <1>2, <1>8 DEF SamplesInv
    <2>2. PICK x \in Nat, y \in Nat : x = 20 + load /\ y = 20 + load + leak
        BY <1>2
    <2>3. PICK cut \in 0..Rounds, m \in 0..Rounds : Steps(a_ms, cut, x, x) /\ Steps(b_ms, m, y, y)
        <3>1. load \in Loads
            BY <1>2 DEF PadTypes
        <3> QED
            BY <1>6, <2>1, <2>2, <3>1
    <2>4. Median(a_ms) = x /\ Median(b_ms) = y
        <3>1. /\ 2 * cut > Rounds => Median(a_ms) = x
              /\ 2 * cut < Rounds => Median(a_ms) = x
              /\ 2 * m > Rounds => Median(b_ms) = y
              /\ 2 * m < Rounds => Median(b_ms) = y
            BY <1>1, <1>2, <2>3, PadConstants, MedianOfSteps
        <3> QED
            BY <1>4, <2>3, <3>1
    <2>5. delta = leak
        BY <1>2, <2>2, <2>4
    <2>6. Spread(a_ms) = 0 /\ Spread(b_ms) = 0
        <3>1. /\ Spread(a_ms) = (cut * (Len(a_ms) - cut)) * ((x - x) * (x - x))
              /\ Spread(b_ms) = (m * (Len(b_ms) - m)) * ((y - y) * (y - y))
            <4>1. cut \in 0..Len(a_ms) /\ m \in 0..Len(b_ms)
                BY <1>1
            <4>2. Split(a_ms, cut, x, x) /\ Split(b_ms, m, y, y)
                BY ONLY <1>2, <2>2, <2>3, <4>1, SpreadIs
            <4> QED
                BY <4>2 DEF Split
        <3>2. (x - x) * (x - x) = 0 /\ (y - y) * (y - y) = 0
            OBVIOUS
        <3>3. cut * (Len(a_ms) - cut) \in Int /\ m * (Len(b_ms) - m) \in Int
            BY <1>1, <1>2
        <3> DEFINE e == cut * (Len(a_ms) - cut)
                   f == m * (Len(b_ms) - m)
        <3> HIDE DEF e, f
        <3>4. e * 0 = 0 /\ f * 0 = 0
            BY <3>3 DEF e, f
        <3> QED
            BY <3>1, <3>2, <3>4 DEF e, f
    <2>7. spread = 0
        BY <2>6
    <2>8. leak * leak >= MinDelta * MinDelta
        BY <1>2, <1>4, <1>8
    <2>9. Rounds * Rounds * leak * leak >= Noise * Noise * 0
        <3>1. leak * leak >= 0 /\ leak * leak \in Nat /\ Rounds * Rounds \in Nat /\ Noise * Noise \in Nat
            BY <1>2, <1>4
        <3>2. Rounds * Rounds * leak * leak = (Rounds * Rounds) * (leak * leak)
            BY <1>2
        <3>3. (Rounds * Rounds) * (leak * leak) >= 0
            <4> DEFINE e == Rounds * Rounds
                       f == leak * leak
            <4> HIDE DEF e, f
            <4>1. e \in Nat /\ f \in Nat
                BY <3>1 DEF e, f
            <4>2. e * f >= 0
                BY <4>1
            <4> QED
                BY <4>2 DEF e, f
        <3>4. Noise * Noise * 0 = 0
            BY <3>1
        <3> QED
            BY <3>2, <3>3, <3>4
    <2> HIDE DEF delta, spread
    <2> QED
        BY <1>5, <2>5, <2>7, <2>8, <2>9
<1>9. LoadIsNoise'
    <2>1. ASSUME answer' = "fail", jumps <= 1
          PROVE  leak > 0
        BY <1>1, <1>2, <1>7, <2>1
    <2>2. ASSUME answer' = "pass", jumps = 0
          PROVE  leak < MinDelta
        BY <1>1, <1>2, <1>4, <1>8, <2>2
    <2> QED
        BY <1>1, <2>1, <2>2 DEF LoadIsNoise
<1> QED
    BY <1>3, <1>9 DEF PadInv

LEMMA PadInvKept == PadInv /\ [PadNext]_padVars => PadInv'
<1> SUFFICES ASSUME PadInv, [PadNext]_padVars
             PROVE  PadInv'
    OBVIOUS
<1>1. ASSUME DeclinePadding \/ RequestRaises
      PROVE  PadInv'
    <2>1. /\ UNCHANGED <<allowed, leak, load, jumps, a_ms, b_ms>>
          /\ answer' \in {"not_configured", "skipped", "not_tested"}
        BY <1>1 DEF DeclinePadding, RequestRaises
    <2>2. PadTypes' /\ SamplesInv'
        BY <2>1 DEF PadInv, PadTypes, SamplesInv, Sampled
    <2>3. LoadIsNoise'
        BY <2>1 DEF LoadIsNoise
    <2> QED
        BY <2>2, <2>3 DEF PadInv
<1>2. CASE UNCHANGED padVars
    BY <1>2 DEF padVars, PadInv, PadTypes, SamplesInv, Sampled, LoadIsNoise
<1> QED
    BY <1>1, <1>2, TimeKept, ReportKept, LoadChangesKept DEF PadNext

\* However long a target's responses take under either load, one change of it
\* while the comparative timing probe samples makes no finding, and a leak of
\* at least the minimum is found when the load is steady.
THEOREM NoiseIsNoLeak == PadSpec => []LoadIsNoise
<1>1. PadInv => LoadIsNoise
    BY DEF PadInv
<1> QED
    BY InitPadInv, PadInvKept, <1>1, PTL DEF PadSpec
=============================================================================
