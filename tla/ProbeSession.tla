---------------------------- MODULE ProbeSession ----------------------------
(***************************************************************************)
(* DastSession of dast/session.py: one authenticated client that the sweep *)
(* and the concurrent requests of a probe share.  A request answered 401   *)
(* logs in again and is sent once more, an OAuth2 token near its end is    *)
(* renewed before a request, and one flag keeps the calls from doing so at *)
(* the same time.  A token is the number of the login that gave it; the    *)
(* target accepts the last one it has not expired.                         *)
(***************************************************************************)
EXTENDS Integers, FiniteSets

CONSTANTS
  Calls,          \* calls of request(), sequential or concurrent
  MaxExpiries     \* bound: how often the target expires the session

SessionModes == {"none", "bearer", "form_login", "oauth2", "api_key"}
Renewable == {"form_login", "oauth2"}

VARIABLES
  auth_mode,
  client,         \* "no" | "yes" | "failed": __aenter__
  token, issued,  \* the client's token and the number of logins so far
  accepted,       \* the target accepts tokens from this one on
  credentials,    \* the target still accepts the actor's credentials
  oauth2_due,     \* _oauth2_expiry has passed
  reauth_in_progress,
  at,             \* where each call is
  reply,          \* its answer so far: "none", "ok", "401", "raised", "cancelled"
  excused         \* history: why a call may end with 401

sessVars == <<auth_mode, client, token, issued, accepted, credentials, oauth2_due, reauth_in_progress, at, reply, excused>>
envVars == <<auth_mode, client, accepted, credentials>>

SessInit ==
  /\ auth_mode \in SessionModes
  /\ client = "no" /\ token = 0 /\ issued = 0 /\ accepted = 1 /\ credentials = TRUE
  /\ oauth2_due = FALSE /\ reauth_in_progress = FALSE
  /\ at = [c \in Calls |-> "idle"] /\ reply = [c \in Calls |-> "none"]
  /\ excused = [c \in Calls |-> FALSE]

GiveToken == issued' = issued + 1 /\ token' = issued + 1 /\ oauth2_due' = FALSE
KeepToken == UNCHANGED <<issued, token, oauth2_due>>

-----------------------------------------------------------------------------
\* __aenter__; a login may fail for any reason.
Authenticate ==
  /\ client = "no"
  /\ \/ client' = "yes" /\ GiveToken
     \/ auth_mode \in Renewable /\ client' = "failed" /\ KeepToken
  /\ UNCHANGED <<auth_mode, accepted, credentials, reauth_in_progress, at, reply, excused>>

\* request() up to its first await.
Call(c) ==
  /\ client = "yes" /\ at[c] = "idle"
  /\ IF auth_mode = "oauth2" /\ oauth2_due /\ ~reauth_in_progress
     THEN reauth_in_progress' = TRUE /\ at' = [at EXCEPT ![c] = "renewing"]
     ELSE UNCHANGED reauth_in_progress /\ at' = [at EXCEPT ![c] = "sending"]
  /\ KeepToken /\ UNCHANGED <<envVars, reply, excused>>

\* The proactive renewal; its failure is logged and the request goes out anyway.
Renew(c) ==
  /\ at[c] = "renewing"
  /\ \/ credentials /\ GiveToken
     \/ KeepToken
  /\ reauth_in_progress' = FALSE /\ at' = [at EXCEPT ![c] = "sending"]
  /\ UNCHANGED <<envVars, reply, excused>>

\* The target answers by the token the client has now.
Send(c) ==
  /\ at[c] \in {"sending", "resending"}
  /\ reply' = [reply EXCEPT ![c] = IF auth_mode = "none" \/ token >= accepted THEN "ok" ELSE "401"]
  /\ at' = [at EXCEPT ![c] = IF at[c] = "sending" THEN "answered" ELSE "done"]
  /\ KeepToken /\ UNCHANGED <<envVars, reauth_in_progress, excused>>

\* The answer reaches the caller.
React(c) ==
  /\ at[c] = "answered"
  /\ IF reply[c] = "401" /\ auth_mode \in Renewable /\ ~reauth_in_progress
     THEN reauth_in_progress' = TRUE /\ at' = [at EXCEPT ![c] = "relogin"] /\ UNCHANGED excused
     ELSE /\ at' = [at EXCEPT ![c] = "done"] /\ UNCHANGED reauth_in_progress
          /\ excused' = [excused EXCEPT ![c] = @ \/ reauth_in_progress \/ auth_mode \notin Renewable]
  /\ KeepToken /\ UNCHANGED <<envVars, reply>>

\* Mutant: the flag is cleared after the login instead of in a finally clause.
Relogin_no_finally(c) ==
  /\ at[c] = "relogin"
  /\ \/ /\ credentials /\ GiveToken /\ reauth_in_progress' = FALSE
        /\ at' = [at EXCEPT ![c] = "resending"] /\ UNCHANGED reply
     \/ /\ KeepToken /\ UNCHANGED reauth_in_progress
        /\ at' = [at EXCEPT ![c] = "done"] /\ reply' = [reply EXCEPT ![c] = "raised"]
  /\ UNCHANGED <<envVars, excused>>

\* A failing login raises out of request().
Relogin(c) ==
  /\ at[c] = "relogin"
  /\ reauth_in_progress' = FALSE
  /\ \/ /\ credentials /\ GiveToken
        /\ at' = [at EXCEPT ![c] = "resending"] /\ UNCHANGED reply
     \/ /\ KeepToken
        /\ at' = [at EXCEPT ![c] = "done"] /\ reply' = [reply EXCEPT ![c] = "raised"]
  /\ UNCHANGED <<envVars, excused>>

\* A probe's wait_for cancels the call at an await.
CancelCall(c) ==
  /\ at[c] \in {"renewing", "sending", "answered", "relogin", "resending"}
  /\ reauth_in_progress' = (reauth_in_progress /\ at[c] \notin {"renewing", "relogin"})
  /\ at' = [at EXCEPT ![c] = "done"] /\ reply' = [reply EXCEPT ![c] = "cancelled"]
  /\ KeepToken /\ UNCHANGED <<envVars, excused>>

(***************************************************************************)
(* The target and the clock.                                               *)
(***************************************************************************)
\* A call the expiry hits after its new login cannot be helped.
Expire ==
  /\ client = "yes" /\ accepted <= MaxExpiries
  /\ accepted' = issued + 1
  /\ excused' = [c \in Calls |-> excused[c] \/ at[c] = "resending"]
  /\ UNCHANGED <<auth_mode, client, credentials, reauth_in_progress, at, reply>> /\ KeepToken

Revoke ==
  /\ credentials /\ client = "yes" /\ credentials' = FALSE
  /\ UNCHANGED <<auth_mode, client, accepted, reauth_in_progress, at, reply, excused>> /\ KeepToken

Due ==
  /\ auth_mode = "oauth2" /\ client = "yes" /\ ~oauth2_due /\ oauth2_due' = TRUE
  /\ UNCHANGED <<envVars, token, issued, reauth_in_progress, at, reply, excused>>

SessNext ==
  \/ Authenticate \/ Expire \/ Revoke \/ Due
  \/ \E c \in Calls : Call(c) \/ Renew(c) \/ Send(c) \/ React(c) \/ Relogin(c) \/ CancelCall(c)

SessSpec == SessInit /\ [][SessNext]_sessVars

-----------------------------------------------------------------------------
(***************************************************************************)
(* However calls overlap, logins fail and calls are cancelled, the flag    *)
(* never outlives the one call that logs in, so that no later call is kept *)
(* from logging in; and an expired session reaches a caller as a 401 only  *)
(* when there is no login to repeat, while another call was logging in, or *)
(* when the session expired again after the login.                         *)
(***************************************************************************)
SessionHeals ==
  LET busy == {c \in Calls : at[c] \in {"renewing", "relogin"}}
  IN  /\ Cardinality(busy) <= 1 /\ (reauth_in_progress <=> busy # {})
      /\ \A c \in Calls : at[c] = "done" /\ reply[c] = "401" => excused[c]
=============================================================================
