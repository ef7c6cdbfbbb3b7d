----------------------------- MODULE AuthTokens -----------------------------
(***************************************************************************)
(* Accounts, access tokens, their revocation and password-reset links:     *)
(* app/services/auth_service.py as app/api/routes/auth.py and              *)
(* app/api/routes/admin.py call it, and get_current_user (app/api/deps.py).*)
(* One action is the code between two awaits of a request, so requests     *)
(* overlap at every database call.                                         *)
(***************************************************************************)
EXTENDS Integers, FiniteSets

CONSTANTS
    Emails,
    Slots,              \* bound: requests in flight at a time
    Tokens,             \* bound: access tokens (jti) ever issued
    Links,              \* bound: reset links ever sent
    TokenLife,          \* ACCESS_TOKEN_EXPIRE_MINUTES
    LinkLife,           \* PASSWORD_RESET_TOKEN_EXPIRE_MINUTES
    MaxTime,            \* bound: the clock stops here
    DbMayFail           \* whether a database write may raise

ASSUME LifeAssumption == TokenLife \in Nat \ {0} /\ LinkLife \in Nat \ {0} /\ MaxTime \in Nat
ASSUME DbAssumption   == DbMayFail \in BOOLEAN
\* A jti is a uuid4 and a link a token_urlsafe: the history variable that holds
\* both can tell them apart.
ASSUME LinkAssumption == Tokens \cap Links = {}

VARIABLES
    clock,
    accounts,           \* users collection: email -> document, or NoDoc
    issued,             \* token -> what its claims say, or NoDoc
    revoked,            \* token_revocations: token -> expires_at, or NoDoc
    links,              \* password_resets: link -> document, or NoDoc
    rq,                 \* slot -> the request it serves
    answered            \* history: tokens and links whose logout or reset was answered 200

authVars == <<clock, accounts, issued, revoked, links, rq, answered>>

NoDoc == [none |-> TRUE]
Idle  == [pc |-> "idle"]

Accounts  == {e \in Emails : accounts[e] # NoDoc}
Unissued  == {t \in Tokens : issued[t] = NoDoc}

\* Some addresses have an account: admins (seed_admin), which an operator may
\* have deactivated in the database.
AuthInit ==
    /\ clock = 0
    /\ \E E \in SUBSET Emails, a \in BOOLEAN :
          accounts = [e \in Emails |->
              IF e \in E THEN [password |-> "first", role |-> "admin", active |-> a] ELSE NoDoc]
    /\ issued = [t \in Tokens |-> NoDoc]
    /\ revoked = [t \in Tokens |-> NoDoc]
    /\ links = [l \in Links |-> NoDoc]
    /\ rq = [s \in Slots |-> Idle]
    /\ answered = {}

-----------------------------------------------------------------------------
\* Requests.

At(s, p)    == rq[s].pc = p
Reply(s)    == rq' = [rq EXCEPT ![s] = Idle]
Goto(s, p)  == rq' = [rq EXCEPT ![s].pc = p]

\* create_access_token: a fresh jti whose exp and role are fixed now.
Issue(t, e, role) ==
    issued' = [issued EXCEPT ![t] = [user |-> e, exp |-> clock + TokenLife, role |-> role]]

\* register: find_one, then insert_one under the unique index on email.
FindFree(s, e) ==
    /\ At(s, "idle") /\ e \notin Accounts
    /\ rq' = [rq EXCEPT ![s] = [pc |-> "insert", email |-> e, password |-> "first"]]
    /\ UNCHANGED <<clock, accounts, issued, revoked, links, answered>>

\* get_or_create_google_user and get_or_create_github_user, after the code was
\* exchanged (blocking, so no other request runs meanwhile): an unknown email
\* is inserted, a known one is updated and signed in whatever is_active says.
ExchangeCode(s, e) ==
    /\ At(s, "idle")
    /\ rq' = [rq EXCEPT ![s] = [pc |-> IF e \in Accounts THEN "signin" ELSE "insert",
                                email |-> e, password |-> "none"]]
    /\ UNCHANGED <<clock, accounts, issued, revoked, links, answered>>

\* The losing one of two overlapping inserts meets the index and is answered 500.
InsertAccount(s) ==
    /\ At(s, "insert")
    /\ IF rq[s].email \in Accounts
       THEN UNCHANGED accounts /\ Reply(s)
       ELSE /\ accounts' = [accounts EXCEPT ![rq[s].email] =
                  [password |-> rq[s].password, role |-> "normal", active |-> TRUE]]
            /\ IF rq[s].password = "none" THEN Goto(s, "signin") ELSE Reply(s)
    /\ UNCHANGED <<clock, issued, revoked, links, answered>>

SignIn(s, t) ==
    /\ At(s, "signin") /\ t \in Unissued
    /\ Issue(t, rq[s].email, accounts[rq[s].email].role)
    /\ Reply(s)
    /\ UNCHANGED <<clock, accounts, revoked, links, answered>>

\* login: one read decides, and the token follows without an await.  A
\* password of None verifies against nothing.
Login(s, e, p, t) ==
    /\ At(s, "idle") /\ e \in Accounts /\ t \in Unissued
    /\ accounts[e].password = p /\ p # "none" /\ accounts[e].active
    /\ Issue(t, e, accounts[e].role)
    /\ UNCHANGED <<clock, accounts, revoked, links, rq, answered>>

-----------------------------------------------------------------------------
\* get_current_user: decode, find the revocation, find the user.

\* What the request knew when it came in: whether the token's logout had been
\* answered and was on file, and the roles its account has had since.
Present(s, t, op) ==
    /\ At(s, "idle") /\ issued[t] # NoDoc /\ clock < issued[t].exp
    /\ op \in {"refresh", "logout", "admin"}
    /\ rq' = [rq EXCEPT ![s] =
          [pc |-> "decoded", op |-> op, token |-> t, role |-> "unread",
           answered |-> t \in answered, recorded |-> revoked[t] # NoDoc,
           roles |-> {accounts[issued[t].user].role}]]
    /\ UNCHANGED <<clock, accounts, issued, revoked, links, answered>>

FindRevocation(s) ==
    /\ At(s, "decoded")
    /\ IF revoked[rq[s].token] # NoDoc THEN Reply(s) ELSE Goto(s, "checked")
    /\ UNCHANGED <<clock, accounts, issued, revoked, links, answered>>

\* Mutant: the role is taken from the token's claims.
RoleOf_claims(t) == issued[t].role

\* The role of the user document, not of the token.
RoleOf(t) == accounts[issued[t].user].role

FindUser(s) ==
    /\ At(s, "checked")
    /\ IF ~accounts[issued[rq[s].token].user].active THEN Reply(s)
       ELSE rq' = [rq EXCEPT ![s].pc = "authorized", ![s].role = RoleOf(rq[s].token)]
    /\ UNCHANGED <<clock, accounts, issued, revoked, links, answered>>

\* refresh: a new token, the presented one stays valid.
Refresh(s, t) ==
    /\ At(s, "authorized") /\ rq[s].op = "refresh" /\ t \in Unissued
    /\ Issue(t, issued[rq[s].token].user, rq[s].role)
    /\ Reply(s)
    /\ UNCHANGED <<clock, accounts, revoked, links, answered>>

\* Mutant: the revocation is kept for less than the token's life.
RevokeToken_short(s) ==
    /\ At(s, "authorized") /\ rq[s].op = "logout"
    /\ revoked' = [revoked EXCEPT ![rq[s].token] = [until |-> clock]]
    /\ answered' = answered \cup {rq[s].token}
    /\ Reply(s)
    /\ UNCHANGED <<clock, accounts, issued, links>>

\* logout: the upsert of the revocation; whatever it raises is swallowed, and
\* the answer is 200 either way.
RevokeToken(s) ==
    /\ At(s, "authorized") /\ rq[s].op = "logout"
    /\ \/ revoked' = [revoked EXCEPT ![rq[s].token] = [until |-> issued[rq[s].token].exp]]
       \/ DbMayFail /\ UNCHANGED revoked
    /\ answered' = answered \cup {rq[s].token}
    /\ Reply(s)
    /\ UNCHANGED <<clock, accounts, issued, links>>

\* update_user_role, guarded by require_role(ADMIN).
ChangeRole(s, e, role) ==
    /\ At(s, "authorized") /\ rq[s].op = "admin" /\ rq[s].role = "admin"
    /\ e \in Accounts
    /\ accounts' = [accounts EXCEPT ![e].role = role]
    /\ rq' = [q \in Slots |->
          IF q = s THEN Idle
          ELSE IF "token" \in DOMAIN rq[q] /\ issued[rq[q].token].user = e
          THEN [rq[q] EXCEPT !.roles = @ \cup {role}]
          ELSE rq[q]]
    /\ UNCHANGED <<clock, issued, revoked, links, answered>>

ForbidRole(s) ==
    /\ At(s, "authorized") /\ rq[s].op = "admin" /\ rq[s].role # "admin"
    /\ Reply(s)
    /\ UNCHANGED <<clock, accounts, issued, revoked, links, answered>>

\* The TTL index on expires_at.
ExpireRevocation(t) ==
    /\ revoked[t] # NoDoc /\ revoked[t].until <= clock
    /\ revoked' = [revoked EXCEPT ![t] = NoDoc]
    /\ UNCHANGED <<clock, accounts, issued, links, rq, answered>>

-----------------------------------------------------------------------------
\* Password reset.

\* request_password_reset: the link is on file before the mail goes out, so a
\* mail that fails leaves it there.
SendLink(e, l) ==
    /\ e \in Accounts /\ links[l] = NoDoc
    /\ links' = [links EXCEPT ![l] = [user |-> e, exp |-> clock + LinkLife, used |-> FALSE]]
    /\ UNCHANGED <<clock, accounts, issued, revoked, rq, answered>>

\* Mutant: used_at is not part of the query.
Usable_ignores_use(l) == links[l] # NoDoc /\ links[l].exp > clock

Usable(l) == links[l] # NoDoc /\ ~links[l].used /\ links[l].exp > clock

\* reset_password: find the link, write the password, mark the link as used.
FindLink(s, l, p) ==
    /\ At(s, "idle") /\ Usable(l)
    /\ rq' = [rq EXCEPT ![s] = [pc |-> "password", link |-> l, password |-> p,
                                answered |-> l \in answered]]
    /\ UNCHANGED <<clock, accounts, issued, revoked, links, answered>>

SetPassword(s) ==
    /\ At(s, "password")
    /\ \/ /\ accounts' = [accounts EXCEPT ![links[rq[s].link].user].password = rq[s].password]
          /\ Goto(s, "mark")
       \/ DbMayFail /\ UNCHANGED accounts /\ Reply(s)
    /\ UNCHANGED <<clock, issued, revoked, links, answered>>

\* A write that fails here is answered 500 although the password has changed.
MarkUsed(s) ==
    /\ At(s, "mark")
    /\ \/ /\ links' = [links EXCEPT ![rq[s].link].used = TRUE]
          /\ answered' = answered \cup {rq[s].link}
       \/ DbMayFail /\ UNCHANGED <<links, answered>>
    /\ Reply(s)
    /\ UNCHANGED <<clock, accounts, issued, revoked>>

Tick ==
    /\ clock < MaxTime
    /\ clock' = clock + 1
    /\ UNCHANGED <<accounts, issued, revoked, links, rq, answered>>

AuthNext ==
    \/ \E s \in Slots :
          \/ \E e \in Emails : FindFree(s, e) \/ ExchangeCode(s, e)
          \/ InsertAccount(s)
          \/ \E t \in Tokens : SignIn(s, t) \/ Refresh(s, t)
          \/ \E e \in Emails, p \in {"first", "second"}, t \in Tokens : Login(s, e, p, t)
          \/ \E t \in Tokens, op \in {"refresh", "logout", "admin"} : Present(s, t, op)
          \/ FindRevocation(s) \/ FindUser(s) \/ RevokeToken(s) \/ ForbidRole(s)
          \/ \E e \in Emails, role \in {"normal", "admin"} : ChangeRole(s, e, role)
          \/ \E l \in Links : FindLink(s, l, "second")
          \/ SetPassword(s) \/ MarkUsed(s)
    \/ \E e \in Emails, l \in Links : SendLink(e, l)
    \/ \E t \in Tokens : ExpireRevocation(t)
    \/ Tick

AuthSpec == AuthInit /\ [][AuthNext]_authVars

-----------------------------------------------------------------------------
\* Once a logout was answered and its revocation is on file, a request that
\* comes in later with that token is refused for as long as the token would
\* have lived (deps.py:33, auth.py:112, the TTL index of mongo_init.py:42).
LogoutSticks ==
    \A s \in Slots :
        At(s, "authorized") /\ rq[s].answered /\ rq[s].recorded
            => issued[rq[s].token].exp <= clock

\* A role that was taken away or given counts for every request that comes in
\* afterwards, however old its token is (deps.py:46, admin.py:53).
RoleIsCurrent ==
    \A s \in Slots : At(s, "authorized") => rq[s].role \in rq[s].roles

\* A link whose reset was answered changes no password any more; only resets
\* that overlap share a link (auth_service.py:251-265).
ResetOnce ==
    \A s \in Slots : At(s, "mark") => ~rq[s].answered
=============================================================================
