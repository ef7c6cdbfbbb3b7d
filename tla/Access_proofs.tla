--------------------------- MODULE Access_proofs ----------------------------
(***************************************************************************)
(* What stands between a request and the services, proved for any users,   *)
(* tokens, keys, limits and life times: the overrun bound of the scan      *)
(* quota, the checks of access tokens and reset links, the windows of the  *)
(* rate limiter, and the results that concurrent requests read and write.  *)
(* The four parts share no state.                                          *)
(***************************************************************************)
EXTENDS ScanQuota, AuthTokens, RateLimit, AsvsResults, Common_proofs

-----------------------------------------------------------------------------
(* The scan quota *)

\* OverrunBound alone is not inductive: at midnight the count restarts from the
\* documents dated tomorrow, of which NoFutureScan says there are none, while
\* the requests in flight stay, and InFlightBound limits those.
QuotaInv == QuotaTypeOK /\ NoFutureScan /\ InFlightBound /\ OverrunBound

\* Subsets of the requests are finite, so their cardinalities are numbers.
LEMMA CountsAreNat ==
    ASSUME NEW u, NEW d
    PROVE  /\ IsFiniteSet(ScansOf(u, d)) /\ Cardinality(ScansOf(u, d)) \in Nat
           /\ IsFiniteSet(Admitted(u)) /\ Cardinality(Admitted(u)) \in Nat
<1>1. ScansOf(u, d) \subseteq Starts /\ Admitted(u) \subseteq Starts
    BY DEF ScansOf, Admitted
<1>2. IsFiniteSet(ScansOf(u, d)) /\ IsFiniteSet(Admitted(u))
    BY <1>1, FS_Subset, RequestAssumption
<1> QED
    BY <1>2, FS_CardinalityType

\* The same for the counts of the next state.
LEMMA CountsAreNatPrime ==
    ASSUME NEW u, NEW d
    PROVE  /\ IsFiniteSet(ScansOf(u, d)') /\ Cardinality(ScansOf(u, d)') \in Nat
           /\ IsFiniteSet(Admitted(u)') /\ Cardinality(Admitted(u)') \in Nat
<1>1. ScansOf(u, d)' \subseteq Starts /\ Admitted(u)' \subseteq Starts
    BY DEF ScansOf, Admitted
<1>2. IsFiniteSet(ScansOf(u, d)') /\ IsFiniteSet(Admitted(u)')
    BY <1>1, FS_Subset, RequestAssumption
<1> QED
    BY <1>2, FS_CardinalityType

LEMMA InitQuotaInv == QuotaInit => QuotaInv
<1> SUFFICES ASSUME QuotaInit PROVE QuotaInv
    OBVIOUS
<1>1. QuotaTypeOK /\ NoFutureScan
    BY DayAssumption DEF QuotaInit, QuotaTypeOK, NoFutureScan, NoScan
<1>3. ASSUME NEW u \in QuotaUsers PROVE Cardinality(Admitted(u)) <= MaxOpen
    <2>1. Admitted(u) = {}
        BY DEF QuotaInit, Admitted
    <2> QED
        BY <2>1, FS_EmptySet, OpenAssumption
<1>2. ASSUME NEW u \in QuotaUsers \ Admins
      PROVE  Cardinality(ScansOf(u, today)) + Cardinality(Admitted(u))
                <= Limit[u] - 1 + MaxOpen
    <2>1. ScansOf(u, today) = {} /\ Admitted(u) = {}
        BY DEF QuotaInit, ScansOf, Admitted, NoScan
    <2>2. Limit[u] \in Nat \ {0} /\ MaxOpen \in Nat \ {0}
        BY LimitAssumption, OpenAssumption
    <2> QED
        BY <2>1, <2>2, FS_EmptySet
<1> QED
    BY <1>1, <1>2, <1>3 DEF QuotaInv, InFlightBound, OverrunBound

\* A request that passes the check found fewer documents than the limit and at
\* most MaxOpen - 1 other requests in flight.
LEMMA CheckKeepsBound ==
    ASSUME QuotaInv, NEW r \in Starts, CheckQuota(r)
    PROVE  OverrunBound'
<1> SUFFICES ASSUME NEW u \in QuotaUsers \ Admins
             PROVE  Cardinality(ScansOf(u, today)') + Cardinality(Admitted(u)')
                        <= Limit[u] - 1 + MaxOpen
    BY DEF OverrunBound, CheckQuota, ScansOf
<1>1. ScansOf(u, today)' = ScansOf(u, today)
    BY DEF CheckQuota, ScansOf
<1>2. Limit[u] \in Nat /\ MaxOpen \in Nat
    BY LimitAssumption, OpenAssumption
<1>3. Cardinality(ScansOf(u, today)) \in Nat /\ Cardinality(Admitted(u)) \in Nat
      /\ IsFiniteSet(Admitted(u))
    BY CountsAreNat
<1>4. CASE Owner[r] = u /\ WithinQuota(u)
    <2>1. Admitted(u)' = Admitted(u) \cup {r} /\ r \notin Admitted(u)
        BY <1>4 DEF QuotaInv, QuotaTypeOK, CheckQuota, Admitted
    <2>2. Cardinality(Admitted(u)') = Cardinality(Admitted(u)) + 1
        BY <2>1, <1>3, FS_AddElement
    <2>3. Cardinality(ScansOf(u, today)) < Limit[u]
        BY <1>4 DEF WithinQuota
    <2>4. Cardinality(Admitted(u)) < MaxOpen
        BY <1>4 DEF CheckQuota
    <2> QED
        BY <1>1, <1>2, <1>3, <2>2, <2>3, <2>4
<1>5. CASE ~(Owner[r] = u /\ WithinQuota(u))
    <2>1. Admitted(u)' = Admitted(u)
        BY <1>5 DEF QuotaInv, QuotaTypeOK, CheckQuota, Admitted
    <2> QED
        BY <1>1, <2>1 DEF QuotaInv, OverrunBound
<1> QED
    BY <1>4, <1>5

\* A rejected request only leaves the set of requests in flight.
LEMMA RejectKeepsBound ==
    ASSUME QuotaInv, NEW r \in Starts, RejectInput(r)
    PROVE  OverrunBound'
<1> SUFFICES ASSUME NEW u \in QuotaUsers \ Admins
             PROVE  Cardinality(ScansOf(u, today)') + Cardinality(Admitted(u)')
                        <= Limit[u] - 1 + MaxOpen
    BY DEF OverrunBound, RejectInput, ScansOf
<1>1. ScansOf(u, today)' = ScansOf(u, today)
    BY DEF RejectInput, ScansOf
<1>2. Admitted(u)' \subseteq Admitted(u)
    BY DEF QuotaInv, QuotaTypeOK, RejectInput, Admitted
<1>3. /\ Cardinality(ScansOf(u, today)) \in Nat /\ Cardinality(Admitted(u)) \in Nat
      /\ IsFiniteSet(Admitted(u)) /\ Limit[u] \in Nat /\ MaxOpen \in Nat
    BY CountsAreNat, LimitAssumption, OpenAssumption
<1>4. Cardinality(Admitted(u)') <= Cardinality(Admitted(u))
      /\ Cardinality(Admitted(u)') \in Nat
    BY <1>2, <1>3, FS_Subset, CountsAreNatPrime
<1> QED
    BY <1>1, <1>3, <1>4 DEF QuotaInv, OverrunBound

\* An insert moves one request from "in flight" to today's documents.
LEMMA InsertKeepsBound ==
    ASSUME QuotaInv, NEW r \in Starts, InsertScan(r)
    PROVE  OverrunBound'
<1> SUFFICES ASSUME NEW u \in QuotaUsers \ Admins
             PROVE  Cardinality(ScansOf(u, today)') + Cardinality(Admitted(u)')
                        <= Limit[u] - 1 + MaxOpen
    BY DEF OverrunBound, InsertScan, ScansOf
<1>1. /\ Cardinality(ScansOf(u, today)) \in Nat /\ Cardinality(Admitted(u)) \in Nat
      /\ IsFiniteSet(ScansOf(u, today)) /\ IsFiniteSet(Admitted(u))
      /\ Limit[u] \in Nat /\ MaxOpen \in Nat
    BY CountsAreNat, LimitAssumption, OpenAssumption
<1>2. CASE Owner[r] # u
    <2>1. ScansOf(u, today)' = ScansOf(u, today) /\ Admitted(u)' = Admitted(u)
        BY <1>2 DEF QuotaInv, QuotaTypeOK, InsertScan, ScansOf, Admitted
    <2> QED
        BY <2>1 DEF QuotaInv, OverrunBound
<1>3. CASE Owner[r] = u
    <2>1. Admitted(u)' = Admitted(u) \ {r} /\ r \in Admitted(u)
        BY <1>3 DEF QuotaInv, QuotaTypeOK, InsertScan, Admitted
    <2>2. Cardinality(Admitted(u)') = Cardinality(Admitted(u)) - 1
        BY <2>1, <1>1, FS_RemoveElement
    <2>3. ScansOf(u, today)' = ScansOf(u, today) \cup {r}
        BY <1>3 DEF QuotaInv, QuotaTypeOK, InsertScan, ScansOf
    <2>4. /\ Cardinality(ScansOf(u, today)') <= Cardinality(ScansOf(u, today)) + 1
          /\ Cardinality(ScansOf(u, today)') \in Nat
        <3>1. CASE r \in ScansOf(u, today)
            <4>1. ScansOf(u, today)' = ScansOf(u, today)
                BY <3>1, <2>3
            <4> QED
                BY <4>1, <1>1
        <3>2. CASE r \notin ScansOf(u, today)
            <4>1. Cardinality(ScansOf(u, today) \cup {r}) = Cardinality(ScansOf(u, today)) + 1
                BY <3>2, <1>1, FS_AddElement
            <4> QED
                BY <4>1, <2>3, <1>1
        <3> QED
            BY <3>1, <3>2
    <2> QED
        BY <1>1, <2>2, <2>4 DEF QuotaInv, OverrunBound
<1> QED
    BY <1>2, <1>3

\* A delete only removes documents.
LEMMA DeleteKeepsBound ==
    ASSUME QuotaInv, NEW r \in Starts, DeleteScan(r)
    PROVE  OverrunBound'
<1> SUFFICES ASSUME NEW u \in QuotaUsers \ Admins
             PROVE  Cardinality(ScansOf(u, today)') + Cardinality(Admitted(u)')
                        <= Limit[u] - 1 + MaxOpen
    BY DEF OverrunBound, DeleteScan, ScansOf
<1>1. Admitted(u)' = Admitted(u)
    BY DEF DeleteScan, Admitted
<1>2. ScansOf(u, today)' \subseteq ScansOf(u, today)
    BY DayAssumption DEF QuotaInv, QuotaTypeOK, DeleteScan, ScansOf, NoScan
<1>3. /\ Cardinality(ScansOf(u, today)) \in Nat /\ Cardinality(Admitted(u)) \in Nat
      /\ IsFiniteSet(ScansOf(u, today)) /\ Limit[u] \in Nat /\ MaxOpen \in Nat
    BY CountsAreNat, LimitAssumption, OpenAssumption
<1>4. Cardinality(ScansOf(u, today)') <= Cardinality(ScansOf(u, today))
      /\ Cardinality(ScansOf(u, today)') \in Nat
    BY <1>2, <1>3, FS_Subset, FS_CardinalityType
<1> QED
    BY <1>1, <1>3, <1>4 DEF QuotaInv, OverrunBound

\* At midnight no document is dated today, and at most MaxOpen requests are in
\* flight; the limit is at least one.
LEMMA MidnightKeepsBound ==
    ASSUME QuotaInv, Midnight
    PROVE  OverrunBound'
<1> SUFFICES ASSUME NEW u \in QuotaUsers \ Admins
             PROVE  Cardinality(ScansOf(u, today)') + Cardinality(Admitted(u)')
                        <= Limit[u] - 1 + MaxOpen
    BY DEF OverrunBound, Midnight, ScansOf
<1>1. ScansOf(u, today)' = {}
    BY DayAssumption DEF QuotaInv, QuotaTypeOK, NoFutureScan, Midnight, ScansOf, NoScan
<1>2. Admitted(u)' = Admitted(u)
    BY DEF Midnight, Admitted
<1>3. Cardinality(Admitted(u)) \in Nat /\ Limit[u] \in Nat \ {0} /\ MaxOpen \in Nat
    BY CountsAreNat, LimitAssumption, OpenAssumption
<1>4. Cardinality(Admitted(u)) <= MaxOpen
    BY DEF QuotaInv, InFlightBound
<1> QED
    BY <1>1, <1>2, <1>3, <1>4, FS_EmptySet

\* Only CheckQuota adds a request in flight, and it checks the bound first.
LEMMA InFlightInvariant ==
    ASSUME QuotaInv, [QuotaNext]_quotaVars
    PROVE  InFlightBound'
<1> SUFFICES ASSUME NEW u \in QuotaUsers
             PROVE  Cardinality(Admitted(u)') <= MaxOpen
    BY DEF InFlightBound
<1>1. /\ IsFiniteSet(Admitted(u)) /\ Cardinality(Admitted(u)) \in Nat
      /\ Cardinality(Admitted(u)') \in Nat
      /\ MaxOpen \in Nat /\ Cardinality(Admitted(u)) <= MaxOpen
    BY CountsAreNat, CountsAreNatPrime, OpenAssumption DEF QuotaInv, InFlightBound
<1>2. CASE \E r \in Starts : CheckQuota(r) /\ Owner[r] = u
    <2> PICK r \in Starts : CheckQuota(r) /\ Owner[r] = u
        BY <1>2
    <2>1. Admitted(u)' \subseteq Admitted(u) \cup {r} /\ r \notin Admitted(u)
        BY DEF QuotaInv, QuotaTypeOK, CheckQuota, Admitted
    <2>2. /\ IsFiniteSet(Admitted(u) \cup {r})
          /\ Cardinality(Admitted(u) \cup {r}) = Cardinality(Admitted(u)) + 1
        BY <2>1, <1>1, FS_AddElement
    <2>3. Cardinality(Admitted(u)') <= Cardinality(Admitted(u)) + 1
        BY <2>1, <2>2, FS_Subset
    <2> QED
        BY <1>1, <2>3 DEF CheckQuota
<1>3. CASE ~ \E r \in Starts : CheckQuota(r) /\ Owner[r] = u
    <2>1. Admitted(u)' \subseteq Admitted(u)
        BY <1>3 DEF QuotaInv, QuotaTypeOK, QuotaNext, quotaVars, CheckQuota, RejectInput, InsertScan,
                    DeleteScan, Midnight, Admitted
    <2> QED
        BY <1>1, <2>1, FS_Subset
<1> QED
    BY <1>2, <1>3

\* Types, and the fact that created_at is never in the future.
LEMMA TypesInvariant ==
    ASSUME QuotaInv, [QuotaNext]_quotaVars
    PROVE  QuotaTypeOK' /\ NoFutureScan'
<1> USE DayAssumption DEF QuotaInv, QuotaTypeOK, NoFutureScan, NoScan
<1>1. ASSUME NEW r \in Starts, CheckQuota(r) PROVE QuotaTypeOK' /\ NoFutureScan'
    BY <1>1 DEF CheckQuota
<1>2. ASSUME NEW r \in Starts, RejectInput(r) PROVE QuotaTypeOK' /\ NoFutureScan'
    BY <1>2 DEF RejectInput
<1>3. ASSUME NEW r \in Starts, InsertScan(r) PROVE QuotaTypeOK' /\ NoFutureScan'
    BY <1>3 DEF InsertScan
<1>4. ASSUME NEW r \in Starts, DeleteScan(r) PROVE QuotaTypeOK' /\ NoFutureScan'
    BY <1>4 DEF DeleteScan
<1>5. CASE Midnight
    BY <1>5 DEF Midnight
<1>6. CASE UNCHANGED quotaVars
    BY <1>6 DEF quotaVars
<1> QED
    BY <1>1, <1>2, <1>3, <1>4, <1>5, <1>6 DEF QuotaNext

\* Stuttering keeps the counts.
LEMMA StutterKeepsBound ==
    ASSUME QuotaInv, UNCHANGED quotaVars
    PROVE  OverrunBound'
BY DEF QuotaInv, OverrunBound, quotaVars, ScansOf, Admitted

\* Check-then-insert never lets a limited user hold more scans of today, plus
\* requests past the check, than the limit plus the requests in flight beyond
\* the first: check_scan_quota's real guarantee, for all constants.
THEOREM QuotaOverrun == QuotaSpec => []OverrunBound
<1>1. QuotaInit => QuotaInv
    BY InitQuotaInv
<1>2. QuotaInv /\ [QuotaNext]_quotaVars => QuotaInv'
    <2> SUFFICES ASSUME QuotaInv, [QuotaNext]_quotaVars PROVE QuotaInv'
        OBVIOUS
    <2>1. OverrunBound'
        BY CheckKeepsBound, RejectKeepsBound, InsertKeepsBound, DeleteKeepsBound,
           MidnightKeepsBound, StutterKeepsBound DEF QuotaNext
    <2> QED
        BY <2>1, TypesInvariant, InFlightInvariant DEF QuotaInv
<1>3. QuotaInv => OverrunBound
    BY DEF QuotaInv
<1> QED
    BY <1>1, <1>2, <1>3, PTL DEF QuotaSpec

-----------------------------------------------------------------------------
(* Tokens, roles and reset links *)

Roles == {"normal", "admin"}
Ops   == {"refresh", "logout", "admin"}

\* The documents of the collections, and the requests by the stage they are in.
AccountDoc    == [password : {"first", "second", "none"}, role : Roles, active : BOOLEAN]
TokenDoc      == [user : Emails, exp : Nat, role : Roles]
RevocationDoc == [until : Nat]
LinkDoc       == [user : Emails, exp : Nat, used : BOOLEAN]
AccountReq    == [pc : {"insert", "signin"}, email : Emails, password : {"first", "none"}]
TokenReq      == [pc : {"decoded", "checked", "authorized"}, op : Ops, token : Tokens,
                  role : Roles \cup {"unread"}, answered : BOOLEAN, recorded : BOOLEAN,
                  roles : SUBSET Roles]
LinkReq       == [pc : {"password", "mark"}, link : Links, password : {"second"},
                  answered : BOOLEAN]

AuthTypes ==
    /\ clock \in Nat
    /\ accounts \in [Emails -> AccountDoc \cup {NoDoc}]
    /\ issued \in [Tokens -> TokenDoc \cup {NoDoc}]
    /\ revoked \in [Tokens -> RevocationDoc \cup {NoDoc}]
    /\ links \in [Links -> LinkDoc \cup {NoDoc}]
    /\ rq \in [Slots -> {Idle} \cup AccountReq \cup TokenReq \cup LinkReq]

Expired(t)  == issued[t].exp <= clock
Holder(t)   == issued[t].user

\* What the collections say of each other: a token and a link belong to an
\* account, a revocation lasts as long as its token, and a link whose reset was
\* answered is marked as used.
StoreOK ==
    /\ \A t \in Tokens : issued[t] # NoDoc => accounts[Holder(t)] # NoDoc
    /\ \A t \in Tokens : revoked[t] # NoDoc =>
          issued[t] # NoDoc /\ revoked[t].until = issued[t].exp
    /\ \A l \in Links : links[l] # NoDoc => accounts[links[l].user] # NoDoc
    /\ \A l \in Links : l \in answered => links[l] # NoDoc /\ links[l].used

\* What request s may still rely on.  Until its revocation lookup a request whose
\* token was revoked when it came in will find the revocation, or the token has
\* expired; until its user lookup it will find a role its account has had since.
RequestOK(s) ==
    /\ At(s, "signin") => accounts[rq[s].email] # NoDoc
    /\ rq[s] \in TokenReq =>
          /\ issued[rq[s].token] # NoDoc
          /\ At(s, "decoded") /\ rq[s].recorded =>
                revoked[rq[s].token] # NoDoc \/ Expired(rq[s].token)
          /\ ~At(s, "decoded") /\ rq[s].recorded => Expired(rq[s].token)
          /\ ~At(s, "authorized") => accounts[Holder(rq[s].token)].role \in rq[s].roles
          /\ At(s, "authorized") => rq[s].role \in rq[s].roles
    /\ rq[s] \in LinkReq => links[rq[s].link] # NoDoc /\ ~rq[s].answered

AuthInv == AuthTypes /\ StoreOK /\ \A s \in Slots : RequestOK(s)

-----------------------------------------------------------------------------
(* Facts about documents and requests *)

LEMMA DocsAreNotNoDoc ==
    /\ NoDoc \notin AccountDoc /\ NoDoc \notin TokenDoc
    /\ NoDoc \notin RevocationDoc /\ NoDoc \notin LinkDoc
<1>1. DOMAIN NoDoc = {"none"}
    BY DEF NoDoc
<1>2. \A d \in AccountDoc : DOMAIN d = {"password", "role", "active"}
    BY DEF AccountDoc
<1>3. \A d \in TokenDoc : DOMAIN d = {"user", "exp", "role"}
    BY DEF TokenDoc
<1>4. \A d \in RevocationDoc : DOMAIN d = {"until"}
    BY DEF RevocationDoc
<1>5. \A d \in LinkDoc : DOMAIN d = {"user", "exp", "used"}
    BY DEF LinkDoc
<1>6. /\ {"none"} # {"password", "role", "active"} /\ {"none"} # {"user", "exp", "role"}
      /\ {"none"} # {"until"} /\ {"none"} # {"user", "exp", "used"}
    OBVIOUS
<1> QED
    BY <1>1, <1>2, <1>3, <1>4, <1>5, <1>6

\* The stage tells the kinds of requests apart.
LEMMA RequestKinds ==
    ASSUME AuthTypes, NEW s \in Slots
    PROVE  /\ rq[s] \in {Idle} \cup AccountReq \cup TokenReq \cup LinkReq
           /\ At(s, "insert") \/ At(s, "signin") <=> rq[s] \in AccountReq
           /\ At(s, "decoded") \/ At(s, "checked") \/ At(s, "authorized")
                 <=> rq[s] \in TokenReq
           /\ At(s, "password") \/ At(s, "mark") <=> rq[s] \in LinkReq
<1>1. rq[s] \in {Idle} \cup AccountReq \cup TokenReq \cup LinkReq
    BY DEF AuthTypes
<1>2. Idle.pc = "idle"
    BY DEF Idle
<1>3. /\ rq[s] \in AccountReq => rq[s].pc \in {"insert", "signin"}
      /\ rq[s] \in TokenReq => rq[s].pc \in {"decoded", "checked", "authorized"}
      /\ rq[s] \in LinkReq => rq[s].pc \in {"password", "mark"}
      /\ rq[s] = Idle => rq[s].pc = "idle"
    BY <1>2 DEF AccountReq, TokenReq, LinkReq
<1> QED
    BY <1>1, <1>3 DEF At

\* An answered request asks for nothing.
LEMMA IdleOK ==
    /\ Idle.pc = "idle"
    /\ Idle \notin AccountReq /\ Idle \notin TokenReq /\ Idle \notin LinkReq
<1>1. Idle.pc = "idle"
    BY DEF Idle
<1> QED
    BY <1>1 DEF AccountReq, TokenReq, LinkReq

-----------------------------------------------------------------------------
(* What no step undoes *)

\* Accounts and links stay, tokens stay as they are, what has expired stays
\* expired, and a revocation goes only when its token has expired.
Keeps ==
    /\ \A e \in Emails : accounts[e] # NoDoc => accounts'[e] # NoDoc
    /\ \A t \in Tokens : issued[t] # NoDoc => issued'[t] = issued[t]
    /\ \A l \in Links : links[l] # NoDoc => links'[l] # NoDoc
    /\ \A t \in Tokens : issued[t] # NoDoc /\ Expired(t) => Expired(t)'
    /\ \A t \in Tokens : issued[t] # NoDoc /\ revoked[t] # NoDoc
                            => revoked'[t] # NoDoc \/ Expired(t)'

SameRoles == \A e \in Emails : accounts[e] # NoDoc => accounts'[e].role = accounts[e].role

\* A request that does not move keeps what it relies on.
LEMMA WaitingKept ==
    ASSUME AuthInv, Keeps, NEW q \in Slots, rq'[q] = rq[q],
           rq[q] \in TokenReq =>
              accounts'[Holder(rq[q].token)].role = accounts[Holder(rq[q].token)].role
    PROVE  RequestOK(q)'
<1>1. AuthTypes /\ RequestOK(q)
    BY DEF AuthInv
<1>2. /\ rq[q] \in AccountReq => rq[q].email \in Emails
      /\ rq[q] \in TokenReq => rq[q].token \in Tokens
      /\ rq[q] \in LinkReq => rq[q].link \in Links
    BY DEF AccountReq, TokenReq, LinkReq
<1>3. At(q, "signin") => rq[q] \in AccountReq
    BY <1>1, RequestKinds
<1>4. \A p : At(q, p)' <=> At(q, p)
    BY DEF At
<1>5. At(q, "signin")' => accounts'[rq'[q].email] # NoDoc
    BY <1>1, <1>2, <1>3, <1>4 DEF RequestOK, Keeps
<1>6. rq'[q] \in LinkReq => links'[rq'[q].link] # NoDoc /\ ~rq'[q].answered
    BY <1>1, <1>2 DEF RequestOK, Keeps
<1>7. ASSUME rq[q] \in TokenReq
      PROVE  /\ issued'[rq[q].token] # NoDoc
             /\ At(q, "decoded") /\ rq[q].recorded =>
                   revoked'[rq[q].token] # NoDoc \/ Expired(rq[q].token)'
             /\ ~At(q, "decoded") /\ rq[q].recorded => Expired(rq[q].token)'
             /\ ~At(q, "authorized") => accounts'[Holder(rq[q].token)'].role \in rq[q].roles
             /\ At(q, "authorized") => rq[q].role \in rq[q].roles
    <2>1. issued[rq[q].token] # NoDoc /\ issued'[rq[q].token] = issued[rq[q].token]
        BY <1>1, <1>2, <1>7 DEF RequestOK, Keeps
    <2>2. Holder(rq[q].token)' = Holder(rq[q].token)
        BY <2>1 DEF Holder
    <2>3. /\ At(q, "decoded") /\ rq[q].recorded =>
                   revoked'[rq[q].token] # NoDoc \/ Expired(rq[q].token)'
          /\ ~At(q, "decoded") /\ rq[q].recorded => Expired(rq[q].token)'
        BY <1>1, <1>2, <1>7, <2>1 DEF RequestOK, Keeps
    <2>4. /\ ~At(q, "authorized") => accounts'[Holder(rq[q].token)'].role \in rq[q].roles
          /\ At(q, "authorized") => rq[q].role \in rq[q].roles
        BY <1>1, <1>7, <2>2 DEF RequestOK
    <2> QED
        BY <2>1, <2>3, <2>4
<1>8. rq'[q] \in TokenReq =>
          /\ issued'[rq'[q].token] # NoDoc
          /\ At(q, "decoded")' /\ rq'[q].recorded =>
                revoked'[rq'[q].token] # NoDoc \/ Expired(rq[q].token)'
          /\ ~At(q, "decoded")' /\ rq'[q].recorded => Expired(rq[q].token)'
          /\ ~At(q, "authorized")' => accounts'[Holder(rq[q].token)'].role \in rq'[q].roles
          /\ At(q, "authorized")' => rq'[q].role \in rq'[q].roles
    BY <1>4, <1>7
<1>9. rq'[q].token = rq[q].token
    OBVIOUS
<1> QED
    BY <1>5, <1>6, <1>8, <1>9 DEF RequestOK, Expired, Holder

\* A request that is answered, or that only learns something, leaves the
\* collections alone; the others wait.
LEMMA RequestTurns ==
    ASSUME AuthInv, NEW s \in Slots, NEW r \in {Idle} \cup AccountReq \cup TokenReq \cup LinkReq,
           rq' = [rq EXCEPT ![s] = r], AuthTypes', StoreOK', Keeps, SameRoles, RequestOK(s)'
    PROVE  AuthInv'
<1>1. AuthTypes /\ StoreOK
    BY DEF AuthInv
<1>2. ASSUME NEW q \in Slots, q # s PROVE RequestOK(q)'
    <2>1. rq'[q] = rq[q]
        BY <1>1, <1>2 DEF AuthTypes
    <2>2. ASSUME rq[q] \in TokenReq
          PROVE  accounts'[Holder(rq[q].token)].role = accounts[Holder(rq[q].token)].role
        <3>1. rq[q].token \in Tokens
            BY <2>2 DEF TokenReq
        <3>2. issued[rq[q].token] # NoDoc
            BY <2>2 DEF AuthInv, RequestOK
        <3>3. accounts[Holder(rq[q].token)] # NoDoc
            BY <1>1, <3>1, <3>2 DEF StoreOK
        <3>4. Holder(rq[q].token) \in Emails
            BY <1>1, <3>1, <3>2 DEF AuthTypes, TokenDoc, Holder
        <3> QED
            BY <3>3, <3>4 DEF SameRoles
    <2> QED
        BY <2>1, <2>2, WaitingKept
<1> QED
    BY <1>2 DEF AuthInv

\* Nobody moves, the collections may.
LEMMA AllWait ==
    ASSUME AuthInv, UNCHANGED rq, AuthTypes', StoreOK', Keeps, SameRoles
    PROVE  AuthInv'
<1>1. AuthTypes /\ StoreOK
    BY DEF AuthInv
<1>2. ASSUME NEW q \in Slots PROVE RequestOK(q)'
    <2>1. ASSUME rq[q] \in TokenReq
          PROVE  accounts'[Holder(rq[q].token)].role = accounts[Holder(rq[q].token)].role
        <3>1. rq[q].token \in Tokens
            BY <2>1 DEF TokenReq
        <3>2. issued[rq[q].token] # NoDoc
            BY <2>1 DEF AuthInv, RequestOK
        <3>3. accounts[Holder(rq[q].token)] # NoDoc
            BY <1>1, <3>1, <3>2 DEF StoreOK
        <3>4. Holder(rq[q].token) \in Emails
            BY <1>1, <3>1, <3>2 DEF AuthTypes, TokenDoc, Holder
        <3> QED
            BY <3>3, <3>4 DEF SameRoles
    <2> QED
        BY <2>1, WaitingKept
<1> QED
    BY <1>2 DEF AuthInv

-----------------------------------------------------------------------------
(* What the actions do to the collections *)

LEMMA StoreUntouched ==
    ASSUME AuthInv, UNCHANGED <<clock, accounts, issued, revoked, links, answered>>
    PROVE  StoreOK' /\ Keeps /\ SameRoles
<1>1. \A t \in Tokens : Expired(t)' = Expired(t) /\ Holder(t)' = Holder(t)
    BY DEF Expired, Holder
<1> QED
    BY <1>1 DEF AuthInv, StoreOK, Keeps, SameRoles

\* A new token for an existing account.
LEMMA IssueStore ==
    ASSUME AuthInv, NEW t \in Unissued, NEW e \in Accounts, NEW role \in Roles,
           Issue(t, e, role), UNCHANGED <<clock, accounts, revoked, links, answered>>
    PROVE  /\ StoreOK' /\ Keeps /\ SameRoles
           /\ issued' \in [Tokens -> TokenDoc \cup {NoDoc}]
<1>1. AuthTypes /\ StoreOK /\ t \in Tokens /\ issued[t] = NoDoc
    BY DEF AuthInv, Unissued
<1>2. e \in Emails /\ accounts[e] # NoDoc
    BY DEF Accounts
<1>3. [user |-> e, exp |-> clock + TokenLife, role |-> role] \in TokenDoc
    BY <1>1, <1>2, LifeAssumption DEF TokenDoc, AuthTypes
<1>4. /\ issued'[t].user = e /\ issued'[t] \in TokenDoc
      /\ \A u \in Tokens \ {t} : issued'[u] = issued[u]
      /\ issued' \in [Tokens -> TokenDoc \cup {NoDoc}]
    BY <1>1, <1>3 DEF Issue, AuthTypes
<1>5. \A u \in Tokens \ {t} : Expired(u)' = Expired(u) /\ Holder(u)' = Holder(u)
    BY <1>4 DEF Expired, Holder
<1>6. Holder(t)' = e
    BY <1>4 DEF Holder
<1>7. Keeps /\ SameRoles
    BY <1>1, <1>4, <1>5 DEF Keeps, SameRoles
<1>8. \A u \in Tokens : issued'[u] # NoDoc => accounts'[Holder(u)'] # NoDoc
    BY <1>1, <1>2, <1>4, <1>5, <1>6 DEF StoreOK
<1>9. \A u \in Tokens : revoked'[u] # NoDoc =>
          issued'[u] # NoDoc /\ revoked'[u].until = issued'[u].exp
    BY <1>1, <1>4 DEF StoreOK
<1>10. /\ \A l \in Links : links'[l] # NoDoc => accounts'[links'[l].user] # NoDoc
       /\ \A l \in Links : l \in answered' => links'[l] # NoDoc /\ links'[l].used
    BY <1>1 DEF StoreOK
<1> QED
    BY <1>4, <1>7, <1>8, <1>9, <1>10 DEF StoreOK

\* An account appears or is edited; none goes.
LEMMA AccountStore ==
    ASSUME AuthInv, NEW e \in Emails, NEW d \in AccountDoc,
           accounts' = [accounts EXCEPT ![e] = d],
           UNCHANGED <<clock, issued, revoked, links, answered>>
    PROVE  /\ StoreOK' /\ Keeps
           /\ accounts' \in [Emails -> AccountDoc \cup {NoDoc}]
           /\ accounts'[e] = d /\ \A f \in Emails \ {e} : accounts'[f] = accounts[f]
           /\ accounts'[e] # NoDoc
<1>1. AuthTypes /\ StoreOK
    BY DEF AuthInv
<1>2. /\ accounts'[e] = d /\ \A f \in Emails \ {e} : accounts'[f] = accounts[f]
      /\ accounts' \in [Emails -> AccountDoc \cup {NoDoc}]
      /\ accounts'[e] # NoDoc
    BY <1>1, DocsAreNotNoDoc DEF AuthTypes
<1>3. \A t \in Tokens : Expired(t)' = Expired(t) /\ Holder(t)' = Holder(t)
    BY DEF Expired, Holder
<1>4. \A f \in Emails : accounts[f] # NoDoc => accounts'[f] # NoDoc
    BY <1>2
<1>5. /\ \A t \in Tokens : issued[t] # NoDoc => Holder(t) \in Emails
      /\ \A l \in Links : links[l] # NoDoc => links[l].user \in Emails
    BY <1>1 DEF AuthTypes, Holder, TokenDoc, LinkDoc
<1>6. Keeps
    BY <1>3, <1>4 DEF Keeps
<1>7. \A t \in Tokens : issued'[t] # NoDoc => accounts'[Holder(t)'] # NoDoc
    BY <1>1, <1>3, <1>4, <1>5 DEF StoreOK
<1>8. \A t \in Tokens : revoked'[t] # NoDoc =>
          issued'[t] # NoDoc /\ revoked'[t].until = issued'[t].exp
    BY <1>1 DEF StoreOK
<1>9. /\ \A l \in Links : links'[l] # NoDoc => accounts'[links'[l].user] # NoDoc
      /\ \A l \in Links : l \in answered' => links'[l] # NoDoc /\ links'[l].used
    BY <1>1, <1>4, <1>5 DEF StoreOK
<1> QED
    BY <1>2, <1>6, <1>7, <1>8, <1>9 DEF StoreOK

\* The token of a logout enters the revocations for as long as it lives, or the
\* write is lost; it counts as answered either way.
LEMMA RevokeStore ==
    ASSUME AuthInv, NEW t \in Tokens, issued[t] # NoDoc,
           \/ revoked' = [revoked EXCEPT ![t] = [until |-> issued[t].exp]]
           \/ UNCHANGED revoked,
           answered' = answered \cup {t}, UNCHANGED <<clock, accounts, issued, links>>
    PROVE  /\ StoreOK' /\ Keeps /\ SameRoles
           /\ revoked' \in [Tokens -> RevocationDoc \cup {NoDoc}]
<1>1. AuthTypes /\ StoreOK
    BY DEF AuthInv
<1>2. issued[t] \in TokenDoc
    BY <1>1 DEF AuthTypes
<1>3. [until |-> issued[t].exp] \in RevocationDoc /\ [until |-> issued[t].exp].until = issued[t].exp
    BY <1>2 DEF RevocationDoc, TokenDoc
<1>4. /\ revoked' \in [Tokens -> RevocationDoc \cup {NoDoc}]
      /\ \A u \in Tokens : revoked[u] # NoDoc => revoked'[u] # NoDoc
      /\ \A u \in Tokens : revoked'[u] # NoDoc =>
            issued[u] # NoDoc /\ revoked'[u].until = issued[u].exp
    <2>1. CASE revoked' = [revoked EXCEPT ![t] = [until |-> issued[t].exp]]
        <3>1. /\ revoked'[t] = [until |-> issued[t].exp]
              /\ \A u \in Tokens \ {t} : revoked'[u] = revoked[u]
              /\ revoked' \in [Tokens -> RevocationDoc \cup {NoDoc}]
            BY <1>1, <1>3, <2>1 DEF AuthTypes
        <3>2. revoked'[t] # NoDoc
            BY <1>3, <3>1, DocsAreNotNoDoc
        <3> QED
            BY <1>1, <1>3, <3>1, <3>2 DEF StoreOK
    <2>2. CASE UNCHANGED revoked
        BY <1>1, <2>2 DEF StoreOK, AuthTypes
    <2> QED
        BY <2>1, <2>2
<1>5. \A u \in Tokens : Expired(u)' = Expired(u) /\ Holder(u)' = Holder(u)
    BY DEF Expired, Holder
<1>6. Keeps /\ SameRoles
    BY <1>4, <1>5 DEF Keeps, SameRoles
<1>7. \A u \in Tokens : issued'[u] # NoDoc => accounts'[Holder(u)'] # NoDoc
    BY <1>1, <1>5 DEF StoreOK
<1>8. \A l \in Links : l \in answered' => l \in answered
    BY LinkAssumption
<1>9. /\ \A l \in Links : links'[l] # NoDoc => accounts'[links'[l].user] # NoDoc
      /\ \A l \in Links : l \in answered' => links'[l] # NoDoc /\ links'[l].used
    BY <1>1, <1>8 DEF StoreOK
<1> QED
    BY <1>4, <1>6, <1>7, <1>9 DEF StoreOK

-----------------------------------------------------------------------------
(* The actions *)

LEMMA FindFreeKeeps ==
    ASSUME AuthInv, NEW s \in Slots, NEW e \in Emails, FindFree(s, e) \/ ExchangeCode(s, e)
    PROVE  AuthInv'
<1>1. PICK r \in AccountReq :
         /\ rq' = [rq EXCEPT ![s] = r] /\ r.email = e
         /\ r.pc = "signin" => e \in Accounts
    <2>1. CASE FindFree(s, e)
        <3> DEFINE r == [pc |-> "insert", email |-> e, password |-> "first"]
        <3>1. r \in AccountReq /\ r.pc = "insert" /\ r.email = e
            BY DEF AccountReq
        <3> QED
            BY <2>1, <3>1 DEF FindFree
    <2>2. CASE ExchangeCode(s, e)
        <3> DEFINE r == [pc |-> IF e \in Accounts THEN "signin" ELSE "insert",
                         email |-> e, password |-> "none"]
        <3>1. r \in AccountReq /\ r.email = e /\ (r.pc = "signin" => e \in Accounts)
            BY DEF AccountReq
        <3> QED
            BY <2>2, <3>1 DEF ExchangeCode
    <2> QED
        BY <2>1, <2>2
<1>2. UNCHANGED <<clock, accounts, issued, revoked, links, answered>>
    BY DEF FindFree, ExchangeCode
<1>3. AuthTypes /\ rq'[s] = r
    BY <1>1 DEF AuthInv, AuthTypes
<1>4. AuthTypes'
    BY <1>1, <1>2, <1>3 DEF AuthTypes
<1>5. rq'[s] \notin TokenReq /\ rq'[s] \notin LinkReq
    BY <1>3 DEF AccountReq, TokenReq, LinkReq
<1>6. RequestOK(s)'
    BY <1>1, <1>2, <1>3, <1>5 DEF RequestOK, At, Accounts
<1>7. StoreOK' /\ Keeps /\ SameRoles
    BY <1>2, StoreUntouched
<1> QED
    BY <1>1, <1>4, <1>6, <1>7, RequestTurns

\* An answer without a change to the collections.
LEMMA ReplyKeeps ==
    ASSUME AuthInv, NEW s \in Slots, Reply(s),
           AuthTypes', StoreOK', Keeps, SameRoles
    PROVE  AuthInv'
<1>1. rq'[s] = Idle /\ rq' = [rq EXCEPT ![s] = Idle]
    BY DEF Reply, AuthInv, AuthTypes
<1>2. RequestOK(s)'
    BY <1>1, IdleOK DEF RequestOK, At
<1> QED
    BY <1>1, <1>2, RequestTurns

LEMMA TypesWithRequest ==
    ASSUME AuthTypes, NEW s \in Slots, NEW r \in {Idle} \cup AccountReq \cup TokenReq \cup LinkReq,
           rq' = [rq EXCEPT ![s] = r]
    PROVE  /\ rq' \in [Slots -> {Idle} \cup AccountReq \cup TokenReq \cup LinkReq]
           /\ rq'[s] = r
BY DEF AuthTypes

LEMMA InsertAccountKeeps ==
    ASSUME AuthInv, NEW s \in Slots, InsertAccount(s)
    PROVE  AuthInv'
<1>1. AuthTypes /\ rq[s] \in AccountReq /\ rq[s].email \in Emails /\ rq[s].pc = "insert"
    BY RequestKinds DEF AuthInv, InsertAccount, AccountReq, At
<1>2. CASE rq[s].email \in Accounts
    <2>1. UNCHANGED <<clock, accounts, issued, revoked, links, answered>> /\ Reply(s)
        BY <1>2 DEF InsertAccount
    <2>2. AuthTypes'
        BY <1>1, <2>1, TypesWithRequest DEF AuthTypes, Reply
    <2> QED
        BY <2>1, <2>2, StoreUntouched, ReplyKeeps
<1>3. CASE rq[s].email \notin Accounts
    <2> DEFINE e == rq[s].email
               d == [password |-> rq[s].password, role |-> "normal", active |-> TRUE]
    <2>1. d \in AccountDoc
        BY <1>1 DEF AccountDoc, AccountReq, Roles
    <2>2. /\ accounts' = [accounts EXCEPT ![e] = d]
          /\ UNCHANGED <<clock, issued, revoked, links, answered>>
          /\ IF rq[s].password = "none" THEN Goto(s, "signin") ELSE Reply(s)
        BY <1>3 DEF InsertAccount
    <2>3. accounts[e] = NoDoc
        BY <1>1, <1>3 DEF Accounts
    <2> HIDE DEF e, d
    <2>4. /\ StoreOK' /\ Keeps /\ accounts' \in [Emails -> AccountDoc \cup {NoDoc}]
          /\ accounts'[e] # NoDoc /\ \A f \in Emails \ {e} : accounts'[f] = accounts[f]
        BY <1>1, <2>1, <2>2, AccountStore DEF e
    <2>5. SameRoles
        BY <2>3, <2>4 DEF SameRoles
    <2>6. CASE Reply(s)
        <3>1. AuthTypes'
            BY <1>1, <2>2, <2>4, <2>6, TypesWithRequest DEF AuthTypes, Reply
        <3> QED
            BY <2>4, <2>5, <2>6, <3>1, ReplyKeeps
    <2>7. CASE Goto(s, "signin")
        <3> DEFINE r == [rq[s] EXCEPT !.pc = "signin"]
        <3>1. r \in AccountReq /\ r.pc = "signin" /\ r.email = e
            BY <1>1 DEF AccountReq, e
        <3>2. rq' = [rq EXCEPT ![s] = r]
            BY <2>7 DEF Goto
        <3> HIDE DEF r
        <3>3. AuthTypes' /\ rq'[s] = r
            BY <1>1, <2>2, <2>4, <3>1, <3>2, TypesWithRequest DEF AuthTypes
        <3>4. rq'[s] \notin TokenReq /\ rq'[s] \notin LinkReq
            BY <3>1, <3>3 DEF AccountReq, TokenReq, LinkReq
        <3>5. RequestOK(s)'
            BY <2>4, <3>1, <3>3, <3>4 DEF RequestOK
        <3> QED
            BY <2>4, <2>5, <3>1, <3>2, <3>3, <3>5, RequestTurns
    <2> QED
        BY <2>2, <2>6, <2>7
<1> QED
    BY <1>2, <1>3

LEMMA SignInKeeps ==
    ASSUME AuthInv, NEW s \in Slots, NEW t \in Tokens, SignIn(s, t)
    PROVE  AuthInv'
<1>1. AuthTypes /\ rq[s] \in AccountReq /\ rq[s].email \in Emails
    BY RequestKinds DEF AuthInv, SignIn, AccountReq
<1>2. rq[s].email \in Accounts
    BY <1>1 DEF AuthInv, RequestOK, SignIn, Accounts
<1>3. accounts[rq[s].email].role \in Roles
    BY <1>1, <1>2 DEF Accounts, AuthTypes, AccountDoc
<1>4. /\ StoreOK' /\ Keeps /\ SameRoles
      /\ issued' \in [Tokens -> TokenDoc \cup {NoDoc}]
    BY <1>2, <1>3, IssueStore DEF SignIn
<1>5. AuthTypes'
    BY <1>1, <1>4, TypesWithRequest DEF AuthTypes, SignIn, Reply
<1> QED
    BY <1>4, <1>5, ReplyKeeps DEF SignIn

LEMMA LoginKeeps ==
    ASSUME AuthInv, NEW s \in Slots, NEW e \in Emails, NEW p, NEW t \in Tokens, Login(s, e, p, t)
    PROVE  AuthInv'
<1>1. AuthTypes /\ e \in Accounts /\ accounts[e].role \in Roles
    BY DEF AuthInv, AuthTypes, Login, Accounts, AccountDoc
<1>2. /\ StoreOK' /\ Keeps /\ SameRoles
      /\ issued' \in [Tokens -> TokenDoc \cup {NoDoc}]
    BY <1>1, IssueStore DEF Login
<1>3. AuthTypes' /\ UNCHANGED rq
    BY <1>1, <1>2 DEF AuthTypes, Login
<1> QED
    BY <1>2, <1>3, AllWait

\* The request notes what is on file when it comes in.
LEMMA PresentKeeps ==
    ASSUME AuthInv, NEW s \in Slots, NEW t \in Tokens, NEW op \in Ops, Present(s, t, op)
    PROVE  AuthInv'
<1>1. AuthTypes /\ StoreOK /\ issued[t] # NoDoc
    BY DEF AuthInv, Present
<1> DEFINE r == [pc |-> "decoded", op |-> op, token |-> t, role |-> "unread",
                 answered |-> t \in answered, recorded |-> revoked[t] # NoDoc,
                 roles |-> {accounts[issued[t].user].role}]
<1>2. accounts[issued[t].user].role \in Roles
    <2>1. accounts[issued[t].user] # NoDoc
        BY <1>1 DEF StoreOK, Holder
    <2>2. issued[t].user \in Emails
        BY <1>1 DEF AuthTypes, TokenDoc
    <2> QED
        BY <1>1, <2>1, <2>2 DEF AuthTypes, AccountDoc
<1>3. r \in TokenReq
    BY <1>2 DEF TokenReq
<1>4. /\ r.pc = "decoded" /\ r.token = t /\ (r.recorded <=> revoked[t] # NoDoc)
      /\ accounts[issued[t].user].role \in r.roles
    OBVIOUS
<1>5. /\ rq' = [rq EXCEPT ![s] = r]
      /\ UNCHANGED <<clock, accounts, issued, revoked, links, answered>>
    BY DEF Present
<1> HIDE DEF r
<1>6. AuthTypes' /\ rq'[s] = r
    BY <1>1, <1>3, <1>5, TypesWithRequest DEF AuthTypes
<1>7. r \notin LinkReq
    BY <1>3 DEF TokenReq, LinkReq
<1>8. RequestOK(s)'
    BY <1>1, <1>4, <1>5, <1>6, <1>7 DEF RequestOK, At, Holder
<1> QED
    BY <1>3, <1>5, <1>6, <1>8, StoreUntouched, RequestTurns

\* A request that finds no revocation either came in before it, or its token
\* has expired since.
LEMMA FindRevocationKeeps ==
    ASSUME AuthInv, NEW s \in Slots, FindRevocation(s)
    PROVE  AuthInv'
<1>1. /\ AuthTypes /\ RequestOK(s) /\ rq[s] \in TokenReq /\ rq[s].pc = "decoded"
      /\ UNCHANGED <<clock, accounts, issued, revoked, links, answered>>
    BY RequestKinds DEF AuthInv, FindRevocation, At
<1>2. CASE Reply(s)
    <2>1. AuthTypes'
        BY <1>1, <1>2, TypesWithRequest DEF AuthTypes, Reply
    <2> QED
        BY <1>1, <1>2, <2>1, StoreUntouched, ReplyKeeps
<1>3. CASE revoked[rq[s].token] = NoDoc /\ Goto(s, "checked")
    <2> DEFINE r == [rq[s] EXCEPT !.pc = "checked"]
    <2>1. /\ r \in TokenReq /\ r.pc = "checked" /\ r.token = rq[s].token /\ r.role = rq[s].role
          /\ r.recorded = rq[s].recorded /\ r.roles = rq[s].roles
        BY <1>1 DEF TokenReq
    <2>2. rq' = [rq EXCEPT ![s] = r]
        BY <1>3 DEF Goto
    <2> HIDE DEF r
    <2>3. AuthTypes' /\ rq'[s] = r
        BY <1>1, <2>1, <2>2, TypesWithRequest DEF AuthTypes
    <2>4. r \notin LinkReq
        BY <2>1 DEF TokenReq, LinkReq
    <2>5. /\ issued[r.token] # NoDoc /\ (r.recorded => Expired(r.token))
          /\ accounts[Holder(r.token)].role \in r.roles
        BY <1>1, <1>3, <2>1 DEF RequestOK, At
    <2>6. RequestOK(s)'
        BY <1>1, <2>1, <2>3, <2>4, <2>5 DEF RequestOK, At, Holder, Expired
    <2> QED
        BY <1>1, <2>1, <2>2, <2>3, <2>6, StoreUntouched, RequestTurns
<1> QED
    BY <1>2, <1>3 DEF FindRevocation

LEMMA FindUserKeeps ==
    ASSUME AuthInv, NEW s \in Slots, FindUser(s)
    PROVE  AuthInv'
<1>1. /\ AuthTypes /\ StoreOK /\ RequestOK(s) /\ rq[s] \in TokenReq /\ rq[s].pc = "checked"
      /\ UNCHANGED <<clock, accounts, issued, revoked, links, answered>>
    BY RequestKinds DEF AuthInv, FindUser, At
<1>2. CASE Reply(s)
    <2>1. AuthTypes'
        BY <1>1, <1>2, TypesWithRequest DEF AuthTypes, Reply
    <2> QED
        BY <1>1, <1>2, <2>1, StoreUntouched, ReplyKeeps
<1>3. CASE rq' = [rq EXCEPT ![s].pc = "authorized", ![s].role = RoleOf(rq[s].token)]
    <2> DEFINE r == [rq[s] EXCEPT !.pc = "authorized", !.role = RoleOf(rq[s].token)]
    <2>1. /\ issued[rq[s].token] # NoDoc /\ (rq[s].recorded => Expired(rq[s].token))
          /\ accounts[Holder(rq[s].token)].role \in rq[s].roles
        BY <1>1 DEF RequestOK, At
    <2>2. RoleOf(rq[s].token) \in rq[s].roles /\ rq[s].roles \subseteq Roles
        BY <1>1, <2>1 DEF RoleOf, Holder, TokenReq
    <2>3. /\ r \in TokenReq /\ r.pc = "authorized" /\ r.token = rq[s].token
          /\ r.role = RoleOf(rq[s].token)
          /\ r.recorded = rq[s].recorded /\ r.roles = rq[s].roles
        BY <1>1, <2>2 DEF TokenReq
    <2>4. rq' = [rq EXCEPT ![s] = r]
        BY <1>1, <1>3 DEF AuthTypes
    <2> HIDE DEF r
    <2>5. AuthTypes' /\ rq'[s] = r
        BY <1>1, <2>3, <2>4, TypesWithRequest DEF AuthTypes
    <2>6. r \notin LinkReq
        BY <2>3 DEF TokenReq, LinkReq
    <2>7. /\ issued[r.token] # NoDoc /\ (r.recorded => Expired(r.token))
          /\ r.role \in r.roles
        BY <2>1, <2>2, <2>3
    <2>8. RequestOK(s)'
        BY <1>1, <2>3, <2>5, <2>6, <2>7 DEF RequestOK, At, Holder, Expired
    <2> QED
        BY <1>1, <2>3, <2>4, <2>5, <2>8, StoreUntouched, RequestTurns
<1> QED
    BY <1>2, <1>3 DEF FindUser

LEMMA RefreshKeeps ==
    ASSUME AuthInv, NEW s \in Slots, NEW t \in Tokens, Refresh(s, t)
    PROVE  AuthInv'
<1>1. /\ AuthTypes /\ StoreOK /\ RequestOK(s) /\ rq[s] \in TokenReq /\ rq[s].pc = "authorized"
    BY RequestKinds DEF AuthInv, Refresh, At
<1>2. rq[s].token \in Tokens /\ issued[rq[s].token] # NoDoc /\ rq[s].role \in Roles
    BY <1>1 DEF RequestOK, TokenReq, At
<1>3. Holder(rq[s].token) \in Accounts
    BY <1>1, <1>2 DEF StoreOK, AuthTypes, Holder, TokenDoc, Accounts
<1>4. /\ StoreOK' /\ Keeps /\ SameRoles
      /\ issued' \in [Tokens -> TokenDoc \cup {NoDoc}]
    BY <1>2, <1>3, IssueStore DEF Refresh, Holder
<1>5. AuthTypes'
    BY <1>1, <1>4, TypesWithRequest DEF AuthTypes, Refresh, Reply
<1> QED
    BY <1>4, <1>5, ReplyKeeps DEF Refresh

LEMMA RevokeTokenKeeps ==
    ASSUME AuthInv, NEW s \in Slots, RevokeToken(s)
    PROVE  AuthInv'
<1>1. /\ AuthTypes /\ RequestOK(s) /\ rq[s] \in TokenReq
    BY RequestKinds DEF AuthInv, RevokeToken
<1>2. rq[s].token \in Tokens /\ issued[rq[s].token] # NoDoc
    BY <1>1 DEF RequestOK, TokenReq
<1>3. /\ StoreOK' /\ Keeps /\ SameRoles
      /\ revoked' \in [Tokens -> RevocationDoc \cup {NoDoc}]
    BY <1>2, RevokeStore DEF RevokeToken
<1>4. AuthTypes'
    BY <1>1, <1>3, TypesWithRequest DEF AuthTypes, RevokeToken, Reply
<1> QED
    BY <1>3, <1>4, ReplyKeeps DEF RevokeToken

\* The new role is added to what the requests of that account have seen.
LEMMA ChangeRoleKeeps ==
    ASSUME AuthInv, NEW s \in Slots, NEW e \in Emails, NEW role \in Roles,
           ChangeRole(s, e, role)
    PROVE  AuthInv'
<1>1. AuthTypes /\ StoreOK /\ accounts[e] # NoDoc /\ accounts[e] \in AccountDoc
    BY DEF AuthInv, ChangeRole, Accounts, AuthTypes
<1> DEFINE d == [accounts[e] EXCEPT !.role = role]
           seen(q) == [rq[q] EXCEPT !.roles = @ \cup {role}]
           Told(q) == "token" \in DOMAIN rq[q] /\ issued[rq[q].token].user = e
<1>2. d \in AccountDoc /\ d.role = role
    BY <1>1 DEF AccountDoc
<1>3. /\ accounts' = [accounts EXCEPT ![e] = d]
      /\ UNCHANGED <<clock, issued, revoked, links, answered>>
      /\ rq' = [q \in Slots |-> IF q = s THEN Idle ELSE IF Told(q) THEN seen(q) ELSE rq[q]]
    BY DEF ChangeRole
<1> HIDE DEF d
<1>4. /\ StoreOK' /\ Keeps
      /\ accounts' \in [Emails -> AccountDoc \cup {NoDoc}]
      /\ accounts'[e] = d /\ \A f \in Emails \ {e} : accounts'[f] = accounts[f]
    BY <1>2, <1>3, AccountStore
<1>5. ASSUME NEW q \in Slots
      PROVE  rq'[q] \in {Idle} \cup AccountReq \cup TokenReq \cup LinkReq /\ RequestOK(q)'
    <2>1. RequestOK(q) /\ rq[q] \in {Idle} \cup AccountReq \cup TokenReq \cup LinkReq
        BY <1>1 DEF AuthInv, AuthTypes
    <2>2. CASE q = s
        <3>1. rq'[q] = Idle
            BY <1>3, <2>2
        <3> QED
            BY <3>1, IdleOK DEF RequestOK, At
    <2>3. CASE q # s /\ Told(q)
        <3>1. rq[q] \in TokenReq
            <4>1. "token" \notin DOMAIN Idle
                BY DEF Idle
            <4>2. rq[q] \in AccountReq => DOMAIN rq[q] = {"pc", "email", "password"}
                BY DEF AccountReq
            <4>3. rq[q] \in LinkReq => DOMAIN rq[q] = {"pc", "link", "password", "answered"}
                BY DEF LinkReq
            <4> QED
                BY <2>1, <2>3, <4>1, <4>2, <4>3
        <3>2. rq'[q] = seen(q)
            BY <1>3, <2>3
        <3>3. /\ seen(q) \in TokenReq /\ seen(q).pc = rq[q].pc /\ seen(q).token = rq[q].token
              /\ seen(q).role = rq[q].role /\ seen(q).recorded = rq[q].recorded
              /\ seen(q).roles = rq[q].roles \cup {role}
            BY <3>1 DEF TokenReq
        <3>4. issued[rq[q].token].user = e
            BY <2>3
        <3> HIDE DEF seen, Told
        <3>5. rq[q].token \in Tokens /\ issued[rq[q].token] # NoDoc
            BY <2>1, <3>1 DEF RequestOK, TokenReq
        <3>6. accounts'[Holder(rq[q].token)].role = role
            BY <1>2, <1>4, <3>4 DEF Holder
        <3>7. seen(q) \notin LinkReq
            BY <3>3 DEF TokenReq, LinkReq
        <3>8. seen(q).pc # "signin"
            BY <3>3 DEF TokenReq
        <3>9. /\ issued[rq[q].token] # NoDoc
              /\ rq[q].pc = "decoded" /\ rq[q].recorded =>
                    revoked[rq[q].token] # NoDoc \/ Expired(rq[q].token)
              /\ rq[q].pc # "decoded" /\ rq[q].recorded => Expired(rq[q].token)
              /\ rq[q].pc = "authorized" => rq[q].role \in rq[q].roles
            BY <2>1, <3>1 DEF RequestOK, At
        <3>10. /\ Expired(rq[q].token)' = Expired(rq[q].token)
               /\ Holder(rq[q].token)' = Holder(rq[q].token)
            BY <1>3, <3>2, <3>3 DEF Expired, Holder
        <3>11. RequestOK(q)'
            BY <1>3, <3>2, <3>3, <3>6, <3>7, <3>8, <3>9, <3>10 DEF RequestOK, At, Holder, Expired
        <3> QED
            BY <3>2, <3>3, <3>11
    <2>4. CASE q # s /\ ~Told(q)
        <3>1. rq'[q] = rq[q]
            BY <1>3, <2>4
        <3>2. ASSUME rq[q] \in TokenReq
              PROVE  accounts'[Holder(rq[q].token)].role = accounts[Holder(rq[q].token)].role
            <4>1. "token" \in DOMAIN rq[q]
                BY <3>2 DEF TokenReq
            <4>2. Holder(rq[q].token) # e
                BY <2>4, <4>1 DEF Holder
            <4>3. Holder(rq[q].token) \in Emails
                BY <1>1, <2>1, <3>2 DEF RequestOK, TokenReq, AuthTypes, TokenDoc, Holder
            <4> QED
                BY <1>4, <4>2, <4>3
        <3>3. RequestOK(q)'
            BY <1>4, <3>1, <3>2, WaitingKept
        <3> QED
            BY <2>1, <3>1, <3>3
    <2> QED
        BY <2>2, <2>3, <2>4
<1>6. AuthTypes'
    BY <1>1, <1>3, <1>4, <1>5 DEF AuthTypes
<1> QED
    BY <1>4, <1>5, <1>6 DEF AuthInv

LEMMA ForbidRoleKeeps ==
    ASSUME AuthInv, NEW s \in Slots, ForbidRole(s)
    PROVE  AuthInv'
<1>1. /\ UNCHANGED <<clock, accounts, issued, revoked, links, answered>> /\ Reply(s)
      /\ AuthTypes
    BY DEF AuthInv, ForbidRole
<1>2. AuthTypes'
    BY <1>1, TypesWithRequest DEF AuthTypes, Reply
<1> QED
    BY <1>1, <1>2, StoreUntouched, ReplyKeeps

\* A revocation leaves only when the token it is for has expired.
LEMMA ExpireRevocationKeeps ==
    ASSUME AuthInv, NEW t \in Tokens, ExpireRevocation(t)
    PROVE  AuthInv'
<1>1. AuthTypes /\ StoreOK /\ UNCHANGED <<clock, accounts, issued, links, rq, answered>>
    BY DEF AuthInv, ExpireRevocation
<1>2. Expired(t)
    BY <1>1 DEF ExpireRevocation, StoreOK, Expired
<1>3. \A u \in Tokens : Expired(u)' = Expired(u) /\ Holder(u)' = Holder(u)
    BY <1>1 DEF Expired, Holder
<1>4. /\ revoked'[t] = NoDoc /\ \A u \in Tokens \ {t} : revoked'[u] = revoked[u]
      /\ revoked' \in [Tokens -> RevocationDoc \cup {NoDoc}]
    BY <1>1 DEF ExpireRevocation, AuthTypes
<1>5. AuthTypes'
    BY <1>1, <1>4 DEF AuthTypes
<1>6. Keeps /\ SameRoles
    BY <1>1, <1>2, <1>3, <1>4 DEF Keeps, SameRoles
<1>7. StoreOK'
    BY <1>1, <1>3, <1>4 DEF StoreOK
<1> QED
    BY <1>1, <1>5, <1>6, <1>7, AllWait

\* A new link was never answered.
LEMMA SendLinkKeeps ==
    ASSUME AuthInv, NEW e \in Emails, NEW l \in Links, SendLink(e, l)
    PROVE  AuthInv'
<1>1. AuthTypes /\ StoreOK /\ UNCHANGED <<clock, accounts, issued, revoked, rq, answered>>
    BY DEF AuthInv, SendLink
<1> DEFINE d == [user |-> e, exp |-> clock + LinkLife, used |-> FALSE]
<1>2. d \in LinkDoc
    BY <1>1, LifeAssumption DEF LinkDoc, AuthTypes
<1>3. d.user = e
    OBVIOUS
<1>4. links' = [links EXCEPT ![l] = d] /\ accounts[e] # NoDoc /\ links[l] = NoDoc
    BY DEF SendLink, Accounts
<1> HIDE DEF d
<1>5. /\ links'[l] = d /\ \A m \in Links \ {l} : links'[m] = links[m]
      /\ links' \in [Links -> LinkDoc \cup {NoDoc}]
      /\ links'[l] # NoDoc
    BY <1>1, <1>2, <1>4, DocsAreNotNoDoc DEF AuthTypes
<1>6. l \notin answered
    BY <1>1, <1>4 DEF StoreOK
<1>7. \A u \in Tokens : Expired(u)' = Expired(u) /\ Holder(u)' = Holder(u)
    BY <1>1 DEF Expired, Holder
<1>8. AuthTypes'
    BY <1>1, <1>5 DEF AuthTypes
<1>9. Keeps /\ SameRoles
    BY <1>1, <1>5, <1>7 DEF Keeps, SameRoles
<1>10. /\ \A u \in Tokens : issued'[u] # NoDoc => accounts'[Holder(u)'] # NoDoc
       /\ \A u \in Tokens : revoked'[u] # NoDoc =>
             issued'[u] # NoDoc /\ revoked'[u].until = issued'[u].exp
    BY <1>1, <1>7 DEF StoreOK
<1>11. /\ \A m \in Links : links'[m] # NoDoc => accounts'[links'[m].user] # NoDoc
       /\ \A m \in Links : m \in answered' => links'[m] # NoDoc /\ links'[m].used
    BY <1>1, <1>3, <1>4, <1>5, <1>6 DEF StoreOK
<1>12. StoreOK'
    BY <1>10, <1>11 DEF StoreOK
<1> QED
    BY <1>1, <1>8, <1>9, <1>12, AllWait

\* Only a link that is not used is found, so none whose reset was answered.
LEMMA FindLinkKeeps ==
    ASSUME AuthInv, NEW s \in Slots, NEW l \in Links, FindLink(s, l, "second")
    PROVE  AuthInv'
<1>1. AuthTypes /\ StoreOK /\ UNCHANGED <<clock, accounts, issued, revoked, links, answered>>
    BY DEF AuthInv, FindLink
<1>2. links[l] # NoDoc /\ l \notin answered
    BY <1>1 DEF FindLink, Usable, StoreOK
<1> DEFINE r == [pc |-> "password", link |-> l, password |-> "second",
                 answered |-> FALSE]
<1>3. r \in LinkReq /\ r.pc = "password" /\ r.link = l /\ ~r.answered
    BY DEF LinkReq
<1>4. rq' = [rq EXCEPT ![s] = r]
    <2>1. rq' = [rq EXCEPT ![s] = [pc |-> "password", link |-> l, password |-> "second",
                                   answered |-> l \in answered]]
        BY DEF FindLink
    <2>2. (l \in answered) = FALSE
        BY <1>2
    <2> QED
        BY <2>1, <2>2
<1> HIDE DEF r
<1>5. AuthTypes' /\ rq'[s] = r
    BY <1>1, <1>3, <1>4, TypesWithRequest DEF AuthTypes
<1>6. r \notin TokenReq
    BY <1>3 DEF TokenReq, LinkReq
<1>7. RequestOK(s)'
    BY <1>1, <1>2, <1>3, <1>5, <1>6 DEF RequestOK, At
<1> QED
    BY <1>1, <1>3, <1>4, <1>5, <1>7, StoreUntouched, RequestTurns

LEMMA SetPasswordKeeps ==
    ASSUME AuthInv, NEW s \in Slots, SetPassword(s)
    PROVE  AuthInv'
<1>1. /\ AuthTypes /\ StoreOK /\ RequestOK(s) /\ rq[s] \in LinkReq
      /\ UNCHANGED <<clock, issued, revoked, links, answered>>
    BY RequestKinds DEF AuthInv, SetPassword
<1>2. /\ rq[s].link \in Links /\ rq[s].password = "second"
      /\ links[rq[s].link] # NoDoc /\ ~rq[s].answered
    BY <1>1 DEF RequestOK, LinkReq
<1>3. CASE UNCHANGED accounts /\ Reply(s)
    <2>1. AuthTypes'
        BY <1>1, <1>3, TypesWithRequest DEF AuthTypes, Reply
    <2> QED
        BY <1>1, <1>3, <2>1, StoreUntouched, ReplyKeeps
<1>4. CASE /\ accounts' = [accounts EXCEPT ![links[rq[s].link].user].password = rq[s].password]
           /\ Goto(s, "mark")
    <2> DEFINE e == links[rq[s].link].user
               d == [accounts[e] EXCEPT !.password = "second"]
               r == [rq[s] EXCEPT !.pc = "mark"]
    <2>1. e \in Emails /\ accounts[e] # NoDoc
        BY <1>1, <1>2 DEF StoreOK, AuthTypes, LinkDoc
    <2>2. accounts[e] \in AccountDoc
        BY <1>1, <2>1 DEF AuthTypes
    <2>3. d \in AccountDoc /\ d.role = accounts[e].role
        BY <2>2 DEF AccountDoc
    <2>4. accounts' = [accounts EXCEPT ![e] = d]
        BY <1>2, <1>4
    <2>5. r \in LinkReq /\ r.pc = "mark" /\ r.link = rq[s].link /\ r.answered = rq[s].answered
        BY <1>1 DEF LinkReq
    <2>6. rq' = [rq EXCEPT ![s] = r]
        BY <1>4 DEF Goto
    <2> HIDE DEF e, d, r
    <2>7. /\ StoreOK' /\ Keeps
          /\ accounts' \in [Emails -> AccountDoc \cup {NoDoc}]
          /\ accounts'[e] = d /\ \A f \in Emails \ {e} : accounts'[f] = accounts[f]
        BY <1>1, <2>1, <2>3, <2>4, AccountStore
    <2>8. SameRoles
        BY <2>3, <2>7 DEF SameRoles
    <2>9. AuthTypes' /\ rq'[s] = r
        BY <1>1, <2>5, <2>6, <2>7, TypesWithRequest DEF AuthTypes
    <2>10. r \notin TokenReq
        BY <2>5 DEF TokenReq, LinkReq
    <2>11. RequestOK(s)'
        BY <1>1, <1>2, <2>5, <2>9, <2>10 DEF RequestOK, At
    <2> QED
        BY <2>5, <2>6, <2>7, <2>8, <2>9, <2>11, RequestTurns
<1> QED
    BY <1>3, <1>4 DEF SetPassword

LEMMA MarkUsedKeeps ==
    ASSUME AuthInv, NEW s \in Slots, MarkUsed(s)
    PROVE  AuthInv'
<1>1. /\ AuthTypes /\ StoreOK /\ RequestOK(s) /\ rq[s] \in LinkReq
      /\ UNCHANGED <<clock, accounts, issued, revoked>> /\ Reply(s)
    BY RequestKinds DEF AuthInv, MarkUsed
<1> DEFINE l == rq[s].link
<1>2. l \in Links /\ links[l] # NoDoc
    BY <1>1 DEF RequestOK, LinkReq
<1>3. CASE UNCHANGED <<links, answered>>
    <2>1. AuthTypes'
        BY <1>1, <1>3, TypesWithRequest DEF AuthTypes, Reply
    <2> QED
        BY <1>1, <1>3, <2>1, StoreUntouched, ReplyKeeps
<1>4. CASE links' = [links EXCEPT ![l].used = TRUE] /\ answered' = answered \cup {l}
    <2> DEFINE d == [links[l] EXCEPT !.used = TRUE]
    <2>1. links[l] \in LinkDoc
        BY <1>1, <1>2 DEF AuthTypes
    <2>2. d \in LinkDoc /\ d.user = links[l].user /\ d.used
        BY <2>1 DEF LinkDoc
    <2>3. links' = [links EXCEPT ![l] = d] /\ answered' = answered \cup {l}
        BY <1>4
    <2> HIDE DEF d, l
    <2>4. /\ links'[l] = d /\ \A m \in Links \ {l} : links'[m] = links[m]
          /\ links' \in [Links -> LinkDoc \cup {NoDoc}]
          /\ links'[l] # NoDoc
        BY <1>1, <1>2, <2>2, <2>3, DocsAreNotNoDoc DEF AuthTypes
    <2>5. \A u \in Tokens : Expired(u)' = Expired(u) /\ Holder(u)' = Holder(u)
        BY <1>1 DEF Expired, Holder
    <2>6. AuthTypes'
        BY <1>1, <2>4, TypesWithRequest DEF AuthTypes, Reply
    <2>7. Keeps /\ SameRoles
        BY <1>1, <2>4, <2>5 DEF Keeps, SameRoles
    <2>8. /\ \A u \in Tokens : issued'[u] # NoDoc => accounts'[Holder(u)'] # NoDoc
          /\ \A u \in Tokens : revoked'[u] # NoDoc =>
                issued'[u] # NoDoc /\ revoked'[u].until = issued'[u].exp
        BY <1>1, <2>5 DEF StoreOK
    <2>9. /\ \A m \in Links : links'[m] # NoDoc => accounts'[links'[m].user] # NoDoc
          /\ \A m \in Links : m \in answered' => links'[m] # NoDoc /\ links'[m].used
        BY <1>1, <1>2, <2>2, <2>3, <2>4 DEF StoreOK
    <2>10. StoreOK'
        BY <2>8, <2>9 DEF StoreOK
    <2> QED
        BY <1>1, <2>6, <2>7, <2>10, ReplyKeeps
<1> QED
    BY <1>3, <1>4 DEF MarkUsed

LEMMA TickKeeps ==
    ASSUME AuthInv, Tick
    PROVE  AuthInv'
<1>1. /\ AuthTypes /\ StoreOK /\ clock' = clock + 1
      /\ UNCHANGED <<accounts, issued, revoked, links, rq, answered>>
    BY DEF AuthInv, Tick
<1>2. \A u \in Tokens : Holder(u)' = Holder(u)
    BY <1>1 DEF Holder
<1>3. \A u \in Tokens : issued[u] # NoDoc /\ Expired(u) => Expired(u)'
    BY <1>1 DEF Expired, AuthTypes, TokenDoc
<1>4. AuthTypes'
    BY <1>1 DEF AuthTypes
<1>5. Keeps /\ SameRoles
    BY <1>1, <1>3 DEF Keeps, SameRoles
<1>6. StoreOK'
    BY <1>1, <1>2 DEF StoreOK
<1> QED
    BY <1>1, <1>4, <1>5, <1>6, AllWait

LEMMA AuthInitOK == AuthInit => AuthInv
<1> SUFFICES ASSUME AuthInit PROVE AuthInv
    OBVIOUS
<1>1. AuthTypes
    <2>1. PICK E \in SUBSET Emails, a \in BOOLEAN :
              accounts = [e \in Emails |->
                  IF e \in E THEN [password |-> "first", role |-> "admin", active |-> a]
                  ELSE NoDoc]
        BY DEF AuthInit
    <2>2. [password |-> "first", role |-> "admin", active |-> a] \in AccountDoc
        BY DEF AccountDoc, Roles
    <2>3. accounts \in [Emails -> AccountDoc \cup {NoDoc}]
        BY <2>1, <2>2
    <2> QED
        BY <2>3 DEF AuthInit, AuthTypes
<1>2. StoreOK
    BY DEF AuthInit, StoreOK
<1>3. ASSUME NEW s \in Slots PROVE RequestOK(s)
    BY IdleOK DEF AuthInit, RequestOK, At
<1> QED
    BY <1>1, <1>2, <1>3 DEF AuthInv

LEMMA AuthNextOK == AuthInv /\ [AuthNext]_authVars => AuthInv'
<1> SUFFICES ASSUME AuthInv, [AuthNext]_authVars PROVE AuthInv'
    OBVIOUS
<1>1. CASE UNCHANGED authVars
    <2>1. UNCHANGED <<clock, accounts, issued, revoked, links, answered>> /\ UNCHANGED rq
        BY <1>1 DEF authVars
    <2>2. AuthTypes'
        BY <2>1 DEF AuthInv, AuthTypes
    <2> QED
        BY <2>1, <2>2, StoreUntouched, AllWait
<1>2. CASE Tick
    BY <1>2, TickKeeps
<1>3. ASSUME NEW t \in Tokens, ExpireRevocation(t) PROVE AuthInv'
    BY <1>3, ExpireRevocationKeeps
<1>4. ASSUME NEW e \in Emails, NEW l \in Links, SendLink(e, l) PROVE AuthInv'
    BY <1>4, SendLinkKeeps
<1>5. ASSUME NEW s \in Slots,
             \/ \E e \in Emails : FindFree(s, e) \/ ExchangeCode(s, e)
             \/ InsertAccount(s)
             \/ \E t \in Tokens : SignIn(s, t) \/ Refresh(s, t)
             \/ \E e \in Emails, p \in {"first", "second"}, t \in Tokens : Login(s, e, p, t)
      PROVE  AuthInv'
    BY <1>5, FindFreeKeeps, InsertAccountKeeps, SignInKeeps, RefreshKeeps, LoginKeeps
<1>6. ASSUME NEW s \in Slots,
             \/ \E t \in Tokens, op \in {"refresh", "logout", "admin"} : Present(s, t, op)
             \/ FindRevocation(s) \/ FindUser(s) \/ RevokeToken(s) \/ ForbidRole(s)
             \/ \E e \in Emails, role \in {"normal", "admin"} : ChangeRole(s, e, role)
      PROVE  AuthInv'
    BY <1>6, PresentKeeps, FindRevocationKeeps, FindUserKeeps, RevokeTokenKeeps,
       ForbidRoleKeeps, ChangeRoleKeeps DEF Ops, Roles
<1>7. ASSUME NEW s \in Slots,
             \/ \E l \in Links : FindLink(s, l, "second")
             \/ SetPassword(s) \/ MarkUsed(s)
      PROVE  AuthInv'
    BY <1>7, FindLinkKeeps, SetPasswordKeeps, MarkUsedKeeps
<1> QED
    BY <1>1, <1>2, <1>3, <1>4, <1>5, <1>6, <1>7 DEF AuthNext

LEMMA AuthInvariance == AuthSpec => []AuthInv
<1> QED
    BY AuthInitOK, AuthNextOK, PTL DEF AuthSpec

\* A token whose logout is on file is refused for as long as it would have lived,
\* however the lookups of its requests interleave with the TTL index.
THEOREM LogoutHolds == AuthSpec => []LogoutSticks
<1>1. AuthInv => LogoutSticks
    <2> SUFFICES ASSUME AuthInv, NEW s \in Slots, At(s, "authorized"), rq[s].recorded
                 PROVE  issued[rq[s].token].exp <= clock
        BY DEF LogoutSticks
    <2>1. rq[s] \in TokenReq /\ RequestOK(s) /\ ~At(s, "decoded")
        BY RequestKinds DEF AuthInv, At
    <2>2. Expired(rq[s].token)
        BY <2>1 DEF RequestOK
    <2> QED
        BY <2>2 DEF Expired
<1> QED
    BY <1>1, AuthInvariance, PTL

\* The role a request acts with is one its account has had since it came in.
THEOREM RoleIsFresh == AuthSpec => []RoleIsCurrent
<1>1. AuthInv => RoleIsCurrent
    <2> SUFFICES ASSUME AuthInv, NEW s \in Slots, At(s, "authorized")
                 PROVE  rq[s].role \in rq[s].roles
        BY DEF RoleIsCurrent
    <2>1. rq[s] \in TokenReq /\ RequestOK(s)
        BY RequestKinds DEF AuthInv
    <2> QED
        BY <2>1 DEF RequestOK
<1> QED
    BY <1>1, AuthInvariance, PTL

\* An answered reset link changes no password any more.
THEOREM LinkWorksOnce == AuthSpec => []ResetOnce
<1>1. AuthInv => ResetOnce
    <2> SUFFICES ASSUME AuthInv, NEW s \in Slots, At(s, "mark")
                 PROVE  ~rq[s].answered
        BY DEF ResetOnce
    <2>1. rq[s] \in LinkReq /\ RequestOK(s)
        BY RequestKinds DEF AuthInv
    <2> QED
        BY <2>1 DEF RequestOK
<1> QED
    BY <1>1, AuthInvariance, PTL

-----------------------------------------------------------------------------
(* The rate limiter *)

\* The deque q of times, in order and not in the future.
Times(q) ==
    /\ q \in Seq(Nat)
    /\ \A i \in 1..Len(q) : q[i] <= now
    /\ \A i, j \in 1..Len(q) : i <= j => q[i] <= q[j]

\* The deque q is what is left of the history l: the entries it lacks are the
\* oldest ones, and they are out of the window w.
LeftOf(q, l, w) ==
    /\ Len(q) <= Len(l)
    /\ \A i \in 1..Len(q) : q[i] = l[Len(l) - Len(q) + i]
    /\ \A i \in 1..(Len(l) - Len(q)) : now - l[i] > w

\* No more than m of the requests l lie in any window w.
Spaced(l, m, w) == \A i \in 1..Len(l) : i > m => l[i] - l[i - m] > w

KeyOK(k) ==
    /\ Times(let[k]) /\ buckets[k] \in Seq(Nat)
    /\ LeftOf(buckets[k], let[k], Window[k])
    /\ Spaced(let[k], MaxHits[k], Window[k])

TurnedOK ==
    turned # <<>> =>
        LET k == turned[1] IN
        /\ Len(let[k]) >= MaxHits[k]
        /\ turned[2] - let[k][Len(let[k]) - MaxHits[k] + 1] <= Window[k]

LimitInv ==
    /\ now \in Nat
    /\ buckets \in [Keys -> Seq(Nat)] /\ let \in [Keys -> Seq(Nat)]
    /\ \A k \in Keys : KeyOK(k)
    /\ TurnedOK

\* What popleft leaves: a suffix that starts inside the window.
LEMMA TrimResult ==
    ASSUME now \in Nat, NEW q \in Seq(Nat), NEW w \in Nat
    PROVE  \E n \in 0..Len(q) :
              /\ Trim(q, w) = SubSeq(q, n + 1, Len(q))
              /\ \A i \in 1..n : now - q[i] > w
              /\ n < Len(q) => now - q[n + 1] <= w
<1> DEFINE Stop(n) == /\ \A i \in 1..n : now - q[i] > w
                      /\ n < Len(q) => now - q[n + 1] <= w
           T == {n \in 0..Len(q) : n = Len(q) \/ now - q[n + 1] <= w}
<1>1. Len(q) \in Nat /\ \A i \in 1..Len(q) : q[i] \in Nat
    OBVIOUS
<1>2. T \in SUBSET Nat /\ Len(q) \in T
    BY <1>1
<1>3. PICK n \in T : \A m \in T : n <= m
    BY <1>2, LeastNat
<1>4. n \in 0..Len(q) /\ (n < Len(q) => now - q[n + 1] <= w)
    BY <1>1, <1>3
<1>5. ASSUME NEW i \in 1..n PROVE now - q[i] > w
    <2>1. i - 1 \in 0..Len(q) /\ i - 1 < n /\ i - 1 # Len(q) /\ (i - 1) + 1 = i
        BY <1>1, <1>4
    <2>2. i - 1 \notin T
        <3>1. n \in Nat /\ i \in Nat /\ ~(n <= i - 1)
            BY <1>1, <1>4
        <3> HIDE DEF T
        <3> QED
            BY <1>3, <3>1
    <2>3. ~(now - q[i] <= w)
        BY <2>1, <2>2
    <2>4. q[i] \in Nat
        BY <1>1, <1>4
    <2> QED
        BY <2>3, <2>4
<1>6. \E m \in 0..Len(q) : Stop(m)
    BY <1>4, <1>5
<1> DEFINE gone == CHOOSE m \in 0..Len(q) : Stop(m)
<1>7. gone \in 0..Len(q) /\ Stop(gone)
    BY <1>6
<1>8. Trim(q, w) = SubSeq(q, gone + 1, Len(q))
    BY DEF Trim
<1> HIDE DEF gone
<1> QED
    BY <1>7, <1>8

\* Its elements.
LEMMA SuffixElements ==
    ASSUME NEW q \in Seq(Nat), NEW n \in 0..Len(q)
    PROVE  LET r == SubSeq(q, n + 1, Len(q)) IN
           /\ r \in Seq(Nat) /\ Len(r) = Len(q) - n
           /\ \A i \in 1..Len(r) : r[i] = q[n + i]
OBVIOUS

\* Trimming keeps what is in the window, and in a trimmed deque everything is.
LEMMA TrimLeft ==
    ASSUME now \in Nat, NEW q \in Seq(Nat), NEW l, Times(l), NEW w \in Nat, LeftOf(q, l, w)
    PROVE  /\ Trim(q, w) \in Seq(Nat)
           /\ LeftOf(Trim(q, w), l, w)
           /\ \A i \in 1..Len(Trim(q, w)) : now - Trim(q, w)[i] <= w
<1>1. PICK n \in 0..Len(q) :
          /\ Trim(q, w) = SubSeq(q, n + 1, Len(q))
          /\ \A i \in 1..n : now - q[i] > w
          /\ n < Len(q) => now - q[n + 1] <= w
    BY TrimResult
<1> DEFINE r == Trim(q, w)
<1>2. /\ r \in Seq(Nat) /\ Len(r) = Len(q) - n
      /\ \A i \in 1..Len(r) : r[i] = q[n + i]
    BY <1>1, SuffixElements
<1>3. /\ Len(q) \in Nat /\ Len(l) \in Nat /\ Len(r) \in Nat /\ l \in Seq(Nat)
      /\ \A i \in 1..Len(l) : l[i] \in Nat
    BY <1>2 DEF Times
<1> HIDE DEF r
<1>4. Len(r) <= Len(l)
    BY <1>2, <1>3 DEF LeftOf
<1>5. ASSUME NEW i \in 1..Len(r) PROVE r[i] = l[Len(l) - Len(r) + i]
    <2>1. n + i \in 1..Len(q) /\ Len(l) - Len(q) + (n + i) = Len(l) - Len(r) + i
        BY <1>2, <1>3
    <2>2. r[i] = q[n + i]
        BY <1>2
    <2>3. q[n + i] = l[Len(l) - Len(q) + (n + i)]
        BY <2>1 DEF LeftOf
    <2> QED
        BY <2>1, <2>2, <2>3
<1>6. ASSUME NEW i \in 1..(Len(l) - Len(r)) PROVE now - l[i] > w
    <2>1. CASE i <= Len(l) - Len(q)
        BY <1>3, <2>1 DEF LeftOf
    <2>2. CASE ~(i <= Len(l) - Len(q))
        <3>1. /\ i - (Len(l) - Len(q)) \in 1..n
              /\ Len(l) - Len(q) + (i - (Len(l) - Len(q))) = i
            BY <1>2, <1>3, <2>2, SMTT(20)
        <3>2. now - q[i - (Len(l) - Len(q))] > w
            BY <1>1, <3>1
        <3>3. i - (Len(l) - Len(q)) \in 1..Len(q)
            BY <1>3, <3>1
        <3>4. q[i - (Len(l) - Len(q))] = l[i]
            BY <3>1, <3>3 DEF LeftOf
        <3> QED
            BY <3>2, <3>4
    <2> QED
        BY <2>1, <2>2
<1>7. ASSUME NEW i \in 1..Len(r) PROVE now - r[i] <= w
    <2>1. n < Len(q) /\ 1 \in 1..Len(r)
        BY <1>2, <1>3
    <2>2. now - r[1] <= w
        BY <1>1, <1>2, <2>1
    <2>3. /\ Len(l) - Len(r) + 1 \in 1..Len(l) /\ Len(l) - Len(r) + i \in 1..Len(l)
          /\ Len(l) - Len(r) + 1 <= Len(l) - Len(r) + i
        BY <1>3, <1>4
    <2>4. r[1] = l[Len(l) - Len(r) + 1] /\ r[i] = l[Len(l) - Len(r) + i]
        BY <1>5, <2>1
    <2>5. l[Len(l) - Len(r) + 1] <= l[Len(l) - Len(r) + i]
        BY <2>3 DEF Times
    <2>6. l[Len(l) - Len(r) + 1] \in Nat /\ l[Len(l) - Len(r) + i] \in Nat
        BY <1>3, <2>3
    <2>7. r[1] \in Nat /\ r[i] \in Nat /\ r[1] <= r[i]
        BY <2>4, <2>5, <2>6
    <2> QED
        BY <2>2, <2>7
<1>8. LeftOf(r, l, w)
    BY <1>4, <1>5, <1>6 DEF LeftOf
<1> QED
    BY <1>2, <1>7, <1>8 DEF r

\* The sweep deletes a deque only when all it holds is out of every window.
LEMMA SweptLeft ==
    ASSUME LimitInv, NEW k \in Keys
    PROVE  /\ Swept[k] \in Seq(Nat) /\ LeftOf(Swept[k], let[k], Window[k])
           /\ Swept \in [Keys -> Seq(Nat)]
<1>1. /\ KeyOK(k) /\ now \in Nat /\ Window[k] \in Nat /\ Window[k] <= StaleAfter
      /\ StaleAfter \in Nat /\ buckets \in [Keys -> Seq(Nat)]
    BY LimiterAssumption, WindowAssumption DEF LimitInv
<1>2. Swept \in [Keys -> Seq(Nat)] /\ Swept[k] \in {buckets[k], <<>>}
    BY <1>1 DEF Swept
<1>3. Swept[k] = <<>> => buckets[k] = <<>> \/ Stale(buckets[k])
    BY <1>1 DEF Swept
<1>4. ASSUME Swept[k] = <<>>, buckets[k] # <<>>
      PROVE  LeftOf(<<>>, let[k], Window[k])
    <2> DEFINE b == buckets[k]
               l == let[k]
    <2>1. /\ b \in Seq(Nat) /\ b # <<>> /\ now - b[Len(b)] > StaleAfter
          /\ l \in Seq(Nat) /\ Times(l) /\ LeftOf(b, l, Window[k])
        BY <1>1, <1>3, <1>4 DEF Stale, KeyOK, Times
    <2> HIDE DEF b, l
    <2>2. Len(b) \in Nat \ {0} /\ Len(l) \in Nat /\ Len(b) <= Len(l)
        BY <2>1 DEF LeftOf
    <2>3. b[Len(b)] = l[Len(l)]
        <3>1. b[Len(b)] = l[Len(l) - Len(b) + Len(b)]
            BY <2>1, <2>2 DEF LeftOf
        <3>2. Len(l) - Len(b) + Len(b) = Len(l)
            BY <2>2
        <3> QED
            BY <3>1, <3>2
    <2>4. ASSUME NEW i \in 1..Len(l) PROVE now - l[i] > Window[k]
        <3>1. l[i] \in Nat /\ l[Len(l)] \in Nat /\ l[i] <= l[Len(l)]
            BY <2>1, <2>2 DEF Times
        <3>2. now - l[Len(l)] > StaleAfter
            BY <2>1, <2>3
        <3> QED
            BY <1>1, <3>1, <3>2
    <2>5. Len(<<>>) = 0
        OBVIOUS
    <2>6. LeftOf(<<>>, l, Window[k])
        BY <2>2, <2>4, <2>5 DEF LeftOf
    <2> QED
        BY <2>6 DEF l
<1>5. LeftOf(Swept[k], let[k], Window[k])
    <2>1. LeftOf(buckets[k], let[k], Window[k])
        BY <1>1 DEF KeyOK
    <2>2. CASE Swept[k] = <<>> /\ buckets[k] # <<>>
        BY <1>4, <2>2
    <2>3. CASE Swept[k] = buckets[k]
        BY <2>1, <2>3
    <2> QED
        BY <1>2, <2>2, <2>3
<1> QED
    BY <1>2, <1>5

\* What follows for the key's window when the trimmed deque e is not full: a
\* request now is more than a window behind the MaxHits-th last one.
LEMMA LetThrough ==
    ASSUME now \in Nat, NEW e \in Seq(Nat), NEW l, Times(l), NEW w \in Nat,
           NEW m \in Nat \ {0}, LeftOf(e, l, w), Len(e) < m, Spaced(l, m, w)
    PROVE  /\ Times(Append(l, now)) /\ Append(e, now) \in Seq(Nat)
           /\ LeftOf(Append(e, now), Append(l, now), w)
           /\ Spaced(Append(l, now), m, w)
<1> DEFINE a == Append(l, now)
           b == Append(e, now)
<1>1. l \in Seq(Nat) /\ Len(l) \in Nat /\ Len(e) \in Nat /\ Len(e) <= Len(l)
    BY DEF Times, LeftOf
<1>2. /\ a \in Seq(Nat) /\ Len(a) = Len(l) + 1 /\ a[Len(l) + 1] = now
      /\ \A i \in 1..Len(l) : a[i] = l[i] /\ a[i] \in Nat
    BY <1>1
<1>3. /\ b \in Seq(Nat) /\ Len(b) = Len(e) + 1 /\ b[Len(e) + 1] = now
      /\ \A i \in 1..Len(e) : b[i] = e[i]
    BY <1>1
<1> HIDE DEF a, b
<1>4. Times(a)
    <2>1. \A i \in 1..Len(a) : i = Len(l) + 1 \/ i \in 1..Len(l)
        BY <1>1, <1>2
    <2>2. \A i \in 1..Len(l) : l[i] <= now
        BY DEF Times
    <2>3. \A i \in 1..Len(a) : a[i] <= now
        BY <1>2, <2>1, <2>2, SMTT(20)
    <2>4. ASSUME NEW i \in 1..Len(a), NEW j \in 1..Len(a), i <= j PROVE a[i] <= a[j]
        <3>1. CASE j = Len(l) + 1
            BY <1>2, <2>3, <3>1
        <3>2. CASE j \in 1..Len(l)
            <4>1. i \in 1..Len(l)
                BY <1>1, <1>2, <2>4, <3>2
            <4>2. l[i] <= l[j]
                BY <2>4, <3>2, <4>1 DEF Times
            <4> QED
                BY <1>2, <3>2, <4>1, <4>2
        <3> QED
            BY <2>1, <3>1, <3>2
    <2> QED
        BY <1>2, <2>3, <2>4 DEF Times
<1>5. LeftOf(b, a, w)
    <2>1. Len(b) <= Len(a) /\ Len(a) - Len(b) = Len(l) - Len(e)
        BY <1>1, <1>2, <1>3
    <2>2. ASSUME NEW i \in 1..Len(b) PROVE b[i] = a[Len(a) - Len(b) + i]
        <3>1. CASE i = Len(e) + 1
            <4>1. Len(a) - Len(b) + i = Len(l) + 1
                BY <1>1, <1>2, <1>3, <3>1
            <4> QED
                BY <1>2, <1>3, <3>1, <4>1
        <3>2. CASE i \in 1..Len(e)
            <4>1. Len(l) - Len(e) + i \in 1..Len(l)
                BY <1>1, <3>2
            <4>2. e[i] = l[Len(l) - Len(e) + i]
                BY <3>2 DEF LeftOf
            <4>3. b[i] = e[i] /\ a[Len(l) - Len(e) + i] = l[Len(l) - Len(e) + i]
                BY <1>2, <1>3, <3>2, <4>1
            <4> QED
                BY <2>1, <4>2, <4>3
        <3> QED
            BY <1>1, <1>3, <3>1, <3>2
    <2>3. ASSUME NEW i \in 1..(Len(a) - Len(b)) PROVE now - a[i] > w
        <3>1. i \in 1..(Len(l) - Len(e)) /\ i \in 1..Len(l)
            BY <1>1, <2>1
        <3>2. now - l[i] > w
            BY <3>1 DEF LeftOf
        <3> QED
            BY <1>2, <3>1, <3>2
    <2> QED
        BY <2>1, <2>2, <2>3 DEF LeftOf
<1>6. Spaced(a, m, w)
    <2> SUFFICES ASSUME NEW i \in 1..Len(a), i > m PROVE a[i] - a[i - m] > w
        BY DEF Spaced
    <2>1. i - m \in 1..Len(l)
        BY <1>1, <1>2
    <2>2. CASE i = Len(l) + 1
        <3>1. i - m \in 1..(Len(l) - Len(e))
            BY <1>1, <2>1, <2>2
        <3>2. now - l[i - m] > w
            BY <3>1 DEF LeftOf
        <3> QED
            BY <1>2, <2>1, <2>2, <3>2
    <2>3. CASE i \in 1..Len(l)
        <3>1. l[i] - l[i - m] > w
            BY <2>3 DEF Spaced
        <3> QED
            BY <1>2, <2>1, <2>3, <3>1
    <2>4. i = Len(l) + 1 \/ i \in 1..Len(l)
        BY <1>1, <1>2
    <2> QED
        BY <2>2, <2>3, <2>4
<1> QED
    BY <1>2, <1>3, <1>4, <1>5, <1>6 DEF a, b

\* A refused request finds its window full.
LEMMA TurnedAway ==
    ASSUME now \in Nat, NEW e \in Seq(Nat), NEW l, Times(l), NEW w \in Nat,
           NEW m \in Nat \ {0}, LeftOf(e, l, w), Len(e) >= m,
           \A i \in 1..Len(e) : now - e[i] <= w
    PROVE  Len(l) >= m /\ now - l[Len(l) - m + 1] <= w
<1>1. Len(l) \in Nat /\ Len(e) \in Nat /\ Len(e) <= Len(l)
    BY DEF Times, LeftOf
<1>2. Len(e) - m + 1 \in 1..Len(e) /\ Len(l) - Len(e) + (Len(e) - m + 1) = Len(l) - m + 1
    BY <1>1
<1>3. e[Len(e) - m + 1] = l[Len(l) - m + 1]
    <2>1. e[Len(e) - m + 1] = l[Len(l) - Len(e) + (Len(e) - m + 1)]
        BY <1>2 DEF LeftOf
    <2> QED
        BY <1>2, <2>1
<1>4. now - e[Len(e) - m + 1] <= w
    BY <1>2
<1> QED
    BY <1>1, <1>3, <1>4

LEMMA CheckRateLimitKeeps ==
    ASSUME LimitInv, NEW k \in Keys, CheckRateLimit(k)
    PROVE  LimitInv'
<1>1. /\ now \in Nat /\ now' = now /\ Window[k] \in Nat /\ MaxHits[k] \in Nat \ {0}
      /\ let \in [Keys -> Seq(Nat)] /\ KeyOK(k)
    BY LimiterAssumption DEF LimitInv, CheckRateLimit
<1> DEFINE e == Trim(Swept[k], Window[k])
<1>2. Times(let[k]) /\ Spaced(let[k], MaxHits[k], Window[k])
    BY <1>1 DEF KeyOK
<1>3. /\ Swept[k] \in Seq(Nat) /\ LeftOf(Swept[k], let[k], Window[k])
      /\ Swept \in [Keys -> Seq(Nat)]
    BY SweptLeft
<1>4. /\ e \in Seq(Nat) /\ LeftOf(e, let[k], Window[k])
      /\ \A i \in 1..Len(e) : now - e[i] <= Window[k]
    BY <1>1, <1>2, <1>3, TrimLeft
<1>5. \/ /\ Len(e) >= MaxHits[k]
         /\ buckets' = [Swept EXCEPT ![k] = e]
         /\ turned' = <<k, now>>
         /\ let' = let
      \/ /\ Len(e) < MaxHits[k]
         /\ buckets' = [Swept EXCEPT ![k] = Append(e, now)]
         /\ let' = [let EXCEPT ![k] = Append(@, now)]
         /\ turned' = <<>>
    BY DEF CheckRateLimit
<1> HIDE DEF e
<1>6. ASSUME NEW j \in Keys, j # k, buckets'[j] = Swept[j], let'[j] = let[j]
      PROVE  KeyOK(j)'
    <2>1. KeyOK(j) /\ Swept[j] \in Seq(Nat) /\ LeftOf(Swept[j], let[j], Window[j])
        BY SweptLeft DEF LimitInv
    <2> QED
        BY <1>1, <1>6, <2>1 DEF KeyOK, Times, LeftOf, Spaced
<1>7. CASE /\ Len(e) >= MaxHits[k]
           /\ buckets' = [Swept EXCEPT ![k] = e]
           /\ turned' = <<k, now>>
           /\ let' = let
    <2>1. /\ buckets' \in [Keys -> Seq(Nat)] /\ buckets'[k] = e
          /\ \A j \in Keys \ {k} : buckets'[j] = Swept[j]
        BY <1>3, <1>4, <1>7
    <2>2. KeyOK(k)'
        BY <1>1, <1>2, <1>4, <1>7, <2>1 DEF KeyOK, Times, LeftOf, Spaced
    <2>3. Len(let[k]) >= MaxHits[k] /\ now - let[k][Len(let[k]) - MaxHits[k] + 1] <= Window[k]
        BY <1>1, <1>2, <1>4, <1>7, TurnedAway
    <2>4. TurnedOK'
        BY <1>7, <2>3 DEF TurnedOK
    <2> QED
        BY <1>1, <1>6, <1>7, <2>1, <2>2, <2>4 DEF LimitInv
<1>8. CASE /\ Len(e) < MaxHits[k]
           /\ buckets' = [Swept EXCEPT ![k] = Append(e, now)]
           /\ let' = [let EXCEPT ![k] = Append(@, now)]
           /\ turned' = <<>>
    <2> DEFINE a == Append(let[k], now)
               b == Append(e, now)
    <2>1. Times(a) /\ b \in Seq(Nat) /\ LeftOf(b, a, Window[k]) /\ Spaced(a, MaxHits[k], Window[k])
        BY <1>1, <1>2, <1>4, <1>8, LetThrough
    <2>2. buckets' = [Swept EXCEPT ![k] = b] /\ let' = [let EXCEPT ![k] = a]
        BY <1>8
    <2> HIDE DEF a, b
    <2>3. /\ buckets' \in [Keys -> Seq(Nat)] /\ buckets'[k] = b
          /\ let' \in [Keys -> Seq(Nat)] /\ let'[k] = a
          /\ \A j \in Keys \ {k} : buckets'[j] = Swept[j] /\ let'[j] = let[j]
        BY <1>1, <1>3, <2>1, <2>2 DEF Times
    <2>4. KeyOK(k)'
        BY <1>1, <2>1, <2>3 DEF KeyOK, Times, LeftOf, Spaced
    <2>5. TurnedOK'
        BY <1>8 DEF TurnedOK
    <2> QED
        BY <1>1, <1>6, <2>3, <2>4, <2>5 DEF LimitInv
<1> QED
    BY <1>5, <1>7, <1>8

LEMMA LimitTickKeeps ==
    ASSUME LimitInv, LimitTick
    PROVE  LimitInv'
<1>1. /\ now \in Nat /\ now' = now + 1 /\ turned' = <<>> /\ buckets' = buckets /\ let' = let
    BY DEF LimitInv, LimitTick
<1>2. ASSUME NEW k \in Keys PROVE KeyOK(k)'
    <2>1. KeyOK(k) /\ Window[k] \in Nat
        BY LimiterAssumption DEF LimitInv
    <2>2. Times(let[k])'
        BY <1>1, <2>1 DEF KeyOK, Times
    <2>3. \A i \in 1..Len(let[k]) : let[k][i] \in Nat
        BY <2>1 DEF KeyOK, Times
    <2>4. Len(let[k]) \in Nat /\ Len(buckets[k]) \in Nat
        BY <2>1 DEF KeyOK, Times
    <2>5. \A i \in 1..(Len(let[k]) - Len(buckets[k])) : now' - let[k][i] > Window[k]
        <3> SUFFICES ASSUME NEW i \in 1..(Len(let[k]) - Len(buckets[k]))
                     PROVE  now' - let[k][i] > Window[k]
            OBVIOUS
        <3>1. LeftOf(buckets[k], let[k], Window[k])
            BY <2>1 DEF KeyOK
        <3>2. now - let[k][i] > Window[k] /\ Len(buckets[k]) <= Len(let[k])
            BY <3>1 DEF LeftOf
        <3>3. i \in 1..Len(let[k])
            BY <2>4
        <3>4. let[k][i] \in Nat
            BY <2>3, <3>3
        <3> QED
            BY <1>1, <2>1, <3>2, <3>4
    <2>6. LeftOf(buckets[k], let[k], Window[k])'
        BY <1>1, <2>1, <2>5 DEF KeyOK, LeftOf
    <2> QED
        BY <1>1, <2>1, <2>2, <2>6 DEF KeyOK, Spaced
<1> QED
    BY <1>1, <1>2 DEF LimitInv, TurnedOK

LEMMA LimitInitOK == LimitInit => LimitInv
BY DEF LimitInit, LimitInv, KeyOK, Times, LeftOf, Spaced, TurnedOK

LEMMA LimitNextOK == LimitInv /\ [LimitNext]_limitVars => LimitInv'
<1>1. LimitInv /\ UNCHANGED limitVars => LimitInv'
    BY DEF LimitInv, limitVars, KeyOK, Times, LeftOf, Spaced, TurnedOK
<1> QED
    BY <1>1, CheckRateLimitKeeps, LimitTickKeeps DEF LimitNext

\* The limiter never lets more through in a window than the route's limit, and
\* never turns away a request whose window is not full, although the sweep of any
\* call deletes the deques of other keys.
THEOREM WindowsHold == LimitSpec => []WindowBound
<1>1. LimitInv => WindowBound
    <2> SUFFICES ASSUME LimitInv PROVE WindowBound
        OBVIOUS
    <2>1. ASSUME NEW k \in Keys, NEW i \in DOMAIN let[k], i > MaxHits[k]
          PROVE  let[k][i] - let[k][i - MaxHits[k]] > Window[k]
        <3>1. Spaced(let[k], MaxHits[k], Window[k]) /\ i \in 1..Len(let[k])
            BY <2>1 DEF LimitInv, KeyOK, Times
        <3> QED
            BY <2>1, <3>1 DEF Spaced
    <2> QED
        BY <2>1 DEF WindowBound, LimitInv, TurnedOK
<1> QED
    BY <1>1, LimitInitOK, LimitNextOK, PTL DEF LimitSpec

-----------------------------------------------------------------------------
(* The stored results *)

\* The finding in the summary the request read fails the control by itself.
Hit(r) == strategy = "attest_static" /\ req[r].summary = WithHit

\* The owner's submission: its answer is on file, and the answers it reads are the
\* owner's whether or not the scan is still there.
SubmitOK(r) ==
    /\ req[r].pc = "write" => req[r].answer # "none"
    /\ req[r].op = "submit" /\ req[r].user = "owner" =>
          /\ req[r].pc \in {"write", "scan", "attestations", "store", "done"}
          /\ req[r].pc # "write" => attestations["owner"] # "none"
          /\ req[r].owner = "owner"
          /\ req[r].pc \in {"store", "done"} => req[r].result # _not_tested

\* A work-queue request between its two reads: a scan found at the second read was
\* found at the first, and a fail without a finding rests on an answer.
TaskOK(r) ==
    /\ req[r].pc \in {"attestations", "store", "reread", "task"} /\ req[r].found
          => req[r].owner = "owner"
    /\ req[r].pc \in {"attestations", "store", "reread"} /\ ~req[r].found => ~scan.exists
    /\ req[r].pc \in {"store", "reread"} /\ req[r].result = Reading("fail")
          => Hit(r) \/ attestations[req[r].owner] # "none"
    /\ req[r].pc = "task" /\ req[r].found /\ req[r].result = Reading("fail")
          => Hit(r) \/ attestations["owner"] # "none"
    /\ req[r].pc # "done" => req[r].status = "none"
    /\ req[r].status = "scan_failed" /\ req[r].found => Hit(r)

IInv == TypeOK /\ \A r \in Requests : SubmitOK(r) /\ TaskOK(r)

USE ControlsAssumption

\* The summaries are told apart by their vulnerabilities.
LEMMA SummaryFacts == /\ "confirmed" \notin NoEvidence.vulnerabilities
                      /\ "confirmed" \notin Clean.vulnerabilities
                      /\ "confirmed" \in WithHit.vulnerabilities
  BY DEF NoEvidence, Clean, WithHit

\* What the merge of a manual_attestation control yields.
LEMMA MergeFacts ==
  ASSUME NEW st \in {"attest", "attest_static"}, NEW s \in Summaries,
         NEW a \in Answers \cup {"none"}
  PROVE  LET res == _compute_result(st, "search", s, a)
         IN  /\ res \in Results
             /\ a # "none" => res # _not_tested
             /\ res = Reading("fail") =>
                  (st = "attest_static" /\ s = WithHit) \/ a # "none"
<1>1. CASE st = "attest"
  BY <1>1 DEF _compute_result, _merge_attestation, Reading, _not_tested, Result, Results,
              Answers, Verdicts, Bases
<1>2. CASE st = "attest_static"
  BY <1>2, SummaryFacts
     DEF _compute_result, _merge_attestation, _merge_attestation_or_vulnerable_static,
         Reading, _not_tested, Result, Results, Answers, Verdicts, Bases, Summaries
<1> QED BY <1>1, <1>2

\* The empty request is well formed.
LEMMA NoRequestType == NoRequest \in Request
  BY DEF NoRequest, Request, _not_tested, Result, Results, Verdicts, Bases, Users, Summaries

\* A request admitted by _get_authorized_scan starts from scratch.
LEMMA AuthorizeOK ==
  ASSUME TypeOK, NEW r \in Requests, NEW u \in Users, NEW op \in {"submit", "tasks"},
         NEW place \in {"write", "scan"}, NEW a \in Answers \cup {"none"},
         Authorize(r, u, op, place, a), op = "submit" => place = "write", place = "write" => a # "none"
  PROVE  /\ TypeOK' /\ SubmitOK(r)' /\ TaskOK(r)'
         /\ \A t \in Requests \ {r} : req'[t] = req[t]
         /\ UNCHANGED <<strategy, scan, attestations>>
<1> DEFINE q == [NoRequest EXCEPT !.op = op, !.user = u, !.pc = place, !.answer = a]
<1>1. q \in Request
  BY NoRequestType DEF Request
<1>2. /\ q.op = op /\ q.user = u /\ q.pc = place /\ q.answer = a
      /\ q.owner = "owner" /\ q.status = "none"
  BY DEF NoRequest
<1>3. req' = [req EXCEPT ![r] = q] /\ UNCHANGED <<strategy, scan, attestations, asvs_results>>
  BY DEF Authorize
<1> HIDE DEF q
<1>4. req'[r] = q /\ TypeOK' /\ \A t \in Requests \ {r} : req'[t] = req[t]
  BY <1>1, <1>3 DEF TypeOK
<1>5. SubmitOK(r)' /\ TaskOK(r)'
  BY <1>2, <1>4 DEF SubmitOK, TaskOK
<1> QED BY <1>3, <1>4, <1>5

\* A step of one request keeps the invariant if it keeps it for that request and
\* leaves the scan and every other request alone, answers only being added.
LEMMA OtherRequests ==
  ASSUME IInv, NEW r \in Requests, NEW t \in Requests, t # r,
         req' \in [Requests -> Request], req'[t] = req[t],
         strategy' = strategy, scan' = scan,
         \A u \in Users : attestations[u] # "none" => attestations'[u] # "none"
  PROVE  SubmitOK(t)' /\ TaskOK(t)'
  BY DEF IInv, TypeOK, SubmitOK, TaskOK, Hit, Request, Users

\* Every action keeps the inductive invariant.
LEMMA Inductive == Spec => []IInv
<1>1. Init => IInv
  BY NoRequestType DEF Init, IInv, TypeOK, SubmitOK, TaskOK, Hit, NoRequest, Users, Summaries
<1>2. IInv /\ [Next]_vars => IInv'
  <2> SUFFICES ASSUME IInv, [Next]_vars
               PROVE  IInv'
    OBVIOUS
  <2>1. CASE CompleteScan
    <3>1. scan' \in [exists : BOOLEAN, summary : Summaries] /\ scan'.exists = scan.exists
      <4>1. PICK s \in {Clean, WithHit} : scan' = [scan EXCEPT !.summary = s]
        BY <2>1 DEF CompleteScan
      <4>2. s \in Summaries
        BY DEF Summaries
      <4> QED BY <4>1, <4>2 DEF IInv, TypeOK
    <3> QED BY <2>1, <3>1 DEF CompleteScan, IInv, TypeOK, SubmitOK, TaskOK, Hit
  <2>2. CASE delete_scan
    BY <2>2 DEF delete_scan, IInv, TypeOK, SubmitOK, TaskOK, Hit, Summaries
  <2>3. ASSUME NEW r \in Requests, Handle(r) PROVE IInv'
    <3>0. req \in [Requests -> Request] /\ SubmitOK(r) /\ TaskOK(r) /\ TypeOK
      BY DEF IInv, TypeOK
    <3>00. SUFFICES /\ TypeOK'
                    /\ SubmitOK(r)' /\ TaskOK(r)'
                    /\ \A t \in Requests \ {r} : req'[t] = req[t]
                    /\ strategy' = strategy /\ scan' = scan
                    /\ \A u \in Users : attestations[u] # "none" => attestations'[u] # "none"
      BY <3>0, OtherRequests DEF IInv, TypeOK
    <3>1. ASSUME NEW u \in Users, NEW a \in Answers, Authorize(r, u, "submit", "write", a)
          PROVE  /\ TypeOK' /\ SubmitOK(r)' /\ TaskOK(r)'
                 /\ \A t \in Requests \ {r} : req'[t] = req[t]
                 /\ UNCHANGED <<strategy, scan, attestations>>
      BY <3>0, <3>1, AuthorizeOK DEF Answers, Verdicts
    <3>2. ASSUME NEW u \in Users, Authorize(r, u, "tasks", "scan", "none")
          PROVE  /\ TypeOK' /\ SubmitOK(r)' /\ TaskOK(r)'
                 /\ \A t \in Requests \ {r} : req'[t] = req[t]
                 /\ UNCHANGED <<strategy, scan, attestations>>
      BY <3>0, <3>2, AuthorizeOK
    <3>3. CASE UpsertAttestation(r)
      <4>1. req[r] \in Request /\ req[r].pc = "write"
        BY <3>0, <3>3 DEF UpsertAttestation
      <4>2. req[r].answer \in Answers \cup {"none"} /\ req[r].user \in Users
        BY <4>1 DEF Request
      <4>3. /\ req' \in [Requests -> Request]
            /\ req'[r] = [req[r] EXCEPT !.pc = "scan"]
            /\ \A t \in Requests \ {r} : req'[t] = req[t]
        BY <3>0, <3>3, <4>1 DEF UpsertAttestation, Request
      <4>4. attestations' \in [Users -> Answers \cup {"none"}]
        BY <3>0, <3>3, <4>2 DEF UpsertAttestation, TypeOK
      <4>5. TypeOK'
        BY <3>0, <3>3, <4>3, <4>4 DEF UpsertAttestation, TypeOK
      <4>6. /\ req'[r].pc = "scan" /\ req'[r].found = req[r].found
            /\ req'[r].op = req[r].op /\ req'[r].user = req[r].user
            /\ req'[r].status = req[r].status /\ req'[r].owner = req[r].owner
        BY <4>1, <4>3 DEF Request
      <4>7. SubmitOK(r)'
        BY <3>0, <3>3, <4>1, <4>6 DEF UpsertAttestation, SubmitOK, TypeOK, Users
      <4>8. TaskOK(r)'
        BY <3>0, <4>1, <4>6 DEF TaskOK
      <4>9. \A u \in Users : attestations[u] # "none" => attestations'[u] # "none"
        <5>1. req[r].answer # "none"
          BY <3>0, <4>1 DEF SubmitOK
        <5> QED BY <3>0, <3>3, <5>1 DEF UpsertAttestation, TypeOK
      <4> QED BY <3>3, <4>3, <4>5, <4>7, <4>8, <4>9 DEF UpsertAttestation
    <3>4. CASE ReadScan(r)
      <4> DEFINE sum == IF scan.exists THEN scan.summary ELSE NoEvidence
      <4>1. sum \in Summaries /\ AttestationUser(r) \in Users /\ scan.exists \in BOOLEAN
        BY <3>0 DEF TypeOK, Request, AttestationUser, Users, Summaries
      <4>2. /\ req[r].pc = "scan"
            /\ req' = [req EXCEPT ![r].pc = "attestations", ![r].summary = sum,
                                  ![r].owner = AttestationUser(r), ![r].found = scan.exists]
            /\ UNCHANGED <<strategy, scan, attestations, asvs_results>>
        BY <3>4 DEF ReadScan
      <4>3. AttestationUser(r) = IF scan.exists THEN "owner" ELSE req[r].user
        BY DEF AttestationUser
      <4> HIDE DEF sum
      <4>4. /\ req' \in [Requests -> Request]
            /\ req'[r] = [req[r] EXCEPT !.pc = "attestations", !.summary = sum,
                                        !.owner = AttestationUser(r), !.found = scan.exists]
            /\ \A t \in Requests \ {r} : req'[t] = req[t]
        <5> DEFINE q == [req[r] EXCEPT !.pc = "attestations", !.summary = sum,
                                    !.owner = AttestationUser(r), !.found = scan.exists]
        <5>1. q \in Request
          BY <3>0, <4>1, ZenonT(40) DEF Request
        <5>2. req' = [req EXCEPT ![r] = q]
          BY <3>0, <4>2
        <5> HIDE DEF q
        <5>3. req' \in [Requests -> Request] /\ req'[r] = q
          BY <3>0, <5>1, <5>2
        <5>4. \A t \in Requests \ {r} : req'[t] = req[t]
          BY <3>0, <5>2
        <5> QED BY <5>3, <5>4 DEF q
      <4>5. TypeOK'
        BY <3>0, <4>2, <4>4 DEF TypeOK
      <4>6. /\ req'[r].pc = "attestations" /\ req'[r].found = scan.exists
            /\ req'[r].owner = IF scan.exists THEN "owner" ELSE req[r].user
            /\ req'[r].op = req[r].op /\ req'[r].user = req[r].user
            /\ req'[r].status = req[r].status
        BY <3>0, <4>3, <4>4 DEF Request
      <4> QED BY <3>0, <4>2, <4>4, <4>5, <4>6 DEF SubmitOK, TaskOK
    <3>5. CASE ReadAttestations(r)
      <4> DEFINE res == _compute_result(strategy, "search", req[r].summary,
                                        attestations[req[r].owner])
      <4>1. /\ strategy \in {"attest", "attest_static"}
            /\ req[r].summary \in Summaries
            /\ attestations[req[r].owner] \in Answers \cup {"none"}
        BY <3>0 DEF TypeOK, Request
      <4>2. /\ res \in Results
            /\ attestations[req[r].owner] # "none" => res # _not_tested
            /\ res = Reading("fail") => Hit(r) \/ attestations[req[r].owner] # "none"
        BY <4>1, MergeFacts DEF Hit
      <4>3. /\ req' = [req EXCEPT ![r].pc = "store", ![r].result = res]
            /\ UNCHANGED <<strategy, scan, attestations, asvs_results>>
            /\ req[r].pc = "attestations"
        BY <3>5 DEF ReadAttestations
      <4> HIDE DEF res
      <4>4. /\ req' \in [Requests -> Request]
            /\ req'[r] = [req[r] EXCEPT !.pc = "store", !.result = res]
            /\ \A t \in Requests \ {r} : req'[t] = req[t]
        <5> DEFINE q == [req[r] EXCEPT !.pc = "store", !.result = res]
        <5>1. q \in Request
          BY <3>0, <4>2 DEF Request
        <5>2. req' = [req EXCEPT ![r] = q]
          BY <3>0, <4>3
        <5> HIDE DEF q
        <5>3. req' \in [Requests -> Request] /\ req'[r] = q
          BY <3>0, <5>1, <5>2
        <5>4. \A t \in Requests \ {r} : req'[t] = req[t]
          BY <3>0, <5>2
        <5> QED BY <5>3, <5>4 DEF q
      <4>5. TypeOK'
        BY <3>0, <4>3, <4>4 DEF TypeOK
      <4>6. /\ req'[r].pc = "store" /\ req'[r].result = res /\ req'[r].found = req[r].found
            /\ req'[r].owner = req[r].owner /\ req'[r].summary = req[r].summary
            /\ req'[r].op = req[r].op /\ req'[r].user = req[r].user
            /\ req'[r].status = req[r].status
        BY <3>0, <4>4 DEF Request
      <4> QED BY <3>0, <4>2, <4>3, <4>4, <4>5, <4>6 DEF SubmitOK, TaskOK, Hit
    <3>6. CASE StoreResult(r)
      BY <3>0, <3>6 DEF StoreResult, TypeOK, SubmitOK, TaskOK, Hit, Request
    <3>7. CASE RereadScan(r)
      <4>1. AttestationUser(r) \in Users /\ scan.exists \in BOOLEAN
        BY <3>0 DEF TypeOK, Request, AttestationUser, Users
      <4>2. /\ req' \in [Requests -> Request]
            /\ req'[r] = [req[r] EXCEPT !.pc = "task", !.owner = AttestationUser(r),
                                        !.found = scan.exists]
            /\ \A t \in Requests \ {r} : req'[t] = req[t]
        <5> DEFINE q == [req[r] EXCEPT !.pc = "task", !.owner = AttestationUser(r),
                                    !.found = scan.exists]
        <5>1. q \in Request
          BY <3>0, <4>1 DEF Request
        <5>2. req' = [req EXCEPT ![r] = q]
          BY <3>0, <3>7 DEF RereadScan
        <5> HIDE DEF q
        <5>3. req' \in [Requests -> Request] /\ req'[r] = q
          BY <3>0, <5>1, <5>2
        <5>4. \A t \in Requests \ {r} : req'[t] = req[t]
          BY <3>0, <5>2
        <5> QED BY <5>3, <5>4 DEF q
      <4>3. TypeOK'
        BY <3>0, <3>7, <4>2 DEF RereadScan, TypeOK
      <4>4. /\ req'[r].pc = "task" /\ req'[r].found = scan.exists
            /\ req'[r].owner = IF scan.exists THEN "owner" ELSE req[r].user
            /\ req'[r].op = req[r].op /\ req'[r].user = req[r].user
            /\ req'[r].status = req[r].status /\ req'[r].result = req[r].result
            /\ req'[r].summary = req[r].summary
        BY <3>0, <4>2 DEF Request, AttestationUser
      <4> QED BY <3>0, <3>7, <4>1, <4>2, <4>3, <4>4 DEF RereadScan, SubmitOK, TaskOK, Hit
    <3>8. CASE BuildTask(r)
      BY <3>0, <3>8 DEF BuildTask, TaskStatus, TypeOK, SubmitOK, TaskOK, Hit, Request
    <3>9. CASE Respond(r)
      BY <3>0, <3>9, NoRequestType DEF Respond, TypeOK, SubmitOK, TaskOK, Hit, NoRequest, Request
    <3> QED BY <2>3, <3>1, <3>2, <3>3, <3>4, <3>5, <3>6, <3>7, <3>8, <3>9
            DEF Handle, submit_attestation, list_attestation_tasks
  <2>4. CASE UNCHANGED vars
    BY <2>4 DEF vars, IInv, TypeOK, SubmitOK, TaskOK, Hit
  <2> QED BY <2>1, <2>2, <2>3, <2>4 DEF Next
<1> QED BY <1>1, <1>2, PTL DEF Spec

\* The work queue calls a task scan_failed only for a finding of the scan.
THEOREM ScanFailed == Spec => []ScanFailedByScan
<1>1. IInv => ScanFailedByScan
  BY DEF IInv, TaskOK, Hit, ScanFailedByScan
<1> QED BY <1>1, Inductive, PTL

\* The owner's submission is counted in the result it returns with.
THEOREM OwnerCounted == Spec => []OwnerAnswerCounts
<1>1. IInv => OwnerAnswerCounts
  BY DEF IInv, SubmitOK, OwnerAnswerCounts
<1> QED BY <1>1, Inductive, PTL
=============================================================================
