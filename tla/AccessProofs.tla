----------------------------- MODULE AccessProofs -----------------------------
(***************************************************************************)
(* Proofs about Access, for any sets of users, companies, invites and      *)
(* requests, and any life of tokens and invites.                           *)
(***************************************************************************)
EXTENDS Access, TLAPS

-----------------------------------------------------------------------------
(***************************************************************************)
(* Types                                                                   *)
(***************************************************************************)
\* An acceptance under way is one of an invite that was made.
JoinOK == \A q \in Requests : request[q].pc = "join" => invite[request[q].invite] # NoInvite

TypeInv == TypeOK /\ JoinOK

LEMMA NoRequestType == NoRequest \in RequestType /\ NoRequest.pc = "idle"
BY DEF RequestType, NoRequest

LEMMA InitTypeInv == Init => TypeInv
<1> SUFFICES ASSUME Init
             PROVE  TypeInv
  OBVIOUS
<1>1. TypeOK
  BY TtlAssumption, NoRequestType DEF Init, TypeOK, InviteType
<1>2. JoinOK
  BY NoRequestType DEF Init, JoinOK
<1>3. QED
  BY <1>1, <1>2 DEF TypeInv

LEMMA RememberedType ==
  ASSUME TypeInv, RememberAdmins, clock' \in 0..MaxTime
  PROVE  adminUntil' \in [Companies -> [Users -> 0 .. (MaxTime + AccessTtl)]]
<1>1. clock' + AccessTtl \in 0 .. (MaxTime + AccessTtl)
  <2>1. \A t \in 0..MaxTime : t + AccessTtl \in 0 .. (MaxTime + AccessTtl)
    BY TtlAssumption
  <2>2. QED
    BY <2>1
<1>2. \A c \in Companies, u \in Users :
         (IF role'[c][u] = "ADMIN" THEN clock' + AccessTtl ELSE adminUntil[c][u])
            \in 0 .. (MaxTime + AccessTtl)
  BY <1>1 DEF TypeInv, TypeOK
<1>3. QED
  BY <1>2 DEF RememberAdmins

LEMMA DroppedType ==
  ASSUME NEW token \in Tokens \cup {None}
  PROVE  Dropped(token) \in Tokens \cup {None}
BY DEF Dropped

LEMMA SpoiledType ==
  ASSUME NEW token \in Tokens \cup {None}
  PROVE  Spoiled(token) \in Tokens \cup {None}
BY DEF Spoiled, Tokens

\* What the steps of the browser leave: the rows, and the types of the rest.
LEMMA BrowserTypeInv ==
  ASSUME TypeInv,
         \/ Tick \/ SecretsChange
         \/ \E u \in Users : Logout(u),
         RememberAdmins
  PROVE  TypeInv'
<1> USE DEF TypeInv, TypeOK
<1>1. clock' \in 0..MaxTime
  BY TtlAssumption DEF Tick, SecretsChange, Logout
<1>2. authToken' \in [Users -> Tokens \cup {None}] /\ refreshToken' \in [Users -> Tokens \cup {None}]
  BY DroppedType, SpoiledType DEF Tick, SecretsChange, Logout, ClearCookies
<1>3. UNCHANGED <<rows, invite, request, history>>
  BY DEF Tick, SecretsChange, Logout
<1>4. adminUntil' \in [Companies -> [Users -> 0 .. (MaxTime + AccessTtl)]]
  BY <1>1, RememberedType
<1>5. QED
  BY <1>1, <1>2, <1>3, <1>4 DEF rows, history, JoinOK

LEMMA PlaceTypes ==
  ASSUME NEW u \in Users
  PROVE  /\ [pc |-> "load", user |-> u] \in RequestType
         /\ [pc |-> "refresh", user |-> u] \in RequestType
         /\ \A claims \in Claims :
               [pc |-> "sign", user |-> u, companies |-> claims] \in RequestType
BY DEF RequestType

LEMMA UserOfRequest ==
  ASSUME TypeInv, NEW q \in Requests, request[q].pc \in {"load", "refresh", "sign"}
  PROVE  /\ request[q].user \in Users
         /\ request[q].pc = "sign" => request[q].companies \in Claims
BY DEF TypeInv, TypeOK, RequestType, NoRequest

LEMMA InviteOfRequest ==
  ASSUME TypeInv, NEW q \in Requests, request[q].pc = "join"
  PROVE  /\ request[q].invite \in Invites
         /\ invite[request[q].invite] \in InviteType \ {NoInvite}
         /\ invite[request[q].invite].companyId \in Companies
         /\ invite[request[q].invite].user \in Users
         /\ invite[request[q].invite].role \in CompanyMembershipRole
<1>1. request[q].invite \in Invites
  BY DEF TypeInv, TypeOK, RequestType, NoRequest
<1>2. QED
  BY <1>1 DEF TypeInv, TypeOK, JoinOK, InviteType

LEMMA SessionClaimsType ==
  ASSUME TypeInv, NEW u \in Users
  PROVE  SessionClaims(u) \in Claims
BY DEF TypeInv, TypeOK, SessionClaims, Claims

\* A page is opened, signed in, refreshed or given up: the rows stay.
LEMMA PageTypeInv ==
  ASSUME TypeInv, RememberAdmins,
         NEW q \in Requests,
         \/ SetAuthCookies(q) \/ LoadAuthSession(q) \/ Refresh(q) \/ RefreshRefused(q)
         \/ JoinRefused(q) \/ RequestFails(q)
         \/ \E u \in Users : GoogleCallback(q, u) \/ OpenPage(q, u)
  PROVE  TypeInv'
<1>1. UNCHANGED <<clock, rows, invite, history>>
  BY DEF SetAuthCookies, LoadAuthSession, Refresh, RefreshRefused, JoinRefused, RequestFails,
     GoogleCallback, OpenPage
<1>2. /\ authToken' \in [Users -> Tokens \cup {None}]
      /\ refreshToken' \in [Users -> Tokens \cup {None}]
  <2>1. CASE SetAuthCookies(q)
    <3> DEFINE u == request[q].user
               Token(ttl) == [companies |-> request[q].companies, expires |-> clock + ttl,
                              good |-> TRUE]
    <3>1. u \in Users /\ request[q].companies \in Claims
      BY <2>1, UserOfRequest DEF SetAuthCookies
    <3>2. /\ clock + AccessTtl \in 0 .. (MaxTime + AccessTtl + RefreshTtl)
          /\ clock + RefreshTtl \in 0 .. (MaxTime + AccessTtl + RefreshTtl)
      BY TtlAssumption DEF TypeInv, TypeOK
    <3>3. Token(AccessTtl) \in Tokens /\ Token(RefreshTtl) \in Tokens
      BY <3>1, <3>2 DEF Tokens
    <3>4. QED
      BY <2>1, <3>1, <3>3 DEF SetAuthCookies, TypeInv, TypeOK
  <2>2. CASE RefreshRefused(q)
    BY <2>2 DEF RefreshRefused, AfterRefusal, ClearCookies, TypeInv, TypeOK
  <2>3. CASE UNCHANGED cookies
    BY <2>3 DEF cookies, TypeInv, TypeOK
  <2>4. QED
    BY <2>1, <2>2, <2>3 DEF LoadAuthSession, Refresh, JoinRefused, RequestFails, GoogleCallback,
       OpenPage
<1>3. /\ request' \in [Requests -> RequestType]
      /\ \A p \in Requests : request'[p] = request[p] \/ request'[p].pc # "join"
  <2>1. ASSUME NEW place \in RequestType, place.pc # "join", Goto(q, place)
        PROVE  <1>3!:
    BY <2>1 DEF Goto, TypeInv, TypeOK
  <2>2. CASE Goto(q, NoRequest)
    BY <2>1, <2>2, NoRequestType
  <2>3. ASSUME NEW u \in Users,
               \/ Goto(q, [pc |-> "load", user |-> u])
               \/ Goto(q, [pc |-> "refresh", user |-> u])
               \/ \E claims \in Claims :
                     Goto(q, [pc |-> "sign", user |-> u, companies |-> claims])
        PROVE  <1>3!:
    BY <2>1, <2>3, PlaceTypes
  <2>4. CASE SetAuthCookies(q)
    BY <2>3, <2>4, UserOfRequest DEF SetAuthCookies
  <2>5. CASE LoadAuthSession(q)
    BY <2>2, <2>3, <2>5, UserOfRequest DEF LoadAuthSession
  <2>6. CASE Refresh(q)
    BY <2>3, <2>6, UserOfRequest, SessionClaimsType DEF Refresh, RefreshedClaims
  <2>7. CASE RefreshRefused(q) \/ JoinRefused(q) \/ RequestFails(q)
    BY <2>2, <2>7 DEF RefreshRefused, AfterRefusal, JoinRefused, RequestFails
  <2>8. ASSUME NEW u \in Users, GoogleCallback(q, u) \/ OpenPage(q, u)
        PROVE  <1>3!:
    BY <2>3, <2>8, SessionClaimsType DEF GoogleCallback, OpenPage
  <2>9. QED
    BY <2>4, <2>5, <2>6, <2>7, <2>8
<1>4. adminUntil' \in [Companies -> [Users -> 0 .. (MaxTime + AccessTtl)]]
  BY <1>1, RememberedType DEF TypeInv, TypeOK
<1>5. TypeOK'
  BY <1>1, <1>2, <1>3, <1>4 DEF rows, history, TypeInv, TypeOK
<1>6. QED
  BY <1>1, <1>3, <1>5 DEF TypeInv, JoinOK

LEMMA MembersTypeInv ==
  ASSUME TypeInv, RememberAdmins,
         \/ \E q \in Pages, u \in Users, c \in Companies : CreateCompany(q, u, c)
         \/ \E u, target \in Users, c \in Companies :
               \/ RemoveMember(u, c, target)
               \/ \E r \in CompanyMembershipRole : ChangeRole(u, c, target, r)
  PROVE  TypeInv'
<1> USE DEF TypeInv, TypeOK
<1>1. UNCHANGED <<clock, invite, cookies, grants>>
  BY DEF CreateCompany, RemoveMember, ChangeRole, history
<1>2. role' \in [Companies -> [Users -> CompanyMembershipRole \cup {None}]]
  <2>1. \E c \in Companies, u \in Users, r \in CompanyMembershipRole \cup {None} :
           role' = [role EXCEPT ![c][u] = r]
    BY RoleAssumption DEF CreateCompany, RemoveMember, ChangeRole
  <2>2. QED
    BY <2>1
<1>3. founded' \subseteq Companies
  BY DEF CreateCompany, RemoveMember, ChangeRole
<1>4. removals' \in [Companies -> [Users -> Nat]]
  <2>1. \/ UNCHANGED removals
        \/ \E c \in Companies, target \in Users :
              removals' = [removals EXCEPT ![c][target] = removals[c][target] + 1]
    BY DEF CreateCompany, RemoveMember, ChangeRole, history
  <2>2. ASSUME NEW c \in Companies, NEW target \in Users, NEW n \in Nat,
               removals' = [removals EXCEPT ![c][target] = n]
        PROVE  removals' \in [Companies -> [Users -> Nat]]
    BY <2>2
  <2>3. \A c \in Companies, target \in Users : removals[c][target] + 1 \in Nat
    BY DEF TypeInv, TypeOK
  <2>4. QED
    BY <2>1, <2>2, <2>3
<1>5. /\ request' \in [Requests -> RequestType]
      /\ \A q \in Requests : request'[q] = request[q] \/ request'[q].pc # "join"
  <2>1. CASE UNCHANGED request
    BY <2>1
  <2>2. ASSUME NEW q \in Pages, NEW u \in Users, NEW c \in Companies, CreateCompany(q, u, c)
        PROVE  <1>5!:
    BY <2>2, PlaceTypes DEF CreateCompany, Goto
  <2>3. QED
    BY <2>1, <2>2 DEF RemoveMember, ChangeRole
<1>6. adminUntil' \in [Companies -> [Users -> 0 .. (MaxTime + AccessTtl)]]
  BY <1>1, RememberedType
<1>7. QED
  BY <1>1, <1>2, <1>3, <1>4, <1>5, <1>6 DEF cookies, JoinOK

LEMMA CreateInviteTypeInv ==
  ASSUME TypeInv, RememberAdmins,
         NEW u \in Users, NEW target \in Users, NEW c \in Companies,
         NEW r \in CompanyMembershipRole \cup {Undefined}, NEW i \in Invites,
         CreateInvite(u, c, target, r, i)
  PROVE  TypeInv'
<1> USE DEF TypeInv, TypeOK
<1>1. UNCHANGED <<clock, rows, cookies, request, history>>
  BY DEF CreateInvite
<1>2. InvitedRole(r) \in CompanyMembershipRole
  BY RoleAssumption DEF InvitedRole
<1>3. \A t \in 0..MaxTime : t + InviteTtl \in 0 .. (MaxTime + InviteTtl)
  BY TtlAssumption
<1>4. PICK made \in InviteType : made.companyId = c /\ invite' = [invite EXCEPT ![i] = made]
  BY <1>2, <1>3 DEF CreateInvite, InviteType
<1>5. invite' \in [Invites -> InviteType] /\ invite'[i] # NoInvite
  BY <1>4, NoneAssumption DEF NoInvite
<1>6. \A k \in Invites : invite[k] # NoInvite => invite'[k] # NoInvite
  BY <1>4, <1>5
<1>7. \A q \in Requests : request[q].pc = "join" => request[q].invite \in Invites
  BY InviteOfRequest
<1>8. adminUntil' \in [Companies -> [Users -> 0 .. (MaxTime + AccessTtl)]]
  BY <1>1, RememberedType
<1>9. QED
  BY <1>1, <1>5, <1>6, <1>7, <1>8 DEF rows, cookies, history, JoinOK

LEMMA ReadInviteTypeInv ==
  ASSUME TypeInv, RememberAdmins,
         NEW q \in Acceptances, NEW u \in Users, NEW i \in Invites, ReadInvite(q, u, i)
  PROVE  TypeInv'
<1> USE DEF TypeInv, TypeOK
<1>1. UNCHANGED <<clock, rows, invite, cookies, history>> /\ invite[i] # NoInvite
  BY DEF ReadInvite
<1>2. [pc |-> "join", invite |-> i] \in RequestType
  BY DEF RequestType
<1>3. request' = [request EXCEPT ![q] = [pc |-> "join", invite |-> i]]
  BY DEF ReadInvite, Goto
<1>4. adminUntil' \in [Companies -> [Users -> 0 .. (MaxTime + AccessTtl)]]
  BY <1>1, RememberedType
<1>5. QED
  BY <1>1, <1>2, <1>3, <1>4 DEF rows, cookies, history, JoinOK

LEMMA JoinTypeInv ==
  ASSUME TypeInv, RememberAdmins, NEW q \in Requests, Join(q)
  PROVE  TypeInv'
<1> USE DEF TypeInv, TypeOK
<1> DEFINE i == request[q].invite
<1>1. /\ i \in Invites /\ invite[i] \in InviteType \ {NoInvite}
      /\ invite[i].companyId \in Companies /\ invite[i].user \in Users
      /\ invite[i].role \in CompanyMembershipRole
  BY InviteOfRequest DEF Join
<1>2. UNCHANGED <<clock, founded, cookies, removals>>
  BY DEF Join
<1>3. role' \in [Companies -> [Users -> CompanyMembershipRole \cup {None}]]
  BY <1>1 DEF Join
<1>4. PICK accepted \in InviteType \ {NoInvite} : invite' = [invite EXCEPT ![i] = accepted]
  <2>1. invite[i] \in [companyId : Companies, user : Users, role : CompanyMembershipRole,
                       expiresAt : 0 .. (MaxTime + InviteTtl), accepted : BOOLEAN]
    BY <1>1 DEF InviteType
  <2>2. [invite[i] EXCEPT !.accepted = TRUE] \in InviteType
    BY <2>1 DEF InviteType
  <2>3. [invite[i] EXCEPT !.accepted = TRUE].companyId # None
    BY <2>1, NoneAssumption
  <2>4. invite' = [invite EXCEPT ![i] = [invite[i] EXCEPT !.accepted = TRUE]]
    BY DEF Join
  <2>5. QED
    BY <2>2, <2>3, <2>4 DEF NoInvite
<1>5. invite' \in [Invites -> InviteType] /\ \A k \in Invites : invite[k] # NoInvite => invite'[k] # NoInvite
  BY <1>1, <1>4
<1>6. grants' \in [Invites -> Nat]
  BY <1>1 DEF Join
<1>7. request' = [request EXCEPT ![q] = NoRequest]
  BY DEF Join, Goto
<1>8. adminUntil' \in [Companies -> [Users -> 0 .. (MaxTime + AccessTtl)]]
  BY <1>2, RememberedType
<1>9. \A p \in Requests : request[p].pc = "join" => request[p].invite \in Invites
  BY InviteOfRequest
<1>10. TypeOK'
  BY <1>2, <1>3, <1>5, <1>6, <1>7, <1>8, NoRequestType DEF cookies
<1>11. QED
  BY <1>5, <1>7, <1>9, <1>10, NoRequestType DEF JoinOK

LEMMA NextTypeInv == TypeInv /\ [Next]_vars => TypeInv'
<1> SUFFICES ASSUME TypeInv, [Next]_vars
             PROVE  TypeInv'
  OBVIOUS
<1>1. CASE UNCHANGED vars
  BY <1>1 DEF vars, rows, cookies, history, TypeInv, TypeOK, JoinOK
<1>2. CASE Next
  <2>1. RememberAdmins /\ Step
    BY <1>2 DEF Next
  <2>2. CASE Tick \/ SecretsChange \/ \E u \in Users : Logout(u)
    BY <2>1, <2>2, BrowserTypeInv
  <2>3. CASE \E q \in Requests : RequestGoesOn(q) \/ RequestFails(q)
    BY <2>1, <2>3, PageTypeInv, JoinTypeInv DEF RequestGoesOn
  <2>4. CASE \E q \in Pages, u \in Users :
               GoogleCallback(q, u) \/ OpenPage(q, u) \/ \E c \in Companies : CreateCompany(q, u, c)
    <3>1. \A q \in Pages : q \in Requests
      BY DEF Requests
    <3>2. QED
      BY <2>1, <2>4, <3>1, PageTypeInv, MembersTypeInv
  <2>5. CASE \E q \in Acceptances, u \in Users, i \in Invites : ReadInvite(q, u, i)
    BY <2>1, <2>5, ReadInviteTypeInv
  <2>6. CASE \E u, target \in Users, c \in Companies :
               \/ RemoveMember(u, c, target)
               \/ \E r \in CompanyMembershipRole : ChangeRole(u, c, target, r)
    BY <2>1, <2>6, MembersTypeInv
  <2>7. CASE \E u, target \in Users, c \in Companies,
               r \in CompanyMembershipRole \cup {Undefined}, i \in Invites :
               CreateInvite(u, c, target, r, i)
    BY <2>1, <2>7, CreateInviteTypeInv
  <2>8. QED
    BY <2>1, <2>2, <2>3, <2>4, <2>5, <2>6, <2>7 DEF Step
<1>3. QED
  BY <1>1, <1>2

LEMMA Typed == Spec => []TypeInv
BY InitTypeInv, NextTypeInv, PTL DEF Spec

\* Rows, tokens and requests keep to their types.
THEOREM TypeCorrect == Spec => []TypeOK
<1>1. TypeInv => TypeOK
  BY DEF TypeInv
<1>2. QED
  BY <1>1, Typed, PTL

-----------------------------------------------------------------------------
(***************************************************************************)
(* Authority.  A token expires no later than adminUntil says for whatever  *)
(* company it claims to administer: it was signed in the time in which its *)
(* claims were read, so the limit of an administrator was then a life of a *)
(* token ahead, and the limit only grows.                                  *)
(***************************************************************************)
Remembered ==
    \A c \in Companies, u \in Users :
        role[c][u] = "ADMIN" => adminUntil[c][u] = clock + AccessTtl

TokensOK ==
    \A u \in Users : authToken[u] # None =>
        /\ authToken[u].expires <= clock + AccessTtl
        /\ \A c \in Companies :
               authToken[u].companies[c] = "ADMIN" => authToken[u].expires <= adminUntil[c][u]

SigningOK ==
    \A q \in Requests : request[q].pc = "sign" =>
        \A c \in Companies : request[q].companies[c] = "ADMIN" =>
            adminUntil[c][request[q].user] = clock + AccessTtl

AuthorityInv == Remembered /\ TokensOK /\ SigningOK

LEMMA InitAuthorityInv == Init => AuthorityInv
<1> SUFFICES ASSUME Init
             PROVE  AuthorityInv
  OBVIOUS
<1>1. \A c \in Companies, u \in Users : role[c][u] # "ADMIN"
  BY NoneAssumption, RoleAssumption DEF Init
<1>2. QED
  BY <1>1, NoRequestType DEF Init, AuthorityInv, Remembered, TokensOK, SigningOK

\* A step that takes or gives up tokens, or leaves them.
TokensKept ==
    \A u \in Users :
        authToken'[u] # None =>
            /\ authToken[u] # None
            /\ authToken'[u].companies = authToken[u].companies
            /\ authToken'[u].expires = authToken[u].expires

\* A step after which no request signs claims that it has not read with it.
SigningKept ==
    \A q \in Requests : request'[q].pc = "sign" =>
        /\ clock' = clock
        /\ \/ request'[q] = request[q]
           \/ /\ role' = role /\ request'[q].user \in Users
              /\ request'[q].companies = SessionClaims(request'[q].user)

LEMMA LimitGrows ==
  ASSUME TypeInv, RememberAdmins, clock' \in {clock, clock + 1},
         NEW c \in Companies, NEW u \in Users
  PROVE  /\ adminUntil'[c][u] = IF role'[c][u] = "ADMIN" THEN clock' + AccessTtl
                                ELSE adminUntil[c][u]
         /\ clock \in Nat /\ clock' \in Nat /\ clock <= clock'
         /\ adminUntil[c][u] \in Nat
<1>1. clock \in Nat /\ adminUntil[c][u] \in Nat
  BY TtlAssumption DEF TypeInv, TypeOK
<1>2. adminUntil'[c][u] = IF role'[c][u] = "ADMIN" THEN clock' + AccessTtl ELSE adminUntil[c][u]
  BY DEF RememberAdmins
<1>3. QED
  BY <1>1, <1>2

LEMMA RememberedAgain ==
  ASSUME TypeInv, RememberAdmins
  PROVE  Remembered'
BY DEF RememberAdmins, Remembered

LEMMA KeptTokensOK ==
  ASSUME TypeInv, AuthorityInv, RememberAdmins, clock' \in {clock, clock + 1}, TokensKept
  PROVE  TokensOK'
<1> SUFFICES ASSUME NEW u \in Users, authToken'[u] # None
             PROVE  /\ authToken'[u].expires <= clock' + AccessTtl
                    /\ \A c \in Companies : authToken'[u].companies[c] = "ADMIN" =>
                          authToken'[u].expires <= adminUntil'[c][u]
  BY DEF TokensOK
<1> DEFINE expires == authToken[u].expires
<1>1. /\ authToken[u] # None /\ authToken'[u].expires = expires
      /\ authToken'[u].companies = authToken[u].companies
  BY DEF TokensKept
<1>2. expires \in Nat
  BY <1>1, TtlAssumption DEF TypeInv, TypeOK, Tokens
<1>3. /\ expires <= clock + AccessTtl
      /\ \A c \in Companies : authToken[u].companies[c] = "ADMIN" => expires <= adminUntil[c][u]
  BY <1>1 DEF AuthorityInv, TokensOK
<1>4. clock \in Nat /\ clock' \in Nat /\ clock <= clock' /\ AccessTtl \in Nat
  BY TtlAssumption DEF TypeInv, TypeOK
<1>5. expires <= clock' + AccessTtl
  BY <1>2, <1>3, <1>4
<1>6. ASSUME NEW c \in Companies, authToken[u].companies[c] = "ADMIN"
      PROVE  expires <= adminUntil'[c][u]
  BY <1>3, <1>5, <1>6, LimitGrows
<1>7. QED
  BY <1>1, <1>5, <1>6

LEMMA KeptSigningOK ==
  ASSUME TypeInv, AuthorityInv, RememberAdmins, SigningKept
  PROVE  SigningOK'
<1> SUFFICES ASSUME NEW q \in Requests, request'[q].pc = "sign",
                    NEW c \in Companies, request'[q].companies[c] = "ADMIN"
             PROVE  adminUntil'[c][request'[q].user] = clock' + AccessTtl
  BY DEF SigningOK
<1> DEFINE u == request'[q].user
<1>1. clock' = clock
  BY DEF SigningKept
<1>2. CASE request'[q] = request[q]
  <2>1. u \in Users /\ adminUntil[c][u] = clock + AccessTtl
    BY <1>2, UserOfRequest DEF AuthorityInv, SigningOK
  <2>2. QED
    BY <1>1, <2>1, LimitGrows
<1>3. CASE role' = role /\ u \in Users /\ request'[q].companies = SessionClaims(u)
  <2>1. role'[c][u] = "ADMIN"
    BY <1>3 DEF SessionClaims
  <2>2. QED
    BY <1>1, <1>3, <2>1, LimitGrows
<1>4. QED
  BY <1>2, <1>3 DEF SigningKept

\* What each step does with the clock and with signing.
LEMMA StepSigns ==
  ASSUME TypeInv, Step
  PROVE  clock' \in {clock, clock + 1} /\ SigningKept
<1> USE NoRequestType
<1>1. CASE Tick
  BY <1>1 DEF Tick, SigningKept, TypeInv, TypeOK
<1>2. CASE SecretsChange \/ \E u \in Users : Logout(u)
  BY <1>2 DEF SecretsChange, Logout, SigningKept
<1>3. ASSUME NEW q \in Requests, RequestGoesOn(q) \/ RequestFails(q)
      PROVE  clock' \in {clock, clock + 1} /\ SigningKept
  <2>1. CASE Refresh(q)
    BY <2>1, UserOfRequest DEF Refresh, RefreshedClaims, Goto, rows, SigningKept, TypeInv, TypeOK
  <2>2. CASE ~Refresh(q)
    <3>1. /\ clock' = clock
          /\ \E place : Goto(q, place) /\ place.pc # "sign"
      BY <1>3, <2>2 DEF RequestGoesOn, SetAuthCookies, LoadAuthSession, RefreshRefused,
         AfterRefusal, Join, JoinRefused, RequestFails
    <3>2. QED
      BY <3>1 DEF Goto, SigningKept, TypeInv, TypeOK
  <2>3. QED
    BY <2>1, <2>2
<1>4. ASSUME NEW q \in Pages, NEW u \in Users,
             GoogleCallback(q, u) \/ OpenPage(q, u) \/ \E c \in Companies : CreateCompany(q, u, c)
      PROVE  clock' \in {clock, clock + 1} /\ SigningKept
  BY <1>4 DEF GoogleCallback, OpenPage, CreateCompany, Goto, rows, SigningKept, Requests, TypeInv,
     TypeOK
<1>5. ASSUME NEW q \in Acceptances, NEW u \in Users, NEW i \in Invites, ReadInvite(q, u, i)
      PROVE  clock' \in {clock, clock + 1} /\ SigningKept
  BY <1>5 DEF ReadInvite, Goto, SigningKept, TypeInv, TypeOK
<1>6. ASSUME NEW u \in Users, NEW target \in Users, NEW c \in Companies,
             \/ RemoveMember(u, c, target)
             \/ \E r \in CompanyMembershipRole : ChangeRole(u, c, target, r)
             \/ \E r \in CompanyMembershipRole \cup {Undefined}, i \in Invites :
                   CreateInvite(u, c, target, r, i)
      PROVE  clock' \in {clock, clock + 1} /\ SigningKept
  BY <1>6 DEF RemoveMember, ChangeRole, CreateInvite, SigningKept
<1>7. QED
  BY <1>1, <1>2, <1>3, <1>4, <1>5, <1>6 DEF Step

LEMMA SetTokensOK ==
  ASSUME TypeInv, AuthorityInv, RememberAdmins, NEW q \in Requests, SetAuthCookies(q)
  PROVE  TokensOK'
<1> DEFINE u == request[q].user
           token == [companies |-> request[q].companies, expires |-> clock + AccessTtl,
                     good |-> TRUE]
<1>1. /\ u \in Users /\ clock' = clock /\ clock \in Nat /\ AccessTtl \in Nat
      /\ authToken' = [authToken EXCEPT ![u] = token]
  BY UserOfRequest, TtlAssumption DEF SetAuthCookies, TypeInv, TypeOK
<1>2. ASSUME NEW c \in Companies, request[q].companies[c] = "ADMIN"
      PROVE  clock + AccessTtl <= adminUntil'[c][u]
  <2>1. adminUntil[c][u] = clock + AccessTtl
    BY <1>2 DEF SetAuthCookies, AuthorityInv, SigningOK
  <2>2. QED
    BY <1>1, <2>1, LimitGrows
<1>3. authToken'[u] = token
  BY <1>1 DEF TypeInv, TypeOK
<1>4. ASSUME NEW v \in Users, v # u, authToken'[v] # None
      PROVE  /\ authToken'[v].expires <= clock' + AccessTtl
             /\ \A c \in Companies : authToken'[v].companies[c] = "ADMIN" =>
                   authToken'[v].expires <= adminUntil'[c][v]
  <2>1. authToken'[v] = authToken[v]
    BY <1>1, <1>4 DEF TypeInv, TypeOK
  <2>2. authToken[v].expires \in Nat
    BY <1>4, <2>1, TtlAssumption DEF TypeInv, TypeOK, Tokens
  <2>3. authToken[v].expires <= clock + AccessTtl
    BY <1>4, <2>1 DEF AuthorityInv, TokensOK
  <2>4. ASSUME NEW c \in Companies, authToken[v].companies[c] = "ADMIN"
        PROVE  authToken[v].expires <= adminUntil'[c][v]
    <3>1. authToken[v].expires <= adminUntil[c][v]
      BY <1>4, <2>1, <2>4 DEF AuthorityInv, TokensOK
    <3>2. QED
      BY <1>1, <2>2, <2>3, <3>1, LimitGrows
  <2>5. QED
    BY <1>1, <2>1, <2>3, <2>4
<1>5. QED
  BY <1>1, <1>2, <1>3, <1>4 DEF TokensOK

LEMMA NextAuthorityInv == TypeInv /\ AuthorityInv /\ [Next]_vars => AuthorityInv'
<1> SUFFICES ASSUME TypeInv, AuthorityInv, [Next]_vars
             PROVE  AuthorityInv'
  OBVIOUS
<1>1. CASE UNCHANGED vars
  BY <1>1 DEF vars, rows, cookies, AuthorityInv, Remembered, TokensOK, SigningOK
<1>2. CASE Next
  <2>1. RememberAdmins /\ Step
    BY <1>2 DEF Next
  <2>2. Remembered'
    BY <2>1, RememberedAgain
  <2>3. SigningOK' /\ clock' \in {clock, clock + 1}
    BY <2>1, StepSigns, KeptSigningOK
  <2>4. CASE \E q \in Requests : SetAuthCookies(q)
    BY <2>1, <2>2, <2>3, <2>4, SetTokensOK DEF AuthorityInv
  <2>5. CASE ~ \E q \in Requests : SetAuthCookies(q)
    <3>0. \A token : Dropped(token) # None => Dropped(token) = token
      BY DEF Dropped
    <3>1. ASSUME Tick
          PROVE  TokensKept
      <4>1. \A u \in Users : authToken'[u] = Dropped(authToken[u])
        BY <3>1 DEF Tick
      <4>2. QED
        BY <3>0, <4>1 DEF TokensKept
    <3>2. ASSUME SecretsChange
          PROVE  TokensKept
      <4>1. \A u \in Users : authToken'[u] = Spoiled(authToken[u])
        BY <3>2 DEF SecretsChange
      <4>2. \A token \in Tokens : /\ Spoiled(token).companies = token.companies
                                 /\ Spoiled(token).expires = token.expires
        BY DEF Spoiled, Tokens
      <4>3. Spoiled(None) = None
        BY DEF Spoiled
      <4>4. QED
        BY <4>1, <4>2, <4>3 DEF TokensKept, TypeInv, TypeOK
    <3>3. ASSUME NEW u \in Users, ClearCookies(u)
          PROVE  TokensKept
      BY <3>3 DEF ClearCookies, TokensKept, TypeInv, TypeOK
    <3>4. ASSUME authToken' = authToken
          PROVE  TokensKept
      BY <3>4 DEF TokensKept
    <3>5. ASSUME NEW q \in Requests, RequestGoesOn(q) \/ RequestFails(q)
          PROVE  TokensKept
      BY <2>5, <3>3, <3>4, <3>5, UserOfRequest DEF RequestGoesOn, LoadAuthSession, Refresh,
         RefreshRefused, AfterRefusal, Join, JoinRefused, RequestFails, cookies
    <3>6. TokensKept
      BY <2>1, <3>1, <3>2, <3>3, <3>4, <3>5 DEF Step, Logout, GoogleCallback, OpenPage,
         CreateCompany, ReadInvite, RemoveMember, ChangeRole, CreateInvite, cookies
    <3>7. QED
      BY <2>1, <2>2, <2>3, <3>6, KeptTokensOK DEF AuthorityInv
  <2>6. QED
    BY <2>4, <2>5
<1>3. QED
  BY <1>1, <1>2

\* Whoever is taken for an administrator was one no longer ago than an access
\* token lives.
THEOREM AdministratorsAreRecent == Spec => []AuthorityIsRecent
<1>1. TypeInv /\ AuthorityInv => AuthorityIsRecent
  <2> SUFFICES ASSUME TypeInv, AuthorityInv, NEW u \in Users, NEW c \in Companies,
                      Claim(u, c) = "ADMIN"
               PROVE  clock < adminUntil[c][u]
    BY DEF AuthorityIsRecent
  <2>1. Valid(authToken[u]) /\ authToken[u].companies[c] = "ADMIN"
    BY NoneAssumption, RoleAssumption DEF Claim
  <2>2. /\ clock < authToken[u].expires /\ authToken[u].expires <= adminUntil[c][u]
    BY <2>1 DEF Valid, AuthorityInv, TokensOK
  <2>3. clock \in Nat /\ authToken[u].expires \in Nat /\ adminUntil[c][u] \in Nat
    BY <2>1, TtlAssumption DEF Valid, TypeInv, TypeOK, Tokens
  <2>4. QED
    BY <2>2, <2>3
<1>2. QED
  BY <1>1, Typed, InitAuthorityInv, NextAuthorityInv, PTL DEF Spec

-----------------------------------------------------------------------------
(***************************************************************************)
(* Invitations.  Each membership that an invite made is one of today or    *)
(* was removed: an acceptance joins only where there is no membership.     *)
(***************************************************************************)
Memberships(c, u) == IF role[c][u] = None THEN 0 ELSE 1
LaterMemberships(c, u) == IF role'[c][u] = None THEN 0 ELSE 1

GrantInv ==
    \A i \in Invites :
        IF invite[i] = NoInvite THEN grants[i] = 0
        ELSE grants[i] <= removals[invite[i].companyId][invite[i].user]
                          + Memberships(invite[i].companyId, invite[i].user)

LEMMA InitGrantInv == Init => GrantInv
BY DEF Init, GrantInv

LEMMA InviteParts ==
  ASSUME TypeInv, NEW i \in Invites, invite[i] # NoInvite
  PROVE  /\ invite[i].companyId \in Companies /\ invite[i].user \in Users
         /\ invite[i].role \in CompanyMembershipRole
BY DEF TypeInv, TypeOK, InviteType

LEMMA RemoveGrantInv ==
  ASSUME TypeInv, GrantInv, NEW c \in Companies, NEW target \in Users,
         UNCHANGED <<invite, grants>>,
         \/ /\ \E r \in CompanyMembershipRole : role' = [role EXCEPT ![c][target] = r]
            /\ UNCHANGED removals
         \/ /\ role[c][target] # None
            /\ role' = [role EXCEPT ![c][target] = None]
            /\ removals' = [removals EXCEPT ![c][target] = removals[c][target] + 1]
  PROVE  GrantInv'
<1> USE NoneAssumption
<1>1. \A d \in Companies, u \in Users :
         /\ removals[d][u] \in Nat /\ removals'[d][u] \in Nat
         /\ Memberships(d, u) \in Nat /\ LaterMemberships(d, u) \in Nat
         /\ removals[d][u] + Memberships(d, u) <= removals'[d][u] + LaterMemberships(d, u)
  <2> TAKE d \in Companies, u \in Users
  <2>1. removals[d][u] \in Nat
    BY DEF TypeInv, TypeOK
  <2>2. CASE d = c /\ u = target
    <3>1. \/ role'[d][u] \in CompanyMembershipRole /\ removals'[d][u] = removals[d][u]
          \/ /\ role[d][u] # None /\ role'[d][u] = None
             /\ removals'[d][u] = removals[d][u] + 1
      BY <2>2 DEF TypeInv, TypeOK
    <3>2. QED
      BY <2>1, <3>1 DEF Memberships, LaterMemberships
  <2>3. CASE ~(d = c /\ u = target)
    <3>1. role'[d][u] = role[d][u] /\ removals'[d][u] = removals[d][u]
      BY <2>3 DEF TypeInv, TypeOK
    <3>2. QED
      BY <2>1, <3>1 DEF Memberships, LaterMemberships
  <2>4. QED
    BY <2>2, <2>3
<1>2. ASSUME NEW i \in Invites, invite[i] # NoInvite
      PROVE  grants'[i] <= removals'[invite[i].companyId][invite[i].user]
                           + LaterMemberships(invite[i].companyId, invite[i].user)
  <2> DEFINE d == invite[i].companyId
             u == invite[i].user
  <2>1. d \in Companies /\ u \in Users
    BY <1>2, InviteParts
  <2>2. grants[i] \in Nat /\ grants[i] <= removals[d][u] + Memberships(d, u)
    BY <1>2 DEF GrantInv, TypeInv, TypeOK
  <2>3. /\ removals[d][u] \in Nat /\ removals'[d][u] \in Nat
        /\ Memberships(d, u) \in Nat /\ LaterMemberships(d, u) \in Nat
        /\ removals[d][u] + Memberships(d, u) <= removals'[d][u] + LaterMemberships(d, u)
    BY <1>1, <2>1
  <2> HIDE DEF d, u
  <2>4. grants[i] <= removals'[d][u] + LaterMemberships(d, u)
    BY <2>2, <2>3
  <2>5. QED
    BY <2>4 DEF d, u
<1>3. QED
  BY <1>2 DEF GrantInv, Memberships, LaterMemberships

LEMMA CreateInviteGrantInv ==
  ASSUME TypeInv, GrantInv,
         NEW u \in Users, NEW target \in Users, NEW c \in Companies,
         NEW r \in CompanyMembershipRole \cup {Undefined}, NEW i \in Invites,
         CreateInvite(u, c, target, r, i)
  PROVE  GrantInv'
<1>1. /\ UNCHANGED <<role, grants, removals>>
      /\ grants[i] = 0 /\ \A k \in Invites : k # i => invite'[k] = invite[k]
      /\ invite'[i].companyId = c /\ invite'[i].user = target
  BY DEF CreateInvite, rows, history, GrantInv, TypeInv, TypeOK
<1>2. removals[c][target] \in Nat
  BY DEF TypeInv, TypeOK
<1>3. QED
  BY <1>1, <1>2 DEF GrantInv, Memberships, LaterMemberships

LEMMA JoinGrantInv ==
  ASSUME TypeInv, GrantInv, NEW q \in Requests, Join(q)
  PROVE  GrantInv'
<1> DEFINE i == request[q].invite
           c == invite[i].companyId
           u == invite[i].user
<1>1. /\ i \in Invites /\ invite[i] # NoInvite /\ c \in Companies /\ u \in Users
      /\ invite[i].role \in CompanyMembershipRole
  BY InviteOfRequest DEF Join
<1>2. /\ role[c][u] = None /\ role'[c][u] # None
      /\ \A d \in Companies, v \in Users : role[d][v] # None => role'[d][v] # None
      /\ removals' = removals
      /\ grants'[i] = grants[i] + 1
      /\ \A k \in Invites : k # i => grants'[k] = grants[k]
  BY <1>1, NoneAssumption DEF Join, MayJoin, TypeInv, TypeOK
<1>3. /\ \A k \in Invites : k # i => invite'[k] = invite[k]
      /\ invite'[i].companyId = c /\ invite'[i].user = u /\ invite'[i] # NoInvite
  <2>1. invite[i] \in [companyId : Companies, user : Users, role : CompanyMembershipRole,
                       expiresAt : 0 .. (MaxTime + InviteTtl), accepted : BOOLEAN]
    BY <1>1 DEF TypeInv, TypeOK, InviteType
  <2>2. invite'[i] = [invite[i] EXCEPT !.accepted = TRUE]
    BY <1>1 DEF Join, TypeInv, TypeOK
  <2>3. invite'[i].companyId = c /\ invite'[i].user = u
    BY <2>1, <2>2
  <2>4. invite'[i] # NoInvite
    BY <1>1, <2>3, NoneAssumption DEF NoInvite
  <2>5. QED
    BY <1>1, <2>3, <2>4 DEF Join, TypeInv, TypeOK
<1>4. ASSUME NEW d \in Companies, NEW v \in Users
      PROVE  /\ Memberships(d, v) \in Nat /\ LaterMemberships(d, v) \in Nat
             /\ Memberships(d, v) <= LaterMemberships(d, v)
             /\ removals[d][v] \in Nat
  BY <1>2 DEF Memberships, LaterMemberships, TypeInv, TypeOK
<1>5. grants'[i] <= removals'[c][u] + LaterMemberships(c, u)
  <2>1. grants[i] \in Nat /\ grants[i] <= removals[c][u] + Memberships(c, u)
    BY <1>1 DEF GrantInv, TypeInv, TypeOK
  <2>2. Memberships(c, u) = 0 /\ LaterMemberships(c, u) = 1
    BY <1>2 DEF Memberships, LaterMemberships
  <2>3. removals[c][u] \in Nat
    BY <1>1, <1>4
  <2> HIDE DEF i, c, u
  <2>4. QED
    BY <1>2, <2>1, <2>2, <2>3
<1>6. ASSUME NEW k \in Invites, k # i, invite[k] # NoInvite
      PROVE  grants[k] <= removals[invite[k].companyId][invite[k].user]
                          + LaterMemberships(invite[k].companyId, invite[k].user)
  <2> DEFINE d == invite[k].companyId
             v == invite[k].user
  <2>1. d \in Companies /\ v \in Users
    BY <1>6, InviteParts
  <2>2. grants[k] \in Nat /\ grants[k] <= removals[d][v] + Memberships(d, v)
    BY <1>6 DEF GrantInv, TypeInv, TypeOK
  <2>3. /\ Memberships(d, v) \in Nat /\ LaterMemberships(d, v) \in Nat
        /\ Memberships(d, v) <= LaterMemberships(d, v) /\ removals[d][v] \in Nat
    BY <1>4, <2>1
  <2> HIDE DEF d, v
  <2>4. grants[k] <= removals[d][v] + LaterMemberships(d, v)
    BY <2>2, <2>3
  <2>5. QED
    BY <2>4 DEF d, v
<1>7. QED
  <2> SUFFICES ASSUME NEW k \in Invites
               PROVE  IF invite'[k] = NoInvite THEN grants'[k] = 0
                      ELSE grants'[k] <= removals'[invite'[k].companyId][invite'[k].user]
                              + LaterMemberships(invite'[k].companyId, invite'[k].user)
    BY DEF GrantInv, Memberships, LaterMemberships
  <2>1. CASE k = i
    BY <1>3, <1>5, <2>1 DEF Memberships, LaterMemberships
  <2>2. CASE k # i
    BY <1>2, <1>3, <1>6, <2>2 DEF GrantInv, Memberships, LaterMemberships
  <2>3. QED
    BY <2>1, <2>2

LEMMA NextGrantInv == TypeInv /\ GrantInv /\ [Next]_vars => GrantInv'
<1> SUFFICES ASSUME TypeInv, GrantInv, [Next]_vars
             PROVE  GrantInv'
  OBVIOUS
<1>1. ASSUME UNCHANGED <<role, invite, grants, removals>>
      PROVE  GrantInv'
  BY <1>1 DEF GrantInv, Memberships, LaterMemberships
<1>2. ASSUME NEW q \in Requests, RequestGoesOn(q) \/ RequestFails(q)
      PROVE  GrantInv'
  BY <1>1, <1>2, JoinGrantInv DEF RequestGoesOn, SetAuthCookies, LoadAuthSession, Refresh,
     RefreshRefused, JoinRefused, RequestFails, rows, history
<1>3. ASSUME NEW u \in Users, NEW target \in Users, NEW c \in Companies,
             \/ RemoveMember(u, c, target)
             \/ \E r \in CompanyMembershipRole : ChangeRole(u, c, target, r)
      PROVE  GrantInv'
  BY <1>3, RemoveGrantInv DEF RemoveMember, ChangeRole, Manages, history
<1>4. ASSUME NEW q \in Pages, NEW u \in Users, NEW c \in Companies, CreateCompany(q, u, c)
      PROVE  GrantInv'
  BY <1>4, RoleAssumption, RemoveGrantInv DEF CreateCompany, history
<1>5. CASE UNCHANGED vars
  BY <1>1, <1>5 DEF vars, rows, history
<1>6. CASE Step
  BY <1>1, <1>2, <1>3, <1>4, <1>6, CreateInviteGrantInv DEF Step, Tick, SecretsChange, Logout,
     GoogleCallback, OpenPage, ReadInvite, rows, history
<1>7. QED
  BY <1>5, <1>6 DEF Next

\* An invitation makes one membership, and one more only for each removal of its
\* user: the lookup and the index decide, however many acceptances are in flight.
THEOREM InvitesGrantOnce == Spec => []InviteGrantsOnce
<1>1. TypeInv /\ GrantInv => InviteGrantsOnce
  <2> SUFFICES ASSUME TypeInv, GrantInv, NEW i \in Invites, grants[i] > 0
               PROVE  grants[i] <= 1 + removals[invite[i].companyId][invite[i].user]
    BY DEF InviteGrantsOnce
  <2>1. invite[i] # NoInvite
    BY DEF GrantInv
  <2>2. invite[i].companyId \in Companies /\ invite[i].user \in Users
    BY <2>1, InviteParts
  <2> DEFINE n == removals[invite[i].companyId][invite[i].user]
  <2>3. n \in Nat /\ grants[i] \in Nat
    BY <2>2 DEF TypeInv, TypeOK
  <2>4. grants[i] <= n \/ grants[i] <= n + 1
    BY <2>1, <2>3 DEF GrantInv, Memberships, LaterMemberships
  <2> HIDE DEF n
  <2>5. grants[i] <= 1 + n
    BY <2>3, <2>4
  <2>6. QED
    BY <2>5 DEF n
<1>2. QED
  BY <1>1, Typed, InitGrantInv, NextGrantInv, PTL DEF Spec

-----------------------------------------------------------------------------
(***************************************************************************)
(* Administrators                                                          *)
(***************************************************************************)
\* A company loses its last administrator only at the hands of a former one: no
\* one manages himself, so whoever demotes the last is none in the rows.
THEOREM FormerAdminsStrand == Spec => OnlyFormerAdminsStrand
<1> DEFINE Stranded(c) ==
      HasAdmin(c) /\ ~HasAdmin(c)' =>
         \E u \in Users : Claim(u, c) = "ADMIN" /\ role[c][u] # "ADMIN"
<1>1. ASSUME TypeInv, Step, NEW c \in Companies
      PROVE  Stranded(c)
  <2>1. ASSUME NEW u \in Users, NEW target \in Users, NEW d \in Companies, Manages(u, d, target),
               \E r \in CompanyMembershipRole \cup {None} : role' = [role EXCEPT ![d][target] = r]
        PROVE  Stranded(c)
    <3>1. CASE c # d \/ role[c][u] = "ADMIN"
      BY <1>1, <2>1, <3>1 DEF Manages, HasAdmin, TypeInv, TypeOK
    <3>2. CASE c = d /\ role[c][u] # "ADMIN"
      BY <2>1, <3>2 DEF Manages
    <3>3. QED
      BY <3>1, <3>2
  <2>2. ASSUME \A u \in Users : role[c][u] = "ADMIN" => role'[c][u] = "ADMIN"
        PROVE  Stranded(c)
    BY <2>2 DEF HasAdmin
  <2>3. ASSUME NEW q \in Requests, RequestGoesOn(q) \/ RequestFails(q)
        PROVE  Stranded(c)
    <3>1. CASE Join(q)
      BY <1>1, <2>2, <3>1, InviteOfRequest, NoneAssumption, RoleAssumption
         DEF Join, MayJoin, TypeInv, TypeOK
    <3>2. CASE ~Join(q)
      BY <2>2, <2>3, <3>2 DEF RequestGoesOn, SetAuthCookies, LoadAuthSession, Refresh,
         RefreshRefused, JoinRefused, RequestFails, rows
    <3>3. QED
      BY <3>1, <3>2
  <2>4. ASSUME NEW q \in Pages, NEW u \in Users, NEW d \in Companies, CreateCompany(q, u, d)
        PROVE  Stranded(c)
    BY <1>1, <2>2, <2>4 DEF CreateCompany, TypeInv, TypeOK
  <2>5. ASSUME NEW u \in Users, NEW target \in Users, NEW d \in Companies,
               \/ RemoveMember(u, d, target)
               \/ \E r \in CompanyMembershipRole : ChangeRole(u, d, target, r)
        PROVE  Stranded(c)
    BY <2>1, <2>5 DEF RemoveMember, ChangeRole
  <2>6. CASE UNCHANGED role
    BY <2>2, <2>6
  <2>7. QED
    BY <1>1, <2>3, <2>4, <2>5, <2>6 DEF Step, Tick, SecretsChange, Logout, GoogleCallback, OpenPage,
       ReadInvite, CreateInvite, rows
<1>2. TypeInv /\ [Next]_vars =>
        [\A c \in Companies :
            HasAdmin(c) /\ ~HasAdmin(c)' =>
               \E u \in Users : Claim(u, c) = "ADMIN" /\ role[c][u] # "ADMIN"]_vars
  BY <1>1 DEF Next
<1>3. QED
  BY <1>2, Typed, PTL DEF Spec, OnlyFormerAdminsStrand
=============================================================================
