-------------------------------- MODULE Access --------------------------------
(***************************************************************************)
(* Who may do what: sign-in with Google, the two tokens in the cookies of a *)
(* browser and their refresh, members of companies and invitations.        *)
(* Source: apps/api/src/routes/auth/google.ts, plugins/auth.ts,            *)
(* routes/members.ts, routes/companies.ts (creation), and of the web       *)
(* application lib/auth.ts and app/api/session.                            *)
(*                                                                         *)
(* A token carries the roles its user had when it was issued, and the API  *)
(* goes by the token, not by the rows.  The unit of time is such that a    *)
(* handler of members takes less, and so does the issue of tokens after    *)
(* the rows were read.  A user has one browser, with any number of pages.  *)
(***************************************************************************)
EXTENDS Naturals

CONSTANTS
    Users, Companies, Invites,
    Pages, Acceptances,         \* pages being loaded, acceptances in flight
    AccessTtl, RefreshTtl,      \* life of the two tokens and of their cookies
    InviteTtl,
    CompanyMembershipRole,
    MaxTime,                    \* bound
    None, Undefined

ASSUME TtlAssumption ==
    /\ AccessTtl \in Nat \ {0} /\ RefreshTtl \in Nat /\ InviteTtl \in Nat
    /\ MaxTime \in Nat

\* ADMIN, ACCOUNTANT and VIEWER; the last two are told apart by other routes.
ASSUME RoleAssumption == {"ADMIN", "VIEWER"} \subseteq CompanyMembershipRole
ASSUME NoneAssumption == None \notin CompanyMembershipRole \cup Users \cup Companies

Requests == Pages \cup Acceptances

VARIABLES
    clock,
    \* Company and CompanyMembership: None where there is no row
    founded, role,
    \* UserInvite
    invite,
    \* the cookies auth_token and refresh_token of each user's browser
    authToken, refreshToken,
    request,
    \* history: until when a token may be used that was issued when its user was
    \* last an administrator; memberships made by each invite; removals
    adminUntil, grants, removals

cookies == <<authToken, refreshToken>>
rows == <<founded, role>>
history == <<grants, removals>>
vars == <<clock, rows, invite, cookies, request, adminUntil, history>>

Claims == [Companies -> CompanyMembershipRole \cup {None}]
Tokens == [companies : Claims, expires : 0 .. (MaxTime + AccessTtl + RefreshTtl),
           good : BOOLEAN]  \* signed with the secrets of now
NoRequest == [pc |-> "idle"]
NoInvite == [companyId |-> None]

Init ==
    /\ clock = 0
    /\ founded = {}
    /\ role = [c \in Companies |-> [u \in Users |-> None]]
    /\ invite = [i \in Invites |-> NoInvite]
    /\ authToken = [u \in Users |-> None]
    /\ refreshToken = [u \in Users |-> None]
    /\ request = [q \in Requests |-> NoRequest]
    /\ adminUntil = [c \in Companies |-> [u \in Users |-> 0]]
    /\ grants = [i \in Invites |-> 0]
    /\ removals = [c \in Companies |-> [u \in Users |-> 0]]

-----------------------------------------------------------------------------
(***************************************************************************)
(* Tokens                                                                  *)
(***************************************************************************)
Valid(token) == token # None /\ clock < token.expires /\ token.good

\* The role of the claims that a handler finds in the token of its request.
Claim(u, c) == IF Valid(authToken[u]) THEN authToken[u].companies[c] ELSE None

\* Browsers drop cookies at the time at which their tokens expire.
Dropped(token) == IF token # None /\ clock + 1 < token.expires THEN token ELSE None

Tick ==
    /\ clock < MaxTime
    /\ \A q \in Requests : request[q].pc # "sign"
    /\ clock' = clock + 1
    /\ authToken' = [u \in Users |-> Dropped(authToken[u])]
    /\ refreshToken' = [u \in Users |-> Dropped(refreshToken[u])]
    /\ UNCHANGED <<rows, invite, request, history>>

\* A restart with other secrets: cookies are kept, and no token is good.
Spoiled(token) == IF token = None THEN None ELSE [token EXCEPT !.good = FALSE]

SecretsChange ==
    /\ authToken' = [u \in Users |-> Spoiled(authToken[u])]
    /\ refreshToken' = [u \in Users |-> Spoiled(refreshToken[u])]
    /\ UNCHANGED <<clock, rows, invite, request, history>>

-----------------------------------------------------------------------------
(***************************************************************************)
(* Sign-in, pages and sign-out                                             *)
(***************************************************************************)
Goto(q, place) == request' = [request EXCEPT ![q] = place]

\* loadUserSession: the roles in the rows, of which the tokens are made.
SessionClaims(u) == [c \in Companies |-> role[c][u]]

\* The callback of Google, which finds or makes the row of the user; such rows
\* are never deleted, and nothing else of them is seen here.
GoogleCallback(q, u) ==
    /\ request[q] = NoRequest
    /\ Goto(q, [pc |-> "sign", user |-> u, companies |-> SessionClaims(u)])
    /\ UNCHANGED <<clock, rows, invite, cookies, history>>

\* The tokens are signed and their cookies set, and a page follows.
SetAuthCookies(q) ==
    LET u == request[q].user
        Token(ttl) == [companies |-> request[q].companies, expires |-> clock + ttl, good |-> TRUE]
    IN
    /\ request[q].pc = "sign"
    /\ authToken' = [authToken EXCEPT ![u] = Token(AccessTtl)]
    /\ refreshToken' = [refreshToken EXCEPT ![u] = Token(RefreshTtl)]
    /\ Goto(q, [pc |-> "load", user |-> u])
    /\ UNCHANGED <<clock, rows, invite, history>>

OpenPage(q, u) ==
    /\ request[q] = NoRequest
    /\ Goto(q, [pc |-> "load", user |-> u])
    /\ UNCHANGED <<clock, rows, invite, cookies, history>>

\* requireAuthSession, with /auth/me: the page is shown, or it leads to the
\* refresh of the session or to the login.
LoadAuthSession(q) ==
    LET u == request[q].user IN
    /\ request[q].pc = "load"
    /\ IF ~Valid(authToken[u]) /\ refreshToken[u] # None
       THEN Goto(q, [pc |-> "refresh", user |-> u])
       ELSE Goto(q, NoRequest)
    /\ UNCHANGED <<clock, rows, invite, cookies, history>>

\* Mutant: the claims are taken over from the refresh token.
RefreshedClaimsKept(u) == refreshToken[u].companies

RefreshedClaims(u) == SessionClaims(u)

Refresh(q) ==
    LET u == request[q].user IN
    /\ request[q].pc = "refresh"
    /\ Valid(refreshToken[u])
    /\ Goto(q, [pc |-> "sign", user |-> u, companies |-> RefreshedClaims(u)])
    /\ UNCHANGED <<clock, rows, invite, cookies, history>>

ClearCookies(u) ==
    /\ authToken' = [authToken EXCEPT ![u] = None]
    /\ refreshToken' = [refreshToken EXCEPT ![u] = None]

\* Mutant: a refused refresh leads back to the page, with the cookies there were.
AfterRefusalRetry(q) ==
    /\ Goto(q, [pc |-> "load", user |-> request[q].user])
    /\ UNCHANGED cookies

AfterRefusal(q) == Goto(q, NoRequest) /\ ClearCookies(request[q].user)

RefreshRefused(q) ==
    LET u == request[q].user IN
    /\ request[q].pc = "refresh"
    /\ ~Valid(refreshToken[u])
    /\ AfterRefusal(q)
    /\ UNCHANGED <<clock, rows, invite, history>>

\* Nothing is kept of tokens: a page that is being refreshed sets its cookies.
Logout(u) ==
    /\ ClearCookies(u)
    /\ UNCHANGED <<clock, rows, invite, request, history>>

RequestFails(q) ==
    /\ request[q] # NoRequest
    /\ Goto(q, NoRequest)
    /\ UNCHANGED <<clock, rows, invite, cookies, history>>

-----------------------------------------------------------------------------
(***************************************************************************)
(* Companies and members                                                   *)
(***************************************************************************)
\* The company comes with its first administrator, and the form then has the
\* session refreshed.
CreateCompany(q, u, c) ==
    /\ request[q] = NoRequest
    /\ Valid(authToken[u])
    /\ c \notin founded
    /\ founded' = founded \cup {c}
    /\ role' = [role EXCEPT ![c][u] = "ADMIN"]
    /\ Goto(q, [pc |-> "refresh", user |-> u])
    /\ UNCHANGED <<clock, invite, cookies, history>>

\* Mutant: administrators may change and remove themselves.
ManagesAnyone(u, c, target) == Claim(u, c) = "ADMIN" /\ role[c][target] # None

Manages(u, c, target) ==
    Claim(u, c) = "ADMIN" /\ target # u /\ role[c][target] # None

ChangeRole(u, c, target, r) ==
    /\ Manages(u, c, target)
    /\ role' = [role EXCEPT ![c][target] = r]
    /\ UNCHANGED <<clock, founded, invite, cookies, request, history>>

RemoveMember(u, c, target) ==
    /\ Manages(u, c, target)
    /\ role' = [role EXCEPT ![c][target] = None]
    /\ removals' = [removals EXCEPT ![c][target] = @ + 1]
    /\ UNCHANGED <<clock, founded, invite, cookies, request, grants>>

InvitedRole(r) == IF r = Undefined THEN "VIEWER" ELSE r

\* Invites are for an address; the user it belongs to may register later.
CreateInvite(u, c, target, r, i) ==
    /\ Claim(u, c) = "ADMIN"
    /\ role[c][target] = None
    /\ invite[i] = NoInvite
    /\ invite' = [invite EXCEPT ![i] =
          [companyId |-> c, user |-> target, role |-> InvitedRole(r),
           expiresAt |-> clock + InviteTtl, accepted |-> FALSE]]
    /\ UNCHANGED <<clock, rows, cookies, request, history>>

ReadInvite(q, u, i) ==
    /\ request[q] = NoRequest
    /\ Valid(authToken[u])
    /\ invite[i] # NoInvite
    /\ ~invite[i].accepted /\ clock <= invite[i].expiresAt
    /\ invite[i].user = u
    /\ Goto(q, [pc |-> "join", invite |-> i])
    /\ UNCHANGED <<clock, rows, invite, cookies, history>>

\* Mutant: the membership is upserted.
MayJoinAlways(i) == TRUE

\* One membership for a company and a user, by the look-up and the index.
MayJoin(i) == role[invite[i].companyId][invite[i].user] = None

Join(q) ==
    LET i == request[q].invite IN
    /\ request[q].pc = "join"
    /\ MayJoin(i)
    /\ role' = [role EXCEPT ![invite[i].companyId][invite[i].user] = invite[i].role]
    /\ invite' = [invite EXCEPT ![i].accepted = TRUE]
    /\ grants' = [grants EXCEPT ![i] = @ + 1]
    /\ Goto(q, NoRequest)
    /\ UNCHANGED <<clock, founded, cookies, removals>>

JoinRefused(q) ==
    /\ request[q].pc = "join"
    /\ ~MayJoin(request[q].invite)
    /\ Goto(q, NoRequest)
    /\ UNCHANGED <<clock, rows, invite, cookies, history>>

-----------------------------------------------------------------------------
RequestGoesOn(q) ==
    \/ SetAuthCookies(q) \/ LoadAuthSession(q) \/ Refresh(q) \/ RefreshRefused(q)
    \/ Join(q) \/ JoinRefused(q)

Step ==
    \/ Tick \/ SecretsChange
    \/ \E u \in Users : Logout(u)
    \/ \E q \in Requests : RequestGoesOn(q) \/ RequestFails(q)
    \/ \E q \in Pages, u \in Users :
          GoogleCallback(q, u) \/ OpenPage(q, u) \/ \E c \in Companies : CreateCompany(q, u, c)
    \/ \E q \in Acceptances, u \in Users, i \in Invites : ReadInvite(q, u, i)
    \/ \E u, target \in Users, c \in Companies :
          \/ RemoveMember(u, c, target)
          \/ \E r \in CompanyMembershipRole : ChangeRole(u, c, target, r)
          \/ \E r \in CompanyMembershipRole \cup {Undefined}, i \in Invites :
                CreateInvite(u, c, target, r, i)

RememberAdmins ==
    adminUntil' = [c \in Companies |-> [u \in Users |->
        IF role'[c][u] = "ADMIN" THEN clock' + AccessTtl ELSE adminUntil[c][u]]]

Next == Step /\ RememberAdmins

Spec == Init /\ [][Next]_vars

\* The API answers, and the browser follows where it is sent.
FairSpec == Spec /\ \A q \in Pages : WF_vars(RequestGoesOn(q) /\ RememberAdmins)

-----------------------------------------------------------------------------
(***************************************************************************)
(* Properties                                                              *)
(***************************************************************************)
RequestType ==
    {NoRequest}
    \cup [pc : {"load", "refresh"}, user : Users]
    \cup [pc : {"sign"}, user : Users, companies : Claims]
    \cup [pc : {"join"}, invite : Invites]

InviteType ==
    {NoInvite} \cup
    [companyId : Companies, user : Users, role : CompanyMembershipRole,
     expiresAt : 0 .. (MaxTime + InviteTtl), accepted : BOOLEAN]

\* Rows, tokens and requests keep to their types.
TypeOK ==
    /\ clock \in 0..MaxTime
    /\ founded \subseteq Companies
    /\ role \in [Companies -> [Users -> CompanyMembershipRole \cup {None}]]
    /\ invite \in [Invites -> InviteType]
    /\ authToken \in [Users -> Tokens \cup {None}]
    /\ refreshToken \in [Users -> Tokens \cup {None}]
    /\ request \in [Requests -> RequestType]
    /\ adminUntil \in [Companies -> [Users -> 0 .. (MaxTime + AccessTtl)]]
    /\ grants \in [Invites -> Nat]
    /\ removals \in [Companies -> [Users -> Nat]]

\* Whoever is taken for an administrator was one in the database no longer ago
\* than an access token lives, however often the session was refreshed.
AuthorityIsRecent ==
    \A u \in Users, c \in Companies :
       Claim(u, c) = "ADMIN" => clock < adminUntil[c][u]

\* An invitation makes one membership, and another only if its user was
\* removed while an acceptance was in flight.
InviteGrantsOnce ==
    \A i \in Invites :
       grants[i] > 0 => grants[i] <= 1 + removals[invite[i].companyId][invite[i].user]

HasAdmin(c) == \E u \in Users : role[c][u] = "ADMIN"

\* A company loses its last administrator only at the hands of a former one,
\* whose token still says ADMIN: two administrators who demote one another.
OnlyFormerAdminsStrand ==
    [][\A c \in Companies :
          HasAdmin(c) /\ ~HasAdmin(c)' =>
             \E u \in Users : Claim(u, c) = "ADMIN" /\ role[c][u] # "ADMIN"]_vars

\* A page is shown or ends at the login, whatever cookies the browser has: it
\* is not sent back and forth between the page and the refresh.
PageIsDecided == \A q \in Pages : request[q] # NoRequest ~> request[q] = NoRequest
=============================================================================
