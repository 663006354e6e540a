------------------------------ MODULE KsefSession ------------------------------
(***************************************************************************)
(* The KSeF credentials of a company, the sessions cached from them, and the *)
(* requests that use them: from the button and its confirmation over the    *)
(* session in the database and the authentication with KSeF to the calls of *)
(* the KSeF client.                                                         *)
(* Source: packages/ksef-client/src/client.ts, apps/api/src/services/       *)
(* ksef.service.ts (sessions), ksef-incoming.service.ts (calls),            *)
(* routes/companies.ts (KSeF settings), and of the web application          *)
(* KsefSettingsForm, KsefSyncButton, InvoiceActions (confirmation).         *)
(*                                                                         *)
(* One company.  What a submission or a synchronization does to invoices is *)
(* in KsefSubmission and IncomingInvoice; here a request is the chain of    *)
(* its calls.  Encryption of what is stored is left out.                    *)
(***************************************************************************)
EXTENDS Naturals

CONSTANTS
    Requests,               \* pages of the browser, each with one request at most
    Admins,                 \* administrators' calls that change the settings
    Tokens,                 \* API tokens of the KSeF portal
    EnvironmentOf,          \* the environment that a token is made for
    EnvironmentVariable,    \* KSEF_AUTH_TOKEN, or NoToken
    NoToken,
    LegacyCookie,           \* the browser's active_ksef_environment_<company>, or NoToken:
                            \* nothing of the application writes it any more
    MaxFaults, MaxChanges   \* bounds: failed calls; changes of settings and revocations

Environments == {"TEST", "PRODUCTION"}

ASSUME TokenAssumption ==
    /\ NoToken \notin Tokens
    /\ EnvironmentOf \in [Tokens -> Environments]
    /\ EnvironmentVariable \in Tokens \cup {NoToken}
    /\ EnvironmentVariable # NoToken => EnvironmentOf[EnvironmentVariable] = "TEST"
    /\ LegacyCookie \in Environments \cup {NoToken}
ASSUME BoundAssumption == MaxFaults \in Nat /\ MaxChanges \in Nat

VARIABLES
    credential,     \* CompanyKsefCredential, by environment
    company,        \* Company.ksefEnv and Company.ksefTokenEnc
    session,        \* KsefSession, by environment
    revoked,        \* KSeF: tokens revoked in the portal
    request, admin,
    faults, changes,
    \* history (and the fields `late` of requests and sessions): whether a token was
    \* posted to another environment than its own; whether a save wrote to a company
    \* whose default had become another than the one it saw; copies of an invoice
    \* that a request has sent, and whether the loss of an answer looked like a 401
    strayed, crossed, copies, misread

settings == <<credential, company, session>>
history == <<strayed, crossed, copies, misread>>
sessionVars == <<settings, revoked, request, admin, faults, changes, history>>

NoSession == [token |-> NoToken, fresh |-> FALSE, late |-> FALSE]

Kinds == {"submit", "sync", "status"}
Authenticating == {"keys", "challenge", "post", "poll", "redeem", "store"}
Calling == {"open", "send", "close", "accept", "query", "fetch", "status"}
NoRequest == [at |-> "idle", env |-> "TEST", shown |-> "TEST", active |-> "TEST",
              kind |-> "status", call |-> "status", token |-> NoToken, retried |-> FALSE,
              late |-> FALSE]
NoChange == [at |-> "idle", env |-> "TEST", token |-> NoToken, isDefault |-> FALSE]

Stored == [Environments -> Tokens \cup {NoToken}]
OwnToken(stored) == \A e \in Environments : stored[e] # NoToken => EnvironmentOf[stored[e]] = e

SessionInit ==
    /\ credential \in {stored \in Stored : OwnToken(stored)}
    /\ company \in {[env |-> e, token |-> credential[e]] : e \in Environments}
    /\ session = [e \in Environments |-> NoSession]
    /\ revoked = {}
    /\ request = [w \in Requests |-> NoRequest]
    /\ admin = [a \in Admins |-> NoChange]
    /\ faults = 0 /\ changes = 0
    /\ strayed = FALSE /\ crossed = FALSE
    /\ copies = [w \in Requests |-> 0]
    /\ misread = [w \in Requests |-> FALSE]

-----------------------------------------------------------------------------
(***************************************************************************)
(* The page, its buttons and the confirmation                              *)
(***************************************************************************)
With(w, r) == request' = [request EXCEPT ![w] = r]
Goto(w, place) == With(w, [request[w] EXCEPT !.at = place])
Done(w) == With(w, [NoRequest EXCEPT !.active = request[w].active])

\* getActiveKsefEnvironment: the cookie, if any, or the company's default.
ActiveEnvironment == IF LegacyCookie \in Environments THEN LegacyCookie ELSE company.env

\* A page is loaded, or loaded again while one of its dialogs is open.
OpenPage(w) ==
    /\ request[w].at \in {"idle", "asking"}
    /\ With(w, [request[w] EXCEPT !.active = ActiveEnvironment])
    /\ UNCHANGED <<settings, revoked, admin, faults, changes, history>>

\* The first step in KSeF of a request, once it has an access token.
FirstCall(kind) == CASE kind = "submit" -> "open" [] kind = "sync" -> "query" [] kind = "status" -> "status"

\* Submissions and synchronizations in production are confirmed; the others start.
\* `shown` is the environment on the page when the button was pressed.
Press(w, kind) ==
    LET env == request[w].active IN
    /\ request[w].at = "idle"
    /\ With(w, [NoRequest EXCEPT
                    !.at = IF env = "PRODUCTION" /\ kind # "status" THEN "asking" ELSE "lookup",
                    !.env = env, !.shown = env, !.active = env,
                    !.kind = kind, !.call = FirstCall(kind)])
    /\ copies' = [copies EXCEPT ![w] = 0]
    /\ misread' = [misread EXCEPT ![w] = FALSE]
    /\ UNCHANGED <<settings, revoked, admin, faults, changes, strayed, crossed>>

\* Mutant: the dialog forgets what was pending and takes the page's environment.
ConfirmedEnvironmentOfPage(w) == request[w].active
ConfirmedEnvironment(w) == request[w].env

Confirm(w) ==
    /\ request[w].at = "asking"
    /\ With(w, [request[w] EXCEPT !.at = "lookup", !.env = ConfirmedEnvironment(w)])
    /\ UNCHANGED <<settings, revoked, admin, faults, changes, history>>

Cancel(w) ==
    /\ request[w].at = "asking"
    /\ Done(w)
    /\ UNCHANGED <<settings, revoked, admin, faults, changes, history>>

-----------------------------------------------------------------------------
(***************************************************************************)
(* The session in the database                                             *)
(***************************************************************************)
\* Mutant: a session in the table is used whatever its expiry.
UsableAnyAge(e) == session[e] # NoSession
\* expiresAt lies more than five minutes ahead.
Usable(e) == session[e] # NoSession /\ session[e].fresh

\* getOrCreateKsefSession: the session to refresh, or a new one.
LookUp(w) ==
    LET e == request[w].env IN
    /\ request[w].at = "lookup"
    /\ IF Usable(e)
       THEN With(w, [request[w] EXCEPT !.at = "touch", !.token = session[e].token])
       ELSE Goto(w, "load")
    /\ UNCHANGED <<settings, revoked, admin, faults, changes, history>>

\* lastUsedAt is written; the update fails when the row has gone.
Touch(w) ==
    /\ request[w].at = "touch"
    /\ IF session[request[w].env] = NoSession THEN Done(w) ELSE Goto(w, "refresh")
    /\ UNCHANGED <<settings, revoked, admin, faults, changes, history>>

LegacyToken(e) == IF company.env = e THEN company.token ELSE NoToken

\* loadCompanyKsefAuthConfiguration
TokenFor(e) ==
    IF credential[e] # NoToken THEN credential[e]
    ELSE IF LegacyToken(e) # NoToken THEN LegacyToken(e)
    ELSE IF e = "TEST" THEN EnvironmentVariable ELSE NoToken

LoadToken(w) ==
    LET token == TokenFor(request[w].env) IN
    /\ request[w].at = "load"
    /\ IF token = NoToken
       THEN Done(w)
       ELSE With(w, [request[w] EXCEPT !.at = "keys", !.token = token])
    /\ UNCHANGED <<settings, revoked, admin, faults, changes, history>>

-----------------------------------------------------------------------------
(***************************************************************************)
(* Authentication with KSeF: every call is answered, or fails the request   *)
(***************************************************************************)
\* KSeF knows neither revoked tokens nor those of its other environment.
Known(w) ==
    /\ request[w].token \notin revoked
    /\ EnvironmentOf[request[w].token] = request[w].env

KsefAnswers(w, at, next) ==
    /\ request[w].at = at
    /\ Goto(w, next)
    /\ UNCHANGED <<settings, revoked, admin, faults, changes>>

KsefRefuses(w) ==
    /\ ~Known(w)
    /\ Done(w)
    /\ UNCHANGED <<settings, revoked, admin, faults, changes>>

\* refreshAuthSession; its refusal fails the request, and the row stays.
Refresh(w) ==
    /\ request[w].at = "refresh"
    /\ \/ Known(w) /\ KsefAnswers(w, "refresh", request[w].call)
       \/ KsefRefuses(w)
    /\ UNCHANGED history

\* Certificates are fetched by every new client; the caches of one client end with it.
FetchPublicKeys(w) == KsefAnswers(w, "keys", "challenge") /\ UNCHANGED history

GetChallenge(w) == KsefAnswers(w, "challenge", "post") /\ UNCHANGED history

PostToken(w) ==
    /\ request[w].at = "post"
    /\ KsefAnswers(w, "post", "poll") \/ KsefRefuses(w)
    /\ strayed' = (strayed \/ EnvironmentOf[request[w].token] # request[w].env)
    /\ UNCHANGED <<crossed, copies, misread>>

\* 200 or 400; anything else is asked again, and a timeout fails the request.
PollAuthStatus(w) ==
    /\ request[w].at = "poll"
    /\ \/ Known(w) /\ KsefAnswers(w, "poll", "redeem")
       \/ KsefRefuses(w)
    /\ UNCHANGED history

Redeem(w) == KsefAnswers(w, "redeem", "store") /\ UNCHANGED history

\* initKsefSession stores what it has got and goes on to the call.
StoreSession(w) ==
    LET e == request[w].env IN
    /\ request[w].at = "store"
    /\ session' = [session EXCEPT ![e] = [token |-> request[w].token, fresh |-> TRUE,
                                               late |-> request[w].late]]
    /\ With(w, [request[w] EXCEPT !.at = request[w].call, !.late = FALSE])
    /\ UNCHANGED <<credential, company, revoked, admin, faults, changes, history>>

-----------------------------------------------------------------------------
(***************************************************************************)
(* Calls with the access token                                             *)
(***************************************************************************)
\* What follows a call that is answered.  A synchronization reads page after
\* page and fetches the invoices it does not know.
Following(at) ==
    CASE at = "open" -> {"send"} [] at = "close" -> {"accept"}
      [] at = "query" -> {"query", "fetch", "idle"} [] at = "fetch" -> {"fetch", "query", "idle"}
      [] at \in {"accept", "status"} -> {"idle"}

\* A synchronization tries each of its calls twice, so it starts anew with the next.
Call(w) ==
    /\ request[w].at \in Calling \ {"send"}
    /\ \E next \in Following(request[w].at) :
           IF next = "idle" THEN Done(w) ELSE
           With(w, [request[w] EXCEPT
                        !.at = next,
                        !.call = IF request[w].kind = "sync" THEN next ELSE @,
                        !.retried = IF request[w].kind = "sync" THEN FALSE ELSE @])
    /\ UNCHANGED <<settings, revoked, admin, faults, changes, history>>

\* The invoice is sent, and KSeF has it from then on.
SendInvoice(w) ==
    /\ KsefAnswers(w, "send", "close")
    /\ copies' = [copies EXCEPT ![w] = @ + 1]
    /\ UNCHANGED <<strayed, crossed, misread>>

Fault ==
    /\ faults < MaxFaults
    /\ faults' = faults + 1
    /\ UNCHANGED <<settings, revoked, admin, changes>>

\* A call fails before KSeF has done anything, or its answer is unusable.  The
\* client ignores that when it closes the session and waits for acceptance.
CallFails(w) ==
    /\ request[w].at \in Authenticating \cup Calling \cup {"refresh"}
    /\ Fault
    /\ IF request[w].at = "close" THEN Goto(w, "accept") ELSE Done(w)
    /\ UNCHANGED history

\* The first try of a submission, and of each call of a synchronization, is
\* followed by a new authentication; the client opens a new session then.
Reauthenticate(w) ==
    IF request[w].kind # "status" /\ ~request[w].retried
    THEN With(w, [request[w] EXCEPT !.at = "load", !.retried = TRUE])
    ELSE Done(w)

\* KSeF answers 401, for the access token has expired.
Unauthorized(w) ==
    /\ request[w].at \in Calling \ {"close", "accept"}
    /\ Fault
    /\ Reauthenticate(w)
    /\ UNCHANGED history

\* Mutant: every failure of the first try is tried again.
LooksLikeUnauthorizedAlways(text) == TRUE
\* Whether "401" or "unauthori" is somewhere in the text of an error: in the
\* status, in the body, or in the address, which holds the session's reference.
LooksLikeUnauthorized(text) == text = "has401"

\* The invoice has been sent, and the answer is lost.
AnswerLost(w, text) ==
    /\ request[w].at = "send"
    /\ Fault
    /\ copies' = [copies EXCEPT ![w] = @ + 1]
    /\ misread' = [misread EXCEPT ![w] = @ \/ text = "has401"]
    /\ IF LooksLikeUnauthorized(text) THEN Reauthenticate(w) ELSE Done(w)
    /\ UNCHANGED <<strayed, crossed>>

-----------------------------------------------------------------------------
(***************************************************************************)
(* Settings                                                                *)
(***************************************************************************)
\* What an administrator pastes into the form of an environment, and the page
\* sends with the header of the same environment.
Pasted(e) == {t \in Tokens \ {EnvironmentVariable} : EnvironmentOf[t] = e}

Change(a, c) == admin' = [admin EXCEPT ![a] = c]
Begin(a) == admin[a].at = "idle" /\ changes < MaxChanges /\ changes' = changes + 1
Unlocked(e) == \A b \in Admins : ~(admin[b].at = "saving" /\ admin[b].env = e)

\* PUT ksef-credentials: the transaction writes the credential, which locks it,
\* and reads the company.
SaveCredential(a, e, t) ==
    /\ Begin(a) /\ Unlocked(e)
    /\ Change(a, [at |-> "saving", env |-> e, token |-> t, isDefault |-> company.env = e])
    /\ UNCHANGED <<settings, revoked, request, faults, history>>

\* Mutant: the sessions of the old credential are kept.
SessionsKept(e) == session
SessionsWithout(e) == [session EXCEPT ![e] = NoSession]

\* What a save does to its environment; `late` is history.
Saved(e, t) ==
    /\ credential' = [credential EXCEPT ![e] = t]
    /\ session' = SessionsWithout(e)
    /\ request' = [w \in Requests |->
           IF request[w].at \in Authenticating /\ request[w].env = e
           THEN [request[w] EXCEPT !.late = TRUE] ELSE request[w]]

\* It writes the company, if that was its default, deletes the session, and commits.
CommitCredential(a) ==
    LET c == admin[a] IN
    /\ c.at = "saving"
    /\ Saved(c.env, c.token)
    /\ company' = IF c.isDefault THEN [company EXCEPT !.token = c.token] ELSE company
    /\ crossed' = (crossed \/ (c.isDefault /\ company.env # c.env))
    /\ Change(a, NoChange)
    /\ UNCHANGED <<revoked, faults, changes, strayed, copies, misread>>

\* PATCH ksef-settings, of the earlier form.
SaveSettings(a, e, t) ==
    /\ Begin(a) /\ Unlocked(e)
    /\ Saved(e, t)
    /\ company' = [env |-> e, token |-> t]
    /\ UNCHANGED <<revoked, admin, faults, history>>

\* PATCH ksef-default-environment reads a credential, and then writes the company.
ReadCredential(a, e) ==
    /\ Begin(a)
    /\ Change(a, [at |-> "switching", env |-> e, token |-> credential[e], isDefault |-> FALSE])
    /\ UNCHANGED <<settings, revoked, request, faults, history>>

WriteDefault(a) ==
    /\ admin[a].at = "switching"
    /\ company' = [env |-> admin[a].env, token |-> admin[a].token]
    /\ Change(a, NoChange)
    /\ UNCHANGED <<credential, session, revoked, request, faults, changes, history>>

\* Time: less than five minutes are left to a session.
SessionExpires(e) ==
    /\ session[e].fresh
    /\ session' = [session EXCEPT ![e].fresh = FALSE]
    /\ UNCHANGED <<credential, company, revoked, request, admin, faults, changes, history>>

\* A token is revoked in the portal, with all that was issued for it.
Revoke(t) ==
    /\ t \notin revoked
    /\ changes < MaxChanges /\ changes' = changes + 1
    /\ revoked' = revoked \cup {t}
    /\ UNCHANGED <<settings, request, admin, faults, history>>

-----------------------------------------------------------------------------
Handler(w) ==
    \/ LookUp(w) \/ Touch(w) \/ LoadToken(w) \/ Refresh(w)
    \/ FetchPublicKeys(w) \/ GetChallenge(w) \/ PostToken(w) \/ PollAuthStatus(w) \/ Redeem(w)
    \/ StoreSession(w) \/ Call(w) \/ SendInvoice(w)

SessionNext ==
    \/ \E w \in Requests :
           \/ OpenPage(w) \/ Confirm(w) \/ Cancel(w) \/ Handler(w)
           \/ CallFails(w) \/ Unauthorized(w)
           \/ \E kind \in Kinds : Press(w, kind)
           \/ \E text \in {"has401", "plain"} : AnswerLost(w, text)
    \/ \E a \in Admins :
           \/ CommitCredential(a) \/ WriteDefault(a)
           \/ \E e \in Environments :
                  \/ ReadCredential(a, e)
                  \/ \E t \in Pasted(e) : SaveCredential(a, e, t) \/ SaveSettings(a, e, t)
    \/ \E e \in Environments : SessionExpires(e)
    \/ \E t \in Tokens : Revoke(t)

SessionSpec == SessionInit /\ [][SessionNext]_sessionVars

\* Handlers run on, and time passes.
FairSessionSpec ==
    /\ SessionSpec
    /\ \A w \in Requests : WF_sessionVars(Handler(w))
    /\ \A e \in Environments : WF_sessionVars(SessionExpires(e))

-----------------------------------------------------------------------------
(***************************************************************************)
(* Properties                                                              *)
(***************************************************************************)
\* Every variable stays in its domain.
SessionTypeOK ==
    /\ credential \in Stored
    /\ company \in [env : Environments, token : Tokens \cup {NoToken}]
    /\ session \in [Environments -> [token : Tokens \cup {NoToken}, fresh : BOOLEAN, late : BOOLEAN]]
    /\ revoked \subseteq Tokens
    /\ request \in [Requests ->
           [at : {"idle", "asking", "lookup", "touch", "load", "refresh"} \cup Authenticating \cup Calling,
            env : Environments, shown : Environments, active : Environments, kind : Kinds,
            call : Calling, token : Tokens \cup {NoToken}, retried : BOOLEAN, late : BOOLEAN]]
    /\ admin \in [Admins -> [at : {"idle", "saving", "switching"}, env : Environments,
                             token : Tokens \cup {NoToken}, isDefault : BOOLEAN]]
    /\ faults \in Nat /\ changes \in Nat
    /\ strayed \in BOOLEAN /\ crossed \in BOOLEAN
    /\ copies \in [Requests -> Nat]
    /\ misread \in [Requests -> BOOLEAN]

\* A session in the table was made with the credential in force, or by an
\* authentication that ran while that credential was saved: a new token ends the
\* sessions of the old one (companies.ts, deleteMany in the transaction), and the
\* upsert of initKsefSession is the only way one comes back.  And a token leaves
\* for another environment than its own only if some save of a credential
\* overlapped a change of the default environment.
SessionFollowsCredential ==
    /\ \A e \in Environments :
           session[e] # NoSession /\ credential[e] # NoToken =>
               session[e].token = credential[e] \/ session[e].late
    /\ strayed => crossed

\* A request runs in the environment that its page showed when its button was
\* pressed, whatever page and default have become before it was confirmed.
RunsWhereItWasPressed ==
    \A w \in Requests : request[w].at # "idle" => request[w].env = request[w].shown

\* One request sends an invoice twice only when the answer to the first was lost
\* and the text of the error happened to look like a 401.
SecondCopyOnlyFromMisreading ==
    \A w \in Requests : copies[w] > 1 => misread[w]

\* KSeF comes back: if requests for an environment keep coming and its token
\* stays good, they do not fail for ever on what a session in the table was made
\* of, although a refusal to refresh it neither deletes nor replaces it.
Asked(e) == \E w \in Requests : request[w].at = "lookup" /\ request[w].env = e
Granted(e) == \E w \in Requests : request[w].at \in Calling /\ request[w].env = e
TokenIsGood(e) == /\ TokenFor(e) # NoToken /\ TokenFor(e) \notin revoked
                  /\ EnvironmentOf[TokenFor(e)] = e
AccessReturns ==
    \A e \in Environments :
        <>[]TokenIsGood(e) /\ []<>Asked(e) => []<>Granted(e)
=============================================================================
