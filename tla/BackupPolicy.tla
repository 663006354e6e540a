----------------------------- MODULE BackupPolicy -----------------------------
(***************************************************************************)
(* When the files of a company are backed up to its Google Drive: the      *)
(* policy and its form, the connection with Google, the one-shot runner    *)
(* that host cron starts every minute, and the other triggers.             *)
(* Source: apps/api/src/services/backup/company-backup-policy.ts,          *)
(* routes/companies/backup-policy.ts, routes/backup/index.ts,              *)
(* scheduled-company-google-drive-backup-runner.ts.                        *)
(*                                                                         *)
(* Runners overlap: a runner that is at work when the next minute comes is *)
(* not waited for, and it backs up one company after the other.  A slot is *)
(* a local day and time; a runner takes a slot by writing its key to the   *)
(* policy.  What a backup does with files is the subject of CompanyBackup; *)
(* here it ends somehow, with what it makes of the credential.             *)
(***************************************************************************)
EXTENDS Naturals

CONSTANTS
    Companies,
    Runners,        \* one-shot processes of the scheduled backup
    Requests,       \* updates of a policy, from the form or elsewhere
    Flows,          \* authorizations begun in one browser
    Zones,
    Inputs,         \* bodies of updates
    InitialPolicies,    \* the policies found at the start, DEFAULT_POLICY if none is stored
    MaxTime,        \* bound: minutes
    LocalDay,       \* the calendar day of each minute in each zone ...
    LocalTime,      \* ... and the hour and minute of that day
    StateMaxAge,    \* minutes for which the state of an authorization is good
    NoCompany, Null, Undefined

Minutes == 0..MaxTime
Days == {LocalDay[z][t] : z \in Zones, t \in Minutes}
Times == {LocalTime[z][t] : z \in Zones, t \in Minutes}

\* Calendar days do not go back, whatever the clocks of a zone do.
ASSUME CalendarAssumption ==
    /\ MaxTime \in Nat /\ StateMaxAge \in Nat
    /\ LocalDay \in [Zones -> [Minutes -> Nat]]
    /\ LocalTime \in [Zones -> [Minutes -> Nat]]
    /\ \A z \in Zones : \A t, u \in Minutes : t <= u => LocalDay[z][t] <= LocalDay[z][u]
ASSUME NameAssumption == NoCompany \notin Companies

CompanyBackupScheduleMode == {"MANUAL", "DAILY", "WEEKLY"}
Weekdays == 1..7
Weekday(day) == ((day - 1) % 7) + 1

\* Hour and minute are one value, the time.
Policies == [automaticOnInvoiceIssued : BOOLEAN, scheduleMode : CompanyBackupScheduleMode,
             scheduleTime : Times \cup {Null}, scheduleDayOfWeek : Weekdays \cup {Null},
             scheduleTimezone : Zones]

UpdateCompanyBackupPolicyInput ==
    [automaticOnInvoiceIssued : BOOLEAN \cup {Undefined},
     scheduleMode : CompanyBackupScheduleMode \cup {Undefined},
     scheduleTime : Times \cup {Null, Undefined},
     scheduleDayOfWeek : Weekdays \cup {Null, Undefined},
     scheduleTimezone : Zones \cup {"unknown", Undefined}]

DEFAULT_POLICY(zone) ==
    [automaticOnInvoiceIssued |-> FALSE, scheduleMode |-> "MANUAL", scheduleTime |-> Null,
     scheduleDayOfWeek |-> Null, scheduleTimezone |-> zone]

IsCompanyBackupPolicyAutomationEnabled(p) ==
    p.automaticOnInvoiceIssued \/ p.scheduleMode # "MANUAL"

ValidPolicy(p) ==
    /\ p.scheduleTimezone \in Zones
    /\ p.scheduleMode # "MANUAL" => p.scheduleTime # Null
    /\ p.scheduleMode = "WEEKLY" => p.scheduleDayOfWeek # Null

AutomationConnected(p, c) == IsCompanyBackupPolicyAutomationEnabled(p) => c = "connected"

\* A policy that can be evaluated has no times left over from a schedule.
Consistent(p) ==
    /\ ValidPolicy(p)
    /\ p.scheduleMode = "MANUAL" => p.scheduleTime = Null
    /\ p.scheduleMode # "WEEKLY" => p.scheduleDayOfWeek = Null

ASSUME InputAssumption ==
    /\ Inputs \subseteq UpdateCompanyBackupPolicyInput
    /\ InitialPolicies \subseteq {p \in Policies : Consistent(p)}

Keys == Days \X Times

VARIABLES
    clock,
    \* CompanyBackupPolicy, where DEFAULT_POLICY stands for no row
    policy, lastScheduledRunKey,
    \* GoogleDriveCredential: none, connected, or requiring reauthorization
    credential,
    \* updates: where they are, and what they have read
    request,
    \* runners: the time they were started, what is due and not looked at yet,
    \* and the company whose backup runs
    pc, date, due, current,
    \* the authorizations begun, and the one the cookie of the browser is for
    flow, cookie,
    \* history: the scheduled backups started for each key; the companies
    \* whose schedule was changed, or that a runner left waiting over midnight
    started, disturbed

policies == <<policy, lastScheduledRunKey>>
runner == <<pc, date, due, current>>
browser == <<flow, cookie>>
history == <<started, disturbed>>
vars == <<clock, policies, credential, request, runner, browser, history>>

NoRequest == [pc |-> "idle"]
NoFlow == [company |-> NoCompany]

Init ==
    /\ clock = 0
    /\ policy \in [Companies -> InitialPolicies]
    /\ lastScheduledRunKey = [c \in Companies |-> Null]
    /\ credential \in [Companies -> {"none", "connected"}]
    /\ \A c \in Companies : AutomationConnected(policy[c], credential[c])
    /\ request = [q \in Requests |-> NoRequest]
    /\ pc = [r \in Runners |-> "waiting"]
    /\ date = [r \in Runners |-> 0]
    /\ due = [r \in Runners |-> {}]
    /\ current = [r \in Runners |-> NoCompany]
    /\ flow = [f \in Flows |-> NoFlow]
    /\ cookie = {}
    /\ started = [c \in Companies |-> [k \in Keys |-> 0]]
    /\ disturbed = {}

-----------------------------------------------------------------------------
(***************************************************************************)
(* Time.  A day that ends in some zone disturbs those who still wait in a  *)
(* runner, or will when it has read the policies: their slots of the day   *)
(* before will be taken among the new ones.                                *)
(***************************************************************************)
DayEnds == \E z \in Zones : LocalDay[z][clock] # LocalDay[z][clock + 1]

Waiting == {c \in Companies : \E r \in Runners :
               pc[r] = "read" \/ \E k \in Keys : <<c, k>> \in due[r]}

Tick ==
    /\ clock < MaxTime
    /\ clock' = clock + 1
    /\ disturbed' = IF DayEnds THEN disturbed \cup Waiting ELSE disturbed
    /\ UNCHANGED <<policies, credential, request, runner, browser, started>>

-----------------------------------------------------------------------------
(***************************************************************************)
(* Authorization: a flow is begun, Google asks the user, and the callback  *)
(* stores the credential of the company named in the state.                *)
(***************************************************************************)
\* The cookie of an earlier flow is overwritten.
BeginAuthorization(f, c) ==
    /\ flow[f] = NoFlow
    /\ flow' = [flow EXCEPT ![f] = [company |-> c, issuedAt |-> clock]]
    /\ cookie' = {f}
    /\ UNCHANGED <<clock, policies, credential, request, runner, history>>

\* Mutant: the signature of the state is enough.
StateAcceptedUnbound(f) == clock - flow[f].issuedAt <= StateMaxAge

StateAccepted(f) == cookie = {f} /\ clock - flow[f].issuedAt <= StateMaxAge

\* The callback clears the cookie whatever comes of it.
AuthorizationCallback(f) ==
    /\ flow[f] # NoFlow
    /\ cookie' = {}
    /\ \/ /\ StateAccepted(f)
          /\ credential' = [credential EXCEPT ![flow[f].company] = "connected"]
       \/ ~StateAccepted(f) /\ UNCHANGED credential
    /\ UNCHANGED <<clock, policies, request, runner, flow, history>>

-----------------------------------------------------------------------------
(***************************************************************************)
(* updateCompanyGoogleDriveBackupPolicy.  The form sends every field, other*)
(* callers some of them.                                                   *)
(***************************************************************************)
MergePolicyInput(p, input) ==
    [field \in DOMAIN p |-> IF input[field] = Undefined THEN p[field] ELSE input[field]]

\* What is written: times without a schedule are dropped.
UpdateData(p) ==
    [p EXCEPT !.scheduleTime = IF p.scheduleMode = "MANUAL" THEN Null ELSE @,
              !.scheduleDayOfWeek = IF p.scheduleMode = "WEEKLY" THEN @ ELSE Null]

\* The form checks the times of a schedule itself, and sends every field.
FormInput(p) == UpdateData(p)

Schedule(p) == <<p.scheduleMode, p.scheduleTime, p.scheduleDayOfWeek, p.scheduleTimezone>>

\* The policy and the credential are read by two queries at once, of which
\* either may come first.
PatchReadPolicy(q, c, input) ==
    /\ request[q] = NoRequest
    /\ request' = [request EXCEPT ![q] = [pc |-> "credential", company |-> c, input |-> input,
                                          read |-> policy[c], connection |-> Null]]
    /\ UNCHANGED <<clock, policies, credential, runner, browser, history>>

PatchReadCredentialFirst(q, c, input) ==
    /\ request[q] = NoRequest
    /\ request' = [request EXCEPT ![q] = [pc |-> "policy", company |-> c, input |-> input,
                                          read |-> Null, connection |-> credential[c]]]
    /\ UNCHANGED <<clock, policies, credential, runner, browser, history>>

PatchReadOther(q) ==
    /\ \/ /\ request[q].pc = "credential"
          /\ request' = [request EXCEPT ![q].pc = "write",
                                        ![q].connection = credential[request[q].company]]
       \/ /\ request[q].pc = "policy"
          /\ request' = [request EXCEPT ![q].pc = "write",
                                        ![q].read = policy[request[q].company]]
    /\ UNCHANGED <<clock, policies, credential, runner, browser, history>>

MergedPolicy(q) == MergePolicyInput(request[q].read, request[q].input)

\* Mutant: the fields of the input are written, after the merged policy was
\* found valid.
WrittenFields(q) == MergePolicyInput(policy[request[q].company], request[q].input)

\* The upsert writes every column, whatever the row has become since.
Written(q) == UpdateData(MergedPolicy(q))

PatchWrite(q) ==
    LET c == request[q].company IN
    /\ request[q].pc = "write"
    /\ ValidPolicy(MergedPolicy(q))
    /\ AutomationConnected(MergedPolicy(q), request[q].connection)
    /\ policy' = [policy EXCEPT ![c] = Written(q)]
    /\ disturbed' = IF Schedule(policy'[c]) = Schedule(policy[c]) THEN disturbed
                    ELSE disturbed \cup {c}
    /\ request' = [request EXCEPT ![q] = NoRequest]
    /\ UNCHANGED <<clock, lastScheduledRunKey, credential, runner, browser, started>>

\* Refused with 400, or a statement fails.
PatchRefused(q) ==
    /\ request[q] # NoRequest
    /\ request' = [request EXCEPT ![q] = NoRequest]
    /\ UNCHANGED <<clock, policies, credential, runner, browser, history>>

-----------------------------------------------------------------------------
(***************************************************************************)
(* Backups started by an administrator, by either of two routes, or by an  *)
(* invoice just issued if the policy says so.  A backup reads the          *)
(* credential, and when the token is refreshed or Google has withdrawn the *)
(* grant, clears or sets its flag, whatever it has become meanwhile.  It is *)
(* one step, as nothing else of it is seen here.                           *)
(***************************************************************************)
BackupOutcome(c) ==
    \/ UNCHANGED credential
    \/ /\ credential[c] # "none"
       /\ \E flag \in {"connected", "reauthorization"} :
             credential' = [credential EXCEPT ![c] = flag]

RunNow(c) ==
    /\ BackupOutcome(c)
    /\ UNCHANGED <<clock, policies, request, runner, browser, history>>

RunPolicyNow(c) ==
    /\ BackupOutcome(c)
    /\ UNCHANGED <<clock, policies, request, runner, browser, history>>

TriggerAfterInvoiceIssued(c) ==
    /\ policy[c].automaticOnInvoiceIssued
    /\ BackupOutcome(c)
    /\ UNCHANGED <<clock, policies, request, runner, browser, history>>

-----------------------------------------------------------------------------
(***************************************************************************)
(* runScheduledCompanyGoogleDriveBackups                                   *)
(***************************************************************************)
IsPolicyDueNow(p, t) ==
    /\ p.scheduleMode # "MANUAL"
    /\ p.scheduleTime # Null
    /\ LocalTime[p.scheduleTimezone][t] = p.scheduleTime
    /\ p.scheduleMode = "WEEKLY" =>
          Weekday(LocalDay[p.scheduleTimezone][t]) = p.scheduleDayOfWeek

BuildScheduledRunKey(t, zone) == <<LocalDay[zone][t], LocalTime[zone][t]>>

RunnerStarts(r) ==
    /\ pc[r] = "waiting"
    /\ pc' = [pc EXCEPT ![r] = "read"]
    /\ date' = [date EXCEPT ![r] = clock]
    /\ UNCHANGED <<clock, policies, credential, request, due, current, browser, history>>

\* All policies are read once; what is due depends on the date alone.
ReadPolicies(r) ==
    /\ pc[r] = "read"
    /\ pc' = [pc EXCEPT ![r] = "loop"]
    /\ due' = [due EXCEPT ![r] =
          {<<c, BuildScheduledRunKey(date[r], policy[c].scheduleTimezone)>> :
             c \in {d \in Companies : IsPolicyDueNow(policy[d], date[r])}}]
    /\ UNCHANGED <<clock, policies, credential, request, date, current, browser, history>>

\* Mutant: the key is looked up in the policy that was read, as if no other
\* runner could have taken the slot.
ReservableUnchecked(c, k) == TRUE

Reservable(c, k) == lastScheduledRunKey[c] # k

\* One conditional update: whoever writes the key runs the backup.
Reserve(r) ==
    /\ pc[r] = "loop"
    /\ \E c \in Companies, k \in Keys :
          /\ <<c, k>> \in due[r]
          /\ due' = [due EXCEPT ![r] = @ \ {<<c, k>>}]
          /\ \/ /\ Reservable(c, k)
                /\ lastScheduledRunKey' = [lastScheduledRunKey EXCEPT ![c] = k]
                /\ pc' = [pc EXCEPT ![r] = "backup"]
                /\ current' = [current EXCEPT ![r] = c]
                /\ started' = [started EXCEPT ![c][k] = @ + 1]
             \/ /\ ~Reservable(c, k)
                /\ UNCHANGED <<lastScheduledRunKey, pc, current, started>>
    /\ UNCHANGED <<clock, policy, credential, request, date, browser, disturbed>>

\* Mutant: a backup that fails stops the runner.
AfterBackupStops(r) ==
    \E next \in {"loop", "done"} :
       /\ pc' = [pc EXCEPT ![r] = next]
       /\ due' = [due EXCEPT ![r] = IF next = "done" THEN {} ELSE @]

\* A backup that fails is logged, and the next company follows.
AfterBackup(r) == pc' = [pc EXCEPT ![r] = "loop"] /\ UNCHANGED due

RunnerBackupEnds(r) ==
    /\ pc[r] = "backup"
    /\ BackupOutcome(current[r])
    /\ AfterBackup(r)
    /\ current' = [current EXCEPT ![r] = NoCompany]
    /\ UNCHANGED <<clock, policies, request, date, browser, history>>

RunnerExits(r) ==
    /\ pc[r] = "loop"
    /\ due[r] = {}
    /\ pc' = [pc EXCEPT ![r] = "done"]
    /\ UNCHANGED <<clock, policies, credential, request, date, due, current, browser,
                   history>>

\* A failed query ends the runner, as does a crash.
RunnerFails(r) ==
    /\ pc[r] \in {"read", "loop", "backup"}
    /\ pc' = [pc EXCEPT ![r] = "failed"]
    /\ due' = [due EXCEPT ![r] = {}]
    /\ current' = [current EXCEPT ![r] = NoCompany]
    /\ UNCHANGED <<clock, policies, credential, request, date, browser, history>>

-----------------------------------------------------------------------------
BrowserNext ==
    \E f \in Flows : AuthorizationCallback(f) \/ \E c \in Companies : BeginAuthorization(f, c)

PatchNext(q) ==
    \/ \E c \in Companies, input \in Inputs :
          PatchReadPolicy(q, c, input) \/ PatchReadCredentialFirst(q, c, input)
    \/ PatchReadOther(q) \/ PatchWrite(q) \/ PatchRefused(q)

RunnerGoesOn(r) == ReadPolicies(r) \/ Reserve(r) \/ RunnerBackupEnds(r) \/ RunnerExits(r)

Next ==
    \/ Tick
    \/ BrowserNext
    \/ \E q \in Requests : PatchNext(q)
    \/ \E c \in Companies : RunNow(c) \/ RunPolicyNow(c) \/ TriggerAfterInvoiceIssued(c)
    \/ \E r \in Runners : RunnerStarts(r) \/ RunnerGoesOn(r) \/ RunnerFails(r)

Spec == Init /\ [][Next]_vars

\* A runner that was started goes on until it exits or fails; the calls to
\* Google of a backup return or time out.
FairSpec == Spec /\ \A r \in Runners : WF_vars(RunnerGoesOn(r))

-----------------------------------------------------------------------------
(***************************************************************************)
(* Properties                                                              *)
(***************************************************************************)
RequestType ==
    {NoRequest} \cup
    [pc : {"credential", "policy", "write"}, company : Companies, input : Inputs,
     read : Policies \cup {Null}, connection : {"none", "connected", "reauthorization", Null}]

\* Policies, requests, runners and flows keep to their types.
TypeOK ==
    /\ clock \in Minutes
    /\ policy \in [Companies -> Policies]
    /\ lastScheduledRunKey \in [Companies -> Keys \cup {Null}]
    /\ credential \in [Companies -> {"none", "connected", "reauthorization"}]
    /\ request \in [Requests -> RequestType]
    /\ pc \in [Runners -> {"waiting", "read", "loop", "backup", "done", "failed"}]
    /\ date \in [Runners -> Minutes]
    /\ due \in [Runners -> SUBSET (Companies \X Keys)]
    /\ current \in [Runners -> Companies \cup {NoCompany}]
    /\ flow \in [Flows -> {NoFlow} \cup [company : Companies, issuedAt : Minutes]]
    /\ cookie \in SUBSET Flows
    /\ started \in [Companies -> [Keys -> Nat]]
    /\ disturbed \in SUBSET Companies

\* A slot is run once, however many runners are started in its minute, overlap
\* or come back to it when the clock is set back; except for a company whose
\* schedule was changed, or that was left waiting over midnight, where the key
\* of another slot may have come in between.
SlotRunsOnce ==
    \A c \in Companies \ disturbed : \A k \in Keys : started[c][k] <= 1

\* Whatever updates come together, the policy stored can be evaluated: a
\* schedule has a time, a weekly one a day, and others have none left over.
PolicyIsConsistent == \A c \in Companies : Consistent(policy[c])

\* A flow that was overtaken by another in the same browser, or that was
\* answered too late, connects nothing: no flow that connects a company is
\* followed by one begun at a later time, in whatever order they are answered.
OnlyLatestFlowConnects ==
    [][\A f \in Flows :
          AuthorizationCallback(f) /\ credential' # credential =>
             /\ cookie = {f}
             /\ \A g \in Flows : flow[g] # NoFlow => flow[g].issuedAt <= flow[f].issuedAt
             /\ clock <= flow[f].issuedAt + StateMaxAge]_vars

\* What a runner found due is run, by it or by another, unless the runner
\* itself fails; failing backups of other companies do not matter.
SlotIsServed ==
    \A r \in Runners, c \in Companies, k \in Keys :
       (<<c, k>> \in due[r]) ~> (started[c][k] > 0 \/ pc[r] = "failed")
=============================================================================
