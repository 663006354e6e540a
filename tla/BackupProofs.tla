----------------------------- MODULE BackupProofs -----------------------------
(***************************************************************************)
(* Proofs about the backup of a company's files, for any companies, zones, *)
(* calendars, files and backups: about BackupPolicy, which says when a     *)
(* backup runs, and about CompanyBackup, which says what one does.         *)
(***************************************************************************)
EXTENDS BackupPolicy, CompanyBackup, TLAPS

-----------------------------------------------------------------------------
(***************************************************************************)
(* When: BackupPolicy.                                                     *)
(***************************************************************************)
(***************************************************************************)
(* Types.  An update that is about to write has read a policy.             *)
(***************************************************************************)
HasRead == \A q \in Requests :
              request[q].pc \in {"credential", "write"} => request[q].read \in Policies

TypeInv == TypeOK /\ HasRead

\* What a valid merge writes is a policy, and a consistent one.
LEMMA WrittenIsConsistent ==
  ASSUME NEW p \in Policies, NEW input \in UpdateCompanyBackupPolicyInput,
         ValidPolicy(MergePolicyInput(p, input))
  PROVE  /\ UpdateData(MergePolicyInput(p, input)) \in Policies
         /\ Consistent(UpdateData(MergePolicyInput(p, input)))
<1> DEFINE m == MergePolicyInput(p, input)
<1>1. m \in Policies
  <2>1. /\ m = [field \in DOMAIN p |->
                  IF input[field] = Undefined THEN p[field] ELSE input[field]]
        /\ DOMAIN p = {"automaticOnInvoiceIssued", "scheduleMode", "scheduleTime",
                       "scheduleDayOfWeek", "scheduleTimezone"}
    BY DEF MergePolicyInput, Policies
  <2>2. /\ m.automaticOnInvoiceIssued \in BOOLEAN
        /\ m.scheduleMode \in CompanyBackupScheduleMode
        /\ m.scheduleTime \in Times \cup {Null}
        /\ m.scheduleDayOfWeek \in Weekdays \cup {Null}
    BY <2>1 DEF Policies, UpdateCompanyBackupPolicyInput
  <2>3. m.scheduleTimezone \in Zones
    BY DEF ValidPolicy
  <2>4. QED
    BY <2>1, <2>2, <2>3 DEF Policies
<1>2. ValidPolicy(m)
  OBVIOUS
<1> HIDE DEF m
<1>3. UpdateData(m) \in Policies
  BY <1>1 DEF UpdateData, Policies
<1>4. Consistent(UpdateData(m))
  BY <1>1, <1>2 DEF UpdateData, Policies, ValidPolicy, Consistent, CompanyBackupScheduleMode
<1>5. QED
  BY <1>3, <1>4 DEF m

LEMMA KeyIsTyped ==
  ASSUME NEW t \in Minutes, NEW zone \in Zones
  PROVE  BuildScheduledRunKey(t, zone) \in Keys
BY DEF BuildScheduledRunKey, Keys, Days, Times

LEMMA OutcomeIsTyped ==
  ASSUME TypeOK, NEW c \in Companies, BackupOutcome(c)
  PROVE  credential' \in [Companies -> {"none", "connected", "reauthorization"}]
BY DEF TypeOK, BackupOutcome

LEMMA InitTypeInv == Init => TypeInv
<1> SUFFICES ASSUME Init
             PROVE  TypeInv
  OBVIOUS
<1>1. InitialPolicies \subseteq Policies
  BY InputAssumption
<1>2. TypeOK
  BY <1>1, CalendarAssumption
  DEF Init, TypeOK, RequestType, Minutes, NoRequest, NoFlow, Policies
<1>3. HasRead
  BY DEF Init, HasRead, NoRequest
<1>4. QED
  BY <1>2, <1>3 DEF TypeInv

LEMMA NextTypeInv == TypeInv /\ [Next]_vars => TypeInv'
<1> SUFFICES ASSUME TypeInv, [Next]_vars
             PROVE  TypeInv'
  OBVIOUS
<1> USE DEF TypeInv
<1>1. CASE Tick
  BY <1>1, CalendarAssumption DEF Tick, TypeOK, HasRead, Minutes, policies, runner, browser,
     Waiting, DayEnds
<1>2. CASE BrowserNext
  <2>1. ASSUME NEW f \in Flows, NEW c \in Companies, BeginAuthorization(f, c)
        PROVE  TypeInv'
    BY <2>1 DEF BeginAuthorization, TypeOK, HasRead, policies, runner, history
  <2>2. ASSUME NEW f \in Flows, AuthorizationCallback(f)
        PROVE  TypeInv'
    <3>1. flow[f].company \in Companies
      BY <2>2 DEF AuthorizationCallback, TypeOK
    <3>2. QED
      BY <2>2, <3>1 DEF AuthorizationCallback, TypeOK, HasRead, policies, runner, history
  <2>3. QED
    BY <1>2, <2>1, <2>2 DEF BrowserNext
<1>3. ASSUME NEW q \in Requests, PatchNext(q)
      PROVE  TypeInv'
  <2> USE InputAssumption DEF TypeOK, HasRead, policies, runner, browser, history
  <2>1. ASSUME NEW c \in Companies, NEW input \in Inputs, PatchReadPolicy(q, c, input)
        PROVE  TypeInv'
    BY <2>1 DEF PatchReadPolicy, RequestType
  <2>2. ASSUME NEW c \in Companies, NEW input \in Inputs, PatchReadCredentialFirst(q, c, input)
        PROVE  TypeInv'
    BY <2>2 DEF PatchReadCredentialFirst, RequestType
  <2>3. CASE PatchReadOther(q)
    <3>1. CASE request[q].pc = "credential"
      <4>1. /\ request[q].read \in Policies /\ request[q] \in RequestType \ {NoRequest}
            /\ credential[request[q].company] \in {"none", "connected", "reauthorization"}
        BY <3>1 DEF RequestType, NoRequest
      <4>2. request' = [request EXCEPT ![q].pc = "write",
                                       ![q].connection = credential[request[q].company]]
        BY <2>3, <3>1 DEF PatchReadOther
      <4>3. request'[q] \in RequestType /\ request'[q].read \in Policies
        BY <4>1, <4>2 DEF RequestType
      <4>4. QED
        BY <2>3, <4>2, <4>3 DEF PatchReadOther
    <3>2. CASE request[q].pc = "policy"
      <4>1. /\ request[q] \in RequestType \ {NoRequest}
            /\ policy[request[q].company] \in Policies
        BY <3>2 DEF RequestType, NoRequest
      <4>2. request' = [request EXCEPT ![q].pc = "write",
                                       ![q].read = policy[request[q].company]]
        BY <2>3, <3>2 DEF PatchReadOther
      <4>3. request'[q] \in RequestType /\ request'[q].read \in Policies
        BY <4>1, <4>2 DEF RequestType
      <4>4. QED
        BY <2>3, <4>2, <4>3 DEF PatchReadOther
    <3>3. QED
      BY <2>3, <3>1, <3>2 DEF PatchReadOther
  <2>4. CASE PatchWrite(q)
    <3>1. /\ request[q].read \in Policies
          /\ request[q].input \in UpdateCompanyBackupPolicyInput
          /\ request[q].company \in Companies
      BY <2>4 DEF PatchWrite, RequestType, NoRequest
    <3>2. Written(q) \in Policies
      BY <2>4, <3>1, WrittenIsConsistent DEF PatchWrite, Written, MergedPolicy
    <3>3. QED
      BY <2>4, <3>1, <3>2 DEF PatchWrite, RequestType, NoRequest
  <2>5. CASE PatchRefused(q)
    BY <2>5 DEF PatchRefused, RequestType, NoRequest
  <2>6. QED
    BY <1>3, <2>1, <2>2, <2>3, <2>4, <2>5 DEF PatchNext
<1>4. ASSUME NEW c \in Companies, RunNow(c) \/ RunPolicyNow(c) \/ TriggerAfterInvoiceIssued(c)
      PROVE  TypeInv'
  BY <1>4, OutcomeIsTyped DEF RunNow, RunPolicyNow, TriggerAfterInvoiceIssued, TypeOK, HasRead,
     policies, runner, browser, history
<1>5. ASSUME NEW r \in Runners, RunnerStarts(r) \/ RunnerGoesOn(r) \/ RunnerFails(r)
      PROVE  TypeInv'
  <2> USE DEF TypeOK, HasRead, policies, browser, history
  <2>1. CASE RunnerStarts(r)
    BY <2>1 DEF RunnerStarts
  <2>2. CASE ReadPolicies(r)
    <3>1. \A c \in Companies :
             BuildScheduledRunKey(date[r], policy[c].scheduleTimezone) \in Keys
      BY KeyIsTyped DEF Policies
    <3>2. QED
      BY <2>2, <3>1 DEF ReadPolicies
  <2>3. CASE Reserve(r)
    <3>1. PICK c \in Companies, k \in Keys :
             /\ due' = [due EXCEPT ![r] = @ \ {<<c, k>>}]
             /\ \/ /\ lastScheduledRunKey' = [lastScheduledRunKey EXCEPT ![c] = k]
                   /\ pc' = [pc EXCEPT ![r] = "backup"]
                   /\ current' = [current EXCEPT ![r] = c]
                   /\ started' = [started EXCEPT ![c][k] = @ + 1]
                \/ UNCHANGED <<lastScheduledRunKey, pc, current, started>>
      BY <2>3 DEF Reserve
    <3>2. due' \in [Runners -> SUBSET (Companies \X Keys)]
      BY <3>1
    <3>3. ASSUME lastScheduledRunKey' = [lastScheduledRunKey EXCEPT ![c] = k],
                 pc' = [pc EXCEPT ![r] = "backup"],
                 current' = [current EXCEPT ![r] = c],
                 started' = [started EXCEPT ![c][k] = @ + 1]
          PROVE  /\ lastScheduledRunKey' \in [Companies -> Keys \cup {Null}]
                 /\ pc' \in [Runners -> {"waiting", "read", "loop", "backup", "done", "failed"}]
                 /\ current' \in [Runners -> Companies \cup {NoCompany}]
                 /\ started' \in [Companies -> [Keys -> Nat]]
      <4>1. /\ lastScheduledRunKey' \in [Companies -> Keys \cup {Null}]
            /\ pc' \in [Runners -> {"waiting", "read", "loop", "backup", "done", "failed"}]
            /\ current' \in [Runners -> Companies \cup {NoCompany}]
        BY <3>3
      <4>2. started \in [Companies -> [Keys -> Nat]]
        OBVIOUS
      <4>3. started' \in [Companies -> [Keys -> Nat]]
        <5> HIDE DEF TypeOK, HasRead
        <5>1. QED
          BY <3>3, <4>2
      <4>4. QED
        BY <4>1, <4>3
    <3>4. /\ lastScheduledRunKey' \in [Companies -> Keys \cup {Null}]
          /\ pc' \in [Runners -> {"waiting", "read", "loop", "backup", "done", "failed"}]
          /\ current' \in [Runners -> Companies \cup {NoCompany}]
          /\ started' \in [Companies -> [Keys -> Nat]]
      <4>1. CASE UNCHANGED <<lastScheduledRunKey, pc, current, started>>
        BY <4>1
      <4>2. QED
        BY <3>1, <3>3, <4>1
    <3>5. UNCHANGED <<clock, policy, credential, request, date, flow, cookie, disturbed>>
      BY <2>3 DEF Reserve
    <3>6. QED
      BY <3>2, <3>4, <3>5
  <2>4. CASE RunnerBackupEnds(r)
    <3>1. current[r] \in Companies \/ UNCHANGED credential
      BY <2>4 DEF RunnerBackupEnds, BackupOutcome
    <3>2. QED
      BY <2>4, <3>1, OutcomeIsTyped DEF RunnerBackupEnds, AfterBackup
  <2>5. CASE RunnerExits(r)
    BY <2>5 DEF RunnerExits
  <2>6. CASE RunnerFails(r)
    BY <2>6 DEF RunnerFails
  <2>7. QED
    BY <1>5, <2>1, <2>2, <2>3, <2>4, <2>5, <2>6 DEF RunnerGoesOn
<1>6. CASE UNCHANGED vars
  BY <1>6 DEF vars, TypeOK, HasRead, policies, runner, browser, history
<1>7. QED
  BY <1>1, <1>2, <1>3, <1>4, <1>5, <1>6 DEF Next

\* Policies, updates, runners and flows keep to their types.
THEOREM TypeCorrect == Spec => []TypeOK
BY InitTypeInv, NextTypeInv, PTL DEF Spec, TypeInv

\* Whatever updates come together, the policy stored can be evaluated.
THEOREM PoliciesStayConsistent == Spec => []PolicyIsConsistent
<1>1. Init => PolicyIsConsistent
  BY InputAssumption DEF Init, PolicyIsConsistent
<1>2. TypeInv /\ PolicyIsConsistent /\ [Next]_vars => PolicyIsConsistent'
  <2> SUFFICES ASSUME TypeInv, PolicyIsConsistent, [Next]_vars
               PROVE  PolicyIsConsistent'
    OBVIOUS
  <2>1. ASSUME NEW q \in Requests, PatchWrite(q)
        PROVE  PolicyIsConsistent'
    <3>1. request[q].read \in Policies /\ request[q].input \in UpdateCompanyBackupPolicyInput
      BY <2>1, InputAssumption DEF PatchWrite, TypeInv, TypeOK, HasRead, RequestType, NoRequest
    <3>2. Consistent(Written(q))
      BY <2>1, <3>1, WrittenIsConsistent DEF PatchWrite, Written, MergedPolicy
    <3>3. \A c \in Companies : policy'[c] = policy[c] \/ policy'[c] = Written(q)
      BY <2>1 DEF PatchWrite, TypeInv, TypeOK
    <3>4. QED
      BY <3>2, <3>3 DEF PolicyIsConsistent
  <2>2. UNCHANGED policy \/ \E q \in Requests : PatchWrite(q)
    BY DEF Next, vars, policies, Tick, BrowserNext, BeginAuthorization, AuthorizationCallback,
       PatchNext, PatchReadPolicy, PatchReadCredentialFirst, PatchReadOther, PatchRefused,
       RunNow, RunPolicyNow, TriggerAfterInvoiceIssued, RunnerStarts, RunnerGoesOn,
       ReadPolicies, Reserve, RunnerBackupEnds, RunnerExits, RunnerFails
  <2>3. CASE UNCHANGED policy
    BY <2>3 DEF PolicyIsConsistent
  <2>4. QED
    BY <2>1, <2>2, <2>3
<1>3. QED
  BY <1>1, <1>2, InitTypeInv, NextTypeInv, PTL DEF Spec

-----------------------------------------------------------------------------
(***************************************************************************)
(* A slot is run once.  For a company that is not disturbed, what runners  *)
(* read and have due is of today, and a slot of today that was run is the  *)
(* one whose key is stored.  Slots of earlier days are not due again.      *)
(***************************************************************************)
DatesAreToday ==
    \A c \in Companies \ disturbed : \A r \in Runners :
        pc[r] = "read" => LocalDay[policy[c].scheduleTimezone][date[r]]
                              = LocalDay[policy[c].scheduleTimezone][clock]

DueIsToday ==
    \A c \in Companies \ disturbed : \A r \in Runners, k \in Keys :
        <<c, k>> \in due[r] =>
           k = <<LocalDay[policy[c].scheduleTimezone][clock], policy[c].scheduleTime>>

StartedIsReserved ==
    \A c \in Companies \ disturbed : \A k \in Keys :
        started[c][k] # 0 =>
           /\ started[c][k] = 1
           /\ k[2] = policy[c].scheduleTime
           /\ k[1] <= LocalDay[policy[c].scheduleTimezone][clock]
           /\ k[1] = LocalDay[policy[c].scheduleTimezone][clock] => lastScheduledRunKey[c] = k

SlotInv == DatesAreToday /\ DueIsToday /\ StartedIsReserved

LEMMA InitSlotInv == Init => SlotInv
BY DEF Init, SlotInv, DatesAreToday, DueIsToday, StartedIsReserved

\* Steps that start no backup, change no schedule, and make nothing due.
LEMMA SlotInvStays ==
  ASSUME SlotInv, UNCHANGED <<clock, policy, lastScheduledRunKey, date, started, disturbed>>,
         \A r \in Runners : (pc'[r] = "read" => pc[r] = "read") /\ due'[r] \subseteq due[r]
  PROVE  SlotInv'
BY DEF SlotInv, DatesAreToday, DueIsToday, StartedIsReserved

LEMMA TickSlotInv ==
  ASSUME TypeOK, SlotInv, Tick
  PROVE  SlotInv'
<1>1. /\ clock \in Minutes /\ clock + 1 \in Minutes /\ clock' = clock + 1
      /\ UNCHANGED <<policy, lastScheduledRunKey, pc, date, due, started>>
  BY CalendarAssumption DEF TypeOK, Minutes, Tick, policies, runner
<1>2. \A c \in Companies : policy[c].scheduleTimezone \in Zones
  BY DEF TypeOK, Policies
<1>3. \A c \in Companies \ disturbed' :
         LET z == policy[c].scheduleTimezone IN
         \/ LocalDay[z][clock] = LocalDay[z][clock + 1]
         \/ \A r \in Runners : pc[r] # "read" /\ \A k \in Keys : <<c, k>> \notin due[r]
  BY <1>2 DEF Tick, DayEnds, Waiting
<1>4. disturbed \subseteq disturbed'
  BY DEF Tick
<1>5. DatesAreToday'
  BY <1>1, <1>3, <1>4 DEF SlotInv, DatesAreToday
<1>6. DueIsToday'
  BY <1>1, <1>3, <1>4 DEF SlotInv, DueIsToday
<1>7. StartedIsReserved'
  <2> SUFFICES ASSUME NEW c \in Companies \ disturbed', NEW k \in Keys, started[c][k] # 0
               PROVE  /\ started[c][k] = 1
                      /\ k[2] = policy[c].scheduleTime
                      /\ k[1] <= LocalDay[policy[c].scheduleTimezone][clock + 1]
                      /\ k[1] = LocalDay[policy[c].scheduleTimezone][clock + 1] =>
                            lastScheduledRunKey[c] = k
    BY <1>1 DEF StartedIsReserved
  <2> DEFINE before == LocalDay[policy[c].scheduleTimezone][clock]
  <2> DEFINE after == LocalDay[policy[c].scheduleTimezone][clock + 1]
  <2>1. before \in Nat /\ after \in Nat /\ before <= after
    <3>1. policy[c].scheduleTimezone \in Zones
      BY <1>2
    <3>2. \A z \in Zones : \A t, u \in Minutes : t <= u => LocalDay[z][t] <= LocalDay[z][u]
      BY CalendarAssumption
    <3>3. \A z \in Zones, t \in Minutes : LocalDay[z][t] \in Nat
      BY CalendarAssumption
    <3>4. clock <= clock + 1
      BY <1>1 DEF Minutes
    <3>5. QED
      BY <1>1, <3>1, <3>2, <3>3, <3>4
  <2>2. k[1] \in Nat
    BY CalendarAssumption DEF Keys, Days
  <2>3. /\ started[c][k] = 1 /\ k[2] = policy[c].scheduleTime
        /\ k[1] <= before /\ (k[1] = before => lastScheduledRunKey[c] = k)
    BY <1>4 DEF SlotInv, StartedIsReserved
  <2>4. k[1] = after => k[1] = before
    BY <2>1, <2>2, <2>3
  <2>5. QED
    BY <2>1, <2>2, <2>3, <2>4
<1>8. QED
  BY <1>5, <1>6, <1>7 DEF SlotInv

\* A schedule that is written as it was leaves slots as they are.
LEMMA WriteSlotInv ==
  ASSUME TypeOK, SlotInv, NEW q \in Requests, PatchWrite(q)
  PROVE  SlotInv'
<1>1. UNCHANGED <<clock, lastScheduledRunKey, pc, date, due, started>>
  BY DEF PatchWrite, runner
<1>2. ASSUME NEW c \in Companies \ disturbed'
      PROVE  /\ c \notin disturbed
             /\ policy'[c].scheduleTimezone = policy[c].scheduleTimezone
             /\ policy'[c].scheduleTime = policy[c].scheduleTime
  <2>1. CASE c = request[q].company
    BY <2>1 DEF PatchWrite, Schedule
  <2>2. CASE c # request[q].company
    BY <2>2 DEF PatchWrite, TypeOK
  <2>3. QED
    BY <2>1, <2>2
<1>3. DatesAreToday'
  BY <1>1, <1>2 DEF SlotInv, DatesAreToday
<1>4. DueIsToday'
  BY <1>1, <1>2 DEF SlotInv, DueIsToday
<1>5. StartedIsReserved'
  BY <1>1, <1>2 DEF SlotInv, StartedIsReserved
<1>6. QED
  BY <1>3, <1>4, <1>5 DEF SlotInv

LEMMA ReadSlotInv ==
  ASSUME TypeOK, SlotInv, NEW r \in Runners, ReadPolicies(r)
  PROVE  SlotInv'
<1>1. /\ UNCHANGED <<clock, policy, lastScheduledRunKey, date, started, disturbed>>
      /\ pc[r] = "read" /\ pc' = [pc EXCEPT ![r] = "loop"]
  BY DEF ReadPolicies, policies, history
<1>2. DatesAreToday'
  BY <1>1 DEF SlotInv, DatesAreToday, TypeOK
<1>3. DueIsToday'
  <2> SUFFICES ASSUME NEW c \in Companies \ disturbed, NEW s \in Runners, NEW k \in Keys,
                      <<c, k>> \in due'[s]
               PROVE  k = <<LocalDay[policy[c].scheduleTimezone][clock],
                            policy[c].scheduleTime>>
    BY <1>1 DEF DueIsToday
  <2>1. CASE s # r
    BY <2>1 DEF ReadPolicies, SlotInv, DueIsToday, TypeOK
  <2>2. CASE s = r
    <3>1. /\ k = BuildScheduledRunKey(date[r], policy[c].scheduleTimezone)
          /\ IsPolicyDueNow(policy[c], date[r])
      BY <2>2 DEF ReadPolicies, TypeOK
    <3>2. k = <<LocalDay[policy[c].scheduleTimezone][date[r]], policy[c].scheduleTime>>
      BY <3>1 DEF BuildScheduledRunKey, IsPolicyDueNow
    <3>3. QED
      BY <1>1, <3>2 DEF SlotInv, DatesAreToday
  <2>3. QED
    BY <2>1, <2>2
<1>4. StartedIsReserved'
  BY <1>1 DEF SlotInv, StartedIsReserved
<1>5. QED
  BY <1>2, <1>3, <1>4 DEF SlotInv

LEMMA ReserveSlotInv ==
  ASSUME TypeOK, SlotInv, NEW r \in Runners, Reserve(r)
  PROVE  SlotInv'
<1>1. PICK c \in Companies, k \in Keys :
         /\ <<c, k>> \in due[r]
         /\ due' = [due EXCEPT ![r] = @ \ {<<c, k>>}]
         /\ \/ /\ Reservable(c, k)
               /\ lastScheduledRunKey' = [lastScheduledRunKey EXCEPT ![c] = k]
               /\ pc' = [pc EXCEPT ![r] = "backup"]
               /\ started' = [started EXCEPT ![c][k] = @ + 1]
            \/ UNCHANGED <<lastScheduledRunKey, pc, started>>
  BY DEF Reserve
<1>2. UNCHANGED <<clock, policy, date, disturbed>>
  BY DEF Reserve
<1>3. \A s \in Runners : (pc'[s] = "read" => pc[s] = "read") /\ due'[s] \subseteq due[s]
  BY <1>1 DEF TypeOK
<1>4. DatesAreToday' /\ DueIsToday'
  BY <1>2, <1>3 DEF SlotInv, DatesAreToday, DueIsToday
<1>5. CASE UNCHANGED <<lastScheduledRunKey, pc, started>>
  BY <1>2, <1>3, <1>5, SlotInvStays
<1>6. CASE /\ Reservable(c, k)
           /\ lastScheduledRunKey' = [lastScheduledRunKey EXCEPT ![c] = k]
           /\ started' = [started EXCEPT ![c][k] = @ + 1]
  <2> SUFFICES ASSUME NEW d \in Companies \ disturbed, NEW j \in Keys, started'[d][j] # 0
               PROVE  /\ started'[d][j] = 1
                      /\ j[2] = policy[d].scheduleTime
                      /\ j[1] <= LocalDay[policy[d].scheduleTimezone][clock]
                      /\ j[1] = LocalDay[policy[d].scheduleTimezone][clock] =>
                            lastScheduledRunKey'[d] = j
    BY <1>2, <1>4 DEF SlotInv, StartedIsReserved
  <2>1. CASE d # c
    <3>1. started'[d] = started[d] /\ lastScheduledRunKey'[d] = lastScheduledRunKey[d]
      BY <1>6, <2>1 DEF TypeOK
    <3>2. QED
      BY <3>1 DEF SlotInv, StartedIsReserved
  <2>2. CASE d = c
    <3>1. k = <<LocalDay[policy[c].scheduleTimezone][clock], policy[c].scheduleTime>>
      BY <1>1, <2>2 DEF SlotInv, DueIsToday
    <3>2. lastScheduledRunKey[c] # k /\ lastScheduledRunKey'[c] = k
      BY <1>6 DEF Reservable, TypeOK
    <3>3. started[c][k] = 0
      BY <2>2, <3>1, <3>2 DEF SlotInv, StartedIsReserved
    <3>4. CASE j = k
      <4>1. started'[c][k] = 1
        BY <1>6, <3>3 DEF TypeOK
      <4>2. LocalDay[policy[c].scheduleTimezone][clock] \in Nat
        BY CalendarAssumption DEF TypeOK, Policies
      <4>3. QED
        BY <2>2, <3>1, <3>2, <3>4, <4>1, <4>2
    <3>5. CASE j # k
      <4>1. started'[c][j] = started[c][j]
        BY <1>6, <3>5 DEF TypeOK
      <4>2. /\ started[c][j] = 1 /\ j[2] = policy[c].scheduleTime
            /\ j[1] <= LocalDay[policy[c].scheduleTimezone][clock]
        BY <2>2, <4>1 DEF SlotInv, StartedIsReserved
      <4>3. j = <<j[1], j[2]>>
        BY DEF Keys
      <4>4. j[1] # LocalDay[policy[c].scheduleTimezone][clock]
        BY <3>1, <3>5, <4>2, <4>3
      <4>5. QED
        BY <2>2, <4>1, <4>2, <4>4
    <3>6. QED
      BY <3>4, <3>5
  <2>3. QED
    BY <2>1, <2>2
<1>7. QED
  BY <1>1, <1>5, <1>6

LEMMA NextSlotInv == TypeInv /\ SlotInv /\ [Next]_vars => SlotInv'
<1> SUFFICES ASSUME TypeOK, SlotInv, [Next]_vars
             PROVE  SlotInv'
  BY DEF TypeInv
<1>1. CASE Tick
  BY <1>1, TickSlotInv
<1>2. CASE BrowserNext
  BY <1>2, SlotInvStays DEF BrowserNext, BeginAuthorization, AuthorizationCallback, policies,
     runner, history
<1>3. ASSUME NEW q \in Requests, PatchNext(q)
      PROVE  SlotInv'
  <2>1. CASE PatchWrite(q)
    BY <2>1, WriteSlotInv
  <2>2. CASE ~PatchWrite(q)
    BY <1>3, <2>2, SlotInvStays DEF PatchNext, PatchReadPolicy, PatchReadCredentialFirst,
       PatchReadOther, PatchRefused, policies, runner, history
  <2>3. QED
    BY <2>1, <2>2
<1>4. ASSUME NEW c \in Companies, RunNow(c) \/ RunPolicyNow(c) \/ TriggerAfterInvoiceIssued(c)
      PROVE  SlotInv'
  BY <1>4, SlotInvStays DEF RunNow, RunPolicyNow, TriggerAfterInvoiceIssued, policies, runner,
     history
<1>5. ASSUME NEW r \in Runners, RunnerStarts(r) \/ RunnerGoesOn(r) \/ RunnerFails(r)
      PROVE  SlotInv'
  <2>1. CASE RunnerStarts(r)
    BY <2>1 DEF RunnerStarts, policies, history, TypeOK, SlotInv, DatesAreToday, DueIsToday,
       StartedIsReserved
  <2>2. CASE ReadPolicies(r)
    BY <2>2, ReadSlotInv
  <2>3. CASE Reserve(r)
    BY <2>3, ReserveSlotInv
  <2>4. CASE RunnerBackupEnds(r) \/ RunnerExits(r) \/ RunnerFails(r)
    BY <2>4, SlotInvStays DEF RunnerBackupEnds, RunnerExits, RunnerFails, AfterBackup,
       policies, history, TypeOK
  <2>5. QED
    BY <1>5, <2>1, <2>2, <2>3, <2>4 DEF RunnerGoesOn
<1>6. CASE UNCHANGED vars
  BY <1>6, SlotInvStays DEF vars, policies, runner, history
<1>7. QED
  BY <1>1, <1>2, <1>3, <1>4, <1>5, <1>6 DEF Next

\* A slot is run once, however many runners overlap, come back to it when clocks
\* are set back, or find it due while another has taken it.
THEOREM SlotsRunOnce == Spec => []SlotRunsOnce
<1>1. TypeInv /\ SlotInv => SlotRunsOnce
  BY DEF TypeInv, TypeOK, SlotInv, StartedIsReserved, SlotRunsOnce
<1>2. QED
  BY <1>1, InitTypeInv, NextTypeInv, InitSlotInv, NextSlotInv, PTL DEF Spec

-----------------------------------------------------------------------------
(***************************************************************************)
(* Authorizations.  The cookie is for a flow that was begun, and none was   *)
(* begun later; flows do not come from the future.                         *)
(***************************************************************************)
FlowInv ==
    /\ \A f \in cookie :
          /\ flow[f] # NoFlow
          /\ \A g \in Flows : flow[g] # NoFlow => flow[g].issuedAt <= flow[f].issuedAt
    /\ \A f \in Flows : flow[f] # NoFlow => flow[f].issuedAt <= clock

LEMMA NextFlowInv == TypeInv /\ FlowInv /\ [Next]_vars => FlowInv'
<1> SUFFICES ASSUME TypeOK, FlowInv, [Next]_vars
             PROVE  FlowInv'
  BY DEF TypeInv
<1>1. \A f \in Flows : flow[f] # NoFlow => flow[f].issuedAt \in Nat
  BY DEF TypeOK, NoFlow, Minutes
<1>2. CASE Tick
  BY <1>1, <1>2 DEF Tick, browser, FlowInv, TypeOK, Minutes
<1>3. ASSUME NEW f \in Flows, AuthorizationCallback(f)
      PROVE  FlowInv'
  BY <1>3 DEF AuthorizationCallback, FlowInv
<1>4. ASSUME NEW f \in Flows, NEW c \in Companies, BeginAuthorization(f, c)
      PROVE  FlowInv'
  <2>1. /\ cookie' = {f} /\ clock' = clock /\ clock \in Nat
        /\ flow'[f] = [company |-> c, issuedAt |-> clock]
        /\ \A g \in Flows \ {f} : flow'[g] = flow[g]
    BY <1>4 DEF BeginAuthorization, TypeOK, Minutes
  <2>2. flow'[f] # NoFlow /\ flow'[f].issuedAt = clock
    BY <2>1 DEF NoFlow
  <2>3. \A g \in Flows : flow'[g] # NoFlow => flow'[g].issuedAt <= clock
    BY <2>1, <2>2 DEF FlowInv
  <2>4. QED
    BY <2>1, <2>2, <2>3 DEF FlowInv
<1>5. CASE UNCHANGED <<clock, browser>>
  BY <1>5 DEF browser, FlowInv
<1>6. \/ Tick \/ BrowserNext \/ UNCHANGED <<clock, browser>>
  BY DEF Next, vars, PatchNext, PatchReadPolicy, PatchReadCredentialFirst, PatchReadOther,
     PatchWrite, PatchRefused, RunNow, RunPolicyNow, TriggerAfterInvoiceIssued, RunnerStarts,
     RunnerGoesOn, RunnerFails, ReadPolicies, Reserve, RunnerBackupEnds, RunnerExits
<1>7. QED
  BY <1>2, <1>3, <1>4, <1>5, <1>6 DEF BrowserNext

\* Of the authorizations begun in a browser, only one that no later one followed
\* connects a company, and only while its state is good.
THEOREM LatestFlowsConnect == Spec => OnlyLatestFlowConnects
<1>1. Init => FlowInv
  BY DEF Init, FlowInv
<1>2. ASSUME TypeInv, FlowInv, [Next]_vars
      PROVE  [\A f \in Flows :
                 AuthorizationCallback(f) /\ credential' # credential =>
                    /\ cookie = {f}
                    /\ \A g \in Flows : flow[g] # NoFlow => flow[g].issuedAt <= flow[f].issuedAt
                    /\ clock <= flow[f].issuedAt + StateMaxAge]_vars
  <2> SUFFICES ASSUME NEW f \in Flows, AuthorizationCallback(f), credential' # credential
               PROVE  /\ cookie = {f}
                      /\ \A g \in Flows : flow[g] # NoFlow =>
                                            flow[g].issuedAt <= flow[f].issuedAt
                      /\ clock <= flow[f].issuedAt + StateMaxAge
    OBVIOUS
  <2>1. flow[f] # NoFlow /\ StateAccepted(f)
    BY DEF AuthorizationCallback
  <2>2. clock \in Nat
    BY <1>2 DEF TypeInv, TypeOK, Minutes
  <2>3. flow[f].issuedAt \in Nat
    BY <1>2, <2>1 DEF TypeInv, TypeOK, NoFlow, Minutes
  <2>4. StateMaxAge \in Nat
    BY CalendarAssumption
  <2>5. cookie = {f} /\ clock - flow[f].issuedAt <= StateMaxAge
    BY <2>1 DEF StateAccepted
  <2>6. \A g \in Flows : flow[g] # NoFlow => flow[g].issuedAt <= flow[f].issuedAt
    BY <1>2, <2>5 DEF FlowInv
  <2>7. QED
    BY <2>2, <2>3, <2>4, <2>5, <2>6
<1>3. QED
  BY <1>1, <1>2, InitTypeInv, NextTypeInv, NextFlowInv, PTL DEF Spec, OnlyLatestFlowConnects

-----------------------------------------------------------------------------
(***************************************************************************)
(* What: CompanyBackup.                                                    *)
(***************************************************************************)
LEMMA InitBackupTypeOK == BackupInit => BackupTypeOK
<1> SUFFICES ASSUME BackupInit PROVE BackupTypeOK
  OBVIOUS
<1>1. 0 \in Instants /\ 1 \in Instants /\ 0 \in Grants /\ 1 \in Copies /\ "missing" \in Bytes
  BY BoundAssumption DEF Instants, Grants, Copies, Bytes
<1>2. /\ disk \in [Files -> [Copies -> Bytes]]
      /\ drive \in [Files -> SUBSET Bytes]
      /\ pending \in [Runs -> SUBSET (Files \X Copies)]
  BY <1>1 DEF BackupInit
<1>3. QED
  BY <1>1, <1>2 DEF BackupInit, BackupTypeOK, RunPc

LEMMA FileTypeOK ==
  ASSUME BackupTypeOK, NEW f \in Files,
         Stamp(f) \/ Insert(f) \/ Replace(f) \/ Remove(f) \/ Lose(f)
  PROVE  BackupTypeOK'
<1> USE BoundAssumption DEF BackupTypeOK
<1>1. UNCHANGED <<instant, googleCredential, honoured, run, succeeded, drive>>
  BY DEF Stamp, Insert, Replace, Remove, Lose
<1>2. /\ record' \in [Files -> {"none", "stamped", "stored", "removed"}]
      /\ createdAt' \in [Files -> Instants]
  <2>1. CASE Stamp(f)
    BY <2>1 DEF Stamp
  <2>2. CASE Insert(f) \/ Replace(f) \/ Remove(f) \/ Lose(f)
    BY <2>2 DEF Insert, Replace, Remove, Lose
  <2>3. QED
    BY <2>1, <2>2
<1>3. /\ path' \in [Files -> Copies]
      /\ disk' \in [Files -> [Copies -> Bytes]]
  <2>1. ASSUME NEW c \in Copies, NEW b \in Bytes
        PROVE  [disk EXCEPT ![f][c] = b] \in [Files -> [Copies -> Bytes]]
    OBVIOUS
  <2>2. 1 \in Copies /\ "intact" \in Bytes
    BY DEF Copies, Bytes
  <2>3. CASE Stamp(f)
    BY <2>1, <2>2, <2>3 DEF Stamp
  <2>4. CASE Replace(f)
    <3>1. path[f] + 1 \in Copies
      BY <2>4 DEF Replace, Copies
    <3>2. QED
      BY <2>1, <2>2, <2>4, <3>1 DEF Replace
  <2>5. CASE Lose(f)
    BY <2>1, <2>5 DEF Lose, Bytes
  <2>6. QED
    BY <2>3, <2>4, <2>5 DEF Insert, Remove
<1>4. QED
  BY <1>1, <1>2, <1>3 DEF googleCredential, run

LEMMA RunTypeOK ==
  ASSUME BackupTypeOK, NEW r \in Runs, RunNext(r)
  PROVE  BackupTypeOK'
<1> USE BoundAssumption DEF BackupTypeOK
<1>1. UNCHANGED <<instant, storage, honoured>>
  BY DEF RunNext, Start, Refresh, SaveTokens, FlagReauthorization, QueryPending, CheckFiles,
     Upload, FinishBackup, RecordSuccess, Fail, googleCredential
<1>2. /\ step' \in [Runs -> RunPc]
      /\ token' \in [Runs -> Grants]
      /\ since' \in [Runs -> Instants]
      /\ snapshotCutoff' \in [Runs -> Instants]
      /\ pending' \in [Runs -> SUBSET (Files \X Copies)]
  <2>1. CASE End(r)
    BY <2>1 DEF End, RunPc, Grants, Instants
  <2>2. CASE Start(r) \/ Refresh(r) \/ SaveTokens(r) \/ CheckFiles(r) \/ FinishBackup(r)
    <3>1. CASE Start(r)
      BY <3>1 DEF Start, Move, RunPc
    <3>2. CASE Refresh(r) \/ SaveTokens(r)
      BY <3>2 DEF Refresh, SaveTokens, Move, RunPc
    <3>3. CASE CheckFiles(r) \/ FinishBackup(r)
      BY <3>3 DEF CheckFiles, Accessible, FinishBackup, Move, RunPc
    <3>4. QED
      BY <2>2, <3>1, <3>2, <3>3
  <2>3. CASE QueryPending(r)
    BY <2>3 DEF QueryPending, Pending, Move, RunPc
  <2>4. CASE Upload(r)
    <3>1. CASE ~End(r)
      BY <2>4, <3>1 DEF Upload
    <3>2. QED
      BY <2>1, <3>1
  <2>5. QED
    BY <2>1, <2>2, <2>3, <2>4 DEF RunNext, FlagReauthorization, RecordSuccess, Fail
<1>3. /\ grant' \in Grants
      /\ requiresReauthorization' \in BOOLEAN
      /\ lastBackupAt' \in Instants
      /\ succeeded' \in SUBSET Instants
  BY DEF RunNext, Start, Refresh, SaveTokens, FlagReauthorization, QueryPending, CheckFiles,
     Upload, FinishBackup, Advance, RecordSuccess, Fail, googleCredential
<1>4. drive' \in [Files -> SUBSET Bytes]
  <2>1. CASE Upload(r)
    BY <2>1 DEF Upload
  <2>2. CASE ~Upload(r)
    BY <2>2 DEF RunNext, Start, Refresh, SaveTokens, FlagReauthorization, QueryPending,
       CheckFiles, FinishBackup, RecordSuccess, Fail
  <2>3. QED
    BY <2>1, <2>2
<1>5. QED
  BY <1>1, <1>2, <1>3, <1>4 DEF storage

LEMMA NextBackupTypeOK == BackupTypeOK /\ [BackupNext]_backupVars => BackupTypeOK'
<1> SUFFICES ASSUME BackupTypeOK, [BackupNext]_backupVars PROVE BackupTypeOK'
  OBVIOUS
<1>1. CASE UNCHANGED backupVars
  BY <1>1 DEF backupVars, storage, googleCredential, run, BackupTypeOK
<1>2. CASE TimePasses
  BY <1>2, BoundAssumption DEF TimePasses, BackupTypeOK, storage, googleCredential, run, Instants
<1>3. CASE UserNext
  BY <1>3 DEF UserNext, Connect, Revoke, BackupTypeOK, storage, googleCredential, run
<1>4. QED
  BY <1>1, <1>2, <1>3, FileTypeOK, RunTypeOK DEF BackupNext, FileNext

\* Records, credential and runs keep to their types, for any number of files
\* and overlapping backups.
THEOREM BackupTypeCorrect == BackupSpec => []BackupTypeOK
BY InitBackupTypeOK, NextBackupTypeOK, PTL DEF BackupSpec

-----------------------------------------------------------------------------
(***************************************************************************)
(* What a backup has on the drive.  A time that some part of the state     *)
(* calls covered lies in the past, and a record that becomes visible has   *)
(* the present as its time; so what was covered stays covered.  A backup   *)
(* inherits the cover of the time since which it looks and extends it to   *)
(* its cutoff once all that it found is uploaded.                          *)
(***************************************************************************)
Queried(r) == step[r] \in {"check", "upload", "record"}

TimeInv ==
    /\ lastBackupAt < instant
    /\ \A t \in succeeded : t < instant
    /\ \A f \in Files : record[f] = "stamped" => createdAt[f] = instant
    /\ \A r \in Runs :
          /\ since[r] < instant
          /\ snapshotCutoff[r] <= instant
          /\ Queried(r) => snapshotCutoff[r] < instant

OnItsWay(r, f) == drive[f] # {} \/ \E c \in Copies : <<f, c>> \in pending[r]

CoverInv ==
    /\ NothingIsSkipped
    /\ SuccessCovers
    /\ \A r \in Runs :
          /\ step[r] # "idle" => Covered(since[r])
          /\ step[r] \in {"check", "upload"} =>
                \A f \in Files :
                    Stored(f) /\ createdAt[f] <= snapshotCutoff[r] => OnItsWay(r, f)
          /\ step[r] = "record" => Covered(snapshotCutoff[r])

BackupInv == BackupTypeOK /\ TimeInv /\ CoverInv

LEMMA InitBackupInv == BackupInit => BackupInv
<1> SUFFICES ASSUME BackupInit PROVE BackupInv
  OBVIOUS
<1>1. BackupTypeOK
  BY InitBackupTypeOK
<1>2. TimeInv
  BY DEF BackupInit, TimeInv, Queried
<1>3. CoverInv
  BY DEF BackupInit, CoverInv, NothingIsSkipped, SuccessCovers, Covered, Stored
<1>4. QED
  BY <1>1, <1>2, <1>3 DEF BackupInv

\* What is covered stays covered as long as records become visible only with
\* the present time.
LEMMA CoverIsStable ==
  ASSUME BackupTypeOK, NEW t \in Instants, t < instant, Covered(t),
         \A f \in Files : drive[f] \subseteq drive'[f],
         \A f \in Files : Stored(f)' =>
            \/ Stored(f) /\ createdAt'[f] = createdAt[f]
            \/ createdAt'[f] = instant
  PROVE  Covered(t)'
<1> SUFFICES ASSUME NEW f \in Files, Stored(f)', createdAt'[f] <= t
             PROVE  drive'[f] # {}
  BY DEF Covered
<1>1. instant \in Nat /\ t \in Nat
  BY DEF BackupTypeOK, Instants
<1>2. Stored(f) /\ createdAt'[f] = createdAt[f]
  BY <1>1
<1>3. QED
  BY <1>2 DEF Covered

\* Steps outside the backups.
LEMMA OutsideStep ==
  ASSUME BackupInv, BackupTypeOK', TimePasses \/ FileNext \/ UserNext \/ UNCHANGED backupVars,
         LateInsert = FALSE
  PROVE  BackupInv'
<1> USE DEF BackupInv
<1>1. /\ UNCHANGED <<lastBackupAt, step, since, snapshotCutoff, pending, succeeded, drive>>
      /\ instant <= instant'
      /\ instant \in Nat /\ instant' \in Nat
  BY DEF TimePasses, FileNext, UserNext, Stamp, Insert, Replace, Remove, Lose, Connect, Revoke,
     backupVars, run, googleCredential, storage, BackupTypeOK, Instants
<1>2. \A f \in Files : Stored(f)' =>
         \/ Stored(f) /\ createdAt'[f] = createdAt[f]
         \/ createdAt'[f] = instant
  BY DEF TimePasses, FileNext, UserNext, Stamp, Insert, Replace, Remove, Lose, Connect, Revoke,
     backupVars, storage, TimeInv, BackupTypeOK, Stored
<1>3. \A t \in Instants : t < instant /\ Covered(t) => Covered(t)'
  BY <1>1, <1>2, CoverIsStable
<1>4. TimeInv'
  <2>1. \A f \in Files : record'[f] = "stamped" => createdAt'[f] = instant'
    BY DEF TimePasses, FileNext, UserNext, Stamp, Insert, Replace, Remove, Lose, Connect,
       Revoke, backupVars, storage, TimeInv, BackupTypeOK
  <2>2. QED
    BY <1>1, <2>1 DEF TimeInv, Queried, BackupTypeOK, Instants
<1>5. CoverInv'
  <2>1. NothingIsSkipped' /\ SuccessCovers'
    BY <1>1, <1>3 DEF CoverInv, NothingIsSkipped, SuccessCovers, TimeInv, BackupTypeOK
  <2>2. ASSUME NEW r \in Runs
        PROVE  /\ step'[r] # "idle" => Covered(since[r])'
               /\ step'[r] = "record" => Covered(snapshotCutoff[r])'
    BY <1>1, <1>3 DEF CoverInv, TimeInv, BackupTypeOK, Queried
  <2>3. ASSUME NEW r \in Runs, step'[r] \in {"check", "upload"}, NEW f \in Files,
               Stored(f)', createdAt'[f] <= snapshotCutoff'[r]
        PROVE  OnItsWay(r, f)'
    <3>1. step[r] \in {"check", "upload"} /\ snapshotCutoff'[r] < instant
      BY <1>1, <2>3 DEF TimeInv, Queried
    <3>2. Stored(f) /\ createdAt[f] <= snapshotCutoff[r]
      BY <1>1, <1>2, <2>3, <3>1 DEF BackupTypeOK, Instants
    <3>3. OnItsWay(r, f)
      BY <3>1, <3>2 DEF CoverInv
    <3>4. QED
      BY <1>1, <3>3 DEF OnItsWay
  <2>4. QED
    BY <2>1, <2>2, <2>3 DEF CoverInv
<1>6. QED
  BY <1>4, <1>5

\* A step of a backup: the files stay what they are and the drive loses
\* nothing.
LEMMA RunFrame ==
  ASSUME BackupTypeOK, NEW r \in Runs, RunNext(r)
  PROVE  /\ UNCHANGED <<instant, record, createdAt>>
         /\ \A f \in Files : drive[f] \subseteq drive'[f]
         /\ \A q \in Runs \ {r} :
               /\ step'[q] = step[q]
               /\ since'[q] = since[q]
               /\ snapshotCutoff'[q] = snapshotCutoff[q]
               /\ pending'[q] = pending[q]
<1>1. CASE Upload(r)
  BY <1>1 DEF Upload, End, BackupTypeOK, storage
<1>2. CASE ~Upload(r)
  BY <1>2 DEF RunNext, Start, Refresh, SaveTokens, FlagReauthorization, QueryPending,
     CheckFiles, Accessible, FinishBackup, RecordSuccess, Fail, End, Move, BackupTypeOK, storage
<1>3. QED
  BY <1>1, <1>2

LEMMA RunTimeInv ==
  ASSUME BackupInv, NEW r \in Runs, RunNext(r)
  PROVE  TimeInv'
<1> USE DEF BackupInv, TimeInv, BackupTypeOK, Instants, Queried
<1>1. UNCHANGED <<instant, record, createdAt>>
  BY RunFrame
<1>2. /\ since'[r] < instant
      /\ snapshotCutoff'[r] <= instant
      /\ Queried(r)' => snapshotCutoff'[r] < instant
  <2>1. CASE Upload(r)
    BY <2>1 DEF Upload, End
  <2>2. CASE ~Upload(r)
    BY <2>2 DEF RunNext, Start, Refresh, SaveTokens, FlagReauthorization, QueryPending,
       CheckFiles, FinishBackup, RecordSuccess, Fail, End, Move
  <2>3. QED
    BY <2>1, <2>2
<1>3. lastBackupAt' < instant /\ \A t \in succeeded' : t < instant
  BY DEF RunNext, Start, Refresh, SaveTokens, FlagReauthorization, QueryPending, CheckFiles,
     Upload, FinishBackup, Advance, RecordSuccess, Fail, Move, googleCredential
<1>4. QED
  BY <1>1, <1>2, <1>3, RunFrame

LEMMA RunCoverInv ==
  ASSUME BackupInv, NEW r \in Runs, RunNext(r)
  PROVE  CoverInv'
<1> USE DEF BackupInv
<1>1. \A t \in Instants : t < instant /\ Covered(t) => Covered(t)'
  BY RunFrame, CoverIsStable DEF Stored
<1>2. step[r] = "upload" /\ pending[r] = {} => Covered(snapshotCutoff[r])
  BY DEF CoverInv, Covered, OnItsWay
<1>3. NothingIsSkipped'
  <2>1. CASE FinishBackup(r)
    BY <1>1, <1>2, <2>1 DEF FinishBackup, Advance, Move, NothingIsSkipped, TimeInv, Queried,
       BackupTypeOK
  <2>2. CASE ~FinishBackup(r)
    <3>1. lastBackupAt' = lastBackupAt
      BY <2>2 DEF RunNext, Start, Refresh, SaveTokens, FlagReauthorization, QueryPending,
         CheckFiles, Upload, RecordSuccess, Fail, googleCredential
    <3>2. QED
      BY <1>1, <3>1 DEF NothingIsSkipped, CoverInv, TimeInv, BackupTypeOK
  <2>3. QED
    BY <2>1, <2>2
<1>4. SuccessCovers'
  <2>1. CASE RecordSuccess(r)
    BY <1>1, <2>1 DEF RecordSuccess, SuccessCovers, CoverInv, TimeInv, Queried, BackupTypeOK
  <2>2. CASE ~RecordSuccess(r)
    <3>1. succeeded' = succeeded
      BY <2>2 DEF RunNext, Start, Refresh, SaveTokens, FlagReauthorization, QueryPending,
         CheckFiles, Upload, FinishBackup, Fail
    <3>2. QED
      BY <1>1, <3>1 DEF SuccessCovers, CoverInv, TimeInv, BackupTypeOK
  <2>3. QED
    BY <2>1, <2>2
<1>5. step'[r] # "idle" => Covered(since[r])'
  <2>1. CASE Start(r)
    BY <1>1, <2>1 DEF Start, CoverInv, NothingIsSkipped, TimeInv, BackupTypeOK
  <2>2. CASE ~Start(r)
    <3>1. step'[r] # "idle" => step[r] # "idle" /\ since'[r] = since[r]
      BY <2>2 DEF RunNext, Refresh, SaveTokens, FlagReauthorization, QueryPending, CheckFiles,
         Upload, FinishBackup, RecordSuccess, Fail, End, Move, BackupTypeOK
    <3>2. QED
      BY <1>1, <3>1 DEF CoverInv, TimeInv, BackupTypeOK
  <2>3. QED
    BY <2>1, <2>2
<1>6. step'[r] = "record" => Covered(snapshotCutoff[r])'
  <2>1. step'[r] = "record" => FinishBackup(r)
    BY DEF RunNext, Start, Refresh, SaveTokens, FlagReauthorization, QueryPending, CheckFiles,
       Upload, RecordSuccess, Fail, End, Move, BackupTypeOK
  <2>2. QED
    BY <1>1, <1>2, <2>1 DEF FinishBackup, Move, TimeInv, Queried, BackupTypeOK
<1>7. ASSUME step'[r] \in {"check", "upload"}, NEW f \in Files,
             Stored(f)', createdAt'[f] <= snapshotCutoff'[r]
      PROVE  OnItsWay(r, f)'
  <2>1. Stored(f) /\ createdAt'[f] = createdAt[f] /\ drive[f] \subseteq drive'[f]
    BY <1>7, RunFrame DEF Stored
  <2>2. CASE QueryPending(r)
    <3>1. Covered(since[r]) /\ createdAt[f] <= snapshotCutoff[r]
      BY <1>7, <2>1, <2>2 DEF QueryPending, Move, CoverInv
    <3>2. CASE createdAt[f] <= since[r]
      BY <2>1, <3>1, <3>2 DEF Covered, OnItsWay
    <3>3. CASE since[r] < createdAt[f]
      <4>1. f \in Pending(r)
        BY <2>1, <3>1, <3>3 DEF Pending
      <4>2. pending'[r] = {<<g, path[g]>> : g \in Pending(r)}
        BY <2>2 DEF QueryPending, BackupTypeOK
      <4>3. <<f, path[f]>> \in pending'[r] /\ path[f] \in Copies
        BY <4>1, <4>2 DEF BackupTypeOK
      <4>4. QED
        BY <4>3 DEF OnItsWay
    <3>4. QED
      BY <3>2, <3>3 DEF BackupTypeOK, Instants
  <2>3. CASE CheckFiles(r)
    <3>1. step[r] = "check" /\ snapshotCutoff'[r] = snapshotCutoff[r] /\ pending' = pending
      BY <2>3 DEF CheckFiles, Accessible, Move
    <3>2. OnItsWay(r, f)
      BY <1>7, <2>1, <3>1 DEF CoverInv
    <3>3. QED
      BY <2>1, <3>1, <3>2 DEF OnItsWay
  <2>4. CASE Upload(r)
    <3>1. PICK x \in pending[r] :
             /\ drive' = [drive EXCEPT ![x[1]] = @ \cup {disk[x[1]][x[2]]}]
             /\ \/ /\ pending' = [pending EXCEPT ![r] = @ \ {x}]
                   /\ UNCHANGED snapshotCutoff
                \/ End(r)
      BY <2>4 DEF Upload
    <3>2. /\ step[r] = "upload"
          /\ snapshotCutoff'[r] = snapshotCutoff[r]
          /\ pending'[r] = pending[r] \ {x}
      BY <1>7, <2>4, <3>1 DEF Upload, End, BackupTypeOK
    <3>3. OnItsWay(r, f)
      BY <1>7, <2>1, <3>2 DEF CoverInv
    <3>4. CASE x[1] = f
      BY <3>1, <3>4 DEF OnItsWay, BackupTypeOK
    <3>5. CASE x[1] # f
      <4>1. \A c \in Copies : <<f, c>> \in pending[r] => <<f, c>> \in pending'[r]
        BY <3>2, <3>5
      <4>2. QED
        BY <2>1, <3>3, <4>1 DEF OnItsWay
    <3>6. QED
      BY <3>4, <3>5
  <2>5. QED
    BY <1>7, <2>2, <2>3, <2>4 DEF RunNext, Start, Refresh, SaveTokens, FlagReauthorization,
       FinishBackup, RecordSuccess, Fail, End, Move, BackupTypeOK
<1>8. ASSUME NEW q \in Runs \ {r}
      PROVE  /\ step'[q] # "idle" => Covered(since[q])'
             /\ step'[q] \in {"check", "upload"} =>
                   \A f \in Files :
                      Stored(f)' /\ createdAt'[f] <= snapshotCutoff'[q] => OnItsWay(q, f)'
             /\ step'[q] = "record" => Covered(snapshotCutoff[q])'
  BY <1>1, RunFrame DEF CoverInv, TimeInv, Queried, OnItsWay, Stored, BackupTypeOK
<1>9. QED
  BY <1>3, <1>4, <1>5, <1>6, <1>7, <1>8 DEF CoverInv

LEMMA NextBackupInv ==
  ASSUME LateInsert = FALSE
  PROVE  BackupInv /\ [BackupNext]_backupVars => BackupInv'
<1> SUFFICES ASSUME BackupInv, [BackupNext]_backupVars PROVE BackupInv'
  OBVIOUS
<1>1. BackupTypeOK'
  BY NextBackupTypeOK DEF BackupInv
<1>2. CASE TimePasses \/ FileNext \/ UserNext \/ UNCHANGED backupVars
  BY <1>1, <1>2, OutsideStep
<1>3. ASSUME NEW r \in Runs, RunNext(r) PROVE BackupInv'
  BY <1>1, <1>3, RunTimeInv, RunCoverInv DEF BackupInv
<1>4. QED
  BY <1>2, <1>3 DEF BackupNext

\* No stored file is ever passed over by lastBackupAt, whatever backups
\* overlap, fail or stop, and whatever is repaired or reverted meanwhile, if
\* a record becomes visible before the clock moves on.
THEOREM NoFileIsSkipped ==
  ASSUME LateInsert = FALSE
  PROVE  BackupSpec => []NothingIsSkipped
<1>1. BackupInv => NothingIsSkipped
  BY DEF BackupInv, CoverInv
<1>2. QED
  BY <1>1, InitBackupInv, NextBackupInv, PTL DEF BackupSpec

\* Every backup recorded as successful has all the files stored before it,
\* under the same assumption.
THEOREM SuccessfulBackupsCover ==
  ASSUME LateInsert = FALSE
  PROVE  BackupSpec => []SuccessCovers
<1>1. BackupInv => SuccessCovers
  BY DEF BackupInv, CoverInv
<1>2. QED
  BY <1>1, InitBackupInv, NextBackupInv, PTL DEF BackupSpec
=============================================================================
