------------------------------ MODULE KsefProofs ------------------------------
(***************************************************************************)
(* Theorems about the exchange with KSeF.  About KsefSubmission, for any   *)
(* sets of invoices and of calls and any bound on the attempts: types, at  *)
(* most one transmission, what KSeF received stays within reach, the       *)
(* verdicts recorded are those of KSeF, and the whole implements           *)
(* KsefDelivery.  About KsefSession, for any requests, administrators,     *)
(* tokens and numbers of faults and changes.                               *)
(***************************************************************************)
EXTENDS KsefSubmission, KsefSession, TLAPS, FiniteSetTheorems

-----------------------------------------------------------------------------
(***************************************************************************)
(* Submissions: KsefSubmission.                                            *)
(***************************************************************************)
(***************************************************************************)
(* Types.  A call under way works on an invoice, and on one of its rows    *)
(* once it has claimed it.                                                 *)
(***************************************************************************)
Claimed == WorkerPc \ {"idle", "submit", "retry"}

CallsOK ==
    /\ \A w \in Workers :
          /\ pc[w] # "idle" => job[w] \in Invoices
          /\ pc[w] \in Claimed => att[w] \in Attempts
    /\ \A p \in Pollers :
          /\ ppc[p] # "idle" => pjob[p] \in Invoices /\ patt[p] \in Attempts
          /\ ppc[p] = "ask" => prefs[p] \in Keys

TypeInv == TypeOK /\ CallsOK

LEMMA InitTypeInv == Init => TypeInv
<1>1. Init => TypeOK
  BY DEF Init, TypeOK, InvoiceKsefStatus, KsefSubmissionStatus, WorkerPc, PollerPc,
         Outcomes, Tries
<1>2. Init => CallsOK
  BY DEF Init, CallsOK, Claimed
<1>3. QED
  BY <1>1, <1>2 DEF TypeInv

LEMMA KsefKeepsTypes ==
  ASSUME TypeInv, NEW i \in Invoices, NEW k \in Keys, Receive(i, k) \/ Decide(i, k)
  PROVE  TypeInv'
<1>1. PICK v \in Outcomes : ksef' = [ksef EXCEPT ![i][k] = v]
  BY DEF Receive, Decide, Outcomes
<1>2. UNCHANGED <<invoiceRow, submissionRow, call, poll>>
  BY DEF Receive, Decide
<1>3. QED
  BY <1>1, <1>2 DEF TypeInv, TypeOK, CallsOK, invoiceRow, submissionRow, call, poll

LEMMA WorkerKeepsTypes ==
  ASSUME TypeInv, NEW w \in Workers, WorkerNext(w)
  PROVE  TypeInv'
<1> USE DEF TypeInv, TypeOK, CallsOK, WorkerPc, Mutating, Claimed, invoiceRow,
submissionRow, call, poll
<1>1. ASSUME NEW i \in Invoices, ReadForSubmit(w, i)
      PROVE  TypeInv'
  BY <1>1 DEF ReadForSubmit, Move
<1>2. ASSUME NEW i \in Invoices, ReadForRetry(w, i)
      PROVE  TypeInv'
  BY <1>2 DEF ReadForRetry, Move
<1>3. CASE Claim(w)
  BY <1>3 DEF Claim, Claimable, InvoiceKsefStatus, KsefSubmissionStatus, Attempts,
     Tries, Keys, Outcomes
<1>4. CASE Conflict(w)
  BY <1>4 DEF Conflict, Finish, InvoiceKsefStatus, KsefSubmissionStatus, Attempts,
     Tries, Keys, Outcomes
<1>5. CASE SessionReady(w)
  BY <1>5 DEF SessionReady, Move, InvoiceKsefStatus, KsefSubmissionStatus, Attempts,
     Tries, Keys, Outcomes
<1>6. CASE SessionFails(w)
  BY <1>6 DEF SessionFails, Move, InvoiceKsefStatus, KsefSubmissionStatus, Attempts,
     Tries, Keys, Outcomes
<1>7. CASE MarkStarted(w)
  BY <1>7 DEF MarkStarted, Move, InvoiceKsefStatus, KsefSubmissionStatus, Attempts,
     Tries, Keys, Outcomes
<1>8. CASE Transmit(w)
  BY <1>8 DEF Transmit, Move, InvoiceKsefStatus, KsefSubmissionStatus, Attempts,
     Tries, Keys, Outcomes
<1>9. CASE SendRefused(w)
  BY <1>9 DEF SendRefused, Move, InvoiceKsefStatus, KsefSubmissionStatus, Attempts,
     Tries, Keys, Outcomes
<1>10. CASE ReplyArrives(w)
  <2>1. PICK n \in BOOLEAN : known' = [known EXCEPT ![w] = n]
    BY <1>10 DEF ReplyArrives
  <2>2. pc[w] = "awaiting" /\ pc' = [pc EXCEPT ![w] = "replied"]
    BY <1>10 DEF ReplyArrives, Move
  <2>3. UNCHANGED <<invoiceRow, submissionRow, job, att, try, poll, ksef>>
    BY <1>10 DEF ReplyArrives
  <2>4. QED
    BY <2>1, <2>2, <2>3
<1>11. CASE ReplyLost(w)
  BY <1>11 DEF ReplyLost, Move, InvoiceKsefStatus, KsefSubmissionStatus, Attempts,
     Tries, Keys, Outcomes
<1>12. CASE RevokeStarted(w)
  BY <1>12 DEF RevokeStarted, Move, InvoiceKsefStatus, KsefSubmissionStatus,
     Attempts, Tries, Keys, Outcomes
<1>13. CASE RecordSubmitted(w)
  BY <1>13 DEF RecordSubmitted, Move, InvoiceKsefStatus, KsefSubmissionStatus,
     Attempts, Tries, Keys, Outcomes
<1>14. CASE RecordAccepted(w)
  BY <1>14 DEF RecordAccepted, Finish, InvoiceKsefStatus, KsefSubmissionStatus,
     Attempts, Tries, Keys, Outcomes
<1>15. CASE RecordLegacySubmitted(w)
  BY <1>15 DEF RecordLegacySubmitted, Finish, InvoiceKsefStatus,
     KsefSubmissionStatus, Attempts, Tries, Keys, Outcomes
<1>16. CASE StatementFails(w)
  BY <1>16 DEF StatementFails, Move, InvoiceKsefStatus, KsefSubmissionStatus,
     Attempts, Tries, Keys, Outcomes
<1>17. CASE RecordFailure(w)
  BY <1>17 DEF RecordFailure, FailureStatus, Finish, InvoiceKsefStatus,
     KsefSubmissionStatus, Attempts, Tries, Keys, Outcomes
<1>18. CASE WorkerDies(w)
  BY <1>18 DEF WorkerDies, Finish, InvoiceKsefStatus, KsefSubmissionStatus, Attempts,
     Tries, Keys, Outcomes
<1>19. QED
  BY <1>1, <1>2, <1>3, <1>4, <1>5, <1>6, <1>7, <1>8, <1>9, <1>10, <1>11, <1>12,
     <1>13, <1>14, <1>15, <1>16, <1>17, <1>18 DEF WorkerNext, WorkerStep

LEMMA AttachableIsAttempt ==
  ASSUME TypeInv, NEW i \in Invoices
  PROVE  Attachable(i) \subseteq Attempts
<1>1. count[i] \in Attempts \cup {0}
  BY DEF TypeInv, TypeOK
<1>2. 1..count[i] \subseteq 1..MaxAttempts
  BY <1>1, MaxAttemptsAssumption DEF Attempts
<1>3. QED
  BY <1>2 DEF Attachable, Attempts

LEMMA PollerKeepsTypes ==
  ASSUME TypeInv, NEW p \in Pollers, PollerNext(p)
  PROVE  TypeInv'
<1> USE DEF TypeInv, TypeOK, CallsOK, PollerPc, invoiceRow, submissionRow, call, poll
<1>1. ASSUME NEW i \in Invoices, NEW k \in Keys, Attach(p, i, k)
      PROVE  TypeInv'
  <2>1. PICK a \in Attachable(i) :
           /\ subStatus' = [subStatus EXCEPT ![i][a] = "SUBMITTED"]
           /\ refs' = [refs EXCEPT ![i][a] = k]
           /\ last' = [last EXCEPT ![i] = a]
           /\ StartPoll(p, i, a)
    BY <1>1 DEF Attach
  <2>2. a \in Attempts
    BY AttachableIsAttempt
  <2>3. /\ legacy' = [legacy EXCEPT ![i] = "SUBMITTED"]
        /\ status' = [status EXCEPT ![i] = "SUBMITTED"]
        /\ UNCHANGED <<count, started, number, call, ksef>>
    BY <1>1 DEF Attach
  <2>4. /\ subStatus' \in [Invoices -> [Attempts -> KsefSubmissionStatus]]
        /\ refs' \in [Invoices -> [Attempts -> Keys \cup {NoRefs}]]
        /\ last' \in [Invoices -> Attempts \cup {0}]
    BY <2>1, <2>2 DEF KsefSubmissionStatus
  <2>5. /\ legacy' \in [Invoices -> InvoiceKsefStatus]
        /\ status' \in [Invoices -> InvoiceKsefStatus]
    BY <2>3 DEF InvoiceKsefStatus
  <2>6. /\ ppc' \in [Pollers -> PollerPc]
        /\ pjob' \in [Pollers -> Invoices \cup {NoInvoice}]
        /\ patt' \in [Pollers -> Attempts \cup {0}]
        /\ prefs' \in [Pollers -> Keys \cup {NoRefs}]
        /\ CallsOK'
    BY <2>1, <2>2, <2>3 DEF StartPoll
  <2>7. QED
    BY <2>3, <2>4, <2>5, <2>6
<1>2. ASSUME NEW i \in Invoices, StatusRequest(p, i)
      PROVE  TypeInv'
  BY <1>2 DEF StatusRequest, StartPoll, Attempts
<1>3. ASSUME NEW i \in Invoices, NEW a \in Attempts, CronPoll(p, i, a)
      PROVE  TypeInv'
  BY <1>3 DEF CronPoll, StartPoll
<1>4. CASE PollRead(p)
  <2>1. UNCHANGED <<invoiceRow, submissionRow, call, ksef>>
    BY <1>4 DEF PollRead
  <2>2. ppc[p] = "read"
    BY <1>4 DEF PollRead
  <2>3. CASE ppc' = [ppc EXCEPT ![p] = "restore"] /\ UNCHANGED <<pjob, patt, prefs>>
    BY <2>1, <2>2, <2>3
  <2>4. CASE EndPoll(p)
    BY <2>1, <2>2, <2>4 DEF EndPoll
  <2>5. CASE /\ refs[pjob[p]][patt[p]] # NoRefs
             /\ ppc' = [ppc EXCEPT ![p] = "ask"]
             /\ prefs' = [prefs EXCEPT ![p] = refs[pjob[p]][patt[p]]]
             /\ UNCHANGED <<pjob, patt>>
    <3>1. refs[pjob[p]][patt[p]] \in Keys
      BY <2>2, <2>5
    <3>2. QED
      BY <2>1, <2>2, <2>5, <3>1
  <2>6. QED
    BY <1>4, <2>3, <2>4, <2>5 DEF PollRead
<1>5. CASE RestoreAccepted(p)
  BY <1>5 DEF RestoreAccepted, EndPoll, InvoiceKsefStatus, KsefSubmissionStatus
<1>6. CASE PollAnswered(p)
  <2>1. UNCHANGED <<invoiceRow, submissionRow, call, ksef>> /\ ppc[p] = "ask"
    BY <1>6 DEF PollAnswered
  <2>2. CASE EndPoll(p)
    BY <2>1, <2>2 DEF EndPoll
  <2>3. ASSUME NEW v \in AnswersTo(ksef[pjob[p]][prefs[p]]),
               ppc' = [ppc EXCEPT ![p] = v], UNCHANGED <<pjob, patt, prefs>>
        PROVE  TypeInv'
    <3>1. v \in {"accepted", "unnumbered", "rejected"}
      BY <2>3 DEF AnswersTo
    <3>2. QED
      BY <2>1, <2>3, <3>1
  <2>4. QED
    BY <1>6, <2>2, <2>3 DEF PollAnswered
<1>7. CASE PollWrite(p)
  BY <1>7 DEF PollWrite, PollStatus, EndPoll, InvoiceKsefStatus, KsefSubmissionStatus
<1>8. CASE PollerDies(p)
  BY <1>8 DEF PollerDies, EndPoll, InvoiceKsefStatus, KsefSubmissionStatus
<1>9. QED
  BY <1>1, <1>2, <1>3, <1>4, <1>5, <1>6, <1>7, <1>8 DEF PollerNext, PollerStep

LEMMA StepTypeInv ==
  ASSUME TypeInv, [Next]_vars
  PROVE  TypeInv'
<1>1. CASE KsefNext
  BY <1>1, KsefKeepsTypes DEF KsefNext
<1>2. CASE \E w \in Workers : WorkerNext(w)
  BY <1>2, WorkerKeepsTypes
<1>3. CASE \E p \in Pollers : PollerNext(p)
  BY <1>3, PollerKeepsTypes
<1>4. CASE UNCHANGED vars
  BY <1>4 DEF vars, TypeInv, TypeOK, CallsOK, invoiceRow, submissionRow, call, poll
<1>5. QED
  BY <1>1, <1>2, <1>3, <1>4 DEF Next

\* Columns, rows and calls keep to the values the schema and the code allow,
\* for any sets of invoices and calls and any bound on the attempts.
THEOREM TypeCorrect == Spec => []TypeOK
<1>1. TypeInv => TypeOK
  BY DEF TypeInv
<1>2. QED
  BY <1>1, InitTypeInv, StepTypeInv, PTL DEF Spec

(***************************************************************************)
(* At most one transmission.  An invoice is claimed by one call at a time, *)
(* and only while nothing was sent for it; what the catch block queues     *)
(* again was not sent.  Neither holds alone: the claim trusts the outcome  *)
(* and the flag of the last row, and these are right because the call that *)
(* wrote them was the only one.                                            *)
(***************************************************************************)
BeforeSending == {"session", "start", "sending", "unauth", "reauth", "failed"}
Unsent(i) == \A k \in Keys : ksef[i][k] = "none"

\* The state row of an invoice that may be claimed points to its last row.
RowInv ==
    \A i \in Invoices :
        /\ status[i] = "NOT_SENT" => count[i] = 0
        /\ status[i] = "OFFLINE_QUEUED" => last[i] = count[i]

\* A call that has claimed an invoice works on its last row, alone.
ClaimInv ==
    \A w \in Workers : pc[w] \in Claimed =>
        /\ att[w] = count[job[w]]
        /\ subStatus[job[w]][att[w]] # "ERROR"
        /\ \A v \in Workers : pc[v] \in Claimed /\ job[v] = job[w] => v = w

UnsentInv == \A w \in Workers : pc[w] \in BeforeSending => Unsent(job[w])

SendingInv == \A w \in Workers : pc[w] = "sending" => started[job[w]][att[w]]

RetryInv == \A i \in Invoices : Retryable(i) => Unsent(i)

SentInv ==
    \A i \in Invoices : \A k \in Keys : ksef[i][k] # "none" =>
        /\ k[1] = count[i]
        /\ started[i][k[1]]
        /\ \A l \in Keys : ksef[i][l] # "none" => l = k

SafetyInv == RowInv /\ ClaimInv /\ UnsentInv /\ SendingInv /\ RetryInv /\ SentInv

\* Most steps change neither the history of an invoice nor what was
\* transmitted, and let no call advance towards a transmission.
QuietStep ==
    /\ UNCHANGED <<count, started>>
    /\ \A i \in Invoices : \A k \in Keys : ksef'[i][k] = "none" <=> ksef[i][k] = "none"
    /\ \A i \in Invoices :
          \/ status'[i] = status[i] /\ last'[i] = last[i]
          \/ status'[i] \in {"SUBMITTED", "ACCEPTED", "REJECTED"}
    /\ \A i \in Invoices, a \in Attempts :
          subStatus'[i][a] = subStatus[i][a] \/ subStatus'[i][a] # "ERROR"
    /\ \A w \in Workers :
          /\ pc'[w] \in Claimed =>
                pc[w] \in Claimed /\ job'[w] = job[w] /\ att'[w] = att[w]
          /\ pc'[w] \in BeforeSending => pc[w] \in BeforeSending
          /\ pc'[w] = "sending" => pc[w] = "sending"

LEMMA QuietStepKeepsSafety ==
  ASSUME TypeInv, SafetyInv, QuietStep
  PROVE  SafetyInv'
<1>1. RowInv'
  BY DEF SafetyInv, RowInv, QuietStep
<1>2. ClaimInv'
  <2> SUFFICES ASSUME NEW w \in Workers, pc'[w] \in Claimed
               PROVE  /\ att'[w] = count'[job'[w]]
                      /\ subStatus'[job'[w]][att'[w]] # "ERROR"
                      /\ \A v \in Workers : pc'[v] \in Claimed /\ job'[v] = job'[w] => v = w
    BY DEF ClaimInv
  <2>1. pc[w] \in Claimed /\ job'[w] = job[w] /\ att'[w] = att[w]
    BY DEF QuietStep
  <2>2. job[w] \in Invoices /\ att[w] \in Attempts
    BY <2>1 DEF TypeInv, CallsOK, Claimed
  <2>3. /\ att[w] = count[job[w]]
        /\ subStatus[job[w]][att[w]] # "ERROR"
        /\ \A v \in Workers : pc[v] \in Claimed /\ job[v] = job[w] => v = w
    BY <2>1 DEF SafetyInv, ClaimInv
  <2>4. QED
    BY <2>1, <2>2, <2>3 DEF QuietStep
<1>3. UnsentInv'
  <2> SUFFICES ASSUME NEW w \in Workers, pc'[w] \in BeforeSending, NEW k \in Keys
               PROVE  ksef'[job'[w]][k] = "none"
    BY DEF UnsentInv, Unsent
  <2>1. pc[w] \in BeforeSending /\ pc'[w] \in Claimed
    BY DEF QuietStep, BeforeSending, Claimed, WorkerPc, Mutating
  <2>2. job'[w] = job[w] /\ job[w] \in Invoices
    BY <2>1 DEF QuietStep, TypeInv, CallsOK, BeforeSending
  <2>3. QED
    BY <2>1, <2>2 DEF SafetyInv, UnsentInv, Unsent, QuietStep
<1>4. SendingInv'
  <2> SUFFICES ASSUME NEW w \in Workers, pc'[w] = "sending"
               PROVE  started'[job'[w]][att'[w]]
    BY DEF SendingInv
  <2>1. pc[w] = "sending" /\ job'[w] = job[w] /\ att'[w] = att[w]
    BY DEF QuietStep, Claimed, WorkerPc, Mutating
  <2>2. QED
    BY <2>1 DEF SafetyInv, SendingInv, QuietStep
<1>5. RetryInv'
  <2> SUFFICES ASSUME NEW i \in Invoices, Retryable(i)', NEW k \in Keys
               PROVE  ksef'[i][k] = "none"
    BY DEF RetryInv, Unsent
  <2>1. status'[i] = status[i] /\ last'[i] = last[i] /\ last[i] \in Attempts \cup {0}
    BY DEF QuietStep, Retryable, TypeInv, TypeOK
  <2>2. Retryable(i)
    BY <2>1 DEF Retryable, QuietStep
  <2>3. QED
    BY <2>2 DEF SafetyInv, RetryInv, Unsent, QuietStep
<1>6. SentInv'
  <2> SUFFICES ASSUME NEW i \in Invoices, NEW k \in Keys, ksef'[i][k] # "none"
               PROVE  /\ k[1] = count'[i]
                      /\ started'[i][k[1]]
                      /\ \A l \in Keys : ksef'[i][l] # "none" => l = k
    BY DEF SentInv
  <2>1. ksef[i][k] # "none"
    BY DEF QuietStep
  <2>2. QED
    BY <2>1 DEF SafetyInv, SentInv, QuietStep
<1>7. QED
  BY <1>1, <1>2, <1>3, <1>4, <1>5, <1>6 DEF SafetyInv

\* An attempt is claimed only when nothing was sent for the invoice before.
LEMMA ClaimKeepsSafety ==
  ASSUME TypeInv, SafetyInv, NEW w \in Workers, Claim(w)
  PROVE  SafetyInv'
<1> DEFINE i == job[w]
           a == count[i] + 1
<1>1. i \in Invoices /\ pc[w] \notin Claimed /\ pc[w] # "sending" /\ pc[w] \notin BeforeSending
  BY DEF Claim, TypeInv, CallsOK, Claimed, BeforeSending
<1>2. /\ a \in Attempts
      /\ count' = [count EXCEPT ![i] = a]
      /\ subStatus' = [subStatus EXCEPT ![i][a] = "PENDING"]
      /\ status' = [status EXCEPT ![i] = "OFFLINE_QUEUED"]
      /\ last' = [last EXCEPT ![i] = a]
      /\ pc' = [pc EXCEPT ![w] = "session"]
      /\ att' = [att EXCEPT ![w] = a]
      /\ UNCHANGED <<job, started, ksef>>
  BY DEF Claim, submissionRow
<1>3. Claimable(i, TRUE)
  BY DEF Claim, Claimable
<1>4. Unsent(i)
  <2>1. CASE status[i] = "NOT_SENT"
    BY <1>1, <2>1 DEF SafetyInv, RowInv, SentInv, Unsent, Keys, Attempts
  <2>2. CASE Retryable(i)
    BY <1>1, <2>2 DEF SafetyInv, RetryInv
  <2>3. QED
    BY <1>3, <2>1, <2>2 DEF Claimable
<1>5. \A v \in Workers : pc[v] \in Claimed => job[v] # i
  <2> SUFFICES ASSUME NEW v \in Workers, pc[v] \in Claimed, job[v] = i
               PROVE  FALSE
    OBVIOUS
  <2>1. att[v] = count[i] /\ subStatus[i][att[v]] # "ERROR" /\ att[v] \in Attempts
    BY DEF SafetyInv, ClaimInv, TypeInv, CallsOK
  <2>2. count[i] # 0
    BY <2>1 DEF Attempts
  <2>3. CASE status[i] = "NOT_SENT"
    BY <1>1, <2>2, <2>3 DEF SafetyInv, RowInv
  <2>4. CASE Retryable(i)
    BY <1>1, <2>1, <2>4 DEF SafetyInv, RowInv, Retryable
  <2>5. QED
    BY <1>3, <2>3, <2>4 DEF Claimable
<1> HIDE DEF i, a
<1>6. RowInv'
  BY <1>1, <1>2 DEF SafetyInv, RowInv, TypeInv, TypeOK, Attempts
<1>7. ClaimInv'
  <2> SUFFICES ASSUME NEW v \in Workers, pc'[v] \in Claimed
               PROVE  /\ att'[v] = count'[job'[v]]
                      /\ subStatus'[job'[v]][att'[v]] # "ERROR"
                      /\ \A u \in Workers : pc'[u] \in Claimed /\ job'[u] = job'[v] => u = v
    BY DEF ClaimInv
  <2>1. CASE v = w
    <3>1. job[w] = i
      BY DEF i
    <3>2. \A u \in Workers : pc'[u] \in Claimed /\ job'[u] = i => u = w
      BY <1>2, <1>5 DEF TypeInv, TypeOK
    <3>3. att'[w] = a /\ count'[i] = a /\ subStatus'[i][a] = "PENDING"
      BY <1>1, <1>2 DEF TypeInv, TypeOK
    <3>4. QED
      BY <1>2, <2>1, <3>1, <3>2, <3>3
  <2>2. CASE v # w
    <3>1. pc[v] \in Claimed /\ job[v] # i /\ job[v] \in Invoices
      BY <1>2, <1>5, <2>2 DEF TypeInv, TypeOK, CallsOK, Claimed
    <3>2. /\ att[v] = count[job[v]]
          /\ subStatus[job[v]][att[v]] # "ERROR"
          /\ \A u \in Workers : pc[u] \in Claimed /\ job[u] = job[v] => u = v
      BY <3>1 DEF SafetyInv, ClaimInv
    <3>3. job[w] = i
      BY DEF i
    <3>4. QED
      BY <1>2, <2>2, <3>1, <3>2, <3>3 DEF TypeInv, TypeOK
  <2>3. QED
    BY <2>1, <2>2
<1>8. UnsentInv'
  <2> SUFFICES ASSUME NEW v \in Workers, pc'[v] \in BeforeSending
               PROVE  \A k \in Keys : ksef'[job'[v]][k] = "none"
    BY DEF UnsentInv, Unsent
  <2>1. CASE v = w
    BY <1>2, <1>4, <2>1 DEF i, Unsent
  <2>2. CASE v # w
    BY <1>2, <2>2 DEF SafetyInv, UnsentInv, Unsent, TypeInv, TypeOK
  <2>3. QED
    BY <2>1, <2>2
<1>9. SendingInv'
  <2> SUFFICES ASSUME NEW v \in Workers, pc'[v] = "sending"
               PROVE  started'[job'[v]][att'[v]]
    BY DEF SendingInv
  <2>1. v # w /\ pc[v] = "sending"
    BY <1>2 DEF TypeInv, TypeOK
  <2>2. QED
    BY <1>2, <2>1 DEF SafetyInv, SendingInv, TypeInv, TypeOK
<1>10. RetryInv'
  <2> SUFFICES ASSUME NEW j \in Invoices, Retryable(j)'
               PROVE  \A k \in Keys : ksef'[j][k] = "none"
    BY DEF RetryInv, Unsent
  <2>1. j # i
    BY <1>1, <1>2 DEF Retryable, TypeInv, TypeOK
  <2>2. Retryable(j)
    BY <1>2, <2>1 DEF Retryable, TypeInv, TypeOK
  <2>3. QED
    BY <1>2, <2>2 DEF SafetyInv, RetryInv, Unsent
<1>11. SentInv'
  <2> SUFFICES ASSUME NEW j \in Invoices, NEW k \in Keys, ksef'[j][k] # "none"
               PROVE  /\ k[1] = count'[j]
                      /\ started'[j][k[1]]
                      /\ \A l \in Keys : ksef'[j][l] # "none" => l = k
    BY DEF SentInv
  <2>1. ksef[j][k] # "none" /\ j # i
    BY <1>2, <1>4 DEF Unsent
  <2>2. QED
    BY <1>2, <2>1 DEF SafetyInv, SentInv, TypeInv, TypeOK
<1>12. QED
  BY <1>6, <1>7, <1>8, <1>9, <1>10, <1>11 DEF SafetyInv

\* Raising or revoking the flag concerns an invoice nothing was sent for.
LEMMA FlagKeepsSafety ==
  ASSUME TypeInv, SafetyInv, NEW w \in Workers, MarkStarted(w) \/ RevokeStarted(w)
  PROVE  SafetyInv'
<1> DEFINE i == job[w]
<1>1. PICK up \in BOOLEAN, to \in {"sending", "reauth"} :
         /\ pc' = [pc EXCEPT ![w] = to]
         /\ started' = [started EXCEPT ![i][att[w]] = up]
         /\ to = "sending" => up
         /\ pc[w] \in {"start", "unauth"}
         /\ UNCHANGED <<status, last, count, subStatus, job, att, ksef>>
  BY DEF MarkStarted, RevokeStarted, Move, invoiceRow
<1>2. i \in Invoices /\ att[w] \in Attempts /\ pc[w] \in Claimed /\ pc[w] \in BeforeSending
  BY <1>1 DEF TypeInv, CallsOK, Claimed, WorkerPc, Mutating, BeforeSending
<1>3. Unsent(i)
  BY <1>2 DEF SafetyInv, UnsentInv
<1>4. RowInv'
  BY <1>1 DEF SafetyInv, RowInv
<1>5. ClaimInv'
  <2>1. \A v \in Workers : pc'[v] \in Claimed => pc[v] \in Claimed
    BY <1>1, <1>2 DEF TypeInv, TypeOK
  <2>2. QED
    BY <1>1, <2>1 DEF SafetyInv, ClaimInv
<1>6. UnsentInv'
  <2>1. \A v \in Workers : pc'[v] \in BeforeSending => pc[v] \in BeforeSending
    BY <1>1, <1>2 DEF TypeInv, TypeOK
  <2>2. QED
    BY <1>1, <2>1 DEF SafetyInv, UnsentInv, Unsent
<1>7. SendingInv'
  <2> SUFFICES ASSUME NEW v \in Workers, pc'[v] = "sending"
               PROVE  started'[job[v]][att[v]]
    BY <1>1 DEF SendingInv
  <2>1. CASE v = w
    BY <1>1, <1>2, <2>1 DEF TypeInv, TypeOK
  <2>2. CASE v # w
    <3>1. pc[v] = "sending" /\ started[job[v]][att[v]]
      BY <1>1, <2>2 DEF SafetyInv, SendingInv, TypeInv, TypeOK
    <3>2. job[v] # i
      BY <1>2, <2>2, <3>1 DEF SafetyInv, ClaimInv, Claimed, WorkerPc, Mutating
    <3>3. QED
      BY <1>1, <3>1, <3>2 DEF TypeInv, TypeOK
  <2>3. QED
    BY <2>1, <2>2
<1>8. RetryInv'
  <2> SUFFICES ASSUME NEW j \in Invoices, Retryable(j)'
               PROVE  Unsent(j)
    BY <1>1 DEF RetryInv, Unsent
  <2>1. CASE j = i
    BY <1>3, <2>1
  <2>2. CASE j # i
    BY <1>1, <2>2 DEF SafetyInv, RetryInv, Retryable, TypeInv, TypeOK
  <2>3. QED
    BY <2>1, <2>2
<1>9. SentInv'
  <2> SUFFICES ASSUME NEW j \in Invoices, NEW k \in Keys, ksef[j][k] # "none"
               PROVE  /\ k[1] = count[j]
                      /\ started'[j][k[1]]
                      /\ \A l \in Keys : ksef[j][l] # "none" => l = k
    BY <1>1 DEF SentInv
  <2>1. j # i
    BY <1>3 DEF Unsent
  <2>2. QED
    BY <1>1, <2>1 DEF SafetyInv, SentInv, TypeInv, TypeOK
<1>10. QED
  BY <1>4, <1>5, <1>6, <1>7, <1>8, <1>9 DEF SafetyInv

\* The transmission is the first of its invoice, and flagged.
LEMMA TransmitKeepsSafety ==
  ASSUME TypeInv, SafetyInv, NEW w \in Workers, Transmit(w)
  PROVE  SafetyInv'
<1> DEFINE i == job[w]
           x == <<att[w], try[w]>>
<1>1. /\ pc[w] = "sending"
      /\ pc' = [pc EXCEPT ![w] = "awaiting"]
      /\ ksef' = [ksef EXCEPT ![i][x] = "flying"]
      /\ UNCHANGED <<status, last, count, subStatus, started, job, att>>
  BY DEF Transmit, Move, invoiceRow, submissionRow
<1>2. i \in Invoices /\ att[w] \in Attempts /\ pc[w] \in Claimed /\ pc[w] \in BeforeSending
  BY <1>1 DEF TypeInv, CallsOK, Claimed, WorkerPc, Mutating, BeforeSending
<1>3. x \in Keys /\ x[1] = att[w]
  BY <1>2 DEF Keys, TypeInv, TypeOK
<1>4. /\ Unsent(i)
      /\ started[i][att[w]]
      /\ att[w] = count[i]
      /\ subStatus[i][att[w]] # "ERROR"
      /\ \A v \in Workers : pc[v] \in Claimed /\ job[v] = i => v = w
  BY <1>1, <1>2 DEF SafetyInv, UnsentInv, SendingInv, ClaimInv
<1> HIDE DEF i, x
<1>5. RowInv'
  BY <1>1 DEF SafetyInv, RowInv
<1>6. ClaimInv'
  <2>1. \A v \in Workers : pc'[v] \in Claimed => pc[v] \in Claimed
    BY <1>1, <1>2 DEF TypeInv, TypeOK
  <2>2. QED
    BY <1>1, <2>1 DEF SafetyInv, ClaimInv
<1>7. UnsentInv'
  <2> SUFFICES ASSUME NEW v \in Workers, pc'[v] \in BeforeSending, NEW k \in Keys
               PROVE  ksef'[job[v]][k] = "none"
    BY <1>1 DEF UnsentInv, Unsent
  <2>1. v # w /\ pc[v] \in BeforeSending
    BY <1>1 DEF TypeInv, TypeOK, BeforeSending
  <2>2. pc[v] \in Claimed
    BY <2>1 DEF Claimed, WorkerPc, Mutating, BeforeSending
  <2>3. job[v] # i
    BY <1>4, <2>1, <2>2
  <2>4. ksef[job[v]][k] = "none" /\ job[v] \in Invoices
    BY <2>1, <2>2 DEF SafetyInv, UnsentInv, Unsent, TypeInv, CallsOK, Claimed
  <2>5. QED
    BY <1>1, <2>3, <2>4 DEF TypeInv, TypeOK
<1>8. SendingInv'
  <2>1. \A v \in Workers : pc'[v] = "sending" => pc[v] = "sending"
    BY <1>1, <1>2 DEF TypeInv, TypeOK
  <2>2. QED
    BY <1>1, <2>1 DEF SafetyInv, SendingInv
<1>9. RetryInv'
  <2> SUFFICES ASSUME NEW j \in Invoices, Retryable(j), NEW k \in Keys
               PROVE  ksef'[j][k] = "none"
    BY <1>1 DEF RetryInv, Unsent, Retryable
  <2>1. j # i
    BY <1>2, <1>4 DEF SafetyInv, RowInv, Retryable
  <2>2. QED
    BY <1>1, <2>1 DEF SafetyInv, RetryInv, Unsent, TypeInv, TypeOK
<1>10. SentInv'
  <2> SUFFICES ASSUME NEW j \in Invoices, NEW k \in Keys, ksef'[j][k] # "none"
               PROVE  /\ k[1] = count[j]
                      /\ started[j][k[1]]
                      /\ \A l \in Keys : ksef'[j][l] # "none" => l = k
    BY <1>1 DEF SentInv
  <2>1. CASE j = i
    <3>1. \A l \in Keys : ksef'[i][l] # "none" => l = x
      BY <1>1, <1>2, <1>4 DEF Unsent, TypeInv, TypeOK
    <3>2. QED
      BY <1>3, <1>4, <2>1, <3>1
  <2>2. CASE j # i
    BY <1>1, <2>2 DEF SafetyInv, SentInv, TypeInv, TypeOK
  <2>3. QED
    BY <2>1, <2>2
<1>11. QED
  BY <1>5, <1>6, <1>7, <1>8, <1>9, <1>10 DEF SafetyInv

\* The catch block queues an invoice again only if nothing was sent.
LEMMA FailureKeepsSafety ==
  ASSUME TypeInv, SafetyInv, NEW w \in Workers, RecordFailure(w)
  PROVE  SafetyInv'
<1> DEFINE i == job[w]
           a == att[w]
<1>1. PICK s \in {"ERROR", "PENDING"}, t \in {"OFFLINE_QUEUED", "SUBMITTED"} :
         /\ subStatus' = [subStatus EXCEPT ![i][a] = s]
         /\ status' = [status EXCEPT ![i] = t]
         /\ last' = [last EXCEPT ![i] = a]
         /\ s = "ERROR" => pc[w] = "failed"
         /\ t = "OFFLINE_QUEUED" => s = "ERROR"
  BY DEF RecordFailure, FailureStatus
<1>2. /\ pc[w] \in {"failed", "ambiguous"}
      /\ pc' = [pc EXCEPT ![w] = "idle"]
      /\ job' = [job EXCEPT ![w] = NoInvoice]
      /\ att' = [att EXCEPT ![w] = 0]
      /\ UNCHANGED <<count, started, ksef>>
  BY DEF RecordFailure, Finish
<1>3. i \in Invoices /\ a \in Attempts /\ pc[w] \in Claimed
  BY <1>2 DEF TypeInv, CallsOK, Claimed, WorkerPc, Mutating
<1>4. /\ a = count[i]
      /\ \A v \in Workers : pc[v] \in Claimed /\ job[v] = i => v = w
  BY <1>3 DEF SafetyInv, ClaimInv
<1>5. s = "ERROR" => Unsent(i)
  BY <1>1 DEF SafetyInv, UnsentInv, BeforeSending
<1>6. "idle" \notin Claimed /\ "idle" \notin BeforeSending
  BY DEF Claimed, BeforeSending
<1>7. \A v \in Workers : pc'[v] # "idle" =>
         v # w /\ pc'[v] = pc[v] /\ job'[v] = job[v] /\ att'[v] = att[v]
  BY <1>2 DEF TypeInv, TypeOK
<1> HIDE DEF i, a
<1>8. RowInv'
  BY <1>1, <1>2, <1>3, <1>4 DEF SafetyInv, RowInv, TypeInv, TypeOK
<1>9. ClaimInv'
  <2> SUFFICES ASSUME NEW v \in Workers, pc'[v] \in Claimed
               PROVE  /\ att'[v] = count'[job'[v]]
                      /\ subStatus'[job'[v]][att'[v]] # "ERROR"
                      /\ \A u \in Workers : pc'[u] \in Claimed /\ job'[u] = job'[v] => u = v
    BY DEF ClaimInv
  <2>1. v # w /\ pc[v] \in Claimed /\ job'[v] = job[v] /\ att'[v] = att[v]
    BY <1>6, <1>7
  <2>2. job[v] # i /\ job[v] \in Invoices /\ att[v] \in Attempts
    BY <1>4, <2>1 DEF TypeInv, CallsOK, Claimed
  <2>3. /\ att[v] = count[job[v]]
        /\ subStatus[job[v]][att[v]] # "ERROR"
        /\ \A u \in Workers : pc[u] \in Claimed /\ job[u] = job[v] => u = v
    BY <2>1 DEF SafetyInv, ClaimInv
  <2>4. \A u \in Workers : pc'[u] \in Claimed => pc[u] \in Claimed /\ job'[u] = job[u]
    BY <1>6, <1>7
  <2>5. subStatus'[job[v]][att[v]] = subStatus[job[v]][att[v]]
    BY <1>1, <2>2 DEF TypeInv, TypeOK
  <2>6. QED
    BY <1>2, <2>1, <2>3, <2>4, <2>5
<1>10. UnsentInv'
  BY <1>2, <1>6, <1>7 DEF SafetyInv, UnsentInv, Unsent
<1>11. SendingInv'
  BY <1>2, <1>7 DEF SafetyInv, SendingInv
<1>12. RetryInv'
  <2> SUFFICES ASSUME NEW j \in Invoices, Retryable(j)'
               PROVE  Unsent(j)
    BY <1>2 DEF RetryInv, Unsent
  <2>1. CASE j = i
    <3>1. status'[i] = "OFFLINE_QUEUED"
      BY <2>1 DEF Retryable
    <3>2. s = "ERROR"
      BY <1>1, <1>3, <3>1 DEF TypeInv, TypeOK
    <3>3. QED
      BY <1>5, <2>1, <3>2
  <2>2. CASE j # i
    BY <1>1, <1>2, <2>2 DEF SafetyInv, RetryInv, Retryable, TypeInv, TypeOK
  <2>3. QED
    BY <2>1, <2>2
<1>13. SentInv'
  BY <1>2 DEF SafetyInv, SentInv
<1>14. QED
  BY <1>8, <1>9, <1>10, <1>11, <1>12, <1>13 DEF SafetyInv

LEMMA KsefIsQuiet ==
  ASSUME TypeInv, NEW i \in Invoices, NEW k \in Keys, Receive(i, k) \/ Decide(i, k)
  PROVE  QuietStep
<1>1. PICK v \in {"processing", "accepted", "rejected"} :
         ksef' = [ksef EXCEPT ![i][k] = v]
  BY DEF Receive, Decide
<1>2. ksef[i][k] # "none" /\ UNCHANGED <<invoiceRow, submissionRow, call>>
  BY DEF Receive, Decide
<1>3. QED
  BY <1>1, <1>2 DEF QuietStep, TypeInv, TypeOK, invoiceRow, submissionRow, call

LEMMA WorkerKeepsSafety ==
  ASSUME AuthLookalike = FALSE, TypeInv, SafetyInv, NEW w \in Workers, WorkerNext(w)
  PROVE  SafetyInv'
<1> USE DEF Claimed, WorkerPc, Mutating, BeforeSending
<1>1. ASSUME NEW i \in Invoices, ReadForSubmit(w, i)
      PROVE  QuietStep
  BY <1>1 DEF QuietStep, invoiceRow, submissionRow, ReadForSubmit, Move, TypeInv, TypeOK
<1>2. ASSUME NEW i \in Invoices, ReadForRetry(w, i)
      PROVE  QuietStep
  BY <1>2 DEF QuietStep, invoiceRow, submissionRow, ReadForRetry, Move, TypeInv, TypeOK
<1>3. ASSUME Finish(w), UNCHANGED <<invoiceRow, submissionRow, ksef>>
      PROVE  QuietStep
  BY <1>3 DEF QuietStep, invoiceRow, submissionRow, Finish, TypeInv, TypeOK
<1>4. ASSUME Conflict(w) PROVE QuietStep
  BY <1>3, <1>4 DEF Conflict
<1>5. ASSUME WorkerDies(w) PROVE QuietStep
  BY <1>3, <1>5 DEF WorkerDies
<1>6. ASSUME SessionReady(w) PROVE QuietStep
  BY <1>6 DEF QuietStep, invoiceRow, submissionRow, SessionReady, Move, TypeInv, TypeOK
<1>7. ASSUME SessionFails(w) PROVE QuietStep
  BY <1>7 DEF QuietStep, invoiceRow, submissionRow, SessionFails, Move, TypeInv, TypeOK
<1>8. ASSUME SendRefused(w) PROVE QuietStep
  BY <1>8 DEF QuietStep, invoiceRow, submissionRow, SendRefused, Move, TypeInv, TypeOK
<1>9. ASSUME ReplyArrives(w) PROVE QuietStep
  BY <1>9 DEF QuietStep, invoiceRow, submissionRow, ReplyArrives, Move, TypeInv, TypeOK
<1>10. ASSUME ReplyLost(w) PROVE QuietStep
  BY <1>10 DEF QuietStep, invoiceRow, submissionRow, ReplyLost, Move, TypeInv, TypeOK
<1>11. ASSUME StatementFails(w) PROVE QuietStep
  BY <1>11 DEF QuietStep, invoiceRow, submissionRow, StatementFails, Move, TypeInv,
     TypeOK
<1>12. ASSUME RecordSubmitted(w) PROVE QuietStep
  <2>1. /\ pc[w] = "replied" /\ pc' = [pc EXCEPT ![w] = "recorded"]
        /\ subStatus' = [subStatus EXCEPT ![job[w]][att[w]] = "SUBMITTED"]
        /\ status' = [status EXCEPT ![job[w]] = "SUBMITTED"]
        /\ last' = [last EXCEPT ![job[w]] = att[w]]
        /\ UNCHANGED <<count, started, job, att, ksef>>
    BY <1>12 DEF RecordSubmitted, Move
  <2>2. job[w] \in Invoices /\ att[w] \in Attempts
    BY <2>1 DEF TypeInv, CallsOK
  <2>3. QED
    BY <2>1, <2>2 DEF QuietStep, TypeInv, TypeOK
<1>13. ASSUME RecordAccepted(w) PROVE QuietStep
  <2>1. /\ pc[w] = "recorded" /\ pc' = [pc EXCEPT ![w] = "idle"]
        /\ subStatus' = [subStatus EXCEPT ![job[w]][att[w]] = "ACCEPTED"]
        /\ status' = [status EXCEPT ![job[w]] = "ACCEPTED"]
        /\ last' = [last EXCEPT ![job[w]] = att[w]]
        /\ job' = [job EXCEPT ![w] = NoInvoice]
        /\ att' = [att EXCEPT ![w] = 0]
        /\ UNCHANGED <<count, started, ksef>>
    BY <1>13 DEF RecordAccepted, Finish
  <2>2. job[w] \in Invoices /\ att[w] \in Attempts
    BY <2>1 DEF TypeInv, CallsOK
  <2>3. QED
    BY <2>1, <2>2 DEF QuietStep, TypeInv, TypeOK
<1>14. ASSUME RecordLegacySubmitted(w) PROVE QuietStep
  BY <1>14 DEF RecordLegacySubmitted, Finish, QuietStep, TypeInv, TypeOK, submissionRow
<1>15. QED
  BY <1>1, <1>2, <1>4, <1>5, <1>6, <1>7, <1>8, <1>9, <1>10, <1>11, <1>12, <1>13, <1>14,
     ClaimKeepsSafety, FlagKeepsSafety, TransmitKeepsSafety, FailureKeepsSafety,
     QuietStepKeepsSafety
  DEF WorkerNext, WorkerStep

LEMMA PollerKeepsSafety ==
  ASSUME TypeInv, SafetyInv, NEW p \in Pollers, PollerNext(p)
  PROVE  SafetyInv'
<1> SUFFICES QuietStep
  BY QuietStepKeepsSafety
<1>1. ASSUME UNCHANGED <<invoiceRow, submissionRow, call, ksef>>
      PROVE  QuietStep
  BY <1>1 DEF QuietStep, invoiceRow, submissionRow, call, TypeInv, TypeOK
<1>2. ASSUME NEW i \in Invoices, NEW a \in Attempts,
             NEW s \in {"SUBMITTED", "ACCEPTED", "REJECTED"},
             subStatus' = [subStatus EXCEPT ![i][a] = s],
             status' = [status EXCEPT ![i] = s],
             last' = [last EXCEPT ![i] = a],
             UNCHANGED <<count, started, call, ksef>>
      PROVE  QuietStep
  BY <1>2 DEF QuietStep, TypeInv, TypeOK, call
<1>3. ASSUME NEW i \in Invoices, NEW k \in Keys, Attach(p, i, k)
      PROVE  QuietStep
  <2>1. PICK a \in Attachable(i) :
           /\ subStatus' = [subStatus EXCEPT ![i][a] = "SUBMITTED"]
           /\ last' = [last EXCEPT ![i] = a]
    BY <1>3 DEF Attach
  <2>2. status' = [status EXCEPT ![i] = "SUBMITTED"] /\ UNCHANGED <<count, started,
  call, ksef>>
    BY <1>3 DEF Attach
  <2>3. a \in Attempts
    BY AttachableIsAttempt
  <2>4. QED
    BY <1>2, <2>1, <2>2, <2>3
<1>4. CASE RestoreAccepted(p)
  <2>1. /\ status' = [status EXCEPT ![pjob[p]] = "ACCEPTED"]
        /\ UNCHANGED <<last, count, submissionRow, call, ksef>>
    BY <1>4 DEF RestoreAccepted
  <2>2. QED
    BY <2>1 DEF QuietStep, TypeInv, TypeOK, submissionRow, call
<1>5. CASE PollWrite(p)
  <2>1. PollStatus(ppc[p]) \in {"SUBMITTED", "ACCEPTED", "REJECTED"}
    BY DEF PollStatus
  <2>2. pjob[p] \in Invoices /\ patt[p] \in Attempts
    BY <1>5 DEF PollWrite, TypeInv, CallsOK
  <2>3. /\ subStatus' = [subStatus EXCEPT ![pjob[p]][patt[p]] = PollStatus(ppc[p])]
        /\ status' = [status EXCEPT ![pjob[p]] = PollStatus(ppc[p])]
        /\ last' = [last EXCEPT ![pjob[p]] = patt[p]]
        /\ UNCHANGED <<count, started, call, ksef>>
    BY <1>5 DEF PollWrite
  <2>4. QED
    BY <1>2, <2>1, <2>2, <2>3
<1>6. CASE PollRead(p) \/ PollAnswered(p) \/ PollerDies(p)
  BY <1>1, <1>6 DEF PollRead, PollAnswered, PollerDies
<1>7. ASSUME NEW i \in Invoices, StatusRequest(p, i)
      PROVE  QuietStep
  BY <1>1, <1>7 DEF StatusRequest
<1>8. ASSUME NEW i \in Invoices, NEW a \in Attempts, CronPoll(p, i, a)
      PROVE  QuietStep
  BY <1>1, <1>8 DEF CronPoll
<1>9. QED
  BY <1>3, <1>4, <1>5, <1>6, <1>7, <1>8 DEF PollerNext, PollerStep

LEMMA InitSafety == Init => SafetyInv
BY DEF Init, SafetyInv, RowInv, ClaimInv, UnsentInv, SendingInv, RetryInv, SentInv,
       Unsent, Retryable, Claimed, BeforeSending

LEMMA StepSafety ==
  ASSUME AuthLookalike = FALSE, TypeInv, SafetyInv, [Next]_vars
  PROVE  SafetyInv'
<1>1. CASE KsefNext
  BY <1>1, KsefIsQuiet, QuietStepKeepsSafety DEF KsefNext
<1>2. CASE \E w \in Workers : WorkerNext(w)
  BY <1>2, WorkerKeepsSafety
<1>3. CASE \E p \in Pollers : PollerNext(p)
  BY <1>3, PollerKeepsSafety
<1>4. CASE UNCHANGED vars
  <2>1. QuietStep
    BY <1>4 DEF vars, QuietStep, invoiceRow, submissionRow, call
  <2>2. QED
    BY <2>1, QuietStepKeepsSafety
<1>5. QED
  BY <1>1, <1>2, <1>3, <1>4 DEF Next

LEMMA SafetyInvAlways ==
  ASSUME AuthLookalike = FALSE
  PROVE  Spec => [](TypeInv /\ SafetyInv)
<1>1. Init => TypeInv /\ SafetyInv
  BY InitTypeInv, InitSafety
<1>2. TypeInv /\ SafetyInv /\ [Next]_vars => TypeInv' /\ SafetyInv'
  BY StepTypeInv, StepSafety
<1>3. QED
  BY <1>1, <1>2, PTL DEF Spec

\* As long as the text of a lost reply is not taken for a 401, every invoice
\* reaches KSeF at most once: for any number of invoices, submitting calls,
\* polling calls and attempts, and with crashes and lost replies anywhere.
THEOREM TransmittedOnce ==
  ASSUME AuthLookalike = FALSE
  PROVE  Spec => []AtMostOneTransmission
<1>1. SafetyInv => AtMostOneTransmission
  BY DEF SafetyInv, SentInv, AtMostOneTransmission, Transmitted
<1>2. QED
  BY <1>1, SafetyInvAlways, PTL

\* What retryOfflineQueue may send again never left the program.
THEOREM RetryIsSafe ==
  ASSUME AuthLookalike = FALSE
  PROVE  Spec => []RetryableWasNeverSent
<1>1. SafetyInv => RetryableWasNeverSent
  BY DEF SafetyInv, RetryInv, RetryableWasNeverSent, Transmitted, Unsent
<1>2. QED
  BY <1>1, SafetyInvAlways, PTL

\* externalMutationStarted is up on the latest row, and in the database,
\* whenever a transmission exists.
THEOREM FlagIsWrittenAhead ==
  ASSUME AuthLookalike = FALSE
  PROVE  Spec => []TransmissionIsFlagged
<1>1. SafetyInv => TransmissionIsFlagged
  BY DEF SafetyInv, SentInv, TransmissionIsFlagged, Transmitted
<1>2. QED
  BY <1>1, SafetyInvAlways, PTL

-----------------------------------------------------------------------------
(***************************************************************************)
(* Reach.  A row is only ever decided by a call that had references for    *)
(* it, and references are never taken away; so the last row either has     *)
(* them or is open, and an open row takes them from the operator.          *)
(***************************************************************************)
HasRefs(i, a) == refs[i][a] # NoRefs

ReachInv ==
    /\ \A i \in Invoices, a \in Attempts :
          /\ a <= count[i] => subStatus[i][a] # "NONE"
          /\ subStatus[i][a] \in {"ACCEPTED", "REJECTED"} \/ number[i][a] => HasRefs(i, a)
    /\ \A i \in Invoices, k \in Keys : ksef[i][k] # "none" => count[i] # 0
    /\ \A w \in Workers :
          /\ pc[w] \in Claimed => count[job[w]] # 0
          /\ pc[w] = "recorded" => HasRefs(job[w], att[w])
    /\ \A p \in Pollers :
          ppc[p] \in {"ask", "accepted", "unnumbered", "rejected"} => HasRefs(pjob[p], patt[p])

\* Rows are added at the end and never lose what they have.
RowsStay ==
    \A i \in Invoices :
        /\ \/ count'[i] = count[i]
           \/ count'[i] = count[i] + 1 /\ subStatus'[i][count[i] + 1] = "PENDING"
        /\ \A a \in Attempts :
              /\ subStatus[i][a] # "NONE" => subStatus'[i][a] # "NONE"
              /\ HasRefs(i, a) => HasRefs(i, a)'

\* A row is decided, or numbered, where there are references.
DecidedWithRefs ==
    \A i \in Invoices, a \in Attempts :
        subStatus'[i][a] \in {"ACCEPTED", "REJECTED"} \/ number'[i][a] => HasRefs(i, a)'

LEMMA KeysAreRefs == NoRefs \notin Keys
BY DEF NoRefs, Keys, Attempts

LEMMA RowsAfterWorker ==
  ASSUME TypeInv, ReachInv, NEW w \in Workers, WorkerNext(w)
  PROVE  RowsStay /\ DecidedWithRefs
<1> USE DEF TypeInv, TypeOK, CallsOK, ReachInv
<1>1. CASE Claim(w)
  BY <1>1 DEF Claim, RowsStay, DecidedWithRefs, HasRefs
<1>2. CASE RecordSubmitted(w)
  <2>1. /\ job[w] \in Invoices /\ att[w] \in Attempts
        /\ <<att[w], try[w]>> \in Keys
    BY <1>2 DEF RecordSubmitted, Move, Claimed, WorkerPc, Mutating, Keys
  <2>2. <<att[w], try[w]>> # NoRefs
    BY <2>1, KeysAreRefs
  <2>3. QED
    BY <1>2, <2>1, <2>2 DEF RecordSubmitted, RowsStay, DecidedWithRefs, HasRefs
<1>3. CASE RecordAccepted(w)
  BY <1>3 DEF RecordAccepted, RowsStay, DecidedWithRefs, HasRefs
<1>4. CASE RecordFailure(w)
  BY <1>4 DEF RecordFailure, FailureStatus, RowsStay, DecidedWithRefs, HasRefs
<1>5. CASE UNCHANGED <<count, subStatus, refs, number>>
  BY <1>5 DEF RowsStay, DecidedWithRefs, HasRefs
<1>6. QED
  BY <1>1, <1>2, <1>3, <1>4, <1>5 DEF WorkerNext, WorkerStep, ReadForSubmit, ReadForRetry,
     Conflict, SessionReady, SessionFails, MarkStarted, Transmit, SendRefused, ReplyArrives,
     ReplyLost, RevokeStarted, RecordLegacySubmitted, StatementFails, WorkerDies, invoiceRow,
     submissionRow

LEMMA RowsAfterPoller ==
  ASSUME TypeInv, ReachInv, NEW p \in Pollers, PollerNext(p)
  PROVE  RowsStay /\ DecidedWithRefs
<1> USE DEF TypeInv, TypeOK, CallsOK, ReachInv
<1>1. ASSUME NEW i \in Invoices, NEW k \in Keys, Attach(p, i, k)
      PROVE  RowsStay /\ DecidedWithRefs
  <2>1. PICK a \in Attachable(i) :
           /\ subStatus' = [subStatus EXCEPT ![i][a] = "SUBMITTED"]
           /\ refs' = [refs EXCEPT ![i][a] = k]
    BY <1>1 DEF Attach
  <2>2. a \in Attempts
    <3>1. count[i] \in Attempts \cup {0} /\ a \in 1..count[i]
      BY <2>1 DEF Attachable
    <3>2. QED
      BY <3>1, MaxAttemptsAssumption DEF Attempts
  <2>3. UNCHANGED <<count, number>> /\ k # NoRefs
    BY <1>1, KeysAreRefs DEF Attach
  <2>4. QED
    BY <2>1, <2>2, <2>3 DEF RowsStay, DecidedWithRefs, HasRefs
<1>2. CASE PollWrite(p)
  <2>1. PollStatus(ppc[p]) # "NONE"
    BY DEF PollStatus
  <2>2. HasRefs(pjob[p], patt[p])
    BY <1>2 DEF PollWrite
  <2>3. QED
    BY <1>2, <2>1, <2>2 DEF PollWrite, RowsStay, DecidedWithRefs, HasRefs
<1>3. CASE UNCHANGED <<count, submissionRow>>
  BY <1>3 DEF RowsStay, DecidedWithRefs, HasRefs, submissionRow
<1>4. QED
  BY <1>1, <1>2, <1>3 DEF PollerNext, PollerStep, StatusRequest, CronPoll, PollRead,
     RestoreAccepted, PollAnswered, PollerDies, invoiceRow

\* What a step has to show besides: who claims or transmits has a row, and
\* who decides has references.
LEMMA RowsKeepReach ==
  ASSUME TypeInv, TypeInv', ReachInv, RowsStay, DecidedWithRefs,
         \A i \in Invoices, k \in Keys :
            ksef'[i][k] # "none" => ksef[i][k] # "none" \/ count[i] # 0,
         \A w \in Workers :
            /\ pc'[w] \in Claimed =>
                  count'[job'[w]] # 0 \/ (pc[w] \in Claimed /\ job'[w] = job[w])
            /\ pc'[w] = "recorded" =>
                  \/ HasRefs(job[w], att[w])'
                  \/ pc[w] = "recorded" /\ job'[w] = job[w] /\ att'[w] = att[w],
         \A p \in Pollers :
            ppc'[p] \in {"ask", "accepted", "unnumbered", "rejected"} =>
               /\ HasRefs(pjob[p], patt[p])
               /\ pjob'[p] = pjob[p] /\ patt'[p] = patt[p]
  PROVE  ReachInv'
<1>1. ASSUME NEW i \in Invoices
      PROVE  /\ count[i] \in Nat /\ count'[i] \in Nat
             /\ count[i] # 0 => count'[i] # 0
  BY DEF TypeInv, TypeOK, Attempts, RowsStay
<1>2. ASSUME NEW i \in Invoices, NEW a \in Attempts, a <= count'[i]
      PROVE  subStatus'[i][a] # "NONE"
  <2>1. CASE a <= count[i]
    BY <2>1 DEF ReachInv, RowsStay
  <2>2. CASE a = count[i] + 1 /\ count'[i] = count[i] + 1
    BY <1>1, <2>2 DEF RowsStay
  <2>3. QED
    BY <1>1, <1>2, <2>1, <2>2 DEF RowsStay, Attempts
<1>3. ASSUME NEW i \in Invoices, NEW k \in Keys, ksef'[i][k] # "none"
      PROVE  count'[i] # 0
  BY <1>1, <1>3 DEF ReachInv
<1>4. ASSUME NEW w \in Workers
      PROVE  /\ pc'[w] \in Claimed => count'[job'[w]] # 0
             /\ pc'[w] = "recorded" => HasRefs(job[w], att[w])'
  <2>1. pc[w] \in Claimed => job[w] \in Invoices /\ att[w] \in Attempts
    BY DEF TypeInv, CallsOK, Claimed
  <2>2. pc[w] = "recorded" => pc[w] \in Claimed
    BY DEF Claimed, WorkerPc, Mutating
  <2>3. QED
    BY <1>1, <2>1, <2>2 DEF ReachInv, RowsStay, HasRefs
<1>5. ASSUME NEW p \in Pollers, ppc'[p] \in {"ask", "accepted", "unnumbered", "rejected"}
      PROVE  HasRefs(pjob[p], patt[p])'
  <2>1. pjob'[p] \in Invoices /\ patt'[p] \in Attempts
    BY <1>5 DEF TypeInv, CallsOK
  <2>2. QED
    BY <1>5, <2>1 DEF RowsStay, HasRefs
<1>6. QED
  BY <1>2, <1>3, <1>4, <1>5 DEF ReachInv, DecidedWithRefs

LEMMA WorkerKeepsReach ==
  ASSUME TypeInv, TypeInv', ReachInv, NEW w \in Workers, WorkerNext(w)
  PROVE  ReachInv'
<1> USE DEF TypeInv, TypeOK, CallsOK
<1>1. RowsStay /\ DecidedWithRefs
  BY RowsAfterWorker
<1>2. UNCHANGED poll
  BY DEF WorkerNext, WorkerStep, ReadForSubmit, ReadForRetry, Claim, Conflict, SessionReady,
     SessionFails, MarkStarted, Transmit, SendRefused, ReplyArrives, ReplyLost,
     RevokeStarted, RecordSubmitted, RecordAccepted, RecordLegacySubmitted,
     StatementFails, RecordFailure, WorkerDies
<1>3. \A i \in Invoices, k \in Keys :
         ksef'[i][k] # "none" => ksef[i][k] # "none" \/ count[i] # 0
  <2>1. CASE Transmit(w)
    <3>1. pc[w] \in Claimed /\ job[w] \in Invoices
      BY <2>1 DEF Transmit, Move, Claimed, WorkerPc, Mutating
    <3>2. QED
      BY <2>1, <3>1 DEF Transmit, ReachInv
  <2>2. CASE UNCHANGED ksef
    BY <2>2
  <2>3. QED
    BY <2>1, <2>2 DEF WorkerNext, WorkerStep, ReadForSubmit, ReadForRetry, Claim, Conflict,
       SessionReady, SessionFails, MarkStarted, SendRefused, ReplyArrives, ReplyLost,
       RevokeStarted, RecordSubmitted, RecordAccepted, RecordLegacySubmitted,
       StatementFails, RecordFailure, WorkerDies
<1>4. \A v \in Workers :
         /\ pc'[v] \in Claimed =>
               count'[job'[v]] # 0 \/ (pc[v] \in Claimed /\ job'[v] = job[v])
         /\ pc'[v] = "recorded" =>
               \/ HasRefs(job[v], att[v])'
               \/ pc[v] = "recorded" /\ job'[v] = job[v] /\ att'[v] = att[v]
  <2> USE DEF Claimed, WorkerPc, Mutating
  <2>1. CASE Claim(w)
    BY <2>1 DEF Claim, Attempts
  <2>2. CASE RecordSubmitted(w)
    <3>1. /\ job[w] \in Invoices /\ att[w] \in Attempts
          /\ <<att[w], try[w]>> \in Keys
      BY <2>2 DEF RecordSubmitted, Move, Keys
    <3>2. <<att[w], try[w]>> # NoRefs
      BY <3>1, KeysAreRefs
    <3>3. HasRefs(job[w], att[w])'
      BY <2>2, <3>1, <3>2 DEF RecordSubmitted, HasRefs
    <3>4. QED
      BY <2>2, <3>3 DEF RecordSubmitted, Move
  <2>3. CASE Finish(w)
    BY <2>3 DEF Finish
  <2>4. CASE \E i \in Invoices : ReadForSubmit(w, i) \/ ReadForRetry(w, i)
    BY <2>4 DEF ReadForSubmit, ReadForRetry, Move
  <2>5. CASE SessionReady(w) \/ SessionFails(w) \/ MarkStarted(w) \/ Transmit(w)
             \/ SendRefused(w) \/ ReplyLost(w) \/ RevokeStarted(w) \/ StatementFails(w)
    BY <2>5 DEF SessionReady, SessionFails, MarkStarted, Transmit, SendRefused, ReplyLost,
       RevokeStarted, StatementFails, Move
  <2>6. CASE ReplyArrives(w)
    BY <2>6 DEF ReplyArrives, Move
  <2>7. QED
    BY <2>1, <2>2, <2>3, <2>4, <2>5, <2>6 DEF WorkerNext, WorkerStep, Conflict,
       RecordAccepted, RecordLegacySubmitted, RecordFailure, WorkerDies
<1>5. QED
  BY <1>1, <1>2, <1>3, <1>4, RowsKeepReach DEF poll, ReachInv

LEMMA PollerKeepsReach ==
  ASSUME TypeInv, TypeInv', ReachInv, NEW p \in Pollers, PollerNext(p)
  PROVE  ReachInv'
<1> USE DEF TypeInv, TypeOK, CallsOK
<1>1. RowsStay /\ DecidedWithRefs
  BY RowsAfterPoller
<1>2. UNCHANGED <<call, ksef>>
  BY DEF PollerNext, PollerStep, Attach, StatusRequest, CronPoll, PollRead, RestoreAccepted,
     PollAnswered, PollWrite, PollerDies
<1> DEFINE Asks(q) ==
       ppc'[q] \in {"ask", "accepted", "unnumbered", "rejected"} =>
          /\ HasRefs(pjob[q], patt[q])
          /\ pjob'[q] = pjob[q] /\ patt'[q] = patt[q]
<1>3. \A q \in Pollers : Asks(q)
  <2>1. CASE EndPoll(p)
    BY <2>1 DEF EndPoll, ReachInv
  <2>2. CASE ppc'[p] = "read" /\ \A q \in Pollers \ {p} :
                ppc'[q] = ppc[q] /\ pjob'[q] = pjob[q] /\ patt'[q] = patt[q]
    BY <2>2 DEF ReachInv
  <2>3. CASE PollRead(p) /\ ~EndPoll(p)
    BY <2>3 DEF PollRead, ReachInv, HasRefs
  <2>4. CASE PollAnswered(p) /\ ~EndPoll(p)
    BY <2>4 DEF PollAnswered, ReachInv
  <2>5. ASSUME NEW i \in Invoices, NEW a, StartPoll(p, i, a)
        PROVE  \A q \in Pollers : Asks(q)
    BY <2>2, <2>5 DEF StartPoll
  <2>6. QED
    BY <2>1, <2>3, <2>4, <2>5 DEF PollerNext, PollerStep, Attach, StatusRequest, CronPoll,
       RestoreAccepted, PollWrite, PollerDies
<1>4. QED
  BY <1>1, <1>2, <1>3, RowsKeepReach DEF call, ReachInv

LEMMA StepReach ==
  ASSUME TypeInv, TypeInv', ReachInv, [Next]_vars
  PROVE  ReachInv'
<1>1. CASE KsefNext \/ UNCHANGED vars
  <2>1. UNCHANGED <<invoiceRow, submissionRow, call, poll>>
    BY <1>1 DEF KsefNext, Receive, Decide, vars
  <2>2. \A i \in Invoices, k \in Keys : ksef'[i][k] # "none" => ksef[i][k] # "none"
    <3>1. ASSUME NEW j \in Invoices, NEW l \in Keys, Receive(j, l) \/ Decide(j, l)
          PROVE  /\ ksef[j][l] # "none"
                 /\ \E v \in Outcomes : ksef' = [ksef EXCEPT ![j][l] = v]
      BY <3>1 DEF Receive, Decide, Outcomes
    <3>2. ASSUME NEW j \in Invoices, NEW l \in Keys, Receive(j, l) \/ Decide(j, l),
                 NEW i \in Invoices, NEW k \in Keys, ksef'[i][k] # "none"
          PROVE  ksef[i][k] # "none"
      <4>1. PICK v : ksef' = [ksef EXCEPT ![j][l] = v]
        BY <3>1, <3>2
      <4>2. CASE i = j /\ k = l
        BY <3>1, <3>2, <4>2
      <4>3. CASE i # j \/ k # l
        BY <3>2, <4>1, <4>3 DEF TypeInv, TypeOK
      <4>4. QED
        BY <4>2, <4>3
    <3>3. QED
      BY <1>1, <3>2 DEF KsefNext, vars
  <2>3. RowsStay /\ DecidedWithRefs
    BY <2>1 DEF RowsStay, DecidedWithRefs, ReachInv, HasRefs, invoiceRow, submissionRow
  <2>4. QED
    BY <2>1, <2>2, <2>3, RowsKeepReach DEF ReachInv, call, poll
<1>2. QED
  BY <1>1, WorkerKeepsReach, PollerKeepsReach DEF Next

\* Whatever calls overlap, fail, stop or lose their replies, an invoice that
\* KSeF has received can still be asked about or attached: even if lost
\* replies are taken for a 401.
THEOREM ReceivedIsWithinReach == Spec => []NeverOutOfReach
<1>1. Init => ReachInv
  BY DEF Init, ReachInv, Claimed, Attempts
<1>2. TypeInv /\ ReachInv /\ [Next]_vars => TypeInv' /\ ReachInv'
  BY StepTypeInv, StepReach
<1>3. TypeInv /\ ReachInv => NeverOutOfReach
  <2> SUFFICES ASSUME TypeInv, ReachInv, NEW i \in Invoices, NEW k \in Keys,
                      ksef[i][k] \in Received
               PROVE  refs[i][count[i]] # NoRefs \/ Attachable(i) # {}
    BY DEF NeverOutOfReach
  <2>1. count[i] \in Attempts /\ count[i] \in 1..count[i]
    BY DEF ReachInv, Received, TypeInv, TypeOK, Attempts
  <2>2. subStatus[i][count[i]] \in KsefSubmissionStatus \ {"NONE"}
    BY <2>1 DEF ReachInv, TypeInv, TypeOK
  <2>3. CASE subStatus[i][count[i]] \in {"ACCEPTED", "REJECTED"} \/ number[i][count[i]]
    BY <2>1, <2>3 DEF ReachInv, HasRefs
  <2>4. CASE /\ subStatus[i][count[i]] \in {"PENDING", "SUBMITTED", "ERROR"}
             /\ ~number[i][count[i]]
    BY <2>1, <2>4 DEF Attachable
  <2>5. QED
    BY <2>2, <2>3, <2>4 DEF KsefSubmissionStatus
<1>4. QED
  BY <1>1, <1>2, <1>3, InitTypeInv, PTL DEF Spec

(***************************************************************************)
(* The verdicts the program records are KSeF's.                            *)
(***************************************************************************)
\* What a call knows without having stored it yet.
KnownInv == \A w \in Workers : known[w] => pc[w] # "idle" /\ Got(job[w], "accepted")

AnswerInv ==
    \A p \in Pollers :
        /\ ppc[p] \in {"restore", "accepted", "unnumbered"} => Got(pjob[p], "accepted")
        /\ ppc[p] = "rejected" => Got(pjob[p], "rejected")

VerdictInv == VerdictIsTrue /\ KnownInv /\ AnswerInv

\* Once KSeF has decided, it has decided.
DecisionsStay ==
    \A i \in Invoices :
        /\ Got(i, "accepted") => Got(i, "accepted")'
        /\ Got(i, "rejected") => Got(i, "rejected")'

LEMMA TransmitKeepsDecisions ==
  ASSUME TypeInv, SafetyInv, NEW w \in Workers, Transmit(w)
  PROVE  DecisionsStay
<1>1. /\ job[w] \in Invoices
      /\ \A k \in Keys : ksef[job[w]][k] = "none"
  BY DEF Transmit, Move, TypeInv, CallsOK, SafetyInv, UnsentInv, Unsent, BeforeSending
<1>2. ksef' = [ksef EXCEPT ![job[w]][<<att[w], try[w]>>] = "flying"]
  BY DEF Transmit
<1>3. ASSUME NEW i \in Invoices, NEW v \in {"accepted", "rejected"}, Got(i, v)
      PROVE  Got(i, v)'
  <2>1. PICK k \in Keys : ksef[i][k] = v
    BY <1>3 DEF Got
  <2>2. i # job[w]
    BY <1>1, <2>1
  <2>3. ksef'[i][k] = v
    BY <1>2, <2>1, <2>2 DEF TypeInv, TypeOK
  <2>4. QED
    BY <2>3 DEF Got
<1>4. QED
  BY <1>3 DEF DecisionsStay

LEMMA KsefKeepsDecisions ==
  ASSUME TypeInv, NEW i \in Invoices, NEW k \in Keys, Receive(i, k) \/ Decide(i, k)
  PROVE  DecisionsStay
<1>1. PICK v \in Outcomes : ksef' = [ksef EXCEPT ![i][k] = v]
  BY DEF Receive, Decide, Outcomes
<1>2. ksef[i][k] \notin {"accepted", "rejected"}
  BY DEF Receive, Decide
<1>3. ASSUME NEW j \in Invoices, NEW d \in {"accepted", "rejected"}, Got(j, d)
      PROVE  Got(j, d)'
  <2>1. PICK l \in Keys : ksef[j][l] = d
    BY <1>3 DEF Got
  <2>2. ksef'[j][l] = d
    BY <1>1, <1>2, <2>1 DEF TypeInv, TypeOK
  <2>3. QED
    BY <2>2 DEF Got
<1>4. QED
  BY <1>3 DEF DecisionsStay

LEMMA SameDecisions ==
  ASSUME UNCHANGED ksef
  PROVE  /\ DecisionsStay
         /\ \A i \in Invoices :
               /\ Got(i, "accepted")' <=> Got(i, "accepted")
               /\ Got(i, "rejected")' <=> Got(i, "rejected")
BY DEF DecisionsStay, Got

\* A step that stores nothing and learns nothing keeps the invariant.
LEMMA NothingStored ==
  ASSUME TypeInv, VerdictInv, DecisionsStay, UNCHANGED <<invoiceRow, submissionRow>>
  PROVE  VerdictIsTrue'
BY DEF VerdictInv, VerdictIsTrue, DecisionsStay, invoiceRow, submissionRow

LEMMA NothingLearnt ==
  ASSUME TypeInv, VerdictInv, DecisionsStay, UNCHANGED known,
         \A w \in Workers : known[w] => pc'[w] # "idle" /\ job'[w] = job[w]
  PROVE  KnownInv'
<1> SUFFICES ASSUME NEW w \in Workers, known[w]
             PROVE  pc'[w] # "idle" /\ Got(job[w], "accepted")'
  BY DEF KnownInv
<1>1. pc[w] # "idle" /\ Got(job[w], "accepted")
  BY DEF VerdictInv, KnownInv
<1>2. job[w] \in Invoices
  BY <1>1 DEF TypeInv, CallsOK
<1>3. QED
  BY <1>1, <1>2 DEF DecisionsStay, Got

LEMMA NothingAnswered ==
  ASSUME TypeInv, VerdictInv, DecisionsStay, UNCHANGED poll
  PROVE  AnswerInv'
<1> SUFFICES ASSUME NEW p \in Pollers
             PROVE  /\ ppc[p] \in {"restore", "accepted", "unnumbered"} =>
                          Got(pjob[p], "accepted")'
                    /\ ppc[p] = "rejected" => Got(pjob[p], "rejected")'
  BY DEF AnswerInv, poll, Got
<1>1. ppc[p] # "idle" => pjob[p] \in Invoices
  BY DEF TypeInv, CallsOK
<1>2. QED
  BY <1>1 DEF VerdictInv, AnswerInv, DecisionsStay, Got, poll

LEMMA WorkerKeepsVerdicts ==
  ASSUME AuthLookalike = FALSE, TypeInv, SafetyInv, VerdictInv, NEW w \in Workers,
     WorkerNext(w)
  PROVE  VerdictInv'
<1>1. UNCHANGED poll
  BY DEF WorkerNext, WorkerStep, ReadForSubmit, ReadForRetry, Claim, Conflict,
     SessionReady,
         SessionFails, MarkStarted, Transmit, SendRefused, ReplyArrives, ReplyLost,
         RevokeStarted, RecordSubmitted, RecordAccepted, RecordLegacySubmitted,
         StatementFails, RecordFailure, WorkerDies
<1>2. DecisionsStay
  <2>1. CASE Transmit(w)
    BY <2>1, TransmitKeepsDecisions
  <2>2. CASE ~Transmit(w)
    <3>1. UNCHANGED ksef
      BY <2>2 DEF WorkerNext, WorkerStep, ReadForSubmit, ReadForRetry, Claim, Conflict,
         SessionReady, SessionFails, MarkStarted, SendRefused, ReplyArrives, ReplyLost,
         RevokeStarted, RecordSubmitted, RecordAccepted, RecordLegacySubmitted,
         StatementFails, RecordFailure, WorkerDies
    <3>2. QED
      BY <3>1, SameDecisions
  <2>3. QED
    BY <2>1, <2>2
<1>3. AnswerInv'
  BY <1>1, <1>2, NothingAnswered
<1>4. KnownInv'
  <2>1. ASSUME Finish(w)  PROVE  KnownInv'
    <3> SUFFICES ASSUME NEW v \in Workers, known'[v]
                 PROVE  pc'[v] # "idle" /\ Got(job[v], "accepted")'
      BY DEF KnownInv
    <3>1. v # w /\ known[v] /\ pc'[v] = pc[v] /\ job'[v] = job[v]
      BY <2>1 DEF Finish, TypeInv, TypeOK
    <3>2. pc[v] # "idle" /\ job[v] \in Invoices /\ Got(job[v], "accepted")
      BY <3>1 DEF VerdictInv, KnownInv, TypeInv, CallsOK
    <3>3. QED
      BY <1>2, <3>1, <3>2 DEF DecisionsStay, Got
  <2>2. ASSUME NEW to \in WorkerPc \ {"idle"}, pc[w] # "idle",
               pc' = [pc EXCEPT ![w] = to], UNCHANGED <<job, known>>
        PROVE  KnownInv'
    <3>1. \A v \in Workers : known[v] => pc'[v] # "idle" /\ job'[v] = job[v]
      BY <2>2 DEF VerdictInv, KnownInv, TypeInv, TypeOK
    <3>2. QED
      BY <1>2, <2>2, <3>1, NothingLearnt
  <2>3. ASSUME NEW i \in Invoices, ReadForSubmit(w, i) \/ ReadForRetry(w, i)
        PROVE  KnownInv'
    <3>1. /\ pc[w] = "idle"
          /\ pc' \in {[pc EXCEPT ![w] = "submit"], [pc EXCEPT ![w] = "retry"]}
          /\ job' = [job EXCEPT ![w] = i]
          /\ UNCHANGED known
      BY <2>3 DEF ReadForSubmit, ReadForRetry, Move
    <3>2. \A v \in Workers : known[v] => pc'[v] # "idle" /\ job'[v] = job[v]
      BY <3>1 DEF VerdictInv, KnownInv, TypeInv, TypeOK
    <3>3. QED
      BY <1>2, <3>1, <3>2, NothingLearnt
  <2>4. ASSUME ReplyArrives(w)  PROVE  KnownInv'
    <3>1. PICK n \in BOOLEAN :
             /\ n => ksef[job[w]][<<att[w], try[w]>>] = "accepted"
             /\ known' = [known EXCEPT ![w] = n]
      BY <2>4 DEF ReplyArrives
    <3>2. /\ pc[w] = "awaiting" /\ pc' = [pc EXCEPT ![w] = "replied"]
          /\ UNCHANGED <<job, ksef>>
      BY <2>4 DEF ReplyArrives, Move
    <3>3. job[w] \in Invoices /\ <<att[w], try[w]>> \in Keys
      BY <3>2 DEF TypeInv, TypeOK, CallsOK, Claimed, WorkerPc, Mutating, Keys
    <3>4. n => Got(job[w], "accepted")
      BY <3>1, <3>3 DEF Got
    <3>5. \A v \in Workers : known'[v] => pc'[v] # "idle" /\ Got(job[v], "accepted")
      BY <3>1, <3>2, <3>4 DEF VerdictInv, KnownInv, TypeInv, TypeOK
    <3>6. QED
      BY <3>2, <3>5 DEF KnownInv, Got
  <2>5. ASSUME Claim(w)  PROVE  KnownInv'
    BY <2>2, <2>5 DEF Claim, WorkerPc
  <2>6. ASSUME SessionReady(w) \/ SessionFails(w)  PROVE  KnownInv'
    BY <2>2, <2>6 DEF SessionReady, SessionFails, Move, WorkerPc
  <2>7. ASSUME MarkStarted(w) \/ Transmit(w)  PROVE  KnownInv'
    BY <2>2, <2>7 DEF MarkStarted, Transmit, Move, WorkerPc, Mutating
  <2>8. ASSUME SendRefused(w) \/ ReplyLost(w)  PROVE  KnownInv'
    BY <2>2, <2>8 DEF SendRefused, ReplyLost, Move, WorkerPc, Mutating
  <2>9. ASSUME RevokeStarted(w) \/ RecordSubmitted(w)  PROVE  KnownInv'
    BY <2>2, <2>9 DEF RevokeStarted, RecordSubmitted, Move, WorkerPc, Mutating
  <2>10. ASSUME StatementFails(w)  PROVE  KnownInv'
    BY <2>2, <2>10 DEF StatementFails, Move, WorkerPc, Mutating
  <2>11. ASSUME \/ Conflict(w) \/ RecordAccepted(w) \/ RecordLegacySubmitted(w)
                \/ RecordFailure(w) \/ WorkerDies(w)
         PROVE  KnownInv'
    BY <2>1, <2>11
    DEF Conflict, RecordAccepted, RecordLegacySubmitted, RecordFailure, WorkerDies
  <2>12. QED
    BY <2>3, <2>4, <2>5, <2>6, <2>7, <2>8, <2>9, <2>10, <2>11 DEF WorkerNext, WorkerStep
<1>5. VerdictIsTrue'
  <2>1. CASE UNCHANGED <<invoiceRow, submissionRow>>
    BY <1>2, <2>1, NothingStored
  <2>2. CASE Claim(w)
    <3>1. /\ job[w] \in Invoices /\ count[job[w]] + 1 \in Attempts
          /\ subStatus' = [subStatus EXCEPT ![job[w]][count[job[w]] + 1] = "PENDING"]
          /\ status' = [status EXCEPT ![job[w]] = "OFFLINE_QUEUED"]
          /\ UNCHANGED <<legacy, number, ksef>>
      BY <2>2 DEF Claim, TypeInv, CallsOK
    <3>2. QED
      BY <3>1, SameDecisions DEF VerdictInv, VerdictIsTrue, TypeInv, TypeOK
  <2>3. CASE MarkStarted(w) \/ RevokeStarted(w)
    BY <2>3, SameDecisions DEF MarkStarted, RevokeStarted, VerdictInv, VerdictIsTrue,
       invoiceRow
  <2>4. CASE RecordSubmitted(w)
    <3>1. /\ job[w] \in Invoices /\ att[w] \in Attempts
          /\ subStatus' = [subStatus EXCEPT ![job[w]][att[w]] = "SUBMITTED"]
          /\ status' = [status EXCEPT ![job[w]] = "SUBMITTED"]
          /\ UNCHANGED <<legacy, number, ksef>>
      BY <2>4 DEF RecordSubmitted, Move, TypeInv, CallsOK, Claimed, WorkerPc, Mutating
    <3>2. QED
      BY <3>1, SameDecisions DEF VerdictInv, VerdictIsTrue, TypeInv, TypeOK
  <2>5. CASE RecordAccepted(w)
    <3>1. /\ job[w] \in Invoices /\ att[w] \in Attempts /\ known[w]
          /\ subStatus' = [subStatus EXCEPT ![job[w]][att[w]] = "ACCEPTED"]
          /\ number' = [number EXCEPT ![job[w]][att[w]] = TRUE]
          /\ status' = [status EXCEPT ![job[w]] = "ACCEPTED"]
          /\ legacy' = [legacy EXCEPT ![job[w]] = "ACCEPTED"]
          /\ UNCHANGED ksef
      BY <2>5 DEF RecordAccepted, TypeInv, CallsOK, Claimed, WorkerPc, Mutating
    <3>2. Got(job[w], "accepted")
      BY <3>1 DEF VerdictInv, KnownInv
    <3>3. QED
      BY <3>1, <3>2, SameDecisions DEF VerdictInv, VerdictIsTrue, TypeInv, TypeOK
  <2>6. CASE RecordLegacySubmitted(w)
    <3>1. /\ legacy' = [legacy EXCEPT ![job[w]] = "SUBMITTED"]
          /\ UNCHANGED <<status, subStatus, number, ksef>>
      BY <2>6 DEF RecordLegacySubmitted, submissionRow
    <3>2. QED
      BY <3>1, SameDecisions DEF VerdictInv, VerdictIsTrue, TypeInv, TypeOK
  <2>7. CASE RecordFailure(w)
    <3>1. PICK s \in {"ERROR", "PENDING"}, t \in {"OFFLINE_QUEUED", "SUBMITTED"} :
             /\ subStatus' = [subStatus EXCEPT ![job[w]][att[w]] = s]
             /\ status' = [status EXCEPT ![job[w]] = t]
             /\ legacy' = [legacy EXCEPT ![job[w]] = t]
      BY <2>7 DEF RecordFailure, FailureStatus
    <3>2. job[w] \in Invoices /\ att[w] \in Attempts /\ UNCHANGED <<number, ksef>>
      BY <2>7 DEF RecordFailure, TypeInv, CallsOK, Claimed, WorkerPc, Mutating
    <3>3. QED
      BY <3>1, <3>2, SameDecisions DEF VerdictInv, VerdictIsTrue, TypeInv, TypeOK
  <2>8. QED
    BY <2>1, <2>2, <2>3, <2>4, <2>5, <2>6, <2>7
    DEF WorkerNext, WorkerStep, ReadForSubmit, ReadForRetry, Conflict, SessionReady,
        SessionFails, Transmit, SendRefused, ReplyArrives, ReplyLost, StatementFails,
           WorkerDies
<1>6. QED
  BY <1>3, <1>4, <1>5 DEF VerdictInv

LEMMA PollerKeepsVerdicts ==
  ASSUME TypeInv, VerdictInv, NEW p \in Pollers, PollerNext(p)
  PROVE  VerdictInv'
<1>1. UNCHANGED <<call, ksef>>
  BY DEF PollerNext, PollerStep, Attach, StatusRequest, CronPoll, PollRead,
     RestoreAccepted,
         PollAnswered, PollWrite, PollerDies
<1>2. DecisionsStay
  BY <1>1, SameDecisions
<1>3. KnownInv'
  BY <1>1, SameDecisions DEF VerdictInv, KnownInv, call, Got
<1>4. AnswerInv'
  <2>1. ASSUME EndPoll(p)  PROVE  AnswerInv'
    BY <1>1, <2>1 DEF EndPoll, VerdictInv, AnswerInv, TypeInv, TypeOK, Got
  <2>2. ASSUME NEW i \in Invoices, NEW a \in Attempts, StartPoll(p, i,
  a)  PROVE  AnswerInv'
    BY <1>1, <2>2 DEF StartPoll, VerdictInv, AnswerInv, TypeInv, TypeOK, Got
  <2>3. ASSUME NEW v \in PollerPc, ppc' = [ppc EXCEPT ![p] = v], UNCHANGED pjob,
               v \in {"restore", "accepted", "unnumbered"} => Got(pjob[p], "accepted"),
               v = "rejected" => Got(pjob[p], "rejected")
        PROVE  AnswerInv'
    BY <1>1, <2>3 DEF VerdictInv, AnswerInv, TypeInv, TypeOK, Got
  <2>4. ASSUME NEW i \in Invoices, NEW k \in Keys, Attach(p, i, k)  PROVE  AnswerInv'
    <3>1. PICK a \in Attachable(i) : StartPoll(p, i, a)
      BY <2>4 DEF Attach
    <3>2. QED
      BY <2>2, <3>1, AttachableIsAttempt
  <2>5. ASSUME NEW i \in Invoices, StatusRequest(p, i)  PROVE  AnswerInv'
    <3>1. count[i] \in Attempts
      BY <2>5 DEF StatusRequest, TypeInv, TypeOK
    <3>2. QED
      BY <2>2, <2>5, <3>1 DEF StatusRequest
  <2>6. ASSUME NEW i \in Invoices, NEW a \in Attempts, CronPoll(p, i,
  a)  PROVE  AnswerInv'
    BY <2>2, <2>6 DEF CronPoll
  <2>7. ASSUME PollRead(p)  PROVE  AnswerInv'
    <3>1. pjob[p] \in Invoices
      BY <2>7 DEF PollRead, TypeInv, CallsOK
    <3>2. AcceptedInHistory(pjob[p]) => Got(pjob[p], "accepted")
      BY <3>1 DEF AcceptedInHistory, VerdictInv, VerdictIsTrue
    <3>3. \/ EndPoll(p)
          \/ /\ UNCHANGED pjob
             /\ \/ AcceptedInHistory(pjob[p]) /\ ppc' = [ppc EXCEPT ![p] = "restore"]
                \/ ppc' = [ppc EXCEPT ![p] = "ask"]
      BY <2>7 DEF PollRead
    <3>4. QED
      BY <2>1, <2>3, <3>2, <3>3 DEF PollerPc
  <2>8. ASSUME PollAnswered(p)  PROVE  AnswerInv'
    <3>1. pjob[p] \in Invoices /\ prefs[p] \in Keys
      BY <2>8 DEF PollAnswered, TypeInv, CallsOK
    <3>2. ASSUME NEW v \in AnswersTo(ksef[pjob[p]][prefs[p]]),
                 ppc' = [ppc EXCEPT ![p] = v], UNCHANGED pjob
          PROVE  AnswerInv'
      <4>1. /\ v \in {"accepted", "unnumbered", "rejected"}
            /\ v \in {"accepted", "unnumbered"} => ksef[pjob[p]][prefs[p]] = "accepted"
            /\ v = "rejected" => ksef[pjob[p]][prefs[p]] = "rejected"
        BY DEF AnswersTo
      <4>2. QED
        BY <2>3, <3>1, <3>2, <4>1 DEF Got, PollerPc
    <3>3. QED
      BY <2>1, <2>8, <3>2 DEF PollAnswered
  <2>9. ASSUME RestoreAccepted(p) \/ PollWrite(p) \/ PollerDies(p)  PROVE  AnswerInv'
    BY <2>1, <2>9 DEF RestoreAccepted, PollWrite, PollerDies
  <2>10. QED
    BY <2>4, <2>5, <2>6, <2>7, <2>8, <2>9 DEF PollerNext, PollerStep
<1>5. VerdictIsTrue'
  <2>1. CASE UNCHANGED <<invoiceRow, submissionRow>>
    BY <1>2, <2>1, NothingStored
  <2>2. ASSUME NEW i \in Invoices, NEW k \in Keys, Attach(p, i,
  k)  PROVE  VerdictIsTrue'
    <3>1. PICK a \in Attachable(i) : subStatus' = [subStatus EXCEPT ![i][a] = "SUBMITTED"]
      BY <2>2 DEF Attach
    <3>2. /\ legacy' = [legacy EXCEPT ![i] = "SUBMITTED"]
          /\ status' = [status EXCEPT ![i] = "SUBMITTED"]
          /\ UNCHANGED number
      BY <2>2 DEF Attach
    <3>3. a \in Attempts
      BY AttachableIsAttempt
    <3>4. QED
      BY <1>1, <3>1, <3>2, <3>3, SameDecisions DEF VerdictInv, VerdictIsTrue,
         TypeInv, TypeOK
  <2>3. CASE RestoreAccepted(p)
    <3>1. /\ pjob[p] \in Invoices /\ Got(pjob[p], "accepted")
          /\ status' = [status EXCEPT ![pjob[p]] = "ACCEPTED"]
          /\ UNCHANGED <<legacy, subStatus, number>>
      BY <2>3 DEF RestoreAccepted, TypeInv, CallsOK, VerdictInv, AnswerInv,
         submissionRow
    <3>2. QED
      BY <1>1, <3>1, SameDecisions DEF VerdictInv, VerdictIsTrue, TypeInv, TypeOK
  <2>4. CASE PollWrite(p)
    <3> DEFINE i == pjob[p]
               a == patt[p]
               s == PollStatus(ppc[p])
    <3>1. /\ i \in Invoices /\ a \in Attempts
          /\ ppc[p] \in {"accepted", "unnumbered", "rejected"}
      BY <2>4 DEF PollWrite, TypeInv, CallsOK
    <3>2. /\ s = "ACCEPTED" => Got(i, "accepted")
          /\ s = "REJECTED" => Got(i, "rejected")
      BY <3>1 DEF PollStatus, VerdictInv, AnswerInv
    <3>3. /\ subStatus' = [subStatus EXCEPT ![i][a] = s]
          /\ number' = [number EXCEPT ![i][a] = number[i][a] \/ s = "ACCEPTED"]
          /\ status' = [status EXCEPT ![i] = s]
          /\ legacy' = [legacy EXCEPT ![i] = s]
      BY <2>4 DEF PollWrite
    <3> HIDE DEF i, a, s
    <3>4. \A j \in Invoices : status'[j] \in {status[j],
    s} /\ legacy'[j] \in {legacy[j], s}
      BY <3>3 DEF TypeInv, TypeOK
    <3>5. \A j \in Invoices : j # i => status'[j] = status[j] /\ legacy'[j] = legacy[j]
      BY <3>3 DEF TypeInv, TypeOK
    <3>6. \A j \in Invoices, b \in Attempts :
             /\ subStatus'[j][b] = IF j = i /\ b = a THEN s ELSE subStatus[j][b]
             /\ number'[j][b] => number[j][b] \/ (j = i /\ s = "ACCEPTED")
      BY <3>1, <3>3 DEF TypeInv, TypeOK
    <3>7. QED
      BY <1>1, <3>1, <3>2, <3>4, <3>5, <3>6, SameDecisions DEF VerdictInv, VerdictIsTrue
  <2>5. QED
    BY <2>1, <2>2, <2>3, <2>4
    DEF PollerNext, PollerStep, StatusRequest, CronPoll, PollRead, PollAnswered,
       PollerDies
<1>6. QED
  BY <1>3, <1>4, <1>5 DEF VerdictInv

LEMMA StepVerdicts ==
  ASSUME AuthLookalike = FALSE, TypeInv, SafetyInv, VerdictInv, [Next]_vars
  PROVE  VerdictInv'
<1>1. ASSUME UNCHANGED <<invoiceRow, submissionRow, call, poll>>, DecisionsStay
      PROVE  VerdictInv'
  <2>1. KnownInv'
    BY <1>1, NothingLearnt DEF call, VerdictInv, KnownInv
  <2>2. QED
    BY <1>1, <2>1, NothingStored, NothingAnswered DEF VerdictInv
<1>2. CASE KsefNext
  BY <1>1, <1>2, KsefKeepsDecisions DEF KsefNext, Receive, Decide
<1>3. CASE \E w \in Workers : WorkerNext(w)
  BY <1>3, WorkerKeepsVerdicts
<1>4. CASE \E p \in Pollers : PollerNext(p)
  BY <1>4, PollerKeepsVerdicts
<1>5. CASE UNCHANGED vars
  BY <1>1, <1>5, SameDecisions DEF vars
<1>6. QED
  BY <1>2, <1>3, <1>4, <1>5 DEF Next

LEMMA InitVerdicts == Init => VerdictInv
BY DEF Init, VerdictInv, VerdictIsTrue, KnownInv, AnswerInv

\* Whatever the order of the writes, no verdict in the state row, the legacy
\* column or a submission differs from the one KSeF gave.
THEOREM VerdictsAreTrue ==
  ASSUME AuthLookalike = FALSE
  PROVE  Spec => []VerdictIsTrue
<1>1. TypeInv /\ SafetyInv /\ VerdictInv /\ [Next]_vars => VerdictInv'
  BY StepVerdicts
<1>2. VerdictInv => VerdictIsTrue
  BY DEF VerdictInv
<1>3. QED
  BY <1>1, <1>2, InitVerdicts, SafetyInvAlways, PTL DEF Spec

(***************************************************************************)
(* The submission implements KsefDelivery.                                 *)
(***************************************************************************)
LEMMA SentOfNone ==
  ASSUME NEW i \in Invoices, Unsent(i)
  PROVE  Sent(i) = 0
<1>1. Transmitted(i) = {}
  BY DEF Unsent, Transmitted
<1>2. QED
  BY <1>1, FS_EmptySet DEF Sent

\* Received transmissions are the same, decided ones may be new.
LEMMA SameTransmissions ==
  ASSUME \A i \in Invoices : \A k \in Keys : ksef'[i][k] = "none" <=> ksef[i][k] = "none"
  PROVE  [i \in Invoices |-> Sent(i)]' = [i \in Invoices |-> Sent(i)]
<1>1. \A i \in Invoices : Transmitted(i)' = Transmitted(i)
  BY DEF Transmitted
<1>2. QED
  BY <1>1 DEF Sent

LEMMA SameVerdicts ==
  ASSUME UNCHANGED ksef
  PROVE  /\ \A i \in Invoices : Verdict(i)' = Verdict(i)
         /\ [i \in Invoices |-> Verdict(i)]' = [i \in Invoices |-> Verdict(i)]
         /\ [i \in Invoices |-> Sent(i)]' = [i \in Invoices |-> Sent(i)]
<1>1. \A i \in Invoices : Verdict(i)' = Verdict(i)
  BY SameDecisions DEF Verdict
<1>2. [i \in Invoices |-> Verdict(i)]' = [i \in Invoices |-> Verdict(i)]
  BY <1>1
<1>3. [i \in Invoices |-> Sent(i)]' = [i \in Invoices |-> Sent(i)]
  BY SameTransmissions
<1>4. QED
  BY <1>1, <1>2, <1>3

LEMMA OneVerdict ==
  ASSUME SafetyInv, NEW i \in Invoices, Got(i, "accepted"), Got(i, "rejected")
  PROVE  FALSE
<1>1. PICK k \in Keys : ksef[i][k] = "accepted"
  BY DEF Got
<1>2. PICK l \in Keys : ksef[i][l] = "rejected"
  BY DEF Got
<1>3. k = l
  BY <1>1, <1>2 DEF SafetyInv, SentInv
<1>4. QED
  BY <1>1, <1>2, <1>3

LEMMA StatusStep ==
  ASSUME TypeInv, SafetyInv, UNCHANGED ksef,
         NEW i \in Invoices, NEW s \in InvoiceKsefStatus,
         status' = [status EXCEPT ![i] = s],
         s = "ACCEPTED" => Got(i, "accepted"),
         s = "REJECTED" => Got(i, "rejected")
  PROVE  Delivery!Next
<1>1. \A j \in Invoices : j # i => Books(j)' = Books(j)
  BY DEF Books, TypeInv, TypeOK
<1>2. status'[i] = s
  BY DEF TypeInv, TypeOK
<1>3. CASE s \in {"ACCEPTED", "REJECTED"}
  <2>1. Verdict(i) # "open" /\ Books(i)' = Verdict(i)
    BY <1>2, <1>3, OneVerdict DEF Books, Verdict
  <2>2. [j \in Invoices |-> Books(j)]' =
          [[j \in Invoices |-> Books(j)] EXCEPT ![i] = [j \in Invoices |-> Verdict(j)][i]]
    BY <1>1, <2>1
  <2>3. Delivery!Book(i)
    BY <2>1, <2>2, SameVerdicts DEF Delivery!Book
  <2>4. QED
    BY <2>3 DEF Delivery!Next
<1>4. CASE s \notin {"ACCEPTED", "REJECTED"}
  <2>1. Books(i)' = "open"
    BY <1>2, <1>4 DEF Books
  <2>2. [j \in Invoices |-> Books(j)]' = [[j \in Invoices |-> Books(j)] EXCEPT ![i] = "open"]
    BY <1>1, <2>1
  <2>3. Delivery!Reopen(i)
    BY <2>2, SameVerdicts DEF Delivery!Reopen
  <2>4. QED
    BY <2>3 DEF Delivery!Next
<1>5. QED
  BY <1>3, <1>4

LEMMA TransmitStep ==
  ASSUME TypeInv, SafetyInv, NEW w \in Workers, Transmit(w)
  PROVE  Delivery!Next
<1>1. PICK i \in Invoices, x \in Keys : i = job[w] /\ x = <<att[w], try[w]>>
  BY DEF Transmit, Move, TypeInv, TypeOK, CallsOK, Claimed, WorkerPc, Mutating, Keys
<1>2. /\ Unsent(i)
      /\ ksef' = [ksef EXCEPT ![i][x] = "flying"]
      /\ UNCHANGED status
  BY <1>1 DEF Transmit, Move, invoiceRow, SafetyInv, UnsentInv, BeforeSending
<1>3. Sent(i) = 0
  BY <1>2, SentOfNone
<1>4. Transmitted(i)' = {x}
  <2>1. \A k \in Keys : ksef'[i][k] = IF k = x THEN "flying" ELSE "none"
    BY <1>2 DEF Unsent, TypeInv, TypeOK
  <2>2. Transmitted(i)' = {k \in Keys : ksef'[i][k] # "none"}
    BY DEF Transmitted
  <2>3. QED
    BY <2>1, <2>2
<1>5. Sent(i)' = 1
  BY <1>4, FS_Singleton DEF Sent
<1>6. \A j \in Invoices : j # i => ksef'[j] = ksef[j]
  BY <1>2 DEF TypeInv, TypeOK
<1>7. \A j \in Invoices : j # i => Sent(j)' = Sent(j) /\ Verdict(j)' = Verdict(j)
  BY <1>6 DEF Sent, Transmitted, Verdict, Got
<1>8. Verdict(i)' = "open" /\ Verdict(i) = "open"
  BY <1>1, <1>2 DEF Verdict, Got, Unsent, TypeInv, TypeOK
<1>9. [j \in Invoices |-> Sent(j)]' = [[j \in Invoices |-> Sent(j)] EXCEPT ![i] = 1]
  BY <1>5, <1>7
<1>10. [j \in Invoices |-> Verdict(j)]' = [j \in Invoices |-> Verdict(j)]
  BY <1>7, <1>8
<1>11. [j \in Invoices |-> Books(j)]' = [j \in Invoices |-> Books(j)]
  BY <1>2 DEF Books
<1>12. Delivery!Transmit(i)
  BY <1>1, <1>3, <1>9, <1>10, <1>11 DEF Delivery!Transmit
<1>13. QED
  BY <1>1, <1>12 DEF Delivery!Next

LEMMA KsefStep ==
  ASSUME TypeInv, SafetyInv, NEW i \in Invoices, NEW k \in Keys, Receive(i,
     k) \/ Decide(i, k)
  PROVE  [Delivery!Next]_Delivery!vars
<1>1. PICK v \in {"processing", "accepted", "rejected"} :
         ksef' = [ksef EXCEPT ![i][k] = v]
  BY DEF Receive, Decide
<1>2. ksef[i][k] \in {"flying", "processing"} /\ UNCHANGED status
  BY DEF Receive, Decide, invoiceRow
<1>3. \A l \in Keys : ksef[i][l] # "none" => l = k
  BY <1>2 DEF SafetyInv, SentInv
<1>4. Verdict(i) = "open" /\ Transmitted(i) = {k}
  BY <1>2, <1>3 DEF Verdict, Got, Transmitted
<1>5. Sent(i) = 1
  BY <1>4, FS_Singleton DEF Sent
<1>6. \A j \in Invoices : j # i => Verdict(j)' = Verdict(j)
  BY <1>1 DEF Verdict, Got, TypeInv, TypeOK
<1>7. Verdict(i)' = IF v = "processing" THEN "open" ELSE v
  <2>1. \A l \in Keys : ksef'[i][l] = IF l = k THEN v ELSE ksef[i][l]
    BY <1>1 DEF TypeInv, TypeOK
  <2>2. QED
    BY <1>3, <2>1 DEF Verdict, Got
<1>8. [j \in Invoices |-> Sent(j)]' = [j \in Invoices |-> Sent(j)]
  BY <1>1, <1>2, SameTransmissions DEF TypeInv, TypeOK
<1>9. [j \in Invoices |-> Books(j)]' = [j \in Invoices |-> Books(j)]
  BY <1>2 DEF Books
<1>10. CASE v = "processing"
  <2>1. [j \in Invoices |-> Verdict(j)]' = [j \in Invoices |-> Verdict(j)]
    BY <1>4, <1>6, <1>7, <1>10
  <2>2. QED
    BY <1>8, <1>9, <2>1 DEF Delivery!vars
<1>11. CASE v \in {"accepted", "rejected"}
  <2>1. [j \in Invoices |-> Verdict(j)]' = [[j \in Invoices |-> Verdict(j)] EXCEPT ![i] = v]
    BY <1>6, <1>7, <1>11
  <2>2. Delivery!Decide(i)
    BY <1>4, <1>5, <1>8, <1>9, <1>11, <2>1 DEF Delivery!Decide
  <2>3. QED
    BY <2>2 DEF Delivery!Next
<1>12. QED
  BY <1>10, <1>11

LEMMA StepImplements ==
  ASSUME TypeInv, SafetyInv, VerdictInv, [Next]_vars
  PROVE  [Delivery!Next]_Delivery!vars
<1>1. ASSUME UNCHANGED <<status, ksef>>
      PROVE  UNCHANGED Delivery!vars
  BY <1>1, SameVerdicts DEF Delivery!vars, Books
<1>2. CASE KsefNext
  BY <1>2, KsefStep DEF KsefNext
<1>3. ASSUME NEW w \in Workers, WorkerNext(w)
      PROVE  [Delivery!Next]_Delivery!vars
  <2>1. CASE Transmit(w)
    BY <2>1, TransmitStep
  <2>2. CASE Claim(w)
    BY <2>2, StatusStep DEF Claim, InvoiceKsefStatus, TypeInv, CallsOK
  <2>3. CASE RecordSubmitted(w)
    BY <2>3, StatusStep DEF RecordSubmitted, Move, InvoiceKsefStatus, TypeInv, CallsOK
  <2>4. CASE RecordAccepted(w)
    BY <2>4, StatusStep
    DEF RecordAccepted, InvoiceKsefStatus, TypeInv, CallsOK, VerdictInv, KnownInv
  <2>5. CASE RecordFailure(w)
    <3>1. PICK t \in {"OFFLINE_QUEUED", "SUBMITTED"} :
             status' = [status EXCEPT ![job[w]] = t]
      BY <2>5 DEF RecordFailure, FailureStatus
    <3>2. job[w] \in Invoices /\ UNCHANGED ksef
      BY <2>5 DEF RecordFailure, TypeInv, CallsOK
    <3>3. QED
      BY <3>1, <3>2, StatusStep DEF InvoiceKsefStatus
  <2>6. CASE UNCHANGED <<status, ksef>>
    BY <1>1, <2>6
  <2>7. QED
    BY <1>3, <2>1, <2>2, <2>3, <2>4, <2>5, <2>6
    DEF WorkerNext, WorkerStep, ReadForSubmit, ReadForRetry, Conflict, SessionReady,
        SessionFails, MarkStarted, SendRefused, ReplyArrives, ReplyLost, RevokeStarted,
        RecordLegacySubmitted, StatementFails, WorkerDies, invoiceRow
<1>4. ASSUME NEW p \in Pollers, PollerNext(p)
      PROVE  [Delivery!Next]_Delivery!vars
  <2>1. ASSUME NEW i \in Invoices, NEW k \in Keys, Attach(p, i, k)
        PROVE  [Delivery!Next]_Delivery!vars
    BY <2>1, StatusStep DEF Attach, InvoiceKsefStatus
  <2>2. CASE RestoreAccepted(p)
    BY <2>2, StatusStep
    DEF RestoreAccepted, InvoiceKsefStatus, TypeInv, CallsOK, VerdictInv, AnswerInv
  <2>3. CASE PollWrite(p)
    <3>1. PollStatus(ppc[p]) \in {"SUBMITTED", "ACCEPTED", "REJECTED"}
      BY DEF PollStatus
    <3>2. /\ PollStatus(ppc[p]) = "ACCEPTED" => Got(pjob[p], "accepted")
          /\ PollStatus(ppc[p]) = "REJECTED" => Got(pjob[p], "rejected")
      BY <2>3 DEF PollWrite, PollStatus, VerdictInv, AnswerInv
    <3>3. /\ pjob[p] \in Invoices /\ UNCHANGED ksef
          /\ status' = [status EXCEPT ![pjob[p]] = PollStatus(ppc[p])]
      BY <2>3 DEF PollWrite, TypeInv, CallsOK
    <3>4. QED
      BY <3>1, <3>2, <3>3, StatusStep DEF InvoiceKsefStatus
  <2>4. CASE UNCHANGED <<status, ksef>>
    BY <1>1, <2>4
  <2>5. QED
    BY <1>4, <2>1, <2>2, <2>3, <2>4
    DEF PollerNext, PollerStep, StatusRequest, CronPoll, PollRead, PollAnswered,
       PollerDies,
        invoiceRow
<1>5. CASE UNCHANGED vars
  BY <1>1, <1>5 DEF vars, invoiceRow
<1>6. QED
  BY <1>2, <1>3, <1>4, <1>5 DEF Next

LEMMA InitImplements == Init => Delivery!Init
<1> SUFFICES ASSUME Init  PROVE Delivery!Init
  OBVIOUS
<1>1. \A i \in Invoices : Sent(i) = 0
  BY SentOfNone DEF Init, Unsent
<1>2. \A i \in Invoices : Verdict(i) = "open" /\ Books(i) = "open"
  BY DEF Init, Verdict, Got, Books
<1>3. QED
  BY <1>1, <1>2 DEF Delivery!Init

\* The queue, the attempts, the two status columns and the polls together
\* keep the promise of KsefDelivery.
THEOREM DeliveryImplemented ==
  ASSUME AuthLookalike = FALSE
  PROVE  Spec => ImplementsDelivery
<1>1. TypeInv /\ SafetyInv /\ VerdictInv /\ [Next]_vars => VerdictInv'
  BY StepVerdicts
<1>2. TypeInv /\ SafetyInv /\ VerdictInv /\ [Next]_vars => [Delivery!Next]_Delivery!vars
  BY StepImplements
<1>3. QED
  BY <1>1, <1>2, InitVerdicts, InitImplements, SafetyInvAlways, PTL
  DEF Spec, ImplementsDelivery, Delivery!Spec

-----------------------------------------------------------------------------
(***************************************************************************)
(* Sessions: KsefSession.                                                  *)
(***************************************************************************)
(***************************************************************************)
(* Types                                                                   *)
(***************************************************************************)
Places == {"idle", "asking", "lookup", "touch", "load", "refresh"} \cup Authenticating \cup Calling

RequestType ==
    [at : Places, env : Environments, shown : Environments, active : Environments, kind : Kinds,
     call : Calling, token : Tokens \cup {NoToken}, retried : BOOLEAN, late : BOOLEAN]
ChangeType ==
    [at : {"idle", "saving", "switching"}, env : Environments, token : Tokens \cup {NoToken},
     isDefault : BOOLEAN]
SessionType == [token : Tokens \cup {NoToken}, fresh : BOOLEAN, late : BOOLEAN]

LEMMA Typed ==
  SessionTypeOK <=>
    /\ credential \in Stored
    /\ company \in [env : Environments, token : Tokens \cup {NoToken}]
    /\ session \in [Environments -> SessionType]
    /\ revoked \subseteq Tokens
    /\ request \in [Requests -> RequestType]
    /\ admin \in [Admins -> ChangeType]
    /\ faults \in Nat /\ changes \in Nat
    /\ strayed \in BOOLEAN /\ crossed \in BOOLEAN
    /\ copies \in [Requests -> Nat]
    /\ misread \in [Requests -> BOOLEAN]
BY DEF SessionTypeOK, RequestType, ChangeType, SessionType, Places

LEMMA NothingIsTyped ==
  NoRequest \in RequestType /\ NoChange \in ChangeType /\ NoSession \in SessionType
BY DEF NoRequest, RequestType, Places, Environments, Kinds, Calling, Authenticating, NoChange,
   ChangeType, NoSession, SessionType

LEMMA InitTypes == SessionInit => SessionTypeOK
<1> SUFFICES ASSUME SessionInit PROVE SessionTypeOK
  OBVIOUS
<1>1. /\ company \in [env : Environments, token : Tokens \cup {NoToken}]
      /\ credential \in Stored
  BY DEF SessionInit, Stored
<1>2. QED
  BY <1>1, Typed, NothingIsTyped DEF SessionInit

\* The next place of a request.
LEMMA GotoIsTyped ==
  ASSUME NEW r \in RequestType, NEW place \in Places
  PROVE  [r EXCEPT !.at = place] \in RequestType
BY DEF RequestType

LEMMA DoneIsTyped ==
  ASSUME NEW r \in RequestType
  PROVE  [NoRequest EXCEPT !.active = r.active] \in RequestType
BY NothingIsTyped DEF RequestType

LEMMA TokenIsTyped ==
  ASSUME SessionTypeOK, NEW e \in Environments
  PROVE  TokenFor(e) \in Tokens \cup {NoToken}
BY TokenAssumption, Typed DEF TokenFor, LegacyToken, Stored

-----------------------------------------------------------------------------
(***************************************************************************)
(* The invariant.  A request that authenticates does so with the token of  *)
(* the credential, or the credential was saved meanwhile; and with one made *)
(* for its environment, unless a save and a change of the default crossed. *)
(* One that has sent its invoice only has the end of its chain before it.  *)
(***************************************************************************)
Follows(token, e, late) == credential[e] # NoToken => token = credential[e] \/ late

Right(r) ==
    /\ r.at \in Authenticating =>
          /\ Follows(r.token, r.env, r.late)
          /\ crossed \/ (r.token # NoToken /\ EnvironmentOf[r.token] = r.env)
    /\ r.at # "idle" => r.env = r.shown

SentOnce(r, n, looked) == ~looked /\ n # 0 => n = 1 /\ r.at \in {"close", "accept", "idle"}

Own(token, e) == token # NoToken => EnvironmentOf[token] = e

SessionInv ==
    /\ \A w \in Requests : Right(request[w]) /\ SentOnce(request[w], copies[w], misread[w])
    /\ \A e \in Environments : session[e] # NoSession => Follows(session[e].token, e, session[e].late)
    /\ \A e \in Environments : Own(credential[e], e)
    /\ \A a \in Admins : admin[a].at # "idle" => Own(admin[a].token, admin[a].env)
    /\ crossed \/ (~strayed /\ Own(company.token, company.env))

Inv == SessionTypeOK /\ SessionInv

LEMMA InitInv == SessionInit => Inv
<1> SUFFICES ASSUME SessionInit PROVE Inv
  OBVIOUS
<1>1. NoRequest.at = "idle" /\ NoRequest.at \notin Authenticating /\ NoChange.at = "idle"
  BY DEF NoRequest, NoChange, Authenticating
<1>2. SessionInv
  BY <1>1 DEF SessionInit, SessionInv, Right, SentOnce, Own, OwnToken, Stored
<1>3. QED
  BY <1>2, InitTypes DEF Inv

\* A step of one request that leaves the settings alone.
LEMMA RequestStep ==
  ASSUME Inv, NEW w \in Requests, NEW r \in RequestType,
         request' = [request EXCEPT ![w] = r], Right(r),
         UNCHANGED <<credential, company, session, revoked, admin, changes, crossed>>,
         faults' \in Nat, strayed' \in BOOLEAN, strayed' => strayed \/ crossed,
         copies' \in [Requests -> Nat], misread' \in [Requests -> BOOLEAN],
         \A v \in Requests \ {w} : copies'[v] = copies[v] /\ misread'[v] = misread[v],
         SentOnce(r, copies'[w], misread'[w])
  PROVE  Inv'
<1>1. SessionTypeOK'
  BY Typed DEF Inv, SessionTypeOK, RequestType, Places
<1>2. \A v \in Requests : Right(request'[v]) /\ SentOnce(request'[v], copies'[v], misread'[v])
  BY Typed DEF Inv, SessionInv
<1>3. SessionInv'
  BY <1>2 DEF Inv, SessionInv, Right, SentOnce, Follows, Own
<1>4. QED
  BY <1>1, <1>3 DEF Inv

\* A step of one request that is not to be counted.
LEMMA PlainStep ==
  ASSUME Inv, NEW w \in Requests, NEW r \in RequestType,
         request' = [request EXCEPT ![w] = r], Right(r),
         UNCHANGED <<credential, company, session, revoked, admin, changes, crossed>>,
         faults' \in Nat, strayed' \in BOOLEAN, strayed' => strayed \/ crossed,
         UNCHANGED <<copies, misread>>,
         r.at \in {"close", "accept", "idle"} \/ copies[w] = 0 \/ misread[w]
  PROVE  Inv'
<1>1. copies' \in [Requests -> Nat] /\ misread' \in [Requests -> BOOLEAN]
  BY DEF Inv, SessionTypeOK
<1>2. SentOnce(r, copies'[w], misread'[w])
  BY DEF Inv, SessionInv, SentOnce
<1>3. QED
  BY <1>1, <1>2, RequestStep

\* A request that ends.
LEMMA DoneStep ==
  ASSUME Inv, NEW w \in Requests, Done(w),
         UNCHANGED <<credential, company, session, revoked, admin, changes, crossed>>,
         faults' \in Nat, strayed' \in BOOLEAN, strayed' => strayed \/ crossed,
         UNCHANGED <<copies, misread>>
  PROVE  Inv'
<1> DEFINE r == [NoRequest EXCEPT !.active = request[w].active]
<1>1. r \in RequestType
  BY Typed, DoneIsTyped DEF Inv
<1>2. r.at = "idle"
  BY DEF NoRequest
<1>3. Right(r)
  BY <1>2 DEF Right, Authenticating
<1>4. request' = [request EXCEPT ![w] = r]
  BY DEF Done, With
<1> HIDE DEF r
<1>5. QED
  BY <1>1, <1>2, <1>3, <1>4, PlainStep

\* A request that goes on from a place where nothing of this run has been sent.
LEMMA GotoStep ==
  ASSUME Inv, NEW w \in Requests, NEW place \in Places, Goto(w, place),
         UNCHANGED <<credential, company, session, revoked, admin, changes, crossed>>,
         faults' \in Nat, strayed' \in BOOLEAN, strayed' => strayed \/ crossed,
         UNCHANGED <<copies, misread>>,
         request[w].at # "idle",
         place \in Authenticating => request[w].at \in Authenticating,
         place \in {"close", "accept", "idle"} \/ request[w].at \notin {"close", "accept"}
  PROVE  Inv'
<1> DEFINE r == [request[w] EXCEPT !.at = place]
<1>1. r \in RequestType /\ request[w] \in RequestType
  BY Typed, GotoIsTyped DEF Inv
<1>2. /\ r.at = place /\ r.env = request[w].env /\ r.shown = request[w].shown
      /\ r.token = request[w].token /\ r.late = request[w].late
  BY <1>1 DEF RequestType
<1>3. Right(r)
  BY <1>2 DEF Inv, SessionInv, Right
<1>4. request' = [request EXCEPT ![w] = r]
  BY DEF Goto, With
<1>5. r.at \in {"close", "accept", "idle"} \/ copies[w] = 0 \/ misread[w]
  BY <1>2 DEF Inv, SessionInv, SentOnce
<1> HIDE DEF r
<1>6. QED
  BY <1>1, <1>3, <1>4, <1>5, PlainStep

-----------------------------------------------------------------------------
(***************************************************************************)
(* The page and the session in the database                                *)
(***************************************************************************)
LEMMA PageKeeps ==
  ASSUME Inv, NEW w \in Requests,
         OpenPage(w) \/ Confirm(w) \/ Cancel(w) \/ \E kind \in Kinds : Press(w, kind)
  PROVE  Inv'
<1> USE DEF settings, history
<1>1. request[w] \in RequestType /\ faults \in Nat /\ strayed \in BOOLEAN
  BY Typed DEF Inv
<1>2. CASE OpenPage(w)
  <2> DEFINE r == [request[w] EXCEPT !.active = ActiveEnvironment]
  <2>1. request' = [request EXCEPT ![w] = r] /\ request[w].at \in {"idle", "asking"}
    BY <1>2 DEF OpenPage, With
  <2>2. ActiveEnvironment \in Environments
    BY Typed DEF Inv, ActiveEnvironment
  <2>3. r \in RequestType
    BY <1>1, <2>2 DEF RequestType
  <2>4. /\ r.at = request[w].at /\ r.env = request[w].env /\ r.shown = request[w].shown
        /\ r.token = request[w].token /\ r.late = request[w].late
    BY <1>1 DEF RequestType
  <2>5. Right(r)
    BY <2>4 DEF Inv, SessionInv, Right
  <2>6. r.at \in {"close", "accept", "idle"} \/ copies[w] = 0 \/ misread[w]
    BY <2>4 DEF Inv, SessionInv, SentOnce
  <2> HIDE DEF r
  <2>7. QED
    BY <1>1, <1>2, <2>1, <2>3, <2>5, <2>6, PlainStep DEF OpenPage
<1>3. ASSUME NEW kind \in Kinds, Press(w, kind)
      PROVE  Inv'
  <2> DEFINE env == request[w].active
  <2> DEFINE r == [NoRequest EXCEPT
                      !.at = IF env = "PRODUCTION" /\ kind # "status" THEN "asking" ELSE "lookup",
                      !.env = env, !.shown = env, !.active = env,
                      !.kind = kind, !.call = FirstCall(kind)]
  <2>1. request' = [request EXCEPT ![w] = r]
    BY <1>3 DEF Press, With
  <2>2. env \in Environments /\ FirstCall(kind) \in Calling
    BY <1>1, <1>3 DEF RequestType, FirstCall, Calling, Kinds
  <2>3. r \in RequestType
    BY <2>2, NothingIsTyped DEF RequestType, Places
  <2>4. r.at \notin Authenticating /\ r.env = r.shown
    BY DEF NoRequest, Authenticating
  <2>5. Right(r)
    BY <2>4 DEF Right
  <2>6. /\ copies' = [copies EXCEPT ![w] = 0] /\ misread' = [misread EXCEPT ![w] = FALSE]
        /\ UNCHANGED <<credential, company, session, revoked, admin, faults, changes, strayed,
                       crossed>>
    BY <1>3 DEF Press
  <2>7. /\ copies' \in [Requests -> Nat] /\ misread' \in [Requests -> BOOLEAN]
        /\ \A v \in Requests \ {w} : copies'[v] = copies[v] /\ misread'[v] = misread[v]
        /\ copies'[w] = 0
    BY <2>6 DEF Inv, SessionTypeOK
  <2>8. SentOnce(r, copies'[w], misread'[w])
    BY <2>7 DEF SentOnce
  <2> HIDE DEF r
  <2>9. QED
    BY <1>1, <2>1, <2>3, <2>5, <2>6, <2>7, <2>8, RequestStep
<1>4. CASE Confirm(w)
  <2> DEFINE r == [request[w] EXCEPT !.at = "lookup", !.env = ConfirmedEnvironment(w)]
  <2>1. request' = [request EXCEPT ![w] = r] /\ request[w].at = "asking"
    BY <1>4 DEF Confirm, With
  <2>2. r \in RequestType
    BY <1>1 DEF RequestType, Places, ConfirmedEnvironment
  <2>3. r.at = "lookup" /\ r.env = request[w].env /\ r.shown = request[w].shown
    BY <1>1 DEF RequestType, ConfirmedEnvironment
  <2>4. Right(r)
    BY <2>1, <2>3 DEF Inv, SessionInv, Right, Authenticating
  <2>5. copies[w] = 0 \/ misread[w]
    BY <2>1 DEF Inv, SessionInv, SentOnce
  <2> HIDE DEF r
  <2>6. QED
    BY <1>1, <1>4, <2>1, <2>2, <2>4, <2>5, PlainStep DEF Confirm
<1>5. CASE Cancel(w)
  BY <1>1, <1>5, DoneStep DEF Cancel
<1>6. QED
  BY <1>2, <1>3, <1>4, <1>5

\* The token that is loaded is that of the credential, if there is one.
LEMMA LoadedIsRight ==
  ASSUME Inv, NEW e \in Environments, TokenFor(e) # NoToken
  PROVE  /\ credential[e] # NoToken => TokenFor(e) = credential[e]
         /\ crossed \/ EnvironmentOf[TokenFor(e)] = e
BY TokenAssumption DEF Inv, SessionInv, Own, TokenFor, LegacyToken

LEMMA LookUpKeeps ==
  ASSUME Inv, NEW w \in Requests, LookUp(w) \/ Touch(w) \/ LoadToken(w)
  PROVE  Inv'
<1> USE DEF settings, history
<1>1. request[w] \in RequestType /\ faults \in Nat /\ strayed \in BOOLEAN
  BY Typed DEF Inv
<1>2. CASE LookUp(w)
  <2> DEFINE e == request[w].env
  <2>1. CASE Usable(e)
    <3> DEFINE r == [request[w] EXCEPT !.at = "touch", !.token = session[e].token]
    <3>1. request' = [request EXCEPT ![w] = r] /\ request[w].at = "lookup"
      BY <1>2, <2>1 DEF LookUp, With
    <3>2. r \in RequestType
      BY <1>1, Typed DEF RequestType, SessionType, Places, Inv
    <3>3. r.at = "touch" /\ r.env = request[w].env /\ r.shown = request[w].shown
      BY <1>1 DEF RequestType
    <3>4. Right(r)
      BY <3>1, <3>3 DEF Inv, SessionInv, Right, Authenticating
    <3>5. copies[w] = 0 \/ misread[w]
      BY <3>1 DEF Inv, SessionInv, SentOnce
    <3> HIDE DEF r
    <3>6. QED
      BY <1>1, <1>2, <3>1, <3>2, <3>4, <3>5, PlainStep DEF LookUp
  <2>2. CASE ~Usable(e)
    <3>1. Goto(w, "load") /\ request[w].at = "lookup"
      BY <1>2, <2>2 DEF LookUp
    <3>2. QED
      BY <1>1, <1>2, <3>1, GotoStep DEF LookUp, Places, Authenticating
  <2>3. QED
    BY <2>1, <2>2
<1>3. CASE Touch(w)
  <2>1. Done(w) \/ Goto(w, "refresh")
    BY <1>3 DEF Touch
  <2>2. CASE Done(w)
    BY <1>1, <1>3, <2>2, DoneStep DEF Touch
  <2>3. CASE Goto(w, "refresh")
    BY <1>1, <1>3, <2>3, GotoStep DEF Touch, Places, Authenticating
  <2>4. QED
    BY <2>1, <2>2, <2>3
<1>4. CASE LoadToken(w)
  <2> DEFINE e == request[w].env
  <2> DEFINE r == [request[w] EXCEPT !.at = "keys", !.token = TokenFor(e)]
  <2>1. CASE TokenFor(e) = NoToken
    BY <1>1, <1>4, <2>1, DoneStep DEF LoadToken
  <2>2. CASE TokenFor(e) # NoToken
    <3>1. request' = [request EXCEPT ![w] = r] /\ request[w].at = "load"
      BY <1>4, <2>2 DEF LoadToken, With
    <3>2. e \in Environments
      BY <1>1 DEF RequestType
    <3>3. r \in RequestType
      BY <1>1, <3>2, TokenIsTyped DEF RequestType, Places, Authenticating, Inv
    <3>4. r.at = "keys" /\ r.env = e /\ r.shown = request[w].shown /\ r.token = TokenFor(e)
      BY <1>1 DEF RequestType
    <3>5. Right(r)
      BY <2>2, <3>1, <3>2, <3>4, LoadedIsRight DEF Inv, SessionInv, Right, Follows
    <3>6. copies[w] = 0 \/ misread[w]
      BY <3>1 DEF Inv, SessionInv, SentOnce
    <3> HIDE DEF r
    <3>7. QED
      BY <1>1, <1>4, <3>1, <3>3, <3>5, <3>6, PlainStep DEF LoadToken
  <2>3. QED
    BY <2>1, <2>2
<1>5. QED
  BY <1>2, <1>3, <1>4

-----------------------------------------------------------------------------
(***************************************************************************)
(* Authentication and calls                                                *)
(***************************************************************************)
LEMMA AuthenticationKeeps ==
  ASSUME Inv, NEW w \in Requests,
         \/ Refresh(w) \/ FetchPublicKeys(w) \/ GetChallenge(w) \/ PostToken(w)
         \/ PollAuthStatus(w) \/ Redeem(w)
  PROVE  Inv'
<1> USE DEF settings, history
<1>1. request[w] \in RequestType /\ faults \in Nat /\ strayed \in BOOLEAN
  BY Typed DEF Inv
<1>2. request[w].call \in Calling /\ Calling \cap Authenticating = {}
  BY <1>1 DEF RequestType, Calling, Authenticating
<1>3. ASSUME KsefRefuses(w), UNCHANGED <<crossed, copies, misread>>, strayed' \in BOOLEAN,
             strayed' => strayed \/ crossed
      PROVE  Inv'
  BY <1>1, <1>3, DoneStep DEF KsefRefuses
<1>4. CASE Refresh(w)
  <2>1. CASE KsefAnswers(w, "refresh", request[w].call)
    BY <1>1, <1>2, <1>4, <2>1, GotoStep DEF KsefAnswers, Refresh, Places
  <2>2. CASE KsefRefuses(w)
    BY <1>1, <1>3, <1>4, <2>2 DEF Refresh
  <2>3. QED
    BY <1>4, <2>1, <2>2 DEF Refresh
<1>5. ASSUME NEW from \in Authenticating, NEW place \in Authenticating,
             KsefAnswers(w, from, place), UNCHANGED <<crossed, copies, misread>>,
             strayed' \in BOOLEAN, strayed' => strayed \/ crossed
      PROVE  Inv'
  BY <1>1, <1>5, GotoStep DEF KsefAnswers, Places, Authenticating
<1>6. {"keys", "challenge", "post", "poll", "redeem", "store"} \subseteq Authenticating
  BY DEF Authenticating
<1>7. CASE FetchPublicKeys(w)
  BY <1>1, <1>5, <1>6, <1>7 DEF FetchPublicKeys
<1>8. CASE GetChallenge(w)
  BY <1>1, <1>5, <1>6, <1>8 DEF GetChallenge
<1>9. CASE PostToken(w)
  <2>1. strayed' \in BOOLEAN /\ (strayed' => strayed \/ crossed)
    BY <1>1, <1>6, <1>9 DEF PostToken, Inv, SessionInv, Right
  <2>2. QED
    BY <1>3, <1>5, <1>6, <1>9, <2>1 DEF PostToken
<1>10. CASE PollAuthStatus(w)
  BY <1>1, <1>3, <1>5, <1>6, <1>10 DEF PollAuthStatus
<1>11. CASE Redeem(w)
  BY <1>1, <1>5, <1>6, <1>11 DEF Redeem
<1>12. QED
  BY <1>4, <1>7, <1>8, <1>9, <1>10, <1>11

\* The session that is stored is the one its request has authenticated for.
LEMMA StoreSessionKeeps ==
  ASSUME Inv, NEW w \in Requests, StoreSession(w)
  PROVE  Inv'
<1> USE DEF settings, history
<1> DEFINE e == request[w].env
<1> DEFINE s == [token |-> request[w].token, fresh |-> TRUE, late |-> request[w].late]
<1> DEFINE r == [request[w] EXCEPT !.at = request[w].call, !.late = FALSE]
<1>1. request[w] \in RequestType
  BY Typed DEF Inv
<1>2. /\ request[w].at = "store" /\ session' = [session EXCEPT ![e] = s]
      /\ request' = [request EXCEPT ![w] = r]
      /\ UNCHANGED <<credential, company, revoked, admin, faults, changes, strayed, crossed,
                     copies, misread>>
  BY DEF StoreSession, With
<1>3. e \in Environments /\ s \in SessionType /\ r \in RequestType
  BY <1>1 DEF RequestType, SessionType, Places
<1>4. /\ r.at = request[w].call /\ r.env = e /\ r.shown = request[w].shown
      /\ s.token = request[w].token /\ s.late = request[w].late
  BY <1>1 DEF RequestType
<1>5. r.at \notin Authenticating /\ request[w].at \in Authenticating /\ request[w].at # "idle"
  BY <1>1, <1>2, <1>4 DEF RequestType, Calling, Authenticating
<1>6. Right(r)
  BY <1>4, <1>5 DEF Inv, SessionInv, Right
<1>7. SentOnce(r, copies[w], misread[w])
  BY <1>2 DEF Inv, SessionInv, SentOnce
<1>8. Follows(s.token, e, s.late)
  BY <1>4, <1>5 DEF Inv, SessionInv, Right
<1> HIDE DEF r, s, e
<1>9. SessionTypeOK'
  <2>1. session' \in [Environments -> SessionType] /\ request' \in [Requests -> RequestType]
    BY <1>2, <1>3, Typed DEF Inv
  <2>2. QED
    BY <1>2, <2>1, Typed DEF Inv, SessionTypeOK, RequestType, SessionType, Places
<1>10. \A v \in Requests : Right(request'[v]) /\ SentOnce(request'[v], copies[v], misread[v])
  BY <1>2, <1>6, <1>7, Typed DEF Inv, SessionInv
<1>11. \A d \in Environments :
           session'[d] # NoSession => Follows(session'[d].token, d, session'[d].late)
  BY <1>2, <1>3, <1>8, Typed DEF Inv, SessionInv
<1>12. SessionInv'
  BY <1>2, <1>10, <1>11 DEF Inv, SessionInv, Right, SentOnce, Follows, Own
<1>13. QED
  BY <1>9, <1>12 DEF Inv

\* Calls that are answered.
LEMMA CallKeeps ==
  ASSUME Inv, NEW w \in Requests, Call(w)
  PROVE  Inv'
<1> USE DEF settings, history
<1>1. request[w] \in RequestType /\ faults \in Nat /\ strayed \in BOOLEAN
  BY Typed DEF Inv
<1>2. /\ request[w].at \in Calling \ {"send"}
      /\ UNCHANGED <<settings, revoked, admin, faults, changes, history>>
  BY DEF Call
<1>3. CASE Done(w)
  BY <1>1, <1>2, <1>3, DoneStep
<1>4. ASSUME NEW next \in Following(request[w].at), next # "idle",
             With(w, [request[w] EXCEPT
                        !.at = next,
                        !.call = IF request[w].kind = "sync" THEN next ELSE @,
                        !.retried = IF request[w].kind = "sync" THEN FALSE ELSE @])
      PROVE  Inv'
  <2> DEFINE r == [request[w] EXCEPT
                        !.at = next,
                        !.call = IF request[w].kind = "sync" THEN next ELSE @,
                        !.retried = IF request[w].kind = "sync" THEN FALSE ELSE @]
  <2>1. /\ next \in Calling
        /\ request[w].at \in {"close", "accept"} => next = "accept"
    BY <1>2, <1>4 DEF Following, Calling
  <2>2. r \in RequestType
    BY <1>1, <2>1 DEF RequestType, Places
  <2>3. r.at = next /\ r.env = request[w].env /\ r.shown = request[w].shown
    BY <1>1 DEF RequestType
  <2>4. next \notin Authenticating /\ request[w].at # "idle"
    BY <1>2, <2>1 DEF Calling, Authenticating
  <2>5. Right(r)
    BY <2>3, <2>4 DEF Inv, SessionInv, Right
  <2>6. r.at \in {"close", "accept", "idle"} \/ copies[w] = 0 \/ misread[w]
    BY <2>1, <2>3, <2>4 DEF Inv, SessionInv, SentOnce
  <2>7. request' = [request EXCEPT ![w] = r]
    BY <1>4 DEF With
  <2> HIDE DEF r
  <2>8. QED
    BY <1>1, <1>2, <2>2, <2>5, <2>6, <2>7, PlainStep
<1>5. QED
  BY <1>3, <1>4 DEF Call

\* The invoice goes to KSeF in this step.
LEMMA SendInvoiceKeeps ==
  ASSUME Inv, NEW w \in Requests, SendInvoice(w)
  PROVE  Inv'
<1> USE DEF settings, history
<1> DEFINE r == [request[w] EXCEPT !.at = "close"]
<1>1. request[w] \in RequestType /\ faults \in Nat /\ strayed \in BOOLEAN
  BY Typed DEF Inv
<1>2. /\ request[w].at = "send" /\ request' = [request EXCEPT ![w] = r]
      /\ copies' = [copies EXCEPT ![w] = @ + 1]
      /\ UNCHANGED <<credential, company, session, revoked, admin, faults, changes, strayed,
                     crossed, misread>>
  BY DEF SendInvoice, KsefAnswers, Goto, With
<1>3. r \in RequestType /\ r.at = "close" /\ r.env = request[w].env /\ r.shown = request[w].shown
  BY <1>1, GotoIsTyped DEF RequestType, Places, Calling
<1>4. Right(r)
  BY <1>2, <1>3 DEF Inv, SessionInv, Right, Authenticating
<1>5. copies[w] \in Nat /\ (copies[w] = 0 \/ misread[w])
  BY <1>2 DEF Inv, SessionInv, SentOnce, SessionTypeOK
<1>6. /\ copies' \in [Requests -> Nat] /\ misread' \in [Requests -> BOOLEAN]
      /\ \A v \in Requests \ {w} : copies'[v] = copies[v] /\ misread'[v] = misread[v]
      /\ copies'[w] = copies[w] + 1
  BY <1>2, <1>5 DEF Inv, SessionTypeOK
<1>7. SentOnce(r, copies'[w], misread'[w])
  BY <1>2, <1>3, <1>5, <1>6 DEF SentOnce
<1> HIDE DEF r
<1>8. QED
  BY <1>1, <1>2, <1>3, <1>4, <1>6, <1>7, RequestStep

-----------------------------------------------------------------------------
(***************************************************************************)
(* Failures                                                                *)
(***************************************************************************)
\* The request that authenticates anew.
LEMMA AgainIsRight ==
  ASSUME Inv, NEW w \in Requests, request[w].at # "idle",
         NEW r, r = [request[w] EXCEPT !.at = "load", !.retried = TRUE]
  PROVE  r \in RequestType /\ r.at = "load" /\ Right(r)
<1>1. request[w] \in RequestType
  BY Typed DEF Inv
<1>2. r \in RequestType
  BY <1>1 DEF RequestType, Places
<1>3. r.at = "load" /\ r.env = request[w].env /\ r.shown = request[w].shown
  BY <1>1 DEF RequestType
<1>4. Right(r)
  BY <1>3 DEF Inv, SessionInv, Right, Authenticating
<1>5. QED
  BY <1>2, <1>3, <1>4

\* A call that fails, or is refused for its access token.
LEMMA FailureKeeps ==
  ASSUME Inv, NEW w \in Requests, CallFails(w) \/ Unauthorized(w)
  PROVE  Inv'
<1> USE DEF settings, history
<1>1. /\ request[w] \in RequestType /\ faults' \in Nat /\ strayed' \in BOOLEAN
      /\ UNCHANGED <<settings, revoked, admin, changes, history>>
  BY Typed DEF Inv, CallFails, Unauthorized, Fault
<1>2. CASE Done(w)
  BY <1>1, <1>2, DoneStep
<1>3. CASE CallFails(w) /\ request[w].at = "close" /\ Goto(w, "accept")
  BY <1>1, <1>3, GotoStep DEF Places, Calling, Authenticating
<1>4. CASE Unauthorized(w) /\ request' = [request EXCEPT ![w] =
                                  [request[w] EXCEPT !.at = "load", !.retried = TRUE]]
  <2> DEFINE r == [request[w] EXCEPT !.at = "load", !.retried = TRUE]
  <2>1. request[w].at \in Calling \ {"close", "accept"} /\ request[w].at # "idle"
    BY <1>4 DEF Unauthorized, Calling
  <2>2. copies[w] = 0 \/ misread[w]
    BY <2>1 DEF Inv, SessionInv, SentOnce
  <2>3. request' = [request EXCEPT ![w] = r]
    BY <1>4
  <2>4. r \in RequestType /\ Right(r)
    BY <2>1, AgainIsRight
  <2> HIDE DEF r
  <2>5. QED
    BY <1>1, <2>2, <2>3, <2>4, PlainStep
<1>5. QED
  BY <1>2, <1>3, <1>4 DEF CallFails, Unauthorized, Reauthenticate, With

\* The answer to an invoice that was sent is lost.
LEMMA AnswerLostKeeps ==
  ASSUME Inv, NEW w \in Requests, NEW text \in {"has401", "plain"}, AnswerLost(w, text)
  PROVE  Inv'
<1> USE DEF settings, history
<1>1. /\ request[w] \in RequestType /\ faults' \in Nat /\ strayed' \in BOOLEAN
      /\ request[w].at = "send" /\ request[w].at # "idle"
      /\ UNCHANGED <<credential, company, session, revoked, admin, changes, strayed, crossed>>
      /\ copies' = [copies EXCEPT ![w] = @ + 1]
      /\ misread' = [misread EXCEPT ![w] = @ \/ text = "has401"]
  BY Typed DEF Inv, AnswerLost, Fault
<1>2. copies[w] \in Nat /\ misread[w] \in BOOLEAN /\ (copies[w] = 0 \/ misread[w])
  BY <1>1 DEF Inv, SessionInv, SentOnce, SessionTypeOK
<1>3. /\ copies' \in [Requests -> Nat] /\ misread' \in [Requests -> BOOLEAN]
      /\ \A v \in Requests \ {w} : copies'[v] = copies[v] /\ misread'[v] = misread[v]
      /\ copies'[w] = copies[w] + 1
      /\ misread'[w] = (misread[w] \/ text = "has401")
  BY <1>1, <1>2 DEF Inv, SessionTypeOK
<1>4. CASE Done(w)
  <2> DEFINE r == [NoRequest EXCEPT !.active = request[w].active]
  <2>1. r \in RequestType /\ request' = [request EXCEPT ![w] = r]
    BY <1>1, <1>4, DoneIsTyped DEF Done, With
  <2>2. r.at = "idle"
    BY DEF NoRequest
  <2>3. Right(r) /\ SentOnce(r, copies'[w], misread'[w])
    BY <1>2, <1>3, <2>2 DEF Right, SentOnce, Authenticating
  <2> HIDE DEF r
  <2>4. QED
    BY <1>1, <1>3, <2>1, <2>3, RequestStep
<1>5. CASE text = "has401" /\ request' = [request EXCEPT ![w] =
                                  [request[w] EXCEPT !.at = "load", !.retried = TRUE]]
  <2> DEFINE r == [request[w] EXCEPT !.at = "load", !.retried = TRUE]
  <2>1. request' = [request EXCEPT ![w] = r]
    BY <1>5
  <2>2. r \in RequestType /\ Right(r)
    BY <1>1, AgainIsRight
  <2> HIDE DEF r
  <2>3. SentOnce(r, copies'[w], misread'[w])
    BY <1>3, <1>5 DEF SentOnce
  <2>4. QED
    BY <1>1, <1>3, <2>1, <2>2, <2>3, RequestStep
<1>6. QED
  BY <1>4, <1>5 DEF AnswerLost, LooksLikeUnauthorized, Reauthenticate, With

-----------------------------------------------------------------------------
(***************************************************************************)
(* Settings                                                                *)
(***************************************************************************)
\* A credential that is saved ends the session of the one before it, and marks
\* the authentications that run with that one.
LEMMA SavedKeeps ==
  ASSUME Inv, NEW e \in Environments, NEW t \in Tokens \cup {NoToken}, Own(t, e), Saved(e, t),
         UNCHANGED <<revoked, faults, strayed, copies, misread>>, changes' \in Nat,
         crossed' \in BOOLEAN, crossed => crossed',
         company' \in [env : Environments, token : Tokens \cup {NoToken}],
         crossed' \/ Own(company'.token, company'.env),
         admin' \in [Admins -> ChangeType],
         \A a \in Admins : admin'[a].at # "idle" => Own(admin'[a].token, admin'[a].env)
  PROVE  Inv'
<1>1. /\ credential' = [credential EXCEPT ![e] = t] /\ session' = [session EXCEPT ![e] = NoSession]
      /\ credential \in [Environments -> Tokens \cup {NoToken}]
      /\ session \in [Environments -> SessionType] /\ request \in [Requests -> RequestType]
  BY Typed DEF Saved, SessionsWithout, Stored, Inv
<1>2. \A w \in Requests :
          /\ request'[w] \in RequestType
          /\ request'[w].at = request[w].at /\ request'[w].env = request[w].env
          /\ request'[w].shown = request[w].shown /\ request'[w].token = request[w].token
          /\ IF request[w].at \in Authenticating /\ request[w].env = e
             THEN request'[w].late ELSE request'[w].late = request[w].late
  <2> SUFFICES ASSUME NEW w \in Requests
               PROVE  /\ request'[w] \in RequestType
                      /\ request'[w].at = request[w].at /\ request'[w].env = request[w].env
                      /\ request'[w].shown = request[w].shown
                      /\ request'[w].token = request[w].token
                      /\ IF request[w].at \in Authenticating /\ request[w].env = e
                         THEN request'[w].late ELSE request'[w].late = request[w].late
    OBVIOUS
  <2>1. request[w] \in RequestType
    BY <1>1
  <2>2. request'[w] = IF request[w].at \in Authenticating /\ request[w].env = e
                      THEN [request[w] EXCEPT !.late = TRUE] ELSE request[w]
    BY DEF Saved
  <2>3. CASE request[w].at \in Authenticating /\ request[w].env = e
    BY <2>1, <2>2, <2>3 DEF RequestType
  <2>4. CASE ~(request[w].at \in Authenticating /\ request[w].env = e)
    BY <2>1, <2>2, <2>4
  <2>5. QED
    BY <2>3, <2>4
<1>3. request' \in [Requests -> RequestType]
  BY <1>2 DEF Saved
<1>4. credential' \in Stored /\ session' \in [Environments -> SessionType]
  BY <1>1, NothingIsTyped DEF Stored
<1>5. SessionTypeOK'
  BY <1>3, <1>4, Typed DEF Inv, SessionTypeOK, RequestType, SessionType, ChangeType, Places
<1>6. \A w \in Requests :
          /\ request'[w].at \in Authenticating =>
                /\ credential'[request'[w].env] # NoToken =>
                      request'[w].token = credential'[request'[w].env] \/ request'[w].late
                /\ crossed' \/ (request'[w].token # NoToken
                                  /\ EnvironmentOf[request'[w].token] = request'[w].env)
          /\ request'[w].at # "idle" => request'[w].env = request'[w].shown
  BY <1>1, <1>2 DEF Inv, SessionInv, Right, Follows
<1>7. \A w \in Requests : SentOnce(request'[w], copies[w], misread[w])
  BY <1>2 DEF Inv, SessionInv, SentOnce
<1>8. \A d \in Environments : Own(credential'[d], d)
  BY <1>1 DEF Inv, SessionInv, Own
<1>9. \A d \in Environments : session'[d] # NoSession /\ credential'[d] # NoToken =>
          session'[d].token = credential'[d] \/ session'[d].late
  BY <1>1 DEF Inv, SessionInv, Follows
<1>10. SessionInv'
  BY <1>6, <1>7, <1>8, <1>9 DEF Inv, SessionInv, Right, SentOnce, Own, Follows
<1>11. QED
  BY <1>5, <1>10 DEF Inv

\* A change that leaves the credentials, the sessions and the requests alone.
LEMMA SettingStep ==
  ASSUME Inv, UNCHANGED <<credential, session, request, faults, history>>,
         company' \in [env : Environments, token : Tokens \cup {NoToken}],
         crossed \/ Own(company'.token, company'.env),
         revoked' \subseteq Tokens, changes' \in Nat, admin' \in [Admins -> ChangeType],
         \A a \in Admins : admin'[a].at # "idle" => Own(admin'[a].token, admin'[a].env)
  PROVE  Inv'
<1> USE DEF history
<1>1. SessionTypeOK'
  BY Typed DEF Inv, SessionTypeOK, RequestType, SessionType, ChangeType, Places
<1>2. SessionInv'
  BY DEF Inv, SessionInv, Right, SentOnce, Follows, Own
<1>3. QED
  BY <1>1, <1>2 DEF Inv

\* The call of an administrator that begins, or ends.
LEMMA ChangeKeeps ==
  ASSUME Inv, NEW a \in Admins, NEW c \in ChangeType, Change(a, c),
         c.at # "idle" => Own(c.token, c.env)
  PROVE  /\ admin' \in [Admins -> ChangeType]
         /\ \A b \in Admins : admin'[b].at # "idle" => Own(admin'[b].token, admin'[b].env)
BY Typed DEF Inv, SessionInv, Change

LEMMA SettingsKeep ==
  ASSUME Inv, NEW a \in Admins,
         \/ CommitCredential(a) \/ WriteDefault(a)
         \/ \E e \in Environments :
                \/ ReadCredential(a, e)
                \/ \E t \in Pasted(e) : SaveCredential(a, e, t) \/ SaveSettings(a, e, t)
  PROVE  Inv'
<1> USE DEF settings, history
<1>1. /\ changes \in Nat /\ faults \in Nat /\ crossed \in BOOLEAN /\ revoked \subseteq Tokens
      /\ company \in [env : Environments, token : Tokens \cup {NoToken}]
      /\ admin \in [Admins -> ChangeType] /\ admin[a] \in ChangeType
      /\ credential \in [Environments -> Tokens \cup {NoToken}]
      /\ \A b \in Admins : admin[b].at # "idle" => Own(admin[b].token, admin[b].env)
      /\ \A e \in Environments : Own(credential[e], e)
      /\ crossed \/ Own(company.token, company.env)
  BY Typed DEF Inv, SessionInv, Stored
<1>2. NoChange \in ChangeType /\ NoChange.at = "idle"
  BY NothingIsTyped DEF NoChange
<1>3. CASE CommitCredential(a)
  <2> DEFINE c == admin[a]
  <2>1. /\ c.at = "saving" /\ Saved(c.env, c.token) /\ Change(a, NoChange)
        /\ company' = IF c.isDefault THEN [company EXCEPT !.token = c.token] ELSE company
        /\ crossed' = (crossed \/ (c.isDefault /\ company.env # c.env))
        /\ UNCHANGED <<revoked, faults, changes, strayed, copies, misread>>
    BY <1>3 DEF CommitCredential
  <2>2. c.env \in Environments /\ c.isDefault \in BOOLEAN /\ c.token \in Tokens \cup {NoToken}
    BY <1>1 DEF ChangeType
  <2>3. Own(c.token, c.env)
    BY <1>1, <2>1
  <2>4. /\ company' \in [env : Environments, token : Tokens \cup {NoToken}]
        /\ crossed' \/ Own(company'.token, company'.env)
    BY <1>1, <2>1, <2>2, <2>3
  <2>5. /\ admin' \in [Admins -> ChangeType]
        /\ \A b \in Admins : admin'[b].at # "idle" => Own(admin'[b].token, admin'[b].env)
    BY <1>2, <2>1, ChangeKeeps
  <2> HIDE DEF c
  <2>6. crossed' \in BOOLEAN /\ (crossed => crossed') /\ changes' \in Nat
    BY <1>1, <2>1
  <2>7. QED
    BY <2>1, <2>2, <2>3, <2>4, <2>5, <2>6, SavedKeeps
<1>4. CASE WriteDefault(a)
  <2>1. /\ admin[a].at # "idle" /\ company' = [env |-> admin[a].env, token |-> admin[a].token]
        /\ Change(a, NoChange)
        /\ UNCHANGED <<credential, session, revoked, request, faults, changes, history>>
    BY <1>4 DEF WriteDefault
  <2>2. /\ company' \in [env : Environments, token : Tokens \cup {NoToken}]
        /\ Own(company'.token, company'.env)
    BY <1>1, <2>1 DEF ChangeType
  <2>3. QED
    BY <1>1, <1>2, <2>1, <2>2, ChangeKeeps, SettingStep
<1>5. ASSUME NEW e \in Environments, ReadCredential(a, e)
      PROVE  Inv'
  <2> DEFINE c == [at |-> "switching", env |-> e, token |-> credential[e], isDefault |-> FALSE]
  <2>1. c \in ChangeType /\ Own(c.token, c.env)
    BY <1>1 DEF ChangeType
  <2>2. Change(a, c) /\ changes' = changes + 1
        /\ UNCHANGED <<credential, company, session, revoked, request, faults, history>>
    BY <1>5 DEF ReadCredential, Begin
  <2> HIDE DEF c
  <2>3. QED
    BY <1>1, <2>1, <2>2, ChangeKeeps, SettingStep
<1>6. ASSUME NEW e \in Environments, NEW t \in Pasted(e), SaveCredential(a, e, t)
      PROVE  Inv'
  <2> DEFINE c == [at |-> "saving", env |-> e, token |-> t, isDefault |-> company.env = e]
  <2>1. c \in ChangeType /\ Own(c.token, c.env)
    BY DEF ChangeType, Pasted, Own
  <2>2. Change(a, c) /\ changes' = changes + 1
        /\ UNCHANGED <<credential, company, session, revoked, request, faults, history>>
    BY <1>6 DEF SaveCredential, Begin
  <2> HIDE DEF c
  <2>3. QED
    BY <1>1, <2>1, <2>2, ChangeKeeps, SettingStep
<1>7. ASSUME NEW e \in Environments, NEW t \in Pasted(e), SaveSettings(a, e, t)
      PROVE  Inv'
  <2>1. t \in Tokens /\ EnvironmentOf[t] = e /\ Own(t, e)
    BY DEF Pasted, Own
  <2>2. /\ Saved(e, t) /\ company' = [env |-> e, token |-> t] /\ changes' = changes + 1
        /\ UNCHANGED <<revoked, admin, faults, history>>
    BY <1>7 DEF SaveSettings, Begin
  <2>3. /\ company' \in [env : Environments, token : Tokens \cup {NoToken}]
        /\ Own(company'.token, company'.env)
    BY <2>1, <2>2 DEF Own
  <2>4. changes' \in Nat /\ crossed' \in BOOLEAN /\ admin' \in [Admins -> ChangeType]
        /\ \A b \in Admins : admin'[b].at # "idle" => Own(admin'[b].token, admin'[b].env)
    BY <1>1, <2>2
  <2>5. QED
    BY <2>1, <2>2, <2>3, <2>4, SavedKeeps
<1>8. QED
  BY <1>3, <1>4, <1>5, <1>6, <1>7

LEMMA SessionExpiresKeeps ==
  ASSUME Inv, NEW e \in Environments, SessionExpires(e)
  PROVE  Inv'
<1> USE DEF history
<1>1. session \in [Environments -> SessionType]
  BY Typed DEF Inv
<1>2. /\ session[e].fresh /\ session' = [session EXCEPT ![e].fresh = FALSE]
      /\ UNCHANGED <<credential, company, revoked, request, admin, faults, changes, history>>
  BY DEF SessionExpires
<1>3. session' \in [Environments -> SessionType]
  BY <1>1, <1>2 DEF SessionType
<1>4. SessionTypeOK'
  BY <1>2, <1>3, Typed DEF Inv, SessionTypeOK, RequestType, SessionType, Places
<1>5. \A d \in Environments :
          session'[d].token = session[d].token /\ session'[d].late = session[d].late
  BY <1>1, <1>2 DEF SessionType
<1>6. \A d \in Environments : session'[d] # NoSession => session[d] # NoSession
  BY <1>1, <1>2, NothingIsTyped DEF NoSession, SessionType
<1>7. SessionInv'
  BY <1>2, <1>5, <1>6 DEF Inv, SessionInv, Right, SentOnce, Follows, Own
<1>8. QED
  BY <1>4, <1>7 DEF Inv

-----------------------------------------------------------------------------
(***************************************************************************)
(* Theorems                                                                *)
(***************************************************************************)
LEMMA NextInv == Inv /\ [SessionNext]_sessionVars => Inv'
<1> SUFFICES ASSUME Inv, [SessionNext]_sessionVars PROVE Inv'
  OBVIOUS
<1>1. ASSUME NEW w \in Requests, Handler(w)
      PROVE  Inv'
  BY <1>1, LookUpKeeps, AuthenticationKeeps, StoreSessionKeeps, CallKeeps, SendInvoiceKeeps
     DEF Handler
<1>2. ASSUME NEW w \in Requests,
             OpenPage(w) \/ Confirm(w) \/ Cancel(w) \/ \E kind \in Kinds : Press(w, kind)
      PROVE  Inv'
  BY <1>2, PageKeeps
<1>3. ASSUME NEW w \in Requests,
             \/ CallFails(w) \/ Unauthorized(w)
             \/ \E text \in {"has401", "plain"} : AnswerLost(w, text)
      PROVE  Inv'
  BY <1>3, FailureKeeps, AnswerLostKeeps
<1>4. ASSUME NEW t \in Tokens, Revoke(t)
      PROVE  Inv'
  <2>1. /\ changes' \in Nat /\ revoked' \subseteq Tokens
        /\ UNCHANGED <<credential, session, request, faults, history, company, admin>>
    BY <1>4, Typed DEF Inv, Revoke, settings
  <2>2. QED
    BY <2>1, SettingStep, Typed DEF Inv, SessionInv
<1>5. CASE UNCHANGED sessionVars
  <2>1. /\ changes' \in Nat /\ revoked' \subseteq Tokens
        /\ UNCHANGED <<credential, session, request, faults, history, company, admin>>
    BY <1>5, Typed DEF Inv, sessionVars, settings
  <2>2. QED
    BY <2>1, SettingStep, Typed DEF Inv, SessionInv
<1>6. QED
  BY <1>1, <1>2, <1>3, <1>4, <1>5, SettingsKeep, SessionExpiresKeeps DEF SessionNext

LEMMA InvHolds == SessionSpec => []Inv
<1>1. QED
  BY InitInv, NextInv, PTL DEF SessionSpec

\* Every variable stays in its domain.
THEOREM SessionTypeCorrect == SessionSpec => []SessionTypeOK
<1>1. Inv => SessionTypeOK
  BY DEF Inv
<1>2. QED
  BY <1>1, InvHolds, PTL

\* A session that the table keeps was made with the credential in force, or by an
\* authentication during which that credential was saved; and no token leaves for
\* another environment than its own unless a save crossed a change of the default.
THEOREM SessionsFollowCredentials == SessionSpec => []SessionFollowsCredential
<1>1. Inv => SessionFollowsCredential
  BY DEF Inv, SessionInv, Follows, SessionFollowsCredential
<1>2. QED
  BY <1>1, InvHolds, PTL

\* A request runs in the environment that its page showed when its button was pressed.
THEOREM RequestsRunWherePressed == SessionSpec => []RunsWhereItWasPressed
<1>1. Inv => RunsWhereItWasPressed
  BY DEF Inv, SessionInv, Right, RunsWhereItWasPressed
<1>2. QED
  BY <1>1, InvHolds, PTL

\* A request sends its invoice a second time only if the loss of the first answer
\* looked like a 401.
THEOREM SecondCopiesNeedMisreading == SessionSpec => []SecondCopyOnlyFromMisreading
<1>1. Inv => SecondCopyOnlyFromMisreading
  <2> SUFFICES ASSUME Inv, NEW w \in Requests, copies[w] > 1, ~misread[w]
               PROVE  FALSE
    BY DEF SecondCopyOnlyFromMisreading
  <2>1. copies[w] \in Nat
    BY DEF Inv, SessionTypeOK
  <2>2. QED
    BY <2>1 DEF Inv, SessionInv, SentOnce
<1>2. QED
  BY <1>1, InvHolds, PTL
=============================================================================
