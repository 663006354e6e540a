---------------------------- MODULE KsefSubmission ----------------------------
(***************************************************************************)
(* Submission of issued outgoing invoices to KSeF, the national e-invoice  *)
(* system: apps/api/src/services/ksef.service.ts, the three routes of      *)
(* apps/api/src/routes/invoices/outgoing.ts that call it, and the hourly   *)
(* cron job of apps/api/src/lib/cron.ts.                                   *)
(*                                                                         *)
(* A worker is one call of submitInvoiceToKsef, from the route or from the *)
(* cron job; a poller is one call of pollKsefSubmissionStatus, from the    *)
(* status route, the reconciliation route or the cron job.  They share the *)
(* database only.  Every database statement or transaction is one action,  *)
(* and so is every exchange with KSeF; anything may happen in between.     *)
(*                                                                         *)
(* An invoice belongs to one environment, and every statement below checks *)
(* that environment, so it does not appear here.                           *)
(***************************************************************************)
EXTENDS Naturals, FiniteSets

CONSTANTS
    Invoices,       \* issued invoices, with a number and complete data
    NoInvoice,      \* what an idle process works on
    Workers,        \* concurrent calls of submitInvoiceToKsef
    Pollers,        \* concurrent calls of pollKsefSubmissionStatus
    MaxAttempts,    \* bound: KsefSubmission rows per invoice
    AuthLookalike   \* may the error text of a lost reply contain "401"?

ASSUME NoInvoiceAssumption == NoInvoice \notin Invoices
ASSUME MaxAttemptsAssumption == MaxAttempts \in Nat \ {0}
ASSUME AuthLookalikeAssumption == AuthLookalike \in BOOLEAN

VARIABLES
    \* Invoice and InvoiceKsefState, by invoice
    status,     \* InvoiceKsefState.status; a missing row reads as NOT_SENT
    last,       \* InvoiceKsefState.lastSubmissionId, 0 for null
    legacy,     \* Invoice.ksefStatus, the column kept for the rollout
    count,      \* number of KsefSubmission rows
    \* KsefSubmission, by invoice and attemptNumber
    subStatus,  \* status, "NONE" where there is no row
    started,    \* externalMutationStarted
    refs,       \* sessionReferenceNumber and referenceNumber
    number,     \* is ksefReference set?
    \* Calls of submitInvoiceToKsef
    pc, job, att, try,
    known,      \* did the client learn the KSeF number while it polled?
    \* Calls of pollKsefSubmissionStatus
    ppc, pjob, patt, prefs,
    \* What became of each transmission, outside the program
    ksef

invoiceRow == <<status, last, legacy, count>>
submissionRow == <<subStatus, started, refs, number>>
call == <<pc, job, att, try, known>>
poll == <<ppc, pjob, patt, prefs>>
vars == <<invoiceRow, submissionRow, call, poll, ksef>>

-----------------------------------------------------------------------------
Attempts == 1..MaxAttempts
Tries == {1, 2}                     \* the second one after re-authentication
Keys == Attempts \X Tries           \* one key per possible transmission
NoRefs == <<0, 0>>                  \* both references are null

InvoiceKsefStatus ==
    {"NOT_SENT", "OFFLINE_QUEUED", "SUBMITTED", "ACCEPTED", "REJECTED"}
KsefSubmissionStatus ==
    {"NONE", "PENDING", "SUBMITTED", "ACCEPTED", "REJECTED", "ERROR"}

Outcomes == {"none", "flying", "processing", "accepted", "rejected"}
Received == {"processing", "accepted", "rejected"}

\* Where a call is.  This also tells the value of its local variable
\* externalMutationStarted: up in the places of Mutating.
Mutating == {"sending", "awaiting", "unauth", "replied", "recorded", "ambiguous"}
WorkerPc == {"idle", "submit", "retry", "session", "start", "reauth", "failed"} \cup Mutating
PollerPc == {"idle", "read", "restore", "ask", "accepted", "unnumbered", "rejected"}

Init ==
    /\ status = [i \in Invoices |-> "NOT_SENT"]
    /\ last = [i \in Invoices |-> 0]
    /\ legacy = [i \in Invoices |-> "NOT_SENT"]
    /\ count = [i \in Invoices |-> 0]
    /\ subStatus = [i \in Invoices |-> [a \in Attempts |-> "NONE"]]
    /\ started = [i \in Invoices |-> [a \in Attempts |-> FALSE]]
    /\ refs = [i \in Invoices |-> [a \in Attempts |-> NoRefs]]
    /\ number = [i \in Invoices |-> [a \in Attempts |-> FALSE]]
    /\ pc = [w \in Workers |-> "idle"]
    /\ job = [w \in Workers |-> NoInvoice]
    /\ att = [w \in Workers |-> 0]
    /\ try = [w \in Workers |-> 1]
    /\ known = [w \in Workers |-> FALSE]
    /\ ppc = [p \in Pollers |-> "idle"]
    /\ pjob = [p \in Pollers |-> NoInvoice]
    /\ patt = [p \in Pollers |-> 0]
    /\ prefs = [p \in Pollers |-> NoRefs]
    /\ ksef = [i \in Invoices |-> [k \in Keys |-> "none"]]

-----------------------------------------------------------------------------
(***************************************************************************)
(* The environment: KSeF receives what was transmitted, late or never, and *)
(* decides on what it received.                                            *)
(***************************************************************************)
Receive(i, k) ==
    /\ ksef[i][k] = "flying"
    /\ ksef' = [ksef EXCEPT ![i][k] = "processing"]
    /\ UNCHANGED <<invoiceRow, submissionRow, call, poll>>

Decide(i, k) ==
    /\ ksef[i][k] = "processing"
    /\ \E v \in {"accepted", "rejected"} : ksef' = [ksef EXCEPT ![i][k] = v]
    /\ UNCHANGED <<invoiceRow, submissionRow, call, poll>>

-----------------------------------------------------------------------------
(***************************************************************************)
(* submitInvoiceToKsef                                                     *)
(***************************************************************************)
Move(w, from, to) ==
    /\ pc[w] = from
    /\ pc' = [pc EXCEPT ![w] = to]

Finish(w) ==
    /\ pc' = [pc EXCEPT ![w] = "idle"]
    /\ job' = [job EXCEPT ![w] = NoInvoice]
    /\ att' = [att EXCEPT ![w] = 0]
    /\ try' = [try EXCEPT ![w] = 1]
    /\ known' = [known EXCEPT ![w] = FALSE]

\* The submit-ksef route reads the invoice before it calls the service.
ReadForSubmit(w, i) ==
    /\ Move(w, "idle", "submit")
    /\ status[i] = "NOT_SENT"
    /\ job' = [job EXCEPT ![w] = i]
    /\ UNCHANGED <<invoiceRow, submissionRow, att, try, known, poll, ksef>>

\* retryOfflineQueue reads the queue and skips what may have been sent.
SkippedWithHistory(i) == last[i] # 0        \* mutant: the outcome is not read

Skipped(i) ==
    /\ last[i] # 0
    /\ subStatus[i][last[i]] = "PENDING" \/ started[i][last[i]]

ReadForRetry(w, i) ==
    /\ Move(w, "idle", "retry")
    /\ status[i] = "OFFLINE_QUEUED"
    /\ ~Skipped(i)
    /\ job' = [job EXCEPT ![w] = i]
    /\ UNCHANGED <<invoiceRow, submissionRow, att, try, known, poll, ksef>>

\* The last attempt failed before anything was sent.
Retryable(i) ==
    /\ status[i] = "OFFLINE_QUEUED"
    /\ last[i] # 0
    /\ subStatus[i][last[i]] = "ERROR"
    /\ ~started[i][last[i]]

\* Mutants: the snapshot of the queue is trusted; a rejected invoice may go
\* out again.
ClaimableUnchecked(i, retry) ==
    status[i] = "NOT_SENT" \/ (retry /\ status[i] = "OFFLINE_QUEUED")

ClaimableAfterRejection(i, retry) == status[i] \in {"NOT_SENT", "REJECTED"}

\* What the first transaction rechecks under the lock on the invoice row.
Claimable(i, retry) == status[i] = "NOT_SENT" \/ (retry /\ Retryable(i))

Claim(w) ==
    LET i == job[w]
        a == count[i] + 1
    IN  /\ pc[w] \in {"submit", "retry"}
        /\ Claimable(i, pc[w] = "retry")
        /\ a \in Attempts                       \* bound MaxAttempts
        /\ count' = [count EXCEPT ![i] = a]
        /\ subStatus' = [subStatus EXCEPT ![i][a] = "PENDING"]
        /\ status' = [status EXCEPT ![i] = "OFFLINE_QUEUED"]
        /\ last' = [last EXCEPT ![i] = a]
        /\ pc' = [pc EXCEPT ![w] = "session"]
        /\ att' = [att EXCEPT ![w] = a]
        /\ UNCHANGED <<legacy, started, refs, number, job, try, known, poll, ksef>>

\* KsefSubmissionConflictError.
Conflict(w) ==
    /\ pc[w] \in {"submit", "retry"}
    /\ ~Claimable(job[w], pc[w] = "retry")
    /\ Finish(w)
    /\ UNCHANGED <<invoiceRow, submissionRow, poll, ksef>>

\* getOrCreateKsefSession, and initKsefSession after a 401.
SessionReady(w) ==
    /\ \/ Move(w, "session", "start") /\ UNCHANGED try
       \/ Move(w, "reauth", "start") /\ try' = [try EXCEPT ![w] = 2]
    /\ UNCHANGED <<invoiceRow, submissionRow, job, att, known, poll, ksef>>

SessionFails(w) ==
    /\ Move(w, "session", "failed") \/ Move(w, "reauth", "failed")
    /\ UNCHANGED <<invoiceRow, submissionRow, job, att, try, known, poll, ksef>>

\* externalMutationStarted goes to the database before anything is sent.
MarkStarted(w) ==
    /\ Move(w, "start", "sending")
    /\ started' = [started EXCEPT ![job[w]][att[w]] = TRUE]
    /\ UNCHANGED <<invoiceRow, subStatus, refs, number, job, att, try, known, poll, ksef>>

\* The invoice leaves the program.
Transmit(w) ==
    /\ Move(w, "sending", "awaiting")
    /\ ksef' = [ksef EXCEPT ![job[w]][<<att[w], try[w]>>] = "flying"]
    /\ UNCHANGED <<invoiceRow, submissionRow, job, att, try, known, poll>>

\* Opening the KSeF session fails, or KSeF refuses the request: with a 401
\* on the first try the program authenticates again, otherwise it gives up.
SendRefused(w) ==
    /\ \/ try[w] = 1 /\ Move(w, "sending", "unauth")
       \/ Move(w, "sending", "ambiguous")
    /\ UNCHANGED <<invoiceRow, submissionRow, job, att, try, known, poll, ksef>>

\* KSeF returned the references; the client then closed the session and
\* polled a few times, so it may already know the KSeF number.
ReplyArrives(w) ==
    LET outcome == ksef[job[w]][<<att[w], try[w]>>]
    IN  /\ Move(w, "awaiting", "replied")
        /\ outcome \in Received
        /\ \E n \in BOOLEAN :
              /\ n => outcome = "accepted"
              /\ known' = [known EXCEPT ![w] = n]
        /\ UNCHANGED <<invoiceRow, submissionRow, job, att, try, poll, ksef>>

\* Mutant: every error of the first try counts as a 401.
ReplyLostIsUnauth(w) ==
    /\ Move(w, "awaiting", IF try[w] = 1 THEN "unauth" ELSE "ambiguous")
    /\ UNCHANGED <<invoiceRow, submissionRow, job, att, try, known, poll, ksef>>

\* The connection broke, or the answer was unusable.  The test for a 401 is
\* a search in the error text, which contains the URL and the response body.
ReplyLost(w) ==
    /\ \/ Move(w, "awaiting", "ambiguous")
       \/ AuthLookalike /\ try[w] = 1 /\ Move(w, "awaiting", "unauth")
    /\ UNCHANGED <<invoiceRow, submissionRow, job, att, try, known, poll, ksef>>

RevokeStarted(w) ==
    /\ Move(w, "unauth", "reauth")
    /\ started' = [started EXCEPT ![job[w]][att[w]] = FALSE]
    /\ UNCHANGED <<invoiceRow, subStatus, refs, number, job, att, try, known, poll, ksef>>

\* Second transaction: the references are stored.
RecordSubmitted(w) ==
    LET i == job[w]
        a == att[w]
    IN  /\ Move(w, "replied", "recorded")
        /\ subStatus' = [subStatus EXCEPT ![i][a] = "SUBMITTED"]
        /\ refs' = [refs EXCEPT ![i][a] = <<a, try[w]>>]
        /\ status' = [status EXCEPT ![i] = "SUBMITTED"]
        /\ last' = [last EXCEPT ![i] = a]
        /\ UNCHANGED <<legacy, count, started, number, job, att, try, known, poll, ksef>>

\* Third transaction, when the client already knows the KSeF number.
RecordAccepted(w) ==
    LET i == job[w]
        a == att[w]
    IN  /\ pc[w] = "recorded"
        /\ known[w]
        /\ subStatus' = [subStatus EXCEPT ![i][a] = "ACCEPTED"]
        /\ number' = [number EXCEPT ![i][a] = TRUE]
        /\ legacy' = [legacy EXCEPT ![i] = "ACCEPTED"]
        /\ status' = [status EXCEPT ![i] = "ACCEPTED"]
        /\ last' = [last EXCEPT ![i] = a]
        /\ Finish(w)
        /\ UNCHANGED <<count, started, refs, poll, ksef>>

\* Otherwise only the legacy column is written.
RecordLegacySubmitted(w) ==
    /\ pc[w] = "recorded"
    /\ ~known[w]
    /\ legacy' = [legacy EXCEPT ![job[w]] = "SUBMITTED"]
    /\ Finish(w)
    /\ UNCHANGED <<status, last, count, submissionRow, poll, ksef>>

\* A database statement inside the try block throws.
StatementFails(w) ==
    /\ \/ Move(w, "start", "failed")
       \/ \E from \in {"unauth", "replied", "recorded"} : Move(w, from, "ambiguous")
    /\ UNCHANGED <<invoiceRow, submissionRow, job, att, try, known, poll, ksef>>

\* The catch block: canRetrySafely is the negation of the local flag.
FailureStatus(mutating) ==
    IF mutating THEN [invoice |-> "SUBMITTED", submission |-> "PENDING"]
                ELSE [invoice |-> "OFFLINE_QUEUED", submission |-> "ERROR"]

RecordFailure(w) ==
    LET i == job[w]
        a == att[w]
        failure == FailureStatus(pc[w] = "ambiguous")
    IN  /\ pc[w] \in {"failed", "ambiguous"}
        /\ subStatus' = [subStatus EXCEPT ![i][a] = failure.submission]
        /\ legacy' = [legacy EXCEPT ![i] = failure.invoice]
        /\ status' = [status EXCEPT ![i] = failure.invoice]
        /\ last' = [last EXCEPT ![i] = a]
        /\ Finish(w)
        /\ UNCHANGED <<count, started, refs, number, poll, ksef>>

\* The process stops, or the transaction of the catch block fails too.
WorkerDies(w) ==
    /\ pc[w] # "idle"
    /\ Finish(w)
    /\ UNCHANGED <<invoiceRow, submissionRow, poll, ksef>>

-----------------------------------------------------------------------------
(***************************************************************************)
(* attachKsefSubmissionReferences, called by the reconciliation route,     *)
(* which then polls.  The operator copies the references of a transmission *)
(* that KSeF shows as received for this invoice.                           *)
(***************************************************************************)
Attachable(i) ==
    {a \in 1..count[i] : /\ subStatus[i][a] \in {"PENDING", "SUBMITTED", "ERROR"}
                         /\ ~number[i][a]}

StartPoll(p, i, a) ==
    /\ ppc[p] = "idle"
    /\ ppc' = [ppc EXCEPT ![p] = "read"]
    /\ pjob' = [pjob EXCEPT ![p] = i]
    /\ patt' = [patt EXCEPT ![p] = a]
    /\ UNCHANGED prefs

Attach(p, i, k) ==
    /\ ksef[i][k] \in Received
    /\ \E a \in Attachable(i) :
          /\ \A b \in Attachable(i) : b <= a        \* the latest of them
          /\ subStatus' = [subStatus EXCEPT ![i][a] = "SUBMITTED"]
          /\ refs' = [refs EXCEPT ![i][a] = k]
          /\ last' = [last EXCEPT ![i] = a]
          /\ StartPoll(p, i, a)
    /\ legacy' = [legacy EXCEPT ![i] = "SUBMITTED"]
    /\ status' = [status EXCEPT ![i] = "SUBMITTED"]
    /\ UNCHANGED <<count, started, number, call, ksef>>

(***************************************************************************)
(* pollKsefSubmissionStatus                                                *)
(***************************************************************************)
EndPoll(p) ==
    /\ ppc' = [ppc EXCEPT ![p] = "idle"]
    /\ pjob' = [pjob EXCEPT ![p] = NoInvoice]
    /\ patt' = [patt EXCEPT ![p] = 0]
    /\ prefs' = [prefs EXCEPT ![p] = NoRefs]

\* The ksef-status route polls the latest submission.
StatusRequest(p, i) ==
    /\ count[i] > 0
    /\ StartPoll(p, i, count[i])
    /\ UNCHANGED <<invoiceRow, submissionRow, call, ksef>>

\* reconcilePendingKsefSubmissions polls the PENDING rows with references;
\* on the others it writes an error message and nothing else.
CronPoll(p, i, a) ==
    /\ subStatus[i][a] = "PENDING"
    /\ refs[i][a] # NoRefs
    /\ StartPoll(p, i, a)
    /\ UNCHANGED <<invoiceRow, submissionRow, call, ksef>>

AcceptedInHistory(i) == \E a \in Attempts : subStatus[i][a] = "ACCEPTED" /\ number[i][a]

\* The submission and its invoice are read, and the history consulted.
PollRead(p) ==
    LET i == pjob[p]
        r == refs[i][patt[p]]
    IN  /\ ppc[p] = "read"
        /\ \/ /\ AcceptedInHistory(i)
              /\ legacy[i] # "ACCEPTED"
              /\ ppc' = [ppc EXCEPT ![p] = "restore"]
              /\ UNCHANGED <<pjob, patt, prefs>>
           \/ /\ \/ AcceptedInHistory(i) /\ legacy[i] = "ACCEPTED"
                 \/ ~AcceptedInHistory(i) /\ r = NoRefs
              /\ EndPoll(p)
           \/ /\ ~AcceptedInHistory(i)
              /\ r # NoRefs
              /\ ppc' = [ppc EXCEPT ![p] = "ask"]
              /\ prefs' = [prefs EXCEPT ![p] = r]
              /\ UNCHANGED <<pjob, patt>>
        /\ UNCHANGED <<invoiceRow, submissionRow, call, ksef>>

\* restoreAcceptedInvoiceStateFromSubmissionHistory writes the state row
\* only: neither lastSubmissionId nor the legacy column.
RestoreAccepted(p) ==
    /\ ppc[p] = "restore"
    /\ status' = [status EXCEPT ![pjob[p]] = "ACCEPTED"]
    /\ EndPoll(p)
    /\ UNCHANGED <<last, legacy, count, submissionRow, call, ksef>>

\* Mutant: whatever is not a 200 counts as a rejection.
AnswersTwoWay(outcome) ==
    IF outcome = "accepted" THEN {"accepted", "unnumbered"} ELSE {"rejected"}

\* KSeF answers with 100, 200, possibly without the KSeF number, or 400.
AnswersTo(outcome) ==
    CASE outcome = "accepted" -> {"accepted", "unnumbered"}
      [] outcome = "rejected" -> {"rejected"}
      [] OTHER -> {}

PollAnswered(p) ==
    LET answers == AnswersTo(ksef[pjob[p]][prefs[p]])
    IN  /\ ppc[p] = "ask"
        /\ \/ answers = {} /\ EndPoll(p)
           \/ /\ \E v \in answers : ppc' = [ppc EXCEPT ![p] = v]
              /\ UNCHANGED <<pjob, patt, prefs>>
        /\ UNCHANGED <<invoiceRow, submissionRow, call, ksef>>

PollStatus(answer) ==
    CASE answer = "accepted" -> "ACCEPTED"
      [] answer = "rejected" -> "REJECTED"
      [] OTHER -> "SUBMITTED"

\* The transaction that stores the answer, whatever happened since the read.
PollWrite(p) ==
    LET i == pjob[p]
        a == patt[p]
        new == PollStatus(ppc[p])
    IN  /\ ppc[p] \in {"accepted", "unnumbered", "rejected"}
        /\ subStatus' = [subStatus EXCEPT ![i][a] = new]
        /\ number' = [number EXCEPT ![i][a] = @ \/ new = "ACCEPTED"]
        /\ legacy' = [legacy EXCEPT ![i] = new]
        /\ status' = [status EXCEPT ![i] = new]
        /\ last' = [last EXCEPT ![i] = a]
        /\ EndPoll(p)
        /\ UNCHANGED <<count, started, refs, call, ksef>>

\* The request to KSeF or a statement fails, or the process stops.
PollerDies(p) ==
    /\ ppc[p] # "idle"
    /\ EndPoll(p)
    /\ UNCHANGED <<invoiceRow, submissionRow, call, ksef>>

-----------------------------------------------------------------------------
KsefNext == \E i \in Invoices, k \in Keys : Receive(i, k) \/ Decide(i, k)

WorkerStep(w) ==
    \/ Claim(w) \/ Conflict(w)
    \/ SessionReady(w) \/ SessionFails(w)
    \/ MarkStarted(w) \/ Transmit(w) \/ SendRefused(w)
    \/ ReplyArrives(w) \/ ReplyLost(w) \/ RevokeStarted(w)
    \/ RecordSubmitted(w) \/ RecordAccepted(w) \/ RecordLegacySubmitted(w)
    \/ StatementFails(w) \/ RecordFailure(w)

WorkerNext(w) ==
    \/ \E i \in Invoices : ReadForSubmit(w, i) \/ ReadForRetry(w, i)
    \/ WorkerStep(w)
    \/ WorkerDies(w)

PollerStep(p) == PollRead(p) \/ RestoreAccepted(p) \/ PollAnswered(p) \/ PollWrite(p)

PollerNext(p) ==
    \/ \E i \in Invoices, k \in Keys : Attach(p, i, k)
    \/ \E i \in Invoices : StatusRequest(p, i)
    \/ \E i \in Invoices, a \in Attempts : CronPoll(p, i, a)
    \/ PollerStep(p)
    \/ PollerDies(p)

Next ==
    \/ KsefNext
    \/ \E w \in Workers : WorkerNext(w)
    \/ \E p \in Pollers : PollerNext(p)

Spec == Init /\ [][Next]_vars

\* The API process keeps running its calls, the cron job fires hourly, and a
\* call is not killed every single time before its first transaction.
FairSpec ==
    /\ Spec
    /\ \A w \in Workers : WF_vars(WorkerStep(w))
    /\ \A p \in Pollers : WF_vars(PollerStep(p))
    /\ \A i \in Invoices : WF_vars(\E w \in Workers : ReadForRetry(w, i))
    /\ SF_vars(\E w \in Workers : Claim(w))

-----------------------------------------------------------------------------
(***************************************************************************)
(* Properties                                                              *)
(***************************************************************************)
\* Every column, row and call stays within the values the schema and the
\* code allow, whatever order the calls run in.
TypeOK ==
    /\ status \in [Invoices -> InvoiceKsefStatus]
    /\ last \in [Invoices -> Attempts \cup {0}]
    /\ legacy \in [Invoices -> InvoiceKsefStatus]
    /\ count \in [Invoices -> Attempts \cup {0}]
    /\ subStatus \in [Invoices -> [Attempts -> KsefSubmissionStatus]]
    /\ started \in [Invoices -> [Attempts -> BOOLEAN]]
    /\ refs \in [Invoices -> [Attempts -> Keys \cup {NoRefs}]]
    /\ number \in [Invoices -> [Attempts -> BOOLEAN]]
    /\ pc \in [Workers -> WorkerPc]
    /\ job \in [Workers -> Invoices \cup {NoInvoice}]
    /\ att \in [Workers -> Attempts \cup {0}]
    /\ try \in [Workers -> Tries]
    /\ known \in [Workers -> BOOLEAN]
    /\ ppc \in [Pollers -> PollerPc]
    /\ pjob \in [Pollers -> Invoices \cup {NoInvoice}]
    /\ patt \in [Pollers -> Attempts \cup {0}]
    /\ prefs \in [Pollers -> Keys \cup {NoRefs}]
    /\ ksef \in [Invoices -> [Keys -> Outcomes]]

Transmitted(i) == {k \in Keys : ksef[i][k] # "none"}
Got(i, verdict) == \E k \in Keys : ksef[i][k] = verdict

\* An invoice reaches KSeF at most once, however many submit requests, cron
\* runs, re-authentications, lost replies and crashes there are.
AtMostOneTransmission ==
    \A i \in Invoices : \A k, l \in Transmitted(i) : k = l

\* What the cron job may send again was never transmitted: the catch block
\* writes ERROR with the flag down only when nothing left the program.
RetryableWasNeverSent ==
    \A i \in Invoices : Retryable(i) => Transmitted(i) = {}

\* externalMutationStarted is written ahead: a crash at any point leaves the
\* flag up on every row whose transmission may exist, and on no older row.
TransmissionIsFlagged ==
    \A i \in Invoices : \A k \in Transmitted(i) :
        /\ k[1] = count[i]
        /\ started[i][k[1]]

\* A verdict in the state row, in the legacy column or in a submission is
\* the verdict of KSeF on this invoice, also when it is written long after
\* it was read and other calls have written in between.
VerdictIsTrue ==
    \A i \in Invoices :
        /\ "ACCEPTED" \in {status[i], legacy[i]} => Got(i, "accepted")
        /\ "REJECTED" \in {status[i], legacy[i]} => Got(i, "rejected")
        /\ \A a \in Attempts :
              /\ subStatus[i][a] = "ACCEPTED" \/ number[i][a] => Got(i, "accepted")
              /\ subStatus[i][a] = "REJECTED" => Got(i, "rejected")

\* An invoice KSeF has received is never out of reach: its history holds the
\* acceptance, or the status route can ask KSeF about it, or the operator
\* can still attach its references.
NeverOutOfReach ==
    \A i \in Invoices : \A k \in Keys :
        ksef[i][k] \in Received =>
            \/ AcceptedInHistory(i)
            \/ refs[i][count[i]] # NoRefs
            \/ Attachable(i) # {}

\* The promise of KsefDelivery, seen through the transmissions and the state
\* row: refinement.
Sent(i) == Cardinality(Transmitted(i))
Verdict(i) == IF Got(i, "accepted") THEN "accepted"
              ELSE IF Got(i, "rejected") THEN "rejected" ELSE "open"
Books(i) == CASE status[i] = "ACCEPTED" -> "accepted"
              [] status[i] = "REJECTED" -> "rejected"
              [] OTHER -> "open"

Delivery == INSTANCE KsefDelivery
                WITH sent <- [i \in Invoices |-> Sent(i)],
                     verdict <- [i \in Invoices |-> Verdict(i)],
                     books <- [i \in Invoices |-> Books(i)]

ImplementsDelivery == Delivery!Spec

\* An attempt that failed safely does not rest in the queue: the hourly cron
\* job makes another one, unless an operator takes the invoice out.
QueuedIsRetried ==
    \A i \in Invoices : \A a \in Attempts \ {MaxAttempts} :
        Retryable(i) /\ count[i] = a ~> count[i] > a \/ status[i] # "OFFLINE_QUEUED"
=============================================================================
