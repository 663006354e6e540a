--------------------------- MODULE InvoiceIssuance ---------------------------
(***************************************************************************)
(* The life of an outgoing invoice between its draft and KSeF: editing,    *)
(* numbering, the two artifacts (PDF and XML), the step to ISSUED, the way *)
(* back to DRAFT and the claim of a submission.  Source:                   *)
(* apps/api/src/services/invoice.service.ts and services/storage/          *)
(* local-fs.ts, called by apps/api/src/routes/invoices/outgoing.ts.        *)
(*                                                                         *)
(* Each member of Issuers, Reverters and Submitters is one request; it may *)
(* fail or crash at every step.  A database statement or transaction is    *)
(* one action, and so is the storing of one file.  A request that is       *)
(* refused changes nothing and simply ends.                                *)
(*                                                                         *)
(* A draft stands for the lines, dates and contractor of an invoice; an    *)
(* account for the company data copied into it when it is issued.  Neither *)
(* the text of the artifacts nor the amounts matter here, only what they   *)
(* were made from.                                                         *)
(***************************************************************************)
EXTENDS Naturals, Sequences

CONSTANTS
    Invoices,
    Issuers,        \* requests to issue
    Reverters,      \* requests to revert to draft
    Submitters,     \* requests to submit to KSeF, and offline retries
    Null,           \* no number, no invoice, no document
    Drafts,         \* possible contents of an invoice
    Periods,        \* numbering periods
    PeriodOf,       \* the period of the issue date of a draft
    Accounts,       \* possible bank accounts of the company
    MaxNumber,      \* bound: numbers assigned per period
    Slow,           \* may a request to issue outlive the limit of 5 minutes?
    FilesGetLost    \* may a stored file lose its bytes?

ASSUME NullAssumption == Null \notin Invoices \cup Accounts \cup (Periods \X Nat)
ASSUME PeriodAssumption == PeriodOf \in [Drafts -> Periods]
ASSUME MaxNumberAssumption == MaxNumber \in Nat \ {0}
ASSUME SwitchAssumption == Slow \in BOOLEAN /\ FilesGetLost \in BOOLEAN
ASSUME RequestAssumption ==
    /\ Issuers \cap Reverters = {}
    /\ Issuers \cap Submitters = {}
    /\ Reverters \cap Submitters = {}

VARIABLES
    \* Company
    seq,        \* invoiceSeq, by period
    account,    \* bankAccount
    \* Invoice
    status, number, draft,
    totals,     \* the draft from which totalNet, totalVat, totalGross came
    seller,     \* sellerAccount, the copy made when issuing
    stale,      \* ISSUING, and issuingStartedAt is 5 minutes ago
    \* FileRecord, oldest first
    pdfs, xmls,
    \* The KSeF state of the invoice and the document that was transmitted
    ksef, sent,
    \* The requests: where they are, their invoice, the data they work with
    pc, job, doc

company == <<seq, account>>
invoice == <<status, number, draft, totals, seller, stale>>
files == <<pdfs, xmls>>
delivery == <<ksef, sent>>
request == <<pc, job, doc>>
vars == <<company, invoice, files, delivery, request>>

-----------------------------------------------------------------------------
Requests == Issuers \cup Reverters \cup Submitters
Numbers == Periods \X (1..MaxNumber)
InvoiceStatus == {"DRAFT", "ISSUING", "ISSUED"}

\* NOT_SENT; OFFLINE_QUEUED with an attempt under way or of unknown outcome;
\* OFFLINE_QUEUED with a safely failed attempt; SUBMITTED and what follows.
KsefState == {"NOT_SENT", "CLAIMED", "RETRYABLE", "SENT"}

\* What an artifact or a transmission was made from.
Documents == [number : Numbers, draft : Drafts, account : Accounts]
FileRecords == [doc : Documents, by : Issuers, valid : BOOLEAN]

IssuerPc == {"reserved", "totalled", "printed", "stored"}
RequestPc == IssuerPc \cup {"new", "deleting", "reverting", "submit", "retry", "claimed", "end"}

Init ==
    /\ seq = [p \in Periods |-> 0]
    /\ account \in Accounts
    /\ status = [i \in Invoices |-> "DRAFT"]
    /\ number = [i \in Invoices |-> Null]
    /\ draft \in [Invoices -> Drafts]
    /\ totals = draft
    /\ seller = [i \in Invoices |-> Null]
    /\ stale = [i \in Invoices |-> FALSE]
    /\ pdfs = [i \in Invoices |-> <<>>]
    /\ xmls = [i \in Invoices |-> <<>>]
    /\ ksef = [i \in Invoices |-> "NOT_SENT"]
    /\ sent = [i \in Invoices |-> Null]
    /\ pc = [r \in Requests |-> "new"]
    /\ job = [r \in Requests |-> Null]
    /\ doc = [r \in Requests |-> Null]

Move(r, from, to) ==
    /\ pc[r] = from
    /\ pc' = [pc EXCEPT ![r] = to]

\* The request ends: it is refused, fails, or its process stops.
Ends(r) ==
    /\ pc[r] # "end"
    /\ pc' = [pc EXCEPT ![r] = "end"]
    /\ UNCHANGED <<company, invoice, files, delivery, job, doc>>

-----------------------------------------------------------------------------
(***************************************************************************)
(* Edits and the passing of time.                                          *)
(***************************************************************************)
\* Mutant: the status is only read before the lock is taken.
EditUnlocked(i, d) ==
    /\ draft' = [draft EXCEPT ![i] = d]
    /\ totals' = [totals EXCEPT ![i] = d]
    /\ UNCHANGED <<company, status, number, seller, stale, files, delivery, request>>

\* PUT of a draft; the status is read again under the lock of the invoice.
Edit(i, d) ==
    /\ status[i] = "DRAFT"
    /\ draft' = [draft EXCEPT ![i] = d]
    /\ totals' = [totals EXCEPT ![i] = d]
    /\ UNCHANGED <<company, status, number, seller, stale, files, delivery, request>>

EditCompany(a) ==
    /\ account' = a
    /\ UNCHANGED <<seq, invoice, files, delivery, request>>

\* Five minutes pass since the invoice was reserved.
InFlight(i) == \E r \in Issuers : job[r] = i /\ pc[r] \in IssuerPc

GoStale(i) ==
    /\ status[i] = "ISSUING"
    /\ Slow \/ ~InFlight(i)
    /\ stale' = [stale EXCEPT ![i] = TRUE]
    /\ UNCHANGED <<company, status, number, draft, totals, seller, files, delivery, request>>

\* The bytes of a stored file are lost or damaged; its record remains.
Lose(i) ==
    /\ FilesGetLost
    /\ \/ /\ \E k \in DOMAIN pdfs[i] : pdfs' = [pdfs EXCEPT ![i][k].valid = FALSE]
          /\ UNCHANGED xmls
       \/ /\ \E k \in DOMAIN xmls[i] : xmls' = [xmls EXCEPT ![i][k].valid = FALSE]
          /\ UNCHANGED pdfs
    /\ UNCHANGED <<company, invoice, delivery, request>>

-----------------------------------------------------------------------------
(***************************************************************************)
(* POST issue: a transaction reserves the invoice and its number, then the *)
(* totals are written, the PDF and the XML stored, and a last transaction  *)
(* verifies both files and makes the invoice ISSUED.                       *)
(***************************************************************************)
HasValid(fs) == \E k \in DOMAIN fs : fs[k].valid

\* hasCompleteValidIssuanceArtifacts
Complete(i) == HasValid(pdfs[i]) /\ HasValid(xmls[i])

\* Mutant: a reservation that is not stale yet may be taken over.
ReservableAlways(i) == status[i] # "ISSUED"

Reservable(i) ==
    \/ status[i] = "DRAFT"
    \/ status[i] = "ISSUING" /\ stale[i] /\ Complete(i)

\* The number the transaction gives to the invoice, which keeps the number it
\* has.
NextNumber(i) ==
    LET p == PeriodOf[draft[i]] IN
    IF number[i] # Null THEN number[i] ELSE <<p, seq[p] + 1>>

\* Mutants: the counter moves on every reservation; it is read and never
\* written.
CountUpAlways(i) == [seq EXCEPT ![PeriodOf[draft[i]]] = @ + 1]
CountUpLost(i) == seq

\* An invoice that has its number leaves the counters alone.
CountUp(i) ==
    LET p == PeriodOf[draft[i]] IN
    IF number[i] # Null THEN seq ELSE [seq EXCEPT ![p] = @ + 1]

Reserve(r, i) ==
    /\ Move(r, "new", "reserved")
    /\ Reservable(i)
    /\ number[i] # Null \/ seq[PeriodOf[draft[i]]] < MaxNumber
    /\ seq' = CountUp(i)
    /\ number' = [number EXCEPT ![i] = NextNumber(i)]
    /\ status' = [status EXCEPT ![i] = "ISSUING"]
    /\ stale' = [stale EXCEPT ![i] = FALSE]
    /\ seller' = [seller EXCEPT ![i] = account]
    /\ job' = [job EXCEPT ![r] = i]
    /\ doc' = [doc EXCEPT ![r] =
                [number |-> NextNumber(i), draft |-> draft[i], account |-> account]]
    /\ UNCHANGED <<account, draft, totals, files, delivery>>

\* A stale reservation without both artifacts goes back to DRAFT, keeping
\* its number, and the request fails.
ResetStale(r, i) ==
    /\ Move(r, "new", "end")
    /\ status[i] = "ISSUING" /\ stale[i] /\ ~Complete(i)
    /\ status' = [status EXCEPT ![i] = "DRAFT"]
    /\ stale' = [stale EXCEPT ![i] = FALSE]
    /\ UNCHANGED <<company, number, draft, totals, seller, files, delivery, job, doc>>

\* The totals of the reserved lines are written whatever became of the row.
WriteTotals(r) ==
    /\ Move(r, "reserved", "totalled")
    /\ totals' = [totals EXCEPT ![job[r]] = doc[r].draft]
    /\ UNCHANGED <<company, status, number, draft, seller, stale, files, delivery, job, doc>>

Record(r) == [doc |-> doc[r], by |-> r, valid |-> TRUE]

\* saveFile of the PDF: its bytes hold the time of printing, so that no two
\* requests store the same file.
SavePdf(r) ==
    /\ Move(r, "totalled", "printed")
    /\ pdfs' = [pdfs EXCEPT ![job[r]] = Append(@, Record(r))]
    /\ UNCHANGED <<company, invoice, xmls, delivery, job, doc>>

\* saveFile of the XML: the same document gives the same bytes, and then the
\* existing record is kept if its file is intact, and replaced in its place
\* if not.
Stored(r, k) == k \in DOMAIN xmls[job[r]] /\ xmls[job[r]][k].doc = doc[r]

SaveXml(r) ==
    /\ Move(r, "printed", "stored")
    /\ \/ \E k \in DOMAIN xmls[job[r]] :
            /\ Stored(r, k)
            /\ xmls' = [xmls EXCEPT ![job[r]][k] = IF @.valid THEN @ ELSE Record(r)]
       \/ /\ ~\E k \in DOMAIN xmls[job[r]] : Stored(r, k)
          /\ xmls' = [xmls EXCEPT ![job[r]] = Append(@, Record(r))]
    /\ UNCHANGED <<company, invoice, pdfs, delivery, job, doc>>

\* finalizeInvoiceIssuance finds both files by checksum and reads them.
Verified(r) ==
    /\ \E k \in DOMAIN pdfs[job[r]] : pdfs[job[r]][k].by = r /\ pdfs[job[r]][k].valid
    /\ \E k \in DOMAIN xmls[job[r]] : Stored(r, k) /\ xmls[job[r]][k].valid

Finalize(r) ==
    /\ Move(r, "stored", "end")
    /\ status[job[r]] \in {"ISSUING", "ISSUED"}
    /\ Verified(r)
    /\ status' = [status EXCEPT ![job[r]] = "ISSUED"]
    /\ stale' = [stale EXCEPT ![job[r]] = FALSE]
    /\ UNCHANGED <<company, number, draft, totals, seller, files, delivery, job, doc>>

-----------------------------------------------------------------------------
(***************************************************************************)
(* POST revert-to-draft: three statements, no lock.                        *)
(***************************************************************************)
ReadForRevert(r, i) ==
    /\ Move(r, "new", "deleting")
    /\ status[i] = "ISSUED"
    /\ ksef[i] = "NOT_SENT"
    /\ job' = [job EXCEPT ![r] = i]
    /\ UNCHANGED <<company, invoice, files, delivery, doc>>

DeleteFiles(r) ==
    /\ Move(r, "deleting", "reverting")
    /\ pdfs' = [pdfs EXCEPT ![job[r]] = <<>>]
    /\ xmls' = [xmls EXCEPT ![job[r]] = <<>>]
    /\ UNCHANGED <<company, invoice, delivery, job, doc>>

Revert(r) ==
    /\ Move(r, "reverting", "end")
    /\ status' = [status EXCEPT ![job[r]] = "DRAFT"]
    /\ number' = [number EXCEPT ![job[r]] = Null]
    /\ seller' = [seller EXCEPT ![job[r]] = Null]
    /\ UNCHANGED <<company, draft, totals, stale, files, delivery, job, doc>>

-----------------------------------------------------------------------------
(***************************************************************************)
(* POST submit-ksef and the offline retry, up to the transmission; what    *)
(* happens in between and afterwards is KsefSubmission.  The document sent *)
(* is built again from the rows: the number, the lines and totals of the   *)
(* invoice, but the bank account of the company.  buildFa3Xml refuses      *)
(* totals that do not follow from the lines.                               *)
(***************************************************************************)
Rebuilt(i) == [number |-> number[i], draft |-> draft[i], account |-> account]

Read(r, i, to) ==
    /\ Move(r, "new", to)
    /\ number[i] # Null
    /\ totals[i] = draft[i]
    /\ job' = [job EXCEPT ![r] = i]
    /\ doc' = [doc EXCEPT ![r] = Rebuilt(i)]
    /\ UNCHANGED <<company, invoice, files, delivery>>

\* Mutant: a reserved invoice with a number passes for an issued one.
ReadForSubmitReserved(r, i) == ksef[i] = "NOT_SENT" /\ Read(r, i, "submit")

ReadForSubmit(r, i) ==
    /\ status[i] = "ISSUED"
    /\ ksef[i] = "NOT_SENT"
    /\ Read(r, i, "submit")

\* The offline retry does not look at Invoice.status.
ReadForRetry(r, i) ==
    /\ ksef[i] = "RETRYABLE"
    /\ Read(r, i, "retry")

\* The claim reads the KSeF state again under the lock, not Invoice.status.
Claim(r) ==
    /\ \/ Move(r, "submit", "claimed") /\ ksef[job[r]] = "NOT_SENT"
       \/ Move(r, "retry", "claimed") /\ ksef[job[r]] = "RETRYABLE"
    /\ ksef' = [ksef EXCEPT ![job[r]] = "CLAIMED"]
    /\ UNCHANGED <<company, invoice, files, sent, job, doc>>

Transmit(r) ==
    /\ Move(r, "claimed", "end")
    /\ ksef' = [ksef EXCEPT ![job[r]] = "SENT"]
    /\ sent' = [sent EXCEPT ![job[r]] = doc[r]]
    /\ UNCHANGED <<company, invoice, files, job, doc>>

\* Nothing was sent, and the attempt is recorded as safe to retry.
FailSafely(r) ==
    /\ Move(r, "claimed", "end")
    /\ ksef' = [ksef EXCEPT ![job[r]] = "RETRYABLE"]
    /\ UNCHANGED <<company, invoice, files, sent, job, doc>>

-----------------------------------------------------------------------------
IssuerNext(r) ==
    \/ \E i \in Invoices : Reserve(r, i) \/ ResetStale(r, i)
    \/ WriteTotals(r) \/ SavePdf(r) \/ SaveXml(r) \/ Finalize(r)

ReverterNext(r) ==
    \/ \E i \in Invoices : ReadForRevert(r, i)
    \/ DeleteFiles(r) \/ Revert(r)

SubmitterNext(r) ==
    \/ \E i \in Invoices : ReadForSubmit(r, i) \/ ReadForRetry(r, i)
    \/ Claim(r) \/ Transmit(r) \/ FailSafely(r)

UserNext ==
    \/ \E i \in Invoices : GoStale(i) \/ Lose(i) \/ \E d \in Drafts : Edit(i, d)
    \/ \E a \in Accounts : EditCompany(a)

Next ==
    \/ UserNext
    \/ \E r \in Issuers : IssuerNext(r)
    \/ \E r \in Reverters : ReverterNext(r)
    \/ \E r \in Submitters : SubmitterNext(r)
    \/ \E r \in Requests : Ends(r)

Spec == Init /\ [][Next]_vars

-----------------------------------------------------------------------------
(***************************************************************************)
(* Properties                                                              *)
(***************************************************************************)
\* Rows, files and requests keep to their types, and a document never lacks
\* its number.
TypeOK ==
    /\ seq \in [Periods -> 0..MaxNumber]
    /\ account \in Accounts
    /\ status \in [Invoices -> InvoiceStatus]
    /\ number \in [Invoices -> Numbers \cup {Null}]
    /\ draft \in [Invoices -> Drafts]
    /\ totals \in [Invoices -> Drafts]
    /\ seller \in [Invoices -> Accounts \cup {Null}]
    /\ stale \in [Invoices -> BOOLEAN]
    /\ pdfs \in [Invoices -> Seq(FileRecords)]
    /\ xmls \in [Invoices -> Seq(FileRecords)]
    /\ ksef \in [Invoices -> KsefState]
    /\ sent \in [Invoices -> Documents \cup {Null}]
    /\ pc \in [Requests -> RequestPc]
    /\ job \in [Requests -> Invoices \cup {Null}]
    /\ doc \in [Requests -> Documents \cup {Null}]

\* What the row of an invoice says it is.
Current(i) == [number |-> number[i], draft |-> draft[i], account |-> seller[i]]

LatestPdf(i) == pdfs[i][Len(pdfs[i])].doc

\* GET pdf and GET xml of an issued invoice: the PDF that is served shows the
\* invoice as it is in the database, and so does one of its XML files.
IssuedIsDocumented ==
    \A i \in Invoices : status[i] = "ISSUED" =>
        /\ pdfs[i] # <<>> /\ LatestPdf(i) = Current(i)
        /\ \E k \in DOMAIN xmls[i] : xmls[i][k].doc = Current(i)

\* The stored totals of an issued invoice follow from its lines, or KSeF
\* would never get it: buildFa3Xml refuses anything else.
IssuedAddsUp == \A i \in Invoices : status[i] = "ISSUED" => totals[i] = draft[i]

\* What KSeF has is the issued invoice: same number, same lines and dates,
\* and it stays so.
SentIsIssued ==
    \A i \in Invoices : sent[i] # Null =>
        /\ status[i] = "ISSUED"
        /\ sent[i].number = number[i]
        /\ sent[i].draft = draft[i]

\* An issued invoice is not changed by any request that was under way, not
\* even in the PDF that is served for it.
IssuedIsFinal ==
    [][\A i \in Invoices : status[i] = "ISSUED" =>
        /\ status'[i] = "ISSUED"
        /\ Current(i)' = Current(i)
        /\ LatestPdf(i)' = LatestPdf(i)]_vars

\* No two invoices ever have the same number, neither in the database nor in
\* KSeF, not even when one of them was reverted.
NumberGivenOnce ==
    \A i, j \in Invoices : i # j =>
        /\ number[i] # Null => number[j] # number[i]
        /\ sent[i] # Null => number[j] # sent[i].number
        /\ sent[i] # Null /\ sent[j] # Null => sent[j].number # sent[i].number

\* A number is used up only by an invoice that had none and now has it, and
\* an invoice loses its number only by being reverted to DRAFT: retries,
\* resets and late requests cost no number.
NumberIsKept ==
    [][/\ \A p \in Periods : seq'[p] # seq[p] =>
            /\ seq'[p] = seq[p] + 1
            /\ \E i \in Invoices : number[i] = Null /\ number'[i] = <<p, seq'[p]>>
       /\ \A i \in Invoices : number[i] # Null /\ number'[i] # number[i] =>
            number'[i] = Null /\ status'[i] = "DRAFT"]_vars
=============================================================================
