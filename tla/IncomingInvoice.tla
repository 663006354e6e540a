--------------------------- MODULE IncomingInvoice ---------------------------
(***************************************************************************)
(* Incoming invoices: the upload of a scan and its recognition (OCR), the  *)
(* user's decision and the synchronization with KSeF.  Source:             *)
(* apps/api/src/routes/invoices/incoming.ts, services/ocr/process.ts and   *)
(* services/ksef-incoming.service.ts.                                      *)
(*                                                                         *)
(* An upload and its OCR run in one process that may stop at any step; a   *)
(* review is one read and one write; a synchronization handles the         *)
(* invoices KSeF listed one after the other, each with a lookup by         *)
(* reference, a lookup by seller and number, and a write.  Every statement *)
(* is an action.  No statement but the last of a synchronization is in a   *)
(* transaction.                                                            *)
(*                                                                         *)
(* An invoice of KSeF stands for its reference, and for the row created    *)
(* for it.  The contractor of a row, the amounts and the dates are left    *)
(* out: they are copied and never looked at.                               *)
(***************************************************************************)
CONSTANTS
    Uploads,     \* rows of uploaded scans
    Invoices,    \* the invoices KSeF holds for the company
    Reviewers,   \* requests to confirm or reject
    Syncs,       \* runs of the synchronization
    Sellers, Numbers,
    SellerOf,    \* the seller and the number of an invoice of KSeF
    NumberOf,
    Unnumbered,  \* the invoices KSeF lists without their number
    Corrects,    \* may a user correct the number when confirming?
    Null

Rows == Uploads \cup Invoices

ASSUME RowsAssumption == Uploads \cap Invoices = {}
ASSUME NullAssumption == Null \notin Rows \cup Sellers \cup Numbers
ASSUME CorrectsAssumption == Corrects \in BOOLEAN
\* KSeF takes a number only once from each seller.
ASSUME InvoicesAssumption ==
    /\ SellerOf \in [Invoices -> Sellers]
    /\ NumberOf \in [Invoices -> Numbers]
    /\ Unnumbered \subseteq Invoices
    /\ \A k, l \in Invoices : SellerOf[k] = SellerOf[l] /\ NumberOf[k] = NumberOf[l] => k = l

VARIABLES
    \* IncomingInvoice
    status, sellerNip, invoiceNumber, ksefReference,
    \* the upload request and the OCR that it starts
    ocr,
    \* the reviews
    pc, job,
    \* the synchronizations: what is to do, the invoice at hand, the upload
    \* found for it, what was counted as created, linked or skipped
    spc, todo, current, found, handled

row == <<status, sellerNip, invoiceNumber, ksefReference>>
review == <<pc, job>>
sync == <<spc, todo, current, found, handled>>
vars == <<row, ocr, review, sync>>

-----------------------------------------------------------------------------
\* NONE: there is no such row.
IncomingInvoiceStatus ==
    {"NONE", "UPLOADED", "OCR_PROCESSING", "OCR_DONE", "OCR_FAILED", "CONFIRMED",
     "REJECTED", "KSEF_SYNCED"}

OcrRunning == {"saving", "queued", "reading", "failing"}

Init ==
    /\ status = [r \in Rows |-> "NONE"]
    /\ sellerNip = [r \in Rows |-> Null]
    /\ invoiceNumber = [r \in Rows |-> Null]
    /\ ksefReference = [r \in Rows |-> Null]
    /\ ocr = [u \in Uploads |-> "none"]
    /\ pc = [v \in Reviewers |-> "new"]
    /\ job = [v \in Reviewers |-> Null]
    /\ spc = [s \in Syncs |-> "new"]
    /\ todo = [s \in Syncs |-> {}]
    /\ current = [s \in Syncs |-> Null]
    /\ found = [s \in Syncs |-> Null]
    /\ handled = [s \in Syncs |-> {}]

Exists(r) == status[r] # "NONE"

\* The unique key of IncomingInvoice: another row has the reference k.
Taken(k, r) == \E q \in Rows \ {r} : Exists(q) /\ ksefReference[q] = k

Stored(k) == \E r \in Rows : Exists(r) /\ ksefReference[r] = k

-----------------------------------------------------------------------------
(***************************************************************************)
(* POST incoming and startOcrPipeline.                                     *)
(***************************************************************************)
Ocr(u, from, to) ==
    /\ ocr[u] = from
    /\ ocr' = [ocr EXCEPT ![u] = to]

Create(u) ==
    /\ Ocr(u, "none", "saving")
    /\ status' = [status EXCEPT ![u] = "UPLOADED"]
    /\ UNCHANGED <<sellerNip, invoiceNumber, ksefReference, review, sync>>

SaveScan(u) ==
    /\ Ocr(u, "saving", "queued")
    /\ UNCHANGED <<row, review, sync>>

\* The row is deleted, whatever became of it.
SaveScanFails(u) ==
    /\ Ocr(u, "saving", "end")
    /\ status' = [status EXCEPT ![u] = "NONE"]
    /\ UNCHANGED <<sellerNip, invoiceNumber, ksefReference, review, sync>>

StartOcr(u) ==
    /\ Ocr(u, "queued", "reading")
    /\ status' = [status EXCEPT ![u] = "OCR_PROCESSING"]
    /\ UNCHANGED <<sellerNip, invoiceNumber, ksefReference, review, sync>>

\* What was recognized is stored, right or wrong.  A reference that another
\* row has makes the write fail.
StoreOcr(u) ==
    /\ Ocr(u, "reading", "end")
    /\ \E k \in Invoices \cup {Null} :
          /\ k # Null => ~Taken(k, u)
          /\ ksefReference' = [ksefReference EXCEPT ![u] = k]
    /\ \E s \in Sellers \cup {Null} : sellerNip' = [sellerNip EXCEPT ![u] = s]
    /\ \E n \in Numbers \cup {Null} : invoiceNumber' = [invoiceNumber EXCEPT ![u] = n]
    /\ status' = [status EXCEPT ![u] = "OCR_DONE"]
    /\ UNCHANGED <<review, sync>>

\* A statement, the reading or the storing fails.
FailOcr(u) ==
    /\ \E from \in {"queued", "reading"} : Ocr(u, from, "failing")
    /\ UNCHANGED <<row, review, sync>>

\* Mutant: the failure is logged only.
StoreFailureSilently(u) ==
    /\ Ocr(u, "failing", "end")
    /\ UNCHANGED <<row, review, sync>>

StoreFailure(u) ==
    /\ Ocr(u, "failing", "end")
    /\ status' = [status EXCEPT ![u] = "OCR_FAILED"]
    /\ UNCHANGED <<sellerNip, invoiceNumber, ksefReference, review, sync>>

\* The process stops, or the failure cannot be stored.
StopOcr(u) ==
    /\ \E from \in OcrRunning : Ocr(u, from, "stopped")
    /\ UNCHANGED <<row, review, sync>>

-----------------------------------------------------------------------------
(***************************************************************************)
(* POST confirm and POST reject: a check, then an unconditional write.     *)
(***************************************************************************)
Review(v, from, to) ==
    /\ pc[v] = from
    /\ pc' = [pc EXCEPT ![v] = to]

Done(v) == job' = [job EXCEPT ![v] = Null]

Confirmable == {"UPLOADED", "OCR_DONE", "OCR_FAILED"}

ReadForConfirm(v, r) ==
    /\ Review(v, "new", "confirming")
    /\ status[r] \in Confirmable
    /\ job' = [job EXCEPT ![v] = r]
    /\ UNCHANGED <<row, ocr, sync>>

Confirm(v) ==
    /\ Review(v, "confirming", "end")
    /\ Exists(job[v])
    /\ status' = [status EXCEPT ![job[v]] = "CONFIRMED"]
    /\ \/ UNCHANGED invoiceNumber
       \/ /\ Corrects
          /\ \E n \in Numbers : invoiceNumber' = [invoiceNumber EXCEPT ![job[v]] = n]
    /\ Done(v)
    /\ UNCHANGED <<sellerNip, ksefReference, ocr, sync>>

\* Mutant: a confirmed row may be rejected.
RejectableAlways == IncomingInvoiceStatus \ {"NONE"}

Rejectable == IncomingInvoiceStatus \ {"NONE", "CONFIRMED"}

ReadForReject(v, r) ==
    /\ Review(v, "new", "rejecting")
    /\ status[r] \in Rejectable
    /\ job' = [job EXCEPT ![v] = r]
    /\ UNCHANGED <<row, ocr, sync>>

Reject(v) ==
    /\ Review(v, "rejecting", "end")
    /\ Exists(job[v])
    /\ status' = [status EXCEPT ![job[v]] = "REJECTED"]
    /\ Done(v)
    /\ UNCHANGED <<sellerNip, invoiceNumber, ksefReference, ocr, sync>>

\* The request is refused or its write fails.
EndReview(v) ==
    /\ \E from \in {"new", "confirming", "rejecting"} : Review(v, from, "end")
    /\ Done(v)
    /\ UNCHANGED <<row, ocr, sync>>

-----------------------------------------------------------------------------
(***************************************************************************)
(* syncIncomingInvoicesFromKsef                                            *)
(***************************************************************************)
Goto(s, from, to) ==
    /\ spc[s] = from
    /\ spc' = [spc EXCEPT ![s] = to]

\* The invoice at hand is counted, and the next one is taken up.
Count(s, k) ==
    /\ todo' = [todo EXCEPT ![s] = @ \ {k}]
    /\ handled' = [handled EXCEPT ![s] = @ \cup {k}]
    /\ current' = [current EXCEPT ![s] = Null]
    /\ found' = [found EXCEPT ![s] = Null]

\* The pages of the requested range, taken as one.
QueryIncomingInvoices(s) ==
    /\ Goto(s, "new", "next")
    /\ \E K \in SUBSET Invoices : todo' = [todo EXCEPT ![s] = K]
    /\ UNCHANGED <<row, ocr, review, current, found, handled>>

\* Case A: a row has this reference.
SkipLinked(s, k) ==
    /\ Goto(s, "next", "next")
    /\ k \in todo[s]
    /\ Stored(k)
    /\ Count(s, k)
    /\ UNCHANGED <<row, ocr, review>>

LookUp(s, k) ==
    /\ Goto(s, "next", "search")
    /\ k \in todo[s]
    /\ ~Stored(k)
    /\ current' = [current EXCEPT ![s] = k]
    /\ UNCHANGED <<row, ocr, review, todo, found, handled>>

\* Mutants: an upload may have another number; it may be linked already.
MatchesSeller(u, k) == Exists(u) /\ sellerNip[u] = SellerOf[k] /\ ksefReference[u] = Null
MatchesLinked(u, k) == Exists(u) /\ sellerNip[u] = SellerOf[k]

Matches(u, k) ==
    /\ Exists(u)
    /\ sellerNip[u] = SellerOf[k]
    /\ invoiceNumber[u] = NumberOf[k]
    /\ ksefReference[u] = Null

\* Case B: an upload is found by seller and number.
FindUpload(s, u) ==
    /\ Goto(s, "search", "linking")
    /\ current[s] \notin Unnumbered
    /\ Matches(u, current[s])
    /\ found' = [found EXCEPT ![s] = u]
    /\ UNCHANGED <<row, ocr, review, todo, current, handled>>

Link(s) ==
    /\ Goto(s, "linking", "next")
    /\ ~Taken(current[s], found[s])
    /\ ksefReference' = [ksefReference EXCEPT ![found[s]] = current[s]]
    /\ status' = [status EXCEPT ![found[s]] = "KSEF_SYNCED"]
    /\ Count(s, current[s])
    /\ UNCHANGED <<sellerNip, invoiceNumber, ocr, review>>

\* Case C: none is found, or the number to look for is not known.
FetchXml(s) ==
    /\ Goto(s, "search", "creating")
    /\ current[s] \in Unnumbered \/ ~\E u \in Uploads : Matches(u, current[s])
    /\ UNCHANGED <<row, ocr, review, todo, current, found, handled>>

CreateFetched(s) ==
    LET k == current[s] IN
    /\ Goto(s, "creating", "next")
    /\ ~Stored(k)
    /\ status' = [status EXCEPT ![k] = "CONFIRMED"]
    /\ sellerNip' = [sellerNip EXCEPT ![k] = SellerOf[k]]
    /\ invoiceNumber' = [invoiceNumber EXCEPT ![k] = NumberOf[k]]
    /\ ksefReference' = [ksefReference EXCEPT ![k] = k]
    /\ Count(s, k)
    /\ UNCHANGED <<ocr, review>>

\* The unique key says that a row was stored meanwhile.
SkipCreated(s) ==
    /\ Goto(s, "creating", "next")
    /\ Stored(current[s])
    /\ Count(s, current[s])
    /\ UNCHANGED <<row, ocr, review>>

FinishSync(s) ==
    /\ Goto(s, "next", "done")
    /\ todo[s] = {}
    /\ UNCHANGED <<row, ocr, review, todo, current, found, handled>>

\* KSeF or the database fails, the unique key refuses a link, or the process
\* stops.
FailSync(s) ==
    /\ \E from \in {"new", "next", "search", "linking", "creating"} : Goto(s, from, "failed")
    /\ todo' = [todo EXCEPT ![s] = {}]
    /\ current' = [current EXCEPT ![s] = Null]
    /\ found' = [found EXCEPT ![s] = Null]
    /\ UNCHANGED <<row, ocr, review, handled>>

-----------------------------------------------------------------------------
OcrNext(u) ==
    \/ Create(u) \/ SaveScan(u) \/ SaveScanFails(u)
    \/ StartOcr(u) \/ StoreOcr(u) \/ FailOcr(u) \/ StoreFailure(u) \/ StopOcr(u)

ReviewNext(v) ==
    \/ \E r \in Rows : ReadForConfirm(v, r) \/ ReadForReject(v, r)
    \/ Confirm(v) \/ Reject(v) \/ EndReview(v)

SyncNext(s) ==
    \/ QueryIncomingInvoices(s)
    \/ \E k \in Invoices : SkipLinked(s, k) \/ LookUp(s, k)
    \/ \E u \in Uploads : FindUpload(s, u)
    \/ Link(s) \/ FetchXml(s) \/ CreateFetched(s) \/ SkipCreated(s)
    \/ FinishSync(s) \/ FailSync(s)

Next ==
    \/ \E u \in Uploads : OcrNext(u)
    \/ \E v \in Reviewers : ReviewNext(v)
    \/ \E s \in Syncs : SyncNext(s)

Spec == Init /\ [][Next]_vars

\* Once started, an OCR goes on until it ends or its process stops: its calls
\* return, or fail when their connection times out.
OcrFairness ==
    \A u \in Uploads : WF_vars(StartOcr(u) \/ StoreOcr(u) \/ FailOcr(u) \/ StoreFailure(u))

FairSpec == Spec /\ OcrFairness

-----------------------------------------------------------------------------
(***************************************************************************)
(* Properties                                                              *)
(***************************************************************************)
\* Rows and processes keep to their types; a row created for an invoice of
\* KSeF has its reference, and no invoice is taken up twice by a run.
TypeOK ==
    /\ status \in [Rows -> IncomingInvoiceStatus]
    /\ sellerNip \in [Rows -> Sellers \cup {Null}]
    /\ invoiceNumber \in [Rows -> Numbers \cup {Null}]
    /\ ksefReference \in [Rows -> Invoices \cup {Null}]
    /\ \A k \in Invoices : Exists(k) <=> ksefReference[k] = k
    /\ ocr \in [Uploads -> OcrRunning \cup {"none", "end", "stopped"}]
    /\ pc \in [Reviewers -> {"new", "confirming", "rejecting", "end"}]
    /\ job \in [Reviewers -> Rows \cup {Null}]
    /\ spc \in [Syncs -> {"new", "next", "search", "linking", "creating", "done", "failed"}]
    /\ todo \in [Syncs -> SUBSET Invoices]
    /\ handled \in [Syncs -> SUBSET Invoices]
    /\ current \in [Syncs -> Invoices \cup {Null}]
    /\ found \in [Syncs -> Uploads \cup {Null}]
    /\ \A s \in Syncs : todo[s] \cap handled[s] = {}

\* What a run counted as created, linked or skipped is in the database, with
\* its reference, and stays there, whatever other runs, OCR and users do.
HandledIsPresent ==
    \A s \in Syncs : \A k \in handled[s] : Stored(k)

\* An upload that became KSEF_SYNCED shows the seller and the number of the
\* invoice it is linked to.
SyncedIsItsInvoice ==
    \A u \in Uploads : status[u] = "KSEF_SYNCED" =>
        \E k \in Invoices :
            /\ ksefReference[u] = k
            /\ sellerNip[u] = SellerOf[k] /\ invoiceNumber[u] = NumberOf[k]

\* What was fetched from KSeF is never changed: no user, no OCR and no later
\* run touches it.
FetchedIsFinal ==
    [][\A k \in Invoices : Exists(k) =>
        /\ status'[k] = status[k]
        /\ sellerNip'[k] = sellerNip[k]
        /\ invoiceNumber'[k] = invoiceNumber[k]
        /\ ksefReference'[k] = ksefReference[k]]_vars

\* A scan in OCR_PROCESSING gets out of it, unless the process stops.
OcrSettles ==
    \A u \in Uploads :
        status[u] = "OCR_PROCESSING" ~> status[u] # "OCR_PROCESSING" \/ ocr[u] = "stopped"
=============================================================================
