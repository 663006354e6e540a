------------------------ MODULE IncomingInvoiceProofs ------------------------
(***************************************************************************)
(* Proofs about IncomingInvoice, for any sets of uploads, invoices,        *)
(* reviews and synchronizations.                                           *)
(***************************************************************************)
EXTENDS IncomingInvoice, TLAPS

-----------------------------------------------------------------------------
(***************************************************************************)
(* Types.  A run that works on an invoice knows it, a review under way is  *)
(* one of an upload, and a row created for an invoice stays CONFIRMED.     *)
(***************************************************************************)
SyncsOK ==
    \A s \in Syncs :
        /\ spc[s] = "new" => handled[s] = {}
        /\ spc[s] \in {"search", "linking", "creating"} =>
              current[s] \in Invoices /\ current[s] \in todo[s]
        /\ spc[s] = "linking" => found[s] \in Uploads

ReviewsOK == \A v \in Reviewers : pc[v] \in {"confirming", "rejecting"} => job[v] \in Uploads

FetchedOK == \A k \in Invoices : status[k] \in {"NONE", "CONFIRMED"}

TypeInv == TypeOK /\ SyncsOK /\ ReviewsOK /\ FetchedOK

LEMMA InitTypeInv == Init => TypeInv
BY NullAssumption DEF Init, TypeInv, TypeOK, SyncsOK, ReviewsOK, FetchedOK, Exists,
   IncomingInvoiceStatus, OcrRunning, Rows

LEMMA OcrTypeInv ==
  ASSUME TypeInv, NEW u \in Uploads, OcrNext(u)
  PROVE  TypeInv'
<1>1. /\ u \in Rows /\ u \notin Invoices
      /\ UNCHANGED <<pc, job, spc, todo, current, found, handled>>
  BY RowsAssumption DEF OcrNext, Create, SaveScan, SaveScanFails, StartOcr, StoreOcr, FailOcr,
     StoreFailure, StopOcr, Rows, review, sync
<1>2. ocr' \in [Uploads -> OcrRunning \cup {"none", "end", "stopped"}]
  BY DEF OcrNext, Create, SaveScan, SaveScanFails, StartOcr, StoreOcr, FailOcr,
     StoreFailure, StopOcr, Ocr, TypeInv, TypeOK, OcrRunning
<1>3. /\ status' \in [Rows -> IncomingInvoiceStatus]
      /\ sellerNip' \in [Rows -> Sellers \cup {Null}]
      /\ invoiceNumber' \in [Rows -> Numbers \cup {Null}]
      /\ ksefReference' \in [Rows -> Invoices \cup {Null}]
      /\ \A k \in Invoices : status'[k] = status[k] /\ ksefReference'[k] = ksefReference[k]
  BY <1>1 DEF OcrNext, Create, SaveScan, SaveScanFails, StartOcr, StoreOcr, FailOcr,
     StoreFailure, StopOcr, row, TypeInv, TypeOK, IncomingInvoiceStatus, Rows
<1>4. QED
  BY <1>1, <1>2, <1>3 DEF TypeInv, TypeOK, SyncsOK, ReviewsOK, FetchedOK, Exists

LEMMA ReviewTypeInv ==
  ASSUME TypeInv, NEW v \in Reviewers, ReviewNext(v)
  PROVE  TypeInv'
<1> USE DEF TypeInv, TypeOK
<1>1. /\ UNCHANGED <<ocr, spc, todo, current, found, handled, sellerNip, ksefReference>>
      /\ pc' \in [Reviewers -> {"new", "confirming", "rejecting", "end"}]
      /\ job' \in [Reviewers -> Rows \cup {Null}]
  BY DEF ReviewNext, ReadForConfirm, Confirm, ReadForReject, Reject, EndReview, Review, Done,
     row, sync
<1>2. /\ status' \in [Rows -> IncomingInvoiceStatus]
      /\ invoiceNumber' \in [Rows -> Numbers \cup {Null}]
      /\ \A k \in Invoices : status'[k] = status[k]
  <2>1. ASSUME pc[v] \in {"confirming", "rejecting"}
        PROVE  job[v] \in Rows /\ job[v] \notin Invoices
    BY <2>1, RowsAssumption DEF ReviewsOK, Rows
  <2>2. QED
    BY <2>1 DEF ReviewNext, ReadForConfirm, Confirm, ReadForReject, Reject, EndReview, Review,
       row, IncomingInvoiceStatus, Rows
<1>3. ReviewsOK'
  BY RowsAssumption DEF ReviewNext, ReadForConfirm, Confirm, ReadForReject, Reject, EndReview,
     Review, Done, ReviewsOK, FetchedOK, Confirmable, Rejectable, IncomingInvoiceStatus, Rows
<1>4. QED
  BY <1>1, <1>2, <1>3 DEF SyncsOK, FetchedOK, Exists

LEMMA SyncTypeInv ==
  ASSUME TypeInv, NEW s \in Syncs, SyncNext(s)
  PROVE  TypeInv'
<1> USE DEF TypeInv, TypeOK
<1>1. /\ UNCHANGED <<ocr, pc, job>>
      /\ spc' \in [Syncs -> {"new", "next", "search", "linking", "creating", "done", "failed"}]
  BY DEF SyncNext, QueryIncomingInvoices, SkipLinked, LookUp, FindUpload, Link, FetchXml,
     CreateFetched, SkipCreated, FinishSync, FailSync, Goto, review
<1>2. /\ todo' \in [Syncs -> SUBSET Invoices]
      /\ handled' \in [Syncs -> SUBSET Invoices]
      /\ current' \in [Syncs -> Invoices \cup {Null}]
      /\ found' \in [Syncs -> Uploads \cup {Null}]
      /\ \A t \in Syncs : todo'[t] \cap handled'[t] = {}
  <2>1. CASE QueryIncomingInvoices(s)
    BY <2>1 DEF QueryIncomingInvoices, Goto, SyncsOK
  <2>2. ASSUME NEW k \in Invoices, Count(s, k),
               \A t \in Syncs : todo[t] \cap handled[t] = {}
        PROVE  \A t \in Syncs : todo'[t] \cap handled'[t] = {}
    BY <2>2 DEF Count
  <2>3. ASSUME NEW k \in Invoices, SkipLinked(s, k) \/ LookUp(s, k)
        PROVE  /\ todo' \in [Syncs -> SUBSET Invoices]
               /\ handled' \in [Syncs -> SUBSET Invoices]
               /\ current' \in [Syncs -> Invoices \cup {Null}]
               /\ found' \in [Syncs -> Uploads \cup {Null}]
               /\ \A t \in Syncs : todo'[t] \cap handled'[t] = {}
    BY <2>2, <2>3 DEF SkipLinked, LookUp, Count
  <2>4. CASE Link(s) \/ CreateFetched(s) \/ SkipCreated(s)
    BY <2>2, <2>4 DEF Link, CreateFetched, SkipCreated, Count, Goto, SyncsOK
  <2>5. CASE FailSync(s)
    BY <2>5 DEF FailSync
  <2>6. CASE FetchXml(s) \/ FinishSync(s) \/ \E u \in Uploads : FindUpload(s, u)
    BY <2>6 DEF FetchXml, FinishSync, FindUpload
  <2>7. QED
    BY <2>1, <2>3, <2>4, <2>5, <2>6 DEF SyncNext
<1>3. SyncsOK'
  BY DEF SyncNext, QueryIncomingInvoices, SkipLinked, LookUp, FindUpload, Link, FetchXml,
     CreateFetched, SkipCreated, FinishSync, FailSync, Goto, Count, SyncsOK
<1>4. /\ status' \in [Rows -> IncomingInvoiceStatus]
      /\ sellerNip' \in [Rows -> Sellers \cup {Null}]
      /\ invoiceNumber' \in [Rows -> Numbers \cup {Null}]
      /\ ksefReference' \in [Rows -> Invoices \cup {Null}]
      /\ \A k \in Invoices :
            /\ status'[k] \in {"NONE", "CONFIRMED"}
            /\ status'[k] # "NONE" <=> ksefReference'[k] = k
  <2>1. CASE UNCHANGED row
    BY <2>1 DEF row, FetchedOK, Exists
  <2>2. CASE Link(s)
    BY <2>2, RowsAssumption DEF Link, Goto, SyncsOK, FetchedOK, Exists, Rows,
       IncomingInvoiceStatus
  <2>3. CASE CreateFetched(s)
    BY <2>3, InvoicesAssumption DEF CreateFetched, Goto, SyncsOK, FetchedOK, Exists, Rows,
       IncomingInvoiceStatus
  <2>4. QED
    BY <2>1, <2>2, <2>3 DEF SyncNext, QueryIncomingInvoices, SkipLinked, LookUp, FindUpload,
       FetchXml, SkipCreated, FinishSync, FailSync
<1>5. QED
  BY <1>1, <1>2, <1>3, <1>4 DEF ReviewsOK, FetchedOK, Exists

LEMMA NextTypeInv == TypeInv /\ [Next]_vars => TypeInv'
<1>1. TypeInv /\ UNCHANGED vars => TypeInv'
  BY DEF vars, row, review, sync, TypeInv, TypeOK, SyncsOK, ReviewsOK, FetchedOK, Exists
<1>2. QED
  BY <1>1, OcrTypeInv, ReviewTypeInv, SyncTypeInv DEF Next

\* Rows and processes keep to their types, for any number of them.
THEOREM TypeCorrect == Spec => []TypeOK
<1>1. TypeInv => TypeOK
  BY DEF TypeInv
<1>2. QED
  BY <1>1, InitTypeInv, NextTypeInv, PTL DEF Spec

-----------------------------------------------------------------------------
(***************************************************************************)
(* Synchronization.  Only the one write of an OCR brings a seller into an  *)
(* upload, and it comes before any link; so the seller and the number that *)
(* a run has found are still there when it links, and two runs that found  *)
(* the same upload found it for the same invoice.                          *)
(***************************************************************************)
UploadsInv ==
    \A u \in Uploads :
        sellerNip[u] # Null \/ ksefReference[u] # Null => ocr[u] = "end" /\ Exists(u)

LinksInv ==
    \A s \in Syncs : spc[s] = "linking" =>
        /\ sellerNip[found[s]] = SellerOf[current[s]]
        /\ invoiceNumber[found[s]] = NumberOf[current[s]]
        /\ ksefReference[found[s]] \in {Null, current[s]}

SyncInv == UploadsInv /\ LinksInv /\ HandledIsPresent /\ SyncedIsItsInvoice

LEMMA OcrSyncInv ==
  ASSUME TypeInv, SyncInv, NEW u \in Uploads, OcrNext(u)
  PROVE  SyncInv'
<1> USE DEF SyncInv, TypeInv, TypeOK
<1>1. /\ u \in Rows /\ Uploads \subseteq Rows
      /\ UNCHANGED <<spc, todo, current, found, handled>>
      /\ \A r \in Rows : r # u =>
            /\ status'[r] = status[r] /\ sellerNip'[r] = sellerNip[r]
            /\ invoiceNumber'[r] = invoiceNumber[r] /\ ksefReference'[r] = ksefReference[r]
      /\ \A r \in Uploads : r # u => ocr'[r] = ocr[r]
  BY DEF OcrNext, Create, SaveScan, SaveScanFails, StartOcr, StoreOcr, FailOcr, StoreFailure,
     StopOcr, Ocr, Rows, review, sync, row
\* Nothing was recognized yet, so that no run has found this upload.
<1>2. sellerNip[u] = Null /\ ksefReference[u] = Null
  BY DEF OcrNext, Create, SaveScan, SaveScanFails, StartOcr, StoreOcr, FailOcr, StoreFailure,
     StopOcr, Ocr, OcrRunning, UploadsInv
<1>3. \A s \in Syncs : spc[s] = "linking" => found[s] \in Uploads /\ found[s] # u
  BY <1>2, InvoicesAssumption, NullAssumption DEF LinksInv, SyncsOK
<1>4. UploadsInv'
  <2>1. CASE StoreOcr(u)
    BY <1>1, <2>1 DEF UploadsInv, StoreOcr, Ocr, Exists
  <2>2. CASE UNCHANGED <<sellerNip, ksefReference>>
    BY <1>1, <1>2, <2>2 DEF UploadsInv, Exists
  <2>3. QED
    BY <2>1, <2>2 DEF OcrNext, Create, SaveScan, SaveScanFails, StartOcr, FailOcr, StoreFailure,
       StopOcr, row
<1>5. LinksInv'
  BY <1>1, <1>3 DEF LinksInv
<1>6. HandledIsPresent'
  BY <1>1, <1>2, NullAssumption DEF HandledIsPresent, Stored, Exists, Rows
<1>7. status[u] # "KSEF_SYNCED" /\ status'[u] # "KSEF_SYNCED"
  BY <1>1, <1>2, NullAssumption DEF OcrNext, Create, SaveScan, SaveScanFails, StartOcr, StoreOcr,
     FailOcr, StoreFailure, StopOcr, row, SyncedIsItsInvoice, Rows
<1>8. SyncedIsItsInvoice'
  BY <1>1, <1>7 DEF SyncedIsItsInvoice
<1>9. QED
  BY <1>4, <1>5, <1>6, <1>8

LEMMA ReviewSyncInv ==
  ASSUME Corrects = FALSE, TypeInv, SyncInv, NEW v \in Reviewers, ReviewNext(v)
  PROVE  SyncInv'
<1>1. /\ UNCHANGED <<ocr, spc, todo, current, found, handled>>
      /\ UNCHANGED <<sellerNip, invoiceNumber, ksefReference>>
  BY DEF ReviewNext, ReadForConfirm, Confirm, ReadForReject, Reject, EndReview, row, sync
<1>2. \A r \in Rows : /\ Exists(r) => Exists(r)'
                      /\ status'[r] = "KSEF_SYNCED" => status[r] = "KSEF_SYNCED"
  BY DEF ReviewNext, ReadForConfirm, Confirm, ReadForReject, Reject, EndReview, row, Exists,
     TypeInv, TypeOK
<1>3. QED
  BY <1>1, <1>2 DEF SyncInv, UploadsInv, LinksInv, HandledIsPresent, Stored, SyncedIsItsInvoice, Rows

LEMMA SyncSyncInv ==
  ASSUME TypeInv, SyncInv, NEW s \in Syncs, SyncNext(s)
  PROVE  SyncInv'
<1> USE DEF SyncInv, TypeInv, TypeOK
<1>0. /\ Uploads \subseteq Rows /\ Invoices \subseteq Rows
      /\ Null \notin Invoices /\ Uploads \cap Invoices = {}
  BY RowsAssumption, NullAssumption DEF Rows
<1>1. /\ ocr' = ocr
      /\ \A t \in Syncs : t # s =>
            /\ spc'[t] = spc[t] /\ current'[t] = current[t]
            /\ found'[t] = found[t] /\ handled'[t] = handled[t]
  BY DEF SyncNext, QueryIncomingInvoices, SkipLinked, LookUp, FindUpload, Link, FetchXml,
     CreateFetched, SkipCreated, FinishSync, FailSync, Goto, Count
<1>2. ASSUME UNCHANGED row,
             \A k \in handled'[s] : k \in handled[s] \/ Stored(k)
      PROVE  UploadsInv' /\ HandledIsPresent' /\ SyncedIsItsInvoice'
  BY <1>1, <1>2 DEF row, UploadsInv, HandledIsPresent, Stored, SyncedIsItsInvoice, Exists
<1>3. ASSUME NEW u \in Uploads, FindUpload(s, u)
      PROVE  SyncInv'
  <2>1. LinksInv'
    BY <1>1, <1>3 DEF FindUpload, Matches, Goto, LinksInv, row
  <2>2. QED
    BY <1>2, <1>3, <2>1 DEF FindUpload
<1>4. ASSUME UNCHANGED row, spc'[s] # "linking"
      PROVE  LinksInv'
  BY <1>1, <1>4 DEF LinksInv, row
<1>5. CASE QueryIncomingInvoices(s) \/ FetchXml(s) \/ FinishSync(s) \/ FailSync(s)
  BY <1>2, <1>4, <1>5 DEF QueryIncomingInvoices, FetchXml, FinishSync, FailSync, Goto
<1>6. ASSUME NEW k \in Invoices, SkipLinked(s, k) \/ LookUp(s, k)
      PROVE  SyncInv'
  BY <1>2, <1>4, <1>6 DEF SkipLinked, LookUp, Goto, Count
<1>7. CASE SkipCreated(s)
  BY <1>2, <1>4, <1>7 DEF SkipCreated, Goto, Count, SyncsOK
<1>8. CASE Link(s)
  <2>1. PICK f \in Uploads, k \in Invoices :
          /\ found[s] = f /\ current[s] = k
          /\ sellerNip[f] = SellerOf[k] /\ invoiceNumber[f] = NumberOf[k]
          /\ ksefReference[f] \in {Null, k}
    BY <1>8 DEF Link, Goto, SyncsOK, LinksInv
  <2>2. /\ ksefReference' = [ksefReference EXCEPT ![f] = k]
        /\ status' = [status EXCEPT ![f] = "KSEF_SYNCED"]
        /\ UNCHANGED <<sellerNip, invoiceNumber>>
        /\ spc'[s] = "next" /\ handled'[s] = handled[s] \cup {k}
    BY <1>8, <2>1 DEF Link, Goto, Count
  <2>3. ocr[f] = "end" /\ Exists(f)
    BY <2>1, InvoicesAssumption, NullAssumption DEF UploadsInv
  <2>4. UploadsInv'
    BY <1>0, <1>1, <2>2, <2>3 DEF UploadsInv, Exists
  <2>5. ASSUME NEW t \in Syncs, spc'[t] = "linking"
        PROVE  /\ sellerNip'[found'[t]] = SellerOf[current'[t]]
               /\ invoiceNumber'[found'[t]] = NumberOf[current'[t]]
               /\ ksefReference'[found'[t]] \in {Null, current'[t]}
    <3>1. /\ t # s /\ spc[t] = "linking" /\ found'[t] = found[t] /\ current'[t] = current[t]
          /\ found[t] \in Uploads /\ current[t] \in Invoices
      BY <1>1, <2>2, <2>5 DEF SyncsOK
    <3>2. found[t] = f => current[t] = k
      BY <2>1, <3>1, InvoicesAssumption DEF LinksInv
    <3>3. QED
      BY <1>0, <2>2, <3>1, <3>2 DEF LinksInv
  <2>6. LinksInv'
    BY <2>5 DEF LinksInv
  <2>7. ASSUME NEW t \in Syncs, NEW l \in handled'[t]
        PROVE  \E r \in Rows : Exists(r)' /\ ksefReference'[r] = l
    <3>1. CASE l = k
      BY <1>0, <2>2, <3>1 DEF Exists
    <3>2. CASE l # k
      <4>1. l \in handled[t] /\ l \in Invoices
        BY <1>1, <2>2, <3>2
      <4>2. PICK r \in Rows : Exists(r) /\ ksefReference[r] = l
        BY <4>1 DEF HandledIsPresent, Stored
      <4>3. r # f
        BY <1>0, <2>1, <3>2, <4>1, <4>2
      <4>4. QED
        BY <2>2, <4>2, <4>3 DEF Exists
    <3>3. QED
      BY <3>1, <3>2
  <2>8. HandledIsPresent'
    BY <2>7 DEF HandledIsPresent, Stored
  <2>9. SyncedIsItsInvoice'
    BY <1>0, <2>1, <2>2 DEF SyncedIsItsInvoice
  <2>10. QED
    BY <2>4, <2>6, <2>8, <2>9
<1>9. CASE CreateFetched(s)
  <2>1. PICK k \in Invoices : current[s] = k
    BY <1>9 DEF CreateFetched, Goto, SyncsOK
  <2>2. /\ \A r \in Rows : r # k =>
              /\ status'[r] = status[r] /\ ksefReference'[r] = ksefReference[r]
              /\ sellerNip'[r] = sellerNip[r] /\ invoiceNumber'[r] = invoiceNumber[r]
        /\ status'[k] = "CONFIRMED" /\ ksefReference'[k] = k
        /\ spc'[s] = "next" /\ handled'[s] = handled[s] \cup {k}
    BY <1>0, <1>9, <2>1 DEF CreateFetched, Goto, Count
  <2>3. UploadsInv'
    BY <1>0, <1>1, <2>2 DEF UploadsInv, Exists
  <2>4. LinksInv'
    BY <1>0, <1>1, <2>2 DEF LinksInv, SyncsOK
  <2>5. HandledIsPresent'
    BY <1>0, <1>1, <2>2 DEF HandledIsPresent, Stored, Exists
  <2>6. SyncedIsItsInvoice'
    BY <1>0, <2>2 DEF SyncedIsItsInvoice
  <2>7. QED
    BY <2>3, <2>4, <2>5, <2>6
<1>10. QED
  BY <1>3, <1>5, <1>6, <1>7, <1>8, <1>9 DEF SyncNext

LEMMA Synchronized ==
  ASSUME Corrects = FALSE
  PROVE  Spec => [](TypeInv /\ SyncInv)
<1>1. Init => SyncInv
  BY DEF Init, SyncInv, UploadsInv, LinksInv, HandledIsPresent, Stored, SyncedIsItsInvoice, Rows, Exists
<1>2. TypeInv /\ SyncInv /\ UNCHANGED vars => SyncInv'
  BY DEF vars, row, sync, SyncInv, UploadsInv, LinksInv, HandledIsPresent, Stored, SyncedIsItsInvoice,
     Exists
<1>3. TypeInv /\ SyncInv /\ [Next]_vars => SyncInv'
  BY <1>2, OcrSyncInv, ReviewSyncInv, SyncSyncInv DEF Next
<1>4. QED
  BY <1>1, <1>3, InitTypeInv, NextTypeInv, PTL DEF Spec

\* An invoice that some run counted is in the database with its reference,
\* whatever overlapping runs, OCR and reviews do, as long as no user corrects
\* the number of a scan.
THEOREM CountedInvoicesArePresent ==
  ASSUME Corrects = FALSE
  PROVE  Spec => []HandledIsPresent
<1>1. TypeInv /\ SyncInv => HandledIsPresent
  BY DEF SyncInv
<1>2. QED
  BY <1>1, Synchronized, PTL

\* Under the same condition a scan is only ever linked to the invoice that it
\* shows.
THEOREM SyncedScansMatch ==
  ASSUME Corrects = FALSE
  PROVE  Spec => []SyncedIsItsInvoice
<1>1. TypeInv /\ SyncInv => SyncedIsItsInvoice
  BY DEF SyncInv
<1>2. QED
  BY <1>1, Synchronized, PTL

\* What was fetched from KSeF is never changed, even if users correct scans.
THEOREM FetchedInvoicesAreFinal == Spec => FetchedIsFinal
<1> DEFINE Same(k) == /\ status'[k] = status[k] /\ sellerNip'[k] = sellerNip[k]
                      /\ invoiceNumber'[k] = invoiceNumber[k]
                      /\ ksefReference'[k] = ksefReference[k]
<1>1. ASSUME TypeInv, Next
      PROVE  \A k \in Invoices : Exists(k) => Same(k)
  <2> SUFFICES ASSUME NEW k \in Invoices, Exists(k)
               PROVE  Same(k)
    OBVIOUS
  <2>0. k \in Rows /\ k \notin Uploads /\ status[k] = "CONFIRMED" /\ ksefReference[k] = k
    BY <1>1, RowsAssumption DEF Rows, TypeInv, TypeOK, FetchedOK, Exists
  <2>1. ASSUME NEW u \in Uploads, OcrNext(u)
        PROVE  Same(k)
    BY <1>1, <2>0, <2>1 DEF OcrNext, Create, SaveScan, SaveScanFails, StartOcr, StoreOcr, FailOcr,
       StoreFailure, StopOcr, row, TypeInv, TypeOK
  <2>2. ASSUME NEW v \in Reviewers, ReviewNext(v)
        PROVE  Same(k)
    BY <1>1, <2>0, <2>2 DEF ReviewNext, ReadForConfirm, Confirm, ReadForReject, Reject, EndReview,
       Review, row, TypeInv, TypeOK, ReviewsOK
  <2>3. ASSUME NEW s \in Syncs, SyncNext(s)
        PROVE  Same(k)
    <3>1. CASE UNCHANGED row
      BY <3>1 DEF row
    <3>2. CASE Link(s)
      BY <1>1, <2>0, <3>2 DEF Link, Goto, TypeInv, TypeOK, SyncsOK
    <3>3. CASE CreateFetched(s)
      \* The invoice at hand is another one: this one has its row.
      <4>1. current[s] # k
        BY <1>1, <2>0, <3>3 DEF CreateFetched, Stored
      <4>2. QED
        BY <1>1, <2>0, <3>3, <4>1 DEF CreateFetched, TypeInv, TypeOK
    <3>4. QED
      BY <2>3, <3>1, <3>2, <3>3 DEF SyncNext, QueryIncomingInvoices, SkipLinked, LookUp,
         FindUpload, FetchXml, SkipCreated, FinishSync, FailSync
  <2>4. QED
    BY <1>1, <2>1, <2>2, <2>3 DEF Next
<1>2. TypeInv /\ [Next]_vars =>
        [\A k \in Invoices : Exists(k) =>
            /\ status'[k] = status[k]
            /\ sellerNip'[k] = sellerNip[k]
            /\ invoiceNumber'[k] = invoiceNumber[k]
            /\ ksefReference'[k] = ksefReference[k]]_vars
  <2> SUFFICES ASSUME TypeInv, Next
               PROVE  \A k \in Invoices : Exists(k) => Same(k)
    OBVIOUS
  <2>1. QED
    BY <1>1
<1>3. QED
  BY <1>2, InitTypeInv, NextTypeInv, PTL DEF Spec, FetchedIsFinal
=============================================================================
