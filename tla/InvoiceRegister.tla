---------------------------- MODULE InvoiceRegister ----------------------------
(***************************************************************************)
(* The register of issued invoices of one company: drafts and their         *)
(* amounts, issued documents, corrections, reverts, and the figures that    *)
(* are drawn from the rows.                                                *)
(* Source: apps/api/src/routes/invoices/outgoing.ts, routes/reports.ts,    *)
(* services/contractor-financials.service.ts, dashboard-summary.service.ts *)
(* and of the web application InvoiceActions.tsx.                          *)
(*                                                                         *)
(* One company and one environment: every query filters by both.  How an   *)
(* invoice is numbered, issued and sent is in InvoiceIssuance and in       *)
(* KsefSubmission; here each is one step.  Dates are left out: all figures *)
(* are of one year.  Payments are left out: one request sets them.         *)
(***************************************************************************)
EXTENDS InvoiceDocuments, FiniteSets, Functions

CONSTANTS
    Invoices, Contractors, Requests,
    Originals,          \* bound: the invoices that are drafted and edited
    Typed, Retyped,     \* the lines of a draft, as they may be typed, and edited
    Corrections,        \* bodies of requests for a correction
    None

\* A body, after trimming, has a mode, a number and a reason.
ASSUME CorrectionAssumption ==
    \A body \in Corrections :
        DOMAIN body = {"correctionMode", "correctedInvoiceNumber", "reason"}

\* Lines, once their schema has let them in.
ASSUME LinesAssumption ==
    Typed \cup Retyped \subseteq Seq([quantity : Decimals, unitNetPrice : Decimals,
                                      vatRate : VatRates])

\* The KSeF states of an invoice that waits for its verdict; here the second.
Pending == {"QUEUED", "SUBMITTED", "OFFLINE_QUEUED"}

\* None stands for columns that are null, and for invoices without a KSeF state.
ASSUME NoneAssumption == None \notin Pending \cup {"ACCEPTED", "REJECTED"}

VARIABLES
    invoice,            \* the invoices there are, with lines, breakdown and KSeF state
    documents,          \* the files of the invoice: the XML and the PDF
    request,            \* requests being handled
    \* overtaken: invoices that were sent and reverted by two requests at a time
    overtaken

vars == <<invoice, documents, request, overtaken>>

NoRequest == [pc |-> "idle"]

Init ==
    /\ invoice = [i \in {} |-> None]
    /\ documents = [i \in Invoices |-> None]
    /\ request = [q \in Requests |-> NoRequest]
    /\ overtaken = {}

Present == DOMAIN invoice
HasStatus(i, status) == i \in Present /\ invoice[i].status = status

Set(i, row) == invoice' = [k \in Present \cup {i} |-> IF k = i THEN row ELSE invoice[k]]

-----------------------------------------------------------------------------
(***************************************************************************)
(* Drafts, issuance and KSeF                                               *)
(***************************************************************************)
\* Whether the columns of the database hold the numbers of the lines as typed.
Fine(lines) ==
    \A k \in DOMAIN lines :
        lines[k].quantity.scale <= StoredScale /\ lines[k].unitNetPrice.scale <= StoredScale

\* What is stored of the lines that may be typed: a constant, computed once.
DraftOf == [lines \in Typed \cup Retyped |-> Calculated(lines)]

CreateDraft(i, contractor, lines) ==
    LET calculated == DraftOf[lines]
    IN
    /\ i \in Originals \ Present
    /\ Set(i, [invoiceType |-> "VAT", status |-> "DRAFT", ksef |-> None,
               contractorId |-> contractor,
               lines |-> calculated.lines, totals |-> calculated.totals,
               breakdown |-> calculated.breakdown, fine |-> Fine(lines),
               correction |-> None])
    /\ UNCHANGED <<documents, request, overtaken>>

\* PUT: the lines of a draft are replaced.
EditDraft(i, lines) ==
    LET calculated == DraftOf[lines]
    IN
    /\ i \in Originals /\ HasStatus(i, "DRAFT")
    /\ Set(i, [invoice[i] EXCEPT !.lines = calculated.lines, !.totals = calculated.totals,
                                 !.breakdown = calculated.breakdown, !.fine = Fine(lines)])
    /\ UNCHANGED <<documents, request, overtaken>>

\* The snapshot of an invoice for its documents, with totals computed anew.
InvoiceData(i) ==
    [invoiceType |-> invoice[i].invoiceType,
     correction |-> IF invoice[i].correction = None THEN {}
                    ELSE {invoice[i].correction.correctedInvoiceId},
     lines |-> invoice[i].lines, totals |-> Totals(invoice[i].lines)]

Issue(i) ==
    LET data == InvoiceData(i)
    IN
    /\ HasStatus(i, "DRAFT")
    /\ invoice[i].contractorId # None
    /\ Buildable(data)
    /\ Set(i, [invoice[i] EXCEPT !.status = "ISSUED", !.totals = data.totals])
    /\ documents' = [documents EXCEPT ![i] = [xml |-> Fa3Xml(data), pdf |-> Pdf(data)]]
    /\ UNCHANGED <<request, overtaken>>

\* An answer of KSeF to a submission.
KsefVerdict(i, verdict) ==
    /\ i \in Present /\ invoice[i].ksef \in Pending
    /\ Set(i, [invoice[i] EXCEPT !.ksef = verdict])
    /\ UNCHANGED <<documents, request, overtaken>>

Goto(q, place) == request' = [request EXCEPT ![q] = place]
Finish(q) == Goto(q, NoRequest)

\* A submission: the invoice is read, and later its KSeF state is claimed, if it
\* still has none.
ReadForSubmission(q, i) ==
    /\ request[q] = NoRequest
    /\ HasStatus(i, "ISSUED") /\ invoice[i].ksef = None
    /\ Goto(q, [pc |-> "claim", invoice |-> i])
    /\ UNCHANGED <<invoice, documents, overtaken>>

ClaimSubmission(q) ==
    LET i == request[q].invoice
    IN
    /\ request[q].pc = "claim"
    /\ \/ /\ invoice[i].ksef = None
          /\ Set(i, [invoice[i] EXCEPT !.ksef = "SUBMITTED"])
          /\ overtaken' = IF HasStatus(i, "ISSUED") THEN overtaken ELSE overtaken \cup {i}
       \/ /\ invoice[i].ksef # None
          /\ UNCHANGED <<invoice, overtaken>>
    /\ Finish(q)
    /\ UNCHANGED documents

-----------------------------------------------------------------------------
(***************************************************************************)
(* Corrections                                                             *)
(***************************************************************************)
\* normalizeCorrectionRequest: what is refused.  The corrected number, when there
\* is one, is not that of the original.
Normal(body) ==
    IF body.correctionMode = "FORMAL"
    THEN body.correctedInvoiceNumber # None \/ body.reason # None
    ELSE body.correctedInvoiceNumber = None

\* correctionRequestHash.
RequestHash(i, body) ==
    [correctedInvoiceId |-> i, correctionMode |-> body.correctionMode,
     correctedInvoiceNumber |-> body.correctedInvoiceNumber, reason |-> body.reason]
ASSUME HashAssumption ==
    \A i \in Invoices, body \in Corrections : RequestHash(i, body) # None

\* Mutant: an invoice corrected as soon as it is issued.
ReadForCorrectionOfIssued(q, i, body) ==
    /\ request[q] = NoRequest
    /\ HasStatus(i, "ISSUED")
    /\ Normal(body)
    /\ Goto(q, [pc |-> "find", original |-> invoice[i], hash |-> RequestHash(i, body)])
    /\ UNCHANGED <<invoice, documents, overtaken>>

\* The original is read with its lines; KSeF must have accepted it.
ReadForCorrection(q, i, body) ==
    /\ request[q] = NoRequest
    /\ i \in Present /\ invoice[i].ksef = "ACCEPTED"
    /\ Normal(body)
    /\ Goto(q, [pc |-> "find", original |-> invoice[i], hash |-> RequestHash(i, body)])
    /\ UNCHANGED <<invoice, documents, overtaken>>

OfHash(hash) == {k \in Present : invoice[k].correction = hash}

Answer(q, k) ==
    Goto(q, [pc |-> "answered", hash |-> request[q].hash, correction |-> k])

\* The transaction looks for an equal request that was served before.
FindCorrection(q) ==
    /\ request[q].pc = "find"
    /\ \/ \E k \in OfHash(request[q].hash) : Answer(q, k)
       \/ /\ OfHash(request[q].hash) = {}
          /\ Goto(q, [request[q] EXCEPT !.pc = "create"])
    /\ UNCHANGED <<invoice, documents, overtaken>>

\* getCorrectionAmountPrefix.
IsNegative(correctionMode) == correctionMode = "CANCELLATION"

\* The draft of a correction: the original's rows, with a sign before every
\* amount when it is a cancellation.
Correction(original, hash) ==
    LET negative == IsNegative(hash.correctionMode)
        lines == original.lines
        Signed(amounts) == IF negative THEN Minus(amounts) ELSE amounts
    IN
    [original EXCEPT
        !.invoiceType = "KOR", !.status = "DRAFT", !.ksef = None, !.correction = hash,
        !.lines = [k \in DOMAIN lines |-> IF negative THEN Negative(lines[k]) ELSE lines[k]],
        !.totals = Signed(@),
        !.breakdown = [vatRate \in DOMAIN @ |-> Signed(@[vatRate])]]

\* A sign before an amount that has one makes no number: a cancellation cannot be
\* cancelled.
HasSign(row) == \E k \in DOMAIN row.lines : row.lines[k].unitNetPrice.unscaled < 0
Impossible(original, hash) == IsNegative(hash.correctionMode) /\ HasSign(original)

\* Mutant: no unique index on correctionRequestHash.
CreateCorrectionUnchecked(q, i) ==
    /\ request[q].pc = "create"
    /\ i \notin Present
    /\ Set(i, Correction(request[q].original, request[q].hash))
    /\ Answer(q, i)
    /\ UNCHANGED <<documents, overtaken>>

\* With the row of the original locked, the correction is made, unless its hash
\* is taken: then the transaction is undone and the other correction is found.
CreateCorrection(q, i) ==
    /\ request[q].pc = "create"
    /\ \/ /\ OfHash(request[q].hash) = {}
          /\ ~Impossible(request[q].original, request[q].hash)
          /\ i \notin Present \cup Originals
          /\ Set(i, Correction(request[q].original, request[q].hash))
       \/ /\ i \in OfHash(request[q].hash)
          /\ UNCHANGED invoice
    /\ Answer(q, i)
    /\ UNCHANGED <<documents, overtaken>>

CorrectionFails(q) ==
    /\ request[q].pc = "create"
    /\ Impossible(request[q].original, request[q].hash)
    /\ Finish(q)
    /\ UNCHANGED <<invoice, documents, overtaken>>

CorrectionAnswered(q) ==
    /\ request[q].pc = "answered"
    /\ Finish(q)
    /\ UNCHANGED <<invoice, documents, overtaken>>

-----------------------------------------------------------------------------
(***************************************************************************)
(* Reverts                                                                 *)
(***************************************************************************)
ReadForRevert(q, i) ==
    /\ request[q] = NoRequest
    /\ HasStatus(i, "ISSUED") /\ invoice[i].ksef = None
    /\ Goto(q, [pc |-> "revert", invoice |-> i])
    /\ UNCHANGED <<invoice, documents, overtaken>>

\* The records of the files are deleted, and the row becomes a draft.
RevertToDraft(q) ==
    LET i == request[q].invoice
    IN
    /\ request[q].pc = "revert"
    /\ documents' = [documents EXCEPT ![i] = None]
    /\ Set(i, [invoice[i] EXCEPT !.status = "DRAFT"])
    /\ overtaken' = IF invoice[i].ksef = None THEN overtaken ELSE overtaken \cup {i}
    /\ Finish(q)

-----------------------------------------------------------------------------
(***************************************************************************)
(* Figures                                                                 *)
(***************************************************************************)
\* The sum of the amounts of some rows, in any order.
SumOf(amounts) == FoldFunction(+, 0, amounts)

Gross(i) == invoice[i].totals.gross

Issued == {i \in Invoices : HasStatus(i, "ISSUED")}

CorrectionMode(i) ==
    IF invoice[i].correction = None THEN None ELSE invoice[i].correction.correctionMode

\* The condition NOT (correctionMode = 'FORMAL'), which in SQL is unknown where
\* correctionMode is null: such rows are not found.
IsNotFormal(i) == CorrectionMode(i) # None /\ CorrectionMode(i) # "FORMAL"

OfTurnover(c) == {i \in Issued : IsNotFormal(i) /\ invoice[i].contractorId = c}

\* buildContractorSummary.
Turnover(c) == SumOf([i \in OfTurnover(c) |-> Gross(i)])

\* The amounts of a rate, whether the invoice has lines of it or not.
AmountsOf(breakdown, vatRate) ==
    IF vatRate \in DOMAIN breakdown THEN breakdown[vatRate] ELSE Zero

GrossOfRates(breakdown) ==
    LET Of(vatRate) == AmountsOf(breakdown, vatRate).gross
    IN  Of("23") + Of("8") + Of("5") + Of("0") + Of("zw") + Of("np") + Of("oo")

\* The gross amounts of the VAT register, which has a row for each rate of each
\* invoice.
VatRegisterGross == SumOf([i \in Issued |-> GrossOfRates(invoice[i].breakdown)])

Ksef(status) == {i \in Issued : invoice[i].ksef = status}

\* Mutant: only rows of KSeF states that say so.
NotSubmittedOfStates == Ksef("NOT_SENT")

\* The queries of the dashboard, and of the list of invoices by KSeF status.
NotSubmitted == Ksef(None) \cup Ksef("NOT_SENT")

KsefCounts ==
    [accepted |-> Cardinality(Ksef("ACCEPTED")),
     pending |-> Cardinality(UNION {Ksef(status) : status \in Pending}),
     rejected |-> Cardinality(Ksef("REJECTED")), notSubmitted |-> Cardinality(NotSubmitted)]

AcceptedSales == SumOf([i \in Ksef("ACCEPTED") |-> Gross(i)])

-----------------------------------------------------------------------------
Next ==
    \/ \E i \in Invoices :
        \/ \E c \in Contractors \cup {None}, lines \in Typed : CreateDraft(i, c, lines)
        \/ \E lines \in Retyped : EditDraft(i, lines)
        \/ Issue(i)
        \/ \E verdict \in {"ACCEPTED", "REJECTED"} : KsefVerdict(i, verdict)
    \/ \E q \in Requests :
        \/ \E i \in Invoices : ReadForSubmission(q, i)
        \/ ClaimSubmission(q)
        \/ \E i \in Invoices, body \in Corrections : ReadForCorrection(q, i, body)
        \/ FindCorrection(q)
        \/ \E i \in Invoices : CreateCorrection(q, i)
        \/ CorrectionFails(q)
        \/ CorrectionAnswered(q)
        \/ \E i \in Invoices : ReadForRevert(q, i)
        \/ RevertToDraft(q)

Spec == Init /\ [][Next]_vars

-----------------------------------------------------------------------------
(***************************************************************************)
(* Properties                                                              *)
(***************************************************************************)
\* Equal requests for a correction, sent together or one after another, make
\* one correction, and both get it.
OneCorrectionPerRequest ==
    /\ \A i, k \in Present :
           invoice[i].correction = invoice[k].correction /\ invoice[i].correction # None => i = k
    /\ \A q \in Requests : request[q].pc = "answered" =>
           OfHash(request[q].hash) = {request[q].correction}

CorrectionsOf(i) ==
    {k \in Present : invoice[k].correction # None /\ invoice[k].correction.correctedInvoiceId = i}

\* What was corrected is in KSeF for good; it stays issued, unless it was
\* reverted and sent by two requests at a time.
CorrectedStaysAccepted ==
    \A i \in Invoices : CorrectionsOf(i) # {} =>
        /\ invoice[i].ksef = "ACCEPTED"
        /\ invoice[i].status = "ISSUED" \/ i \in overtaken

Documented == {i \in Issued : documents[i] # None}

SignOf(k) == IF IsNegative(CorrectionMode(k)) THEN -1 ELSE 1

\* The XML of a correction names the invoice that it corrects.  That of a
\* cancellation says exactly the opposite, in every rate of VAT and to the last
\* grosz, although all amounts are computed again; that of a formal correction
\* says the same.  (No correction is edited here: see Originals.)
CorrectionBalances ==
    \A i \in Documented \ overtaken : \A k \in CorrectionsOf(i) \cap Documented :
        LET of == documents[i].xml
            by == documents[k].xml
        IN
        /\ by.DaneFaKorygowanej = {i}
        /\ by.summary = {<<field[1], SignOf(k) * field[2]>> : field \in of.summary}
        /\ by.P_15 = SignOf(k) * of.P_15
        /\ invoice[k].totals.gross = by.P_15

\* The rows of an issued invoice and its XML agree, line by line and rate by
\* rate: the breakdown was computed from the numbers as typed, the XML from those
\* the database kept.  Numbers of more than four decimals are the exception.  The
\* buyer's copy reads the same VAT and gross amount out of the XML; its net amount
\* is that of the lines at 23%, 8% and 5%.  The PDF computes the VAT of a rate from
\* net amounts that are not rounded: it is off by a grosz a line at most.
XmlSaysWhatIsStored ==
    \A i \in Documented :
        LET row == invoice[i]
            xml == documents[i].xml
            breakdown == row.breakdown
        IN
        /\ ContractValid(xml)
        /\ xml.P_15 = row.totals.gross
        /\ row.fine =>
               /\ xml.summary = VatSummary(breakdown)
               /\ \A k \in DOMAIN row.lines : xml.rows[k].P_11 = row.lines[k].totals.net
               /\ ParsedFa3Xml(xml) =
                      [net |-> AmountsOf(breakdown, "23").net + AmountsOf(breakdown, "8").net
                               + AmountsOf(breakdown, "5").net,
                       vat |-> row.totals.vat, gross |-> row.totals.gross]
               /\ \A r \in DOMAIN breakdown :
                      Magnitude(documents[i].pdf.breakdown[r].vat - breakdown[r].vat)
                          <= Cardinality({k \in DOMAIN row.lines : row.lines[k].vatRate = r})

\* The number that words name, read from left to right.
Read(sum, word) ==
    CASE word[1] = "liczba" -> [sum EXCEPT !.group = @ + word[2]]
      [] word[1] = "tysiac" ->
            [total |-> sum.total + 1000 * (IF sum.group = 0 THEN 1 ELSE sum.group), group |-> 0]
      [] word[1] = "milion" -> [total |-> sum.total + 1000000 * sum.group, group |-> 0]

NumberOf(words) ==
    LET sum[n \in 0 .. Len(words)] ==
            IF n = 0 THEN [total |-> 0, group |-> 0] ELSE Read(sum[n - 1], words[n])
        all == sum[Len(words)]
    IN  all.total + all.group

\* The plural of nouns: after a number that ends in 2, 3 or 4, but not in 12, 13
\* or 14, and any other.
FormAfter(n) ==
    IF n = 1 THEN 1
    ELSE IF n % 10 \in {2, 3, 4} /\ n % 100 \notin {12, 13, 14} THEN 2 ELSE 5

\* The numbers that integerToWords has words for are below.
WordsEnd == 1000000000

\* The words on the PDF name the amount that is due, and in correct Polish, up to
\* 999 999 999.99 zl.
WordsSayTheAmount ==
    \A i \in Documented :
        LET slownie == documents[i].pdf.slownie
            zlote == NumberOf(slownie.words)
            amount == 100 * zlote + slownie.grosze
            gross == invoice[i].totals.gross
        IN
        Magnitude(gross) \div 100 < WordsEnd =>
            /\ gross = IF slownie.minus THEN -amount ELSE amount
            /\ slownie.zloty = FormAfter(zlote)
            /\ \A k \in DOMAIN slownie.words : slownie.words[k][1] = "tysiac" =>
                   slownie.words[k][2] = FormAfter(zlote \div 1000 % 1000)

\* The dashboard counts every issued invoice once.  When KSeF has accepted all of
\* them its sales are those of the VAT register, although the one adds the totals
\* computed at issuance and the other the breakdown of the draft: numbers of more
\* than four decimals are the exception again.
BooksAgree ==
    /\ KsefCounts.accepted + KsefCounts.pending + KsefCounts.rejected + KsefCounts.notSubmitted
           = Cardinality(Issued)
    /\ KsefCounts.accepted = Cardinality(Issued) /\ (\A i \in Issued : invoice[i].fine) =>
           AcceptedSales = VatRegisterGross

\* The turnover of a contractor is that of all issued documents but formal
\* corrections, which repeat the amounts of what they correct.
TurnoverLeavesOutFormal ==
    \A c \in Contractors :
        LET documented == {i \in Issued : /\ invoice[i].contractorId = c
                                           /\ CorrectionMode(i) # "FORMAL"}
        IN  Turnover(c) = SumOf([i \in documented |-> Gross(i)])

=============================================================================
