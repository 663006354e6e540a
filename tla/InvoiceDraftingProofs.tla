------------------------ MODULE InvoiceDraftingProofs ------------------------
(***************************************************************************)
(* Proofs about InvoiceDrafting, for any sets of contractors, services,    *)
(* prices and lines.                                                       *)
(***************************************************************************)
EXTENDS InvoiceDrafting, InvoiceMathProofs

-----------------------------------------------------------------------------
(***************************************************************************)
(* A page is framed: what an action of one page leaves to the others.      *)
(***************************************************************************)
\* Calls of the page of the catalogue.
CatalogueOps == {"createTemplate", "patchTemplate", "archive", "restore"}
\* Calls of the page of a contractor.
ContractorOps == {"patchContractor", "upsertRate", "deleteRate"}
\* The page that sends a call.
PageOf(op) ==
    IF op \in CatalogueOps THEN "catalogue"
    ELSE IF op \in ContractorOps THEN "contractor"
    ELSE IF op = "createDraft" THEN "new" ELSE "edit"

\* A page is a record; a call is under way only on the page that sent it.
IsPage(view) == view = [x \in DOMAIN view |-> view[x]] /\ "kind" \in DOMAIN view

Framed ==
    /\ IsPage(page)
    /\ call.state \in {"sent", "done"} =>
            /\ call.op \in CatalogueOps \cup ContractorOps \cup {"createDraft", "updateDraft"}
            /\ page.kind = PageOf(call.op)

\* Everywhere a service is under its own name.
OwnRow(row, t) == row \in [name : {t}, unit : {t}, isActive : BOOLEAN]
\* A catalogue, in the database or on a page, whose services are their own.
OwnRows(table) ==
    /\ table = [t \in Templates |-> table[t]]
    /\ \A t \in Templates : table[t] = None \/ OwnRow(table[t], t)

\* What the page of the catalogue shows, and what it typed for whom.
CatalogueShown ==
    /\ DOMAIN page = {"kind", "templates", "statusFilter", "selectedId", "isCreating",
                      "formTemplateId", "form"}
    /\ OwnRows(page.templates)
    /\ page.form = [name |-> page.formTemplateId, unit |-> page.formTemplateId]
    /\ page.isCreating \in BOOLEAN
    /\ page.isCreating => page.formTemplateId = None

\* What it has sent, and what the answer brings.
CatalogueSent ==
    /\ call.op = "createTemplate" => call.data = EmptyForm
    /\ call.op = "patchTemplate" =>
            /\ call.data.template \in Templates
            /\ call.data.name = call.data.template /\ call.data.unit = call.data.template
    /\ call.op \in {"archive", "restore"} =>
            call.data \in Templates /\ page.templates[call.data] # None

CatalogueDone ==
    /\ call.saved.id \in Templates /\ OwnRow(call.saved.row, call.saved.id)
    /\ call.op = "archive" => page.templates[call.saved.id] # None

\* The invariant of the catalogue.
CatalogueOK ==
    /\ OwnRows(template)
    /\ page.kind = "catalogue" => CatalogueShown
    /\ call.state = "sent" => CatalogueSent
    /\ call.state = "done" /\ call.op \in CatalogueOps => CatalogueDone

\* The summary that is shown was asked for, for the contractor that is selected.
SummaryOK ==
    page.kind = "contractors" =>
        /\ DOMAIN page = {"kind", "filtered", "selectedId", "requested", "summary", "pending"}
        /\ page.requested = EffectiveContractor(page)
        /\ page.summary \in {None, page.requested}

\* Lines of a form, whose price may be missing, and lines of a draft.
GoodPrices == {price \in Decimals : RoundsAlike(price)}
Names == Templates \cup {None, OtherName}
FormLines ==
    [name : Names, unitNetPrice : GoodPrices \cup {None}, priceOf : Contractors \cup {None}]
SavedLines == [name : Names, unitNetPrice : GoodPrices, priceOf : Contractors \cup {None}]
\* Agreed rates, of any contractors and services.
Rates == [id : Nat, unitNetPrice : Prices]
AreRates(table, C, T) ==
    /\ table = [pair \in C \X T |-> table[pair]]
    /\ \A c \in C, t \in T : table[<<c, t>>] = None \/ table[<<c, t>>] \in Rates

\* Prices are those of the buyer, unless the form was switched.
OfBuyer(lines, switched, contractorId) ==
    ~switched => \A k \in DOMAIN lines : lines[k].priceOf \in {None, contractorId}

\* What was shown is the total of the lines and of those that were dropped.
IsShown(lines, shown) ==
    LET rowLines == [k \in DOMAIN lines |-> Priced(lines[k].unitNetPrice)]
    IN  shown.all = Plus(Totals(rowLines), shown.unnamed)

\* The draft, the form, and what the form sends.
IsDraft(row) ==
    /\ row = [x \in DOMAIN row |-> row[x]]
    /\ row.lines \in Seq(SavedLines)
    /\ OfBuyer(row.lines, row.switched, row.contractorId)
    /\ row.shown.all = Plus(row.totals, row.shown.unnamed)

IsForm(view) ==
    /\ DOMAIN view
          = {"kind", "contractors", "templates", "rates", "contractorId", "lines", "switched"}
    /\ DOMAIN view.templates \subseteq Templates
    /\ \A t \in DOMAIN view.templates : view.templates[t] \in Templates
    /\ view.contractors \subseteq Contractors
    /\ AreRates(view.rates, view.contractors, Templates)
    /\ view.lines \in Seq(FormLines)
    /\ OfBuyer(view.lines, view.switched, view.contractorId)

IsBody(data) ==
    /\ data.lines \in Seq(SavedLines)
    /\ OfBuyer(data.lines, data.switched, data.contractorId)
    /\ IsShown(data.lines, data.shown)

\* The invariants of the rates and of the form.
RatesOK ==
    /\ rates \in Nat
    /\ AreRates(rate, Contractors, Templates)
    /\ call.state = "sent" /\ call.op = "upsertRate" => call.data.unitNetPrice \in Prices

FormOK ==
    /\ draft # None => IsDraft(draft)
    /\ page.kind \in {"new", "edit"} => IsForm(page)
    /\ call.state = "sent" /\ call.op \in {"createDraft", "updateDraft"} => IsBody(call.data)

\* What is shown is what there is, or it is about to be read again.
ShownSoon ==
    page.shown = Shown \/ page.refreshing \/ \E slot \in Slots : Refreshes(page.flights[slot])

\* The invariant of the page of an invoice.
InvoiceOK ==
    /\ troubles \in Nat
    /\ page.kind = "invoice" =>
        /\ DOMAIN page = {"kind", "environment", "shown", "refreshing", "loading", "inFlight",
                          "showPayment", "confirm", "flights"}
        /\ page.flights = [slot \in Slots |-> page.flights[slot]]
        /\ \A slot \in Slots :
            /\ page.flights[slot] = [x \in DOMAIN page.flights[slot] |-> page.flights[slot][x]]
            /\ "state" \in DOMAIN page.flights[slot]
        /\ page.refreshing \in BOOLEAN
        /\ troubles = 0 => ShownSoon

\* The page that an action leaves.
StaysOn(kind) == page.kind \in {"none", kind} /\ page'.kind = kind /\ IsPage(page')

\* A page that is opened is framed,
LEMMA OpenedOn ==
  ASSUME page.kind = "none", IsPage(page'), UNCHANGED <<rows, call, troubles>>, Framed
  PROVE  Framed'
BY DEF Framed, PageOf, rows

\* and so is one that changes,
LEMMA ShownOn ==
  ASSUME IsPage(page'), page'.kind = page.kind, UNCHANGED <<rows, call, troubles>>, Framed
  PROVE  StaysOn(page.kind) /\ Framed'
BY DEF StaysOn, NoPage, Framed, IsPage, rows

\* that sends a call of its own,
LEMMA SentFrom ==
  ASSUME NEW op, NEW data, Send(op, data), Framed, page.kind = PageOf(op),
         op \in CatalogueOps \cup ContractorOps \cup {"createDraft", "updateDraft"}
  PROVE  /\ StaysOn(page.kind) /\ UNCHANGED <<rows, page, troubles>> /\ Framed'
         /\ call' = [state |-> "sent", op |-> op, data |-> data]
BY DEF Send, StaysOn, NoPage, Framed, IsPage, rows

\* or that receives an answer.
LEMMA ReceivedOn ==
  ASSUME NEW next, Receive(next), IsPage(page'), Framed
  PROVE  UNCHANGED <<rows, troubles>> /\ Framed' /\ call' = NoCall
BY DEF Receive, NoCall, Framed, IsPage, rows

\* What a call of a page may become.
CallOf(ops) == call' = call \/ call' = NoCall \/ (call'.state = "sent" /\ call'.op \in ops)

\* What the actions of a page leave to the other pages.
Frame(kinds, ops) ==
    /\ Framed' /\ UNCHANGED <<rows, troubles>> /\ CallOf(ops)
    /\ page.kind \in {"none"} \cup kinds /\ page'.kind \in {"none"} \cup kinds

\* What the actions of each page leave alone: the catalogue,
LEMMA CatalogueFrame ==
  ASSUME Framed, CataloguePage
  PROVE  Frame({"catalogue"}, CatalogueOps)
<1> USE DEF Frame, CallOf, OnCatalogue
<1>1. CASE OpenCatalogue
  <2>1. /\ page.kind = "none" /\ page'.kind = "catalogue" /\ IsPage(page')
        /\ UNCHANGED <<rows, call, troubles>>
    BY <1>1 DEF OpenCatalogue, Open, IsPage, NoPage
  <2>2. QED
    BY <2>1, OpenedOn
<1>2. CASE UpdateField \/ SelectRow \/ StartCreate \/ CloseMobileView \/ SetStatusFilter
  <2>1. IsPage(page') /\ page'.kind = page.kind
    <3>1. CASE UpdateField
      BY <3>1 DEF UpdateField, Show, IsPage, Framed
    <3>2. CASE SelectRow
      BY <3>2 DEF SelectRow, Show, IsPage, Framed
    <3>3. CASE StartCreate
      BY <3>3 DEF StartCreate, Show, IsPage, Framed
    <3>4. CASE CloseMobileView
      BY <3>4 DEF CloseMobileView, Show, IsPage, Framed
    <3>5. CASE SetStatusFilter
      BY <3>5 DEF SetStatusFilter, Show, IsPage, Framed
    <3>6. QED
      BY <1>2, <3>1, <3>2, <3>3, <3>4, <3>5
  <2>2. page.kind = "catalogue" /\ UNCHANGED <<rows, call, troubles>>
    BY <1>2 DEF UpdateField, SelectRow, StartCreate, CloseMobileView, SetStatusFilter, Show
  <2>3. QED
    BY <2>1, <2>2, ShownOn DEF StaysOn
<1>3. CASE HandleSave \/ ExecuteArchive \/ HandleRestore
  <2>1. PICK op \in CatalogueOps : \E data : Send(op, data)
    BY <1>3 DEF HandleSave, ExecuteArchive, HandleRestore, CatalogueOps
  <2>2. page.kind = "catalogue"
    BY <1>3 DEF HandleSave, ExecuteArchive, HandleRestore
  <2>3. PageOf(op) = "catalogue"
    BY DEF PageOf
  <2>4. QED
    BY <2>1, <2>2, <2>3, SentFrom DEF StaysOn
<1>4. CASE TemplateSaved \/ Archived \/ Restored
  <2>1. page.kind = "catalogue"
    BY <1>4 DEF TemplateSaved, Archived, Restored, Answered, Framed, PageOf, CatalogueOps
  <2>2. IsPage(page') /\ page'.kind = page.kind
    <3>1. CASE TemplateSaved
      BY <3>1 DEF TemplateSaved, Receive, IsPage, Framed
    <3>2. CASE Archived
      BY <3>2 DEF Archived, Receive, IsPage, Framed
    <3>3. CASE Restored
      BY <3>3 DEF Restored, Receive, IsPage, Framed
    <3>4. QED
      BY <1>4, <3>1, <3>2, <3>3
  <2>3. \E next : Receive(next)
    BY <1>4 DEF TemplateSaved, Archived, Restored
  <2>4. QED
    BY <2>1, <2>2, <2>3, ReceivedOn
<1>5. QED
  BY <1>1, <1>2, <1>3, <1>4 DEF CataloguePage

\* the page of a contractor,
LEMMA ContractorFrame ==
  ASSUME Framed, ContractorPage
  PROVE  Frame({"contractor"}, ContractorOps)
<1> USE DEF Frame, CallOf, OnContractor
<1>1. CASE OpenContractor
  <2>1. PICK c \in Contractors : \E table :
          Open([kind |-> "contractor", contractor |-> c, isActive |-> contractor[c],
                templates |-> ActiveTemplates, rates |-> table])
    BY <1>1, Zenon DEF OpenContractor
  <2>2. /\ page.kind = "none" /\ page'.kind = "contractor" /\ IsPage(page')
        /\ UNCHANGED <<rows, call, troubles>>
    BY <2>1 DEF Open, IsPage, NoPage
  <2>3. QED
    BY <2>2, OpenedOn
<1>2. CASE ToggleIsActive
  <2>1. IsPage(page') /\ page'.kind = page.kind /\ page.kind = "contractor"
        /\ UNCHANGED <<rows, call, troubles>>
    BY <1>2 DEF ToggleIsActive, Show, IsPage, Framed
  <2>2. QED
    BY <2>1, ShownOn DEF StaysOn
<1>3. CASE SaveContractor \/ HandleAdd \/ ExecuteDelete
  <2>1. PICK op \in ContractorOps : \E data : Send(op, data)
    BY <1>3 DEF SaveContractor, HandleAdd, ExecuteDelete, ContractorOps
  <2>2. page.kind = "contractor"
    BY <1>3 DEF SaveContractor, HandleAdd, ExecuteDelete
  <2>3. PageOf(op) = "contractor"
    BY DEF PageOf, ContractorOps, CatalogueOps
  <2>4. QED
    BY <2>1, <2>2, <2>3, SentFrom DEF StaysOn
<1>4. CASE ContractorSaved \/ RateAnswer
  <2>1. page.kind = "contractor"
    BY <1>4 DEF ContractorSaved, RateAnswer, Answered, Framed, PageOf, CatalogueOps, ContractorOps
  <2>2. IsPage(page') /\ page'.kind = page.kind
    BY <1>4 DEF ContractorSaved, RateAnswer, Receive, IsPage, Framed
  <2>3. \E next : Receive(next)
    BY <1>4 DEF ContractorSaved, RateAnswer
  <2>4. QED
    BY <2>1, <2>2, <2>3, ReceivedOn
<1>5. QED
  BY <1>1, <1>2, <1>3, <1>4 DEF ContractorPage

\* the list of contractors,
LEMMA ContractorsFrame ==
  ASSUME Framed, ContractorsPage
  PROVE  Frame({"contractors"}, {})
<1> USE DEF Frame, CallOf, OnContractors
<1>1. ASSUME NEW view, IsPage(view)
      PROVE  IsPage(RequestSummary(view)) /\ RequestSummary(view).kind = view.kind
  BY <1>1 DEF IsPage, RequestSummary
<1>2. CASE OpenContractors
  <2>1. \E view : Open(RequestSummary(view)) /\ IsPage(view) /\ view.kind = "contractors"
    BY <1>2 DEF OpenContractors, IsPage
  <2>2. /\ page.kind = "none" /\ page'.kind = "contractors" /\ IsPage(page')
        /\ UNCHANGED <<rows, call, troubles>>
    BY <2>1, <1>1 DEF Open, NoPage
  <2>3. QED
    BY <2>2, OpenedOn
<1>3. CASE FilterContractors \/ SelectContractor
  <2>1. \E view : ShowContractors(view) /\ IsPage(view) /\ view.kind = page.kind
    <3>1. CASE FilterContractors
      BY <3>1 DEF FilterContractors, IsPage, Framed
    <3>2. CASE SelectContractor
      BY <3>2 DEF SelectContractor, IsPage, Framed
    <3>3. QED
      BY <1>3, <3>1, <3>2
  <2>2. IsPage(page') /\ page'.kind = page.kind /\ UNCHANGED <<rows, call, troubles>>
    BY <2>1, <1>1 DEF ShowContractors, Show
  <2>3. page.kind = "contractors"
    BY <1>3 DEF FilterContractors, SelectContractor
  <2>4. QED
    BY <2>2, <2>3, ShownOn DEF StaysOn
<1>4. CASE SummaryAnswer
  <2>1. /\ IsPage(page') /\ page'.kind = page.kind /\ page.kind = "contractors"
        /\ UNCHANGED <<rows, call, troubles>>
    BY <1>4 DEF SummaryAnswer, Show, IsPage, Framed
  <2>2. QED
    BY <2>1, ShownOn DEF StaysOn
<1>5. QED
  BY <1>2, <1>3, <1>4 DEF ContractorsPage

\* Calls of the form.
DraftOps == {"createDraft", "updateDraft"}

\* the form of an invoice,
LEMMA FormFrame ==
  ASSUME Framed, InvoiceForm
  PROVE  Frame({"new", "edit"}, DraftOps)
<1> USE DEF Frame, CallOf, OnForm
<1>1. CASE OpenNew \/ OpenEdit
  <2>1. \E kind \in {"new", "edit"} : \E contractorId, lines :
          Open(FormPage(kind, contractorId, lines))
    BY <1>1, Zenon DEF OpenNew, OpenEdit
  <2>2. PICK kind \in {"new", "edit"} : \E contractors, templates, table, contractorId, lines :
          Open([kind |-> kind, contractors |-> contractors, templates |-> templates, rates |->
                table,
                contractorId |-> contractorId, lines |-> lines, switched |-> FALSE])
    BY <2>1, Zenon DEF FormPage
  <2>3. /\ page.kind = "none" /\ page'.kind = kind /\ IsPage(page')
        /\ UNCHANGED <<rows, call, troubles>>
    BY <2>2 DEF Open, IsPage, NoPage
  <2>4. QED
    BY <2>3, OpenedOn
<1>2. CASE SwitchContractor \/ UpdateLine \/ AppendLine \/ RemoveLine \/ ApplyTemplate
  <2>1. page.kind \in {"new", "edit"} /\ UNCHANGED <<rows, call, troubles>>
    BY <1>2 DEF SwitchContractor, UpdateLine, AppendLine, RemoveLine, ApplyTemplate, Show
  <2>2. IsPage(page') /\ page'.kind = page.kind
    <3>1. CASE SwitchContractor
      BY <3>1 DEF SwitchContractor, Show, IsPage, Framed
    <3>2. CASE ~ SwitchContractor
      <4>1. \E lines : page' = [page EXCEPT !.lines = lines]
        BY <1>2, <3>2, Zenon DEF UpdateLine, AppendLine, RemoveLine, ApplyTemplate, Show
      <4>2. QED
        BY <4>1 DEF IsPage, Framed
    <3>3. QED
      BY <3>1, <3>2
  <2>3. QED
    BY <2>1, <2>2, ShownOn DEF StaysOn
<1>3. CASE HandleSubmit
  <2>1. PICK data : Send(IF page.kind = "new" THEN "createDraft" ELSE "updateDraft", data)
    BY <1>3 DEF HandleSubmit
  <2>2. page.kind \in {"new", "edit"}
    BY <1>3 DEF HandleSubmit
  <2>3. PICK op \in DraftOps : Send(op, data) /\ PageOf(op) = page.kind
    BY <2>1, <2>2 DEF PageOf, CatalogueOps, ContractorOps, DraftOps
  <2>4. QED
    BY <2>2, <2>3, SentFrom DEF StaysOn, DraftOps
<1>4. CASE DraftSaved
  <2>1. page.kind \in {"new", "edit"} /\ Receive(NoPage)
    BY <1>4 DEF DraftSaved, Answered, Framed, PageOf, CatalogueOps, ContractorOps
  <2>2. IsPage(page') /\ page'.kind = "none"
    BY <2>1 DEF Receive, IsPage, NoPage
  <2>3. QED
    BY <2>1, <2>2, ReceivedOn
<1>5. QED
  BY <1>1, <1>2, <1>3, <1>4 DEF InvoiceForm

\* The page of an invoice may change the draft, and none of the other rows.
InvoiceFrame ==
    /\ Framed' /\ UNCHANGED <<contractor, template, rate, rates, call>>
    /\ page.kind \in {"none", "invoice"} /\ page'.kind \in {"none", "invoice"}

\* and the page of an invoice.
LEMMA InvoicePageFrame ==
  ASSUME Framed, InvoicePage
  PROVE  InvoiceFrame
<1> SUFFICES /\ UNCHANGED <<contractor, template, rate, rates, call>> /\ IsPage(page')
             /\ page.kind \in {"none", "invoice"} /\ page'.kind \in {"none", "invoice"}
  BY DEF InvoiceFrame, Framed, PageOf, CatalogueOps, ContractorOps
<1> USE DEF OnInvoice
<1>1. CASE OpenInvoice
  <2>1. PICK environment, shown, flights :
          Open([kind |-> "invoice", environment |-> environment, shown |-> shown,
                refreshing |-> FALSE, loading |-> None, inFlight |-> {},
                showPayment |-> FALSE, confirm |-> None, flights |-> flights])
    BY <1>1, Zenon DEF OpenInvoice
  <2>2. page.kind = "none"
    BY <2>1 DEF Open, NoPage
  <2>5. page'.kind = "invoice" /\ IsPage(page')
    BY <2>1 DEF Open, IsPage
  <2>3. UNCHANGED <<rows, call>>
    BY <2>1 DEF Open
  <2>4. QED
    BY <2>2, <2>3, <2>5 DEF rows
<1>2. ASSUME NEW from, NEW op, NEW amount, Fly(from, op, amount), IsPage(from), from.kind
      = "invoice"
      PROVE  IsPage(page') /\ page'.kind = "invoice" /\ UNCHANGED <<rows, call>>
  <2>1. PICK slot, flight : Show([from EXCEPT !.loading = op, !.flights[slot] = flight])
    BY <1>2, Zenon DEF Fly
  <2>2. QED
    BY <2>1, <1>2 DEF Show, IsPage
<1>3. CASE Click \/ HandleRecordPayment
  <2>1. page.kind = "invoice" /\ \E op, amount : Fly(page, op, amount)
    BY <1>3 DEF Click, HandleRecordPayment, Enabled
  <2>2. QED
    BY <2>1, <1>2 DEF Framed, rows
<1>4. CASE ToggleShowPayment \/ Refreshed
  <2>1. page.kind = "invoice" /\ UNCHANGED <<rows, call>>
    BY <1>4 DEF ToggleShowPayment, Refreshed, Show
  <2>2. \/ \E value : page' = [page EXCEPT !.showPayment = value]
        \/ \E value : page' = [page EXCEPT !.refreshing = FALSE, !.shown = value]
    BY <1>4, Zenon DEF ToggleShowPayment, Refreshed, Show
  <2>3. QED
    BY <2>1, <2>2 DEF IsPage, Framed, rows
<1>5. CASE HandleGuarded \/ ConfirmProduction
  <2>1. page.kind = "invoice"
    BY <1>5 DEF HandleGuarded, ConfirmProduction, Enabled
  <2>2. \E op : PerformGuarded(op) \/ Show([page EXCEPT !.confirm = op])
    BY <1>5, Zenon DEF HandleGuarded, ConfirmProduction
  <2>3. CASE \E op : Show([page EXCEPT !.confirm = op])
    BY <2>1, <2>3 DEF Show, IsPage, Framed, rows
  <2>4. CASE \E op : PerformGuarded(op)
    <3>1. PICK op, set : Fly([page EXCEPT !.confirm = None, !.inFlight = set], op, 0)
      BY <2>4, Zenon DEF PerformGuarded
    <3> DEFINE from == [page EXCEPT !.confirm = None, !.inFlight = set]
    <3>2. IsPage(from) /\ from.kind = "invoice"
      BY <2>1 DEF IsPage, Framed
    <3> HIDE DEF from
    <3>3. QED
      BY <2>1, <3>1, <3>2, <1>2 DEF rows, from
  <2>5. QED
    BY <2>2, <2>3, <2>4
<1>6. CASE FlightServed
  <2>1. page.kind = "invoice" /\ call' = call
    BY <1>6 DEF FlightServed
  <2>2. \E slot, state : page' = [page EXCEPT !.flights[slot].state = state]
    BY <1>6, Zenon DEF FlightServed, FlightEnds
  <2>3. UNCHANGED <<contractor, template, rate, rates>>
    BY <1>6 DEF FlightServed, PerformFlight, IssueDraft, RevertToDraft, KsefAnswers,
       RecordPayment, SendEmail, Correct, StopIssuance, ResetIssuance, rows
  <2>4. QED
    BY <2>1, <2>2, <2>3 DEF IsPage, Framed
<1>7. CASE FlightAnswered
  <2>1. page.kind = "invoice" /\ UNCHANGED <<rows, call>>
    BY <1>7 DEF FlightAnswered, Show
  <2>2. PICK slot :
          \/ page' = NoPage
          \/ page' = [page EXCEPT !.flights[slot] = NoFlight, !.loading = None,
                                  !.inFlight = @ \ {page.flights[slot].op},
                                  !.refreshing = @ \/ Refreshes(page.flights[slot]),
                                  !.showPayment = @ /\ ~(page.flights[slot].state = "done"
                                                         /\ page.flights[slot].op = "payment")]
    BY <1>7, Zenon DEF FlightAnswered, Show
  <2>3. CASE page' = NoPage
    BY <2>1, <2>3 DEF IsPage, NoPage, rows
  <2>4. CASE page' # NoPage
    <3>1. IsPage(page') /\ page'.kind = page.kind
      BY <2>2, <2>4 DEF IsPage, Framed
    <3>2. QED
      BY <2>1, <3>1 DEF rows
  <2>5. QED
    BY <2>3, <2>4
<1>8. QED
  BY <1>1, <1>3, <1>4, <1>5, <1>6, <1>7 DEF InvoicePage

\* A call on its way changes neither the page nor another call.
LEMMA ServedFrame ==
  ASSUME Framed, Served
  PROVE  /\ Framed' /\ UNCHANGED <<page, visits>>
         /\ \/ call'.state = "done" /\ call'.op = call.op
            \/ call'.state = "failed" /\ troubles' = troubles + 1
<1>1. UNCHANGED <<page, visits>> /\ call.state = "sent"
  BY DEF Served
<1>2. \/ call'.state = "done" /\ call'.op = call.op
      \/ call'.state = "failed" /\ troubles' = troubles + 1
  <2>1. \/ \E saved : call' = [state |-> "done", op |-> call.op, saved |-> saved]
        \/ Trouble /\ call' = [state |-> "failed"]
    BY Zenon DEF Served
  <2>2. QED
    BY <2>1 DEF Trouble
<1>3. QED
  BY <1>1, <1>2 DEF Framed, IsPage

\* A call that failed changes nothing.
LEMMA CallFrame ==
  ASSUME Framed, Refused \/ Failed
  PROVE  Framed' /\ UNCHANGED <<rows, page, troubles>> /\ call'.state \in {"none", "failed"}
BY DEF Refused, Failed, NoCall, Framed, IsPage, rows

\* A page is left without a change.
LEMMA LeaveFrame ==
  ASSUME Framed, Leave
  PROVE  Framed' /\ UNCHANGED <<rows, troubles>> /\ page' = NoPage
        /\ page'.kind = "none" /\ UNCHANGED call
BY DEF Leave, Show, NoPage, NoCall, Framed, IsPage, rows

\* Other users change rows.
LEMMA OthersFrame ==
  ASSUME Framed, OthersChange
  PROVE  Framed' /\ UNCHANGED <<page, call>> /\ troubles' = troubles + 1
BY DEF OthersChange, Trouble, Framed, IsPage

\* At first there is no page.
LEMMA InitFramed == Init => Framed
BY DEF Init, Framed, NoPage, NoCall, IsPage

\* Framed is inductive.
LEMMA NextFramed == Framed /\ [Next]_vars => Framed'
<1> SUFFICES ASSUME Framed, [Next]_vars PROVE Framed'
  OBVIOUS
<1>1. CASE UNCHANGED vars
  BY <1>1 DEF vars, Framed, IsPage
<1>2. CASE Next
  BY <1>2, CatalogueFrame, ContractorsFrame, ContractorFrame, FormFrame, InvoicePageFrame,
     ServedFrame, CallFrame, LeaveFrame, OthersFrame DEF Next, Frame, InvoiceFrame
<1>3. QED
  BY <1>1, <1>2

\* The contractors' list
LEMMA InitSummary == Init => SummaryOK
BY DEF Init, SummaryOK, NoPage

\* A new request is for the contractor that is selected, and shows nothing yet.
LEMMA RequestedSummary ==
  ASSUME NEW view,
         view = [x \in {"kind", "filtered", "selectedId", "requested", "summary", "pending"} |->
               view[x]]
  PROVE  LET next == RequestSummary(view)
         IN  /\ DOMAIN next = DOMAIN view
             /\ next.requested = EffectiveContractor(next)
             /\ next.summary = None
<1> DEFINE effective == EffectiveContractor(view)
           pending == IF effective = None THEN view.pending ELSE view.pending \cup {effective}
           next == [view EXCEPT !.requested = effective, !.summary = None, !.pending = pending]
<1> HIDE DEF effective, pending
<1>1. /\ DOMAIN next = DOMAIN view /\ next.requested = effective /\ next.summary = None
      /\ next.selectedId = view.selectedId /\ next.filtered = view.filtered
  OBVIOUS
<1>2. EffectiveContractor(next) = effective
  BY <1>1, Zenon DEF effective, EffectiveContractor
<1>3. RequestSummary(view) = next
  BY Zenon DEF RequestSummary, effective, pending
<1> HIDE DEF next
<1>4. QED
  BY <1>1, <1>2, <1>3

\* A summary is shown only when it was asked for last.
LEMMA NextSummary == Framed /\ SummaryOK /\ [Next]_vars => SummaryOK'
<1> SUFFICES ASSUME Framed, SummaryOK, [Next]_vars, page'.kind = "contractors" PROVE SummaryOK'
  BY DEF SummaryOK
<1>1. CASE UNCHANGED page
  BY <1>1 DEF SummaryOK, EffectiveContractor
<1>2. CASE ContractorsPage
  <2>1. CASE OpenContractors
    <3>1. PICK view : /\ page' = RequestSummary(view)
                      /\ view = [kind |-> "contractors", filtered |->
                            {c \in Contractors : contractor[c]},
                                 selectedId |-> First(Contractors), requested |-> None,
                                 summary |-> None, pending |-> {}]
      BY <2>1, Zenon DEF OpenContractors, Open
    <3>2. view
          = [x \in {"kind", "filtered", "selectedId", "requested", "summary", "pending"} |->
                view[x]]
      BY <3>1
    <3>3. QED
      BY <3>1, <3>2, RequestedSummary DEF SummaryOK
  <2>2. CASE FilterContractors \/ SelectContractor
    <3>1. page.kind = "contractors"
      BY <2>2 DEF FilterContractors, SelectContractor, OnContractors
    <3>2. PICK view : /\ ShowContractors(view)
                      /\ \/ \E filtered : view = [page EXCEPT !.filtered = filtered]
                         \/ \E c : view = [page EXCEPT !.selectedId = c]
      BY <2>2, Zenon DEF FilterContractors, SelectContractor
    <3>3. /\ view
          = [x \in {"kind", "filtered", "selectedId", "requested", "summary", "pending"} |->
                view[x]]
          /\ view.requested = page.requested /\ view.summary = page.summary
      BY <3>1, <3>2 DEF SummaryOK, Framed, IsPage
    <3>4. CASE page' = RequestSummary(view)
      BY <3>3, <3>4, RequestedSummary DEF SummaryOK
    <3>5. CASE page' = view /\ EffectiveContractor(view) = EffectiveContractor(page)
      BY <3>1, <3>3, <3>5 DEF SummaryOK
    <3>6. QED
      BY <3>2, <3>4, <3>5, Zenon DEF ShowContractors, Show
  <2>3. CASE SummaryAnswer
    <3>1. page.kind = "contractors"
      BY <2>3 DEF SummaryAnswer, OnContractors
    <3>2. PICK c, pending, result :
            /\ result \in {None, c}
            /\ page' = [page EXCEPT !.pending = pending,
                                    !.summary = IF page.requested = c THEN result ELSE @]
      BY <2>3, Zenon DEF SummaryAnswer, Show
    <3>3. /\ DOMAIN page' = DOMAIN page /\ page'.requested = page.requested
          /\ page'.filtered = page.filtered /\ page'.selectedId = page.selectedId
          /\ page'.summary \in {None, page.requested}
      BY <3>1, <3>2 DEF SummaryOK, Framed, IsPage
    <3>4. EffectiveContractor(page)' = EffectiveContractor(page)
      BY <3>3 DEF EffectiveContractor
    <3>5. QED
      BY <3>1, <3>3, <3>4 DEF SummaryOK
  <2>4. QED
    BY <1>2, <2>1, <2>2, <2>3 DEF ContractorsPage
<1>3. CASE CataloguePage \/ ContractorPage \/ InvoiceForm \/ InvoicePage \/ Leave
  BY <1>3, CatalogueFrame, ContractorFrame, FormFrame, InvoicePageFrame, LeaveFrame
  DEF Frame, InvoiceFrame
<1>4. CASE OthersChange \/ Served \/ Refused \/ Failed
  BY <1>1, <1>4, ServedFrame, CallFrame, OthersFrame
<1>5. QED
  BY <1>1, <1>2, <1>3, <1>4 DEF Next, vars

\* ContractorList never shows the summary of one contractor beside another: the effect
\* that fetches it drops an answer that another selection overtook.
THEOREM SummariesAreTheirOwn == Spec => []SummaryIsOfSelected
<1>1. SummaryOK => SummaryIsOfSelected
  BY DEF SummaryOK, SummaryIsOfSelected, OnContractors
<1>2. QED
  BY <1>1, InitFramed, NextFramed, InitSummary, NextSummary, PTL DEF Spec

\* At first there is no page.
LEMMA InitInvoice == Init => InvoiceOK
BY DEF Init, InvoiceOK, NoPage

\* A change of the page that ends no call.
Flights == page.flights = [slot \in Slots |-> page.flights[slot]]
\* A slot whose call has not been answered.
Waits(slot) == page.flights[slot].state \notin {"done", "reset"}

\* Such a call does not refresh the page.
LEMMA NoRefresh == \A slot : Waits(slot) => ~ Refreshes(page.flights[slot])
BY DEF Waits, Refreshes

\* The page shows the draft only.
LEMMA SameShown == ASSUME UNCHANGED draft PROVE Shown' = Shown
BY DEF Shown

\* A call that is started,
LEMMA FlyKeeps ==
  ASSUME Framed, InvoiceOK, NEW from, NEW op, NEW amount, Fly(from, op, amount),
         page.kind = "invoice", IsPage(from), DOMAIN from = DOMAIN page, from.kind = "invoice",
         from.flights = page.flights, from.shown = page.shown, from.refreshing = page.refreshing
  PROVE  InvoiceOK'
<1>1. PICK slot \in Slots :
        /\ page.flights[slot] = NoFlight
        /\ page' = [from EXCEPT !.loading = op,
                        !.flights[slot] = [state |-> "sent", op |-> op, amount |-> amount]]
        /\ UNCHANGED <<rows, troubles>>
  BY DEF Fly, Show
<1>2. /\ DOMAIN page' = DOMAIN page /\ page'.shown = page.shown
      /\ page'.refreshing = page.refreshing
      /\ page'.flights = [page.flights EXCEPT ![slot]
            = [state |-> "sent", op |-> op, amount |-> amount]]
  BY <1>1 DEF InvoiceOK, IsPage
<1>3. Waits(slot)
  BY <1>1 DEF Waits, NoFlight
<1>4. /\ Flights'
      /\ \A s \in Slots : page'.flights[s] = IF s = slot
            THEN [state |-> "sent", op |-> op, amount |-> amount]
                                              ELSE page.flights[s]
  BY <1>2 DEF InvoiceOK, Flights
<1>5. \A s \in Slots : /\ page'.flights[s] = [x \in DOMAIN page'.flights[s] |-> page'.flights[s][x]]
                       /\ "state" \in DOMAIN page'.flights[s]
  BY <1>4 DEF InvoiceOK
<1>6. ASSUME ShownSoon PROVE ShownSoon'
  <2>1. CASE page.shown = Shown \/ page.refreshing
    BY <1>1, <1>2, <2>1, SameShown DEF ShownSoon, rows
  <2>2. CASE \E s \in Slots : Refreshes(page.flights[s])
    <3>1. PICK s \in Slots : Refreshes(page.flights[s])
      BY <2>2
    <3>2. s # slot
      BY <1>3, <3>1, NoRefresh
    <3>3. page'.flights[s] = page.flights[s]
      BY <1>4, <3>2
    <3>4. QED
      BY <3>1, <3>3 DEF ShownSoon
  <2>3. QED
    BY <1>6, <2>1, <2>2 DEF ShownSoon
<1>7. QED
  BY <1>1, <1>2, <1>4, <1>5, <1>6 DEF InvoiceOK, Flights

\* A change of the page that touches neither its calls nor what it shows.
LEMMA ShownKeeps ==
  ASSUME Framed, InvoiceOK, page.kind = "invoice", UNCHANGED <<draft, troubles>>,
         DOMAIN page' = DOMAIN page, page'.flights = page.flights,
         page'.shown = page.shown /\ page'.refreshing = page.refreshing
  PROVE  InvoiceOK'
BY SameShown DEF InvoiceOK, ShownSoon

\* one that is served,
LEMMA FlightServedKeeps ==
  ASSUME Framed, InvoiceOK, FlightServed
  PROVE  InvoiceOK'
<1>1. PICK slot \in Slots :
        /\ page.flights[slot].state = "sent"
        /\ \/ /\ PerformFlight(page.flights[slot].op, page.flights[slot].amount)
              /\ FlightEnds(slot, "done")
              /\ UNCHANGED troubles
           \/ (\E state : FlightEnds(slot, state)) /\ Trouble
           \/ FlightEnds(slot, "reset") /\ UNCHANGED troubles
           \/ (\E state : FlightEnds(slot, state)) /\ UNCHANGED <<rows, troubles>>
  BY Zenon DEF FlightServed
<1>2. page.kind = "invoice"
  BY DEF FlightServed, OnInvoice
<1>3. PICK state : FlightEnds(slot, state)
  BY <1>1
<1> DEFINE flight == page.flights[slot]
<1>4. /\ DOMAIN page' = DOMAIN page /\ page'.shown = page.shown
      /\ page'.refreshing = page.refreshing
      /\ page'.flights = [page.flights EXCEPT ![slot].state = state]
  BY <1>2, <1>3 DEF InvoiceOK, FlightEnds, Framed, IsPage
<1>5. /\ Flights'
      /\ \A s \in Slots : page'.flights[s] = IF s = slot THEN [flight EXCEPT !.state = state]
                                              ELSE page.flights[s]
  BY <1>2, <1>4 DEF InvoiceOK, Flights
<1>6. \A s \in Slots : /\ page'.flights[s] = [x \in DOMAIN page'.flights[s] |-> page'.flights[s][x]]
                       /\ "state" \in DOMAIN page'.flights[s]
  BY <1>2, <1>5 DEF InvoiceOK
<1>7. troubles' \in Nat
  BY <1>1 DEF InvoiceOK, Trouble
<1>8. ASSUME troubles' = 0 PROVE ShownSoon'
  <2>1. troubles = 0
    BY <1>1, <1>8 DEF InvoiceOK, Trouble
  <2>2. \/ UNCHANGED draft
        \/ (FlightEnds(slot, "done") /\ flight.op # "email")
        \/ FlightEnds(slot, "reset")
    BY <1>1, <1>8, <2>1 DEF Trouble, PerformFlight, SendEmail, rows
  <2>3. ASSUME FlightEnds(slot, "done"), flight.op # "email" PROVE Refreshes(page'.flights[slot])
    <3>1. page'.flights[slot] = [flight EXCEPT !.state = "done"]
      BY <1>2, <2>3 DEF InvoiceOK, FlightEnds, Framed, IsPage
    <3>2. page'.flights[slot].state = "done" /\ page'.flights[slot].op = flight.op
      BY <1>2, <3>1 DEF InvoiceOK
    <3>3. QED
      BY <2>3, <3>2 DEF Refreshes
  <2>4. ASSUME FlightEnds(slot, "reset") PROVE Refreshes(page'.flights[slot])
    <3>1. page'.flights[slot] = [flight EXCEPT !.state = "reset"]
      BY <1>2, <2>4 DEF InvoiceOK, FlightEnds, Framed, IsPage
    <3>2. page'.flights[slot].state = "reset"
      BY <1>2, <3>1 DEF InvoiceOK
    <3>3. QED
      BY <3>2 DEF Refreshes
  <2>5. ASSUME UNCHANGED draft PROVE ShownSoon'
    <3>1. ShownSoon
      BY <1>2, <2>1 DEF InvoiceOK
    <3>2. CASE page.shown = Shown \/ page.refreshing
      BY <1>4, <2>5, <3>2, SameShown DEF ShownSoon
    <3>3. CASE \E s \in Slots : Refreshes(page.flights[s])
      <4>1. PICK s \in Slots : Refreshes(page.flights[s])
        BY <3>3
      <4>2. s # slot
        BY <1>1, <4>1, NoRefresh DEF Waits
      <4>3. page'.flights[s] = page.flights[s]
        BY <1>5, <4>2
      <4>4. QED
        BY <4>1, <4>3 DEF ShownSoon
    <3>4. QED
      BY <3>1, <3>2, <3>3 DEF ShownSoon
  <2>6. QED
    BY <2>2, <2>3, <2>4, <2>5 DEF ShownSoon
<1>9. QED
  BY <1>2, <1>4, <1>5, <1>6, <1>7, <1>8 DEF InvoiceOK, Flights

\* and one that is answered keep the invariant.
LEMMA FlightAnsweredKeeps ==
  ASSUME Framed, InvoiceOK, FlightAnswered
  PROVE  InvoiceOK'
<1>1. PICK slot \in Slots :
        \/ page' = NoPage
        \/ page' = [page EXCEPT !.flights[slot] = NoFlight, !.loading = None,
                                !.inFlight = @ \ {page.flights[slot].op},
                                !.refreshing = @ \/ Refreshes(page.flights[slot]),
                                !.showPayment = @ /\ ~(page.flights[slot].state = "done"
                                                       /\ page.flights[slot].op = "payment")]
  BY Zenon DEF FlightAnswered, Show
<1>2. page.kind = "invoice" /\ UNCHANGED <<draft, troubles>>
  BY DEF FlightAnswered, OnInvoice, Show, rows
<1>3. CASE page' = NoPage
  BY <1>2, <1>3 DEF InvoiceOK, NoPage
<1>4. CASE page' # NoPage
  <2> DEFINE refreshing == page.refreshing \/ Refreshes(page.flights[slot])
  <2>1. DOMAIN page' = DOMAIN page /\ page'.shown = page.shown
    BY <1>1, <1>2, <1>4 DEF InvoiceOK, Framed, IsPage
  <2>2. page'.flights = [page.flights EXCEPT ![slot] = NoFlight]
    BY <1>1, <1>2, <1>4 DEF InvoiceOK, Framed, IsPage
  <2>3. page'.refreshing = refreshing
    <3>1. "refreshing" \in DOMAIN page
      BY <1>2 DEF InvoiceOK
    <3>2. QED
      BY <1>1, <1>4, <3>1
  <2>4. /\ Flights'
        /\ \A s \in Slots : page'.flights[s] = IF s = slot THEN NoFlight ELSE page.flights[s]
    BY <1>2, <2>2 DEF InvoiceOK, Flights
  <2>5. \A s \in Slots :
        /\ page'.flights[s] = [x \in DOMAIN page'.flights[s] |-> page'.flights[s][x]]
                         /\ "state" \in DOMAIN page'.flights[s]
    BY <1>2, <2>4 DEF InvoiceOK, NoFlight
  <2>6. page'.refreshing \in BOOLEAN
    BY <2>3
  <2>7. ASSUME troubles' = 0 PROVE ShownSoon'
    <3>1. ShownSoon
      BY <1>2, <2>7 DEF InvoiceOK
    <3>2. CASE page.shown = Shown
      BY <1>2, <2>1, <3>2, SameShown DEF ShownSoon
    <3>3. CASE page.refreshing
      BY <2>3, <3>3 DEF ShownSoon
    <3>4. CASE \E s \in Slots : Refreshes(page.flights[s])
      <4>1. PICK s \in Slots : Refreshes(page.flights[s])
        BY <3>4
      <4>2. CASE s = slot
        BY <2>3, <4>1, <4>2 DEF ShownSoon
      <4>3. CASE s # slot
        <5>1. page'.flights[s] = page.flights[s]
          BY <2>4, <4>3
        <5>2. QED
          BY <4>1, <5>1 DEF ShownSoon
      <4>4. QED
        BY <4>2, <4>3
    <3>5. QED
      BY <3>1, <3>2, <3>3, <3>4 DEF ShownSoon
  <2>8. QED
    BY <1>2, <2>1, <2>4, <2>5, <2>6, <2>7 DEF InvoiceOK, Flights
<1>5. QED
  BY <1>3, <1>4

\* So do the other actions of the page,
LEMMA InvoicePageKeeps ==
  ASSUME Framed, InvoiceOK, InvoicePage
  PROVE  InvoiceOK'
<1> USE DEF OnInvoice
<1>1. CASE OpenInvoice
  <2>1. PICK environment :
          /\ page' = [kind |-> "invoice", environment |-> environment, shown |-> Shown,
                      refreshing |-> FALSE, loading |-> None, inFlight |-> {},
                      showPayment |-> FALSE, confirm |-> None,
                      flights |-> [slot \in Slots |-> NoFlight]]
          /\ UNCHANGED <<rows, troubles>>
    BY <1>1, Zenon DEF OpenInvoice, Open
  <2>2. /\ DOMAIN page' = {"kind", "environment", "shown", "refreshing", "loading", "inFlight",
                           "showPayment", "confirm", "flights"}
        /\ page'.flights = [slot \in Slots |-> NoFlight]
        /\ page'.shown = Shown /\ page'.refreshing \in BOOLEAN
    BY <2>1
  <2>3. Shown' = Shown /\ troubles' \in Nat
    BY <2>1, SameShown DEF rows, InvoiceOK
  <2>4. QED
    BY <2>2, <2>3 DEF InvoiceOK, NoFlight, ShownSoon
<1>2. CASE Click \/ HandleRecordPayment
  <2>1. page.kind = "invoice" /\ \E op, amount : Fly(page, op, amount)
    BY <1>2 DEF Click, HandleRecordPayment, Enabled
  <2>2. QED
    BY <2>1, FlyKeeps DEF Framed
<1>3. CASE ToggleShowPayment
  <2>1. page.kind = "invoice" /\ UNCHANGED <<rows, troubles>>
    BY <1>3 DEF ToggleShowPayment, Show
  <2>2. \E value : page' = [page EXCEPT !.showPayment = value]
    BY <1>3, Zenon DEF ToggleShowPayment, Show
  <2>3. /\ DOMAIN page' = DOMAIN page /\ page'.flights = page.flights
        /\ page'.shown = page.shown /\ page'.refreshing = page.refreshing
    BY <2>1, <2>2 DEF InvoiceOK
  <2>4. QED
    BY <2>1, <2>3, ShownKeeps DEF rows
<1>4. CASE Refreshed
  <2>1. /\ page.kind = "invoice" /\ UNCHANGED <<rows, troubles>>
        /\ page' = [page EXCEPT !.refreshing = FALSE, !.shown = Shown]
    BY <1>4 DEF Refreshed, Show
  <2>2. /\ DOMAIN page' = DOMAIN page /\ page'.flights = page.flights
        /\ page'.shown = Shown /\ page'.refreshing \in BOOLEAN
    BY <2>1 DEF InvoiceOK
  <2>3. Shown' = Shown
    BY <2>1, SameShown DEF rows
  <2>4. QED
    BY <2>1, <2>2, <2>3 DEF InvoiceOK, ShownSoon
<1>5. CASE HandleGuarded \/ ConfirmProduction
  <2>1. page.kind = "invoice"
    BY <1>5 DEF HandleGuarded, ConfirmProduction, Enabled
  <2>2. \E op : PerformGuarded(op) \/ Show([page EXCEPT !.confirm = op])
    BY <1>5, Zenon DEF HandleGuarded, ConfirmProduction
  <2>3. CASE \E op : Show([page EXCEPT !.confirm = op])
    <3>1. /\ DOMAIN page' = DOMAIN page /\ page'.flights = page.flights
          /\ page'.shown = page.shown /\ page'.refreshing = page.refreshing
          /\ UNCHANGED <<rows, troubles>>
      BY <2>1, <2>3 DEF InvoiceOK, Show
    <3>2. QED
      BY <2>1, <3>1, ShownKeeps DEF rows
  <2>4. CASE \E op : PerformGuarded(op)
    <3>1. PICK op, set : Fly([page EXCEPT !.confirm = None, !.inFlight = set], op, 0)
      BY <2>4, Zenon DEF PerformGuarded
    <3> DEFINE from == [page EXCEPT !.confirm = None, !.inFlight = set]
    <3>2. /\ IsPage(from) /\ from.kind = "invoice" /\ DOMAIN from = DOMAIN page
          /\ from.flights = page.flights /\ from.shown = page.shown
          /\ from.refreshing = page.refreshing
      BY <2>1 DEF IsPage, Framed, InvoiceOK
    <3>3. Fly(from, op, 0)
      BY <3>1
    <3> HIDE DEF from
    <3>4. QED
      BY <2>1, <3>2, <3>3, FlyKeeps
  <2>5. QED
    BY <2>2, <2>3, <2>4
<1>6. QED
  BY <1>1, <1>2, <1>3, <1>4, <1>5, FlightServedKeeps, FlightAnsweredKeeps DEF InvoicePage

\* and every step.
LEMMA NextInvoice == Framed /\ InvoiceOK /\ [Next]_vars => InvoiceOK'
<1> SUFFICES ASSUME Framed, InvoiceOK, [Next]_vars PROVE InvoiceOK'
  OBVIOUS
<1>1. CASE UNCHANGED <<page, draft, troubles>>
  BY <1>1, SameShown DEF InvoiceOK, ShownSoon
<1>2. CASE InvoicePage
  BY <1>2, InvoicePageKeeps
<1>3. CASE CataloguePage \/ ContractorPage \/ ContractorsPage \/ InvoiceForm \/ Leave
  BY <1>3, CatalogueFrame, ContractorFrame, ContractorsFrame, FormFrame, LeaveFrame
  DEF Frame, InvoiceOK
<1>4. CASE Served
  <2>1. page.kind # "invoice" /\ UNCHANGED page
    BY <1>4, ServedFrame DEF Framed, PageOf, Served
  <2>2. troubles' \in Nat
    <3>1. UNCHANGED troubles \/ Trouble
      BY <1>4, Zenon DEF Served
    <3>2. QED
      BY <3>1 DEF Trouble, InvoiceOK
  <2>3. QED
    BY <2>1, <2>2 DEF InvoiceOK
<1>5. CASE Refused \/ Failed
  BY <1>1, <1>5, CallFrame DEF rows
<1>6. CASE OthersChange
  BY <1>6, OthersFrame DEF InvoiceOK
<1>7. QED
  BY <1>1, <1>2, <1>3, <1>4, <1>5, <1>6 DEF Next, vars

\* When its calls are answered, the page of an invoice shows the row as it is: each
\* of them ends in a refresh, unless it failed or changed nothing.
THEOREM PagesShowTheInvoice == Spec => []PageShowsTheInvoice
<1>1. InvoiceOK => PageShowsTheInvoice
  BY NoRefresh DEF InvoiceOK, PageShowsTheInvoice, OnInvoice, ShownSoon, Waits, NoFlight
<1>2. QED
  BY <1>1, InitFramed, NextFramed, InitInvoice, NextInvoice, PTL DEF Spec

\* The first service of a filter is one of them.
LEMMA FirstOf ==
  ASSUME NEW S, S \subseteq Templates, S # {}
  PROVE  First(S) \in S
<1>1. S \subseteq Nat
  BY NumbersAssumption
<1>2. PICK m \in S : \A k \in S : m <= k
  BY <1>1, LeastNumber
<1>3. Min(S) \in S
  BY <1>2 DEF Min
<1>4. QED
  BY <1>3 DEF First

\* The service of the panel is one that the page has.
LEMMA SelectedIsShown ==
  ASSUME Selected # None
  PROVE  Selected \in Templates /\ page.templates[Selected] # None
<1>1. Filtered \subseteq {t \in Templates : page.templates[t] # None}
  BY Zenon DEF Filtered
<1>2. Filtered # {} => First(Filtered) \in Filtered
  BY <1>1, FirstOf
<1>3. Filtered = {} => First(Filtered) = None
  BY DEF First
<1>4. Selected \in Filtered
  BY <1>2, <1>3 DEF Selected, EffectiveSelectedId
<1>5. QED
  BY <1>1, <1>4

\* A service stays its own when its own fields are written to it,
LEMMA OwnRowWith ==
  ASSUME NEW t, NEW row, OwnRow(row, t), NEW isActive \in BOOLEAN
  PROVE  /\ OwnRow([row EXCEPT !.isActive = isActive], t)
         /\ OwnRow([row EXCEPT !.name = t, !.unit = t], t)
BY DEF OwnRow

\* and so does a catalogue with another row of the service.
LEMMA OwnRowsWith ==
  ASSUME NEW table, OwnRows(table), NEW t \in Templates, NEW row, row = None \/ OwnRow(row, t)
  PROVE  /\ OwnRows([table EXCEPT ![t] = row])
         /\ [table EXCEPT ![t] = row][t] = row
BY DEF OwnRows

\* What a call of the catalogue does, and what it answers.
Changed(t) == OwnRows(template)' /\ t \in Templates /\ OwnRow(template'[t], t)

\* A row that is written is the service's own.
LEMMA RowChanged ==
  ASSUME OwnRows(template), NEW t \in Templates, NEW row, OwnRow(row, t),
         template' = [template EXCEPT ![t] = row]
  PROVE  Changed(t)
BY OwnRowsWith DEF Changed

\* What a call of the catalogue writes.
LEMMA PerformCatalogue ==
  ASSUME OwnRows(template), CatalogueSent, Perform(call.op, call.data),
         call.op \in CatalogueOps
  PROVE  Changed(TemplateOf(call.op, call.data))
<1>1. CASE call.op = "createTemplate"
  <2>1. PICK t \in Templates : CreateTemplate(t, EmptyForm)
    BY <1>1 DEF Perform, CatalogueSent
  <2>2. template' = [template EXCEPT ![t] = [name |-> t, unit |-> t, isActive |-> TRUE]]
    BY <2>1 DEF CreateTemplate, EmptyForm
  <2>3. OwnRow([name |-> t, unit |-> t, isActive |-> TRUE], t)
    BY DEF OwnRow
  <2>4. TemplateOf(call.op, call.data) = t
    BY <1>1, <2>1 DEF TemplateOf, CreateTemplate
  <2>5. QED
    BY <2>2, <2>3, <2>4, RowChanged
<1>2. CASE call.op = "patchTemplate"
  <2> DEFINE t == call.data.template
  <2>1. /\ template[t] # None /\ t \in Templates
        /\ template' = [template EXCEPT ![t].name = t, ![t].unit = t]
    BY <1>2 DEF Perform, PatchTemplate, Exists, CatalogueSent
  <2>2. template' = [template EXCEPT ![t] = [template[t] EXCEPT !.name = t, !.unit = t]]
    BY <2>1 DEF OwnRows
  <2>3. OwnRow([template[t] EXCEPT !.name = t, !.unit = t], t)
    BY <2>1, OwnRowWith DEF OwnRows
  <2>4. TemplateOf(call.op, call.data) = t
    BY <1>2 DEF TemplateOf
  <2> DEFINE row == [template[t] EXCEPT !.name = t, !.unit = t]
  <2>5. t \in Templates /\ OwnRow(row, t) /\ template' = [template EXCEPT ![t] = row]
    BY <2>1, <2>2, <2>3
  <2> HIDE DEF t, row
  <2>6. QED
    BY <2>4, <2>5, RowChanged
<1>3. CASE call.op \in {"archive", "restore"}
  <2> DEFINE t == call.data
             isActive == call.op = "restore"
  <2>1. SetActive(t, isActive) /\ t \in Templates
    BY <1>3 DEF Perform, CatalogueSent
  <2>2. template[t] # None /\ template' = [template EXCEPT ![t].isActive = isActive]
    BY <2>1 DEF SetActive, Exists
  <2>3. TemplateOf(call.op, call.data) = t
    BY <1>3 DEF TemplateOf
  <2>4. isActive \in BOOLEAN
    OBVIOUS
  <2> HIDE DEF t, isActive
  <2>5. template' = [template EXCEPT ![t] = [template[t] EXCEPT !.isActive = isActive]]
    BY <2>2
  <2>6. OwnRow([template[t] EXCEPT !.isActive = isActive], t)
    BY <2>1, <2>2, <2>4, OwnRowWith DEF OwnRows
  <2>7. QED
    BY <2>1, <2>3, <2>5, <2>6, RowChanged
<1>4. QED
  BY <1>1, <1>2, <1>3 DEF CatalogueOps

\* A call that is served keeps the invariant of the catalogue.
LEMMA ServedKeepsCatalogue ==
  ASSUME Framed, CatalogueOK, Served
  PROVE  CatalogueOK'
<1>1. /\ UNCHANGED page /\ call.state = "sent" /\ Perform(call.op, call.data)
      /\ \/ call' = [state |-> "done", op |-> call.op, saved |-> Answer(call.op, call.data)]
         \/ call' = [state |-> "failed"]
  BY Zenon DEF Served
<1>2. page'.kind = "catalogue" => CatalogueShown'
  BY <1>1 DEF CatalogueOK, CatalogueShown, OwnRows, OwnRow
<1>3. CASE call.op \in CatalogueOps
  <2> DEFINE t == TemplateOf(call.op, call.data)
  <2>1. Changed(t)
    BY <1>1, <1>3, PerformCatalogue DEF CatalogueOK
  <2>2. Answer(call.op, call.data) = [id |-> t, row |-> template'[t]]
    BY <1>3 DEF Answer, CatalogueOps
  <2>3. ASSUME call.op = "archive" PROVE page.templates[t] # None
    BY <1>1, <2>3 DEF CatalogueOK, CatalogueSent, TemplateOf
  <2> HIDE DEF t
  <2>4. call'.state = "done" => CatalogueDone'
    BY <1>1, <2>1, <2>2, <2>3 DEF CatalogueDone, Changed
  <2>5. call'.state # "sent" /\ OwnRows(template)'
    BY <1>1, <2>1 DEF Changed
  <2>6. QED
    BY <1>2, <2>4, <2>5 DEF CatalogueOK
<1>4. CASE call.op \notin CatalogueOps
  <2>1. UNCHANGED template
    BY <1>1, <1>4 DEF Perform, PatchContractor, UpsertRate, DeleteRate, CreateDraft, UpdateDraft,
       CatalogueOps
  <2>2. OwnRows(template)'
    BY <2>1 DEF CatalogueOK, OwnRows, OwnRow
  <2>3. call'.state # "sent" /\ (call'.state = "done" => call'.op \notin CatalogueOps)
    BY <1>1, <1>4
  <2>4. QED
    BY <1>2, <2>2, <2>3 DEF CatalogueOK
<1>5. QED
  BY <1>3, <1>4

\* The panel shows what was typed for the service that it is about.
LEMMA ActiveFormIsOfSelected ==
  ASSUME CatalogueShown, PanelIsOpen
  PROVE  ActiveForm = [name |-> Selected, unit |-> Selected]
<1>1. CASE page.isCreating
  <2>1. Selected = None
    BY <1>1 DEF Selected
  <2>2. QED
    BY <1>1, <2>1 DEF ActiveForm, CatalogueShown
<1>2. CASE ~ page.isCreating
  <2>1. Selected # None
    BY <1>2 DEF PanelIsOpen
  <2>2. OwnRow(page.templates[Selected], Selected)
    BY <2>1, SelectedIsShown DEF CatalogueShown, OwnRows
  <2>3. QED
    BY <2>1, <2>2 DEF ActiveForm, CatalogueShown, FormFromTemplate, OwnRow
<1>3. QED
  BY <1>1, <1>2

\* What the page shows, when nothing is sent or answered.
LEMMA CatalogueShows ==
  ASSUME CatalogueOK, Framed,
         UpdateField \/ SelectRow \/ StartCreate \/ CloseMobileView \/ SetStatusFilter
  PROVE  CatalogueShown' /\ page'.templates = page.templates
<1>1. CatalogueShown
  BY DEF CatalogueOK, UpdateField, SelectRow, StartCreate, CloseMobileView, SetStatusFilter,
     OnCatalogue
<1>2. ASSUME NEW form, NEW t, NEW isCreating \in BOOLEAN,
             page'.form = form, page'.formTemplateId = t, page'.isCreating = isCreating,
             form = [name |-> t, unit |-> t], isCreating => t = None,
             page'.templates = page.templates, DOMAIN page' = DOMAIN page
      PROVE  CatalogueShown'
  BY <1>1, <1>2 DEF CatalogueShown, OwnRows, OwnRow
<1>3. CASE UpdateField
  <2>1. PICK field \in {"name", "unit"} :
          page' = [page EXCEPT !.form = [ActiveForm EXCEPT ![field] = Selected],
                               !.formTemplateId = Selected]
    BY <1>3 DEF UpdateField, Show
  <2>2. [ActiveForm EXCEPT ![field] = Selected] = [name |-> Selected, unit |-> Selected]
    <3>1. PanelIsOpen
      BY <1>3 DEF UpdateField
    <3>2. ActiveForm = [name |-> Selected, unit |-> Selected]
      BY <1>1, <3>1, ActiveFormIsOfSelected
    <3>3. QED
      BY <3>2
  <2>3. page.isCreating => Selected = None
    BY DEF Selected
  <2>4. page.isCreating \in BOOLEAN
    BY <1>1 DEF CatalogueShown
  <2>5. /\ page'.form = [name |-> Selected, unit |-> Selected] /\ page'.formTemplateId = Selected
        /\ page'.templates = page.templates /\ page'.isCreating = page.isCreating
        /\ DOMAIN page' = DOMAIN page
    BY <1>1, <2>1, <2>2 DEF CatalogueShown
  <2>6. QED
    BY <1>2, <2>3, <2>4, <2>5
<1>4. CASE SelectRow
  <2>1. PICK t \in Filtered :
          page' = [page EXCEPT !.isCreating = FALSE, !.selectedId = t, !.formTemplateId = t,
                               !.form = FormFromTemplate(page.templates[t])]
    BY <1>4 DEF SelectRow, Show
  <2>2. t \in Templates /\ page.templates[t] # None
    BY Zenon DEF Filtered
  <2>3. FormFromTemplate(page.templates[t]) = [name |-> t, unit |-> t]
    BY <1>1, <2>2 DEF CatalogueShown, OwnRows, OwnRow, FormFromTemplate
  <2>4. /\ page'.form = [name |-> t, unit |-> t] /\ page'.formTemplateId = t
        /\ page'.templates = page.templates /\ page'.isCreating = FALSE
        /\ DOMAIN page' = DOMAIN page
    BY <1>1, <2>1, <2>3 DEF CatalogueShown
  <2>5. QED
    BY <1>2, <2>4
<1>5. CASE StartCreate
  <2>1. /\ page'.form = [name |-> None, unit |-> None] /\ page'.formTemplateId = None
        /\ page'.templates = page.templates /\ page'.isCreating = TRUE
        /\ DOMAIN page' = DOMAIN page
    BY <1>1, <1>5 DEF CatalogueShown, StartCreate, Show, EmptyForm
  <2>2. QED
    BY <1>2, <2>1
<1>6. CASE CloseMobileView
  <2>1. /\ page'.form = page.form /\ page'.formTemplateId = page.formTemplateId
        /\ page'.templates = page.templates /\ page'.isCreating = FALSE
        /\ DOMAIN page' = DOMAIN page
    BY <1>1, <1>6 DEF CatalogueShown, CloseMobileView, Show
  <2>2. QED
    BY <1>1, <1>2, <2>1 DEF CatalogueShown
<1>7. CASE SetStatusFilter
  <2>1. /\ page'.form = page.form /\ page'.formTemplateId = page.formTemplateId
        /\ page'.templates = page.templates /\ page'.isCreating = page.isCreating
        /\ DOMAIN page' = DOMAIN page
    BY <1>1, <1>7 DEF CatalogueShown, SetStatusFilter, Show
  <2>2. QED
    BY <1>1, <1>2, <2>1 DEF CatalogueShown
<1>8. QED
  BY <1>3, <1>4, <1>5, <1>6, <1>7

\* The page after an answer.
LEMMA CatalogueAnswers ==
  ASSUME CatalogueOK, Framed, TemplateSaved \/ Archived \/ Restored
  PROVE  CatalogueShown'
<1>1. CatalogueShown /\ CatalogueDone
  BY DEF CatalogueOK, Framed, PageOf, CatalogueOps, TemplateSaved, Archived, Restored, Answered
<1> DEFINE t == call.saved.id
           row == call.saved.row
<1>2. t \in Templates /\ OwnRow(row, t)
  BY <1>1 DEF CatalogueDone
<1>3. CASE TemplateSaved
  <2>1. page' = [page EXCEPT !.templates[t] = row, !.isCreating = FALSE,
                             !.selectedId = t, !.formTemplateId = t, !.form = FormFromTemplate(row)]
    BY <1>3 DEF TemplateSaved, Receive
  <2> HIDE DEF t, row
  <2>2. /\ page'.templates = [page.templates EXCEPT ![t] = row] /\ page'.isCreating = FALSE
        /\ page'.formTemplateId = t
              /\ page'.form = FormFromTemplate(row) /\ DOMAIN page' = DOMAIN page
    BY <1>1, <2>1 DEF CatalogueShown
  <2>3. OwnRows(page'.templates)
    BY <1>1, <1>2, <2>2, OwnRowsWith DEF CatalogueShown
  <2>4. FormFromTemplate(row) = [name |-> t, unit |-> t]
    BY <1>2 DEF FormFromTemplate, OwnRow
  <2>5. QED
    BY <1>1, <2>2, <2>3, <2>4 DEF CatalogueShown
<1>4. ASSUME OwnRow(page'.templates[t], t), page'.templates = [page.templates EXCEPT ![t]
      = page'.templates[t]],
             DOMAIN page' = DOMAIN page, page'.isCreating = page.isCreating,
             page'.formTemplateId = page.formTemplateId, page'.form = page.form
      PROVE  CatalogueShown'
  <2> DEFINE new == page'.templates[t]
  <2> HIDE DEF t, new
  <2>1. OwnRow(new, t) /\ page'.templates = [page.templates EXCEPT ![t] = new]
    BY <1>4 DEF new
  <2>2. OwnRows(page'.templates)
    BY <1>1, <1>2, <2>1, OwnRowsWith DEF CatalogueShown
  <2>3. QED
    BY <1>1, <1>4, <2>2 DEF CatalogueShown
<1>5. CASE Archived
  <2>1. page' = [page EXCEPT !.templates[t].isActive = FALSE] /\ page.templates[t] # None
    BY <1>1, <1>5 DEF Archived, Receive, Answered, CatalogueDone
  <2>2. OwnRow(page.templates[t], t)
    BY <1>1, <1>2, <2>1 DEF CatalogueShown, OwnRows
  <2>3. OwnRow([page.templates[t] EXCEPT !.isActive = FALSE], t)
    BY <2>2, OwnRowWith
  <2> HIDE DEF t, row
  <2>4. page'.templates = [page.templates EXCEPT ![t] = [page.templates[t] EXCEPT !.isActive
        = FALSE]]
    BY <1>1, <2>1 DEF CatalogueShown
  <2>5. page'.templates[t] = [page.templates[t] EXCEPT !.isActive = FALSE]
    BY <1>1, <1>2, <2>4 DEF CatalogueShown, OwnRows
  <2>6. /\ DOMAIN page' = DOMAIN page /\ page'.isCreating = page.isCreating
        /\ page'.formTemplateId = page.formTemplateId /\ page'.form = page.form
    BY <1>1, <2>1 DEF CatalogueShown
  <2>7. QED
    BY <1>4, <2>3, <2>4, <2>5, <2>6
<1>6. CASE Restored
  <2>1. page' = [page EXCEPT !.templates[t] = row]
    BY <1>6 DEF Restored, Receive
  <2> HIDE DEF t, row
  <2>2. page'.templates = [page.templates EXCEPT ![t] = row]
    BY <1>1, <2>1 DEF CatalogueShown
  <2>3. page'.templates[t] = row
    BY <1>1, <1>2, <2>2 DEF CatalogueShown, OwnRows
  <2>4. /\ DOMAIN page' = DOMAIN page /\ page'.isCreating = page.isCreating
        /\ page'.formTemplateId = page.formTemplateId /\ page'.form = page.form
    BY <1>1, <2>1 DEF CatalogueShown
  <2>5. QED
    BY <1>2, <1>4, <2>2, <2>3, <2>4
<1>7. QED
  BY <1>3, <1>5, <1>6

\* At first every service is its own.
LEMMA InitCatalogue == Init => CatalogueOK
<1> SUFFICES ASSUME Init PROVE CatalogueOK
  OBVIOUS
<1>1. PICK initial \in InitialRows : template = initial[1]
  BY DEF Init
<1>2. /\ DOMAIN template = Templates
      /\ \A t \in Templates : template[t] = None
                              \/ template[t] \in [name : {t}, unit : {t}, isActive : BOOLEAN]
  BY <1>1, RowsAssumption
<1>3. template = [t \in Templates |-> template[t]]
  BY <1>1, RowsAssumption
<1>4. QED
  BY <1>2, <1>3 DEF Init, CatalogueOK, OwnRows, OwnRow, NoPage, NoCall

\* A page that is not the catalogue sees to its own calls.
LEMMA OtherPagesKeepCatalogue ==
  ASSUME CatalogueOK, UNCHANGED template, page'.kind # "catalogue", Framed',
         call'.state \in {"none", "failed"} \/ UNCHANGED call
         \/ call'.op \in ContractorOps \cup DraftOps
  PROVE  CatalogueOK'
<1>1. OwnRows(template)'
  BY DEF CatalogueOK, OwnRows, OwnRow
<1>2. call'.state \in {"sent", "done"} => call'.op \notin CatalogueOps
  BY DEF Framed, PageOf
<1>3. QED
  BY <1>1, <1>2 DEF CatalogueOK, CatalogueSent, CatalogueOps

\* Nothing changes.
LEMMA SameCatalogue == ASSUME CatalogueOK, UNCHANGED <<template, page, call>> PROVE CatalogueOK'
BY DEF CatalogueOK, CatalogueShown, CatalogueSent, CatalogueDone, OwnRows, OwnRow, EmptyForm

\* The actions of the catalogue keep its invariant,
LEMMA CataloguePageKeeps ==
  ASSUME CatalogueOK, Framed, CataloguePage
  PROVE  CatalogueOK'
<1>1. OwnRows(template)'
  <2>1. UNCHANGED template
    BY CatalogueFrame DEF Frame, rows
  <2>2. QED
    BY <2>1 DEF CatalogueOK, OwnRows, OwnRow
<1>2. CASE OpenCatalogue
  <2> DEFINE first == First({t \in Templates : Exists(t)})
  <2>1. /\ page' = [kind |-> "catalogue", templates |-> template, statusFilter |-> "active",
                    selectedId |-> first, isCreating |-> FALSE, formTemplateId |-> first,
                    form |-> IF first = None THEN EmptyForm ELSE FormFromTemplate(template[first])]
        /\ UNCHANGED call /\ page = NoPage
    BY <1>2 DEF OpenCatalogue, Open
  <2>2. (IF first = None THEN EmptyForm ELSE FormFromTemplate(template[first]))
         = [name |-> first, unit |-> first]
    <3>1. CASE first = None
      BY <3>1 DEF EmptyForm
    <3>2. CASE first # None
      <4>1. first \in {t \in Templates : Exists(t)}
        <5> DEFINE S == {t \in Templates : Exists(t)}
        <5>1. S \subseteq Templates /\ S # {}
          BY <3>2 DEF First
        <5> HIDE DEF S
        <5>2. First(S) \in S
          BY <5>1, FirstOf
        <5>3. QED
          BY <5>2 DEF S
      <4> HIDE DEF first
      <4>2. OwnRow(template[first], first)
        BY <4>1 DEF CatalogueOK, OwnRows, Exists
      <4>3. QED
        BY <3>2, <4>2 DEF FormFromTemplate, OwnRow
    <3>3. QED
      BY <3>1, <3>2
  <2> HIDE DEF first
  <2>3. /\ page'.templates = template /\ page'.isCreating = FALSE /\ page'.formTemplateId = first
        /\ page'.form = [name |-> first, unit |-> first]
        /\ DOMAIN page' = {"kind", "templates", "statusFilter", "selectedId", "isCreating",
                           "formTemplateId", "form"}
    BY <2>1, <2>2
  <2>4. CatalogueShown'
    BY <2>3 DEF CatalogueShown, CatalogueOK
  <2>5. call'.state \notin {"sent", "done"}
    BY <2>1 DEF Framed, NoPage, PageOf
  <2>6. QED
    BY <1>1, <2>4, <2>5 DEF CatalogueOK
<1>3. CASE UpdateField \/ SelectRow \/ StartCreate \/ CloseMobileView \/ SetStatusFilter
  <2>1. CatalogueShown' /\ page'.templates = page.templates
    BY <1>3, CatalogueShows
  <2>2. UNCHANGED call
    BY <1>3 DEF UpdateField, SelectRow, StartCreate, CloseMobileView, SetStatusFilter, Show
  <2>3. (call'.state = "sent" => CatalogueSent')
        /\ (call'.state = "done" /\ call'.op \in CatalogueOps => CatalogueDone')
    BY <2>1, <2>2 DEF CatalogueOK, CatalogueSent, CatalogueDone, OwnRow, EmptyForm
  <2>4. QED
    BY <1>1, <2>1, <2>3 DEF CatalogueOK
<1>4. CASE TemplateSaved \/ Archived \/ Restored
  <2>1. CatalogueShown'
    BY <1>4, CatalogueAnswers
  <2>2. call'.state = "none"
    BY <1>4 DEF TemplateSaved, Archived, Restored, Receive, NoCall
  <2>3. QED
    BY <1>1, <2>1, <2>2 DEF CatalogueOK
<1>5. CASE HandleSave \/ ExecuteArchive \/ HandleRestore
  <2>1. CatalogueShown /\ UNCHANGED page
    BY <1>5 DEF HandleSave, ExecuteArchive, HandleRestore, OnCatalogue, CatalogueOK, Send
  <2>2. CatalogueShown'
    BY <2>1 DEF CatalogueShown, OwnRows, OwnRow
  <2>3. call'.state = "sent" /\ CatalogueSent'
    <3>1. CASE HandleSave
      <4>1. PanelIsOpen /\ ActiveForm = [name |-> Selected, unit |-> Selected]
        BY <2>1, <3>1, ActiveFormIsOfSelected DEF HandleSave
      <4>2. CASE page.isCreating
        <5>1. Selected = None
          BY <4>2 DEF Selected
        <5>2. call' = [state |-> "sent", op |-> "createTemplate", data |-> EmptyForm]
          BY <3>1, <4>1, <4>2, <5>1 DEF HandleSave, Send, EmptyForm
        <5>3. QED
          BY <5>2 DEF CatalogueSent, EmptyForm
      <4>3. CASE ~ page.isCreating
        <5>1. Selected \in Templates
          BY <4>1, <4>3, SelectedIsShown DEF PanelIsOpen
        <5>2. call' = [state |-> "sent", op |-> "patchTemplate",
                       data |-> [template |-> Selected, name |-> Selected, unit |-> Selected]]
          BY <3>1, <4>1, <4>3 DEF HandleSave, Send
        <5>3. QED
          BY <5>1, <5>2 DEF CatalogueSent
      <4>4. QED
        BY <4>2, <4>3
    <3>2. CASE ExecuteArchive \/ HandleRestore
      <4>1. Selected \in Templates /\ page.templates[Selected] # None
        BY <3>2, SelectedIsShown DEF ExecuteArchive, HandleRestore
      <4>2. PICK op \in {"archive", "restore"} : call'
            = [state |-> "sent", op |-> op, data |-> Selected]
        BY <3>2 DEF ExecuteArchive, HandleRestore, Send
      <4>3. QED
        BY <2>1, <4>1, <4>2 DEF CatalogueSent
    <3>3. QED
      BY <1>5, <3>1, <3>2
  <2>4. QED
    BY <1>1, <2>2, <2>3 DEF CatalogueOK
<1>6. QED
  BY <1>2, <1>3, <1>4, <1>5 DEF CataloguePage

\* other users do,
LEMMA OthersKeepCatalogue ==
  ASSUME Framed, CatalogueOK, OthersChange
  PROVE  CatalogueOK'
<1>1. UNCHANGED <<page, call>>
  BY DEF OthersChange
<1>2. OwnRows(template)'
  <2>1. CASE UNCHANGED template
    BY <2>1 DEF CatalogueOK, OwnRows, OwnRow
  <2>2. ASSUME NEW t \in Templates, CreateTemplate(t, [name |-> None, unit |-> None])
        PROVE  OwnRows(template)'
    <3>1. template' = [template EXCEPT ![t] = [name |-> t, unit |-> t, isActive |-> TRUE]]
      BY <2>2 DEF CreateTemplate
    <3>2. OwnRow([name |-> t, unit |-> t, isActive |-> TRUE], t)
      BY DEF OwnRow
    <3>3. QED
      BY <3>1, <3>2, OwnRowsWith DEF CatalogueOK
  <2>3. ASSUME NEW t \in Templates, SetActive(t, ~template[t].isActive)
        PROVE  OwnRows(template)'
    <3> DEFINE isActive == ~template[t].isActive
    <3>1. isActive \in BOOLEAN /\ SetActive(t, isActive)
      BY <2>3
    <3> HIDE DEF isActive
    <3>2. template[t] # None /\ template' = [template EXCEPT ![t]
          = [template[t] EXCEPT !.isActive = isActive]]
      BY <3>1 DEF SetActive, Exists
    <3>3. OwnRow([template[t] EXCEPT !.isActive = isActive], t)
      BY <3>1, <3>2, OwnRowWith DEF CatalogueOK, OwnRows
    <3>4. QED
      BY <3>2, <3>3, OwnRowsWith DEF CatalogueOK
  <2>4. \/ UNCHANGED template
        \/ \E t \in Templates : CreateTemplate(t, [name |-> None, unit |-> None])
        \/ \E t \in Templates : SetActive(t, ~template[t].isActive)
    BY DEF OthersChange, PatchContractor, UpsertRate, DeleteRate, IssueDraft, RevertToDraft
  <2>5. QED
    BY <2>1, <2>2, <2>3, <2>4
<1>3. QED
  BY <1>1, <1>2 DEF CatalogueOK, CatalogueShown, CatalogueSent, CatalogueDone, OwnRows, OwnRow,
     EmptyForm

\* and every step does.
LEMMA NextCatalogue ==
  Framed /\ CatalogueOK /\ [Next]_vars
  => CatalogueOK'
<1> SUFFICES ASSUME Framed, CatalogueOK, [Next]_vars
             PROVE  CatalogueOK'
  OBVIOUS
<1>1. Framed'
  BY NextFramed
<1>2. CASE UNCHANGED vars
  BY <1>2, SameCatalogue DEF vars
<1>3. CASE ContractorPage \/ ContractorsPage \/ InvoiceForm
  <2>1. UNCHANGED template /\ page'.kind # "catalogue"
        /\ (CallOf(ContractorOps) \/ CallOf({}) \/ CallOf(DraftOps))
    BY <1>3, ContractorFrame, ContractorsFrame, FormFrame DEF Frame, rows
  <2>2. QED
    BY <1>1, <2>1, OtherPagesKeepCatalogue DEF CallOf, NoCall
<1>4. CASE InvoicePage \/ Leave
  BY <1>1, <1>4, InvoicePageFrame, LeaveFrame, OtherPagesKeepCatalogue DEF InvoiceFrame, rows
<1>5. CASE Refused \/ Failed
  <2>1. UNCHANGED <<template, page>> /\ call'.state \in {"none", "failed"}
    BY <1>5, CallFrame DEF rows
  <2>2. QED
    BY <2>1 DEF CatalogueOK, CatalogueShown, OwnRows, OwnRow
<1>6. QED
  BY <1>2, <1>3, <1>4, <1>5, CataloguePageKeeps, ServedKeepsCatalogue, OthersKeepCatalogue DEF Next

\* What is typed for a service in ServiceCatalogManager is saved as that service's,
\* however the filter, the selection and answers change what the panel is about.
THEOREM SavesGoToTheirServices == Spec => []SaveGoesToItsTemplate
<1>1. CatalogueOK => SaveGoesToItsTemplate
  BY DEF CatalogueOK, OwnRows, OwnRow, SaveGoesToItsTemplate, Exists
<1>2. Init => Framed /\ CatalogueOK
  BY InitFramed, InitCatalogue
<1>3. Framed /\ CatalogueOK /\ [Next]_vars => Framed' /\ CatalogueOK'
  BY NextFramed, NextCatalogue
<1>4. QED
  BY <1>1, <1>2, <1>3, PTL DEF Spec

-----------------------------------------------------------------------------
(***************************************************************************)
(* The form of an invoice: the page and the server calculate alike.        *)
(***************************************************************************)
\* The VAT that a price shows is that of the standard rate.
LEMMA StandardFactor == VatFactor("23") = 23
BY DEF VatFactor, ZeroVatRates

\* No whole number is half a step from n/d.
NoTie(n, d) == \A k \in Int : 2 * n # (2 * k + 1) * d

\* A remainder that is not half of the step leaves no tie.
LEMMA NoTieOfRemainder ==
  \A n \in Int, d \in Nat \ {0} : 2 * (n % d) # d => NoTie(n, d)
<1> SUFFICES ASSUME NEW n \in Int, NEW d \in Nat \ {0}, 2 * (n % d) # d, NEW k \in Int,
                    2 * n = (2 * k + 1) * d
             PROVE  FALSE
  BY DEF NoTie
<1> DEFINE q == n \div d
           r == n % d
<1>1. q \in Int /\ r \in Int /\ 0 <= r /\ r < d /\ n = d * q + r
  OBVIOUS
<1> HIDE DEF q, r
<1> DEFINE m == 2 * k + 1 - 2 * q
<1>2. m \in Int /\ m # 0
  BY <1>1
<1>3. 2 * r = d * m
  BY <1>1
<1> HIDE DEF m
<1>4. m = 1
  <2>1. m <= 1
    <3>1. SUFFICES ASSUME m >= 2 PROVE FALSE
      BY <1>2
    <3>2. d * m >= d * 2
      BY <1>2, <3>1
    <3>3. QED
      BY <1>1, <1>3, <3>2
  <2>2. m >= 1
    <3>1. SUFFICES ASSUME m <= -1 PROVE FALSE
      BY <1>2
    <3>2. d * m <= d * (-1)
      BY <1>2, <3>1
    <3>3. QED
      BY <1>1, <1>3, <3>2
  <2>3. QED
    BY <1>2, <2>1, <2>2
<1>5. 2 * r = d
  BY <1>3, <1>4
<1>6. QED
  BY <1>5 DEF r

\* Then halves up and halves away from zero are the same.
LEMMA RoundedAlike ==
  \A n \in Int, d \in Nat \ {0} : NoTie(n, d) => HalfUp(n, d) = HalfAway(n, d)
<1> SUFFICES ASSUME NEW n \in Int, NEW d \in Nat \ {0}, NoTie(n, d)
             PROVE  HalfUp(n, d) = HalfAway(n, d)
  OBVIOUS
<1>1. CASE n >= 0
  BY <1>1, HalfUpIsHalfAway
<1>2. CASE n < 0
  <2> DEFINE e == 2 * d
             q == (2 * n + d) \div e
             p == (-2 * n + d) \div e
  <2>1. e \in Nat \ {0}
    OBVIOUS
  <2> HIDE DEF e
  <2>2. /\ q \in Int /\ e * q <= 2 * n + d /\ 2 * n + d < e * q + e
        /\ p \in Int /\ e * p <= -2 * n + d /\ -2 * n + d < e * p + e
    BY <2>1
  <2>3. 2 * n + d # e * q
    <3>1. q - 1 \in Int
      BY <2>2
    <3> HIDE DEF q
    <3>2. 2 * n # (2 * (q - 1) + 1) * d
      BY <3>1 DEF NoTie
    <3>3. (2 * (q - 1) + 1) * d = e * q - d
      BY <2>2 DEF e
    <3>4. QED
      BY <3>2, <3>3
  <2> HIDE DEF q, p
  <2>4. e * (q + p) < e * 1 /\ e * (q + p) > e * (-1)
    <3>1. e * (q + p) = e * q + e * p
      BY <2>1, <2>2
    <3>2. e = 2 * d
      BY DEF e
    <3>3. QED
      BY <2>1, <2>2, <2>3, <3>1, <3>2
  <2>5. q + p = 0
    <3> DEFINE x == q + p
    <3>1. x \in Int /\ e * x < e * 1 /\ e * x > e * (-1)
      BY <2>2, <2>4
    <3> HIDE DEF x
    <3>2. x < 1 /\ x > -1
      BY <2>1, <3>1
    <3>3. QED
      BY <3>1, <3>2 DEF x
  <2>6. HalfUp(n, d) = q /\ HalfAway(n, d) = -p
    <3>1. HalfUp(n, d) = q
      BY DEF HalfUp, q, e
    <3>2. Magnitude(n) = -n /\ 2 * (-n) = -2 * n
      BY <1>2 DEF Magnitude
    <3>3. HalfAway(n, d) = -p
      BY <1>2, <3>2 DEF HalfAway, p, e
    <3>4. QED
      BY <3>1, <3>3
  <2>7. QED
    BY <2>2, <2>5, <2>6
<1>3. QED
  BY <1>1, <1>2

\* The line that the server makes of a price is one of InvoiceMath.
LEMMA PricedLine == \A price \in Decimals : IsLine(Priced(price))
BY DecimalType DEF Priced, IsLine, VatRates

\* The page and the server round such a price, and the VAT of it, alike.
LEMMA RoundsAlikeMeans ==
  ASSUME NEW price \in Decimals, RoundsAlike(price)
  PROVE  /\ NoTie(100 * price.unscaled, PowerOfTen[price.scale])
         /\ NoTie(23 * Net(Priced(price)), 100)
<1> DEFINE u == price.unscaled
           s == price.scale
           v == 23 * Net(Priced(price))
<1>1. u \in Int /\ s \in Nat /\ price = Decimal(u, s)
  BY DecimalType
<1>2. Net(Priced(price)) \in Int
  BY PricedLine, LineParts
<1>3. \A amount \in {Decimal(u, s), Decimal(v, 4)} :
         amount.scale > 2 =>
             2 * (amount.unscaled % PowerOfTen[amount.scale - 2]) # PowerOfTen[amount.scale - 2]
  <2>1. Times(Decimal(1, 0), price) = Decimal(u, s)
    <3>1. Times(Decimal(1, 0), price) = Decimal(1 * u, 0 + s)
      BY StandardFactor, DecimalFields DEF Times
    <3>2. QED
      BY <1>1, <3>1
  <2>2. Net(Priced(price)) * 23 = v
    BY <1>2
  <2> HIDE DEF u, s, v
  <2>3. QED
    BY <2>1, <2>2, StandardFactor, PricedLine DEF RoundsAlike
<1>4. NoTie(v, 100)
  <2>1. Decimal(v, 4).scale = 4 /\ Decimal(v, 4).unscaled = v
    BY DecimalFields
  <2>2. 2 * (v % PowerOfTen[2]) # PowerOfTen[2]
    BY <1>3, <2>1
  <2>3. v \in Int
    BY <1>2
  <2> HIDE DEF v
  <2>4. QED
    BY <2>2, <2>3, PowersOfTen, NoTieOfRemainder
<1>5. NoTie(100 * u, PowerOfTen[s])
  <2> HIDE DEF u, s
  <2>1. CASE s > 2
    <3> DEFINE d == PowerOfTen[s - 2]
    <3>1. d \in Nat \ {0}
      BY <1>1, <2>1, PowersArePositive
    <3>2. PowerOfTen[s] = 100 * d
      <4>1. PowerOfTen[2 + (s - 2)] = PowerOfTen[2] * d
        BY <1>1, <2>1, PowersMultiply
      <4>2. 2 + (s - 2) = s
        BY <1>1
      <4>3. QED
        BY <4>1, <4>2, PowersOfTen
    <3>3. 2 * (u % d) # d
      BY <1>3, <2>1, DecimalFields
    <3> HIDE DEF d
    <3>4. NoTie(u, d)
      BY <1>1, <3>1, <3>3, NoTieOfRemainder
    <3>5. NoTie(100 * u, 100 * d)
      <4> SUFFICES ASSUME NEW k \in Int, 2 * (100 * u) = (2 * k + 1) * (100 * d) PROVE FALSE
        BY DEF NoTie
      <4> DEFINE z == (2 * k + 1) * d
      <4>1. z \in Int /\ (2 * k + 1) * (100 * d) = 100 * z
        BY <3>1
      <4>2. 2 * u # z
        BY <3>4 DEF NoTie
      <4> HIDE DEF z
      <4>3. QED
        BY <1>1, <4>1, <4>2
    <3>6. QED
      BY <3>2, <3>5
  <2>2. CASE s \in {0, 1, 2}
    BY <1>1, <2>2, PowersOfTen DEF NoTie
  <2>3. QED
    BY <1>1, <2>1, <2>2
<1>6. QED
  BY <1>4, <1>5

\* A line of the form, and the same line on the server.
IsFormLine(line) == line.unitNetPrice = None \/ line.unitNetPrice \in GoodPrices

\* The page and the server calculate the same amounts of a line.
LEMMA CalcLineIs ==
  ASSUME NEW line, IsFormLine(line)
  PROVE  /\ CalcLine(line) \in Amounts
         /\ line.unitNetPrice # None =>
               CalcLine(line) = LineTotals(Priced(line.unitNetPrice))
<1> DEFINE price == IF line.unitNetPrice = None THEN Decimal(0, 0) ELSE line.unitNetPrice
           net == HalfUp(price.unscaled * 100, PowerOfTen[price.scale])
           vat == HalfUp(net * 23, 100)
<1>1. price \in Decimals
  BY DecimalType DEF IsFormLine, GoodPrices
<1>2. CalcLine(line) = [net |-> net, vat |-> vat, gross |-> net + vat]
  BY StandardFactor DEF CalcLine
<1>3. ASSUME NEW n \in Int, NEW d \in Nat \ {0} PROVE HalfUp(n, d) \in Int
  BY DEF HalfUp
<1>4. price.unscaled \in Int /\ price.scale \in Nat /\ price.unscaled * 100 \in Int
      /\ PowerOfTen[price.scale] \in Nat \ {0}
  <2> HIDE DEF price
  <2>1. price.unscaled \in Int /\ price.scale \in Nat
    BY <1>1, DecimalType
  <2>2. QED
    BY <2>1, PowersArePositive
<1> HIDE DEF price
<1>5. net \in Int
  BY <1>3, <1>4
<1> HIDE DEF net
<1>6. vat \in Int
  BY <1>3, <1>5
<1> HIDE DEF vat
<1>7. CalcLine(line) \in Amounts
  BY <1>2, <1>5, <1>6 DEF Amounts
<1>8. ASSUME line.unitNetPrice # None
      PROVE  CalcLine(line) = LineTotals(Priced(line.unitNetPrice))
  <2> DEFINE row == Priced(price)
  <2>1. price = line.unitNetPrice /\ RoundsAlike(price)
    BY <1>8 DEF price, IsFormLine, GoodPrices
  <2>2. IsLine(row)
    BY <1>1, PricedLine
  <2>3. net = Net(row)
    <3>1. Unscaled(row) = price.unscaled /\ Scale(row) = price.scale
      BY <1>4, DecimalFields DEF Unscaled, Scale, Priced
    <3>2. Net(row) = HalfAway(100 * price.unscaled, PowerOfTen[price.scale])
      BY <1>4, <3>1, NetOfLine, GroszeIsHalfAway
    <3>3. NoTie(100 * price.unscaled, PowerOfTen[price.scale])
      BY <1>1, <2>1, RoundsAlikeMeans
    <3>4. price.unscaled * 100 = 100 * price.unscaled /\ 100 * price.unscaled \in Int
      BY <1>4
    <3>5. QED
      BY <1>4, <3>2, <3>3, <3>4, RoundedAlike DEF net
  <2>4. vat = Vat(row)
    <3>1. Vat(row) = Grosze(Decimal(Net(row) * 23, 4))
      BY <2>2, VatOfLine DEF Priced, VatFactor, ZeroVatRates
    <3>2. Grosze(Decimal(Net(row) * 23, 4)) = HalfAway(Net(row) * 23, 100)
      BY GroszeCases, PowersOfTen
    <3>3. NoTie(23 * Net(row), 100)
      BY <1>1, <2>1, RoundsAlikeMeans
    <3>4. Net(row) \in Int /\ Net(row) * 23 = 23 * Net(row) /\ Net(row) * 23 \in Int
      BY <2>2, LineParts
    <3> HIDE DEF row
    <3>5. QED
      BY <2>3, <3>1, <3>2, <3>3, <3>4, RoundedAlike DEF vat
  <2>5. QED
    BY <1>2, <2>1, <2>3, <2>4 DEF LineTotals
<1>9. QED
  BY <1>7, <1>8

\* The lines that Kept keeps of the first n.
KeptParts(f, lines, named, n) ==
    f = [i \in 0 .. n |-> IF i = 0 THEN <<>>
                          ELSE IF IsNamed(lines[i]) = named THEN Append(f[i - 1], lines[i])
                          ELSE f[i - 1]]

\* They exist, however many lines there are.
LEMMA KeptPartsExist == \A lines, named : \A n \in Nat : \E f : KeptParts(f, lines, named, n)
<1> SUFFICES ASSUME NEW lines, NEW named
             PROVE  \A n \in Nat : \E f : KeptParts(f, lines, named, n)
  OBVIOUS
<1> DEFINE S == {n \in Nat : \E f : KeptParts(f, lines, named, n)}
           next(before, i) == IF IsNamed(lines[i]) = named THEN Append(before, lines[i]) ELSE before
<1>0. \A f, n : KeptParts(f, lines, named, n)
                <=> f = [i \in 0 .. n |-> IF i = 0 THEN <<>> ELSE next(f[i - 1], i)]
  BY Zenon DEF KeptParts
<1> HIDE DEF next
<1>1. 0 \in S
  <2>1. KeptParts([i \in 0 .. 0 |-> <<>>], lines, named, 0)
    BY <1>0
  <2>2. QED
    BY <2>1
<1>2. ASSUME NEW n \in Nat, n \in S
      PROVE  n + 1 \in S
  <2>1. PICK f : f = [i \in 0 .. n |-> IF i = 0 THEN <<>> ELSE next(f[i - 1], i)]
    BY <1>0, <1>2
  <2> DEFINE g == [i \in 0 .. n + 1 |-> IF i = n + 1 THEN next(f[n], n + 1) ELSE f[i]]
  <2>2. \A i \in 0 .. n + 1 : g[i] = IF i = 0 THEN <<>> ELSE next(g[i - 1], i)
    BY <2>1
  <2>3. KeptParts(g, lines, named, n + 1)
    BY <1>0, <2>2
  <2>4. QED
    BY <2>3
<1>3. Nat \subseteq S
  <2> HIDE DEF S
  <2>1. QED
    BY <1>1, <1>2, Induction
<1>4. QED
  BY <1>3

\* The lines that are kept, one line after another.
Adds1(before, line, after, named) ==
    IF IsNamed(line) = named THEN after = Append(before, line) ELSE after = before

\* Kept goes through the lines one after another.
LEMMA KeptSteps ==
  ASSUME NEW S, NEW lines \in Seq(S), NEW named
  PROVE  \E f : /\ f[0] = <<>>
                /\ \A i \in 1 .. Len(lines) : Adds1(f[i - 1], lines[i], f[i], named)
                /\ Kept(lines, named) = f[Len(lines)]
<1> DEFINE N == Len(lines)
           f == CHOOSE f : KeptParts(f, lines, named, N)
<1>1. N \in Nat
  OBVIOUS
<1>2. KeptParts(f, lines, named, N)
  BY <1>1, KeptPartsExist
<1>3. Kept(lines, named) = f[N]
  BY DEF Kept, KeptParts
<1> HIDE DEF f
<1>4. f[0] = <<>> /\ \A i \in 1 .. N : Adds1(f[i - 1], lines[i], f[i], named)
  <2> DEFINE next(before, i) == IF IsNamed(lines[i]) = named
        THEN Append(before, lines[i]) ELSE before
  <2>1. f = [i \in 0 .. N |-> IF i = 0 THEN <<>> ELSE next(f[i - 1], i)]
    BY <1>2, Zenon DEF KeptParts
  <2>2. \A before, after, i : after = next(before, i) => Adds1(before, lines[i], after, named)
    BY Zenon DEF Adds1
  <2> HIDE DEF next
  <2>3. QED
    BY <1>1, <2>1, <2>2
<1>5. QED
  BY <1>3, <1>4

\* One more amount is added to the sum.
LEMMA TotalOfAppend ==
  ASSUME NEW s \in Seq(Amounts), NEW amounts \in Amounts
  PROVE  TotalAmounts(Append(s, amounts)) = Plus(TotalAmounts(s), amounts)
<1> DEFINE N == Len(s)
           t == Append(s, amounts)
<1>1. /\ N \in Nat /\ t \in Seq(Amounts) /\ Len(t) = N + 1 /\ t[N + 1] = amounts
      /\ \A k \in 1 .. N : t[k] = s[k]
  OBVIOUS
<1> HIDE DEF t
<1>2. PICK f \in [0 .. N -> Amounts] :
         /\ f[0] = Zero /\ \A i \in 1 .. N : f[i] = Plus(f[i - 1], s[i])
         /\ TotalAmounts(s) = f[N]
  BY TotalSteps
<1>3. PICK g \in [0 .. N + 1 -> Amounts] :
         /\ g[0] = Zero /\ \A i \in 1 .. N + 1 : g[i] = Plus(g[i - 1], t[i])
         /\ TotalAmounts(t) = g[N + 1]
  BY <1>1, TotalSteps
<1> DEFINE S == {i \in Nat : i <= N => g[i] = f[i]}
<1>4. 0 \in S
  BY <1>2, <1>3
<1>5. ASSUME NEW i \in Nat, i \in S PROVE i + 1 \in S
  <2> SUFFICES ASSUME i + 1 <= N PROVE g[i + 1] = f[i + 1]
    OBVIOUS
  <2>1. g[i] = f[i] /\ i + 1 \in 1 .. N /\ i + 1 \in 1 .. N + 1 /\ (i + 1) - 1 = i
    BY <1>1, <1>5
  <2>2. QED
    BY <1>1, <1>2, <1>3, <2>1
<1>6. Nat \subseteq S
  <2> HIDE DEF S
  <2>1. QED
    BY <1>4, <1>5, Induction
<1>7. g[N] = f[N]
  BY <1>1, <1>6
<1>8. g[N + 1] = Plus(g[N], amounts)
  <2>1. N + 1 \in 1 .. N + 1 /\ (N + 1) - 1 = N
    BY <1>1
  <2>2. QED
    BY <1>1, <1>3, <2>1
<1>9. QED
  BY <1>2, <1>3, <1>7, <1>8 DEF t

\* What is kept is of the lines, and named or not as was asked.
LEMMA KeptAreNamed ==
  ASSUME NEW S, NEW lines \in Seq(S), NEW named
  PROVE  Kept(lines, named) \in Seq({line \in S : IsNamed(line) = named})
<1> DEFINE N == Len(lines)
           K == {line \in S : IsNamed(line) = named}
<1>1. N \in Nat /\ \A i \in 1 .. N : lines[i] \in S
  OBVIOUS
<1>2. PICK f : /\ f[0] = <<>>
               /\ \A i \in 1 .. N : Adds1(f[i - 1], lines[i], f[i], named)
               /\ Kept(lines, named) = f[N]
  BY KeptSteps
<1>3. ASSUME NEW before \in Seq(K), NEW line \in S, NEW after, Adds1(before, line, after, named)
      PROVE  after \in Seq(K)
  <2>1. CASE IsNamed(line) = named
    <3>1. line \in K
      BY <2>1, Zenon
    <3>2. after = Append(before, line)
      BY <1>3, <2>1, Zenon DEF Adds1
    <3> HIDE DEF K
    <3>3. QED
      BY <1>3, <3>1, <3>2
  <2>2. CASE ~ (IsNamed(line) = named)
    BY <1>3, <2>2, Zenon DEF Adds1
  <2>3. QED
    BY <2>1, <2>2
<1> HIDE DEF K
<1> DEFINE T == {i \in Nat : i <= N => f[i] \in Seq(K)}
<1>4. 0 \in T
  <2>1. <<>> \in Seq(K)
    OBVIOUS
  <2>2. QED
    BY <1>2, <2>1
<1>5. ASSUME NEW i \in Nat, i \in T PROVE i + 1 \in T
  <2> SUFFICES ASSUME i + 1 <= N PROVE f[i + 1] \in Seq(K)
    OBVIOUS
  <2>1. f[i] \in Seq(K) /\ i + 1 \in 1 .. N /\ (i + 1) - 1 = i
    BY <1>1, <1>5
  <2>2. Adds1(f[i], lines[i + 1], f[i + 1], named)
    BY <1>2, <2>1
  <2>3. QED
    BY <1>1, <1>3, <2>1, <2>2
<1>6. Nat \subseteq T
  <2> HIDE DEF T
  <2>1. QED
    BY <1>4, <1>5, Induction
<1>7. QED
  BY <1>1, <1>2, <1>6 DEF K

\* The amounts that the form calculates.
Calcs(lines) == [k \in DOMAIN lines |-> CalcLine(lines[k])]

\* The form adds them up.
LEMMA FormTotalsOf ==
  ASSUME NEW S, \A line \in S : IsFormLine(line), NEW lines \in Seq(S)
  PROVE  /\ FormTotals(lines) = TotalAmounts(Calcs(lines))
         /\ Calcs(lines) \in Seq(Amounts) /\ Len(Calcs(lines)) = Len(lines)
         /\ FormTotals(lines) \in Amounts
         /\ \A line \in S : FormTotals(Append(lines, line))
                            = Plus(FormTotals(lines), CalcLine(line))
<1>1. \A line \in S : CalcLine(line) \in Amounts
  BY CalcLineIs
<1>2. \A s : FormTotals(s) = TotalAmounts(Calcs(s))
  BY DEF FormTotals, Calcs
<1>3. ASSUME NEW s \in Seq(S)
      PROVE  Calcs(s) \in Seq(Amounts) /\ Len(Calcs(s)) = Len(s)
             /\ \A k \in 1 .. Len(s) : Calcs(s)[k] = CalcLine(s[k])
  <2>1. DOMAIN s = 1 .. Len(s) /\ Len(s) \in Nat /\ \A k \in 1 .. Len(s) : s[k] \in S
    OBVIOUS
  <2>2. QED
    BY <1>1, <2>1 DEF Calcs
<1>4. ASSUME NEW line \in S
      PROVE  Calcs(Append(lines, line)) = Append(Calcs(lines), CalcLine(line))
  <2> DEFINE s == Append(lines, line)
             x == CalcLine(line)
  <2>1. s \in Seq(S) /\ Len(s) = Len(lines) + 1 /\ s[Len(lines) + 1] = line
        /\ \A k \in 1 .. Len(lines) : s[k] = lines[k]
    OBVIOUS
  <2>2. x \in Amounts
    BY <1>1
  <2> HIDE DEF s
  <2>3. /\ Calcs(s) \in Seq(Amounts) /\ Len(Calcs(s)) = Len(lines) + 1
        /\ \A k \in 1 .. Len(lines) + 1 : Calcs(s)[k] = CalcLine(s[k])
    BY <1>3, <2>1
  <2> HIDE DEF x
  <2>4. /\ Calcs(lines) \in Seq(Amounts) /\ Len(Calcs(lines)) = Len(lines) /\ Len(lines) \in Nat
        /\ \A k \in 1 .. Len(lines) : Calcs(lines)[k] = CalcLine(lines[k])
    BY <1>3
  <2> DEFINE a == Calcs(s)
             b == Append(Calcs(lines), x)
  <2>5. /\ b \in Seq(Amounts) /\ Len(b) = Len(lines) + 1 /\ b[Len(lines) + 1] = x
        /\ \A k \in 1 .. Len(lines) : b[k] = Calcs(lines)[k]
    BY <2>2, <2>4
  <2>6. a[Len(lines) + 1] = x
    BY <2>1, <2>3, <2>4 DEF x
  <2>7. \A k \in 1 .. Len(lines) : a[k] = CalcLine(lines[k])
    BY <2>1, <2>3, <2>4
  <2> HIDE DEF a, b
  <2>8. \A k \in 1 .. Len(lines) + 1 : a[k] = b[k]
    BY <2>4, <2>5, <2>6, <2>7
  <2>9. a = b
    <3>1. a \in Seq(Amounts) /\ Len(a) = Len(lines) + 1
      BY <2>3 DEF a
    <3>2. QED
      BY <2>4, <2>5, <2>8, <3>1
  <2>10. QED
    BY <2>9 DEF a, b, s, x
<1>5. QED
  BY <1>1, <1>2, <1>3, <1>4, TotalOfAppend, TotalType

\* The form's total is that of the named lines and of the others.
LEMMA SplitTotals ==
  ASSUME NEW S, \A line \in S : IsFormLine(line), NEW lines \in Seq(S)
  PROVE  FormTotals(lines) = Plus(FormTotals(Kept(lines, TRUE)),
                                           FormTotals(Kept(lines, FALSE)))
<1> DEFINE N == Len(lines)
           Total(s) == FormTotals(s)
<1>1. N \in Nat /\ \A i \in 1 .. N : lines[i] \in S
  OBVIOUS
<1>2. PICK f : /\ f[0] = <<>>
               /\ \A i \in 1 .. N : Adds1(f[i - 1], lines[i], f[i], TRUE)
               /\ Kept(lines, TRUE) = f[N]
  BY KeptSteps
<1>3. PICK g : /\ g[0] = <<>>
               /\ \A i \in 1 .. N : Adds1(g[i - 1], lines[i], g[i], FALSE)
               /\ Kept(lines, FALSE) = g[N]
  BY KeptSteps
<1>4. PICK h \in [0 .. N -> Amounts] :
         /\ h[0] = Zero
         /\ \A i \in 1 .. N : h[i] = Plus(h[i - 1], CalcLine(lines[i]))
         /\ Total(lines) = h[N]
  <2>1. /\ Total(lines) = TotalAmounts(Calcs(lines)) /\ Calcs(lines) \in Seq(Amounts)
        /\ Len(Calcs(lines)) = N
    BY FormTotalsOf
  <2>2. \A i \in 1 .. N : Calcs(lines)[i] = CalcLine(lines[i])
    BY <1>1 DEF Calcs
  <2> HIDE DEF Total
  <2>3. QED
    BY <2>1, <2>2, TotalSteps
<1>5. /\ \A s \in Seq(S) : Total(s) \in Amounts
      /\ \A s \in Seq(S), line \in S : Total(Append(s, line)) = Plus(Total(s), CalcLine(line))
  BY FormTotalsOf
<1>6. Total(<<>>) = Zero
  <2>1. <<>> \in Seq(S) /\ Len(<<>>) = 0
    OBVIOUS
  <2>2. Total(<<>>)
        = TotalAmounts(Calcs(<<>>)) /\ Calcs(<<>>) \in Seq(Amounts) /\ Len(Calcs(<<>>)) = 0
    BY <2>1, FormTotalsOf
  <2>3. QED
    BY <2>2, TotalSteps
<1> HIDE DEF Total
<1> DEFINE T == {i \in Nat : i <= N => /\ f[i] \in Seq(S) /\ g[i] \in Seq(S)
                                       /\ h[i] = Plus(Total(f[i]), Total(g[i]))}
<1>7. 0 \in T
  <2>1. <<>> \in Seq(S) /\ Plus(Zero, Zero) = Zero
    BY PlusType, PlusLaws
  <2>2. QED
    BY <1>2, <1>3, <1>4, <1>6, <2>1
<1>8. ASSUME NEW i \in Nat, i \in T PROVE i + 1 \in T
  <2> SUFFICES ASSUME i + 1 <= N
               PROVE  /\ f[i + 1] \in Seq(S) /\ g[i + 1] \in Seq(S)
                      /\ h[i + 1] = Plus(Total(f[i + 1]), Total(g[i + 1]))
    OBVIOUS
  <2> DEFINE line == lines[i + 1]
             added == CalcLine(line)
  <2>1. /\ f[i] \in Seq(S) /\ g[i] \in Seq(S) /\ h[i] = Plus(Total(f[i]), Total(g[i]))
        /\ i + 1 \in 1 .. N /\ (i + 1) - 1 = i
    BY <1>1, <1>8
  <2>2. line \in S /\ added \in Amounts
    BY <1>1, <2>1, CalcLineIs
  <2>3. /\ Adds1(f[i], line, f[i + 1], TRUE) /\ Adds1(g[i], line, g[i + 1], FALSE)
        /\ h[i + 1] = Plus(h[i], added)
    BY <1>2, <1>3, <1>4, <2>1
  <2> HIDE DEF line, added
  <2>4. \/ f[i + 1] = Append(f[i], line) /\ g[i + 1] = g[i]
        \/ f[i + 1] = f[i] /\ g[i + 1] = Append(g[i], line)
    BY <2>3 DEF Adds1, IsNamed
  <2>5. Total(f[i]) \in Amounts /\ Total(g[i]) \in Amounts /\ Zero \in Amounts
    BY <1>5, <2>1, PlusType
  <2>6. CASE f[i + 1] = Append(f[i], line) /\ g[i + 1] = g[i]
    <3>1. Total(f[i + 1]) = Plus(Total(f[i]), added) /\ f[i + 1] \in Seq(S)
      BY <1>5, <2>1, <2>2, <2>6 DEF added
    <3>2. Plus(Plus(Total(f[i]), Total(g[i])), Plus(added, Zero))
          = Plus(Plus(Total(f[i]), added), Plus(Total(g[i]), Zero))
      BY <2>2, <2>5, PlusLaws
    <3>3. QED
      BY <2>1, <2>2, <2>3, <2>5, <2>6, <3>1, <3>2, PlusLaws
  <2>7. CASE f[i + 1] = f[i] /\ g[i + 1] = Append(g[i], line)
    <3>1. Total(g[i + 1]) = Plus(Total(g[i]), added) /\ g[i + 1] \in Seq(S)
      BY <1>5, <2>1, <2>2, <2>7 DEF added
    <3>2. Plus(Plus(Total(f[i]), Total(g[i])), Plus(Zero, added))
          = Plus(Plus(Total(f[i]), Zero), Plus(Total(g[i]), added))
      BY <2>2, <2>5, PlusLaws
    <3>3. QED
      BY <2>1, <2>2, <2>3, <2>5, <2>7, <3>1, <3>2, PlusLaws
  <2>8. QED
    BY <2>4, <2>6, <2>7
<1>9. Nat \subseteq T
  <2> HIDE DEF T
  <2>1. QED
    BY <1>7, <1>8, Induction
<1>10. QED
  BY <1>1, <1>2, <1>3, <1>4, <1>9 DEF Total

-----------------------------------------------------------------------------
(***************************************************************************)
(* The form of an invoice: rates, drafts, and what is sent.                *)
(***************************************************************************)
\* A table of rates with one other rate.
LEMMA RateWith ==
  ASSUME NEW table, AreRates(table, Contractors, Templates), NEW x, NEW row,
         x \in Contractors \X Templates => row \in Rates \cup {None}
  PROVE  AreRates([table EXCEPT ![x] = row], Contractors, Templates)
<1> DEFINE other == [table EXCEPT ![x] = row]
<1>1. DOMAIN table = Contractors \X Templates
  BY DEF AreRates
<1>2. \A pair \in Contractors \X Templates : other[pair] = IF pair = x THEN row ELSE table[pair]
  BY <1>1
<1>3. other = [pair \in Contractors \X Templates |-> other[pair]]
  BY <1>1
<1> HIDE DEF other
<1>4. ASSUME NEW c \in Contractors, NEW t \in Templates
      PROVE  other[<<c, t>>] = None \/ other[<<c, t>>] \in Rates
  <2>1. <<c, t>> \in Contractors \X Templates
        /\ (table[<<c, t>>] = None \/ table[<<c, t>>] \in Rates)
    BY DEF AreRates
  <2>2. QED
    BY <1>2, <2>1
<1>5. AreRates(other, Contractors, Templates)
  BY <1>3, <1>4 DEF AreRates
<1>6. QED
  BY <1>5 DEF other

\* A rate is agreed, changed or deleted.
LEMMA RateChanges ==
  ASSUME rates \in Nat, AreRates(rate, Contractors, Templates), NEW c, NEW t
  PROVE  /\ \A price \in Prices : UpsertRate(c, t, price)
               => rates' \in Nat /\ AreRates(rate, Contractors, Templates)'
         /\ \A id : DeleteRate(c, t, id)
               => rates' \in Nat /\ AreRates(rate, Contractors, Templates)'
<1>1. ASSUME NEW price \in Prices, UpsertRate(c, t, price)
      PROVE  rates' \in Nat /\ AreRates(rate', Contractors, Templates)
  <2>1. CASE rate[<<c, t>>] = None
    <3>1. /\ rates' = rates + 1
          /\ rate' = [rate EXCEPT ![<<c, t>>] = [id |-> rates + 1, unitNetPrice |-> price]]
      BY <1>1, <2>1, Zenon DEF UpsertRate
    <3>2. [id |-> rates + 1, unitNetPrice |-> price] \in Rates
      BY <1>1 DEF Rates
    <3> DEFINE row == [id |-> rates + 1, unitNetPrice |-> price]
    <3>3. row \in Rates /\ rate' = [rate EXCEPT ![<<c, t>>] = row]
      BY <3>1, <3>2
    <3> HIDE DEF row
    <3>4. AreRates([rate EXCEPT ![<<c, t>>] = row], Contractors, Templates)
      BY <3>3, RateWith
    <3>5. rates' \in Nat
      BY <3>1
    <3>6. QED
      BY <3>3, <3>4, <3>5
  <2>2. CASE rate[<<c, t>>] # None
    <3> DEFINE row == [rate[<<c, t>>] EXCEPT !.unitNetPrice = price]
    <3>1. rates' = rates /\ rate' = [rate EXCEPT ![<<c, t>>].unitNetPrice = price]
      BY <1>1, <2>2, Zenon DEF UpsertRate
    <3>2. rate' = [rate EXCEPT ![<<c, t>>] = row]
      BY <3>1
    <3>3. <<c, t>> \in Contractors \X Templates => row \in Rates
      BY <1>1, <2>2 DEF AreRates, Rates
    <3> HIDE DEF row
    <3>4. AreRates([rate EXCEPT ![<<c, t>>] = row], Contractors, Templates)
      BY <3>3, RateWith
    <3>5. QED
      BY <3>1, <3>2, <3>4
  <2>3. QED
    BY <2>1, <2>2
<1>2. ASSUME NEW id, DeleteRate(c, t, id)
      PROVE  rates' \in Nat /\ AreRates(rate', Contractors, Templates)
  <2>1. UNCHANGED rates /\ rate' = [rate EXCEPT ![<<c, t>>] = None]
    BY <1>2 DEF DeleteRate
  <2>2. QED
    BY <2>1, RateWith
<1>3. QED
  BY <1>1, <1>2 DEF AreRates, Rates

\* Nothing changes the rates.
LEMMA SameRates ==
  ASSUME RatesOK, UNCHANGED <<rate, rates>>
  PROVE  rates' \in Nat /\ AreRates(rate, Contractors, Templates)'
BY DEF RatesOK, AreRates, Rates

\* The rates keep their invariant.
LEMMA NextRates == Framed /\ RatesOK /\ [Next]_vars => RatesOK'
<1> SUFFICES ASSUME Framed, RatesOK, [Next]_vars PROVE RatesOK'
  OBVIOUS
<1>1. CASE UNCHANGED vars
  BY <1>1, SameRates DEF vars, RatesOK
<1>2. CASE CataloguePage \/ ContractorsPage \/ InvoiceForm
           \/ InvoicePage \/ Leave \/ Refused \/ Failed
  <2>1. UNCHANGED <<rate, rates>>
        /\ (call' = call \/ call'.state \in {"none", "failed"}
            \/ call'.op \in CatalogueOps \cup DraftOps)
    BY <1>2, CatalogueFrame, ContractorsFrame, FormFrame, InvoicePageFrame, LeaveFrame, CallFrame
    DEF Frame, InvoiceFrame, CallOf, rows, NoCall
  <2>2. call'.state = "sent" /\ call'.op = "upsertRate" => call' = call
    BY <2>1 DEF CatalogueOps, DraftOps
  <2>3. QED
    BY <2>1, <2>2, SameRates DEF RatesOK
<1>3. CASE ContractorPage
  <2>1. UNCHANGED <<rate, rates>>
    BY <1>3, ContractorFrame DEF Frame, rows
  <2>2. CASE HandleAdd
    <3>1. PICK price \in Prices : \E data : /\ data.unitNetPrice = price
                                            /\ Send("upsertRate", data)
      BY <2>2 DEF HandleAdd
    <3>2. call'.data.unitNetPrice \in Prices
      BY <3>1 DEF Send
    <3>3. QED
      BY <2>1, <3>2, SameRates DEF RatesOK
  <2>3. CASE ~ HandleAdd
    <3>1. call'.state = "sent" /\ call'.op = "upsertRate" => call' = call
      <4>1. CASE SaveContractor \/ ExecuteDelete
        <5>1. \E op \in {"patchContractor", "deleteRate"} : \E data : Send(op, data)
          BY <4>1, Zenon DEF SaveContractor, ExecuteDelete
        <5>2. QED
          BY <5>1 DEF Send
      <4>2. CASE OpenContractor \/ ToggleIsActive
        BY <4>2 DEF OpenContractor, ToggleIsActive, Open, Show
      <4>3. CASE ContractorSaved \/ RateAnswer
        BY <4>3 DEF ContractorSaved, RateAnswer, Receive, NoCall
      <4>4. QED
        BY <1>3, <2>3, <4>1, <4>2, <4>3 DEF ContractorPage
    <3>2. QED
      BY <2>1, <3>1, SameRates DEF RatesOK
  <2>4. QED
    BY <2>2, <2>3
<1>4. CASE Served
  <2>1. call.state = "sent" /\ Perform(call.op, call.data) /\ call'.state # "sent"
    BY <1>4, ServedFrame DEF Served
  <2>2. rates' \in Nat /\ AreRates(rate, Contractors, Templates)'
    <3>1. CASE call.op = "upsertRate"
      <4>1. \E c, t : \E price \in Prices : UpsertRate(c, t, price)
        BY <2>1, <3>1 DEF RatesOK, Perform
      <4>2. QED
        BY <4>1, RateChanges DEF RatesOK
    <3>2. CASE call.op = "deleteRate"
      <4>1. \E c, t, id : DeleteRate(c, t, id)
        BY <2>1, <3>2 DEF Perform
      <4>2. QED
        BY <4>1, RateChanges DEF RatesOK
    <3>3. CASE call.op \notin {"upsertRate", "deleteRate"}
      <4>1. UNCHANGED <<rate, rates>>
        BY <2>1, <3>3 DEF Perform, CreateTemplate, PatchTemplate, SetActive, PatchContractor,
           CreateDraft, UpdateDraft
      <4>2. QED
        BY <4>1, SameRates
    <3>4. QED
      BY <3>1, <3>2, <3>3
  <2>3. QED
    BY <2>1, <2>2 DEF RatesOK
<1>5. CASE OthersChange
  <2>1. UNCHANGED call
    BY <1>5, OthersFrame
  <2>2. \/ UNCHANGED <<rate, rates>>
        \/ \E c \in Contractors, t \in Templates :
             \/ \E price \in Prices : UpsertRate(c, t, price)
             \/ \E id : DeleteRate(c, t, id)
    BY <1>5 DEF OthersChange, CreateTemplate, SetActive, PatchContractor, IssueDraft, RevertToDraft
  <2>3. QED
    BY <2>1, <2>2, SameRates, RateChanges DEF RatesOK
<1>6. QED
  BY <1>1, <1>2, <1>3, <1>4, <1>5 DEF Next

\* What is typed or agreed is rounded alike.
LEMMA GoodPricesAre == Prices \subseteq GoodPrices
BY PricesAssumption DEF GoodPrices

\* Steps that change what the form did not save.
LEMMA DraftWith ==
  ASSUME NEW row, IsDraft(row)
  PROVE  \A status, value, amount :
            /\ IsDraft([row EXCEPT !.status = status])
            /\ IsDraft([row EXCEPT !.status = status, !.numbered = value])
            /\ IsDraft([row EXCEPT !.ksefStatus = status])
            /\ IsDraft([row EXCEPT !.paymentReceived = amount])
<1>1. ASSUME NEW next, next = [x \in DOMAIN row |-> next[x]], next.lines = row.lines,
             next.switched = row.switched, next.contractorId = row.contractorId,
             next.shown = row.shown, next.totals = row.totals
      PROVE  IsDraft(next)
  <2>1. next = [x \in DOMAIN next |-> next[x]]
    BY <1>1
  <2>2. QED
    BY <1>1, <2>1 DEF IsDraft
<1>2. row = [x \in DOMAIN row |-> row[x]]
  BY DEF IsDraft
<1> SUFFICES ASSUME NEW status, NEW value, NEW amount
             PROVE  /\ IsDraft([row EXCEPT !.status = status])
                    /\ IsDraft([row EXCEPT !.status = status, !.numbered = value])
                    /\ IsDraft([row EXCEPT !.ksefStatus = status])
                    /\ IsDraft([row EXCEPT !.paymentReceived = amount])
  OBVIOUS
<1>3. IsDraft([row EXCEPT !.status = status])
  <2> DEFINE next == [row EXCEPT !.status = status]
  <2>1. /\ next = [x \in DOMAIN row |-> next[x]] /\ next.lines = row.lines
        /\ next.switched = row.switched /\ next.contractorId = row.contractorId
        /\ next.shown = row.shown /\ next.totals = row.totals
    BY <1>2
  <2> HIDE DEF next
  <2>2. IsDraft(next)
    BY <1>1, <2>1
  <2>3. QED
    BY <2>2 DEF next
<1>4. IsDraft([row EXCEPT !.status = status, !.numbered = value])
  <2> DEFINE next == [row EXCEPT !.status = status, !.numbered = value]
  <2>0. DOMAIN next = DOMAIN row /\ next = [x \in DOMAIN next |-> next[x]]
    OBVIOUS
  <2>1. /\ next = [x \in DOMAIN row |-> next[x]] /\ next.lines = row.lines
        /\ next.switched = row.switched /\ next.contractorId = row.contractorId
        /\ next.shown = row.shown /\ next.totals = row.totals
    BY <1>2, <2>0
  <2> HIDE DEF next
  <2>2. IsDraft(next)
    BY <1>1, <2>1
  <2>3. QED
    BY <2>2 DEF next
<1>5. IsDraft([row EXCEPT !.ksefStatus = status])
  <2> DEFINE next == [row EXCEPT !.ksefStatus = status]
  <2>1. /\ next = [x \in DOMAIN row |-> next[x]] /\ next.lines = row.lines
        /\ next.switched = row.switched /\ next.contractorId = row.contractorId
        /\ next.shown = row.shown /\ next.totals = row.totals
    BY <1>2
  <2> HIDE DEF next
  <2>2. IsDraft(next)
    BY <1>1, <2>1
  <2>3. QED
    BY <2>2 DEF next
<1>6. IsDraft([row EXCEPT !.paymentReceived = amount])
  <2> DEFINE next == [row EXCEPT !.paymentReceived = amount]
  <2>1. /\ next = [x \in DOMAIN row |-> next[x]] /\ next.lines = row.lines
        /\ next.switched = row.switched /\ next.contractorId = row.contractorId
        /\ next.shown = row.shown /\ next.totals = row.totals
    BY <1>2
  <2> HIDE DEF next
  <2>2. IsDraft(next)
    BY <1>1, <2>1
  <2>3. QED
    BY <2>2 DEF next
<1>7. QED
  BY <1>3, <1>4, <1>5, <1>6

\* What the server saves of a form is a draft.
LEMMA SavedRowIs ==
  ASSUME NEW before, NEW body, IsBody(body)
  PROVE  IsDraft(SavedRow(before, body))
<1> DEFINE row == SavedRow(before, body)
           totals == Totals([k \in DOMAIN body.lines |-> Priced(body.lines[k].unitNetPrice)])
<1>1. /\ row = [x \in DOMAIN row |-> row[x]] /\ row.lines = body.lines
      /\ row.switched = body.switched /\ row.contractorId = body.contractorId
      /\ row.shown = body.shown /\ row.totals = totals
  BY DEF SavedRow
<1>2. totals = Totals([k \in DOMAIN body.lines |-> Priced(body.lines[k].unitNetPrice)])
  BY DEF Totals
<1> HIDE DEF row, totals
<1>3. IsDraft(row)
  BY <1>1, <1>2 DEF IsDraft, IsBody, IsShown
<1>4. QED
  BY <1>3 DEF row

\* The invariant of the draft.
DraftOK == draft # None => IsDraft(draft)

\* Nothing changes the draft.
LEMMA SameDraft == ASSUME DraftOK, UNCHANGED draft PROVE draft' # None => IsDraft(draft')
BY DEF DraftOK

\* What happens to a draft after it was saved keeps what was saved.
LEMMA DraftSteps ==
  ASSUME DraftOK
  PROVE  /\ IssueDraft => IsDraft(draft')
         /\ RevertToDraft => IsDraft(draft')
         /\ StopIssuance => IsDraft(draft')
         /\ ResetIssuance => IsDraft(draft')
         /\ \A from : KsefAnswers(from) => IsDraft(draft')
         /\ \A amount : RecordPayment(amount) => IsDraft(draft')
<1> USE DEF DraftOK, Has
<1>1. draft # None => \A status, value, amount :
            /\ IsDraft([draft EXCEPT !.status = status])
            /\ IsDraft([draft EXCEPT !.status = status, !.numbered = value])
            /\ IsDraft([draft EXCEPT !.ksefStatus = status])
            /\ IsDraft([draft EXCEPT !.paymentReceived = amount])
  BY DraftWith, Zenon
<1>2. IssueDraft => IsDraft(draft')
  <2> SUFFICES ASSUME IssueDraft PROVE IsDraft(draft')
    OBVIOUS
  <2> DEFINE next == [draft EXCEPT !.status = "ISSUED", !.numbered = TRUE]
  <2>1. draft # None /\ draft' = next
    BY DEF IssueDraft
  <2>2. IsDraft(next)
    BY <1>1, <2>1
  <2>3. QED
    BY <2>1, <2>2
<1>3. RevertToDraft => IsDraft(draft')
  <2> SUFFICES ASSUME RevertToDraft PROVE IsDraft(draft')
    OBVIOUS
  <2> DEFINE next == [draft EXCEPT !.status = "DRAFT", !.numbered = FALSE]
  <2>1. draft # None /\ draft' = next
    BY DEF RevertToDraft
  <2>2. IsDraft(next)
    BY <1>1, <2>1
  <2>3. QED
    BY <2>1, <2>2
<1>4. StopIssuance => IsDraft(draft')
  <2> SUFFICES ASSUME StopIssuance PROVE IsDraft(draft')
    OBVIOUS
  <2> DEFINE next == [draft EXCEPT !.status = "ISSUING", !.numbered = TRUE]
  <2>1. draft # None /\ draft' = next
    BY DEF StopIssuance
  <2>2. IsDraft(next)
    BY <1>1, <2>1
  <2>3. QED
    BY <2>1, <2>2
<1>5. ResetIssuance => IsDraft(draft')
  BY <1>1, Zenon DEF ResetIssuance
<1>6. \A from : KsefAnswers(from) => IsDraft(draft')
  BY <1>1, Zenon DEF KsefAnswers
<1>7. \A amount : RecordPayment(amount) => IsDraft(draft')
  BY <1>1, Zenon DEF RecordPayment
<1>8. QED
  BY <1>2, <1>3, <1>4, <1>5, <1>6, <1>7

\* A step leaves a draft whose amounts were shown.
LEMMA NextDraft ==
  Framed /\ FormOK /\ [Next]_vars => (draft' # None => IsDraft(draft'))
<1> SUFFICES ASSUME Framed, FormOK, [Next]_vars
             PROVE  draft' # None => IsDraft(draft')
  OBVIOUS
<1>0. DraftOK
  BY DEF FormOK, DraftOK
<1>1. CASE UNCHANGED draft
  BY <1>0, <1>1, SameDraft
<1>2. CASE CataloguePage \/ ContractorsPage \/ ContractorPage
           \/ InvoiceForm \/ Leave \/ Refused \/ Failed
  <2>1. UNCHANGED draft
    BY <1>2, CatalogueFrame, ContractorsFrame, ContractorFrame, FormFrame, LeaveFrame, CallFrame
    DEF Frame, rows
  <2>2. QED
    BY <1>1, <2>1
<1>3. CASE InvoicePage
  <2>1. CASE FlightServed
    <3>1. \/ UNCHANGED rows \/ StopIssuance \/ ResetIssuance
          \/ \E op, amount : PerformFlight(op, amount)
      BY <2>1, Zenon DEF FlightServed
    <3>2. ASSUME NEW op, NEW amount, PerformFlight(op, amount)
          PROVE  draft' # None => IsDraft(draft')
      <4>1. \/ IssueDraft \/ RevertToDraft
            \/ \E from : KsefAnswers(from)
            \/ RecordPayment(amount)
            \/ UNCHANGED rows
        BY <3>2 DEF PerformFlight, SendEmail, Correct
      <4>2. QED
        BY <1>0, <1>1, <4>1, DraftSteps DEF rows
    <3>3. QED
      BY <1>0, <1>1, <3>1, <3>2, DraftSteps DEF rows
  <2>2. CASE ~ FlightServed
    <3>1. UNCHANGED rows
      BY <1>3, <2>2, Zenon
      DEF InvoicePage, OpenInvoice, Click, ToggleShowPayment,
          HandleRecordPayment, HandleGuarded, ConfirmProduction,
          FlightAnswered, Refreshed, PerformGuarded, Fly,
          Show, Open
    <3>2. QED
      BY <1>1, <3>1 DEF rows
  <2>3. QED
    BY <2>1, <2>2
<1>4. CASE Served
  <2>1. call.state = "sent" /\ Perform(call.op, call.data)
    BY <1>4, Zenon DEF Served
  <2>2. CASE call.op \in {"createDraft", "updateDraft"}
    <3>1. IsBody(call.data)
      BY <2>1, <2>2 DEF FormOK
    <3>2. \E before : draft' = SavedRow(before, call.data)
      <4>1. CreateDraft(call.data) \/ UpdateDraft(call.data)
        BY <2>1, <2>2 DEF Perform
      <4>2. QED
        BY <4>1, Zenon DEF CreateDraft, UpdateDraft
    <3>3. QED
      BY <3>1, <3>2, SavedRowIs
  <2>3. CASE call.op \notin {"createDraft", "updateDraft"}
    <3>1. UNCHANGED draft
      BY <2>1, <2>3 DEF Perform, CreateTemplate, PatchTemplate, SetActive, PatchContractor,
         UpsertRate, DeleteRate
    <3>2. QED
      BY <1>1, <3>1
  <2>4. QED
    BY <2>2, <2>3
<1>5. CASE OthersChange
  <2>1. UNCHANGED draft \/ IssueDraft \/ RevertToDraft
    BY <1>5 DEF OthersChange, CreateTemplate, SetActive, PatchContractor, UpsertRate, DeleteRate
  <2>2. QED
    BY <1>0, <1>1, <2>1, DraftSteps
<1>6. QED
  BY <1>1, <1>2, <1>3, <1>4, <1>5 DEF Next, vars

\* Lines of a form.
LEMMA FormLinesAre == \A line \in FormLines : IsFormLine(line)
BY DEF FormLines, IsFormLine

\* What is sent was typed or agreed with the buyer, and adds up to what is shown.
LEMMA SubmitSends ==
  ASSUME IsForm(page), HandleSubmit
  PROVE  IsBody(call'.data)
<1> DEFINE lines == page.lines
           named == Kept(lines, TRUE)
           other == Kept(lines, FALSE)
           data == [contractorId |-> page.contractorId, lines |-> named, switched |-> page.switched,
                    shown |-> [all |-> FormTotals(lines), unnamed |-> FormTotals(other)]]
<1>1. call'.data = data /\ \A k \in DOMAIN named : named[k].unitNetPrice # None
  BY DEF HandleSubmit, Send, NoBlockers, NamedLines
<1>2. lines \in Seq(FormLines) /\ OfBuyer(lines, page.switched, page.contractorId)
  BY DEF IsForm
<1>3. named \in Seq(FormLines)
  <2>1. named \in Seq({line \in FormLines : IsNamed(line) = TRUE})
    BY <1>2, KeptAreNamed
  <2>2. {line \in FormLines : IsNamed(line) = TRUE} \subseteq FormLines
    OBVIOUS
  <2> DEFINE S == {line \in FormLines : IsNamed(line) = TRUE}
  <2>3. named \in Seq(S) /\ S \subseteq FormLines
    BY <2>1, <2>2
  <2> HIDE DEF S, named
  <2>4. QED
    BY <2>3
<1>4. \A k \in DOMAIN named : \E j \in DOMAIN lines : named[k] = lines[j]
  <2> DEFINE S == {lines[j] : j \in DOMAIN lines}
             T == {line \in S : IsNamed(line) = TRUE}
  <2>1. lines \in Seq(S)
    BY <1>2
  <2>2. named \in Seq(T)
    <3> HIDE DEF S, lines
    <3>1. QED
      BY <2>1, KeptAreNamed
  <2> HIDE DEF named
  <2>3. \A k \in DOMAIN named : named[k] \in T
    BY <2>2
  <2>4. QED
    BY <2>3
<1> HIDE DEF lines
<1>5. OfBuyer(named, page.switched, page.contractorId)
  <2> HIDE DEF named
  <2>1. QED
    BY <1>2, <1>4 DEF OfBuyer
<1>6. FormTotals(lines)
      = Plus(FormTotals(named), FormTotals(other))
  BY <1>2, FormLinesAre, SplitTotals
<1>7. FormTotals(named) = Totals([k \in DOMAIN named |-> Priced(named[k].unitNetPrice)])
  <2> HIDE DEF named
  <2>1. FormTotals(named) = TotalAmounts(Calcs(named))
    BY <1>3, FormLinesAre, FormTotalsOf
  <2> DEFINE rowLines == [k \in DOMAIN named |-> Priced(named[k].unitNetPrice)]
  <2>2. Calcs(named) = [k \in DOMAIN rowLines |-> LineTotals(rowLines[k])]
    <3>1. ASSUME NEW k \in DOMAIN named
          PROVE  CalcLine(named[k]) = LineTotals(Priced(named[k].unitNetPrice))
      <4>1. IsFormLine(named[k]) /\ named[k].unitNetPrice # None
        BY <1>1, <1>3, FormLinesAre
      <4>2. QED
        BY <4>1, CalcLineIs, PricedLine
    <3>2. QED
      BY <3>1 DEF Calcs
  <2>3. QED
    BY <2>1, <2>2 DEF Totals
<1>8. \A k \in DOMAIN named : named[k] \in SavedLines
  <2>1. \A line \in FormLines : line.unitNetPrice # None => line \in SavedLines
    BY DEF FormLines, SavedLines
  <2> HIDE DEF named
  <2>2. QED
    BY <1>1, <1>3, <2>1
<1>9. named \in Seq(SavedLines)
  <2> HIDE DEF named
  <2>1. QED
    BY <1>3, <1>8
<1> HIDE DEF named, other
<1>10. QED
  BY <1>1, <1>5, <1>6, <1>7, <1>9 DEF IsBody, IsShown

\* The lines that a form may have.
BuyerLines(switched, contractorId) ==
    {line \in FormLines : ~switched => line.priceOf \in {None, contractorId}}

\* Lines of the form whose prices are the buyer's.
LEMMA BuyerLinesAre ==
  ASSUME NEW lines, NEW switched, NEW contractorId
  PROVE  lines \in Seq(FormLines) /\ OfBuyer(lines, switched, contractorId)
         <=> lines \in Seq(BuyerLines(switched, contractorId))
<1> DEFINE S == BuyerLines(switched, contractorId)
<1>1. \A line : line \in S <=> line \in FormLines /\ (~switched
      => line.priceOf \in {None, contractorId})
  BY DEF BuyerLines
<1>2. S \subseteq FormLines
  BY DEF BuyerLines
<1> HIDE DEF S
<1>3. ASSUME lines \in Seq(FormLines), OfBuyer(lines, switched, contractorId)
      PROVE  lines \in Seq(S)
  <2>1. \A k \in DOMAIN lines : lines[k] \in S
    BY <1>1, <1>3 DEF OfBuyer
  <2>2. QED
    BY <1>3, <2>1
<1>4. ASSUME lines \in Seq(S)
      PROVE  lines \in Seq(FormLines) /\ OfBuyer(lines, switched, contractorId)
  <2>1. \A k \in DOMAIN lines : lines[k] \in S
    BY <1>4
  <2>2. OfBuyer(lines, switched, contractorId)
    BY <1>1, <2>1 DEF OfBuyer
  <2>3. QED
    BY <1>2, <1>4, <2>2
<1>5. QED
  BY <1>3, <1>4 DEF S

\* A new line has no price yet.
LEMMA EmptyLineIs == \A s, c : EmptyLine \in BuyerLines(s, c)
BY DEF EmptyLine, BuyerLines, FormLines, Names

\* An open form that shows other lines.
LEMMA FormWith ==
  ASSUME NEW view, IsPage(view), IsForm(view),
         NEW lines \in Seq(BuyerLines(view.switched, view.contractorId))
  PROVE  IsForm([view EXCEPT !.lines = lines])
<1> DEFINE next == [view EXCEPT !.lines = lines]
<1>1. /\ DOMAIN next = DOMAIN view /\ next.templates = view.templates
      /\ next.contractors = view.contractors /\ next.rates = view.rates /\ next.lines = lines
      /\ next.switched = view.switched /\ next.contractorId = view.contractorId
  BY DEF IsPage, IsForm
<1> HIDE DEF next
<1>2. lines \in Seq(FormLines) /\ OfBuyer(lines, view.switched, view.contractorId)
  BY BuyerLinesAre
<1>3. IsForm(next)
  BY <1>1, <1>2 DEF IsForm
<1>4. QED
  BY <1>3 DEF next

\* A form that is opened with lines whose prices are of no rate.
LEMMA OpenedForm ==
  ASSUME OwnRows(template), AreRates(rate, Contractors, Templates), NEW kind, NEW contractorId,
         NEW lines \in Seq(FormLines), \A k \in DOMAIN lines : lines[k].priceOf = None
  PROVE  IsForm(FormPage(kind, contractorId, lines))
<1> DEFINE active == {c \in Contractors : contractor[c]}
           table == [pair \in active \X Templates |-> rate[pair]]
           names == [t \in ActiveTemplates |-> template[t].name]
           buyer == IF contractorId = None THEN First(active) ELSE contractorId
           view == [kind |-> kind, contractors |-> active, templates |-> names, rates |-> table,
                    contractorId |-> buyer, lines |-> lines, switched |-> FALSE]
<1>1. FormPage(kind, contractorId, lines) = view
  BY Zenon DEF FormPage
<1>2. active \subseteq Contractors
  OBVIOUS
<1>3. AreRates(table, active, Templates)
  <2> HIDE DEF active
  <2>1. \A c \in active, t \in Templates : table[<<c, t>>] = rate[<<c, t>>]
    OBVIOUS
  <2>2. table = [pair \in active \X Templates |-> table[pair]]
    OBVIOUS
  <2> HIDE DEF table
  <2>3. QED
    BY <1>2, <2>1, <2>2 DEF AreRates
<1>4. DOMAIN names \subseteq Templates /\ \A t \in DOMAIN names : names[t] \in Templates
  <2>1. \A t \in ActiveTemplates : t \in Templates /\ template[t].name = t
    BY DEF ActiveTemplates, Exists, OwnRows, OwnRow
  <2>2. QED
    BY <2>1
<1>5. OfBuyer(lines, FALSE, buyer)
  BY DEF OfBuyer
<1> HIDE DEF active, table, names, buyer
<1>6. IsForm(view)
  BY <1>2, <1>3, <1>4, <1>5 DEF IsForm
<1>7. QED
  BY <1>1, <1>6

\* A form that is opened,
LEMMA OpenedFormIs ==
  ASSUME OwnRows(template), AreRates(rate, Contractors, Templates), DraftOK,
         OpenNew \/ OpenEdit
  PROVE  IsForm(page')
<1>1. CASE OpenNew
  <2> DEFINE lines == <<EmptyLine>>
  <2>1. page' = FormPage("new", None, lines)
    BY <1>1 DEF OpenNew, Open
  <2>2. EmptyLine \in FormLines /\ EmptyLine.priceOf = None
    BY DEF EmptyLine, FormLines, Names
  <2>3. lines \in Seq(FormLines) /\ \A k \in DOMAIN lines : lines[k].priceOf = None
    BY <2>2
  <2> HIDE DEF lines
  <2>4. QED
    BY <2>1, <2>3, OpenedForm
<1>2. CASE OpenEdit
  <2> DEFINE lines == [k \in DOMAIN draft.lines |-> [draft.lines[k] EXCEPT !.priceOf = None]]
  <2>1. draft # None /\ page' = FormPage("edit", draft.contractorId, lines)
    BY <1>2 DEF OpenEdit, Open, Has
  <2>2. draft.lines \in Seq(SavedLines)
    BY <2>1 DEF DraftOK, IsDraft
  <2>3. ASSUME NEW line \in SavedLines
        PROVE  LET next == [line EXCEPT !.priceOf = None]
               IN  next \in FormLines /\ next.priceOf = None
    BY DEF SavedLines, FormLines
  <2>4. lines \in Seq(FormLines) /\ \A k \in DOMAIN lines : lines[k].priceOf = None
    BY <2>2, <2>3
  <2> HIDE DEF lines
  <2>5. QED
    BY <2>1, <2>4, OpenedForm
<1>3. QED
  BY <1>1, <1>2

\* switched to another contractor,
LEMMA SwitchedForm ==
  ASSUME Framed, IsForm(page), SwitchContractor
  PROVE  IsForm(page')
<1>1. PICK c : page' = [page EXCEPT !.contractorId = c, !.switched = TRUE]
  BY DEF SwitchContractor, Show
<1>2. /\ DOMAIN page' = DOMAIN page /\ page'.templates = page.templates
      /\ page'.contractors = page.contractors /\ page'.rates = page.rates
            /\ page'.lines = page.lines
      /\ page'.switched = TRUE
  BY <1>1 DEF Framed, IsPage, IsForm
<1>3. OfBuyer(page'.lines, page'.switched, page'.contractorId)
  BY <1>2 DEF OfBuyer
<1>4. QED
  BY <1>2, <1>3 DEF IsForm

\* Lines of a form, of which one is changed.
LEMMA LinesWith ==
  ASSUME NEW S, NEW lines \in Seq(S), NEW k \in DOMAIN lines, NEW line \in S
  PROVE  [lines EXCEPT ![k] = line] \in Seq(S)
OBVIOUS

\* A line of another price.
Repriced(line, price, c) == [line EXCEPT !.unitNetPrice = price, !.priceOf = c]

\* It is a line of the form.
LEMMA PricedAnew ==
  ASSUME NEW line \in FormLines, NEW price \in GoodPrices \cup {None},
         NEW c \in Contractors \cup {None}
  PROVE  Repriced(line, price, c) \in FormLines /\ Repriced(line, price, c).priceOf = c
<1> DEFINE next == [line EXCEPT !.unitNetPrice = price, !.priceOf = c]
<1>1. line = [x \in {"name", "unitNetPrice", "priceOf"} |-> line[x]] /\ line.name \in Names
  BY DEF FormLines
<1>2. DOMAIN next = {"name", "unitNetPrice", "priceOf"} /\ next = [x \in DOMAIN next |-> next[x]]
  BY <1>1
<1>3. next.name = line.name
  BY <1>1
<1>4. next.unitNetPrice = price
  BY <1>1
<1>5. next.priceOf = c
  BY <1>1
<1> HIDE DEF next
<1>6. next \in FormLines
  BY <1>1, <1>2, <1>3, <1>4, <1>5 DEF FormLines
<1>7. QED
  BY <1>5, <1>6 DEF next, Repriced

\* or edited line by line, is a form.
LEMMA EditedForm ==
  ASSUME Framed, IsForm(page),
         UpdateLine \/ AppendLine \/ RemoveLine \/ ApplyTemplate
  PROVE  IsForm(page')
<1> DEFINE S == BuyerLines(page.switched, page.contractorId)
<1>1. page.lines \in Seq(S)
  BY BuyerLinesAre DEF IsForm
<1>2. \A line : line \in S <=> line \in FormLines
                               /\ (~page.switched => line.priceOf \in {None, page.contractorId})
  BY DEF BuyerLines
<1>3. \A k \in DOMAIN page.lines : page.lines[k] \in S
  BY <1>1
<1>4. ASSUME NEW lines, lines \in Seq(S), page' = [page EXCEPT !.lines = lines]
      PROVE  IsForm(page')
  BY <1>4, FormWith DEF Framed
<1> HIDE DEF S
<1>5. ASSUME NEW k \in DOMAIN page.lines, NEW line, line \in S,
             page' = [page EXCEPT !.lines = [page.lines EXCEPT ![k] = line]]
      PROVE  IsForm(page')
  <2>1. [page.lines EXCEPT ![k] = line] \in Seq(S)
    BY <1>1, <1>5, LinesWith
  <2>2. QED
    BY <1>4, <1>5, <2>1
<1>6. CASE UpdateLine
  <2>1. PICK k \in DOMAIN page.lines :
          \/ \E name \in {None, OtherName} : page' = [page EXCEPT !.lines[k].name = name]
          \/ \E price \in Prices \cup {None} :
               page' = [page EXCEPT !.lines[k].unitNetPrice = price, !.lines[k].priceOf = None]
    BY <1>6, Zenon DEF UpdateLine, Show
  <2>2. page.lines[k] \in S
    BY <1>3, <2>1
  <2>3. IsPage(page) /\ "lines" \in DOMAIN page
    BY DEF Framed, IsForm
  <2>4. ASSUME NEW name \in {None, OtherName}, page' = [page EXCEPT !.lines[k].name = name]
        PROVE  IsForm(page')
    <3> DEFINE line == [page.lines[k] EXCEPT !.name = name]
    <3>1. line \in S
      BY <1>2, <2>2 DEF FormLines, Names
    <3>2. page' = [page EXCEPT !.lines = [page.lines EXCEPT ![k] = line]]
      BY <2>4
    <3> HIDE DEF line
    <3>3. QED
      BY <1>5, <2>1, <3>1, <3>2
  <2>5. ASSUME NEW price \in Prices \cup {None},
               page' = [page EXCEPT !.lines[k].unitNetPrice = price, !.lines[k].priceOf = None]
        PROVE  IsForm(page')
    <3> DEFINE line == [page.lines[k] EXCEPT !.unitNetPrice = price, !.priceOf = None]
    <3>1. line \in S
      <4>1. price \in GoodPrices \cup {None}
        BY GoodPricesAre
      <4>2. QED
        <5> DEFINE old == page.lines[k]
        <5>0. old \in FormLines /\ None \in Contractors \cup {None}
          BY <1>2, <2>2
        <5> HIDE DEF old
        <5>1. Repriced(old, price, None) \in FormLines /\ Repriced(old, price, None).priceOf = None
          BY <4>1, <5>0, PricedAnew
        <5>3. line = Repriced(old, price, None)
          BY DEF old, Repriced
        <5> HIDE DEF line
        <5>2. QED
          BY <1>2, <5>1, <5>3
    <3>2. page' = [page EXCEPT !.lines = [page.lines EXCEPT ![k] = line]]
      <4>1. page' = [page EXCEPT !.lines
                       = [page.lines EXCEPT ![k] = Repriced(page.lines[k], price, None)]]
        <5>1. [page EXCEPT !.lines[k].unitNetPrice = price, !.lines[k].priceOf = None]
                 = [page EXCEPT !.lines
                      = [page.lines EXCEPT ![k] = Repriced(page.lines[k], price, None)]]
          BY <2>3 DEF Repriced
        <5>2. QED
          BY <2>5, <5>1
      <4>2. line = Repriced(page.lines[k], price, None)
        BY DEF Repriced
      <4> HIDE DEF line
      <4>3. QED
        BY <4>1, <4>2
    <3> HIDE DEF line
    <3>3. QED
      BY <1>5, <2>1, <3>1, <3>2
  <2>6. QED
    BY <2>1, <2>4, <2>5
<1>7. CASE AppendLine
  <2>1. page' = [page EXCEPT !.lines = Append(page.lines, EmptyLine)]
    BY <1>7 DEF AppendLine, Show
  <2>2. Append(page.lines, EmptyLine) \in Seq(S)
    BY <1>1, EmptyLineIs DEF S
  <2>3. QED
    BY <1>4, <2>1, <2>2
<1>8. CASE RemoveLine
  <2>1. PICK k \in DOMAIN page.lines : page' = [page EXCEPT !.lines = RemoveAt(page.lines, k)]
    BY <1>8 DEF RemoveLine, Show
  <2>2. RemoveAt(page.lines, k) \in Seq(S)
    <3> DEFINE before == SubSeq(page.lines, 1, k - 1)
               after == SubSeq(page.lines, k + 1, Len(page.lines))
    <3>1. k \in 1 .. Len(page.lines) /\ Len(page.lines) \in Nat
      BY <1>1, <2>1
    <3>2. before \in Seq(S) /\ after \in Seq(S)
      BY <1>1, <3>1
    <3> HIDE DEF before, after
    <3>3. before \o after \in Seq(S)
      BY <3>2
    <3>4. QED
      BY <3>3 DEF RemoveAt, before, after
  <2>3. QED
    BY <1>4, <2>1, <2>2
<1>9. CASE ApplyTemplate
  <2>1. PICK k \in DOMAIN page.lines : \E t \in Matches(page.lines[k]) :
          page' = [page EXCEPT !.lines[k] =
                     LET agreed == RateFor(t)
                         line == [page.lines[k] EXCEPT !.name = page.templates[t]]
                     IN  IF agreed = None THEN line
                         ELSE [line EXCEPT !.unitNetPrice = agreed.unitNetPrice,
                                           !.priceOf = agreed.id]]
    BY <1>9, Zenon DEF ApplyTemplate, Show
  <2>2. PICK t \in Matches(page.lines[k]) :
          page' = [page EXCEPT !.lines[k] =
                     LET agreed == RateFor(t)
                         line == [page.lines[k] EXCEPT !.name = page.templates[t]]
                     IN  IF agreed = None THEN line
                         ELSE [line EXCEPT !.unitNetPrice = agreed.unitNetPrice,
                                           !.priceOf = agreed.id]]
    BY <2>1
  <2> DEFINE agreed == RateFor(t)
             line == [page.lines[k] EXCEPT !.name = page.templates[t]]
             next == IF agreed = None THEN line
                     ELSE [line EXCEPT !.unitNetPrice = agreed.unitNetPrice, !.priceOf = agreed.id]
  <2>3. t \in Templates /\ page.templates[t] \in Templates
    BY <2>2 DEF Matches, IsForm
  <2>4. line \in S
    BY <1>2, <1>3, <2>1, <2>3 DEF FormLines, Names
  <2>5. agreed # None => /\ agreed.unitNetPrice \in Prices
                         /\ agreed.id = page.contractorId /\ agreed.id \in Contractors
    <3> DEFINE row == page.rates[<<page.contractorId, t>>]
    <3>1. CASE page.contractorId \in page.contractors /\ row # None
      <4>1. agreed = [row EXCEPT !.id = page.contractorId]
        BY <3>1 DEF RateFor
      <4>2. row \in Rates /\ page.contractorId \in Contractors
        BY <2>3, <3>1 DEF IsForm, AreRates
      <4> HIDE DEF row, agreed
      <4>3. QED
        BY <4>1, <4>2 DEF Rates
    <3>2. CASE ~ (page.contractorId \in page.contractors /\ row # None)
      BY <3>2 DEF RateFor
    <3>3. QED
      BY <3>1, <3>2
  <2>6. page' = [page EXCEPT !.lines = [page.lines EXCEPT ![k] = next]]
    BY <2>2
  <2> HIDE DEF agreed, line
  <2>7. next \in S
    <3>1. CASE agreed = None
      BY <2>4, <3>1
    <3>2. CASE agreed # None
      <4>1. agreed.unitNetPrice \in GoodPrices \cup {None}
        BY <2>5, <3>2, GoodPricesAre
      <4>2. QED
        <5>1. line \in FormLines /\ agreed.id \in Contractors \cup {None}
          BY <1>2, <2>4, <2>5, <3>2
        <5>2. /\ next = [line EXCEPT !.unitNetPrice = agreed.unitNetPrice, !.priceOf = agreed.id]
              /\ agreed.id = page.contractorId
          BY <2>5, <3>2
        <5> DEFINE price == agreed.unitNetPrice
                   c == agreed.id
        <5>6. price \in GoodPrices \cup {None} /\ c \in Contractors \cup {None}
          BY <4>1, <5>1
        <5> HIDE DEF price, c, next
        <5>3. Repriced(line, price, c) \in FormLines /\ Repriced(line, price, c).priceOf = c
          BY <5>1, <5>6, PricedAnew
        <5>4. next \in FormLines /\ next.priceOf = page.contractorId
          BY <5>2, <5>3 DEF price, c, Repriced
        <5>5. QED
          BY <1>2, <5>4
    <3>3. QED
      BY <3>1, <3>2
  <2> HIDE DEF next
  <2>8. QED
    BY <1>5, <2>1, <2>6, <2>7
<1>10. QED
  BY <1>6, <1>7, <1>8, <1>9

\* The rows that there are at first.
LEMMA InitForm ==
  ASSUME Init
  PROVE  RatesOK /\ FormOK
<1>1. page.kind = "none" /\ call.state = "none"
  BY DEF Init, NoPage, NoCall
<1>2. rates \in Nat /\ AreRates(rate, Contractors, Templates)
  <2>1. rates = 0 /\ rate = [pair \in Contractors \X Templates |->
                  IF pair \in DOMAIN InitialRates
                  THEN [id |-> 0, unitNetPrice |-> InitialRates[pair]] ELSE None]
    BY DEF Init
  <2>2. \A pair \in DOMAIN InitialRates : [id |-> 0, unitNetPrice |-> InitialRates[pair]] \in Rates
    BY PricesAssumption DEF Rates
  <2>3. \A pair \in Contractors \X Templates : rate[pair] = None \/ rate[pair] \in Rates
    BY <2>1, <2>2
  <2>4. rate = [pair \in Contractors \X Templates |-> rate[pair]]
    BY <2>1
  <2>5. QED
    BY <2>1, <2>3, <2>4 DEF AreRates
<1>3. draft # None => IsDraft(draft)
  <2> SUFFICES ASSUME draft # None PROVE IsDraft(draft)
    OBVIOUS
  <2>1. PICK initial \in InitialRows : draft = initial[2]
    BY DEF Init
  <2>2. /\ draft = [x \in DOMAIN draft |-> draft[x]]
        /\ draft.lines \in Seq([name : {OtherName} \cup Templates, unitNetPrice : Decimals,
                                priceOf : {None}])
        /\ \A k \in DOMAIN draft.lines : RoundsAlike(draft.lines[k].unitNetPrice)
        /\ draft.shown.all = Plus(draft.totals, draft.shown.unnamed)
    BY <2>1, RowsAssumption
  <2>3. \A k \in DOMAIN draft.lines : draft.lines[k] \in SavedLines /\ draft.lines[k].priceOf = None
    <3> DEFINE S == [name : {OtherName} \cup Templates, unitNetPrice : Decimals, priceOf : {None}]
    <3>1. ASSUME NEW line \in S, RoundsAlike(line.unitNetPrice)
          PROVE  line \in SavedLines /\ line.priceOf = None
      BY <3>1 DEF SavedLines, GoodPrices, Names
    <3>2. draft.lines \in Seq(S)
      BY <2>2
    <3> HIDE DEF S
    <3>3. \A k \in DOMAIN draft.lines : draft.lines[k] \in S
      BY <3>2
    <3>4. QED
      BY <2>2, <3>1, <3>3
  <2>4. draft.lines \in Seq(SavedLines)
    BY <2>2, <2>3
  <2>5. OfBuyer(draft.lines, draft.switched, draft.contractorId)
    BY <2>3 DEF OfBuyer
  <2>6. QED
    BY <2>2, <2>4, <2>5 DEF IsDraft
<1>4. QED
  BY <1>1, <1>2, <1>3 DEF RatesOK, FormOK

\* What is sent is what the form shows.
LEMMA NextBody == Framed /\ FormOK /\ [Next]_vars
                  => (call'.state = "sent" /\ call'.op \in DraftOps => IsBody(call'.data))
<1> SUFFICES ASSUME Framed, FormOK, [Next]_vars,
                    call'.state = "sent", call'.op \in DraftOps
             PROVE  IsBody(call'.data)
  OBVIOUS
<1>1. CASE UNCHANGED call
  BY <1>1 DEF FormOK, DraftOps
<1>2. CASE CataloguePage \/ ContractorsPage \/ ContractorPage
           \/ InvoicePage \/ Leave \/ Refused \/ Failed
           \/ Served \/ OthersChange
  <2>1. call' = call \/ call'.state \in {"none", "failed", "done"}
        \/ call'.op \in CatalogueOps \cup ContractorOps
    BY <1>2, CatalogueFrame, ContractorsFrame, ContractorFrame, InvoicePageFrame, LeaveFrame,
       CallFrame, ServedFrame, OthersFrame
    DEF Frame, InvoiceFrame, CallOf, NoCall
  <2>2. call' = call
    BY <2>1 DEF CatalogueOps, ContractorOps, DraftOps
  <2>3. QED
    BY <1>1, <2>2
<1>3. CASE InvoiceForm
  <2>1. CASE HandleSubmit
    <3>1. page.kind \in {"new", "edit"}
      BY <2>1 DEF HandleSubmit, OnForm
    <3>2. QED
      BY <2>1, <3>1, SubmitSends DEF FormOK
  <2>2. CASE ~ HandleSubmit
    <3>1. call' = call \/ call' = NoCall
      BY <1>3, <2>2, Zenon
      DEF InvoiceForm, OpenNew, OpenEdit, SwitchContractor,
          UpdateLine, AppendLine, RemoveLine, ApplyTemplate,
          DraftSaved, Open, Show, Receive
    <3>2. QED
      BY <1>1, <3>1 DEF NoCall
  <2>3. QED
    BY <2>1, <2>2
<1>4. QED
  BY <1>1, <1>2, <1>3 DEF Next, vars

\* A form that is open stays one.
LEMMA NextPage ==
  Framed /\ CatalogueOK /\ RatesOK /\ FormOK
    /\ [Next]_vars
  => (page'.kind \in {"new", "edit"} => IsForm(page'))
<1> SUFFICES ASSUME Framed, CatalogueOK, RatesOK, FormOK,
                    [Next]_vars, page'.kind \in {"new", "edit"}
             PROVE  IsForm(page')
  OBVIOUS
<1>1. CASE UNCHANGED page
  BY <1>1 DEF FormOK
<1>2. CASE CataloguePage \/ ContractorsPage \/ ContractorPage
           \/ InvoicePage \/ Leave
  BY <1>2, CatalogueFrame, ContractorsFrame, ContractorFrame, InvoicePageFrame, LeaveFrame
  DEF Frame, InvoiceFrame
<1>3. CASE Refused \/ Failed \/ Served \/ OthersChange
  BY <1>1, <1>3, CallFrame, ServedFrame, OthersFrame
<1>4. CASE InvoiceForm
  <2>1. CASE OpenNew \/ OpenEdit
    BY <2>1, OpenedFormIs DEF CatalogueOK, RatesOK, FormOK, DraftOK
  <2>2. CASE SwitchContractor \/ UpdateLine \/ AppendLine
             \/ RemoveLine \/ ApplyTemplate
    <3>1. page.kind \in {"new", "edit"}
      BY <2>2 DEF SwitchContractor, UpdateLine, AppendLine, RemoveLine, ApplyTemplate, OnForm
    <3>2. IsForm(page)
      BY <3>1 DEF FormOK
    <3>3. QED
      BY <2>2, <3>2, SwitchedForm, EditedForm
  <2>3. CASE HandleSubmit
    BY <1>1, <2>3 DEF HandleSubmit, Send
  <2>4. CASE DraftSaved
    BY <2>4 DEF DraftSaved, Receive, NoPage
  <2>5. QED
    BY <1>4, <2>1, <2>2, <2>3, <2>4 DEF InvoiceForm
<1>5. QED
  BY <1>1, <1>2, <1>3, <1>4 DEF Next, vars

\* The invariant of the form is inductive, with those of the catalogue and the rates.
LEMMA NextForm ==
  Framed /\ CatalogueOK /\ RatesOK /\ FormOK
    /\ [Next]_vars => FormOK'
BY NextDraft, NextBody, NextPage DEF FormOK, DraftOps, IsDraft, IsForm, IsBody, IsShown, OfBuyer,
   AreRates

\* The invariant of the form, in every state.
LEMMA FormInvariant == Spec => []FormOK
<1>1. Init => Framed /\ CatalogueOK /\ RatesOK /\ FormOK
  BY InitFramed, InitCatalogue, InitForm
<1>2. Framed /\ CatalogueOK /\ RatesOK /\ FormOK /\ [Next]_vars
      => Framed' /\ CatalogueOK' /\ RatesOK' /\ FormOK'
  BY NextFramed, NextCatalogue, NextRates, NextForm
<1>3. QED
  BY <1>1, <1>2, PTL DEF Spec

\* The amounts that createDraft and updateDraft save, with decimals, are those that
\* the form showed, with binary fractions, less the lines without a name: for prices
\* of which neither the net amount nor the VAT ends in half a grosz.
THEOREM SavedAsShown == Spec => []SavedIsShown
<1>1. FormOK => SavedIsShown
  BY DEF FormOK, IsDraft, SavedIsShown
<1>2. QED
  BY <1>1, FormInvariant, PTL

\* A price of a draft that applyTemplate took from an agreed rate was agreed with the
\* buyer of the draft, unless the form was switched to another contractor since.
THEOREM PricesAreTheBuyers == Spec => []PriceIsOfItsBuyer
<1>1. FormOK => PriceIsOfItsBuyer
  BY DEF FormOK, IsDraft, OfBuyer, PriceIsOfItsBuyer
<1>2. QED
  BY <1>1, FormInvariant, PTL

=============================================================================
