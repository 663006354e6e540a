---------------------------- MODULE InvoiceDrafting ----------------------------
(***************************************************************************)
(* What a draft is made from: contractors, the catalogue of services, the  *)
(* rates agreed with a contractor, and the pages on which they are edited. *)
(* Source: apps/api/src/routes/contractors.ts, service-templates.ts,       *)
(* contractor-service-rates.routes.ts and invoices/outgoing.ts; of the web  *)
(* application ContractorList.tsx, ContractorServiceRates.tsx,             *)
(* ServiceCatalogManager.tsx, InvoiceLineItemsEditor.tsx, NewInvoiceForm   *)
(* and EditInvoiceForm.tsx.                                                *)
(*                                                                         *)
(* One user has one page open and at most one change on its way to the     *)
(* server; other users change the rows meanwhile.  Contractors and services *)
(* are numbered in the order of their names, and the company has one draft. *)
(*                                                                         *)
(* The fields of a service stand for their contents by naming the service  *)
(* that they were typed for: None is that of the empty form.  All lines    *)
(* are of quantity 1 and of the rate of 23 %: InvoiceRegister has others.  *)
(***************************************************************************)
EXTENDS InvoiceMath, SequencesExt

CONSTANTS
    Contractors, Templates,
    Prices,             \* prices that are typed or agreed
    OtherName,          \* a name that matches no service of the catalogue
    InitialRates,
    InitialRows,        \* catalogues, each with the draft that there is
    MaxLines, MaxRates, MaxVisits, MaxTroubles,         \* bounds
    None

ASSUME NumbersAssumption == Contractors \subseteq Nat /\ Templates \subseteq Nat

Priced(price) == [quantity |-> Decimal(1, 0), unitNetPrice |-> price, vatRate |-> "23"]

\* The pages calculate with binary fractions.  An amount that ends in half a
\* grosz may be rounded either way by them, and is left out.
RoundsAlike(price) ==
    LET net == Times(Decimal(1, 0), price)
        vat == Decimal(Net(Priced(price)) * VatFactor("23"), 4)
    IN  \A amount \in {net, vat} :
            amount.scale > 2 =>
                2 * (amount.unscaled % PowerOfTen[amount.scale - 2]) # PowerOfTen[amount.scale - 2]

ASSUME PricesAssumption ==
    /\ \A price \in Prices : price \in Decimals /\ RoundsAlike(price)
    /\ \A pair \in DOMAIN InitialRates : InitialRates[pair] \in Prices

\* Services are named for themselves, and a draft is one that this form made, or
\* the cancellation of an invoice.
ASSUME RowsAssumption ==
    \A initial \in InitialRows :
        /\ initial[1] = [t \in Templates |-> initial[1][t]]
        /\ \A t \in Templates :
            initial[1][t] = None
            \/ initial[1][t] \in [name : {t}, unit : {t}, isActive : BOOLEAN]
        /\ \/ initial[2] = None
           \/ /\ initial[2] = [x \in DOMAIN initial[2] |-> initial[2][x]]
              /\ initial[2].status \in {"DRAFT", "ISSUING", "ISSUED"}
              /\ initial[2].lines \in Seq([name : {OtherName} \union Templates,
                                           unitNetPrice : Decimals, priceOf : {None}])
              /\ \A k \in DOMAIN initial[2].lines : RoundsAlike(initial[2].lines[k].unitNetPrice)
              /\ initial[2].shown.all = Plus(initial[2].totals, initial[2].shown.unnamed)

VARIABLES
    contractor,         \* Contractor: isActive
    template,           \* ServiceTemplate: name, unit and isActive, or None
    rate,               \* ContractorServiceRate by contractor and service, or None
    rates,              \* how many rates were ever created
    draft,              \* the Invoice
    page,               \* the page in the browser
    call,               \* the change that the page has sent
    visits, troubles    \* how many pages were opened; how many changes others made
                        \* and how many answers were lost

vars == <<contractor, template, rate, rates, draft, page, call, visits, troubles>>
rows == <<contractor, template, rate, rates, draft>>

NoPage == [kind |-> "none"]
NoCall == [state |-> "none"]

First(S) == IF S = {} THEN None ELSE Min(S)

Init ==
    /\ contractor = [c \in Contractors |-> TRUE]
    /\ \E initial \in InitialRows : template = initial[1] /\ draft = initial[2]
    /\ rate = [pair \in Contractors \X Templates |->
                  IF pair \in DOMAIN InitialRates
                  THEN [id |-> 0, unitNetPrice |-> InitialRates[pair]] ELSE None]
    /\ rates = 0
    /\ page = NoPage
    /\ call = NoCall
    /\ visits = 0 /\ troubles = 0

-----------------------------------------------------------------------------
(***************************************************************************)
(* Handlers of the server.  Each says what it does to the rows.            *)
(***************************************************************************)
PatchContractor(c, isActive) ==
    /\ contractor' = [contractor EXCEPT ![c] = isActive]
    /\ UNCHANGED <<template, rate, rates, draft>>

Exists(t) == template[t] # None

\* A field that was typed in the empty form is the new service's own.
CreateTemplate(t, data) ==
    LET Own(field) == IF field = None THEN t ELSE field
    IN
    /\ t = First({s \in Templates : ~Exists(s)})
    /\ template' = [template EXCEPT ![t] =
                       [name |-> Own(data.name), unit |-> Own(data.unit), isActive |-> TRUE]]
    /\ UNCHANGED <<contractor, rate, rates, draft>>

PatchTemplate(t, data) ==
    /\ Exists(t)
    /\ template' = [template EXCEPT ![t].name = data.name, ![t].unit = data.unit]
    /\ UNCHANGED <<contractor, rate, rates, draft>>

\* PATCH of isActive, and DELETE.
SetActive(t, isActive) ==
    /\ Exists(t)
    /\ template' = [template EXCEPT ![t].isActive = isActive]
    /\ UNCHANGED <<contractor, rate, rates, draft>>

UpsertRate(c, t, price) ==
    /\ Exists(t)
    /\ IF rate[<<c, t>>] = None
       THEN /\ rates < MaxRates
            /\ rates' = rates + 1
            /\ rate' = [rate EXCEPT ![<<c, t>>] = [id |-> rates + 1, unitNetPrice |-> price]]
       ELSE /\ rate' = [rate EXCEPT ![<<c, t>>].unitNetPrice = price]
            /\ UNCHANGED rates
    /\ UNCHANGED <<contractor, template, draft>>

\* A rate is deleted by its id.
DeleteRate(c, t, id) ==
    /\ rate[<<c, t>>] # None /\ rate[<<c, t>>].id = id
    /\ rate' = [rate EXCEPT ![<<c, t>>] = None]
    /\ UNCHANGED <<contractor, template, rates, draft>>

\* `shown`, what the form showed when it was sent, is kept for SavedIsShown, and
\* `switched` for PriceIsOfItsBuyer.
SavedRow(before, body) ==
    [invoiceType |-> before.invoiceType, status |-> "DRAFT", ksefStatus |-> "not_submitted",
     numbered |-> before.numbered, paymentReceived |-> before.paymentReceived,
     contractorId |-> body.contractorId,
     lines |-> body.lines, shown |-> body.shown, switched |-> body.switched,
     totals |-> Totals([k \in DOMAIN body.lines |-> Priced(body.lines[k].unitNetPrice)])]

Has(status) == draft # None /\ draft.status \in status

NoneNegative(lines) == \A k \in DOMAIN lines : lines[k].unitNetPrice.unscaled >= 0

CreateDraft(body) ==
    /\ draft = None
    /\ NoneNegative(body.lines)
    /\ draft' = SavedRow([invoiceType |-> "VAT", numbered |-> FALSE, paymentReceived |-> 0], body)
    /\ UNCHANGED <<contractor, template, rate, rates>>

UpdateDraft(body) ==
    /\ Has({"DRAFT"})
    /\ draft.invoiceType = "KOR" \/ NoneNegative(body.lines)
    /\ draft' = SavedRow(draft, body)
    /\ UNCHANGED <<contractor, template, rate, rates>>

\* The steps of an issuance are those of InvoiceIssuance.
IssueDraft ==
    /\ Has({"DRAFT", "ISSUING", "ISSUED"})
    /\ draft' = [draft EXCEPT !.status = "ISSUED", !.numbered = TRUE]
    /\ UNCHANGED <<contractor, template, rate, rates>>

RevertToDraft ==
    /\ Has({"ISSUED"}) /\ draft.ksefStatus = "not_submitted"
    /\ draft' = [draft EXCEPT !.status = "DRAFT", !.numbered = FALSE]
    /\ UNCHANGED <<contractor, template, rate, rates>>

\* An issuance that stopped half way, and one that another attempt resets.
StopIssuance ==
    /\ Has({"DRAFT"})
    /\ draft' = [draft EXCEPT !.status = "ISSUING", !.numbered = TRUE]
    /\ UNCHANGED <<contractor, template, rate, rates>>
ResetIssuance ==
    /\ Has({"ISSUING"})
    /\ draft' = [draft EXCEPT !.status = "DRAFT"]
    /\ UNCHANGED <<contractor, template, rate, rates>>

\* The submission, and the status of one that is pending: KsefSubmission.
KsefAnswers(from) ==
    /\ Has({"ISSUED"}) /\ draft.ksefStatus = from
    /\ \E to \in {"pending", "accepted", "rejected"} :
        draft' = [draft EXCEPT !.ksefStatus = to]
    /\ UNCHANGED <<contractor, template, rate, rates>>

\* A payment is one amount, which replaces the one before.
RecordPayment(amount) ==
    /\ Has({"ISSUED"})
    /\ draft' = [draft EXCEPT !.paymentReceived = amount]
    /\ UNCHANGED <<contractor, template, rate, rates>>

\* An e-mail asks for a number, and a file, whatever the status.
SendEmail == draft # None /\ draft.numbered /\ UNCHANGED rows

\* A correction is another invoice: InvoiceRegister.
Correct == Has({"ISSUED"}) /\ draft.ksefStatus = "accepted" /\ UNCHANGED rows

Trouble ==
    /\ troubles < MaxTroubles
    /\ troubles' = troubles + 1

\* What an open page neither shows nor sends need not change meanwhile.
OthersChange ==
    /\ Trouble /\ page # NoPage
    /\ \/ \E c \in Contractors : PatchContractor(c, ~contractor[c])
       \/ \E t \in Templates :
           \/ CreateTemplate(t, [name |-> None, unit |-> None])
           \/ Exists(t) /\ SetActive(t, ~template[t].isActive)
       \/ \E c \in Contractors, t \in Templates :
           \/ \E price \in Prices : UpsertRate(c, t, price)
           \/ rate[<<c, t>>] # None /\ DeleteRate(c, t, rate[<<c, t>>].id)
       \/ Has({"DRAFT"}) /\ IssueDraft
       \/ RevertToDraft
    /\ page.kind = "invoice" => UNCHANGED <<contractor, template, rate, rates>>
    /\ page.kind \in {"catalogue", "contractors", "contractor"} => UNCHANGED draft
    /\ UNCHANGED <<page, call, visits>>

-----------------------------------------------------------------------------
(***************************************************************************)
(* Calls of the page.  A call may fail before or after it did its work;     *)
(* `saved` is the row that the answer brings.                              *)
(***************************************************************************)
Send(op, data) ==
    /\ call = NoCall
    /\ call' = [state |-> "sent", op |-> op, data |-> data]
    /\ UNCHANGED <<rows, page, visits, troubles>>

Perform(op, data) ==
    \/ op = "createTemplate" /\ \E t \in Templates : CreateTemplate(t, data)
    \/ op = "patchTemplate" /\ PatchTemplate(data.template, data)
    \/ op \in {"archive", "restore"} /\ SetActive(data, op = "restore")
    \/ op = "patchContractor" /\ PatchContractor(data.contractor, data.isActive)
    \/ op = "upsertRate" /\ UpsertRate(data.contractor, data.template, data.unitNetPrice)
    \/ op = "deleteRate" /\ DeleteRate(data.contractor, data.template, data.id)
    \/ op = "createDraft" /\ CreateDraft(data)
    \/ op = "updateDraft" /\ UpdateDraft(data)

TemplateOf(op, data) ==
    CASE op = "createTemplate" -> First({t \in Templates : ~Exists(t)})
      [] op = "patchTemplate" -> data.template
      [] op \in {"archive", "restore"} -> data

\* The row in an answer is that of the moment of the write.
Answer(op, data) ==
    CASE op \in {"createTemplate", "patchTemplate", "archive", "restore"} ->
            [id |-> TemplateOf(op, data), row |-> template'[TemplateOf(op, data)]]
      [] op = "upsertRate" ->
            [id |-> data.template, row |-> rate'[<<data.contractor, data.template>>]]
      [] op = "deleteRate" -> [id |-> data.template, row |-> None]
      [] op \in {"patchContractor", "createDraft", "updateDraft"} -> None

Served ==
    /\ call.state = "sent"
    /\ Perform(call.op, call.data)
    /\ \/ /\ call' = [state |-> "done", op |-> call.op, saved |-> Answer(call.op, call.data)]
          /\ UNCHANGED troubles
       \/ /\ Trouble
          /\ call' = [state |-> "failed"]
    /\ UNCHANGED <<page, visits>>

\* A call that was not performed: refused, or lost.
Refused ==
    /\ call.state = "sent"
    /\ call' = [state |-> "failed"]
    /\ UNCHANGED <<rows, page, visits, troubles>>

\* An error is shown, and the page stays as it is.
Failed ==
    /\ call.state = "failed"
    /\ call' = NoCall
    /\ UNCHANGED <<rows, page, visits, troubles>>

Answered(ops) == call.state = "done" /\ call.op \in ops

Receive(next) ==
    /\ call' = NoCall
    /\ page' = next
    /\ UNCHANGED <<rows, visits, troubles>>

Show(next) ==
    /\ page' = next
    /\ UNCHANGED <<rows, call, visits, troubles>>

Open(next) ==
    /\ page = NoPage
    /\ visits < MaxVisits
    /\ visits' = visits + 1
    /\ page' = next
    /\ UNCHANGED <<rows, call, troubles>>

\* The model does not leave a page while it waits.
Leave ==
    /\ page # NoPage /\ call = NoCall
    /\ page.kind = "invoice" =>
            ~page.refreshing /\ \A slot \in {1, 2} : page.flights[slot].state = "none"
    /\ Show(NoPage)

-----------------------------------------------------------------------------
(***************************************************************************)
(* The catalogue.  The panel shows the selected service, or the first of   *)
(* those that the filter leaves, or an empty form.  The search box, which  *)
(* filters too, is left out.                                               *)
(***************************************************************************)
OnCatalogue == page.kind = "catalogue"

EmptyForm == [name |-> None, unit |-> None]
FormFromTemplate(row) == [name |-> row.name, unit |-> row.unit]

OpenCatalogue ==
    LET first == First({t \in Templates : Exists(t)})
    IN  Open([kind |-> "catalogue", templates |-> template, statusFilter |-> "active",
              selectedId |-> first, isCreating |-> FALSE, formTemplateId |-> first,
              form |-> IF first = None THEN EmptyForm ELSE FormFromTemplate(template[first])])

Filtered ==
    {t \in Templates :
        /\ page.templates[t] # None
        /\ CASE page.statusFilter = "all" -> TRUE
             [] page.statusFilter = "active" -> page.templates[t].isActive
             [] page.statusFilter = "archived" -> ~page.templates[t].isActive}

EffectiveSelectedId ==
    IF page.selectedId \in Filtered THEN page.selectedId ELSE First(Filtered)

\* What the panel is about: None is a new service, or nothing.
Selected == IF page.isCreating THEN None ELSE EffectiveSelectedId

PanelIsOpen == page.isCreating \/ Selected # None

\* Mutant: what was typed is shown whatever is selected.
ActiveFormAsTyped == page.form

\* activeForm: the form follows a selection that was not clicked.
ActiveForm ==
    IF Selected # None /\ page.formTemplateId # Selected
    THEN FormFromTemplate(page.templates[Selected])
    ELSE page.form

UpdateField ==
    /\ OnCatalogue /\ PanelIsOpen
    /\ \E field \in {"name", "unit"} :
        Show([page EXCEPT !.form = [ActiveForm EXCEPT ![field] = Selected],
                          !.formTemplateId = Selected])

SelectRow ==
    /\ OnCatalogue
    /\ \E t \in Filtered :
        Show([page EXCEPT !.isCreating = FALSE, !.selectedId = t, !.formTemplateId = t,
                          !.form = FormFromTemplate(page.templates[t])])

StartCreate ==
    /\ OnCatalogue /\ ~page.isCreating
    /\ Show([page EXCEPT !.isCreating = TRUE, !.selectedId = None, !.formTemplateId = None,
                         !.form = EmptyForm])

CloseMobileView ==
    /\ OnCatalogue /\ page.isCreating
    /\ Show([page EXCEPT !.isCreating = FALSE, !.selectedId = First(Filtered)])

SetStatusFilter ==
    /\ OnCatalogue
    /\ \E filter \in {"active", "archived", "all"} :
        Show([page EXCEPT !.statusFilter = filter])

HandleSave ==
    /\ OnCatalogue /\ PanelIsOpen
    /\ IF page.isCreating
       THEN Send("createTemplate", ActiveForm)
       ELSE Send("patchTemplate", [template |-> Selected, name |-> ActiveForm.name,
                                   unit |-> ActiveForm.unit])

\* The dialog that confirms an archival keeps the service that it is about.
ExecuteArchive ==
    /\ OnCatalogue /\ Selected # None
    /\ page.templates[Selected].isActive
    /\ Send("archive", Selected)

HandleRestore ==
    /\ OnCatalogue /\ Selected # None
    /\ ~page.templates[Selected].isActive
    /\ Send("restore", Selected)

TemplateSaved ==
    /\ Answered({"createTemplate", "patchTemplate"})
    /\ LET saved == call.saved
       IN  Receive([page EXCEPT !.templates[saved.id] = saved.row, !.isCreating = FALSE,
                                !.selectedId = saved.id, !.formTemplateId = saved.id,
                                !.form = FormFromTemplate(saved.row)])

Archived ==
    /\ Answered({"archive"})
    /\ Receive([page EXCEPT !.templates[call.saved.id].isActive = FALSE])

Restored ==
    /\ Answered({"restore"})
    /\ Receive([page EXCEPT !.templates[call.saved.id] = call.saved.row])

CataloguePage ==
    \/ OpenCatalogue \/ UpdateField \/ SelectRow \/ StartCreate \/ CloseMobileView
    \/ SetStatusFilter \/ HandleSave \/ ExecuteArchive \/ HandleRestore
    \/ TemplateSaved \/ Archived \/ Restored

-----------------------------------------------------------------------------
(***************************************************************************)
(* The list of contractors, with the summary of the selected one.  The     *)
(* search box and the filter together leave a set of contractors.          *)
(***************************************************************************)
OnContractors == page.kind = "contractors"

EffectiveContractor(view) ==
    IF view.selectedId \in view.filtered THEN view.selectedId ELSE First(view.filtered)

\* useEffect: another selection asks for its summary.
RequestSummary(view) ==
    LET effective == EffectiveContractor(view)
    IN  [view EXCEPT !.requested = effective, !.summary = None,
                     !.pending = IF effective = None THEN @ ELSE @ \union {effective}]

ShowContractors(view) ==
    Show(IF EffectiveContractor(view) = EffectiveContractor(page)
         THEN view ELSE RequestSummary(view))

OpenContractors ==
    Open(RequestSummary(
            [kind |-> "contractors", filtered |-> {c \in Contractors : contractor[c]},
             selectedId |-> First(Contractors), requested |-> None, summary |-> None,
             pending |-> {}]))

FilterContractors ==
    /\ OnContractors
    /\ \E filtered \in SUBSET Contractors :
        ShowContractors([page EXCEPT !.filtered = filtered])

SelectContractor ==
    /\ OnContractors
    /\ \E c \in page.filtered : ShowContractors([page EXCEPT !.selectedId = c])

\* Mutant: every answer is shown.
SummaryShown ==
    /\ OnContractors
    /\ \E c \in page.pending :
        \E result \in {None, c} :
            Show([page EXCEPT !.pending = @ \ {c}, !.summary = result])

\* Answers come in any order; one that failed shows nothing.
SummaryAnswer ==
    /\ OnContractors
    /\ \E c \in page.pending :
        \E result \in {None, c} :
            Show([page EXCEPT !.pending = @ \ {c},
                              !.summary = IF page.requested = c THEN result ELSE @])

ContractorsPage ==
    OpenContractors \/ FilterContractors \/ SelectContractor \/ SummaryAnswer

-----------------------------------------------------------------------------
(***************************************************************************)
(* The page of one contractor: its form, and the rates agreed with it.     *)
(***************************************************************************)
OnContractor == page.kind = "contractor"

ActiveTemplates == {t \in Templates : Exists(t) /\ template[t].isActive}

OpenContractor ==
    \E c \in Contractors :
        Open([kind |-> "contractor", contractor |-> c, isActive |-> contractor[c],
              templates |-> ActiveTemplates, rates |-> [t \in Templates |-> rate[<<c, t>>]]])

ToggleIsActive ==
    /\ OnContractor
    /\ Show([page EXCEPT !.isActive = ~@])

SaveContractor ==
    /\ OnContractor
    /\ Send("patchContractor", [contractor |-> page.contractor, isActive |-> page.isActive])

HandleAdd ==
    /\ OnContractor
    /\ \E t \in page.templates, price \in Prices :
        /\ page.rates[t] = None
        /\ Send("upsertRate", [contractor |-> page.contractor, template |-> t,
                               unitNetPrice |-> price])

ExecuteDelete ==
    /\ OnContractor
    /\ \E t \in Templates :
        /\ page.rates[t] # None
        /\ Send("deleteRate", [contractor |-> page.contractor, template |-> t,
                               id |-> page.rates[t].id])

ContractorSaved ==
    /\ Answered({"patchContractor"})
    /\ Receive(page)

RateAnswer ==
    /\ Answered({"upsertRate", "deleteRate"})
    /\ Receive([page EXCEPT !.rates[call.saved.id] = call.saved.row])

ContractorPage ==
    \/ OpenContractor \/ ToggleIsActive \/ SaveContractor \/ HandleAdd \/ ExecuteDelete
    \/ ContractorSaved \/ RateAnswer

-----------------------------------------------------------------------------
(***************************************************************************)
(* The form of an invoice, new or edited, and the editor of its lines.     *)
(* `priceOf` is the contractor whose rate a price is, and `switched` says  *)
(* that another contractor was chosen since.                               *)
(***************************************************************************)
\* What is typed while the form is on its way is lost or can be typed later.
OnForm == page.kind \in {"new", "edit"} /\ call = NoCall

EmptyLine == [name |-> None, unitNetPrice |-> None, priceOf |-> None]

FormPage(kind, contractorId, lines) ==
    LET active == {c \in Contractors : contractor[c]}
    IN  [kind |-> kind, contractors |-> active,
         templates |-> [t \in ActiveTemplates |-> template[t].name],
         rates |-> [pair \in active \X Templates |-> rate[pair]],
         contractorId |-> IF contractorId = None THEN First(active) ELSE contractorId,
         lines |-> lines, switched |-> FALSE]

OpenNew ==
    /\ \E c \in Contractors : contractor[c]
    /\ Open(FormPage("new", None, <<EmptyLine>>))

OpenEdit ==
    /\ Has({"DRAFT"})
    /\ Open(FormPage("edit", draft.contractorId,
                     [k \in DOMAIN draft.lines |-> [draft.lines[k] EXCEPT !.priceOf = None]]))

SwitchContractor ==
    /\ OnForm
    /\ \E c \in page.contractors \union {None} :
        /\ c # page.contractorId
        /\ Show([page EXCEPT !.contractorId = c, !.switched = TRUE])

UpdateLine ==
    /\ OnForm
    /\ \E k \in DOMAIN page.lines :
        \/ \E name \in {None, OtherName} : Show([page EXCEPT !.lines[k].name = name])
        \/ \E price \in Prices \union {None} :
            Show([page EXCEPT !.lines[k].unitNetPrice = price, !.lines[k].priceOf = None])

AppendLine ==
    /\ OnForm
    /\ Len(page.lines) < MaxLines
    /\ Show([page EXCEPT !.lines = Append(@, EmptyLine)])

RemoveLine ==
    /\ OnForm
    /\ Len(page.lines) > 1
    /\ \E k \in DOMAIN page.lines : Show([page EXCEPT !.lines = RemoveAt(@, k)])

\* The picker offers the services whose names hold what the line's name says.
Matches(line) ==
    {t \in DOMAIN page.templates : line.name \in {None, page.templates[t]}}

\* Mutant: the rate of the service, whoever it was agreed with.
RateOfAnyone(t) ==
    LET with == {c \in page.contractors : page.rates[<<c, t>>] # None}
    IN  IF with = {} THEN None ELSE [page.rates[<<First(with), t>>] EXCEPT !.id = First(with)]

\* What the contractor of the form pays for a service, under the contractor's id.
RateFor(t) ==
    LET c == page.contractorId
    IN  IF c \in page.contractors /\ page.rates[<<c, t>>] # None
        THEN [page.rates[<<c, t>>] EXCEPT !.id = c] ELSE None

ApplyTemplate ==
    /\ OnForm
    /\ \E k \in DOMAIN page.lines :
        \E t \in Matches(page.lines[k]) :
            LET agreed == RateFor(t)
                line == [page.lines[k] EXCEPT !.name = page.templates[t]]
            IN  Show([page EXCEPT !.lines[k] =
                        IF agreed = None THEN line
                        ELSE [line EXCEPT !.unitNetPrice = agreed.unitNetPrice,
                                          !.priceOf = agreed.id]])

\* calcLine, with Math.round; and the totals of the form.
CalcLine(line) ==
    LET price == IF line.unitNetPrice = None THEN Decimal(0, 0) ELSE line.unitNetPrice
        net == HalfUp(price.unscaled * 100, PowerOfTen[price.scale])
        vat == HalfUp(net * VatFactor("23"), 100)
    IN  [net |-> net, vat |-> vat, gross |-> net + vat]

FormTotals(lines) == TotalAmounts([k \in DOMAIN lines |-> CalcLine(lines[k])])

\* The lines that have a name, or those that have none.
IsNamed(line) == line.name # None
Kept(lines, named) ==
    LET kept[n \in 0 .. Len(lines)] ==
            IF n = 0 THEN <<>>
            ELSE IF IsNamed(lines[n]) = named THEN Append(kept[n - 1], lines[n])
            ELSE kept[n - 1]
    IN  kept[Len(lines)]
NamedLines == Kept(page.lines, TRUE)

NoBlockers ==
    /\ page.contractorId # None
    /\ NamedLines # <<>>
    /\ \A k \in DOMAIN NamedLines :
        /\ NamedLines[k].unitNetPrice # None
        /\ NamedLines[k].unitNetPrice.unscaled >= 0

\* handleSubmit: lines without a name are dropped.
HandleSubmit ==
    /\ OnForm /\ NoBlockers
    /\ Send(IF page.kind = "new" THEN "createDraft" ELSE "updateDraft",
            [contractorId |-> page.contractorId, lines |-> NamedLines,
             switched |-> page.switched,
             shown |-> [all |-> FormTotals(page.lines),
                        unnamed |-> FormTotals(Kept(page.lines, FALSE))]])

DraftSaved ==
    /\ Answered({"createDraft", "updateDraft"})
    /\ Receive(NoPage)

InvoiceForm ==
    \/ OpenNew \/ OpenEdit \/ SwitchContractor \/ UpdateLine \/ AppendLine \/ RemoveLine
    \/ ApplyTemplate \/ HandleSubmit \/ DraftSaved

-----------------------------------------------------------------------------
(***************************************************************************)
(* The page of an invoice.  Its calls are in one of two slots while they   *)
(* are under way.  `loading` names the call that started last, and any     *)
(* answer clears it; a submission and a correction have a mark of their own. *)
(* The credential of KSeF, without which three buttons are disabled, is     *)
(* there; the form of a correction, which asks for its data, is left out.   *)
(***************************************************************************)
OnInvoice == page.kind = "invoice"

Slots == {1, 2}
NoFlight == [state |-> "none"]

\* serializeInvoice, of what the page needs.
Shown ==
    [status |-> draft.status, ksefStatus |-> draft.ksefStatus,
     totalGross |-> draft.totals.gross, paymentReceived |-> draft.paymentReceived]

OpenInvoice ==
    /\ draft # None
    /\ \E environment \in {"TEST", "PRODUCTION"} :
        Open([kind |-> "invoice", environment |-> environment, shown |-> Shown,
              refreshing |-> FALSE, loading |-> None, inFlight |-> {},
              showPayment |-> FALSE, confirm |-> None, flights |-> [slot \in Slots |-> NoFlight]])

IsPaid(invoice) ==
    invoice.paymentReceived >= invoice.totalGross /\ invoice.totalGross > 0

\* The buttons that are shown.
Offered(op) ==
    LET invoice == page.shown
    IN  CASE op = "issue" -> invoice.status \in {"DRAFT", "ISSUING"}
          [] op \in {"revert", "submit"} ->
                invoice.status = "ISSUED" /\ invoice.ksefStatus = "not_submitted"
          [] op = "check" -> invoice.ksefStatus = "pending"
          [] op = "correct" -> invoice.ksefStatus = "accepted"
          [] op = "payment" -> invoice.status = "ISSUED" /\ ~IsPaid(invoice)
          [] op = "email" -> invoice.status = "ISSUED"

Enabled(op) == OnInvoice /\ Offered(op) /\ page.loading # op

Fly(from, op, amount) ==
    \E slot \in Slots :
        /\ page.flights[slot] = NoFlight
        /\ \A other \in Slots : page.flights[other] = NoFlight => slot <= other
        /\ Show([from EXCEPT !.loading = op,
                    !.flights[slot] = [state |-> "sent", op |-> op, amount |-> amount]])

\* handleIssue, handleEdit, handleCheckKsefStatus, handleSendEmail.
Click ==
    \E op \in {"issue", "revert", "check", "email"} : Enabled(op) /\ Fly(page, op, 0)

ToggleShowPayment ==
    /\ OnInvoice /\ Offered("payment")
    /\ Show([page EXCEPT !.showPayment = ~@])

\* The form stays open when the invoice is shown anew.
HandleRecordPayment ==
    /\ OnInvoice /\ page.showPayment /\ page.loading # "payment"
    /\ \E amount \in {0, page.shown.totalGross} : amount >= 0 /\ Fly(page, "payment", amount)

\* performSubmitKsef and performCorrect.
PerformGuarded(op) ==
    /\ op \notin page.inFlight
    /\ Fly([page EXCEPT !.confirm = None, !.inFlight = @ \union {op}], op, 0)

\* handleSubmitKsef and handleCorrect: production asks first.
HandleGuarded ==
    \E op \in {"submit", "correct"} :
        /\ Enabled(op)
        /\ IF page.environment = "PRODUCTION"
           THEN Show([page EXCEPT !.confirm = op])
           ELSE PerformGuarded(op)

ConfirmProduction ==
    /\ OnInvoice /\ page.confirm # None
    /\ \/ (page.loading # page.confirm /\ PerformGuarded(page.confirm))
       \/ Show([page EXCEPT !.confirm = None])

\* What a call does, when it succeeds.
PerformFlight(op, amount) ==
    \/ (op = "issue" /\ IssueDraft)
    \/ (op = "revert" /\ RevertToDraft)
    \/ (op = "submit" /\ KsefAnswers("not_submitted"))
    \/ (op = "check" /\ KsefAnswers("pending"))
    \/ (op = "payment" /\ RecordPayment(amount))
    \/ (op = "email" /\ SendEmail)
    \/ (op = "correct" /\ Correct)

FlightEnds(slot, state) == page' = [page EXCEPT !.flights[slot].state = state]

\* A call succeeds; or it fails, before or after it did something.
FlightServed ==
    /\ OnInvoice
    /\ \E slot \in Slots :
        LET flight == page.flights[slot]
        IN
        /\ flight.state = "sent"
        /\ \/ /\ PerformFlight(flight.op, flight.amount)
              /\ FlightEnds(slot, "done")
              /\ UNCHANGED troubles
           \/ /\ PerformFlight(flight.op, flight.amount) \/ (flight.op = "issue" /\ StopIssuance)
              /\ FlightEnds(slot, "failed")
              /\ Trouble
           \/ /\ flight.op = "issue" /\ ResetIssuance
              /\ FlightEnds(slot, "reset")
              /\ UNCHANGED troubles
           \/ /\ FlightEnds(slot, "failed")
              /\ UNCHANGED <<rows, troubles>>
    /\ UNCHANGED <<call, visits>>

\* Mutant: a revert is not followed by a refresh.
RefreshesButRevert(flight) ==
    \/ flight.state = "done" /\ flight.op \notin {"email", "revert"}
    \/ flight.state = "reset"

\* router.refresh.
Refreshes(flight) ==
    \/ flight.state = "done" /\ flight.op # "email"
    \/ flight.state = "reset"

\* The answer of a correction leaves the page: for the next invoice.
FlightAnswered ==
    /\ OnInvoice
    /\ \E slot \in Slots :
        LET flight == page.flights[slot]
            answered == [page EXCEPT !.flights[slot] = NoFlight, !.loading = None,
                                     !.inFlight = @ \ {flight.op},
                                     !.refreshing = @ \/ Refreshes(flight),
                                     !.showPayment = @ /\ ~(flight.state = "done"
                                                            /\ flight.op = "payment")]
        IN
        /\ flight.state \in {"done", "failed", "reset"}
        /\ IF flight.state = "done" /\ flight.op = "correct"
           THEN (\A other \in Slots \ {slot} : page.flights[other] = NoFlight) /\ Show(NoPage)
           ELSE Show(answered)

Refreshed ==
    /\ OnInvoice /\ page.refreshing
    /\ Show([page EXCEPT !.refreshing = FALSE, !.shown = Shown])

InvoicePage ==
    \/ OpenInvoice \/ Click \/ ToggleShowPayment \/ HandleRecordPayment
    \/ HandleGuarded \/ ConfirmProduction \/ FlightServed \/ FlightAnswered \/ Refreshed

Next ==
    \/ OthersChange \/ Served \/ Refused \/ Failed \/ Leave
    \/ CataloguePage \/ ContractorsPage \/ ContractorPage \/ InvoiceForm \/ InvoicePage

Spec == Init /\ [][Next]_vars

-----------------------------------------------------------------------------
(***************************************************************************)
(* Properties                                                              *)
(***************************************************************************)
\* What is typed for a service is saved as that service's, however the filter,
\* the selection, a new form, an answer and an archival follow one another.
SaveGoesToItsTemplate ==
    \A t \in Templates : Exists(t) => template[t].name = t /\ template[t].unit = t

\* The list never shows the summary of one contractor beside another, in whatever
\* order the answers come.
SummaryIsOfSelected ==
    OnContractors => page.summary \in {None, EffectiveContractor(page)}

\* The amounts that are saved are those that the form showed, without the lines
\* that have no name: the two are calculated by different code.
SavedIsShown ==
    draft # None => draft.shown.all = Plus(draft.totals, draft.shown.unnamed)

\* A price that was taken from a rate was agreed with the buyer of the draft,
\* unless the form was switched to another contractor.
PriceIsOfItsBuyer ==
    draft # None /\ ~draft.switched =>
        \A k \in DOMAIN draft.lines :
            draft.lines[k].priceOf \in {None, draft.contractorId}

\* When nothing is under way, the page shows the invoice as it is, unless another
\* user changed it, or a call that failed did.
PageShowsTheInvoice ==
    OnInvoice /\ troubles = 0 /\ ~page.refreshing
        /\ (\A slot \in Slots : page.flights[slot] = NoFlight) => page.shown = Shown

=============================================================================
