--------------------------- MODULE MCInvoiceDrafting ---------------------------
(***************************************************************************)
(* InvoiceDrafting for TLC: two contractors, a catalogue of one service, or *)
(* of two of which the first is archived, a rate agreed with the second    *)
(* contractor, and the draft of an invoice, of a cancellation, or none.    *)
(***************************************************************************)
EXTENDS InvoiceDrafting, TLC

MCContractors == {1, 2}
MCTemplates == {1, 2}

Service(t, isActive) == [name |-> t, unit |-> t, isActive |-> isActive]
\* 0.024: the VAT of the rounded net amount is not that of the exact one.
MCPrices == {Decimal(24, 3), Decimal(12, 0)}
MCInitialRates == (<<2, 1>> :> Decimal(12, 0))

Saved(invoiceType, price) ==
    LET line == [name |-> OtherName, unitNetPrice |-> price, priceOf |-> None]
        totals == Totals(<<Priced(price)>>)
    IN  [invoiceType |-> invoiceType, status |-> "DRAFT", ksefStatus |-> "not_submitted",
         numbered |-> FALSE, paymentReceived |-> 0, contractorId |-> 1, lines |-> <<line>>,
         shown |-> [all |-> totals, unnamed |-> Zero], switched |-> FALSE,
         totals |-> totals]

MCInitialRows ==
    LET one == <<Service(1, TRUE), None>>
        two == <<Service(1, FALSE), Service(2, TRUE)>>
    IN  {<<one, None>>, <<two, Saved("KOR", Decimal(-100, 0))>>,
         <<one, Saved("VAT", Decimal(12, 0))>>}

=============================================================================
