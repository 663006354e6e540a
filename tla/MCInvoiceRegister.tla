--------------------------- MODULE MCInvoiceRegister ---------------------------
(***************************************************************************)
(* Small registers.  The lines are chosen for their rounding: halves, nets *)
(* that are finer than a grosz, unit prices of three and five decimals,    *)
(* several rates, and amounts whose words are irregular.                   *)
(***************************************************************************)
EXTENDS InvoiceRegister, TLC

CONSTANTS a, k1, k2, q1, q2, c1, number

Line(quantity, quantityScale, price, priceScale, vatRate) ==
    [quantity |-> Decimal(quantity, quantityScale),
     unitNetPrice |-> Decimal(price, priceScale), vatRate |-> vatRate]

TypedDraft ==
    <<Line(1, 0, 150, 2, "23"),         \* VAT of half a grosz
      Line(3, 0, 125, 3, "8"),          \* a net amount of half a grosz, twice
      Line(3, 0, 125, 3, "8")>>

FineDraft ==
    <<Line(1000, 0, 100005, 5, "5"),     \* finer than the database, which sells for more
      Line(1, 0, 11062, 0, "0")>>

FirstDrafts == {TypedDraft}
SecondDrafts == {FineDraft}

Body(mode, correctedNumber, reason) ==
    [correctionMode |-> mode, correctedInvoiceNumber |-> correctedNumber, reason |-> reason]

SampleCorrections ==
    {Body("CANCELLATION", None, None), Body("FORMAL", number, None),
     \* refused
     Body("FORMAL", None, None), Body("CANCELLATION", number, None)}

RegisterSymmetry == Permutations(Requests) \cup Permutations(Invoices \ Originals)

=============================================================================
