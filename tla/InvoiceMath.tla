------------------------------ MODULE InvoiceMath ------------------------------
(***************************************************************************)
(* The arithmetic of invoices: decimals of any scale, the amounts of a     *)
(* line, the totals and the VAT breakdown of an invoice, and what the      *)
(* columns of the database keep of the numbers that were typed.            *)
(* Source: packages/fa3-xml/src/invoice-math.ts, and the column types of   *)
(* Invoice, InvoiceLine and InvoiceVatBreakdown in schema.prisma.          *)
(*                                                                         *)
(* A decimal is the record [unscaled, scale]; an amount of money, always    *)
(* of scale 2, is its unscaled part, a number of grosze.  Parsing and       *)
(* formatting a decimal lose nothing and are left out.                     *)
(***************************************************************************)
EXTENDS Integers, Sequences

VatRates == {"23", "8", "5", "0", "zw", "np", "oo"}
ZeroVatRates == {"0", "zw", "np", "oo"}

\* VAT_FACTORS, in hundredths.
VatFactor(vatRate) ==
    CASE vatRate = "23" -> 23 [] vatRate = "8" -> 8 [] vatRate = "5" -> 5
      [] vatRate \in ZeroVatRates -> 0

Decimals == [unscaled : Int, scale : Nat]
Decimal(unscaled, scale) == [unscaled |-> unscaled, scale |-> scale]

Magnitude(n) == IF n < 0 THEN -n ELSE n

\* powerOfTen.
PowerOfTen[n \in Nat] == IF n = 0 THEN 1 ELSE 10 * PowerOfTen[n - 1]

\* The whole number nearest to n/d, halves away from zero; and as Math.round
\* has it, halves up.
HalfAway(n, d) ==
    LET nearest == (2 * Magnitude(n) + d) \div (2 * d)
    IN  IF n < 0 THEN -nearest ELSE nearest
HalfUp(n, d) == (2 * n + d) \div (2 * d)

\* Mutant: roundToScale without regard to the sign.
RoundToScaleUp(value, scale) ==
    IF value.scale <= scale
    THEN Decimal(value.unscaled * PowerOfTen[scale - value.scale], scale)
    ELSE Decimal(HalfUp(value.unscaled, PowerOfTen[value.scale - scale]), scale)

\* roundToScale and normalizeScale.
RoundToScale(value, scale) ==
    IF value.scale <= scale
    THEN Decimal(value.unscaled * PowerOfTen[scale - value.scale], scale)
    ELSE Decimal(HalfAway(value.unscaled, PowerOfTen[value.scale - scale]), scale)

Times(left, right) ==
    Decimal(left.unscaled * right.unscaled, left.scale + right.scale)

Grosze(value) == RoundToScale(value, 2).unscaled

\* computeLineTotals.
Net(line) == Grosze(Times(line.quantity, line.unitNetPrice))

\* Mutant: the VAT of the amount before it was rounded.
VatOfUnrounded(line) ==
    IF line.vatRate \in ZeroVatRates THEN 0
    ELSE Grosze(Times(Times(line.quantity, line.unitNetPrice),
                      Decimal(VatFactor(line.vatRate), 2)))

Vat(line) ==
    IF line.vatRate \in ZeroVatRates THEN 0
    ELSE Grosze(Times(Decimal(Net(line), 2), Decimal(VatFactor(line.vatRate), 2)))
LineTotals(line) ==
    LET net == Net(line)
        vat == Vat(line)
    IN  [net |-> net, vat |-> vat, gross |-> net + vat]

Zero == [net |-> 0, vat |-> 0, gross |-> 0]
Plus(left, right) ==
    [net |-> left.net + right.net, vat |-> left.vat + right.vat,
     gross |-> left.gross + right.gross]
Minus(amounts) ==
    [net |-> -amounts.net, vat |-> -amounts.vat, gross |-> -amounts.gross]

\* The sum of the amounts in a sequence.
TotalAmounts(amounts) ==
    LET sum[n \in 0 .. Len(amounts)] ==
            IF n = 0 THEN Zero ELSE Plus(sum[n - 1], amounts[n])
    IN  sum[Len(amounts)]

\* calculateInvoiceTotals: the totals of all lines, and those of each rate.
Totals(lines) == TotalAmounts([k \in DOMAIN lines |-> LineTotals(lines[k])])

RatesOf(lines) == {lines[k].vatRate : k \in DOMAIN lines}

\* What each line adds to the amounts of a rate.
OfRate(lines, vatRate) ==
    [k \in DOMAIN lines |->
        IF lines[k].vatRate = vatRate THEN LineTotals(lines[k]) ELSE Zero]

Breakdown(lines) ==
    [vatRate \in RatesOf(lines) |-> TotalAmounts(OfRate(lines, vatRate))]

-----------------------------------------------------------------------------
(***************************************************************************)
(* Rows                                                                    *)
(***************************************************************************)
\* Decimal(15, 4): the scale of quantities and unit prices in the database,
\* which rounds what is finer, and gives numbers back without final zeros.
StoredScale == 4

FewestDecimals(value) ==
    CHOOSE scale \in 0 .. value.scale :
        /\ value.unscaled % PowerOfTen[value.scale - scale] = 0
        /\ \A less \in 0 .. scale - 1 : value.unscaled % PowerOfTen[value.scale - less] # 0

Trimmed(value) ==
    LET scale == FewestDecimals(value)
    IN  Decimal(value.unscaled \div PowerOfTen[value.scale - scale], scale)

Stored(value) == Trimmed(RoundToScale(value, StoredScale))

\* Mutant: the unit price formatted with the two decimals of an amount.
RowOfRoundedPrice(line) ==
    [quantity |-> Stored(line.quantity),
     unitNetPrice |-> Stored(RoundToScale(line.unitNetPrice, 2)),
     vatRate |-> line.vatRate, totals |-> LineTotals(line)]

\* The row of a typed line: its amounts are those of the numbers as typed.
Row(line) ==
    [quantity |-> Stored(line.quantity), unitNetPrice |-> Stored(line.unitNetPrice),
     vatRate |-> line.vatRate, totals |-> LineTotals(line)]

\* The lines, the totals and the breakdown of a draft, from the lines typed.
Calculated(lines) ==
    [lines |-> [k \in DOMAIN lines |-> Row(lines[k])],
     totals |-> Totals(lines), breakdown |-> Breakdown(lines)]

Negative(line) ==
    [line EXCEPT !.unitNetPrice = Decimal(-@.unscaled, @.scale),
                 !.totals = Minus(@)]

=============================================================================
