------------------------ MODULE InvoiceRegisterProofs ------------------------
(***************************************************************************)
(* Proofs about InvoiceRegister, for any sets of invoices, contractors,    *)
(* requests, lines and bodies of corrections.  First come lemmas about the *)
(* documents of an invoice: its totals, its XML and its amount in words.   *)
(***************************************************************************)
EXTENDS InvoiceRegister, InvoiceMathProofs

\* What is rounded away from zero is at most half a step off.
LEMMA HalfAwayBounds ==
  \A n \in Int, d \in Nat \ {0} :
     /\ HalfAway(n, d) \in Int
     /\ 2 * (d * HalfAway(n, d)) - 2 * n <= d /\ 2 * n - 2 * (d * HalfAway(n, d)) <= d
<1> SUFFICES ASSUME NEW n \in Int, NEW d \in Nat \ {0}
             PROVE  /\ HalfAway(n, d) \in Int
                    /\ 2 * (d * HalfAway(n, d)) - 2 * n <= d
                    /\ 2 * n - 2 * (d * HalfAway(n, d)) <= d
  OBVIOUS
<1> DEFINE m == Magnitude(n)
           q == (2 * m + d) \div (2 * d)
<1>1. m \in Nat /\ m = (IF n < 0 THEN -n ELSE n)
  BY DEF Magnitude
<1>2. q \in Int /\ (2 * d) * q <= 2 * m + d /\ 2 * m + d < (2 * d) * q + 2 * d
  <2>1. 2 * m + d \in Int /\ 2 * d \in Nat \ {0}
    BY <1>1
  <2> HIDE DEF m
  <2>2. QED
    BY <2>1, QuotientBounds
<1>3. HalfAway(n, d) = IF n < 0 THEN -q ELSE q
  BY DEF HalfAway
<1> HIDE DEF m, q
<1>4. (2 * d) * q = 2 * (d * q) /\ d * (-q) = -(d * q) /\ d * q \in Int
  BY <1>2
<1>5. QED
  BY <1>1, <1>2, <1>3, <1>4

\* What is rounded up is at most half a step off.
LEMMA HalfUpBounds ==
  \A n \in Int, d \in Nat \ {0} :
     /\ HalfUp(n, d) \in Int
     /\ 2 * (d * HalfUp(n, d)) - 2 * n <= d /\ 2 * n - 2 * (d * HalfUp(n, d)) <= d
<1> SUFFICES ASSUME NEW n \in Int, NEW d \in Nat \ {0}
             PROVE  /\ HalfUp(n, d) \in Int
                    /\ 2 * (d * HalfUp(n, d)) - 2 * n <= d
                    /\ 2 * n - 2 * (d * HalfUp(n, d)) <= d
  OBVIOUS
<1> DEFINE q == (2 * n + d) \div (2 * d)
<1>1. q \in Int /\ (2 * d) * q <= 2 * n + d /\ 2 * n + d < (2 * d) * q + 2 * d
  <2>1. 2 * n + d \in Int /\ 2 * d \in Nat \ {0}
    OBVIOUS
  <2>2. QED
    BY <2>1, QuotientBounds
<1>2. HalfUp(n, d) = q
  BY DEF HalfUp
<1> HIDE DEF q
<1>3. (2 * d) * q = 2 * (d * q) /\ d * q \in Int
  BY <1>1
<1>4. QED
  BY <1>1, <1>2, <1>3

\* Two numbers that are less than two steps apart differ by one at most.
LEMMA Near ==
  \A d \in Nat \ {0}, x, y \in Int :
     d * x - d * y < 2 * d /\ d * y - d * x < 2 * d => x - y <= 1 /\ y - x <= 1
<1> SUFFICES ASSUME NEW d \in Nat \ {0}, NEW x \in Int, NEW y \in Int,
                    d * x - d * y < 2 * d, d * y - d * x < 2 * d
             PROVE  x - y <= 1 /\ y - x <= 1
  OBVIOUS
<1>1. d * (x - y) = d * x - d * y /\ d * (y - x) = d * y - d * x
  OBVIOUS
<1>2. \A k \in Int : k >= 2 => d * k >= d * 2
  OBVIOUS
<1>3. x - y \in Int /\ y - x \in Int /\ d * 2 = 2 * d
  OBVIOUS
<1>4. ~ (x - y >= 2)
  BY <1>1, <1>2, <1>3
<1>5. ~ (y - x >= 2)
  BY <1>1, <1>2, <1>3
<1>6. QED
  BY <1>3, <1>4, <1>5

\* The VAT of the XML template is whole.
LEMMA TemplateVatType == \A line : IsLine(line) => TemplateVat(line) \in Int
<1> SUFFICES ASSUME NEW line, IsLine(line)
             PROVE  TemplateVat(line) \in Int
  OBVIOUS
<1>1. TemplateVat(line) = HalfUp(Unscaled(line) * VatFactor(line.vatRate), PowerOfTen[Scale(line)])
  BY DecimalFields DEF TemplateVat, Exact, Times, Unscaled, Scale
<1>2. /\ Unscaled(line) * VatFactor(line.vatRate) \in Int
      /\ PowerOfTen[Scale(line)] \in Nat \ {0}
  <2>1. VatFactor(line.vatRate) \in Int
    BY Factors DEF IsLine
  <2>2. QED
    BY <2>1, LineParts, PowersArePositive
<1>3. QED
  BY <1>1, <1>2, HalfUpBounds

\* The VAT that the PDF computes of a line is that of the invoice, or next to it.
LEMMA TemplateVatIsNear ==
  \A line : IsLine(line) => TemplateVat(line) - Vat(line) <= 1 /\ Vat(line) - TemplateVat(line) <= 1
<1> SUFFICES ASSUME NEW line, IsLine(line)
             PROVE  TemplateVat(line) - Vat(line) <= 1 /\ Vat(line) - TemplateVat(line) <= 1
  OBVIOUS
<1> DEFINE n == Unscaled(line)
           d == PowerOfTen[Scale(line)]
           f == VatFactor(line.vatRate)
           net == Net(line)
           v == TemplateVat(line)
           w == Vat(line)
<1>1. n \in Int /\ d \in Nat \ {0} /\ f \in {0, 5, 8, 23} /\ net \in Int /\ v \in Int /\ w \in Int
  BY LineParts, PowersArePositive, Factors, TemplateVatType, VatOfLine DEF IsLine
<1>2. v = HalfUp(n * f, d)
  BY DecimalFields DEF TemplateVat, Exact, Times, Unscaled, Scale
<1>3. 2 * (d * v) - 2 * (n * f) <= d /\ 2 * (n * f) - 2 * (d * v) <= d
  <2>1. n * f \in Int
    BY <1>1
  <2> HIDE DEF n, d, f, v
  <2>2. QED
    BY <1>1, <1>2, <2>1, HalfUpBounds
<1>4. CASE line.vatRate \in ZeroVatRates
  <2>1. f = 0 /\ w = 0
    BY <1>4, Factors, VatOfLine DEF IsLine
  <2> HIDE DEF n, d, f, v, w
  <2>2. n * f = 0
    BY <1>1, <2>1
  <2>3. d * v - d * 0 < 2 * d /\ d * 0 - d * v < 2 * d
    <3>1. d * v \in Int /\ d * 0 = 0
      BY <1>1
    <3>2. QED
      BY <1>1, <1>3, <2>2, <3>1
  <2>4. QED
    BY <1>1, <2>1, <2>3, Near DEF v, w
<1>5. CASE line.vatRate \notin ZeroVatRates
  <2>1. net = HalfAway(100 * n, d)
    BY NetOfLine, LineParts, GroszeIsHalfAway
  <2>2. 2 * (d * net) - 200 * n <= d /\ 200 * n - 2 * (d * net) <= d
    <3>1. 100 * n \in Int
      BY <1>1
    <3>2. 2 * (d * net) - 2 * (100 * n) <= d /\ 2 * (100 * n) - 2 * (d * net) <= d
      <4> HIDE DEF n, d, net
      <4>1. QED
        BY <1>1, <2>1, <3>1, HalfAwayBounds
    <3> HIDE DEF n, d, net
    <3>3. QED
      BY <1>1, <3>2
  <2>3. w = HalfAway(net * f, 100)
    <3>1. w = Grosze(Decimal(net * f, 4))
      BY <1>5, VatOfLine
    <3>2. QED
      BY <3>1, GroszeCases, PowersOfTen
  <2>4. 200 * w - 2 * (net * f) <= 100 /\ 2 * (net * f) - 200 * w <= 100
    <3>1. net * f \in Int
      BY <1>1
    <3>2. 2 * (100 * w) - 2 * (net * f) <= 100 /\ 2 * (net * f) - 2 * (100 * w) <= 100
      <4> HIDE DEF net, f, w
      <4>1. QED
        BY <1>1, <2>3, <3>1, HalfAwayBounds
    <3> HIDE DEF net, f, w
    <3>3. QED
      BY <1>1, <3>1, <3>2
  <2> HIDE DEF n, d, f, net, v, w
  <2>5. /\ 200 * (d * w) - 2 * (f * (d * net)) <= 100 * d
        /\ 2 * (f * (d * net)) - 200 * (d * w) <= 100 * d
    <3>1. \A x \in Int : x <= 100 => d * x <= d * 100
      BY <1>1
    <3>2. /\ d * (200 * w - 2 * (net * f)) <= d * 100
          /\ d * (2 * (net * f) - 200 * w) <= d * 100
      <4>1. 200 * w - 2 * (net * f) \in Int /\ 2 * (net * f) - 200 * w \in Int
        BY <1>1
      <4>2. QED
        BY <2>4, <3>1, <4>1
    <3>3. /\ d * (200 * w - 2 * (net * f)) = 200 * (d * w) - 2 * (f * (d * net))
          /\ d * (2 * (net * f) - 200 * w) = 2 * (f * (d * net)) - 200 * (d * w)
      BY <1>1
    <3>4. QED
      BY <1>1, <3>2, <3>3
  <2>6. d * w - d * v < 2 * d /\ d * v - d * w < 2 * d
    <3> DEFINE dw == d * w
               dv == d * v
               dn == d * net
    <3>1. dw \in Int /\ dv \in Int /\ dn \in Int
      BY <1>1
    <3>2. /\ 2 * dv - 2 * (n * f) <= d /\ 2 * (n * f) - 2 * dv <= d
          /\ 2 * dn - 200 * n <= d /\ 200 * n - 2 * dn <= d
          /\ 200 * dw - 2 * (f * dn) <= 100 * d /\ 2 * (f * dn) - 200 * dw <= 100 * d
      BY <1>3, <2>2, <2>5
    <3> HIDE DEF dw, dv, dn
    <3>3. dw - dv < 2 * d /\ dv - dw < 2 * d
      <4>1. CASE f = 0
        BY <1>1, <3>1, <3>2, <4>1
      <4>2. CASE f = 5
        BY <1>1, <3>1, <3>2, <4>2
      <4>3. CASE f = 8
        BY <1>1, <3>1, <3>2, <4>3
      <4>4. CASE f = 23
        BY <1>1, <3>1, <3>2, <4>4
      <4>5. QED
        BY <1>1, <4>1, <4>2, <4>3, <4>4
    <3>4. QED
      BY <3>3 DEF dw, dv
  <2>7. QED
    BY <1>1, <2>6, Near DEF v, w
<1>6. QED
  BY <1>4, <1>5

-----------------------------------------------------------------------------
(***************************************************************************)
(* Totals and breakdowns of lines; cancellations.                          *)
(***************************************************************************)
\* Lines of any kind that have amounts.
AreLines(lines) ==
    /\ \E S : lines \in Seq(S)
    /\ \A k \in DOMAIN lines : IsLine(lines[k])

\* Lines are numbered from one.
LEMMA LinesAreNumbered ==
  \A lines : AreLines(lines) => Len(lines) \in Nat /\ DOMAIN lines = 1 .. Len(lines)
<1> SUFFICES ASSUME NEW lines, NEW S, lines \in Seq(S)
             PROVE  Len(lines) \in Nat /\ DOMAIN lines = 1 .. Len(lines)
  BY DEF AreLines
<1>1. QED
  OBVIOUS

\* The totals of all lines, for which Totals adds them up.
AllTotals(lines) == [k \in DOMAIN lines |-> LineTotals(lines[k])]

\* The totals of lines, and those of one rate, are amounts.
LEMMA LineSequences ==
  ASSUME NEW lines, AreLines(lines)
  PROVE  /\ AllTotals(lines) \in Seq(Amounts) /\ Len(AllTotals(lines)) = Len(lines)
         /\ \A r : OfRate(lines, r) \in Seq(Amounts) /\ Len(OfRate(lines, r)) = Len(lines)
<1> DEFINE n == Len(lines)
<1>1. n \in Nat /\ DOMAIN lines = 1 .. n
  BY LinesAreNumbered
<1>2. \A k \in 1 .. n : LineTotals(lines[k]) \in Amounts
  BY <1>1, LineType DEF AreLines
<1> HIDE DEF n
<1>3. AllTotals(lines) \in Seq(Amounts) /\ Len(AllTotals(lines)) = n
  BY <1>1, <1>2 DEF AllTotals
<1>4. ASSUME NEW r
      PROVE  OfRate(lines, r) \in Seq(Amounts) /\ Len(OfRate(lines, r)) = n
  BY <1>1, <1>2, PlusType DEF OfRate
<1>5. QED
  BY <1>3, <1>4 DEF n

\* The totals of the lines whose rates are in R, and zero for the others.
OfRates(lines, R) ==
    [k \in DOMAIN lines |-> IF lines[k].vatRate \in R THEN LineTotals(lines[k]) ELSE Zero]
TotalOfRates(lines, R) == TotalAmounts(OfRates(lines, R))
TotalOfRate(lines, r) == TotalAmounts(OfRate(lines, r))

\* Totals and breakdowns are amounts.
LEMMA TotalsTypes ==
  ASSUME NEW lines, AreLines(lines)
  PROVE  /\ Totals(lines) \in Amounts
         /\ \A r : TotalOfRate(lines, r) \in Amounts
         /\ \A r \in DOMAIN Breakdown(lines) : Breakdown(lines)[r] \in Amounts
         /\ DOMAIN Breakdown(lines) = RatesOf(lines) /\ RatesOf(lines) \subseteq VatRates
<1>1. Totals(lines) \in Amounts
  BY LineSequences, TotalType DEF Totals, AllTotals
<1>2. \A r : TotalOfRate(lines, r) \in Amounts
  BY LineSequences, TotalType DEF TotalOfRate
<1>3. QED
  BY <1>1, <1>2 DEF Breakdown, TotalOfRate, RatesOf, AreLines, IsLine

\* The amounts of a rate, whether there are lines of it or not.
LEMMA AmountsOfBreakdown ==
  ASSUME NEW lines, AreLines(lines), NEW r
  PROVE  AmountsOf(Breakdown(lines), r) = TotalOfRate(lines, r)
<1>1. CASE r \in RatesOf(lines)
  BY <1>1 DEF AmountsOf, Breakdown, TotalOfRate
<1>2. CASE r \notin RatesOf(lines)
  <2>1. \A k \in 1 .. Len(OfRate(lines, r)) : OfRate(lines, r)[k] = Zero
    BY <1>2, LinesAreNumbered, LineSequences DEF RatesOf, OfRate
  <2>2. TotalAmounts(OfRate(lines, r)) = Zero
    BY <2>1, LineSequences, TotalOfZero
  <2>3. QED
    BY <1>2, <2>2 DEF AmountsOf, Breakdown, TotalOfRate
<1>3. QED
  BY <1>1, <1>2

\* One more rate adds the amounts of its lines.
LEMMA OneMoreRate ==
  ASSUME NEW lines, AreLines(lines), NEW R, NEW r, r \notin R
  PROVE  /\ TotalOfRates(lines, R) \in Amounts
         /\ TotalOfRates(lines, R \cup {r}) = Plus(TotalOfRates(lines, R), TotalOfRate(lines, r))
<1> DEFINE n == Len(lines)
           s == OfRates(lines, R)
           t == OfRate(lines, r)
           u == OfRates(lines, R \cup {r})
<1>1. n \in Nat /\ DOMAIN lines = 1 .. n
  BY LinesAreNumbered
<1>2. \A k \in 1 .. n : LineTotals(lines[k]) \in Amounts
  BY <1>1, LineType DEF AreLines
<1>3. /\ s \in Seq(Amounts) /\ Len(s) = n /\ t \in Seq(Amounts) /\ Len(t) = n
      /\ u \in Seq(Amounts) /\ Len(u) = n
  <2> HIDE DEF n
  <2>1. QED
    BY <1>1, <1>2, PlusType DEF OfRates, OfRate
<1>4. \A k \in 1 .. n : u[k] = Plus(s[k], t[k])
  <2> SUFFICES ASSUME NEW k \in 1 .. n
               PROVE  u[k] = Plus(s[k], t[k])
    OBVIOUS
  <2> DEFINE a == LineTotals(lines[k])
  <2>1. /\ s[k] = IF lines[k].vatRate \in R THEN a ELSE Zero
        /\ t[k] = IF lines[k].vatRate = r THEN a ELSE Zero
        /\ u[k] = IF lines[k].vatRate \in R \cup {r} THEN a ELSE Zero
    BY <1>1 DEF OfRates, OfRate
  <2>2. Plus(a, Zero) = a /\ Plus(Zero, a) = a /\ Plus(Zero, Zero) = Zero
    BY <1>2, PlusType, PlusLaws
  <2> HIDE DEF s, t, u, a
  <2>3. QED
    BY <2>1, <2>2
<1>5. TotalAmounts(u) = Plus(TotalAmounts(s), TotalAmounts(t)) /\ TotalAmounts(s) \in Amounts
  <2> HIDE DEF s, t, u
  <2>1. QED
    BY <1>3, <1>4, TotalOfPlus, TotalType
<1>6. QED
  BY <1>5 DEF TotalOfRates, TotalOfRate

\* The totals of an invoice are those of its rates together.
LEMMA TotalsOfRates ==
  ASSUME NEW lines, AreLines(lines)
  PROVE  LET Of(r) == TotalOfRate(lines, r)
         IN  Totals(lines) = Plus(Plus(Plus(Plus(Plus(Plus(Of("23"), Of("8")), Of("5")), Of("0")),
                                            Of("zw")), Of("np")), Of("oo"))
<1> DEFINE Sum(R) == TotalOfRates(lines, R)
           Of(r) == TotalOfRate(lines, r)
<1>0. \A R, r : r \notin R => Sum(R \cup {r}) = Plus(Sum(R), Of(r))
  BY OneMoreRate
<1>1. Sum({}) = Zero
  <2> DEFINE s == OfRates(lines, {})
  <2>1. s \in Seq(Amounts) /\ Len(s) = Len(lines) /\ \A k \in 1 .. Len(lines) : s[k] = Zero
    BY LinesAreNumbered, PlusType DEF OfRates
  <2> HIDE DEF s
  <2>2. TotalAmounts(s) = Zero
    BY <2>1, TotalOfZero
  <2>3. QED
    BY <2>2 DEF TotalOfRates, s
<1>2. Sum({"23"}) = Of("23")
  <2>1. Sum({} \cup {"23"}) = Plus(Sum({}), Of("23")) /\ {} \cup {"23"} = {"23"}
    BY <1>0
  <2>2. Plus(Zero, Of("23")) = Of("23")
    BY TotalsTypes, PlusLaws, PlusType
  <2> HIDE DEF Sum, Of
  <2>3. QED
    BY <1>1, <2>1, <2>2
<1>3. /\ "8" \notin {"23"} /\ "5" \notin {"23"} \cup {"8"} /\ "0" \notin {"23", "8"} \cup {"5"}
      /\ "zw" \notin {"23", "8", "5"} \cup {"0"} /\ "np" \notin {"23", "8", "5", "0"} \cup {"zw"}
      /\ "oo" \notin {"23", "8", "5", "0", "zw"} \cup {"np"}
      /\ VatRates = {"23", "8", "5", "0", "zw", "np"} \cup {"oo"}
      /\ {"23"} \cup {"8"} = {"23", "8"} /\ {"23", "8"} \cup {"5"} = {"23", "8", "5"}
      /\ {"23", "8", "5"} \cup {"0"} = {"23", "8", "5", "0"}
      /\ {"23", "8", "5", "0"} \cup {"zw"} = {"23", "8", "5", "0", "zw"}
      /\ {"23", "8", "5", "0", "zw"} \cup {"np"} = {"23", "8", "5", "0", "zw", "np"}
  BY DEF VatRates
<1>4. OfRates(lines, VatRates) = AllTotals(lines)
  BY DEF OfRates, AllTotals, AreLines, IsLine
<1>5. Totals(lines) = Sum(VatRates)
  BY <1>4 DEF Totals, TotalOfRates, AllTotals
<1> HIDE DEF Sum, Of
<1>6. /\ Sum({"23", "8"}) = Plus(Sum({"23"}), Of("8"))
      /\ Sum({"23", "8", "5"}) = Plus(Sum({"23", "8"}), Of("5"))
      /\ Sum({"23", "8", "5", "0"}) = Plus(Sum({"23", "8", "5"}), Of("0"))
      /\ Sum({"23", "8", "5", "0", "zw"}) = Plus(Sum({"23", "8", "5", "0"}), Of("zw"))
      /\ Sum({"23", "8", "5", "0", "zw", "np"}) = Plus(Sum({"23", "8", "5", "0", "zw"}), Of("np"))
      /\ Sum(VatRates) = Plus(Sum({"23", "8", "5", "0", "zw", "np"}), Of("oo"))
  BY <1>0, <1>3
<1>7. QED
  BY <1>2, <1>5, <1>6 DEF Of

\* Lines of the same rates and amounts have the same totals.
LEMMA SameLines ==
  ASSUME NEW a, NEW b, DOMAIN a = DOMAIN b,
         \A k \in DOMAIN a : a[k].vatRate = b[k].vatRate /\ LineTotals(a[k]) = LineTotals(b[k])
  PROVE  Totals(a) = Totals(b) /\ Breakdown(a) = Breakdown(b)
<1>1. Totals(a) = Totals(b)
  BY DEF Totals
<1>2. RatesOf(a) = RatesOf(b)
  BY DEF RatesOf
<1>3. \A r : OfRate(a, r) = OfRate(b, r)
  BY DEF OfRate
<1>4. QED
  BY <1>1, <1>2, <1>3 DEF Breakdown

\* Lines of a cancellation.
Opposite(lines) == [k \in DOMAIN lines |-> Negative(lines[k])]

\* The lines of a cancellation have the opposite totals, rate by rate.
LEMMA OppositeLines ==
  ASSUME NEW lines, AreLines(lines),
         \A k \in DOMAIN lines :
            lines[k] \in [quantity : Decimals, unitNetPrice : Decimals, vatRate : VatRates,
                          totals : Amounts]
  PROVE  /\ \A k \in DOMAIN lines :
               /\ Opposite(lines)[k] \in [quantity : Decimals, unitNetPrice : Decimals,
                                          vatRate : VatRates, totals : Amounts]
               /\ Opposite(lines)[k].totals = Minus(lines[k].totals)
               /\ Opposite(lines)[k].quantity = lines[k].quantity
               /\ Opposite(lines)[k].vatRate = lines[k].vatRate
               /\ LineTotals(Opposite(lines)[k]) = Minus(LineTotals(lines[k]))
         /\ DOMAIN Opposite(lines) = DOMAIN lines
         /\ Totals(Opposite(lines)) = Minus(Totals(lines))
         /\ Breakdown(Opposite(lines))
               = [r \in DOMAIN Breakdown(lines) |-> Minus(Breakdown(lines)[r])]
<1> DEFINE L == [quantity : Decimals, unitNetPrice : Decimals, vatRate : VatRates,
                 totals : Amounts]
           b == Opposite(lines)
           n == Len(lines)
<1>1. n \in Nat /\ DOMAIN lines = 1 .. n
  BY LinesAreNumbered
<1>2. ASSUME NEW k \in DOMAIN lines
      PROVE  /\ b[k] \in L /\ b[k].totals = Minus(lines[k].totals)
             /\ b[k].quantity = lines[k].quantity
             /\ b[k].vatRate = lines[k].vatRate
             /\ LineTotals(b[k]) = Minus(LineTotals(lines[k])) /\ IsLine(b[k])
  <2> DEFINE line == lines[k]
  <2>1. b[k] = Negative(line) /\ line \in L
    BY DEF Opposite
  <2>2. /\ Negative(line).quantity = line.quantity /\ Negative(line).vatRate = line.vatRate
        /\ Negative(line).unitNetPrice
              = Decimal(-line.unitNetPrice.unscaled, line.unitNetPrice.scale)
        /\ Negative(line).totals = Minus(line.totals)
    BY <2>1 DEF Negative
  <2>3. IsLine(line)
    BY DEF AreLines
  <2>4. IsLine(Negative(line)) /\ LineTotals(Negative(line)) = Minus(LineTotals(line))
    BY <2>2, <2>3, OppositeTotals
  <2>5. Negative(line) \in L
    <3>1. Minus(line.totals) \in Amounts /\ Negative(line).unitNetPrice \in Decimals
      BY <2>1, <2>4, PlusType DEF IsLine
    <3>2. QED
      BY <2>1, <2>2, <3>1 DEF Negative
  <2>6. QED
    BY <2>1, <2>2, <2>4, <2>5
<1>3. DOMAIN b = DOMAIN lines
  BY DEF Opposite
<1>4. AreLines(b)
  <2>1. b \in Seq(L)
    <3>1. \A k \in 1 .. n : b[k] \in L
      BY <1>1, <1>2
    <3>2. b = [k \in 1 .. n |-> b[k]]
      BY <1>1 DEF Opposite
    <3> HIDE DEF b, n, L
    <3>3. QED
      BY <1>1, <3>1, <3>2
  <2>2. QED
    BY <1>2, <1>3, <2>1 DEF AreLines
<1>5. Totals(b) = Minus(Totals(lines))
  <2> DEFINE s == AllTotals(lines)
             t == AllTotals(b)
  <2>1. /\ s \in Seq(Amounts) /\ Len(s) = n
        /\ t \in Seq(Amounts) /\ Len(t) = Len(b)
    BY <1>4, LineSequences
  <2>2. Len(b) = n
    BY <1>1, <1>3, <1>4, LinesAreNumbered
  <2>3. \A k \in 1 .. n : t[k] = Minus(s[k])
    BY <1>1, <1>2, <1>3 DEF AllTotals
  <2>4. TotalAmounts(t) = Minus(TotalAmounts(s))
    <3> HIDE DEF s, t
    <3>1. QED
      BY <2>1, <2>2, <2>3, TotalOfMinus
  <2>5. QED
    BY <2>4 DEF Totals, AllTotals
<1>6. ASSUME NEW r
      PROVE  TotalAmounts(OfRate(b, r)) = Minus(TotalAmounts(OfRate(lines, r)))
  <2> DEFINE s == OfRate(lines, r)
             t == OfRate(b, r)
  <2>1. /\ s \in Seq(Amounts) /\ Len(s) = n
        /\ t \in Seq(Amounts) /\ Len(t) = Len(b)
    BY <1>4, LineSequences
  <2>2. Len(b) = n
    BY <1>1, <1>3, <1>4, LinesAreNumbered
  <2>3. Minus(Zero) = Zero
    BY PlusType, PlusLaws
  <2>4. \A k \in 1 .. n : t[k] = Minus(s[k])
    BY <1>1, <1>2, <1>3, <2>3 DEF OfRate
  <2>5. QED
    <3> HIDE DEF s, t
    <3>1. TotalAmounts(t) = Minus(TotalAmounts(s))
      BY <2>1, <2>2, <2>4, TotalOfMinus
    <3>2. QED
      BY <3>1 DEF s, t
<1>7. RatesOf(b) = RatesOf(lines)
  BY <1>2, <1>3 DEF RatesOf
<1>8. Breakdown(b) = [r \in DOMAIN Breakdown(lines) |-> Minus(Breakdown(lines)[r])]
  BY <1>6, <1>7 DEF Breakdown
<1>9. QED
  BY <1>2, <1>3, <1>5, <1>8

-----------------------------------------------------------------------------
(***************************************************************************)
(* The XML says what the rows say.                                         *)
(***************************************************************************)
\* Where no line has VAT, nor has the total.
LEMMA TotalWithoutVat ==
  ASSUME NEW amounts \in Seq(Amounts), \A k \in 1 .. Len(amounts) : amounts[k].vat = 0
  PROVE  TotalAmounts(amounts).vat = 0
<1> DEFINE N == Len(amounts)
<1>1. N \in Nat /\ \A k \in 1 .. N : amounts[k] \in Amounts
  OBVIOUS
<1>2. PICK f \in [0 .. N -> Amounts] :
         /\ f[0] = Zero /\ \A i \in 1 .. N : f[i] = Plus(f[i - 1], amounts[i])
         /\ TotalAmounts(amounts) = f[N]
  BY TotalSteps
<1> DEFINE S == {i \in Nat : i <= N => f[i].vat = 0}
<1>3. 0 \in S
  BY <1>2 DEF Zero
<1>4. ASSUME NEW i \in Nat, i \in S
      PROVE  i + 1 \in S
  <2> SUFFICES ASSUME i + 1 <= N
               PROVE  f[i + 1].vat = 0
    OBVIOUS
  <2>1. f[i].vat = 0 /\ i \in 0 .. N /\ i + 1 \in 1 .. N /\ (i + 1) - 1 = i
    BY <1>1, <1>4
  <2>2. f[i + 1] = Plus(f[i], amounts[i + 1]) /\ amounts[i + 1].vat = 0
    BY <1>2, <2>1
  <2>3. f[i + 1].vat = f[i].vat + amounts[i + 1].vat
    BY <2>2 DEF Plus
  <2>4. QED
    BY <2>1, <2>2, <2>3
<1>5. Nat \subseteq S
  <2> HIDE DEF S
  <2>1. QED
    BY <1>3, <1>4, Induction
<1>6. QED
  BY <1>1, <1>2, <1>5

\* Rates without VAT add none.
LEMMA ZeroRatesHaveNoVat ==
  ASSUME NEW lines, AreLines(lines), NEW r \in ZeroVatRates
  PROVE  TotalOfRate(lines, r).vat = 0
<1> DEFINE s == OfRate(lines, r)
<1>1. s \in Seq(Amounts) /\ Len(s) = Len(lines) /\ DOMAIN lines = 1 .. Len(lines)
  BY LineSequences, LinesAreNumbered
<1>2. \A k \in 1 .. Len(lines) : s[k].vat = 0
  <2> SUFFICES ASSUME NEW k \in 1 .. Len(lines)
               PROVE  s[k].vat = 0
    OBVIOUS
  <2>1. s[k] = IF lines[k].vatRate = r THEN LineTotals(lines[k]) ELSE Zero
    BY <1>1 DEF OfRate
  <2>2. CASE lines[k].vatRate = r
    <3>1. IsLine(lines[k])
      BY <1>1 DEF AreLines
    <3>2. LineTotals(lines[k]).vat = 0
      BY <2>2, <3>1, LineType, VatOfLine
    <3>3. QED
      BY <2>1, <2>2, <3>2
  <2>3. CASE lines[k].vatRate # r
    BY <2>1, <2>3 DEF Zero
  <2>4. QED
    BY <2>2, <2>3
<1>3. TotalAmounts(s).vat = 0
  <2> HIDE DEF s
  <2>1. QED
    BY <1>1, <1>2, TotalWithoutVat
<1>4. QED
  BY <1>3 DEF TotalOfRate

\* The figures of an invoice by rate: what the VAT register adds, and what the
\* buyer's copy reads.
LEMMA TotalsByRate ==
  ASSUME NEW lines, AreLines(lines)
  PROVE  /\ GrossOfRates(Breakdown(lines)) = Totals(lines).gross
         /\ Totals(lines).vat = AmountsOf(Breakdown(lines), "23").vat
                                + AmountsOf(Breakdown(lines), "8").vat
                                + AmountsOf(Breakdown(lines), "5").vat
<1> DEFINE Of(r) == TotalOfRate(lines, r)
           a == Plus(Of("23"), Of("8"))
           b == Plus(a, Of("5"))
           c == Plus(b, Of("0"))
           d == Plus(c, Of("zw"))
           e == Plus(d, Of("np"))
<1>1. \A r : AmountsOf(Breakdown(lines), r) = Of(r) /\ Of(r) \in Amounts
  BY AmountsOfBreakdown, TotalsTypes
<1>2. Totals(lines) = Plus(e, Of("oo"))
  BY TotalsOfRates
<1>3. Of("0").vat = 0 /\ Of("zw").vat = 0 /\ Of("np").vat = 0 /\ Of("oo").vat = 0
  BY ZeroRatesHaveNoVat DEF ZeroVatRates
<1> HIDE DEF Of
<1>4. a \in Amounts /\ b \in Amounts /\ c \in Amounts /\ d \in Amounts /\ e \in Amounts
  BY <1>1, PlusType
<1>5. /\ a.gross = Of("23").gross + Of("8").gross /\ b.gross = a.gross + Of("5").gross
      /\ c.gross = b.gross + Of("0").gross /\ d.gross = c.gross + Of("zw").gross
      /\ e.gross = d.gross + Of("np").gross
      /\ Plus(e, Of("oo")).gross = e.gross + Of("oo").gross
  BY DEF Plus
<1>6. /\ a.vat = Of("23").vat + Of("8").vat /\ b.vat = a.vat + Of("5").vat
      /\ c.vat = b.vat + Of("0").vat /\ d.vat = c.vat + Of("zw").vat
      /\ e.vat = d.vat + Of("np").vat
      /\ Plus(e, Of("oo")).vat = e.vat + Of("oo").vat
  BY DEF Plus
<1>7. b.vat \in Int
  BY <1>4 DEF Amounts
<1>8. GrossOfRates(Breakdown(lines))
      = Of("23").gross + Of("8").gross + Of("5").gross + Of("0").gross + Of("zw").gross
        + Of("np").gross + Of("oo").gross
  BY <1>1 DEF GrossOfRates
<1> HIDE DEF a, b, c, d, e
<1>9. Totals(lines).gross = GrossOfRates(Breakdown(lines))
  BY <1>2, <1>5, <1>8
<1>10. Totals(lines).vat = b.vat
  <2>1. \A x \in Int : x + 0 = x
    OBVIOUS
  <2>2. c.vat = b.vat /\ d.vat = c.vat /\ e.vat = d.vat /\ Totals(lines).vat = e.vat
    BY <1>2, <1>3, <1>6, <1>7, <2>1
  <2>3. QED
    BY <2>2
<1>11. Totals(lines).vat = Of("23").vat + Of("8").vat + Of("5").vat
  BY <1>6, <1>10
<1>12. QED
  BY <1>1, <1>9, <1>11

\* What the buyer's copy reads in the XML of an invoice.
LEMMA ParsedXml ==
  ASSUME NEW lines, AreLines(lines), NEW xml,
         xml.summary = VatSummary(Breakdown(lines)), xml.P_15 = Totals(lines).gross
  PROVE  ParsedFa3Xml(xml) =
            [net |-> AmountsOf(Breakdown(lines), "23").net + AmountsOf(Breakdown(lines), "8").net
                     + AmountsOf(Breakdown(lines), "5").net,
             vat |-> Totals(lines).vat, gross |-> Totals(lines).gross]
<1> DEFINE breakdown == Breakdown(lines)
           summary == VatSummary(breakdown)
<1>1. DOMAIN breakdown \subseteq VatRates
  BY TotalsTypes
<1>2. \A r \in DOMAIN breakdown :
         breakdown[r] \in Amounts
  BY TotalsTypes
<1>4. /\ NetTag("23") = "P_13_1" /\ NetTag("8") = "P_13_2" /\ NetTag("5") = "P_13_3"
      /\ \A r \in ZeroVatRates : NetTag(r) \in {"P_13_6_1", "P_13_7", "P_13_8", "P_13_10"}
      /\ VatTag("23") = "P_14_1" /\ VatTag("8") = "P_14_2" /\ VatTag("5") = "P_14_3"
  BY DEF NetTag, VatTag, ZeroVatRates
<1> HIDE DEF breakdown
<1>5. ASSUME NEW field \in summary
      PROVE  \E r \in DOMAIN breakdown :
                \/ field = <<NetTag(r), breakdown[r].net>>
                \/ field = <<VatTag(r), breakdown[r].vat>> /\ r \notin ZeroVatRates
  BY DEF VatSummary
<1>6. ASSUME NEW r \in {"23", "8", "5"}
      PROVE  /\ {field \in summary : field[1] = NetTag(r)}
                   = IF r \in DOMAIN breakdown THEN {<<NetTag(r), breakdown[r].net>>} ELSE {}
             /\ {field \in summary : field[1] = VatTag(r)}
                   = IF r \in DOMAIN breakdown THEN {<<VatTag(r), breakdown[r].vat>>} ELSE {}
  <2>1. \A q \in VatRates : /\ NetTag(q) = NetTag(r) => q = r
                            /\ NetTag(q) # VatTag(r)
                            /\ q \notin ZeroVatRates => /\ VatTag(q) # NetTag(r)
                                                        /\ VatTag(q) = VatTag(r) => q = r
    BY <1>4 DEF VatRates, ZeroVatRates
  <2>2. \A q \in DOMAIN breakdown : q \notin ZeroVatRates
        => <<VatTag(q), breakdown[q].vat>> \in summary
    BY DEF VatSummary
  <2>3. \A q \in DOMAIN breakdown : <<NetTag(q), breakdown[q].net>> \in summary
    BY DEF VatSummary
  <2>4. r \notin ZeroVatRates
    BY DEF ZeroVatRates
  <2> HIDE DEF summary
  <2>5. {field \in summary : field[1] = NetTag(r)}
        = IF r \in DOMAIN breakdown THEN {<<NetTag(r), breakdown[r].net>>} ELSE {}
    BY <1>1, <1>5, <2>1, <2>3
  <2>6. {field \in summary : field[1] = VatTag(r)}
        = IF r \in DOMAIN breakdown THEN {<<VatTag(r), breakdown[r].vat>>} ELSE {}
    BY <1>1, <1>5, <2>1, <2>2, <2>4
  <2>7. QED
    BY <2>5, <2>6
<1>7. ASSUME NEW tag, NEW y, {field \in xml.summary : field[1] = tag} = {<<tag, y>>}
      PROVE  ValueOf(xml, tag) = y
  <2>1. {field[2] : field \in {<<tag, y>>}} = {y}
    OBVIOUS
  <2>2. (CHOOSE value \in {y} : TRUE) = y /\ {y} # {}
    OBVIOUS
  <2>3. {field[2] : field \in {field \in xml.summary : field[1] = tag}} = {y}
    BY <1>7, <2>1
  <2>4. QED
    BY <2>2, <2>3 DEF ValueOf
<1>8. ASSUME NEW r \in {"23", "8", "5"}
      PROVE  /\ ValueOf(xml, NetTag(r)) = AmountsOf(breakdown, r).net
             /\ ValueOf(xml, VatTag(r)) = AmountsOf(breakdown, r).vat
  <2>1. xml.summary = summary
    BY DEF breakdown
  <2> HIDE DEF summary
  <2>2. CASE r \in DOMAIN breakdown
    <3>1. /\ ValueOf(xml, NetTag(r)) = breakdown[r].net
          /\ ValueOf(xml, VatTag(r)) = breakdown[r].vat
      <4>1. /\ {field \in xml.summary : field[1] = NetTag(r)} = {<<NetTag(r), breakdown[r].net>>}
            /\ {field \in xml.summary : field[1] = VatTag(r)} = {<<VatTag(r), breakdown[r].vat>>}
        BY <1>6, <2>1, <2>2
      <4>2. QED
        BY <1>7, <4>1
    <3>2. QED
      BY <2>2, <3>1 DEF AmountsOf
  <2>3. CASE r \notin DOMAIN breakdown
    <3>1. ValueOf(xml, NetTag(r)) = 0 /\ ValueOf(xml, VatTag(r)) = 0
      BY <1>6, <2>1, <2>3 DEF ValueOf
    <3>2. QED
      BY <2>3, <3>1 DEF AmountsOf, Zero
  <2>4. QED
    BY <2>2, <2>3
<1>9. ASSUME NEW tag \in {"P_13_4", "P_13_5", "P_13_N"}
      PROVE  ValueOf(xml, tag) = 0
  <2>1. \A q \in VatRates : NetTag(q) # tag /\ (q \notin ZeroVatRates => VatTag(q) # tag)
    BY <1>4 DEF VatRates, ZeroVatRates
  <2>2. xml.summary = summary
    BY DEF breakdown
  <2> HIDE DEF summary
  <2>3. {field \in summary : field[1] = tag} = {}
    BY <1>1, <1>5, <2>1
  <2>4. QED
    BY <2>2, <2>3 DEF ValueOf
<1>10. \A r : AmountsOf(breakdown, r) \in Amounts
  BY <1>2, PlusType DEF AmountsOf
<1>11. ParsedFa3Xml(xml) =
          [net |-> AmountsOf(breakdown, "23").net + AmountsOf(breakdown, "8").net
                   + AmountsOf(breakdown, "5").net + 0 + 0 + 0,
           vat |-> AmountsOf(breakdown, "23").vat + AmountsOf(breakdown, "8").vat
                   + AmountsOf(breakdown, "5").vat,
           gross |-> Totals(lines).gross]
  <2>1. /\ ValueOf(xml, "P_13_1") = AmountsOf(breakdown, "23").net
        /\ ValueOf(xml, "P_13_2") = AmountsOf(breakdown, "8").net
        /\ ValueOf(xml, "P_13_3") = AmountsOf(breakdown, "5").net
        /\ ValueOf(xml, "P_14_1") = AmountsOf(breakdown, "23").vat
        /\ ValueOf(xml, "P_14_2") = AmountsOf(breakdown, "8").vat
        /\ ValueOf(xml, "P_14_3") = AmountsOf(breakdown, "5").vat
    BY <1>4, <1>8
  <2>2. QED
    BY <1>9, <2>1 DEF ParsedFa3Xml
<1>12. Totals(lines).vat = AmountsOf(breakdown, "23").vat + AmountsOf(breakdown, "8").vat
                           + AmountsOf(breakdown, "5").vat
  BY TotalsByRate DEF breakdown
<1>13. \A x, y, z \in Int : x + y + z + 0 + 0 + 0 = x + y + z
  OBVIOUS
<1>14. /\ AmountsOf(breakdown, "23").net \in Int /\ AmountsOf(breakdown, "8").net \in Int
       /\ AmountsOf(breakdown, "5").net \in Int
  BY <1>10 DEF Amounts
<1>15. QED
  BY <1>11, <1>12, <1>13, <1>14 DEF breakdown

\* The VAT that the XML counts for a rate, and the parts of that sum.
VatOfRate(line, r) == IF line.vatRate = r THEN TemplateVat(line) ELSE 0
VatParts(f, lines, r, n) ==
    f = [i \in 0 .. n |-> IF i = 0 THEN 0 ELSE f[i - 1] + VatOfRate(lines[i], r)]

\* The parts exist, whatever the lines.
LEMMA VatPartsExist == \A lines, r : \A n \in Nat : \E f : VatParts(f, lines, r, n)
<1> SUFFICES ASSUME NEW lines, NEW r
             PROVE  \A n \in Nat : \E f : VatParts(f, lines, r, n)
  OBVIOUS
<1> DEFINE S == {n \in Nat : \E f : VatParts(f, lines, r, n)}
<1>1. 0 \in S
  <2>1. VatParts([i \in 0 .. 0 |-> 0], lines, r, 0)
    BY DEF VatParts
  <2>2. QED
    BY <2>1
<1>2. ASSUME NEW n \in Nat, n \in S
      PROVE  n + 1 \in S
  <2>1. PICK f : VatParts(f, lines, r, n)
    BY <1>2
  <2> DEFINE g == [i \in 0 .. n + 1 |->
                      IF i = n + 1 THEN f[n] + VatOfRate(lines[n + 1], r) ELSE f[i]]
  <2>2. \A i \in 0 .. n + 1 : g[i] = IF i = 0 THEN 0 ELSE g[i - 1] + VatOfRate(lines[i], r)
    BY <2>1 DEF VatParts
  <2>3. VatParts(g, lines, r, n + 1)
    BY <2>2 DEF VatParts
  <2>4. QED
    BY <2>3
<1>3. Nat \subseteq S
  <2> HIDE DEF S
  <2>1. QED
    BY <1>1, <1>2, Induction
<1>4. QED
  BY <1>3

\* The first lines that are of a rate.
LinesOf(lines, r, i) == {k \in 1 .. i : lines[k].vatRate = r}

\* How many lines are of a rate, one line after another.
LEMMA CountingLines ==
  ASSUME NEW lines, NEW r
  PROVE  /\ IsFiniteSet(LinesOf(lines, r, 0)) /\ Cardinality(LinesOf(lines, r, 0)) = 0
         /\ \A i \in Nat :
               /\ lines[i + 1].vatRate # r => LinesOf(lines, r, i + 1) = LinesOf(lines, r, i)
               /\ lines[i + 1].vatRate = r /\ IsFiniteSet(LinesOf(lines, r, i)) =>
                    /\ IsFiniteSet(LinesOf(lines, r, i + 1))
                    /\ Cardinality(LinesOf(lines, r, i + 1)) = Cardinality(LinesOf(lines, r, i)) + 1
<1>1. LinesOf(lines, r, 0) = {}
  BY DEF LinesOf
<1>2. ASSUME NEW i \in Nat, lines[i + 1].vatRate # r
      PROVE  LinesOf(lines, r, i + 1) = LinesOf(lines, r, i)
  BY <1>2 DEF LinesOf
<1>3. ASSUME NEW i \in Nat, lines[i + 1].vatRate = r, IsFiniteSet(LinesOf(lines, r, i))
      PROVE  /\ IsFiniteSet(LinesOf(lines, r, i + 1))
             /\ Cardinality(LinesOf(lines, r, i + 1)) = Cardinality(LinesOf(lines, r, i)) + 1
  <2>1. /\ LinesOf(lines, r, i + 1) = LinesOf(lines, r, i) \cup {i + 1}
        /\ i + 1 \notin LinesOf(lines, r, i)
    BY <1>3 DEF LinesOf
  <2>2. QED
    BY <1>3, <2>1, FS_AddElement
<1>4. QED
  BY <1>1, <1>2, <1>3, FS_EmptySet

\* The VAT of a rate in the PDF is that of the invoice, or off by a grosz for each
\* line of the rate at most.
LEMMA PdfVatIsNear ==
  ASSUME NEW lines, AreLines(lines), NEW r \in RatesOf(lines)
  PROVE  LET pdf == TemplateBreakdown(lines)[r].vat
             vat == Breakdown(lines)[r].vat
             count == Cardinality({k \in DOMAIN lines : lines[k].vatRate = r})
         IN  /\ pdf \in Int /\ vat \in Int /\ count \in Nat
             /\ pdf - vat <= count /\ vat - pdf <= count
<1>0. \A j \in Nat :
         /\ lines[j + 1].vatRate # r => LinesOf(lines, r, j + 1) = LinesOf(lines, r, j)
         /\ lines[j + 1].vatRate = r /\ IsFiniteSet(LinesOf(lines, r, j)) =>
               /\ IsFiniteSet(LinesOf(lines, r, j + 1))
               /\ Cardinality(LinesOf(lines, r, j + 1)) = Cardinality(LinesOf(lines, r, j)) + 1
  BY CountingLines
<1> DEFINE N == Len(lines)
           v == CHOOSE v : VatParts(v, lines, r, N)
           amounts == OfRate(lines, r)
           count(i) == Cardinality(LinesOf(lines, r, i))
<1>1. N \in Nat /\ DOMAIN lines = 1 .. N
  BY LinesAreNumbered
<1>2. VatParts(v, lines, r, N)
  BY <1>1, VatPartsExist
<1>3. TemplateBreakdown(lines)[r].vat = v[N]
  BY DEF TemplateBreakdown, VatParts, VatOfRate
<1> HIDE DEF v
<1>4. v[0] = 0 /\ \A i \in 1 .. N : v[i] = v[i - 1] + VatOfRate(lines[i], r)
  BY <1>1, <1>2 DEF VatParts
<1>5. amounts \in Seq(Amounts) /\ Len(amounts) = N
  BY LineSequences
<1>6. PICK f \in [0 .. N -> Amounts] :
         /\ f[0] = Zero /\ \A i \in 1 .. N : f[i] = Plus(f[i - 1], amounts[i])
         /\ TotalAmounts(amounts) = f[N]
  <2> HIDE DEF amounts
  <2>1. QED
    BY <1>5, TotalSteps
<1>7. Breakdown(lines)[r].vat = f[N].vat
  BY <1>6 DEF Breakdown
<1>8. \A i \in 1 .. N : amounts[i] = IF lines[i].vatRate = r THEN LineTotals(lines[i]) ELSE Zero
  BY <1>1 DEF OfRate
<1> DEFINE Close(i) == /\ v[i] \in Int /\ f[i].vat \in Int
                       /\ IsFiniteSet(LinesOf(lines, r, i)) /\ count(i) \in Nat
                       /\ v[i] - f[i].vat <= count(i) /\ f[i].vat - v[i] <= count(i)
           S == {i \in Nat : i <= N => Close(i)}
<1>9. 0 \in S
  <2>2. IsFiniteSet(LinesOf(lines, r, 0)) /\ count(0) = 0
    BY CountingLines
  <2>3. v[0] = 0 /\ f[0].vat = 0
    BY <1>4, <1>6 DEF Zero
  <2>4. QED
    BY <2>2, <2>3
<1>10. ASSUME NEW i \in Nat, i \in S
       PROVE  i + 1 \in S
  <2> SUFFICES ASSUME i + 1 <= N
               PROVE  Close(i + 1)
    OBVIOUS
  <2> DEFINE line == lines[i + 1]
  <2>1. Close(i) /\ i \in 0 .. N /\ i + 1 \in 1 .. N /\ (i + 1) - 1 = i
    BY <1>1, <1>10
  <2>2. IsLine(line)
    BY <1>1, <2>1 DEF AreLines
  <2>3. v[i + 1] = v[i] + VatOfRate(line, r)
    BY <1>4, <2>1
  <2>4. f[i + 1].vat = f[i].vat + amounts[i + 1].vat
    <3> HIDE DEF amounts
    <3>1. QED
      <4>1. f[i + 1] = Plus(f[i], amounts[i + 1])
        BY <1>6, <2>1
      <4>2. QED
        BY <4>1 DEF Plus
  <2>5. IsFiniteSet(LinesOf(lines, r, i))
    BY <2>1
  <2>6. CASE line.vatRate = r
    <3> DEFINE x == v[i]
               y == f[i].vat
               c == count(i)
               t == TemplateVat(line)
               w == Vat(line)
    <3>1. VatOfRate(line, r) = t /\ amounts[i + 1].vat = w
      BY <1>8, <2>1, <2>2, <2>6, LineType DEF VatOfRate
    <3>2. t \in Int /\ w \in Int /\ t - w <= 1 /\ w - t <= 1
      BY <2>2, TemplateVatIsNear, TemplateVatType, VatOfLine
    <3>3. IsFiniteSet(LinesOf(lines, r, i + 1)) /\ count(i + 1) = c + 1
      BY <1>0, <2>5, <2>6
    <3>4. x \in Int /\ y \in Int /\ c \in Nat /\ x - y <= c /\ y - x <= c
      BY <2>1
    <3>5. v[i + 1] = x + t /\ f[i + 1].vat = y + w
      BY <2>3, <2>4, <3>1
    <3>6. /\ x + t \in Int /\ y + w \in Int /\ c + 1 \in Nat
          /\ (x + t) - (y + w) <= c + 1 /\ (y + w) - (x + t) <= c + 1
      <4> HIDE DEF x, y, c, t, w
      <4>1. QED
        BY <3>2, <3>4
    <3> HIDE DEF x, y, c, t, w
    <3>7. QED
      BY <3>3, <3>5, <3>6
  <2>7. CASE line.vatRate # r
    <3>1. VatOfRate(line, r) = 0 /\ amounts[i + 1].vat = 0
      BY <1>8, <2>1, <2>7 DEF VatOfRate, Zero
    <3>2. LinesOf(lines, r, i + 1) = LinesOf(lines, r, i)
      BY <1>0, <2>7
    <3>3. v[i] + 0 = v[i] /\ f[i].vat + 0 = f[i].vat
      BY <2>1
    <3>4. v[i + 1] = v[i] /\ f[i + 1].vat = f[i].vat
      BY <2>3, <2>4, <3>1, <3>3
    <3>5. QED
      BY <2>1, <3>2, <3>4
  <2>8. QED
    BY <2>6, <2>7
<1>11. Nat \subseteq S
  <2> HIDE DEF S
  <2>1. QED
    BY <1>9, <1>10, Induction
<1>12. Close(N)
  BY <1>1, <1>11
<1>13. LinesOf(lines, r, N) = {k \in DOMAIN lines : lines[k].vatRate = r}
  BY <1>1 DEF LinesOf
<1>14. QED
  BY <1>3, <1>7, <1>12, <1>13

-----------------------------------------------------------------------------
(***************************************************************************)
(* Amounts in words.                                                       *)
(***************************************************************************)
\* How words are read, one after another.
ReadParts(f, words, n) ==
    f = [i \in 0 .. n |-> IF i = 0 THEN [total |-> 0, group |-> 0] ELSE Read(f[i - 1], words[i])]

\* Words can be read, as many as there are.
LEMMA ReadPartsExist == \A words : \A n \in Nat : \E f : ReadParts(f, words, n)
<1> SUFFICES ASSUME NEW words
             PROVE  \A n \in Nat : \E f : ReadParts(f, words, n)
  OBVIOUS
<1> DEFINE S == {n \in Nat : \E f : ReadParts(f, words, n)}
<1>1. 0 \in S
  <2>1. ReadParts([i \in 0 .. 0 |-> [total |-> 0, group |-> 0]], words, 0)
    BY DEF ReadParts
  <2>2. QED
    BY <2>1
<1>2. ASSUME NEW n \in Nat, n \in S
      PROVE  n + 1 \in S
  <2>1. PICK f : ReadParts(f, words, n)
    BY <1>2
  <2> DEFINE g == [i \in 0 .. n + 1 |-> IF i = n + 1 THEN Read(f[n], words[n + 1]) ELSE f[i]]
  <2>2. \A i \in 0 .. n + 1 :
           g[i] = IF i = 0 THEN [total |-> 0, group |-> 0] ELSE Read(g[i - 1], words[i])
    BY <2>1 DEF ReadParts
  <2>3. ReadParts(g, words, n + 1)
    BY <2>2 DEF ReadParts
  <2>4. QED
    BY <2>3
<1>3. Nat \subseteq S
  <2> HIDE DEF S
  <2>1. QED
    BY <1>1, <1>2, Induction
<1>4. QED
  BY <1>3

StartsAs(a, b, n) == \A i \in 1 .. n : a[i] = b[i]

\* What was read so far depends on the words read so far.
LEMMA ReadPartsAgree ==
  ASSUME NEW a, NEW b, NEW f, NEW g, NEW n \in Nat, NEW m \in Nat, n <= m,
         ReadParts(f, a, n), ReadParts(g, b, m), StartsAs(a, b, n)
  PROVE  f[n] = g[n]
<1> DEFINE S == {i \in Nat : i <= n => f[i] = g[i]}
<1>1. 0 \in S
  BY DEF ReadParts
<1>2. ASSUME NEW i \in Nat, i \in S
      PROVE  i + 1 \in S
  <2> SUFFICES ASSUME i + 1 <= n
               PROVE  f[i + 1] = g[i + 1]
    OBVIOUS
  <2>1. /\ f[i] = g[i] /\ i + 1 \in 0 .. n /\ i + 1 \in 0 .. m /\ i + 1 \in 1 .. n
        /\ i + 1 # 0 /\ (i + 1) - 1 = i
    BY <1>2
  <2>2. f[i + 1] = Read(f[i], a[i + 1]) /\ g[i + 1] = Read(g[i], b[i + 1])
    BY <2>1 DEF ReadParts
  <2>3. a[i + 1] = b[i + 1]
    BY <2>1 DEF StartsAs
  <2>4. QED
    BY <2>1, <2>2, <2>3
<1>3. Nat \subseteq S
  <2> HIDE DEF S
  <2>1. QED
    BY <1>1, <1>2, Induction
<1>4. QED
  BY <1>3

\* What the words say up to their end.
Reading(words) == (CHOOSE f : ReadParts(f, words, Len(words)))[Len(words)]

\* The number of words is what was read.
LEMMA NumberIsRead == \A words : NumberOf(words) = Reading(words).total + Reading(words).group
BY DEF NumberOf, Reading, ReadParts

\* Words, and what was read of them: `total`, and a group that has no noun yet.
Nouns == {"liczba", "tysiac", "milion"}
Words == Seq(Nouns \X Nat)
Said(total, group) == [total |-> total, group |-> group]

\* Of no words nothing is read.
LEMMA NothingRead == Reading(<<>>) = Said(0, 0)
<1> DEFINE f == CHOOSE f : ReadParts(f, <<>>, 0)
<1>1. ReadParts(f, <<>>, 0)
  BY ReadPartsExist
<1>2. f[0] = Said(0, 0)
  <2> HIDE DEF f
  <2>1. QED
    BY <1>1 DEF ReadParts, Said
<1>3. Len(<<>>) = 0
  OBVIOUS
<1>4. QED
  BY <1>2, <1>3 DEF Reading

\* One word more is read after those before it.
LEMMA ReadMore ==
  ASSUME NEW words \in Words, NEW word \in Nouns \X Nat
  PROVE  words \o <<word>> \in Words /\ Reading(words \o <<word>>) = Read(Reading(words), word)
<1> DEFINE n == Len(words)
           longer == words \o <<word>>
           f == CHOOSE f : ReadParts(f, words, n)
           g == CHOOSE g : ReadParts(g, longer, n + 1)
<1>1. /\ n \in Nat /\ longer \in Words /\ Len(longer) = n + 1 /\ longer[n + 1] = word
      /\ \A i \in 1 .. n : words[i] = longer[i]
  BY DEF Words
<1>2. ReadParts(f, words, n)
  BY <1>1, ReadPartsExist
<1>3. ReadParts(g, longer, n + 1)
  <2>1. \E h : ReadParts(h, longer, n + 1)
    <3> HIDE DEF longer, n
    <3>1. n + 1 \in Nat
      BY <1>1
    <3>2. \A m \in Nat : \E h : ReadParts(h, longer, m)
      BY ReadPartsExist
    <3>3. QED
      BY <3>1, <3>2
  <2>2. QED
    BY <2>1
<1> HIDE DEF f, g
<1>4. f[n] = g[n]
  <2> DEFINE m == n + 1
  <2>1. n <= m /\ m \in Nat /\ n \in Nat
    BY <1>1
  <2>2. ReadParts(g, longer, m) /\ StartsAs(words, longer, n)
    BY <1>1, <1>3 DEF StartsAs
  <2> HIDE DEF longer, n, m
  <2>3. QED
    BY <1>2, <2>1, <2>2, ReadPartsAgree
<1>5. g[n + 1] = Read(g[n], longer[n + 1])
  <2> HIDE DEF longer, n
  <2>1. n + 1 \in 0 .. n + 1 /\ n + 1 # 0 /\ (n + 1) - 1 = n
    BY <1>1
  <2>2. QED
    BY <1>3, <2>1 DEF ReadParts
<1>6. Reading(words) = f[n] /\ Reading(longer) = g[n + 1]
  BY <1>1 DEF Reading, f, g
<1>7. QED
  BY <1>1, <1>4, <1>5, <1>6

\* Words that add a number to the group that is being read.
Adds(more, n) ==
    \A words \in Words, t, g \in Nat :
       Reading(words) = Said(t, g) =>
          words \o more \in Words /\ Reading(words \o more) = Said(t, g + n)

\* A word of a number adds it.
LEMMA WordAdds == \A n \in Nat : Adds(Word(n), n) /\ Adds(WordIf(n), n)
<1> SUFFICES ASSUME NEW n \in Nat
             PROVE  Adds(Word(n), n) /\ Adds(WordIf(n), n)
  OBVIOUS
<1>1. Adds(Word(n), n)
  <2> SUFFICES ASSUME NEW words \in Words, NEW t \in Nat, NEW g \in Nat,
                      Reading(words) = Said(t, g)
               PROVE  words \o Word(n) \in Words /\ Reading(words \o Word(n)) = Said(t, g + n)
    BY DEF Adds
  <2>1. <<"liczba", n>> \in Nouns \X Nat
    BY DEF Nouns
  <2>2. /\ words \o << <<"liczba", n>> >> \in Words
        /\ Reading(words \o << <<"liczba", n>> >>) = Read(Said(t, g), <<"liczba", n>>)
    BY <2>1, ReadMore
  <2>3. Read(Said(t, g), <<"liczba", n>>) = Said(t, g + n)
    BY DEF Read, Said
  <2>4. QED
    BY <2>2, <2>3 DEF Word
<1>2. Adds(<<>>, 0)
  <2> SUFFICES ASSUME NEW words \in Words, NEW t \in Nat, NEW g \in Nat,
                      Reading(words) = Said(t, g)
               PROVE  words \o <<>> \in Words /\ Reading(words \o <<>>) = Said(t, g + 0)
    BY DEF Adds
  <2>1. words \o <<>> = words /\ g + 0 = g
    BY DEF Words
  <2>2. QED
    BY <2>1
<1>3. QED
  BY <1>1, <1>2 DEF WordIf

\* A noun ends the group.
LEMMA ReadNoun ==
  \A words \in Words, t, g, form \in Nat :
     Reading(words) = Said(t, g) =>
        /\ words \o Noun("tysiac", form) \in Words
        /\ Reading(words \o Noun("tysiac", form)) = Said(t + 1000 * (IF g = 0 THEN 1 ELSE g), 0)
        /\ words \o Noun("milion", form) \in Words
        /\ Reading(words \o Noun("milion", form)) = Said(t + 1000000 * g, 0)
<1> SUFFICES ASSUME NEW words \in Words, NEW t \in Nat, NEW g \in Nat, NEW form \in Nat,
                    Reading(words) = Said(t, g)
             PROVE  /\ words \o Noun("tysiac", form) \in Words
                    /\ Reading(words \o Noun("tysiac", form))
                          = Said(t + 1000 * (IF g = 0 THEN 1 ELSE g), 0)
                    /\ words \o Noun("milion", form) \in Words
                    /\ Reading(words \o Noun("milion", form)) = Said(t + 1000000 * g, 0)
  OBVIOUS
<1>1. <<"tysiac", form>> \in Nouns \X Nat /\ <<"milion", form>> \in Nouns \X Nat
  BY DEF Nouns
<1>2. /\ words \o << <<"tysiac", form>> >> \in Words
      /\ Reading(words \o << <<"tysiac", form>> >>) = Read(Said(t, g), <<"tysiac", form>>)
  BY <1>1, ReadMore
<1>3. /\ words \o << <<"milion", form>> >> \in Words
      /\ Reading(words \o << <<"milion", form>> >>) = Read(Said(t, g), <<"milion", form>>)
  BY <1>1, ReadMore
<1>4. /\ Read(Said(t, g), <<"tysiac", form>>) = Said(t + 1000 * (IF g = 0 THEN 1 ELSE g), 0)
      /\ Read(Said(t, g), <<"milion", form>>) = Said(t + 1000000 * g, 0)
  BY DEF Read, Said
<1>5. QED
  BY <1>2, <1>3, <1>4 DEF Noun

\* Words are put together in any grouping.
LEMMA Grouping ==
  \A a, b, c \in Words : a \o (b \o c) = (a \o b) \o c /\ a \o b \in Words
<1> SUFFICES ASSUME NEW a \in Words, NEW b \in Words, NEW c \in Words
             PROVE  a \o (b \o c) = (a \o b) \o c /\ a \o b \in Words
  OBVIOUS
<1>1. a \in Seq(Nouns \X Nat) /\ b \in Seq(Nouns \X Nat) /\ c \in Seq(Nouns \X Nat)
  BY DEF Words
<1>2. a \o b \in Words
  BY <1>1 DEF Words
<1>3. a \o (b \o c) = (a \o b) \o c
  <2> DEFINE left == a \o (b \o c)
             right == (a \o b) \o c
  <2>1. /\ left \in Seq(Nouns \X Nat) /\ right \in Seq(Nouns \X Nat)
        /\ b \o c \in Seq(Nouns \X Nat) /\ a \o b \in Seq(Nouns \X Nat)
    BY <1>1
  <2>2. Len(left) = Len(right)
    BY <1>1, <2>1
  <2>3. \A k \in 1 .. Len(left) : left[k] = right[k]
    BY <1>1, <2>1, <2>2
  <2> HIDE DEF left, right
  <2>4. left = right
    <3>1. left = [k \in 1 .. Len(left) |-> left[k]] /\ right = [k \in 1 .. Len(right) |-> right[k]]
      BY <2>1
    <3>2. QED
      BY <2>2, <2>3, <3>1
  <2>5. QED
    BY <2>4 DEF left, right
<1>4. QED
  BY <1>2, <1>3

\* What integerToWords puts together is words.
LEMMA WordTypes ==
  \A n \in Nat : Word(n) \in Words /\ WordIf(n) \in Words /\ ThreeDigitsToWords(n) \in Words
<1>1. ASSUME NEW n \in Nat
      PROVE  Word(n) \in Words /\ WordIf(n) \in Words
  <2>1. <<"liczba", n>> \in Nouns \X Nat
    BY DEF Nouns
  <2>2. << <<"liczba", n>> >> \in Words /\ <<>> \in Words
    BY <2>1 DEF Words
  <2>3. QED
    BY <2>2 DEF Word, WordIf
<1>2. ASSUME NEW n \in Nat
      PROVE  ThreeDigitsToWords(n) \in Words
  <2>1. n - (n % 100) \in Nat /\ n % 100 \in Nat /\ n % 10 \in Nat /\ (n % 100) - (n % 10) \in Nat
    OBVIOUS
  <2>2. <<>> \in Words
    BY DEF Words
  <2>3. QED
    BY <1>1, <2>1, <2>2, Grouping DEF ThreeDigitsToWords
<1>3. QED
  BY <1>1, <1>2

\* Words that follow one another add what each of them adds.
LEMMA AddTogether ==
  ASSUME NEW a \in Words, NEW b \in Words, NEW m \in Nat, NEW n \in Nat, Adds(a, m), Adds(b, n)
  PROVE  Adds(a \o b, m + n)
<1> SUFFICES ASSUME NEW words \in Words, NEW t \in Nat, NEW g \in Nat,
                    Reading(words) = Said(t, g)
             PROVE  /\ words \o (a \o b) \in Words
                    /\ Reading(words \o (a \o b)) = Said(t, g + (m + n))
  BY DEF Adds
<1> DEFINE w == words \o a
           h == g + m
<1>1. w \in Words /\ Reading(w) = Said(t, h) /\ h \in Nat
  BY DEF Adds
<1>2. words \o (a \o b) = w \o b
  BY Grouping
<1>3. h + n = g + (m + n)
  OBVIOUS
<1> HIDE DEF w, h
<1>4. w \o b \in Words /\ Reading(w \o b) = Said(t, h + n)
  BY <1>1 DEF Adds
<1>5. QED
  BY <1>2, <1>3, <1>4

\* Three digits in words are the number.
LEMMA ThreeDigitsAdd == \A n \in Nat : n < 1000 => Adds(ThreeDigitsToWords(n), n)
<1> SUFFICES ASSUME NEW n \in Nat, n < 1000
             PROVE  Adds(ThreeDigitsToWords(n), n)
  OBVIOUS
<1> DEFINE h == n - (n % 100)
           d == (n % 100) - (n % 10)
           u == n % 10
           tens == n % 100
<1>1. h \in Nat /\ d \in Nat /\ u \in Nat /\ tens \in Nat
  OBVIOUS
<1>2. h + tens = n /\ d + u = tens
  OBVIOUS
<1>3. /\ (n % 100) \div 10 = 1 => ThreeDigitsToWords(n) = WordIf(h) \o Word(tens)
      /\ (n % 100) \div 10 # 1 => ThreeDigitsToWords(n) = WordIf(h) \o (WordIf(d) \o WordIf(u))
  BY <1>1 DEF ThreeDigitsToWords
<1> HIDE DEF h, d, u, tens
<1>4. /\ WordIf(h) \in Words /\ WordIf(d) \in Words /\ WordIf(u) \in Words
      /\ Word(tens) \in Words /\ WordIf(d) \o WordIf(u) \in Words
  BY <1>1, WordTypes, Grouping
<1>5. Adds(WordIf(h), h) /\ Adds(WordIf(d), d) /\ Adds(WordIf(u), u) /\ Adds(Word(tens), tens)
  BY <1>1, WordAdds
<1>6. Adds(WordIf(h) \o Word(tens), n)
  <2>1. Adds(WordIf(h) \o Word(tens), h + tens)
    BY <1>1, <1>4, <1>5, AddTogether
  <2>2. QED
    BY <1>2, <2>1
<1>7. Adds(WordIf(d) \o WordIf(u), tens)
  <2>1. Adds(WordIf(d) \o WordIf(u), d + u)
    BY <1>1, <1>4, <1>5, AddTogether
  <2>2. QED
    BY <1>2, <2>1
<1>8. Adds(WordIf(h) \o (WordIf(d) \o WordIf(u)), n)
  <2> DEFINE low == WordIf(d) \o WordIf(u)
  <2>1. low \in Words /\ Adds(low, tens)
    BY <1>4, <1>7
  <2> HIDE DEF low
  <2>2. Adds(WordIf(h) \o low, h + tens)
    BY <1>1, <1>4, <1>5, <2>1, AddTogether
  <2>3. QED
    BY <1>2, <2>2 DEF low
<1>9. QED
  BY <1>3, <1>6, <1>8

\* The noun for thousands, wherever it is among the words, has one form.
ThousandsHave(words, form) ==
    \A k \in DOMAIN words : words[k][1] = "tysiac" => words[k][2] = form

\* The form of `thousand` is right in what is put together of right parts.
LEMMA FormsTogether ==
  \A a, b \in Words, form \in Nat :
     ThousandsHave(a, form) /\ ThousandsHave(b, form) => ThousandsHave(a \o b, form)
<1> SUFFICES ASSUME NEW a \in Words, NEW b \in Words, NEW form \in Nat, ThousandsHave(a, form),
                    ThousandsHave(b, form), NEW k \in DOMAIN (a \o b), (a \o b)[k][1] = "tysiac"
             PROVE  (a \o b)[k][2] = form
  BY DEF ThousandsHave
<1>1. CASE k <= Len(a)
  <2>1. k \in DOMAIN a /\ (a \o b)[k] = a[k]
    BY <1>1 DEF Words
  <2>2. QED
    BY <2>1 DEF ThousandsHave
<1>2. CASE ~ (k <= Len(a))
  <2>1. k - Len(a) \in DOMAIN b /\ (a \o b)[k] = b[k - Len(a)]
    BY <1>2 DEF Words
  <2>2. QED
    BY <2>1 DEF ThousandsHave
<1>3. QED
  BY <1>1, <1>2 DEF Words

\* Words of numbers have no form.
LEMMA NumbersHaveNoForm ==
  \A n \in Nat, form \in Nat :
     /\ ThousandsHave(Word(n), form) /\ ThousandsHave(WordIf(n), form)
     /\ ThousandsHave(<<>>, form) /\ ThousandsHave(ThreeDigitsToWords(n), form)
<1>1. ASSUME NEW n \in Nat, NEW form \in Nat
      PROVE  /\ ThousandsHave(Word(n), form) /\ ThousandsHave(WordIf(n), form)
             /\ ThousandsHave(<<>>, form)
  BY DEF ThousandsHave, Word, WordIf
<1>2. ASSUME NEW n \in Nat, NEW form \in Nat
      PROVE  ThousandsHave(ThreeDigitsToWords(n), form)
  <2> DEFINE h == n - (n % 100)
             d == (n % 100) - (n % 10)
             u == n % 10
             tens == n % 100
             high == IF n < 1000 THEN WordIf(h) ELSE <<>>
             low == IF tens \div 10 = 1 THEN Word(tens) ELSE WordIf(d) \o WordIf(u)
  <2>1. h \in Nat /\ d \in Nat /\ u \in Nat /\ tens \in Nat
    OBVIOUS
  <2>2. ThreeDigitsToWords(n) = high \o low
    BY DEF ThreeDigitsToWords
  <2> HIDE DEF h, d, u, tens
  <2>3. high \in Words /\ ThousandsHave(high, form)
    <3>1. WordIf(h) \in Words /\ ThousandsHave(WordIf(h), form)
      BY <1>1, <2>1, WordTypes
    <3>2. <<>> \in Words /\ ThousandsHave(<<>>, form)
      BY <1>1 DEF Words
    <3>3. QED
      BY <3>1, <3>2
  <2>4. low \in Words /\ ThousandsHave(low, form)
    <3>1. /\ WordIf(d) \in Words /\ WordIf(u) \in Words
          /\ ThousandsHave(WordIf(d), form) /\ ThousandsHave(WordIf(u), form)
      BY <1>1, <2>1, WordTypes
    <3>2. WordIf(d) \o WordIf(u) \in Words /\ ThousandsHave(WordIf(d) \o WordIf(u), form)
      BY <3>1, Grouping, FormsTogether
    <3>3. Word(tens) \in Words /\ ThousandsHave(Word(tens), form)
      BY <1>1, <2>1, WordTypes
    <3>4. QED
      BY <3>2, <3>3
  <2> HIDE DEF high, low
  <2>5. QED
    BY <2>2, <2>3, <2>4, FormsTogether
<1>3. QED
  BY <1>1, <1>2

\* The form of nouns in the code is that of the grammar.
LEMMA FormsOfNouns == \A n \in Nat : SelectForm(n) = FormAfter(n) /\ SelectForm(n) \in Nat
<1> SUFFICES ASSUME NEW n \in Nat
             PROVE  SelectForm(n) = FormAfter(n) /\ SelectForm(n) \in Nat
  OBVIOUS
<1> DEFINE r == n % 100
<1>1. r \in 0 .. 99 /\ n % 10 = r % 10 /\ r % 10 \in 0 .. 9
  OBVIOUS
<1> HIDE DEF r
<1>2. r \in 12 .. 19 => (r \in {12, 13, 14} <=> r % 10 \in {2, 3, 4})
  BY <1>1
<1>3. n % 100 = r
  BY DEF r
<1>4. QED
  BY <1>1, <1>2, <1>3 DEF SelectForm, FormAfter

\* What is read after a noun is a new group.
LEMMA AddedToNothing ==
  \A words, more \in Words, t, n \in Nat :
     Reading(words) = Said(t, 0) /\ Adds(more, n) =>
        words \o more \in Words /\ Reading(words \o more) = Said(t, n)
<1> SUFFICES ASSUME NEW words \in Words, NEW more \in Words, NEW t \in Nat, NEW n \in Nat,
                    NEW g, g = 0, Reading(words) = Said(t, g), Adds(more, n)
             PROVE  words \o more \in Words /\ Reading(words \o more) = Said(t, n)
  OBVIOUS
<1>1. g \in Nat /\ g + n = n
  OBVIOUS
<1>2. words \o more \in Words /\ Reading(words \o more) = Said(t, g + n)
  BY <1>1 DEF Adds
<1>3. QED
  BY <1>1, <1>2

\* Nouns are words, and have their form.
LEMMA NounTypes ==
  \A form, n \in Nat :
     /\ Noun("tysiac", form) \in Words /\ Noun("milion", form) \in Words
     /\ ThousandsHave(Noun("tysiac", form), form) /\ ThousandsHave(Noun("milion", form), n)
<1> SUFFICES ASSUME NEW form \in Nat, NEW n \in Nat
             PROVE  /\ Noun("tysiac", form) \in Words /\ Noun("milion", form) \in Words
                    /\ ThousandsHave(Noun("tysiac", form), form)
                    /\ ThousandsHave(Noun("milion", form), n)
  OBVIOUS
<1>1. <<"tysiac", form>> \in Nouns \X Nat /\ <<"milion", form>> \in Nouns \X Nat
  BY DEF Nouns
<1>2. QED
  BY <1>1 DEF Noun, Words, ThousandsHave

\* A number of thousands or millions.
Counted(n, noun) == ThreeDigitsToWords(n) \o Noun(noun, SelectForm(n))

\* Zero is a word of its own.
LEMMA ZeroIsRead == NumberOf(Word(0)) = 0
<1> DEFINE none == <<>>
           word == Word(0)
<1>1. none \in Words /\ Reading(none) = Said(0, 0)
  BY NothingRead DEF Words
<1>2. word \in Words /\ Adds(word, 0)
  BY WordTypes, WordAdds
<1>3. none \o word = word
  BY <1>2 DEF Words
<1> HIDE DEF none, word
<1>4. none \o word \in Words /\ Reading(none \o word) = Said(0, 0)
  BY <1>1, <1>2, AddedToNothing
<1>5. Reading(word) = Said(0, 0)
  BY <1>3, <1>4
<1>6. NumberOf(word) = 0
  BY <1>5, NumberIsRead DEF Said
<1>7. QED
  BY <1>6 DEF word

\* What is counted in thousands and millions is read as that.
LEMMA CountedIsRead ==
  \A words \in Words, t, n \in Nat :
     Reading(words) = Said(t, 0) /\ 0 < n /\ n < 1000 =>
        /\ words \o Counted(n, "tysiac") \in Words
        /\ Reading(words \o Counted(n, "tysiac")) = Said(t + 1000 * n, 0)
        /\ words \o Counted(n, "milion") \in Words
        /\ Reading(words \o Counted(n, "milion")) = Said(t + 1000000 * n, 0)
<1> SUFFICES ASSUME NEW words \in Words, NEW t \in Nat, Reading(words) = Said(t, 0),
                    NEW n \in Nat, 0 < n, n < 1000
             PROVE  /\ words \o Counted(n, "tysiac") \in Words
                    /\ Reading(words \o Counted(n, "tysiac")) = Said(t + 1000 * n, 0)
                    /\ words \o Counted(n, "milion") \in Words
                    /\ Reading(words \o Counted(n, "milion")) = Said(t + 1000000 * n, 0)
  OBVIOUS
<1> DEFINE d == ThreeDigitsToWords(n)
           x == Noun("tysiac", SelectForm(n))
           y == Noun("milion", SelectForm(n))
           w == words \o d
<1>1. d \in Words /\ x \in Words /\ y \in Words
  BY WordTypes, NounTypes, FormsOfNouns
<1>2. Adds(d, n)
  BY ThreeDigitsAdd
<1>3. w \in Words /\ Reading(w) = Said(t, n)
  <2> HIDE DEF d
  <2>1. QED
    BY <1>1, <1>2, AddedToNothing
<1>4. words \o (d \o x) = w \o x /\ words \o (d \o y) = w \o y
  <2>1. d \in Words
    BY <1>1
  <2> HIDE DEF d
  <2>2. \A more \in Words : words \o (d \o more) = (words \o d) \o more
    BY <2>1, Grouping
  <2>3. QED
    BY <1>1, <2>2
<1>5. Counted(n, "tysiac") = d \o x /\ Counted(n, "milion") = d \o y
  BY DEF Counted
<1> HIDE DEF d, w
<1>6. /\ w \o x \in Words
      /\ Reading(w \o x) = Said(t + 1000 * (IF n = 0 THEN 1 ELSE n), 0)
      /\ w \o y \in Words /\ Reading(w \o y) = Said(t + 1000000 * n, 0)
  BY <1>3, FormsOfNouns, ReadNoun
<1>7. (IF n = 0 THEN 1 ELSE n) = n
  OBVIOUS
<1>8. QED
  <2> DEFINE i == t + 1000 * n
             j == t + 1000000 * n
             p == w \o x
             q == w \o y
  <2>1. /\ p \in Words /\ Reading(p) = Said(i, 0)
        /\ q \in Words /\ Reading(q) = Said(j, 0)
    BY <1>6, <1>7
  <2>2. words \o Counted(n, "tysiac") = p /\ words \o Counted(n, "milion") = q
    BY <1>4, <1>5
  <2> HIDE DEF i, j, p, q
  <2>3. /\ words \o Counted(n, "tysiac") \in Words
        /\ Reading(words \o Counted(n, "tysiac")) = Said(i, 0)
        /\ words \o Counted(n, "milion") \in Words
        /\ Reading(words \o Counted(n, "milion")) = Said(j, 0)
    BY <2>1, <2>2
  <2>4. QED
    BY <2>3 DEF i, j

\* One thousand is said without its number.
LEMMA ThousandIsRead ==
  \A words \in Words, t \in Nat :
     Reading(words) = Said(t, 0) =>
        /\ words \o Noun("tysiac", 1) \in Words
        /\ Reading(words \o Noun("tysiac", 1)) = Said(t + 1000, 0)
<1> SUFFICES ASSUME NEW words \in Words, NEW t \in Nat, NEW g, g = 0, NEW form, form = 1,
                    Reading(words) = Said(t, g)
             PROVE  /\ words \o Noun("tysiac", form) \in Words
                    /\ Reading(words \o Noun("tysiac", form)) = Said(t + 1000, 0)
  OBVIOUS
<1>1. g \in Nat /\ form \in Nat
  OBVIOUS
<1>2. /\ words \o Noun("tysiac", form) \in Words
      /\ Reading(words \o Noun("tysiac", form)) = Said(t + 1000 * (IF g = 0 THEN 1 ELSE g), 0)
  BY <1>1, ReadNoun
<1>3. t + 1000 * (IF g = 0 THEN 1 ELSE g) = t + 1000
  OBVIOUS
<1>4. QED
  BY <1>2, <1>3

\* The parts of integerToWords.
Millions(n) == IF n = 0 THEN <<>> ELSE Counted(n, "milion")
Thousands(n) ==
    IF n = 0 THEN <<>> ELSE IF n = 1 THEN Noun("tysiac", 1) ELSE Counted(n, "tysiac")

\* The form of a noun is that of its number.
LEMMA NounsHaveForms ==
  \A n \in Nat \ {0}, form \in Nat :
     /\ Counted(n, "milion") \in Words /\ Counted(n, "tysiac") \in Words
     /\ ThousandsHave(Counted(n, "milion"), form)
     /\ ThousandsHave(Counted(n, "tysiac"), FormAfter(n))
<1> SUFFICES ASSUME NEW n \in Nat \ {0}, NEW form \in Nat
             PROVE  /\ Counted(n, "milion") \in Words /\ Counted(n, "tysiac") \in Words
                    /\ ThousandsHave(Counted(n, "milion"), form)
                    /\ ThousandsHave(Counted(n, "tysiac"), FormAfter(n))
  OBVIOUS
<1> DEFINE d == ThreeDigitsToWords(n)
           x == Noun("tysiac", SelectForm(n))
           y == Noun("milion", SelectForm(n))
<1>1. d \in Words /\ ThousandsHave(d, form) /\ ThousandsHave(d, FormAfter(n))
  BY FormsOfNouns, WordTypes, NumbersHaveNoForm
<1>2. x \in Words /\ y \in Words
  BY FormsOfNouns, NounTypes
<1>3. ThousandsHave(x, FormAfter(n)) /\ ThousandsHave(y, form) /\ FormAfter(n) \in Nat
  BY FormsOfNouns, NounTypes
<1>4. Counted(n, "tysiac") = d \o x /\ Counted(n, "milion") = d \o y
  BY DEF Counted
<1> HIDE DEF d, x, y
<1>5. ThousandsHave(d \o x, FormAfter(n)) /\ ThousandsHave(d \o y, form)
  BY <1>1, <1>2, <1>3, FormsTogether
<1>6. d \o x \in Words /\ d \o y \in Words
  BY <1>1, <1>2, Grouping
<1>7. QED
  BY <1>4, <1>5, <1>6

\* The words for a number below a thousand million say it, and in correct Polish.
LEMMA WordsSayTheNumber ==
  \A z \in Nat : z < WordsEnd =>
     /\ NumberOf(IntegerToWords(z)) = z
     /\ ThousandsHave(IntegerToWords(z), FormAfter(z \div 1000 % 1000))
<1> SUFFICES ASSUME NEW z \in Nat, z < WordsEnd
             PROVE  /\ NumberOf(IntegerToWords(z)) = z
                    /\ ThousandsHave(IntegerToWords(z), FormAfter(z \div 1000 % 1000))
  OBVIOUS
<1> DEFINE m == z \div 1000000
           k == (z % 1000000) \div 1000
           r == z % 1000
           form == FormAfter(k)
           a == Millions(m)
           b == Thousands(k)
           c == ThreeDigitsToWords(r)
           words == (a \o b) \o c
<1>0. form \in Nat
  BY DEF FormAfter
<1>1. /\ m \in Nat /\ m < 1000 /\ k \in Nat /\ k < 1000 /\ r \in Nat /\ r < 1000
      /\ k = z \div 1000 % 1000 /\ z = 1000000 * m + 1000 * k + r
  BY DEF WordsEnd
<1>2. IntegerToWords(z) = IF z = 0 THEN Word(0) ELSE words
  BY DEF IntegerToWords, Millions, Thousands, Counted
<1> HIDE DEF m, k, r
<1>3. <<>> \in Words /\ Reading(<<>>) = Said(0, 0) /\ ThousandsHave(<<>>, form)
  <2>1. <<>> \in Words
    BY DEF Words
  <2>2. QED
    BY <1>0, <2>1, NothingRead, NumbersHaveNoForm
<1>4. a \in Words /\ Reading(a) = Said(1000000 * m, 0) /\ ThousandsHave(a, form)
  <2>1. CASE m = 0
    <3>1. a = <<>> /\ 1000000 * m = 0
      BY <2>1 DEF Millions
    <3>2. QED
      BY <1>3, <3>1
  <2>2. CASE m # 0
    <3> DEFINE u == Counted(m, "milion")
    <3>1. 0 < m /\ m < 1000 /\ m \in Nat \ {0} /\ form \in Nat
      BY <1>1, <2>2 DEF FormAfter
    <3>2. a = u
      BY <2>2 DEF Millions
    <3>3. u \in Words /\ ThousandsHave(u, form)
      BY <3>1, <3>2, NounsHaveForms
    <3>4. <<>> \o u \in Words /\ Reading(<<>> \o u) = Said(0 + 1000000 * m, 0)
      <4> DEFINE none == <<>>
      <4>1. none \in Words /\ Reading(none) = Said(0, 0) /\ 0 \in Nat
        BY <1>3
      <4> HIDE DEF none
      <4>2. none \o u \in Words /\ Reading(none \o u) = Said(0 + 1000000 * m, 0)
        BY <3>1, <4>1, CountedIsRead
      <4>3. QED
        BY <4>2 DEF none
    <3> HIDE DEF u
    <3>5. <<>> \o u = u
      BY <3>3 DEF Words
    <3>6. 0 + 1000000 * m = 1000000 * m
      BY <1>1
    <3>7. QED
      BY <3>2, <3>3, <3>4, <3>5, <3>6
  <2>3. QED
    BY <2>1, <2>2
<1>5. /\ b \in Words /\ ThousandsHave(b, form)
      /\ a \o b \in Words /\ Reading(a \o b) = Said(1000000 * m + 1000 * k, 0)
  <2> DEFINE t == 1000000 * m
  <2> HIDE DEF a
  <2>0. t \in Nat /\ k \in Nat /\ a \in Words /\ Reading(a) = Said(t, 0)
    BY <1>1, <1>4
  <2>1. CASE k = 0
    <3>1. b = <<>> /\ t + 1000 * k = t
      BY <1>1, <2>1 DEF Thousands
    <3>2. a \o <<>> = a
      BY <1>4 DEF Words
    <3>3. QED
      BY <1>3, <1>4, <3>1, <3>2
  <2>2. CASE k = 1
    <3>1. b = Noun("tysiac", 1)
      BY <2>2 DEF Thousands
    <3>2. form = 1
      BY <2>2 DEF FormAfter
    <3>3. Noun("tysiac", 1) \in Words /\ ThousandsHave(Noun("tysiac", 1), 1)
      BY NounTypes
    <3> HIDE DEF t
    <3>4. /\ a \o Noun("tysiac", 1) \in Words
          /\ Reading(a \o Noun("tysiac", 1)) = Said(t + 1000, 0)
      BY <2>0, ThousandIsRead
    <3>5. t + 1000 * k = t + 1000
      BY <2>2
    <3>6. QED
      BY <3>1, <3>2, <3>3, <3>4, <3>5 DEF t
  <2>3. CASE k # 0 /\ k # 1
    <3> DEFINE u == Counted(k, "tysiac")
    <3>1. 0 < k /\ k < 1000 /\ k \in Nat \ {0} /\ form \in Nat
      BY <1>1, <2>3 DEF FormAfter
    <3>2. b = u
      BY <2>3 DEF Thousands
    <3>3. u \in Words /\ ThousandsHave(u, form)
      BY <3>1, <3>2, NounsHaveForms
    <3> HIDE DEF t
    <3>4. a \o u \in Words /\ Reading(a \o u) = Said(t + 1000 * k, 0)
      BY <2>0, <3>1, CountedIsRead
    <3> HIDE DEF u
    <3>5. QED
      BY <3>2, <3>3, <3>4 DEF t
  <2>4. QED
    BY <2>1, <2>2, <2>3
<1>6. c \in Words /\ ThousandsHave(c, form) /\ Adds(c, r)
  BY <1>0, <1>1, WordTypes, NumbersHaveNoForm, ThreeDigitsAdd
<1>7. Reading(words) = Said(1000000 * m + 1000 * k, r)
  <2> DEFINE t == 1000000 * m + 1000 * k
             w == a \o b
  <2>1. t \in Nat /\ r \in Nat /\ w \in Words /\ Reading(w) = Said(t, 0)
    BY <1>1, <1>5
  <2> HIDE DEF t, w, c
  <2>2. Reading(w \o c) = Said(t, r)
    BY <1>6, <2>1, AddedToNothing
  <2>3. QED
    BY <2>1, <2>2 DEF t, w
<1>8. ThousandsHave(words, form)
  <2> DEFINE w == a \o b
  <2> HIDE DEF a, b, c
  <2>1. w \in Words /\ ThousandsHave(w, form)
    BY <1>0, <1>4, <1>5, FormsTogether
  <2> HIDE DEF w
  <2>2. ThousandsHave(w \o c, form)
    BY <1>0, <1>6, <2>1, FormsTogether
  <2>3. QED
    BY <2>2 DEF w
<1>9. NumberOf(words) = z
  <2> HIDE DEF words
  <2>1. NumberOf(words) = (1000000 * m + 1000 * k) + r
    BY <1>7, NumberIsRead DEF Said
  <2>2. QED
    BY <1>1, <2>1
<1>10. NumberOf(Word(0)) = 0 /\ ThousandsHave(Word(0), form)
  BY <1>0, ZeroIsRead, NumbersHaveNoForm
<1>11. QED
  <2> HIDE DEF words
  <2>1. FormAfter(z \div 1000 % 1000) = form
    BY <1>1
  <2>2. QED
    BY <1>2, <1>8, <1>9, <1>10, <2>1

Columns == {"status", "ksef", "correction"}

RowsOK ==
    /\ invoice = [i \in Present |-> invoice[i]] /\ Present \subseteq Invoices
    /\ \A i \in Present : Columns \subseteq DOMAIN invoice[i]
                          /\ invoice[i] = [x \in DOMAIN invoice[i] |-> invoice[i][x]]
    /\ request = [q \in Requests |-> request[q]]

IsRow(row) == Columns \subseteq DOMAIN row /\ row = [x \in DOMAIN row |-> row[x]]

\* A correction is wanted of an invoice that KSeF has accepted.
Wanted(hash) ==
    \E i \in Present, body \in Corrections :
        hash = RequestHash(i, body) /\ invoice[i].ksef = "ACCEPTED"

IsWish(place) ==
    /\ {"pc", "original", "hash"} \subseteq DOMAIN place
    /\ place = [x \in DOMAIN place |-> place[x]]
    /\ IsRow(place.original)

RequestsOK ==
    \A q \in Requests :
        /\ request[q].pc \in {"claim", "revert"} => request[q].invoice \in Present
        /\ request[q].pc \in {"find", "create"} => IsWish(request[q]) /\ Wanted(request[q].hash)
        /\ request[q].pc = "answered" =>
              /\ request[q].correction \in OfHash(request[q].hash)
              /\ request[q].hash # None

Inv == RowsOK /\ RequestsOK

LEMMA InitInv == Init => Inv
BY DEF Init, Inv, RowsOK, RequestsOK, Present, NoRequest

-----------------------------------------------------------------------------
(***************************************************************************)
(* What steps do to rows                                                   *)
(***************************************************************************)
LEMMA SetRow ==
  ASSUME RowsOK, NEW i \in Invoices, NEW row, IsRow(row), Set(i, row)
  PROVE  /\ invoice' = [k \in Present' |-> invoice'[k]] /\ Present' \subseteq Invoices
         /\ Present' = Present \cup {i}
         /\ invoice'[i] = row
         /\ \A k \in Present : k # i => invoice'[k] = invoice[k]
         /\ \A k \in Present' : IsRow(invoice'[k])
BY DEF Set, RowsOK, Present, IsRow

LEMMA NewRow ==
  ASSUME NEW row, NEW calculated, NEW buyer, NEW fine,
         row = [invoiceType |-> "VAT", status |-> "DRAFT", ksef |-> None,
                contractorId |-> buyer,
                lines |-> calculated.lines, totals |-> calculated.totals,
                breakdown |-> calculated.breakdown, fine |-> fine,
                correction |-> None]
  PROVE  IsRow(row) /\ row.ksef = None /\ row.correction = None
BY DEF IsRow, Columns

LEMMA CorrectionRow ==
  ASSUME NEW original, IsRow(original), NEW hash
  PROVE  /\ IsRow(Correction(original, hash))
         /\ Correction(original, hash).correction = hash
         /\ Correction(original, hash).ksef = None
BY DEF IsRow, Columns, Correction

\* Rows stay, with what they correct and with KSeF's acceptance.
RowsStay ==
    /\ invoice' = [k \in Present' |-> invoice'[k]] /\ Present' \subseteq Invoices
    /\ \A k \in Present' : IsRow(invoice'[k])
    /\ Present \subseteq Present'
    /\ \A k \in Present : /\ invoice'[k].correction = invoice[k].correction
                          /\ invoice[k].ksef = "ACCEPTED" => invoice'[k].ksef = "ACCEPTED"

\* An invoice that was sent is issued, but for the race of a submission with a
\* revert.
Standing ==
    \A i \in Present : invoice[i].ksef # None => invoice[i].status = "ISSUED" \/ i \in overtaken

\* A row is edited so that it keeps its standing.
LEMMA EditedRow ==
  ASSUME RowsOK, Standing, NEW i \in Present, NEW row, IsRow(row), Set(i, row),
         row.correction = invoice[i].correction,
         invoice[i].ksef = "ACCEPTED" => row.ksef = "ACCEPTED",
         overtaken \subseteq overtaken',
         row.ksef # None => row.status = "ISSUED" \/ i \in overtaken'
  PROVE  RowsStay /\ Standing'
<1>1. i \in Invoices
  BY DEF RowsOK
<1>2. QED
  BY <1>1, SetRow DEF RowsStay, Standing

\* A row is added, of which KSeF knows nothing.
LEMMA AddedRow ==
  ASSUME RowsOK, Standing, NEW i \in Invoices, i \notin Present, NEW row, IsRow(row), Set(i, row),
         row.ksef = None, UNCHANGED overtaken
  PROVE  RowsStay /\ Standing'
BY SetRow DEF RowsStay, Standing

LEMMA UnchangedRows ==
  ASSUME RowsOK, Standing, UNCHANGED <<invoice, overtaken>>
  PROVE  RowsStay /\ Standing'
BY DEF RowsOK, RowsStay, Standing, IsRow, Present

LEMMA DraftingStays ==
  ASSUME Inv, Standing, NEW i \in Invoices,
         \/ \E c \in Contractors \cup {None}, lines \in Typed : CreateDraft(i, c, lines)
         \/ \E lines \in Retyped : EditDraft(i, lines)
         \/ Issue(i)
         \/ \E verdict \in {"ACCEPTED", "REJECTED"} : KsefVerdict(i, verdict)
  PROVE  RowsStay /\ Standing' /\ UNCHANGED request
<1> USE DEF Inv
<1>0. \A k \in Present : IsRow(invoice[k])
  BY DEF RowsOK, IsRow
<1>1. ASSUME NEW c \in Contractors \cup {None}, NEW lines \in Typed, CreateDraft(i, c, lines)
      PROVE  RowsStay /\ Standing' /\ UNCHANGED request
  <2> DEFINE row == [invoiceType |-> "VAT", status |-> "DRAFT", ksef |-> None,
                     contractorId |-> c,
                     lines |-> DraftOf[lines].lines, totals |-> DraftOf[lines].totals,
                     breakdown |-> DraftOf[lines].breakdown, fine |-> Fine(lines),
                     correction |-> None]
  <2>1. IsRow(row) /\ row.ksef = None
    BY NewRow
  <2>2. i \notin Present /\ Set(i, row) /\ UNCHANGED <<request, overtaken>>
    BY <1>1 DEF CreateDraft
  <2>3. QED
    BY <2>1, <2>2, AddedRow
<1>2. ASSUME NEW lines \in Retyped, EditDraft(i, lines)
      PROVE  RowsStay /\ Standing' /\ UNCHANGED request
  <2> DEFINE row == [invoice[i] EXCEPT !.lines = DraftOf[lines].lines,
                                       !.totals = DraftOf[lines].totals,
                                       !.breakdown = DraftOf[lines].breakdown,
                                       !.fine = Fine(lines)]
  <2>1. i \in Present /\ Set(i, row) /\ UNCHANGED <<request, overtaken>>
    BY <1>2 DEF EditDraft, HasStatus
  <2>2. /\ IsRow(row) /\ row.correction = invoice[i].correction
        /\ row.ksef = invoice[i].ksef /\ row.status = invoice[i].status
    BY <1>0, <2>1 DEF IsRow, Columns
  <2>3. QED
    BY <2>1, <2>2, EditedRow DEF Standing
<1>3. CASE Issue(i)
  <2> DEFINE row == [invoice[i] EXCEPT !.status = "ISSUED", !.totals = InvoiceData(i).totals]
  <2>1. i \in Present /\ Set(i, row) /\ UNCHANGED <<request, overtaken>>
    BY <1>3 DEF Issue, HasStatus
  <2>2. /\ IsRow(row) /\ row.correction = invoice[i].correction
        /\ row.ksef = invoice[i].ksef /\ row.status = "ISSUED"
    BY <1>0, <2>1 DEF IsRow, Columns
  <2>3. QED
    BY <2>1, <2>2, EditedRow
<1>4. ASSUME NEW verdict \in {"ACCEPTED", "REJECTED"}, KsefVerdict(i, verdict)
      PROVE  RowsStay /\ Standing' /\ UNCHANGED request
  <2> DEFINE row == [invoice[i] EXCEPT !.ksef = verdict]
  <2>1. /\ i \in Present /\ Set(i, row) /\ UNCHANGED <<request, overtaken>>
        /\ invoice[i].ksef # None /\ invoice[i].ksef # "ACCEPTED"
    BY <1>4, NoneAssumption DEF KsefVerdict, Pending
  <2>2. /\ IsRow(row) /\ row.correction = invoice[i].correction
        /\ row.status = invoice[i].status
    BY <1>0, <2>1 DEF IsRow, Columns
  <2>3. QED
    BY <2>1, <2>2, EditedRow DEF Standing
<1>5. QED
  BY <1>1, <1>2, <1>3, <1>4

-----------------------------------------------------------------------------
(***************************************************************************)
(* Requests                                                                *)
(***************************************************************************)
WantedLater(hash) ==
    \E i \in Present', body \in Corrections :
        hash = RequestHash(i, body) /\ invoice'[i].ksef = "ACCEPTED"

\* What RequestsOK says of a request, for the rows after a step.
OKLater(place) ==
    /\ place.pc \in {"claim", "revert"} => place.invoice \in Present'
    /\ place.pc \in {"find", "create"} => IsWish(place) /\ WantedLater(place.hash)
    /\ place.pc = "answered" =>
          /\ place.correction \in Present'
          /\ invoice'[place.correction].correction = place.hash
          /\ place.hash # None

LEMMA Later ==
  ASSUME RowsStay, request' = [q \in Requests |-> request'[q]],
         \A q \in Requests : OKLater(request'[q])
  PROVE  Inv'
<1>1. RowsOK'
  BY DEF RowsStay, RowsOK, IsRow
<1>2. ASSUME NEW q \in Requests
      PROVE  /\ request'[q].pc \in {"claim", "revert"} => request'[q].invoice \in Present'
             /\ request'[q].pc \in {"find", "create"} => IsWish(request'[q])
             /\ request'[q].pc \in {"find", "create"} =>
                   \E i \in Present', body \in Corrections :
                      request'[q].hash = RequestHash(i, body) /\ invoice'[i].ksef = "ACCEPTED"
             /\ request'[q].pc = "answered" =>
                   /\ request'[q].correction \in
                         {k \in Present' : invoice'[k].correction = request'[q].hash}
                   /\ request'[q].hash # None
  BY <1>2 DEF OKLater, WantedLater
<1>3. RequestsOK'
  BY <1>2 DEF RequestsOK, Wanted, IsWish, IsRow, OfHash
<1>4. QED
  BY <1>1, <1>3 DEF Inv

LEMMA RequestStays ==
  ASSUME Inv, RowsStay, NEW q \in Requests
  PROVE  OKLater(request[q])
<1>1. ASSUME request[q].pc \in {"find", "create"}
      PROVE  WantedLater(request[q].hash)
  BY <1>1 DEF Inv, RequestsOK, RowsStay, Wanted, WantedLater
<1>2. QED
  BY <1>1 DEF Inv, RequestsOK, RowsStay, OfHash, OKLater

LEMMA RequestsUnchanged ==
  ASSUME Inv, RowsStay, UNCHANGED request
  PROVE  Inv'
BY Later, RequestStays DEF Inv, RowsOK

LEMMA RequestMoves ==
  ASSUME Inv, RowsStay, NEW q \in Requests, NEW place, Goto(q, place), OKLater(place)
  PROVE  Inv'
<1>1. /\ request' = [p \in Requests |-> request'[p]] /\ request'[q] = place
      /\ \A p \in Requests : p # q => request'[p] = request[p]
  BY DEF Inv, RowsOK, Goto
<1>2. \A p \in Requests : OKLater(request'[p])
  BY <1>1, RequestStays
<1>3. QED
  BY <1>1, <1>2, Later

\* Steps of requests that leave the rows.
LEMMA ReadingMoves ==
  ASSUME Inv, Standing, NEW q \in Requests,
         \/ \E i \in Invoices : ReadForSubmission(q, i) \/ ReadForRevert(q, i)
         \/ \E i \in Invoices, body \in Corrections : ReadForCorrection(q, i, body)
         \/ FindCorrection(q) \/ CorrectionFails(q) \/ CorrectionAnswered(q)
  PROVE  RowsStay /\ Standing' /\ Inv'
<1>1. UNCHANGED <<invoice, overtaken>>
  BY DEF ReadForSubmission, ReadForRevert, ReadForCorrection, FindCorrection, CorrectionFails,
     CorrectionAnswered
<1>2. RowsStay /\ Standing' /\ Present' = Present
  BY <1>1, UnchangedRows DEF Inv, Present
<1>3. ASSUME NEW i \in Invoices, ReadForSubmission(q, i) \/ ReadForRevert(q, i)
      PROVE  Inv'
  <2>1. \/ Goto(q, [pc |-> "claim", invoice |-> i]) \/ Goto(q, [pc |-> "revert", invoice |-> i])
    BY <1>3 DEF ReadForSubmission, ReadForRevert
  <2>2. i \in Present
    BY <1>3 DEF ReadForSubmission, ReadForRevert, HasStatus
  <2>3. QED
    BY <1>2, <2>1, <2>2, RequestMoves DEF OKLater
<1>4. ASSUME NEW i \in Invoices, NEW body \in Corrections, ReadForCorrection(q, i, body)
      PROVE  Inv'
  <2> DEFINE place == [pc |-> "find", original |-> invoice[i], hash |-> RequestHash(i, body)]
  <2>1. Goto(q, place) /\ i \in Present /\ invoice[i].ksef = "ACCEPTED"
    BY <1>4 DEF ReadForCorrection
  <2>2. IsWish(place)
    BY <2>1 DEF IsWish, IsRow, Inv, RowsOK
  <2>3. WantedLater(place.hash)
    BY <1>1, <1>2, <2>1 DEF WantedLater
  <2>4. QED
    BY <1>2, <2>1, <2>2, <2>3, RequestMoves DEF OKLater
<1>5. CASE FindCorrection(q)
  <2>1. IsWish(request[q]) /\ WantedLater(request[q].hash) /\ request[q].hash # None
    BY <1>2, <1>5, RequestStays, HashAssumption DEF FindCorrection, Inv, RowsOK, RequestsOK, Wanted,
       OKLater
  <2>2. ASSUME NEW k \in OfHash(request[q].hash), Answer(q, k)
        PROVE  Inv'
    <3> DEFINE place == [pc |-> "answered", hash |-> request[q].hash, correction |-> k]
    <3>1. Goto(q, place) /\ k \in Present' /\ invoice'[k].correction = place.hash
      BY <1>1, <1>2, <2>2 DEF Answer, OfHash
    <3>2. QED
      BY <1>2, <2>1, <3>1, RequestMoves DEF OKLater
  <2>3. ASSUME Goto(q, [request[q] EXCEPT !.pc = "create"])
        PROVE  Inv'
    <3> DEFINE place == [request[q] EXCEPT !.pc = "create"]
    <3>1. IsWish(place) /\ place.hash = request[q].hash /\ place.pc = "create"
      BY <2>1 DEF IsWish
    <3>2. QED
      BY <1>2, <2>1, <2>3, <3>1, RequestMoves DEF OKLater
  <2>4. QED
    BY <1>2, <1>5, <2>2, <2>3 DEF FindCorrection
<1>6. CASE CorrectionFails(q) \/ CorrectionAnswered(q)
  <2>1. Goto(q, NoRequest) /\ NoRequest.pc = "idle"
    BY <1>6 DEF CorrectionFails, CorrectionAnswered, Finish, NoRequest
  <2>2. QED
    BY <1>2, <2>1, RequestMoves DEF OKLater
<1>7. QED
  BY <1>2, <1>3, <1>4, <1>5, <1>6

LEMMA SubmissionMoves ==
  ASSUME Inv, Standing, NEW q \in Requests, ClaimSubmission(q) \/ RevertToDraft(q)
  PROVE  RowsStay /\ Standing' /\ Inv'
<1> DEFINE i == request[q].invoice
<1>1. /\ i \in Present /\ Goto(q, NoRequest) /\ OKLater(NoRequest)
  BY DEF ClaimSubmission, RevertToDraft, Finish, Inv, RequestsOK, NoRequest, OKLater
<1>2. IsRow(invoice[i])
  BY <1>1 DEF Inv, RowsOK, IsRow
<1>3. RowsStay /\ Standing'
  <2>1. CASE RevertToDraft(q)
    <3> DEFINE row == [invoice[i] EXCEPT !.status = "DRAFT"]
    <3>1. /\ Set(i, row)
          /\ overtaken' = IF invoice[i].ksef = None THEN overtaken ELSE overtaken \cup {i}
      BY <2>1 DEF RevertToDraft
    <3>2. IsRow(row) /\ row.correction = invoice[i].correction /\ row.ksef = invoice[i].ksef
      BY <1>2 DEF IsRow, Columns
    <3>3. QED
      BY <1>1, <3>1, <3>2, EditedRow DEF Inv
  <2>2. ASSUME invoice[i].ksef = None, Set(i, [invoice[i] EXCEPT !.ksef = "SUBMITTED"]),
               overtaken' = IF HasStatus(i, "ISSUED") THEN overtaken ELSE overtaken \cup {i}
        PROVE  RowsStay /\ Standing'
    <3> DEFINE row == [invoice[i] EXCEPT !.ksef = "SUBMITTED"]
    <3>1. IsRow(row) /\ row.correction = invoice[i].correction /\ row.status = invoice[i].status
      BY <1>2 DEF IsRow, Columns
    <3>2. row.status = "ISSUED" \/ i \in overtaken'
      BY <1>1, <2>2, <3>1 DEF HasStatus
    <3>3. invoice[i].ksef # "ACCEPTED" /\ overtaken \subseteq overtaken'
      BY <2>2, NoneAssumption
    <3>4. QED
      BY <1>1, <2>2, <3>1, <3>2, <3>3, EditedRow DEF Inv
  <2>3. CASE UNCHANGED <<invoice, overtaken>>
    BY <2>3, UnchangedRows DEF Inv
  <2>4. QED
    BY <2>1, <2>2, <2>3 DEF ClaimSubmission
<1>4. QED
  BY <1>1, <1>3, RequestMoves

\* A correction that is made has the hash of its request, which no other has.
CreatesRow(q, i) ==
    /\ i \in Invoices \ Present
    /\ OfHash(request[q].hash) = {}
    /\ Present' = Present \cup {i}
    /\ invoice'[i].correction = request[q].hash

LEMMA CreationMoves ==
  ASSUME Inv, Standing, NEW q \in Requests, NEW i \in Invoices, CreateCorrection(q, i)
  PROVE  /\ RowsStay /\ Standing' /\ Inv'
         /\ UNCHANGED invoice \/ CreatesRow(q, i)
<1> DEFINE hash == request[q].hash
           row == Correction(request[q].original, hash)
           place == [pc |-> "answered", hash |-> hash, correction |-> i]
<1>1. /\ IsRow(request[q].original) /\ hash # None /\ Goto(q, place) /\ UNCHANGED overtaken
      /\ RowsOK
  BY HashAssumption DEF CreateCorrection, Answer, Inv, RowsOK, RequestsOK, IsWish, Wanted
<1>2. CASE UNCHANGED invoice /\ i \in OfHash(hash)
  <2>1. RowsStay /\ Standing' /\ Present' = Present
    BY <1>1, <1>2, UnchangedRows DEF Present
  <2>2. OKLater(place)
    BY <1>1, <1>2, <2>1 DEF OKLater, OfHash
  <2>3. QED
    BY <1>1, <1>2, <2>1, <2>2, RequestMoves
<1>3. CASE OfHash(hash) = {} /\ i \notin Present /\ Set(i, row)
  <2>1. IsRow(row) /\ row.correction = hash /\ row.ksef = None
    BY <1>1, CorrectionRow
  <2>2. /\ RowsStay /\ Standing' /\ Present' = Present \cup {i} /\ invoice'[i] = row
    BY <1>1, <1>3, <2>1, AddedRow, SetRow
  <2>3. OKLater(place)
    BY <1>1, <2>1, <2>2 DEF OKLater
  <2>4. CreatesRow(q, i)
    BY <1>3, <2>1, <2>2 DEF CreatesRow
  <2>5. QED
    BY <1>1, <2>2, <2>3, <2>4, RequestMoves
<1>4. QED
  BY <1>2, <1>3 DEF CreateCorrection

-----------------------------------------------------------------------------
(***************************************************************************)
(* The invariants                                                          *)
(***************************************************************************)
\* No two corrections have one hash, and what is corrected is accepted.
HashesDiffer ==
    \A i, k \in Present :
        invoice[i].correction = invoice[k].correction /\ invoice[i].correction # None => i = k

CorrectedAccepted ==
    \A k \in Present : invoice[k].correction # None =>
        \E i \in Present, body \in Corrections :
            invoice[k].correction = RequestHash(i, body) /\ invoice[i].ksef = "ACCEPTED"

RegisterInv == Inv /\ Standing /\ HashesDiffer /\ CorrectedAccepted

LEMMA InitRegisterInv == Init => RegisterInv
BY InitInv DEF Init, RegisterInv, Standing, HashesDiffer, CorrectedAccepted, Present

\* A step adds no correction, or the one of a request.
LEMMA CorrectionsAdded ==
  ASSUME Inv, Standing, Next
  PROVE  /\ RowsStay /\ Standing' /\ Inv'
         /\ \/ \A k \in Present' : k \in Present \/ invoice'[k].correction = None
            \/ \E q \in Requests, i \in Invoices :
                  request[q].pc = "create" /\ CreatesRow(q, i)
<1>1. ASSUME NEW i \in Invoices,
             \/ \E c \in Contractors \cup {None}, lines \in Typed : CreateDraft(i, c, lines)
             \/ \E lines \in Retyped : EditDraft(i, lines)
             \/ Issue(i)
             \/ \E verdict \in {"ACCEPTED", "REJECTED"} : KsefVerdict(i, verdict)
      PROVE  /\ RowsStay /\ Standing' /\ Inv'
             /\ \A k \in Present' : k \in Present \/ invoice'[k].correction = None
  <2>1. RowsStay /\ Standing' /\ Inv'
    BY <1>1, DraftingStays, RequestsUnchanged
  <2>2. CASE i \in Present
    <3>1. Present' = Present
      BY <1>1, <2>2 DEF CreateDraft, EditDraft, Issue, KsefVerdict, Set, Present
    <3>2. QED
      BY <2>1, <3>1
  <2>3. CASE i \notin Present
    <3>1. PICK c \in Contractors \cup {None}, lines \in Typed : CreateDraft(i, c, lines)
      BY <1>1, <2>3 DEF EditDraft, Issue, KsefVerdict, HasStatus
    <3>2. Present' = Present \cup {i} /\ invoice'[i].correction = None
      BY <3>1 DEF CreateDraft, Set, Present
    <3>3. QED
      BY <2>1, <3>2
  <2>4. QED
    BY <2>2, <2>3
<1>2. ASSUME NEW q \in Requests,
             \/ \E i \in Invoices : ReadForSubmission(q, i) \/ ReadForRevert(q, i)
             \/ \E i \in Invoices, body \in Corrections : ReadForCorrection(q, i, body)
             \/ FindCorrection(q) \/ CorrectionFails(q) \/ CorrectionAnswered(q)
      PROVE  /\ RowsStay /\ Standing' /\ Inv'
             /\ \A k \in Present' : k \in Present
  <2>1. Present' = Present
    BY <1>2 DEF ReadForSubmission, ReadForRevert, ReadForCorrection, FindCorrection,
       CorrectionFails, CorrectionAnswered, Present
  <2>2. QED
    BY <1>2, <2>1, ReadingMoves
<1>3. ASSUME NEW q \in Requests, ClaimSubmission(q) \/ RevertToDraft(q)
      PROVE  /\ RowsStay /\ Standing' /\ Inv'
             /\ \A k \in Present' : k \in Present
  <2>1. request[q].invoice \in Present
    BY <1>3 DEF ClaimSubmission, RevertToDraft, Inv, RequestsOK
  <2>2. Present' = Present
    BY <1>3, <2>1 DEF ClaimSubmission, RevertToDraft, Set, Present
  <2>3. QED
    BY <1>3, <2>2, SubmissionMoves
<1>4. ASSUME NEW q \in Requests, NEW i \in Invoices, CreateCorrection(q, i)
      PROVE  /\ RowsStay /\ Standing' /\ Inv'
             /\ (\A k \in Present' : k \in Present) \/ (request[q].pc
                   = "create" /\ CreatesRow(q, i))
  BY <1>4, CreationMoves DEF CreateCorrection, Present
<1>5. QED
  BY <1>1, <1>2, <1>3, <1>4 DEF Next

LEMMA NextRegisterInv == RegisterInv /\ [Next]_vars => RegisterInv'
<1> SUFFICES ASSUME RegisterInv, [Next]_vars
             PROVE  RegisterInv'
  OBVIOUS
<1> USE DEF RegisterInv
<1>1. CASE UNCHANGED vars
  BY <1>1 DEF vars, Inv, RowsOK, RequestsOK, Wanted, IsWish, IsRow, OfHash, Standing, HashesDiffer,
     CorrectedAccepted, Present
<1>2. CASE Next
  <2>1. RowsStay /\ Standing' /\ Inv'
    BY <1>2, CorrectionsAdded
  <2>2. \A k \in Present : invoice[k].correction # None =>
           \E i \in Present', body \in Corrections :
              invoice'[k].correction = RequestHash(i, body) /\ invoice'[i].ksef = "ACCEPTED"
    BY <2>1 DEF RowsStay, CorrectedAccepted
  <2>3. CASE \A k \in Present' : k \in Present \/ invoice'[k].correction = None
    <3>1. HashesDiffer'
      BY <2>1, <2>3 DEF RowsStay, HashesDiffer
    <3>2. CorrectedAccepted'
      BY <2>1, <2>2, <2>3 DEF RowsStay, CorrectedAccepted
    <3>3. QED
      BY <2>1, <3>1, <3>2
  <2>4. ASSUME NEW q \in Requests, NEW i \in Invoices, request[q].pc = "create", CreatesRow(q, i)
        PROVE  RegisterInv'
    <3>1. /\ Present' = Present \cup {i} /\ i \notin Present
          /\ invoice'[i].correction = request[q].hash
          /\ \A k \in Present : invoice[k].correction # request[q].hash
      BY <2>4 DEF CreatesRow, OfHash
    <3>2. WantedLater(request[q].hash)
      BY <2>1, <2>4, RequestStays DEF OKLater
    <3>3. HashesDiffer'
      BY <2>1, <3>1 DEF RowsStay, HashesDiffer
    <3>4. CorrectedAccepted'
      BY <2>1, <2>2, <3>1, <3>2 DEF RowsStay, CorrectedAccepted, WantedLater
    <3>5. QED
      BY <2>1, <3>3, <3>4
  <2>5. QED
    BY <1>2, <2>3, <2>4, CorrectionsAdded
<1>3. QED
  BY <1>1, <1>2

\* Equal requests make one correction, however they interleave, and all get it.
THEOREM CorrectionsAreUnique == Spec => []OneCorrectionPerRequest
<1>1. RegisterInv => OneCorrectionPerRequest
  <2> SUFFICES ASSUME RegisterInv, NEW q \in Requests, request[q].pc = "answered"
               PROVE  OfHash(request[q].hash) = {request[q].correction}
    BY DEF OneCorrectionPerRequest, RegisterInv, HashesDiffer
  <2>1. request[q].correction \in OfHash(request[q].hash) /\ request[q].hash # None
    BY DEF RegisterInv, Inv, RequestsOK
  <2>2. QED
    BY <2>1 DEF RegisterInv, HashesDiffer, OfHash
<1>2. QED
  BY <1>1, InitRegisterInv, NextRegisterInv, PTL DEF Spec

\* What was corrected stays accepted, and issued unless a submission and a revert
\* raced.
THEOREM CorrectedInvoicesStand == Spec => []CorrectedStaysAccepted
<1>1. RegisterInv => CorrectedStaysAccepted
  <2> SUFFICES ASSUME RegisterInv, NEW i \in Invoices, CorrectionsOf(i) # {}
               PROVE  /\ invoice[i].ksef = "ACCEPTED"
                      /\ invoice[i].status = "ISSUED" \/ i \in overtaken
    BY DEF CorrectedStaysAccepted
  <2>1. PICK k \in Present : /\ invoice[k].correction # None
                            /\ invoice[k].correction.correctedInvoiceId = i
    BY DEF CorrectionsOf
  <2>2. PICK j \in Present, body \in Corrections :
               /\ invoice[k].correction = RequestHash(j, body)
               /\ invoice[j].ksef = "ACCEPTED"
    BY <2>1 DEF RegisterInv, CorrectedAccepted
  <2>3. j = i
    <3>1. RequestHash(j, body).correctedInvoiceId = j
      BY DEF RequestHash
    <3>2. QED
      BY <2>1, <2>2, <3>1
  <2>4. QED
    BY <2>2, <2>3, NoneAssumption DEF RegisterInv, Standing
<1>2. QED
  BY <1>1, InitRegisterInv, NextRegisterInv, PTL DEF Spec

-----------------------------------------------------------------------------
(***************************************************************************)
(* What rows, files and requests say of the lines: Contents, which is      *)
(* inductive together with RegisterInv.                                    *)
(***************************************************************************)
\* Rows of lines, and the columns of an invoice that hold what was invoiced.
LineRows == [quantity : Decimals, unitNetPrice : Decimals, vatRate : VatRates, totals : Amounts]
KsefStates == {None, "ACCEPTED", "REJECTED"} \cup Pending

ContentColumns == {"invoiceType", "contractorId", "lines", "totals", "breakdown", "fine"}

\* The lines say what the totals and the breakdown of the draft say.
Agrees(row) ==
    /\ \A k \in DOMAIN row.lines : row.lines[k].totals = LineTotals(row.lines[k])
    /\ row.breakdown = Breakdown(row.lines)

\* A row whose columns are of their types and agree with its lines.
Holds(row) ==
    /\ IsRow(row) /\ ContentColumns \subseteq DOMAIN row
    /\ row.ksef \in KsefStates
    /\ row.invoiceType \in {"VAT", "KOR"}
    /\ row.lines \in Seq(LineRows)
    /\ row.fine => Agrees(row)

\* Rows of lines are lines.
LEMMA RowsAreLines ==
  \A lines \in Seq(LineRows) :
     /\ AreLines(lines)
     /\ Len(lines) \in Nat /\ DOMAIN lines = 1 .. Len(lines)
     /\ \A k \in DOMAIN lines : lines[k] \in LineRows /\ IsLine(lines[k])
<1> SUFFICES ASSUME NEW lines \in Seq(LineRows)
             PROVE  /\ AreLines(lines)
                    /\ Len(lines) \in Nat /\ DOMAIN lines = 1 .. Len(lines)
                    /\ \A k \in DOMAIN lines : lines[k] \in LineRows /\ IsLine(lines[k])
  OBVIOUS
<1>1. \A k \in DOMAIN lines : lines[k] \in LineRows
  OBVIOUS
<1>2. \A line \in LineRows : IsLine(line)
  BY DEF LineRows, IsLine
<1>3. QED
  BY <1>1, <1>2 DEF AreLines

\* What is stored of lines that may be typed.
LEMMA RowsOfTyped ==
  ASSUME NEW lines \in Typed \cup Retyped
  PROVE  /\ DraftOf[lines].lines \in Seq(LineRows)
         /\ Fine(lines) =>
               /\ \A k \in DOMAIN DraftOf[lines].lines :
                     DraftOf[lines].lines[k].totals = LineTotals(DraftOf[lines].lines[k])
               /\ DraftOf[lines].breakdown = Breakdown(DraftOf[lines].lines)
<1> DEFINE n == Len(lines)
           rows == [k \in DOMAIN lines |-> Row(lines[k])]
<1>1. DraftOf[lines].lines = rows /\ DraftOf[lines].breakdown = Breakdown(lines)
  BY DEF DraftOf, Calculated
<1>2. n \in Nat /\ DOMAIN lines = 1 .. n /\ \A k \in DOMAIN lines : IsLine(lines[k])
  <2> DEFINE T == [quantity : Decimals, unitNetPrice : Decimals, vatRate : VatRates]
  <2>1. lines \in Seq(T)
    BY LinesAssumption
  <2>2. \A line \in T : IsLine(line)
    BY DEF IsLine
  <2> HIDE DEF T
  <2>3. QED
    BY <2>1, <2>2
<1>3. ASSUME NEW k \in DOMAIN lines
      PROVE  /\ rows[k] \in LineRows /\ rows[k].totals = LineTotals(lines[k])
             /\ rows[k].vatRate = lines[k].vatRate
             /\ Fine(lines) => LineTotals(rows[k]) = LineTotals(lines[k])
  <2> DEFINE line == lines[k]
  <2>1. rows[k] = Row(line) /\ IsLine(line)
    BY <1>2
  <2> HIDE DEF line
  <2>2. LineTotals(line) \in Amounts
    BY <2>1, LineType
  <2>3. Row(line) \in LineRows /\ Row(line).totals = LineTotals(line)
        /\ Row(line).vatRate = line.vatRate
    <3>1. IsLine(Row(line))
      BY <2>1, RowOfLine
    <3>2. QED
      BY <2>2, <3>1 DEF IsLine, Row, LineRows
  <2>4. Fine(lines) => line.quantity.scale <= StoredScale /\ line.unitNetPrice.scale <= StoredScale
    BY DEF Fine, line
  <2>5. Fine(lines) => LineTotals(Row(line)) = LineTotals(line)
    BY <2>1, <2>4, FineRow
  <2>6. QED
    BY <2>1, <2>3, <2>5 DEF line
<1>4. rows \in Seq(LineRows)
  <2>1. rows = [k \in 1 .. n |-> rows[k]] /\ \A k \in 1 .. n : rows[k] \in LineRows
    BY <1>2, <1>3
  <2> HIDE DEF rows, n
  <2>2. QED
    BY <1>2, <2>1
<1>5. Fine(lines) => Breakdown(rows) = Breakdown(lines)
  <2>1. DOMAIN rows = DOMAIN lines
    OBVIOUS
  <2>2. Fine(lines) => \A k \in DOMAIN rows : /\ rows[k].vatRate = lines[k].vatRate
                                             /\ LineTotals(rows[k]) = LineTotals(lines[k])
    BY <1>3
  <2> HIDE DEF rows
  <2>3. QED
    BY <2>1, <2>2, SameLines
<1>6. QED
  <2>1. DOMAIN rows = DOMAIN lines
    OBVIOUS
  <2> HIDE DEF rows
  <2>2. QED
    BY <1>1, <1>3, <1>4, <1>5, <2>1

\* The lines of a correction, from those that it corrects.
CorrectedLines(lines, hash) ==
    IF IsNegative(hash.correctionMode) THEN Opposite(lines) ELSE lines

\* The lines of a cancellation are rows, of opposite amounts.
LEMMA OppositeRows ==
  ASSUME NEW lines \in Seq(LineRows)
  PROVE  /\ Opposite(lines) \in Seq(LineRows)
         /\ \A k \in DOMAIN lines :
               /\ Opposite(lines)[k].totals = Minus(lines[k].totals)
               /\ LineTotals(Opposite(lines)[k]) = Minus(LineTotals(lines[k]))
         /\ DOMAIN Opposite(lines) = DOMAIN lines
         /\ Totals(Opposite(lines)) = Minus(Totals(lines))
         /\ Breakdown(Opposite(lines))
               = [r \in DOMAIN Breakdown(lines) |-> Minus(Breakdown(lines)[r])]
<1> DEFINE n == Len(lines)
           b == Opposite(lines)
<1>1. AreLines(lines) /\ n \in Nat /\ DOMAIN lines = 1 .. n
  BY RowsAreLines
<1>2. \A k \in DOMAIN lines :
         lines[k] \in [quantity : Decimals, unitNetPrice : Decimals, vatRate : VatRates,
                       totals : Amounts]
  BY RowsAreLines DEF LineRows
<1>3. /\ \A k \in DOMAIN lines :
            /\ b[k] \in LineRows
            /\ b[k].totals = Minus(lines[k].totals)
            /\ LineTotals(b[k]) = Minus(LineTotals(lines[k]))
      /\ DOMAIN b = DOMAIN lines
      /\ Totals(b) = Minus(Totals(lines))
      /\ Breakdown(b) = [r \in DOMAIN Breakdown(lines) |-> Minus(Breakdown(lines)[r])]
  BY <1>1, <1>2, OppositeLines DEF LineRows
<1>4. b \in Seq(LineRows)
  <2>1. b = [k \in 1 .. n |-> b[k]] /\ \A k \in 1 .. n : b[k] \in LineRows
    BY <1>1, <1>3 DEF Opposite
  <2> HIDE DEF b, n
  <2>2. QED
    BY <1>1, <2>1
<1>5. QED
  BY <1>3, <1>4

\* The row that createCorrection writes agrees with its lines too.
LEMMA CorrectionHolds ==
  ASSUME NEW original, Holds(original), NEW hash
  PROVE  /\ Holds(Correction(original, hash))
         /\ Correction(original, hash).lines = CorrectedLines(original.lines, hash)
         /\ Correction(original, hash).status = "DRAFT"
<1> DEFINE row == Correction(original, hash)
           lines == original.lines
<1>0. lines \in Seq(LineRows) /\ DOMAIN lines = 1 .. Len(lines)
  BY RowsAreLines DEF Holds
<1>1. /\ IsRow(row) /\ ContentColumns \subseteq DOMAIN row /\ row.ksef = None
      /\ row.invoiceType = "KOR" /\ row.status = "DRAFT" /\ row.fine = original.fine
  <2>1. IsRow(row) /\ row.ksef = None
    BY CorrectionRow DEF Holds
  <2>2. DOMAIN row = DOMAIN original
    BY DEF Correction
  <2>3. ContentColumns \subseteq DOMAIN original /\ Columns \subseteq DOMAIN original
    BY DEF Holds, IsRow
  <2>4. row.invoiceType = "KOR" /\ row.status = "DRAFT" /\ row.fine = original.fine
    BY <2>3 DEF Correction, Columns, ContentColumns
  <2>5. QED
    BY <2>1, <2>2, <2>3, <2>4
<1>2. CASE IsNegative(hash.correctionMode)
  <2>1. /\ row.lines = [k \in DOMAIN lines |-> Negative(lines[k])]
        /\ row.breakdown = [r \in DOMAIN original.breakdown |-> Minus(original.breakdown[r])]
    BY <1>2 DEF Holds, IsRow, ContentColumns, Correction
  <2>2. row.lines = Opposite(lines)
    BY <2>1 DEF Opposite
  <2>3. row.lines \in Seq(LineRows)
    BY <1>0, <2>2, OppositeRows
  <2>4. ASSUME row.fine
        PROVE  Agrees(row)
    <3>1. Agrees(original)
      BY <1>1, <2>4 DEF Holds
    <3>2. row.breakdown = Breakdown(row.lines)
      BY <1>0, <2>1, <2>2, <3>1, OppositeRows DEF Agrees
    <3>3. \A k \in DOMAIN row.lines : row.lines[k].totals = LineTotals(row.lines[k])
      <4>1. \A k \in DOMAIN lines : lines[k].totals = LineTotals(lines[k])
        BY <3>1 DEF Agrees
      <4> HIDE DEF lines, row
      <4>2. DOMAIN Opposite(lines) = DOMAIN lines
        BY <1>0, OppositeRows
      <4>3. \A k \in DOMAIN lines :
               /\ Opposite(lines)[k].totals = Minus(lines[k].totals)
               /\ LineTotals(Opposite(lines)[k]) = Minus(LineTotals(lines[k]))
        BY <1>0, OppositeRows
      <4>4. QED
        BY <2>2, <4>1, <4>2, <4>3
    <3>4. QED
      BY <3>2, <3>3 DEF Agrees
  <2>5. QED
    BY <1>1, <1>2, <2>2, <2>3, <2>4 DEF Holds, KsefStates, CorrectedLines
<1>3. CASE ~ IsNegative(hash.correctionMode)
  <2>1. /\ row.lines = [k \in DOMAIN lines |-> lines[k]]
        /\ row.breakdown = [r \in DOMAIN original.breakdown |-> original.breakdown[r]]
    BY <1>3 DEF Holds, IsRow, ContentColumns, Correction
  <2>2. row.lines = lines
    BY <1>0, <2>1
  <2>3. ASSUME row.fine
        PROVE  Agrees(row)
    <3>1. Agrees(original)
      BY <1>1, <2>3 DEF Holds
    <3>2. row.breakdown = Breakdown(row.lines)
      BY <2>1, <2>2, <3>1 DEF Agrees, Breakdown
    <3>3. QED
      BY <2>2, <3>1, <3>2 DEF Agrees
  <2>4. QED
    BY <1>0, <1>1, <1>3, <2>2, <2>3 DEF Holds, KsefStates, CorrectedLines
<1>4. QED
  BY <1>2, <1>3

\* What the files of an invoice are made of, and the files.
DataOf(row) ==
    [invoiceType |-> row.invoiceType,
     correction |-> IF row.correction = None THEN {} ELSE {row.correction.correctedInvoiceId},
     lines |-> row.lines, totals |-> Totals(row.lines)]
FilesOf(row) == [xml |-> Fa3Xml(DataOf(row)), pdf |-> Pdf(DataOf(row))]

\* What was issued stays as it was when its documents were made.
IsFiled(row, files) == row.totals = Totals(row.lines) /\ files = FilesOf(row)

\* An issued invoice has the files of its row, and a draft may have stale ones.
FilesOK ==
    /\ documents = [i \in Invoices |-> documents[i]]
    /\ \A i \in Present : invoice[i].status = "ISSUED" => IsFiled(invoice[i], documents[i])

Follows(lines, hash, original) == lines = CorrectedLines(original, hash)

\* A correction says what the lines of its original say.
LinesOK ==
    \A k \in Present : invoice[k].correction # None =>
        /\ k \notin Originals
        /\ \/ invoice[k].correction.correctedInvoiceId \in overtaken
           \/ Follows(invoice[k].lines, invoice[k].correction,
                      invoice[invoice[k].correction.correctedInvoiceId].lines)

\* What a request for a correction has read is what the invoice still says.
WishesOK ==
    \A q \in Requests : request[q].pc \in {"find", "create"} =>
        /\ Holds(request[q].original)
        /\ \/ request[q].hash.correctedInvoiceId \in overtaken
           \/ request[q].original.lines = invoice[request[q].hash.correctedInvoiceId].lines

\* The strengthening that is inductive with RegisterInv.
RowsHold == \A i \in Present : Holds(invoice[i])

Contents == IsFiniteSet(Present) /\ RowsHold /\ FilesOK /\ LinesOK /\ WishesOK

\* At first there is nothing.
LEMMA InitContents == Init => Contents
<1> SUFFICES ASSUME Init
             PROVE  Contents
  OBVIOUS
<1>1. Present = {}
  BY DEF Init, Present
<1>2. IsFiniteSet(Present)
  BY <1>1, FS_EmptySet
<1>3. WishesOK
  BY DEF Init, WishesOK, NoRequest
<1>4. QED
  BY <1>1, <1>2, <1>3 DEF Init, Contents, RowsHold, FilesOK, LinesOK

\* A row of the same contents has the same files.
LEMMA SameFiles ==
  ASSUME NEW row, NEW before, NEW files, IsFiled(before, files),
         row.invoiceType = before.invoiceType, row.correction = before.correction,
         row.lines = before.lines, row.totals = before.totals
  PROVE  IsFiled(row, files)
BY DEF IsFiled, FilesOf, DataOf

\* The lines of a correction, and those of an invoice that KSeF has accepted, stay.
LinesStay ==
    /\ RowsStay /\ overtaken \subseteq overtaken'
    /\ \A k \in Present :
          \/ invoice[k].correction # None
          \/ invoice[k].ksef = "ACCEPTED" /\ k \notin overtaken'
          => invoice'[k].lines = invoice[k].lines

\* The fields of a hash.
LEMMA HashNames ==
  ASSUME NEW i, NEW body
  PROVE  /\ RequestHash(i, body).correctedInvoiceId = i
         /\ RequestHash(i, body).correctionMode = body.correctionMode
BY DEF RequestHash

\* While lines stay, so does what corrections say of them.
LEMMA CorrectionsKeepLines ==
  ASSUME RegisterInv, LinesOK, LinesStay, NEW k \in Present, invoice[k].correction # None
  PROVE  /\ k \notin Originals
         /\ \/ invoice'[k].correction.correctedInvoiceId \in overtaken'
            \/ Follows(invoice'[k].lines, invoice'[k].correction,
                       invoice'[invoice'[k].correction.correctedInvoiceId].lines)
<1> DEFINE i == invoice[k].correction.correctedInvoiceId
<1>1. invoice'[k].lines = invoice[k].lines /\ invoice'[k].correction = invoice[k].correction
  BY DEF LinesStay, RowsStay
<1>2. i \in Present /\ invoice[i].ksef = "ACCEPTED"
  BY HashNames DEF RegisterInv, CorrectedAccepted
<1>3. /\ k \notin Originals
      /\ i \in overtaken \/ Follows(invoice[k].lines, invoice[k].correction, invoice[i].lines)
  BY DEF LinesOK
<1>4. i \in overtaken' \/ invoice'[i].lines = invoice[i].lines
  BY <1>2 DEF LinesStay
<1>5. overtaken \subseteq overtaken'
  BY DEF LinesStay
<1>6. QED
  BY <1>1, <1>3, <1>4, <1>5

\* What has been read of an invoice, after a step.
WishLater(wish) ==
    /\ Holds(wish.original)
    /\ \/ wish.hash.correctedInvoiceId \in overtaken'
       \/ wish.original.lines = invoice'[wish.hash.correctedInvoiceId].lines

\* While lines stay, so does what was read of them.
LEMMA WishesKeepLines ==
  ASSUME RegisterInv, WishesOK, LinesStay, NEW q \in Requests, request[q].pc \in {"find", "create"}
  PROVE  WishLater(request[q])
<1> DEFINE i == request[q].hash.correctedInvoiceId
<1>1. i \in Present /\ invoice[i].ksef = "ACCEPTED"
  BY HashNames DEF RegisterInv, Inv, RequestsOK, Wanted
<1>2. /\ Holds(request[q].original)
      /\ i \in overtaken \/ request[q].original.lines = invoice[i].lines
  BY DEF WishesOK
<1>3. i \in overtaken' \/ invoice'[i].lines = invoice[i].lines
  BY <1>1 DEF LinesStay
<1>4. overtaken \subseteq overtaken'
  BY DEF LinesStay
<1>5. QED
  BY <1>2, <1>3, <1>4 DEF WishLater

\* Every wish after a step.
WishesLater ==
    \A q \in Requests : request'[q].pc \in {"find", "create"} => WishLater(request'[q])

\* A step that makes no wish keeps those that there are.
LEMMA WishesStay ==
  ASSUME RegisterInv, WishesOK, LinesStay,
         \A q \in Requests : request'[q].pc \in {"find", "create"} => request'[q] = request[q]
  PROVE  WishesLater
BY WishesKeepLines DEF WishesLater

\* A row is edited.
LEMMA EditedContents ==
  ASSUME RegisterInv, Contents, RowsStay, NEW i \in Present, NEW row, Set(i, row), Holds(row),
         row.correction = invoice[i].correction, overtaken \subseteq overtaken',
         invoice[i].correction # None => row.lines = invoice[i].lines,
         invoice[i].ksef = "ACCEPTED" /\ i \notin overtaken' => row.lines = invoice[i].lines,
         documents' = [k \in Invoices |-> documents'[k]],
         \A k \in Present : k # i => documents'[k] = documents[k],
         row.status = "ISSUED" => IsFiled(row, documents'[i]),
         \A q \in Requests : request'[q].pc \in {"find", "create"} => request'[q] = request[q]
  PROVE  Contents'
<1> USE DEF Contents
<1>1. i \in Invoices /\ RowsOK /\ IsRow(row)
  BY DEF RegisterInv, Inv, RowsOK, Holds
<1>2. Present' = Present /\ invoice'[i] = row /\ \A k \in Present : k # i
      => invoice'[k] = invoice[k]
  BY <1>1, SetRow
<1>3. LinesStay
  BY <1>2 DEF LinesStay
<1>4. RowsHold'
  BY <1>2 DEF RowsHold
<1>5. FilesOK'
  BY <1>2 DEF FilesOK
<1>6. LinesOK'
  <2>1. \A k \in Present : invoice'[k].correction = invoice[k].correction
    BY DEF RowsStay
  <2>2. QED
    BY <1>2, <1>3, <2>1, CorrectionsKeepLines DEF LinesOK
<1>7. WishesOK'
  BY <1>3, WishesStay DEF WishesLater, WishLater, WishesOK
<1>8. QED
  BY <1>2, <1>4, <1>5, <1>6, <1>7

\* A draft is added, which may be a correction.
LEMMA AddedContents ==
  ASSUME RegisterInv, Contents, RowsStay, NEW i \in Invoices, i \notin Present, NEW row, Set(i,
        row),
         Holds(row), row.status = "DRAFT", UNCHANGED <<documents, overtaken>>,
         row.correction # None =>
            /\ i \notin Originals
            /\ row.correction.correctedInvoiceId \in Present
            /\ \/ row.correction.correctedInvoiceId \in overtaken
               \/ Follows(row.lines, row.correction,
                          invoice[row.correction.correctedInvoiceId].lines),
         \A q \in Requests : request'[q].pc \in {"find", "create"} => request'[q] = request[q]
  PROVE  Contents'
<1> USE DEF Contents
<1>1. RowsOK /\ IsRow(row)
  BY DEF RegisterInv, Inv, Holds
<1>2. /\ Present' = Present \cup {i} /\ invoice'[i] = row
      /\ \A k \in Present : invoice'[k] = invoice[k]
  BY <1>1, SetRow
<1>3. LinesStay
  BY <1>2 DEF LinesStay
<1>4. RowsHold'
  BY <1>2 DEF RowsHold
<1>5. FilesOK'
  BY <1>2 DEF FilesOK
<1>6. LinesOK'
  <2>1. ASSUME NEW k \in Present', invoice'[k].correction # None
        PROVE  /\ k \notin Originals
               /\ \/ invoice'[k].correction.correctedInvoiceId \in overtaken'
                  \/ Follows(invoice'[k].lines, invoice'[k].correction,
                             invoice'[invoice'[k].correction.correctedInvoiceId].lines)
    <3>1. CASE k = i
      BY <1>2, <2>1, <3>1
    <3>2. CASE k # i
      BY <1>2, <1>3, <2>1, <3>2, CorrectionsKeepLines
    <3>3. QED
      BY <3>1, <3>2
  <2>2. QED
    BY <2>1 DEF LinesOK
<1>7. WishesOK'
  BY <1>3, WishesStay DEF WishesLater, WishLater, WishesOK
<1>8. IsFiniteSet(Present')
  BY <1>2, FS_AddElement
<1>9. QED
  BY <1>4, <1>5, <1>6, <1>7, <1>8

\* No row changes.
LEMMA UnchangedContents ==
  ASSUME RegisterInv, Contents, RowsStay, UNCHANGED <<invoice, documents, overtaken>>,
         \A q \in Requests : request'[q].pc \in {"find", "create"} =>
            request'[q] = request[q] \/ WishLater(request'[q])
  PROVE  Contents'
<1> USE DEF Contents
<1>1. Present' = Present
  BY DEF Present
<1>2. LinesStay
  BY DEF LinesStay
<1>3. \A q \in Requests : request'[q].pc \in {"find", "create"} => WishLater(request'[q])
  BY <1>2, WishesKeepLines
<1>4. WishesOK'
  BY <1>3 DEF WishesOK, WishLater
<1>5. RowsHold' /\ FilesOK' /\ LinesOK'
  BY <1>1 DEF RowsHold, FilesOK, LinesOK
<1>6. QED
  BY <1>1, <1>4, <1>5

\* A step that makes no wish.
NoWishesMade == \A q \in Requests : request'[q].pc \in {"find", "create"}
      => request'[q] = request[q]

\* A request that goes elsewhere makes none.
LEMMA OnlyMoves ==
  ASSUME Inv, NEW q \in Requests, NEW place, Goto(q, place), place.pc \notin {"find", "create"}
  PROVE  NoWishesMade
BY DEF Inv, RowsOK, Goto, NoWishesMade

\* A draft that was typed agrees with its lines.
LEMMA DraftHolds ==
  ASSUME NEW lines \in Typed \cup Retyped, NEW buyer
  PROVE  LET row == [invoiceType |-> "VAT", status |-> "DRAFT", ksef |-> None,
                     contractorId |-> buyer,
                     lines |-> DraftOf[lines].lines, totals |-> DraftOf[lines].totals,
                     breakdown |-> DraftOf[lines].breakdown, fine |-> Fine(lines),
                     correction |-> None]
         IN  Holds(row) /\ row.correction = None /\ row.status = "DRAFT"
<1> DEFINE row == [invoiceType |-> "VAT", status |-> "DRAFT", ksef |-> None,
                   contractorId |-> buyer,
                   lines |-> DraftOf[lines].lines, totals |-> DraftOf[lines].totals,
                   breakdown |-> DraftOf[lines].breakdown, fine |-> Fine(lines),
                   correction |-> None]
<1>1. IsRow(row)
  BY NewRow
<1>2. /\ row.lines = DraftOf[lines].lines /\ row.breakdown = DraftOf[lines].breakdown
      /\ row.fine = Fine(lines) /\ row.ksef = None /\ row.invoiceType = "VAT"
      /\ row.correction = None /\ row.status = "DRAFT"
      /\ ContentColumns \subseteq DOMAIN row
  BY DEF ContentColumns
<1> HIDE DEF row
<1>3. Holds(row)
  BY <1>1, <1>2, RowsOfTyped DEF Holds, Agrees, KsefStates
<1>4. QED
  BY <1>2, <1>3 DEF row

\* Each step keeps the contents: a new draft,
LEMMA CreateDraftKeeps ==
  ASSUME RegisterInv, Contents, RowsStay, NEW i \in Invoices, NEW c, NEW lines \in Typed,
         CreateDraft(i, c, lines)
  PROVE  Contents'
<1> DEFINE row == [invoiceType |-> "VAT", status |-> "DRAFT", ksef |-> None,
                   contractorId |-> c,
                   lines |-> DraftOf[lines].lines, totals |-> DraftOf[lines].totals,
                   breakdown |-> DraftOf[lines].breakdown, fine |-> Fine(lines),
                   correction |-> None]
<1>1. i \notin Present /\ Set(i, row) /\ UNCHANGED <<documents, request, overtaken>>
  BY DEF CreateDraft
<1>2. Holds(row) /\ row.correction = None /\ row.status = "DRAFT"
  BY DraftHolds
<1> HIDE DEF row
<1>3. QED
  BY <1>1, <1>2, AddedContents

\* The columns of a row that is edited.
LEMMA EditedColumns ==
  ASSUME NEW row, Holds(row)
  PROVE  /\ \A totals :
               LET after == [row EXCEPT !.status = "ISSUED", !.totals = totals]
               IN  /\ Holds(after) /\ after.status = "ISSUED" /\ after.totals = totals
                   /\ after.lines = row.lines /\ after.invoiceType = row.invoiceType
                   /\ after.ksef = row.ksef /\ after.correction = row.correction
         /\ \A ksef \in KsefStates :
               LET after == [row EXCEPT !.ksef = ksef]
               IN  /\ Holds(after) /\ after.totals = row.totals /\ after.status = row.status
                   /\ after.lines = row.lines /\ after.invoiceType = row.invoiceType
                   /\ after.correction = row.correction
         /\ LET after == [row EXCEPT !.status = "DRAFT"]
            IN  /\ Holds(after) /\ after.status = "DRAFT"
                /\ after.lines = row.lines /\ after.correction = row.correction
<1>1. /\ {"invoiceType", "contractorId", "lines", "totals", "breakdown", "fine", "status", "ksef",
          "correction"} \subseteq DOMAIN row
      /\ row = [x \in DOMAIN row |-> row[x]]
  BY DEF Holds, IsRow, Columns, ContentColumns
<1>3. ASSUME NEW totals
      PROVE  LET after == [row EXCEPT !.status = "ISSUED", !.totals = totals]
             IN  /\ Holds(after) /\ after.status = "ISSUED" /\ after.totals = totals
                 /\ after.lines = row.lines /\ after.invoiceType = row.invoiceType
                 /\ after.ksef = row.ksef /\ after.correction = row.correction
  <2> DEFINE after == [row EXCEPT !.status = "ISSUED", !.totals = totals]
  <2>1. /\ DOMAIN after = DOMAIN row /\ IsRow(after)
        /\ after.status = "ISSUED" /\ after.totals = totals
        /\ after.lines = row.lines /\ after.invoiceType = row.invoiceType
        /\ after.ksef = row.ksef /\ after.correction = row.correction
        /\ after.breakdown = row.breakdown /\ after.fine = row.fine
    BY <1>1 DEF IsRow, Columns
  <2> HIDE DEF after
  <2>2. Holds(after)
    BY <2>1 DEF Holds, Agrees
  <2>3. QED
    BY <2>1, <2>2 DEF after
<1>4. ASSUME NEW ksef \in KsefStates
      PROVE  LET after == [row EXCEPT !.ksef = ksef]
             IN  /\ Holds(after) /\ after.totals = row.totals /\ after.status = row.status
                 /\ after.lines = row.lines /\ after.invoiceType = row.invoiceType
                 /\ after.correction = row.correction
  <2> DEFINE after == [row EXCEPT !.ksef = ksef]
  <2>1. /\ DOMAIN after = DOMAIN row /\ IsRow(after)
        /\ after.status = row.status /\ after.totals = row.totals
        /\ after.lines = row.lines /\ after.invoiceType = row.invoiceType
        /\ after.ksef = ksef /\ after.correction = row.correction
        /\ after.breakdown = row.breakdown /\ after.fine = row.fine
    BY <1>1 DEF IsRow, Columns
  <2> HIDE DEF after
  <2>2. Holds(after)
    BY <2>1 DEF Holds, Agrees
  <2>3. QED
    BY <2>1, <2>2 DEF after
<1>5. LET after == [row EXCEPT !.status = "DRAFT"]
      IN  /\ Holds(after) /\ after.status = "DRAFT"
          /\ after.lines = row.lines /\ after.correction = row.correction
  <2> DEFINE after == [row EXCEPT !.status = "DRAFT"]
  <2>1. /\ DOMAIN after = DOMAIN row /\ IsRow(after)
        /\ after.status = "DRAFT"
        /\ after.lines = row.lines /\ after.invoiceType = row.invoiceType
        /\ after.ksef = row.ksef /\ after.correction = row.correction
        /\ after.breakdown = row.breakdown /\ after.fine = row.fine
    BY <1>1 DEF IsRow, Columns
  <2> HIDE DEF after
  <2>2. Holds(after)
    BY <2>1 DEF Holds, Agrees
  <2>3. QED
    BY <2>1, <2>2 DEF after
<1>6. QED
  BY <1>3, <1>4, <1>5

\* a draft that is typed anew,
LEMMA EditDraftKeeps ==
  ASSUME RegisterInv, Contents, RowsStay, NEW i \in Invoices, NEW lines \in Retyped,
         EditDraft(i, lines)
  PROVE  Contents'
<1> DEFINE new == DraftOf[lines].lines
           totals == DraftOf[lines].totals
           breakdown == DraftOf[lines].breakdown
           fine == Fine(lines)
           row == [invoice[i] EXCEPT !.lines = new, !.totals = totals,
                                     !.breakdown = breakdown, !.fine = fine]
<1>1. /\ i \in Originals /\ i \in Present /\ invoice[i].status = "DRAFT"
      /\ Set(i, row) /\ UNCHANGED <<documents, request, overtaken>>
  BY DEF EditDraft, HasStatus
<1>2. Holds(invoice[i])
  BY <1>1 DEF Contents, RowsHold
<1>3. /\ DOMAIN row = DOMAIN invoice[i] /\ IsRow(row)
      /\ row.lines = DraftOf[lines].lines /\ row.breakdown = DraftOf[lines].breakdown
      /\ row.fine = Fine(lines) /\ row.ksef = invoice[i].ksef
      /\ row.invoiceType = invoice[i].invoiceType
      /\ row.status = "DRAFT" /\ row.correction = invoice[i].correction
  <2> DEFINE before == invoice[i]
             after == [before EXCEPT !.lines = new, !.totals = totals,
                                     !.breakdown = breakdown, !.fine = fine]
  <2>1. Holds(before) /\ row = after
    BY <1>2
  <2> HIDE DEF new, totals, breakdown, fine, before, row
  <2>2. /\ DOMAIN after = DOMAIN before /\ IsRow(after)
        /\ after.lines = new /\ after.breakdown = breakdown
        /\ after.fine = fine /\ after.ksef = before.ksef
        /\ after.invoiceType = before.invoiceType
        /\ after.status = before.status /\ after.correction = before.correction
    <3>1. /\ {"invoiceType", "contractorId", "lines", "totals", "breakdown", "fine", "status",
              "ksef", "correction"} \subseteq DOMAIN before
          /\ before = [x \in DOMAIN before |-> before[x]]
      BY <2>1 DEF Holds, IsRow, Columns, ContentColumns
    <3>2. QED
      BY <3>1 DEF IsRow, Columns
  <2> HIDE DEF after
  <2>3. QED
    BY <1>1, <2>1, <2>2 DEF new, breakdown, fine, before
<1> HIDE DEF row
<1>4. Holds(row)
  BY <1>2, <1>3, RowsOfTyped DEF Holds, Agrees
<1>5. invoice[i].correction = None
  BY <1>1 DEF Contents, LinesOK
<1>6. invoice[i].ksef = "ACCEPTED" => i \in overtaken
  BY <1>1, NoneAssumption DEF RegisterInv, Standing
<1>7. documents = [k \in Invoices |-> documents[k]]
  BY DEF Contents, FilesOK
<1>8. QED
  BY <1>1, <1>3, <1>4, <1>5, <1>6, <1>7, EditedContents

\* an issuance, which writes the files,
LEMMA IssueKeeps ==
  ASSUME RegisterInv, Contents, RowsStay, NEW i \in Invoices, Issue(i), UNCHANGED request
  PROVE  Contents'
<1> DEFINE data == InvoiceData(i)
           totals == data.totals
           row == [invoice[i] EXCEPT !.status = "ISSUED", !.totals = totals]
<1>1. /\ i \in Present
      /\ Set(i, row) /\ UNCHANGED <<request, overtaken>>
      /\ documents' = [documents EXCEPT ![i] = [xml |-> Fa3Xml(data), pdf |-> Pdf(data)]]
  BY DEF Issue, HasStatus
<1>2. Holds(invoice[i])
  BY <1>1 DEF Contents, RowsHold
<1>3. data = DataOf(invoice[i]) /\ data.totals = Totals(invoice[i].lines)
  BY DEF InvoiceData, DataOf
<1>4. /\ Holds(row) /\ row.status = "ISSUED" /\ row.totals = data.totals
      /\ row.lines = invoice[i].lines /\ row.invoiceType = invoice[i].invoiceType
      /\ row.ksef = invoice[i].ksef /\ row.correction = invoice[i].correction
  <2> DEFINE before == invoice[i]
             after == [before EXCEPT !.status = "ISSUED", !.totals = totals]
  <2>1. Holds(before) /\ row = after
    BY <1>2
  <2> HIDE DEF totals, before, row
  <2>2. /\ Holds(after) /\ after.status = "ISSUED" /\ after.totals = totals
        /\ after.lines = before.lines /\ after.invoiceType = before.invoiceType
        /\ after.ksef = before.ksef /\ after.correction = before.correction
    BY <2>1, EditedColumns
  <2> HIDE DEF after
  <2>3. QED
    BY <2>1, <2>2 DEF totals, before
<1> HIDE DEF row, data
<1>5. documents = [k \in Invoices |-> documents[k]]
  BY DEF Contents, FilesOK
<1>6. /\ documents' = [k \in Invoices |-> documents'[k]]
      /\ \A k \in Present : k # i => documents'[k] = documents[k]
      /\ documents'[i] = [xml |-> Fa3Xml(data), pdf |-> Pdf(data)]
  BY <1>1, <1>5
<1>7. DataOf(row) = DataOf(invoice[i])
  BY <1>4 DEF DataOf
<1>8. IsFiled(row, documents'[i])
  BY <1>3, <1>4, <1>6, <1>7 DEF IsFiled, FilesOf
<1>9. QED
  BY <1>1, <1>4, <1>6, <1>8, EditedContents

\* KSeF's answers, and submissions, change only the KSeF state of a row.
LEMMA KsefKeeps ==
  ASSUME RegisterInv, Contents, RowsStay, NEW i \in Present, NEW ksef \in KsefStates,
         Set(i, [invoice[i] EXCEPT !.ksef = ksef]), UNCHANGED documents,
         overtaken \subseteq overtaken', NoWishesMade
  PROVE  Contents'
<1> DEFINE row == [invoice[i] EXCEPT !.ksef = ksef]
<1>1. Set(i, row) /\ Holds(invoice[i])
  BY DEF Contents, RowsHold
<1>2. /\ Holds(row) /\ row.totals = invoice[i].totals /\ row.status = invoice[i].status
      /\ row.lines = invoice[i].lines /\ row.invoiceType = invoice[i].invoiceType
      /\ row.correction = invoice[i].correction
  BY <1>1, EditedColumns
<1> HIDE DEF row
<1>3. row.status = "ISSUED" => IsFiled(row, documents'[i])
  BY <1>2, SameFiles DEF Contents, FilesOK
<1>4. documents' = [k \in Invoices |-> documents'[k]]
  BY DEF Contents, FilesOK
<1>5. QED
  BY <1>1, <1>2, <1>3, <1>4, EditedContents DEF NoWishesMade

\* a submission, and a revert to draft, which keeps the lines,
LEMMA SubmissionKeeps ==
  ASSUME RegisterInv, Contents, RowsStay, NEW q \in Requests,
         ClaimSubmission(q) \/ RevertToDraft(q)
  PROVE  Contents'
<1> DEFINE i == request[q].invoice
<1>1. i \in Present /\ i \in Invoices
  BY DEF ClaimSubmission, RevertToDraft, RegisterInv, Inv, RequestsOK, RowsOK
<1>2. NoWishesMade
  <2>1. Goto(q, NoRequest) /\ NoRequest.pc = "idle"
    BY DEF ClaimSubmission, RevertToDraft, Finish, NoRequest
  <2>2. QED
    BY <2>1, OnlyMoves DEF RegisterInv
<1>3. CASE RevertToDraft(q)
  <2> DEFINE row == [invoice[i] EXCEPT !.status = "DRAFT"]
  <2>1. /\ Set(i, row) /\ documents' = [documents EXCEPT ![i] = None]
        /\ overtaken \subseteq overtaken'
    BY <1>3 DEF RevertToDraft
  <2>2. Holds(invoice[i])
    BY <1>1 DEF Contents, RowsHold
  <2>3. /\ Holds(row) /\ row.status = "DRAFT"
        /\ row.lines = invoice[i].lines /\ row.correction = invoice[i].correction
    BY <2>2, EditedColumns
  <2> HIDE DEF row
  <2>4. documents = [k \in Invoices |-> documents[k]]
    BY DEF Contents, FilesOK
  <2>5. /\ documents' = [k \in Invoices |-> documents'[k]]
        /\ \A k \in Present : k # i => documents'[k] = documents[k]
    BY <2>1, <2>4
  <2>6. row.status # "ISSUED"
    BY <2>3
  <2> HIDE DEF i
  <2>7. QED
    BY <1>1, <1>2, <2>1, <2>3, <2>5, <2>6, EditedContents DEF NoWishesMade
<1>4. CASE ClaimSubmission(q) /\ Set(i, [invoice[i] EXCEPT !.ksef = "SUBMITTED"])
  <2>2. "SUBMITTED" \in KsefStates
    BY DEF KsefStates, Pending
  <2>3. UNCHANGED documents /\ overtaken \subseteq overtaken'
    BY <1>4 DEF ClaimSubmission
  <2> HIDE DEF i
  <2>4. QED
    BY <1>1, <1>2, <1>4, <2>2, <2>3, KsefKeeps
<1>5. CASE UNCHANGED <<invoice, documents, overtaken>>
  BY <1>2, <1>5, UnchangedContents DEF NoWishesMade
<1>6. QED
  BY <1>3, <1>4, <1>5 DEF ClaimSubmission

\* the steps of a request that write no row,
LEMMA ReadingKeeps ==
  ASSUME RegisterInv, Contents, RowsStay, NEW q \in Requests,
         \/ \E i \in Invoices : ReadForSubmission(q, i) \/ ReadForRevert(q, i)
         \/ \E i \in Invoices, body \in Corrections : ReadForCorrection(q, i, body)
         \/ FindCorrection(q) \/ CorrectionFails(q) \/ CorrectionAnswered(q)
  PROVE  Contents'
<1>1. UNCHANGED <<invoice, documents, overtaken>>
  BY DEF ReadForSubmission, ReadForRevert, ReadForCorrection, FindCorrection, CorrectionFails,
     CorrectionAnswered
<1>2. SUFFICES \A p \in Requests : request'[p].pc \in {"find", "create"} =>
                  request'[p] = request[p] \/ WishLater(request'[p])
  BY <1>1, UnchangedContents
<1>3. CASE NoWishesMade
  BY <1>3 DEF NoWishesMade
<1>4. ASSUME NEW place, Goto(q, place), WishLater(place)
      PROVE  \A p \in Requests : request'[p].pc \in {"find", "create"} =>
                request'[p] = request[p] \/ WishLater(request'[p])
  <2>1. request' = [request EXCEPT ![q] = place] /\ request = [p \in Requests |-> request[p]]
    BY <1>4 DEF Goto, RegisterInv, Inv, RowsOK
  <2>2. QED
    BY <1>4, <2>1
<1>5. ASSUME NEW i \in Invoices, ReadForSubmission(q, i) \/ ReadForRevert(q, i)
      PROVE  NoWishesMade
  <2>1. Goto(q, [pc |-> "claim", invoice |-> i]) \/ Goto(q, [pc |-> "revert", invoice |-> i])
    BY <1>5 DEF ReadForSubmission, ReadForRevert
  <2>2. QED
    BY <2>1, OnlyMoves DEF RegisterInv
<1>6. ASSUME NEW i \in Invoices, NEW body \in Corrections, ReadForCorrection(q, i, body)
      PROVE  \E place : Goto(q, place) /\ WishLater(place)
  <2> DEFINE place == [pc |-> "find", original |-> invoice[i], hash |-> RequestHash(i, body)]
  <2>1. Goto(q, place) /\ i \in Present
    BY <1>6 DEF ReadForCorrection
  <2>2. Holds(invoice[i])
    BY <2>1 DEF Contents, RowsHold
  <2>3. place.original = invoice[i] /\ place.hash.correctedInvoiceId = i
    BY HashNames
  <2> HIDE DEF place
  <2>4. WishLater(place)
    BY <1>1, <2>2, <2>3 DEF WishLater
  <2>5. QED
    BY <2>1, <2>4
<1>7. CASE FindCorrection(q)
  <2>1. WishLater(request[q])
    <3>1. LinesStay
      BY <1>1 DEF LinesStay
    <3>2. QED
      BY <1>7, <3>1, WishesKeepLines DEF FindCorrection, Contents
  <2>2. ASSUME NEW k, Answer(q, k)
        PROVE  NoWishesMade
    BY <2>2, OnlyMoves DEF Answer, RegisterInv
  <2>3. ASSUME Goto(q, [request[q] EXCEPT !.pc = "create"])
        PROVE  \E place : Goto(q, place) /\ WishLater(place)
    <3> DEFINE place == [request[q] EXCEPT !.pc = "create"]
    <3>1. place.original = request[q].original /\ place.hash = request[q].hash
      BY <1>7 DEF FindCorrection, RegisterInv, Inv, RequestsOK, IsWish
    <3> HIDE DEF place
    <3>2. WishLater(place)
      BY <2>1, <3>1 DEF WishLater
    <3>3. QED
      BY <2>3, <3>2 DEF place
  <2>4. QED
    BY <1>3, <1>4, <1>7, <2>2, <2>3 DEF FindCorrection
<1>8. CASE CorrectionFails(q) \/ CorrectionAnswered(q)
  <2>1. Goto(q, NoRequest) /\ NoRequest.pc = "idle"
    BY <1>8 DEF CorrectionFails, CorrectionAnswered, Finish, NoRequest
  <2>2. QED
    BY <1>3, <2>1, OnlyMoves DEF RegisterInv
<1>9. QED
  BY <1>3, <1>4, <1>5, <1>6, <1>7, <1>8

\* and a correction, made of what was read before.
LEMMA CreationKeeps ==
  ASSUME RegisterInv, Contents, RowsStay, NEW q \in Requests, NEW i \in Invoices,
         CreateCorrection(q, i)
  PROVE  Contents'
<1> DEFINE hash == request[q].hash
           row == Correction(request[q].original, hash)
           k == hash.correctedInvoiceId
<1>1. NoWishesMade /\ UNCHANGED <<documents, overtaken>>
  <2>1. Goto(q, [pc |-> "answered", hash |-> request[q].hash, correction |-> i])
    BY DEF CreateCorrection, Answer
  <2>2. QED
    BY <2>1, OnlyMoves DEF CreateCorrection, RegisterInv
<1>2. CASE UNCHANGED invoice
  BY <1>1, <1>2, UnchangedContents DEF NoWishesMade
<1>3. CASE i \notin Present \cup Originals /\ Set(i, row)
  <2>1. request[q].pc = "create"
    BY DEF CreateCorrection
  <2>2. /\ Holds(request[q].original)
        /\ k \in overtaken \/ request[q].original.lines = invoice[k].lines
    BY <2>1 DEF Contents, WishesOK
  <2>3. k \in Present
    BY <2>1, HashNames DEF RegisterInv, Inv, RequestsOK, Wanted
  <2>4. /\ Holds(row) /\ row.lines = CorrectedLines(request[q].original.lines, hash)
        /\ row.status = "DRAFT" /\ row.correction = hash
    BY <2>2, CorrectionHolds, CorrectionRow DEF Holds
  <2>5. k \in overtaken \/ Follows(row.lines, hash, invoice[k].lines)
    BY <2>2, <2>4 DEF Follows
  <2> HIDE DEF row, hash
  <2>6. QED
    BY <1>1, <1>3, <2>3, <2>4, <2>5, AddedContents DEF NoWishesMade
<1>4. QED
  BY <1>2, <1>3 DEF CreateCorrection

\* Hence every step does.
LEMMA NextContents == RegisterInv /\ Contents /\ [Next]_vars => Contents'
<1> SUFFICES ASSUME RegisterInv, Contents, [Next]_vars
             PROVE  Contents'
  OBVIOUS
<1>1. CASE UNCHANGED vars
  <2>1. RowsStay
    BY <1>1, UnchangedRows DEF vars, RegisterInv, Inv
  <2>2. QED
    BY <1>1, <2>1, UnchangedContents DEF vars
<1>2. CASE Next
  <2>1. RowsStay
    BY <1>2, CorrectionsAdded DEF RegisterInv
  <2>2. ASSUME NEW i \in Invoices, NEW c \in Contractors \cup {None}, NEW lines \in Typed,
               CreateDraft(i, c, lines)
        PROVE  Contents'
    BY <2>1, <2>2, CreateDraftKeeps
  <2>3. ASSUME NEW i \in Invoices, NEW lines \in Retyped, EditDraft(i, lines)
        PROVE  Contents'
    BY <2>1, <2>3, EditDraftKeeps
  <2>4. ASSUME NEW i \in Invoices, Issue(i)
        PROVE  Contents'
    BY <2>1, <2>4, IssueKeeps DEF Issue
  <2>5. ASSUME NEW i \in Invoices, NEW verdict \in {"ACCEPTED", "REJECTED"},
               KsefVerdict(i, verdict)
        PROVE  Contents'
    <3>1. /\ i \in Present /\ Set(i, [invoice[i] EXCEPT !.ksef = verdict])
          /\ UNCHANGED <<documents, request, overtaken>>
      BY <2>5 DEF KsefVerdict
    <3>2. verdict \in KsefStates /\ NoWishesMade
      BY <3>1 DEF KsefStates, NoWishesMade
    <3>3. QED
      BY <2>1, <3>1, <3>2, KsefKeeps
  <2>6. ASSUME NEW q \in Requests,
               \/ \E i \in Invoices : ReadForSubmission(q, i) \/ ReadForRevert(q, i)
               \/ \E i \in Invoices, body \in Corrections : ReadForCorrection(q, i, body)
               \/ FindCorrection(q) \/ CorrectionFails(q) \/ CorrectionAnswered(q)
        PROVE  Contents'
    BY <2>1, <2>6, ReadingKeeps
  <2>7. ASSUME NEW q \in Requests, ClaimSubmission(q) \/ RevertToDraft(q)
        PROVE  Contents'
    BY <2>1, <2>7, SubmissionKeeps
  <2>8. ASSUME NEW q \in Requests, NEW i \in Invoices, CreateCorrection(q, i)
        PROVE  Contents'
    BY <2>1, <2>8, CreationKeeps
  <2>9. QED
    BY <1>2, <2>2, <2>3, <2>4, <2>5, <2>6, <2>7, <2>8 DEF Next
<1>3. QED
  BY <1>1, <1>2

-----------------------------------------------------------------------------
(***************************************************************************)
(* What follows of the books, the files and the corrections.               *)
(***************************************************************************)
\* Both parts of the invariant, at first and after every step.
LEMMA InitAll == Init => RegisterInv /\ Contents
BY InitRegisterInv, InitContents

LEMMA NextAll == RegisterInv /\ Contents /\ [Next]_vars => RegisterInv' /\ Contents'
BY NextRegisterInv, NextContents

\* What an issued invoice and its files have in common.
LEMMA IssuedRows ==
  ASSUME RegisterInv, Contents, NEW i \in Issued
  PROVE  LET lines == invoice[i].lines
             xml == documents[i].xml
             pdf == documents[i].pdf
         IN  /\ i \in Present /\ Holds(invoice[i]) /\ lines \in Seq(LineRows) /\ AreLines(lines)
             /\ invoice[i].totals = Totals(lines) /\ Totals(lines) \in Amounts
             /\ xml.RodzajFaktury \in {"VAT", "KOR"}
             /\ xml.DaneFaKorygowanej
                   = IF invoice[i].correction = None THEN {}
                     ELSE {invoice[i].correction.correctedInvoiceId}
             /\ xml.summary = VatSummary(Breakdown(lines)) /\ xml.P_15 = Totals(lines).gross
             /\ DOMAIN xml.rows = DOMAIN lines
             /\ \A k \in DOMAIN lines : /\ xml.rows[k].P_11 = Net(lines[k])
                                       /\ xml.rows[k].P_12 = P12(lines[k].vatRate)
             /\ pdf.breakdown = TemplateBreakdown(lines)
             /\ pdf.slownie = Slownie(Totals(lines).gross)
<1> DEFINE row == invoice[i]
           lines == row.lines
           data == DataOf(row)
<1>1. i \in Present /\ Holds(row) /\ IsFiled(row, documents[i])
  BY DEF Issued, HasStatus, Contents, RowsHold, FilesOK
<1>2. lines \in Seq(LineRows) /\ AreLines(lines) /\ Totals(lines) \in Amounts
  BY <1>1, RowsAreLines, TotalsTypes DEF Holds
<1>3. /\ row.totals = Totals(lines)
      /\ documents[i].xml = Fa3Xml(data) /\ documents[i].pdf = Pdf(data)
  BY <1>1 DEF IsFiled, FilesOf
<1>4. /\ data.lines = lines /\ data.totals = Totals(lines) /\ data.invoiceType = row.invoiceType
      /\ data.correction = IF row.correction = None THEN {} ELSE {row.correction.correctedInvoiceId}
  BY DEF DataOf
<1> HIDE DEF data, lines, row
<1>5. /\ Fa3Xml(data).RodzajFaktury = row.invoiceType
      /\ Fa3Xml(data).DaneFaKorygowanej = data.correction
      /\ Fa3Xml(data).summary = VatSummary(Breakdown(lines))
      /\ Fa3Xml(data).P_15 = Totals(lines).gross
      /\ Fa3Xml(data).rows = [k \in DOMAIN lines |-> [P_11 |-> Net(lines[k]),
                                                     P_12 |-> P12(lines[k].vatRate)]]
  BY <1>4 DEF Fa3Xml, DaneFaKorygowanej
<1>6. /\ DOMAIN Fa3Xml(data).rows = DOMAIN lines
      /\ \A k \in DOMAIN lines : /\ Fa3Xml(data).rows[k].P_11 = Net(lines[k])
                                /\ Fa3Xml(data).rows[k].P_12 = P12(lines[k].vatRate)
  BY <1>5
<1>7. /\ Pdf(data).breakdown = TemplateBreakdown(lines)
      /\ Pdf(data).slownie = Slownie(Totals(lines).gross)
  BY <1>4 DEF Pdf
<1>8. row.invoiceType \in {"VAT", "KOR"}
  BY <1>1 DEF Holds
<1>9. QED
  BY <1>1, <1>2, <1>3, <1>4, <1>5, <1>6, <1>7, <1>8 DEF lines, row

\* The fields of the summary are pairs.
LEMMA FieldsOfSummary ==
  ASSUME NEW lines, AreLines(lines)
  PROVE  /\ \A field \in VatSummary(Breakdown(lines)) :
               field = <<field[1], field[2]>> /\ field[2] \in Int
         /\ {<<field[1], 1 * field[2]>> : field \in VatSummary(Breakdown(lines))}
               = VatSummary(Breakdown(lines))
<1> DEFINE b == Breakdown(lines)
<1>1. \A r \in DOMAIN b : b[r].net \in Int /\ b[r].vat \in Int
  BY TotalsTypes DEF Amounts
<1> HIDE DEF b
<1>2. \A field \in VatSummary(b) : field = <<field[1], field[2]>> /\ field[2] \in Int
  BY <1>1 DEF VatSummary
<1>3. \A field \in VatSummary(b) : <<field[1], 1 * field[2]>> = field
  <2>1. \A x \in Int : 1 * x = x
    OBVIOUS
  <2>2. QED
    BY <1>2, <2>1
<1>4. {<<field[1], 1 * field[2]>> : field \in VatSummary(b)} = VatSummary(b)
  BY <1>3
<1>5. QED
  BY <1>2, <1>4 DEF b

\* The summary of a cancellation has the opposite amounts.
LEMMA OppositeSummary ==
  ASSUME NEW b, NEW c, \A r \in DOMAIN b : b[r] \in Amounts,
         DOMAIN c = DOMAIN b, \A r \in DOMAIN b : c[r] = Minus(b[r])
  PROVE  VatSummary(c) = {<<field[1], (-1) * field[2]>> : field \in VatSummary(b)}
<1>1. \A x \in Int : (-1) * x = -x
  OBVIOUS
<1>2. ASSUME NEW r \in DOMAIN b
      PROVE  c[r].net = (-1) * b[r].net /\ c[r].vat = (-1) * b[r].vat
  <2>1. b[r].net \in Int /\ b[r].vat \in Int
    BY DEF Amounts
  <2>2. c[r].net = -b[r].net /\ c[r].vat = -b[r].vat
    BY DEF Minus
  <2>3. QED
    BY <1>1, <2>1, <2>2
<1> DEFINE Opp(x) == (-1) * x
<1>3. \A r \in DOMAIN b : c[r].net = Opp(b[r].net) /\ c[r].vat = Opp(b[r].vat)
  BY <1>2
<1> HIDE DEF Opp
<1>4. VatSummary(c) = {<<field[1], Opp(field[2])>> : field \in VatSummary(b)}
  <2> DEFINE s == {<<field[1], Opp(field[2])>> : field \in VatSummary(b)}
  <2>1. ASSUME NEW x \in VatSummary(c)
        PROVE  x \in s
    <3>1. CASE \E r \in DOMAIN b : x = <<NetTag(r), c[r].net>>
      <4>1. PICK r \in DOMAIN b : x = <<NetTag(r), c[r].net>>
        BY <3>1
      <4>2. <<NetTag(r), b[r].net>> \in VatSummary(b)
        BY DEF VatSummary
      <4>3. x = << <<NetTag(r), b[r].net>>[1], Opp(<<NetTag(r), b[r].net>>[2])>>
        BY <1>3, <4>1
      <4>4. QED
        BY <4>2, <4>3
    <3>2. CASE \E r \in DOMAIN b \ ZeroVatRates : x = <<VatTag(r), c[r].vat>>
      <4>1. PICK r \in DOMAIN b \ ZeroVatRates : x = <<VatTag(r), c[r].vat>>
        BY <3>2
      <4>2. <<VatTag(r), b[r].vat>> \in VatSummary(b)
        BY DEF VatSummary
      <4>3. x = << <<VatTag(r), b[r].vat>>[1], Opp(<<VatTag(r), b[r].vat>>[2])>>
        BY <1>3, <4>1
      <4>4. QED
        BY <4>2, <4>3
    <3>3. QED
      BY <2>1, <3>1, <3>2 DEF VatSummary
  <2>2. ASSUME NEW field \in VatSummary(b)
        PROVE  <<field[1], Opp(field[2])>> \in VatSummary(c)
    <3>1. CASE \E r \in DOMAIN b : field = <<NetTag(r), b[r].net>>
      BY <1>3, <3>1 DEF VatSummary
    <3>2. CASE \E r \in DOMAIN b \ ZeroVatRates : field = <<VatTag(r), b[r].vat>>
      BY <1>3, <3>2 DEF VatSummary
    <3>3. QED
      BY <2>2, <3>1, <3>2 DEF VatSummary
  <2>3. QED
    BY <2>1, <2>2
<1>5. QED
  BY <1>4 DEF Opp

\* A correction balances what it corrects.
THEOREM CorrectionsBalance == Spec => []CorrectionBalances
<1>1. RegisterInv /\ Contents => CorrectionBalances
  <2> SUFFICES ASSUME RegisterInv, Contents, NEW i \in Documented \ overtaken,
                      NEW k \in CorrectionsOf(i) \cap Documented
               PROVE  /\ documents[k].xml.DaneFaKorygowanej = {i}
                      /\ documents[k].xml.summary
                            = {<<field[1],
                                  SignOf(k) * field[2]>> : field \in documents[i].xml.summary}
                      /\ documents[k].xml.P_15 = SignOf(k) * documents[i].xml.P_15
                      /\ invoice[k].totals.gross = documents[k].xml.P_15
    BY DEF CorrectionBalances
  <2> DEFINE of == invoice[i].lines
             by == invoice[k].lines
             hash == invoice[k].correction
  <2>1. i \in Issued /\ k \in Issued /\ k \in Present
        /\ hash # None /\ hash.correctedInvoiceId = i /\ i \notin overtaken
    BY DEF Documented, CorrectionsOf
  <2>2. /\ of \in Seq(LineRows) /\ AreLines(of) /\ Totals(of) \in Amounts
        /\ documents[i].xml.summary = VatSummary(Breakdown(of))
        /\ documents[i].xml.P_15 = Totals(of).gross
    BY <2>1, IssuedRows
  <2>3. /\ documents[k].xml.DaneFaKorygowanej = {i}
        /\ documents[k].xml.summary = VatSummary(Breakdown(by))
        /\ documents[k].xml.P_15 = Totals(by).gross
        /\ invoice[k].totals = Totals(by)
    BY <2>1, IssuedRows
  <2>4. by = CorrectedLines(of, hash)
    BY <2>1 DEF Contents, LinesOK, Follows
  <2>5. SignOf(k) = IF IsNegative(hash.correctionMode) THEN -1 ELSE 1
    BY <2>1 DEF SignOf, CorrectionMode
  <2> HIDE DEF of, by, hash
  <2>6. CASE IsNegative(hash.correctionMode)
    <3>1. by = Opposite(of) /\ SignOf(k) = -1
      BY <2>4, <2>5, <2>6 DEF CorrectedLines
    <3>2. /\ Totals(by) = Minus(Totals(of))
          /\ Breakdown(by) = [r \in DOMAIN Breakdown(of) |-> Minus(Breakdown(of)[r])]
      BY <2>2, <3>1, OppositeRows
    <3>3. VatSummary(Breakdown(by))
             = {<<field[1], (-1) * field[2]>> : field \in VatSummary(Breakdown(of))}
      <4>1. \A r \in DOMAIN Breakdown(of) : Breakdown(of)[r] \in Amounts
        BY <2>2, TotalsTypes
      <4>2. /\ DOMAIN Breakdown(by) = DOMAIN Breakdown(of)
            /\ \A r \in DOMAIN Breakdown(of) : Breakdown(by)[r] = Minus(Breakdown(of)[r])
        BY <3>2
      <4>3. QED
        BY <4>1, <4>2, OppositeSummary
    <3>4. Totals(by).gross = (-1) * Totals(of).gross
      <4>1. Totals(by).gross = -Totals(of).gross /\ Totals(of).gross \in Int
        BY <2>2, <3>2 DEF Minus, Amounts
      <4>2. \A x \in Int : (-1) * x = -x
        OBVIOUS
      <4>3. QED
        BY <4>1, <4>2
    <3>5. QED
      BY <2>2, <2>3, <3>1, <3>3, <3>4
  <2>7. CASE ~ IsNegative(hash.correctionMode)
    <3>1. by = of /\ SignOf(k) = 1
      BY <2>4, <2>5, <2>7 DEF CorrectedLines
    <3>2. {<<field[1], 1 * field[2]>> : field \in VatSummary(Breakdown(of))}
             = VatSummary(Breakdown(of))
      BY <2>2, FieldsOfSummary
    <3>3. 1 * Totals(of).gross = Totals(of).gross
      <4>1. \A x \in Int : 1 * x = x
        OBVIOUS
      <4>2. Totals(of).gross \in Int
        BY <2>2 DEF Amounts
      <4>3. QED
        BY <4>1, <4>2
    <3>4. QED
      BY <2>2, <2>3, <3>1, <3>2, <3>3
  <2>8. QED
    BY <2>6, <2>7
<1>2. QED
  BY <1>1, InitAll, NextAll, PTL DEF Spec

\* The XML has a code for every rate.
LEMMA CodesAreSupported ==
  \A r \in VatRates : P12(r) \in {"23", "8", "5", "0 KR", "zw", "np I", "oo"}
<1> SUFFICES ASSUME NEW r \in {"23", "8", "5", "0", "zw", "np", "oo"}
             PROVE  P12(r) \in {"23", "8", "5", "0 KR", "zw", "np I", "oo"}
  BY DEF VatRates
<1>1. CASE r \in {"0", "np"}
  BY <1>1 DEF P12
<1>2. CASE r \notin {"0", "np"}
  <2>1. P12(r) = r
    BY <1>2 DEF P12, VatRates
  <2>2. QED
    BY <1>2, <2>1
<1>3. QED
  BY <1>1, <1>2

\* The bound of a magnitude.
LEMMA MagnitudeOf ==
  \A x \in Int, n \in Nat : x <= n /\ -x <= n => Magnitude(x) <= n
BY DEF Magnitude

\* The rows of an issued invoice, its XML, the buyer's copy and the PDF agree.
THEOREM XmlSaysTheRows == Spec => []XmlSaysWhatIsStored
<1>1. RegisterInv /\ Contents => XmlSaysWhatIsStored
  <2> SUFFICES ASSUME RegisterInv, Contents, NEW i \in Documented
               PROVE  LET row == invoice[i]
                          xml == documents[i].xml
                          breakdown == row.breakdown
                      IN
                      /\ ContractValid(xml)
                      /\ xml.P_15 = row.totals.gross
                      /\ row.fine =>
                            /\ xml.summary = VatSummary(breakdown)
                            /\ \A k \in DOMAIN row.lines :
                                  xml.rows[k].P_11 = row.lines[k].totals.net
                            /\ ParsedFa3Xml(xml) =
                                  [net |-> AmountsOf(breakdown, "23").net
                                           + AmountsOf(breakdown, "8").net
                                           + AmountsOf(breakdown, "5").net,
                                   vat |-> row.totals.vat, gross |-> row.totals.gross]
                            /\ \A r \in DOMAIN breakdown :
                                  Magnitude(documents[i].pdf.breakdown[r].vat - breakdown[r].vat)
                                     <= Cardinality({k \in DOMAIN row.lines :
                                                        row.lines[k].vatRate = r})
    BY DEF XmlSaysWhatIsStored
  <2> DEFINE row == invoice[i]
             lines == row.lines
             xml == documents[i].xml
             pdf == documents[i].pdf
             breakdown == row.breakdown
  <2>1. /\ Holds(row) /\ lines \in Seq(LineRows) /\ AreLines(lines)
        /\ row.totals = Totals(lines) /\ Totals(lines) \in Amounts
        /\ xml.RodzajFaktury \in {"VAT", "KOR"}
        /\ xml.summary = VatSummary(Breakdown(lines)) /\ xml.P_15 = Totals(lines).gross
        /\ DOMAIN xml.rows = DOMAIN lines
        /\ \A k \in DOMAIN lines : /\ xml.rows[k].P_11 = Net(lines[k])
                                  /\ xml.rows[k].P_12 = P12(lines[k].vatRate)
        /\ pdf.breakdown = TemplateBreakdown(lines)
    BY IssuedRows DEF Documented
  <2>2. \A k \in DOMAIN lines : lines[k] \in LineRows /\ IsLine(lines[k])
    BY <2>1, RowsAreLines
  <2>3. row.fine => breakdown = Breakdown(lines)
                    /\ \A k \in DOMAIN lines : lines[k].totals = LineTotals(lines[k])
    BY <2>1 DEF Holds, Agrees
  <2> HIDE DEF lines, xml, pdf, breakdown, row
  <2>4. ContractValid(xml)
    <3>1. \A k \in DOMAIN lines : lines[k].vatRate \in VatRates
      BY <2>2 DEF IsLine
    <3>2. QED
      BY <2>1, <3>1, CodesAreSupported DEF ContractValid
  <2>5. ASSUME row.fine
        PROVE  \A k \in DOMAIN lines : xml.rows[k].P_11 = lines[k].totals.net
    BY <2>1, <2>2, <2>3, <2>5, LineType
  <2>6. ParsedFa3Xml(xml) =
           [net |-> AmountsOf(Breakdown(lines), "23").net + AmountsOf(Breakdown(lines), "8").net
                    + AmountsOf(Breakdown(lines), "5").net,
            vat |-> Totals(lines).vat, gross |-> Totals(lines).gross]
    BY <2>1, ParsedXml
  <2>7. \A r \in DOMAIN Breakdown(lines) :
           Magnitude(pdf.breakdown[r].vat - Breakdown(lines)[r].vat)
              <= Cardinality({k \in DOMAIN lines : lines[k].vatRate = r})
    <3> SUFFICES ASSUME NEW r \in DOMAIN Breakdown(lines)
                 PROVE  Magnitude(TemplateBreakdown(lines)[r].vat - Breakdown(lines)[r].vat)
                           <= Cardinality({k \in DOMAIN lines : lines[k].vatRate = r})
      BY <2>1
    <3> DEFINE p == TemplateBreakdown(lines)[r].vat
               v == Breakdown(lines)[r].vat
               n == Cardinality({k \in DOMAIN lines : lines[k].vatRate = r})
    <3>1. r \in RatesOf(lines)
      BY <2>1, TotalsTypes
    <3>2. p \in Int /\ v \in Int /\ n \in Nat /\ p - v <= n /\ v - p <= n
      BY <2>1, <3>1, PdfVatIsNear
    <3> HIDE DEF p, v, n
    <3>3. p - v \in Int /\ -(p - v) <= n
      BY <3>2
    <3>4. Magnitude(p - v) <= n
      BY <3>2, <3>3, MagnitudeOf
    <3>5. QED
      BY <3>4 DEF p, v, n
  <2>8. QED
    <3>1. xml.P_15 = row.totals.gross
      BY <2>1
    <3>2. ASSUME row.fine
          PROVE  /\ xml.summary = VatSummary(breakdown)
                 /\ \A k \in DOMAIN lines : xml.rows[k].P_11 = lines[k].totals.net
                 /\ ParsedFa3Xml(xml) =
                       [net |-> AmountsOf(breakdown, "23").net + AmountsOf(breakdown, "8").net
                                + AmountsOf(breakdown, "5").net,
                        vat |-> row.totals.vat, gross |-> row.totals.gross]
                 /\ \A r \in DOMAIN breakdown :
                       Magnitude(pdf.breakdown[r].vat - breakdown[r].vat)
                          <= Cardinality({k \in DOMAIN lines : lines[k].vatRate = r})
      BY <2>1, <2>3, <2>5, <2>6, <2>7, <3>2
    <3>3. QED
      BY <2>4, <3>1, <3>2 DEF lines, row, xml, pdf, breakdown
<1>2. QED
  BY <1>1, InitAll, NextAll, PTL DEF Spec

\* The words of an amount below the limit say it, with their nouns in the right form.
LEMMA WordsOfAmounts ==
  ASSUME NEW gross \in Int, Magnitude(gross) \div 100 < WordsEnd
  PROVE  LET slownie == Slownie(gross)
             zlote == NumberOf(slownie.words)
             amount == 100 * zlote + slownie.grosze
         IN  /\ gross = IF slownie.minus THEN -amount ELSE amount
             /\ slownie.zloty = FormAfter(zlote)
             /\ ThousandsHave(slownie.words, FormAfter(zlote \div 1000 % 1000))
<1> DEFINE m == Magnitude(gross)
           z == m \div 100
           r == m % 100
           words == IntegerToWords(z)
           s == Slownie(gross)
<1>1. m \in Nat /\ gross = IF gross < 0 THEN -m ELSE m
  BY DEF Magnitude
<1>2. z \in Nat /\ r \in Nat /\ 100 * z + r = m
  <2> HIDE DEF m
  <2>1. QED
    BY <1>1
<1>3. /\ s.minus = (gross < 0) /\ s.words = words /\ s.grosze = r
      /\ s.zloty = IF z = 0 THEN 5 ELSE SelectForm(z)
  BY DEF Slownie
<1>4. z < WordsEnd
  OBVIOUS
<1> HIDE DEF m, z, r, s
<1>5. NumberOf(words) = z /\ ThousandsHave(words, FormAfter(z \div 1000 % 1000))
  BY <1>2, <1>4, WordsSayTheNumber
<1>6. s.zloty = FormAfter(z)
  <2>1. SelectForm(z) = FormAfter(z)
    BY <1>2, FormsOfNouns
  <2>2. z = 0 => FormAfter(z) = 5
    BY DEF FormAfter
  <2>3. QED
    BY <1>3, <2>1, <2>2
<1> HIDE DEF words
<1>7. gross = IF s.minus THEN -(100 * z + r) ELSE 100 * z + r
  BY <1>1, <1>2, <1>3
<1>8. NumberOf(s.words) = z
  BY <1>3, <1>5
<1>9. ThousandsHave(s.words, FormAfter(z \div 1000 % 1000))
  BY <1>3, <1>5
<1>10. QED
  BY <1>3, <1>6, <1>7, <1>8, <1>9 DEF s

\* The words on the PDF name the amount that is due, in correct Polish.
THEOREM WordsAreRight == Spec => []WordsSayTheAmount
<1>1. RegisterInv /\ Contents => WordsSayTheAmount
  <2> SUFFICES ASSUME RegisterInv, Contents, NEW i \in Documented,
                      Magnitude(invoice[i].totals.gross) \div 100 < WordsEnd
               PROVE  LET slownie == documents[i].pdf.slownie
                          zlote == NumberOf(slownie.words)
                          amount == 100 * zlote + slownie.grosze
                          gross == invoice[i].totals.gross
                      IN
                      /\ gross = IF slownie.minus THEN -amount ELSE amount
                      /\ slownie.zloty = FormAfter(zlote)
                      /\ \A k \in DOMAIN slownie.words : slownie.words[k][1] = "tysiac" =>
                            slownie.words[k][2] = FormAfter(zlote \div 1000 % 1000)
    BY DEF WordsSayTheAmount
  <2> DEFINE gross == invoice[i].totals.gross
             slownie == documents[i].pdf.slownie
  <2>1. gross \in Int /\ slownie = Slownie(gross)
    BY IssuedRows DEF Documented, Amounts
  <2>2. Magnitude(gross) \div 100 < WordsEnd
    OBVIOUS
  <2> HIDE DEF gross, slownie
  <2>3. LET zlote == NumberOf(slownie.words)
            amount == 100 * zlote + slownie.grosze
        IN  /\ gross = IF slownie.minus THEN -amount ELSE amount
            /\ slownie.zloty = FormAfter(zlote)
            /\ ThousandsHave(slownie.words, FormAfter(zlote \div 1000 % 1000))
    BY <2>1, <2>2, WordsOfAmounts
  <2>4. QED
    BY <2>3 DEF ThousandsHave, gross, slownie
<1>2. QED
  BY <1>1, InitAll, NextAll, PTL DEF Spec

\* What is counted in two parts is counted once.
LEMMA DisjointUnion ==
  ASSUME NEW S, NEW T, IsFiniteSet(S), IsFiniteSet(T), S \cap T = {}
  PROVE  /\ IsFiniteSet(S \cup T)
         /\ Cardinality(S \cup T) = Cardinality(S) + Cardinality(T)
<1>1. Cardinality(S) \in Nat /\ Cardinality(T) \in Nat
  BY FS_CardinalityType
<1>2. Cardinality(S \cap T) = 0
  BY FS_EmptySet
<1>3. /\ IsFiniteSet(S \cup T)
      /\ Cardinality(S \cup T) = Cardinality(S) + Cardinality(T) - Cardinality(S \cap T)
  BY FS_Union
<1>4. \A m, n \in Nat : m + n - 0 = m + n
  OBVIOUS
<1>5. QED
  BY <1>1, <1>2, <1>3, <1>4

\* Every issued invoice is counted once, whatever KSeF says of it.
LEMMA IssuedAreCounted ==
  ASSUME Contents
  PROVE  /\ KsefCounts.accepted + KsefCounts.pending + KsefCounts.rejected
               + KsefCounts.notSubmitted = Cardinality(Issued)
         /\ KsefCounts.accepted = Cardinality(Issued) => Ksef("ACCEPTED") = Issued
<1> DEFINE A == Ksef("ACCEPTED")
           P == UNION {Ksef(status) : status \in Pending}
           R == Ksef("REJECTED")
           N == NotSubmitted
<1>1. IsFiniteSet(Issued)
  <2>1. Issued \subseteq Present
    BY DEF Issued, HasStatus
  <2>2. QED
    BY <2>1, FS_Subset DEF Contents
<1>2. A \subseteq Issued /\ P \subseteq Issued /\ R \subseteq Issued /\ N \subseteq Issued
  BY DEF Ksef, NotSubmitted
<1>3. Issued = ((A \cup P) \cup R) \cup N
  <2>1. \A i \in Issued : invoice[i].ksef \in KsefStates
    BY DEF Issued, HasStatus, Contents, RowsHold, Holds
  <2>2. \A i \in Issued : i \in A \/ i \in P \/ i \in R \/ i \in N
    BY <2>1 DEF KsefStates, Ksef, NotSubmitted
  <2>3. QED
    BY <1>2, <2>2
<1>4. A \cap P = {} /\ (A \cup P) \cap R = {} /\ ((A \cup P) \cup R) \cap N = {}
  BY NoneAssumption DEF Ksef, NotSubmitted, Pending
<1>5. /\ KsefCounts.accepted = Cardinality(A) /\ KsefCounts.pending = Cardinality(P)
      /\ KsefCounts.rejected = Cardinality(R) /\ KsefCounts.notSubmitted = Cardinality(N)
  BY DEF KsefCounts
<1> HIDE DEF A, P, R, N
<1>6. IsFiniteSet(A) /\ IsFiniteSet(P) /\ IsFiniteSet(R) /\ IsFiniteSet(N)
  BY <1>1, <1>2, FS_Subset
<1>7. IsFiniteSet(A \cup P) /\ Cardinality(A \cup P) = Cardinality(A) + Cardinality(P)
  BY <1>4, <1>6, DisjointUnion
<1>8. /\ IsFiniteSet((A \cup P) \cup R)
      /\ Cardinality((A \cup P) \cup R) = Cardinality(A \cup P) + Cardinality(R)
  BY <1>4, <1>6, <1>7, DisjointUnion
<1>9. Cardinality(((A \cup P) \cup R) \cup N) = Cardinality((A \cup P) \cup R) + Cardinality(N)
  BY <1>4, <1>6, <1>8, DisjointUnion
<1>10. Cardinality(A) = Cardinality(Issued) => A = Issued
  BY <1>1, <1>2, FS_Subset
<1>11. QED
  BY <1>3, <1>5, <1>7, <1>8, <1>9, <1>10 DEF A

\* The dashboard counts each issued invoice once, and its sales are those of the
\* VAT register once all are accepted.
THEOREM TheBooksAgree == Spec => []BooksAgree
<1>1. RegisterInv /\ Contents => BooksAgree
  <2> SUFFICES ASSUME RegisterInv, Contents,
                      KsefCounts.accepted = Cardinality(Issued),
                      \A i \in Issued : invoice[i].fine
               PROVE  AcceptedSales = VatRegisterGross
    BY IssuedAreCounted DEF BooksAgree
  <2>1. Ksef("ACCEPTED") = Issued
    BY IssuedAreCounted
  <2>2. ASSUME NEW i \in Issued
        PROVE  GrossOfRates(invoice[i].breakdown) = Gross(i)
    <3>1. /\ AreLines(invoice[i].lines) /\ invoice[i].totals = Totals(invoice[i].lines)
          /\ Holds(invoice[i])
      BY IssuedRows
    <3>2. invoice[i].breakdown = Breakdown(invoice[i].lines)
      BY <3>1 DEF Holds, Agrees
    <3>3. GrossOfRates(Breakdown(invoice[i].lines)) = Totals(invoice[i].lines).gross
      BY <3>1, TotalsByRate
    <3>4. QED
      BY <3>1, <3>2, <3>3 DEF Gross
  <2>3. [i \in Ksef("ACCEPTED") |-> Gross(i)]
           = [i \in Issued |-> GrossOfRates(invoice[i].breakdown)]
    BY <2>1, <2>2
  <2>4. QED
    BY <2>3 DEF AcceptedSales, VatRegisterGross
<1>2. QED
  BY <1>1, InitAll, NextAll, PTL DEF Spec

=============================================================================
