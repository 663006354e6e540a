--------------------------- MODULE InvoiceDocuments ---------------------------
(***************************************************************************)
(* The documents of an invoice, as far as amounts go: the FA(3) XML that   *)
(* KSeF gets, what a buyer's copy of this program reads out of it, the     *)
(* PDF, and the amount in words.                                           *)
(* Source: packages/fa3-xml/src/builder.ts, parser.ts and validator.ts,    *)
(* packages/pdf-templates/src/invoice-template.ts,                         *)
(* packages/shared-utils/src/slownie.ts.                                   *)
(*                                                                         *)
(* Tags are strings, amounts numbers of grosze; parties, dates and all     *)
(* layout are left out.  The template and the parser add binary floating   *)
(* point numbers, which are taken here as exact.                           *)
(***************************************************************************)
EXTENDS InvoiceMath, SequencesExt

-----------------------------------------------------------------------------
(***************************************************************************)
(* FA(3) XML                                                               *)
(***************************************************************************)
\* FA3_P12_CODES.
P12(vatRate) ==
    CASE vatRate = "0" -> "0 KR" [] vatRate = "np" -> "np I"
      [] vatRate \in VatRates \ {"0", "np"} -> vatRate

\* renderVatSummary: where the net amount of a rate goes, and its VAT.
NetTag(vatRate) ==
    CASE vatRate = "23" -> "P_13_1" [] vatRate = "8" -> "P_13_2"
      [] vatRate = "5" -> "P_13_3" [] vatRate = "0" -> "P_13_6_1"
      [] vatRate = "zw" -> "P_13_7" [] vatRate = "np" -> "P_13_8"
      [] vatRate = "oo" -> "P_13_10"
VatTag(vatRate) ==
    CASE vatRate = "23" -> "P_14_1" [] vatRate = "8" -> "P_14_2" [] vatRate = "5" -> "P_14_3"

VatSummary(breakdown) ==
    {<<NetTag(r), breakdown[r].net>> : r \in DOMAIN breakdown}
    \cup {<<VatTag(r), breakdown[r].vat>> : r \in DOMAIN breakdown \ ZeroVatRates}

\* assertInvoiceVariantSupport and assertInvoiceMathConsistency.  The correction
\* of an invoice is the set of what it corrects.
Buildable(invoice) ==
    /\ invoice.correction # {} <=> invoice.invoiceType = "KOR"
    /\ invoice.lines # <<>>
    /\ invoice.totals = Totals(invoice.lines)

\* renderCorrection.
DaneFaKorygowanej(invoice) == invoice.correction

\* buildFa3Xml.
Fa3Xml(invoice) ==
    [RodzajFaktury |-> invoice.invoiceType,
     DaneFaKorygowanej |-> DaneFaKorygowanej(invoice),
     summary |-> VatSummary(Breakdown(invoice.lines)),
     P_15 |-> Totals(invoice.lines).gross,
     rows |-> [k \in DOMAIN invoice.lines |->
                  [P_11 |-> Net(invoice.lines[k]), P_12 |-> P12(invoice.lines[k].vatRate)]]]

\* getContractValidationErrors: SUPPORTED_P_12_VALUES and RodzajFaktury.
ContractValid(xml) ==
    /\ \A k \in DOMAIN xml.rows :
           xml.rows[k].P_12 \in {"23", "8", "5", "0 KR", "zw", "np I", "oo"}
    /\ xml.RodzajFaktury \in {"VAT", "KOR"}

\* The number that the parser reads in a tag, which may not be there.
ValueOf(xml, tag) ==
    LET found == {field[2] : field \in {field \in xml.summary : field[1] = tag}}
    IN  IF found = {} THEN 0 ELSE CHOOSE value \in found : TRUE

\* parseFa3Xml, of the copy that the buyer's company fetches: its net amount is
\* that of the taxed rates alone.
ParsedFa3Xml(xml) ==
    [net |-> ValueOf(xml, "P_13_1") + ValueOf(xml, "P_13_2") + ValueOf(xml, "P_13_3")
             + ValueOf(xml, "P_13_4") + ValueOf(xml, "P_13_5") + ValueOf(xml, "P_13_N"),
     vat |-> ValueOf(xml, "P_14_1") + ValueOf(xml, "P_14_2") + ValueOf(xml, "P_14_3"),
     gross |-> xml.P_15]

-----------------------------------------------------------------------------
(***************************************************************************)
(* The amount in words                                                     *)
(*                                                                         *)
(* A word that names a number is the pair of "liczba" and that number; a    *)
(* noun for thousands or millions is the pair of the noun and its form.    *)
(***************************************************************************)
\* Mutant: twelve, thirteen and fourteen as two, three and four.
SelectFormByLastDigit(count) ==
    IF count = 1 THEN 1
    ELSE IF count % 10 \in 2 .. 4 THEN 2 ELSE 5

\* selectForm: 1 for one, 2 for two to four, 5 for the rest.
SelectForm(count) ==
    IF count = 1 THEN 1
    ELSE IF count % 100 \in 12 .. 19 THEN 5
    ELSE IF count % 10 \in 2 .. 4 THEN 2 ELSE 5

Word(number) == << <<"liczba", number>> >>
WordIf(number) == IF number = 0 THEN <<>> ELSE Word(number)

Noun(noun, form) == << <<noun, form>> >>

\* threeDigitsToWords.  There are no words for more than nine hundreds.
ThreeDigitsToWords(n) ==
    (IF n < 1000 THEN WordIf(n - (n % 100)) ELSE <<>>) \o
    (IF (n % 100) \div 10 = 1 THEN Word(n % 100)
     ELSE WordIf((n % 100) - (n % 10)) \o WordIf(n % 10))

\* integerToWords.
IntegerToWords(n) ==
    LET millions == n \div 1000000
        thousands == (n % 1000000) \div 1000
        Counted(count, noun) == ThreeDigitsToWords(count) \o Noun(noun, SelectForm(count))
    IN
    IF n = 0 THEN Word(0)
    ELSE (IF millions = 0 THEN <<>> ELSE Counted(millions, "milion"))
         \o (IF thousands = 0 THEN <<>>
             ELSE IF thousands = 1 THEN Noun("tysiac", 1)
             ELSE Counted(thousands, "tysiac"))
         \o ThreeDigitsToWords(n % 1000)

\* slownie.
Slownie(amount) ==
    LET zlote == Magnitude(amount) \div 100
    IN
    [minus |-> amount < 0,
     words |-> IntegerToWords(zlote),
     zloty |-> IF zlote = 0 THEN 5 ELSE SelectForm(zlote),
     grosze |-> Magnitude(amount) % 100]

-----------------------------------------------------------------------------
(***************************************************************************)
(* PDF                                                                     *)
(***************************************************************************)
\* buildVatBreakdown of the template: the net amount of a line is not rounded
\* before its VAT is taken, and its VAT is rounded as Math.round does.
Exact(line) == Times(line.quantity, line.unitNetPrice)

TemplateVat(line) ==
    LET net == Exact(line)
    IN  HalfUp(net.unscaled * VatFactor(line.vatRate), PowerOfTen[net.scale])

\* The net amounts of a rate are added as they are, and shown in two decimals.
AddExact(sum, line) ==
    LET net == Exact(line)
        scale == IF net.scale > sum.scale THEN net.scale ELSE sum.scale
    IN  Decimal(RoundToScale(sum, scale).unscaled + RoundToScale(net, scale).unscaled, scale)

TemplateBreakdown(lines) ==
    [vatRate \in RatesOf(lines) |->
        LET IsOfRate(line) == line.vatRate = vatRate
            vat[n \in 0 .. Len(lines)] ==
                IF n = 0 THEN 0
                ELSE vat[n - 1] + IF IsOfRate(lines[n]) THEN TemplateVat(lines[n]) ELSE 0
        IN  [net |-> Grosze(FoldLeft(AddExact, Decimal(0, 2), SelectSeq(lines, IsOfRate))),
             vat |-> vat[Len(lines)]]]

\* buildInvoiceHtml: the totals are those of the invoice.
Pdf(invoice) ==
    [breakdown |-> TemplateBreakdown(invoice.lines),
     totals |-> invoice.totals,
     slownie |-> Slownie(invoice.totals.gross)]

=============================================================================
