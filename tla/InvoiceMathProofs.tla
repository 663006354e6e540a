--------------------------- MODULE InvoiceMathProofs ---------------------------
(***************************************************************************)
(* Lemmas about InvoiceMath, for every amount and every number of lines.   *)
(* A sum is a function on 0 .. n, and induction over n comes from the      *)
(* well-founded order of the numbers.  What is proved of the register and  *)
(* of the forms of an invoice rests on them.                               *)
(***************************************************************************)
EXTENDS InvoiceMath, FiniteSetTheorems, WellFoundedInduction, TLAPS

-----------------------------------------------------------------------------
(***************************************************************************)
(* Numbers.                                                                *)
(***************************************************************************)
\* The order of the numbers.
Less == OpToRel(<, Nat)

\* A set of numbers has a least one: the order of the numbers is well-founded.
LEMMA LeastNumber ==
  ASSUME NEW T, T \subseteq Nat, T # {}
  PROVE  \E m \in T : \A k \in T : m <= k
<1>1. IsWellFoundedOn(Less, Nat)
  BY NatLessThanWellFounded DEF Less
<1>2. PICK m \in T : \A k \in T : ~ (<<k, m>> \in Less)
  BY <1>1, WFMin
<1>3. \A k \in T : ~ (k < m)
  BY <1>2 DEF Less, OpToRel
<1>4. QED
  BY <1>3

\* Hence induction, as a fact about sets.
LEMMA Induction ==
  ASSUME NEW S, 0 \in S, \A n \in Nat : n \in S => n + 1 \in S
  PROVE  Nat \subseteq S
<1> SUFFICES ASSUME ~ (Nat \subseteq S) PROVE FALSE
  OBVIOUS
<1> DEFINE T == {n \in Nat : n \notin S}
<1>1. T # {} /\ T \subseteq Nat
  OBVIOUS
<1>2. PICK m \in T : \A k \in T : m <= k
  BY <1>1, LeastNumber
<1>3. m # 0 /\ m \in Nat
  OBVIOUS
<1>4. m - 1 \in Nat /\ m - 1 \notin T
  BY <1>2, <1>3
<1>5. QED
  BY <1>2, <1>3, <1>4

\* Powers of ten
PartOfPowers(f, n) == f = [i \in 0 .. n |-> IF i = 0 THEN 1 ELSE 10 * f[i - 1]]

\* The function that PowerOfTen chooses exists up to every number, and is one.
LEMMA PartsOfPowers == \A n \in Nat : \E f : PartOfPowers(f, n)
<1> DEFINE S == {n \in Nat : \E f : PartOfPowers(f, n)}
<1>1. 0 \in S
  <2>1. PartOfPowers([i \in 0 .. 0 |-> 1], 0)
    BY DEF PartOfPowers
  <2>2. QED
    BY <2>1
<1>2. ASSUME NEW n \in Nat, n \in S
      PROVE  n + 1 \in S
  <2>1. PICK f : PartOfPowers(f, n)
    BY <1>2
  <2> DEFINE g == [i \in 0 .. n + 1 |-> IF i = n + 1 THEN 10 * f[n] ELSE f[i]]
  <2>2. \A i \in 0 .. n + 1 : g[i] = IF i = 0 THEN 1 ELSE 10 * g[i - 1]
    BY <2>1 DEF PartOfPowers
  <2>3. PartOfPowers(g, n + 1)
    BY <2>2 DEF PartOfPowers
  <2>4. QED
    BY <2>3
<1>3. Nat \subseteq S
  <2> HIDE DEF S
  <2>1. QED
    BY <1>1, <1>2, Induction
<1>4. QED
  BY <1>3

LEMMA PartsAgree ==
  ASSUME NEW n \in Nat, NEW f, NEW g, PartOfPowers(f, n), PartOfPowers(g, n)
  PROVE  f = g
<1> DEFINE S == {i \in Nat : i <= n => f[i] = g[i]}
<1>1. 0 \in S
  BY DEF PartOfPowers
<1>2. ASSUME NEW i \in Nat, i \in S
      PROVE  i + 1 \in S
  <2> SUFFICES ASSUME i + 1 <= n
               PROVE  f[i + 1] = g[i + 1]
    OBVIOUS
  <2>1. f[i] = g[i] /\ i + 1 \in 0 .. n /\ i + 1 # 0 /\ (i + 1) - 1 = i
    BY <1>2
  <2>2. f[i + 1] = 10 * f[i] /\ g[i + 1] = 10 * g[i]
    BY <2>1 DEF PartOfPowers
  <2>3. QED
    BY <2>1, <2>2
<1>3. Nat \subseteq S
  <2> HIDE DEF S
  <2>1. QED
    BY <1>1, <1>2, Induction
<1>4. \A i \in 0 .. n : f[i] = g[i]
  BY <1>3
<1>5. QED
  BY <1>4 DEF PartOfPowers

\* The powers of ten are as they are defined, for every exponent.
LEMMA PowerOfTenDef ==
  PowerOfTen = [n \in Nat |-> IF n = 0 THEN 1 ELSE 10 * PowerOfTen[n - 1]]
<1> DEFINE part == [n \in Nat |-> CHOOSE f : PartOfPowers(f, n)]
           power == [n \in Nat |-> part[n][n]]
<1>1. \A n \in Nat : PartOfPowers(part[n], n)
  BY PartsOfPowers
<1> HIDE DEF part
<1>2. ASSUME NEW n \in Nat
      PROVE  power[n] = IF n = 0 THEN 1 ELSE 10 * power[n - 1]
  <2>1. CASE n = 0
    <3>1. PartOfPowers(part[0], 0)
      BY <1>1
    <3>2. part[0][0] = 1
      BY <3>1 DEF PartOfPowers
    <3>3. QED
      BY <2>1, <3>2
  <2>2. CASE n # 0
    <3> DEFINE m == n - 1
               f == [i \in 0 .. m |-> part[n][i]]
    <3>1. m \in Nat /\ n \in 0 .. n
      BY <2>2
    <3>2. PartOfPowers(part[n], n) /\ PartOfPowers(part[m], m)
      BY <1>1, <3>1
    <3>3. part[n][n] = 10 * part[n][m]
      BY <2>2, <3>1, <3>2 DEF PartOfPowers
    <3>4. PartOfPowers(f, m)
      <4>1. \A i \in 0 .. m : i \in 0 .. n /\ (i # 0 => i - 1 \in 0 .. m)
        BY <3>1
      <4>2. \A i \in 0 .. m : f[i] = IF i = 0 THEN 1 ELSE 10 * f[i - 1]
        BY <3>2, <4>1 DEF PartOfPowers
      <4>3. QED
        BY <4>2 DEF PartOfPowers
    <3>5. f = part[m]
      BY <3>1, <3>2, <3>4, PartsAgree
    <3>6. f[m] = part[n][m]
      BY <3>1
    <3>7. power[n] = 10 * part[m][m]
      BY <3>3, <3>5, <3>6
    <3>8. power[m] = part[m][m]
      BY <3>1
    <3>9. QED
      BY <2>2, <3>7, <3>8
  <2>3. QED
    BY <2>1, <2>2
<1>3. power = [n \in Nat |-> IF n = 0 THEN 1 ELSE 10 * power[n - 1]]
  <2>1. \A n \in Nat : power[n] = IF n = 0 THEN 1 ELSE 10 * power[n - 1]
    BY <1>2
  <2>2. power = [n \in Nat |-> power[n]]
    OBVIOUS
  <2> HIDE DEF power
  <2>3. QED
    BY <2>1, <2>2
<1>4. \E f : f = [n \in Nat |-> IF n = 0 THEN 1 ELSE 10 * f[n - 1]]
  <2> HIDE DEF power
  <2>1. QED
    BY <1>3
<1>5. QED
  BY <1>4 DEF PowerOfTen

\* The powers that the code uses.
LEMMA PowersOfTen ==
  /\ PowerOfTen[0] = 1 /\ PowerOfTen[1] = 10 /\ PowerOfTen[2] = 100 /\ PowerOfTen[3] = 1000
  /\ PowerOfTen[4] = 10000 /\ PowerOfTen[5] = 100000 /\ PowerOfTen[6] = 1000000
  /\ PowerOfTen[7] = 10000000 /\ PowerOfTen[8] = 100000000
<1>1. /\ PowerOfTen[0] = 1
      /\ \A n \in Nat : n # 0 => PowerOfTen[n] = 10 * PowerOfTen[n - 1]
  BY PowerOfTenDef
<1>2. /\ PowerOfTen[1] = 10 * PowerOfTen[0] /\ PowerOfTen[2] = 10 * PowerOfTen[1]
      /\ PowerOfTen[3] = 10 * PowerOfTen[2] /\ PowerOfTen[4] = 10 * PowerOfTen[3]
  BY <1>1
<1>3. /\ PowerOfTen[5] = 10 * PowerOfTen[4] /\ PowerOfTen[6] = 10 * PowerOfTen[5]
      /\ PowerOfTen[7] = 10 * PowerOfTen[6] /\ PowerOfTen[8] = 10 * PowerOfTen[7]
  BY <1>1
<1>4. QED
  BY <1>1, <1>2, <1>3

\* What PowerOfTen promises of every number.
LEMMA PowersArePositive ==
  \A n \in Nat : PowerOfTen[n] \in Nat \ {0} /\ PowerOfTen[n + 1] = 10 * PowerOfTen[n]
<1> DEFINE S == {n \in Nat : PowerOfTen[n] \in Nat \ {0}}
<1>1. \A n \in Nat : PowerOfTen[n + 1] = 10 * PowerOfTen[n]
  BY PowerOfTenDef
<1>2. 0 \in S
  BY PowersOfTen
<1>3. \A n \in Nat : n \in S => n + 1 \in S
  BY <1>1
<1>4. Nat \subseteq S
  <2> HIDE DEF S
  <2>1. QED
    BY <1>2, <1>3, Induction
<1>5. QED
  BY <1>1, <1>4

-----------------------------------------------------------------------------
(***************************************************************************)
(* Sums of amounts.                                                        *)
(***************************************************************************)
\* Sums of money, and the parts of a sum.
Amounts == [net : Int, vat : Int, gross : Int]

PartSums(f, amounts, n) ==
    f = [i \in 0 .. n |-> IF i = 0 THEN Zero ELSE Plus(f[i - 1], amounts[i])]

\* The parts exist, whatever is added.
LEMMA PartSumsExist == \A amounts : \A n \in Nat : \E f : PartSums(f, amounts, n)
<1> SUFFICES ASSUME NEW amounts
             PROVE  \A n \in Nat : \E f : PartSums(f, amounts, n)
  OBVIOUS
<1> DEFINE S == {n \in Nat : \E f : PartSums(f, amounts, n)}
<1>1. 0 \in S
  <2>1. PartSums([i \in 0 .. 0 |-> Zero], amounts, 0)
    BY DEF PartSums
  <2>2. QED
    BY <2>1
<1>2. ASSUME NEW n \in Nat, n \in S
      PROVE  n + 1 \in S
  <2>1. PICK f : PartSums(f, amounts, n)
    BY <1>2
  <2> DEFINE g == [i \in 0 .. n + 1 |-> IF i = n + 1 THEN Plus(f[n], amounts[n + 1]) ELSE f[i]]
  <2>2. \A i \in 0 .. n + 1 : g[i] = IF i = 0 THEN Zero ELSE Plus(g[i - 1], amounts[i])
    BY <2>1 DEF PartSums
  <2>3. PartSums(g, amounts, n + 1)
    BY <2>2 DEF PartSums
  <2>4. QED
    BY <2>3
<1>3. Nat \subseteq S
  <2> HIDE DEF S
  <2>1. QED
    BY <1>1, <1>2, Induction
<1>4. QED
  BY <1>3

\* Amounts are added and turned around column by column.
LEMMA PlusType ==
  /\ Zero \in Amounts
  /\ \A a, b \in Amounts :
        /\ Plus(a, b) \in Amounts /\ Minus(a) \in Amounts
        /\ Plus(a, b).net = a.net + b.net /\ Plus(a, b).vat = a.vat + b.vat
        /\ Plus(a, b).gross = a.gross + b.gross
        /\ Minus(a).net = -a.net /\ Minus(a).vat = -a.vat /\ Minus(a).gross = -a.gross
BY DEF Amounts, Zero, Plus, Minus

\* Amounts are equal when their columns are.
LEMMA AmountsEqual ==
  \A a, b \in Amounts : a.net = b.net /\ a.vat = b.vat /\ a.gross = b.gross => a = b
BY DEF Amounts

\* Amounts are a group.
LEMMA PlusLaws ==
  \A a, b, c, d \in Amounts :
     /\ Plus(Plus(a, b), Plus(c, d)) = Plus(Plus(a, c), Plus(b, d))
     /\ Plus(a, Zero) = a /\ Plus(Zero, a) = a /\ Plus(a, Minus(a)) = Zero
     /\ a = Plus(a, a) => a = Zero
     /\ Plus(a, b) = Zero => b = Minus(a)
<1>1. Zero.net = 0 /\ Zero.vat = 0 /\ Zero.gross = 0
  BY DEF Zero
<1>2. \A a \in Amounts : a.net \in Int /\ a.vat \in Int /\ a.gross \in Int
  BY DEF Amounts
<1> SUFFICES ASSUME NEW a \in Amounts, NEW b \in Amounts, NEW c \in Amounts, NEW d \in Amounts
             PROVE  /\ Plus(Plus(a, b), Plus(c, d)) = Plus(Plus(a, c), Plus(b, d))
                    /\ Plus(a, Zero) = a /\ Plus(Zero, a) = a /\ Plus(a, Minus(a)) = Zero
                    /\ a = Plus(a, a) => a = Zero
                    /\ Plus(a, b) = Zero => b = Minus(a)
  OBVIOUS
<1>3. Plus(Plus(a, b), Plus(c, d)) = Plus(Plus(a, c), Plus(b, d))
  BY <1>2, PlusType, AmountsEqual
<1>4. /\ a.net \in Int /\ a.vat \in Int /\ a.gross \in Int
      /\ b.net \in Int /\ b.vat \in Int /\ b.gross \in Int
  BY <1>2
<1>5. Plus(a, Zero) = a /\ Plus(Zero, a) = a /\ Plus(a, Minus(a)) = Zero
  <2>1. Plus(a, Zero).net = a.net /\ Plus(a, Zero).vat = a.vat /\ Plus(a, Zero).gross = a.gross
    BY <1>1, <1>4, PlusType
  <2>2. Plus(Zero, a).net = a.net /\ Plus(Zero, a).vat = a.vat /\ Plus(Zero, a).gross = a.gross
    BY <1>1, <1>4, PlusType
  <2>3. Plus(a, Minus(a)) = Zero
    <3>1. \A x \in Int : x + (-x) = 0
      OBVIOUS
    <3>2. /\ Minus(a) \in Amounts /\ Minus(a).net = -a.net /\ Minus(a).vat = -a.vat
          /\ Minus(a).gross = -a.gross
      BY PlusType
    <3>3. /\ Plus(a, Minus(a)).net = a.net + (-a.net)
          /\ Plus(a, Minus(a)).vat = a.vat + (-a.vat)
          /\ Plus(a, Minus(a)).gross = a.gross + (-a.gross)
      BY <3>2, PlusType
    <3>4. /\ Plus(a, Minus(a)).net = 0 /\ Plus(a, Minus(a)).vat = 0
          /\ Plus(a, Minus(a)).gross = 0
      BY <1>4, <3>1, <3>3
    <3>5. QED
      BY <1>1, <3>2, <3>4, PlusType, AmountsEqual
  <2>4. QED
    BY <1>1, <2>1, <2>2, <2>3, PlusType, AmountsEqual
<1>6. a = Plus(a, a) => a = Zero
  <2> SUFFICES ASSUME a = Plus(a, a)
               PROVE  a = Zero
    OBVIOUS
  <2>1. a.net = a.net + a.net /\ a.vat = a.vat + a.vat /\ a.gross = a.gross + a.gross
    BY PlusType
  <2>0. \A x \in Int : x = x + x => x = 0
    OBVIOUS
  <2>2. a.net = 0 /\ a.vat = 0 /\ a.gross = 0
    BY <1>4, <2>0, <2>1
  <2>3. QED
    BY <1>1, <2>2, PlusType, AmountsEqual
<1>7. Plus(a, b) = Zero => b = Minus(a)
  <2> SUFFICES ASSUME Plus(a, b) = Zero
               PROVE  b = Minus(a)
    OBVIOUS
  <2>1. a.net + b.net = 0 /\ a.vat + b.vat = 0 /\ a.gross + b.gross = 0
    BY <1>1, PlusType
  <2>0. \A x, y \in Int : x + y = 0 => y = -x
    OBVIOUS
  <2>2. b.net = -a.net /\ b.vat = -a.vat /\ b.gross = -a.gross
    BY <1>4, <2>0, <2>1
  <2>3. QED
    BY <2>2, PlusType, AmountsEqual
<1>8. QED
  BY <1>3, <1>5, <1>6, <1>7

\* The sum of a sequence of amounts is the last of its partial sums, which are
\* what the code's accumulator holds.
LEMMA TotalSteps ==
  ASSUME NEW amounts \in Seq(Amounts)
  PROVE  \E f \in [0 .. Len(amounts) -> Amounts] :
            /\ f[0] = Zero
            /\ \A i \in 1 .. Len(amounts) : f[i] = Plus(f[i - 1], amounts[i])
            /\ TotalAmounts(amounts) = f[Len(amounts)]
<1> DEFINE N == Len(amounts)
           f == CHOOSE f : PartSums(f, amounts, N)
<1>1. N \in Nat /\ \A i \in 1 .. N : amounts[i] \in Amounts
  OBVIOUS
<1>2. PartSums(f, amounts, N)
  BY <1>1, PartSumsExist
<1>3. TotalAmounts(amounts) = f[N]
  BY DEF TotalAmounts, PartSums
<1> HIDE DEF f
<1>4. f[0] = Zero /\ \A i \in 1 .. N : f[i] = Plus(f[i - 1], amounts[i])
  BY <1>1, <1>2 DEF PartSums
<1> DEFINE S == {i \in Nat : i <= N => f[i] \in Amounts}
<1>5. 0 \in S
  BY <1>4, PlusType
<1>6. ASSUME NEW i \in Nat, i \in S
      PROVE  i + 1 \in S
  <2> SUFFICES ASSUME i + 1 <= N
               PROVE  f[i + 1] \in Amounts
    OBVIOUS
  <2>1. f[i] \in Amounts /\ i + 1 \in 1 .. N /\ (i + 1) - 1 = i
    BY <1>1, <1>6
  <2>2. f[i + 1] = Plus(f[i], amounts[i + 1])
    BY <1>4, <2>1
  <2>3. QED
    BY <1>1, <2>1, <2>2, PlusType
<1>7. Nat \subseteq S
  <2> HIDE DEF S
  <2>1. QED
    BY <1>5, <1>6, Induction
<1>8. f \in [0 .. N -> Amounts]
  BY <1>1, <1>2, <1>7 DEF PartSums
<1>9. QED
  BY <1>3, <1>4, <1>8

-----------------------------------------------------------------------------
(***************************************************************************)
(* Sums and roundings.                                                     *)
(***************************************************************************)
\* A sum of amounts is an amount.
LEMMA TotalType == \A amounts \in Seq(Amounts) : TotalAmounts(amounts) \in Amounts
BY TotalSteps

\* Sums are added line by line.
LEMMA TotalOfPlus ==
  ASSUME NEW s \in Seq(Amounts), NEW t \in Seq(Amounts), NEW u \in Seq(Amounts),
         Len(t) = Len(s), Len(u) = Len(s),
         \A k \in 1 .. Len(s) : u[k] = Plus(s[k], t[k])
  PROVE  TotalAmounts(u) = Plus(TotalAmounts(s), TotalAmounts(t))
<1> DEFINE N == Len(s)
<1>1. N \in Nat /\ \A k \in 1 .. N : s[k] \in Amounts /\ t[k] \in Amounts /\ u[k] \in Amounts
  OBVIOUS
<1>2. PICK f \in [0 .. N -> Amounts] :
         /\ f[0] = Zero /\ \A i \in 1 .. N : f[i] = Plus(f[i - 1], s[i])
         /\ TotalAmounts(s) = f[N]
  BY TotalSteps
<1>3. PICK g \in [0 .. N -> Amounts] :
         /\ g[0] = Zero /\ \A i \in 1 .. N : g[i] = Plus(g[i - 1], t[i])
         /\ TotalAmounts(t) = g[N]
  BY TotalSteps
<1>4. PICK h \in [0 .. N -> Amounts] :
         /\ h[0] = Zero /\ \A i \in 1 .. N : h[i] = Plus(h[i - 1], u[i])
         /\ TotalAmounts(u) = h[N]
  BY TotalSteps
<1> DEFINE S == {i \in Nat : i <= N => h[i] = Plus(f[i], g[i])}
<1>5. 0 \in S
  BY <1>2, <1>3, <1>4, PlusType, PlusLaws
<1>6. ASSUME NEW i \in Nat, i \in S
      PROVE  i + 1 \in S
  <2> SUFFICES ASSUME i + 1 <= N
               PROVE  h[i + 1] = Plus(f[i + 1], g[i + 1])
    OBVIOUS
  <2>1. h[i] = Plus(f[i], g[i]) /\ i \in 0 .. N /\ i + 1 \in 1 .. N /\ (i + 1) - 1 = i
    BY <1>1, <1>6
  <2>2. /\ f[i + 1] = Plus(f[i], s[i + 1]) /\ g[i + 1] = Plus(g[i], t[i + 1])
        /\ h[i + 1] = Plus(h[i], Plus(s[i + 1], t[i + 1]))
    BY <1>2, <1>3, <1>4, <2>1
  <2>3. f[i] \in Amounts /\ g[i] \in Amounts /\ s[i + 1] \in Amounts /\ t[i + 1] \in Amounts
    BY <1>1, <2>1
  <2>4. QED
    BY <2>1, <2>2, <2>3, PlusLaws
<1>7. Nat \subseteq S
  <2> HIDE DEF S
  <2>1. QED
    BY <1>5, <1>6, Induction
<1>8. h[N] = Plus(f[N], g[N])
  BY <1>1, <1>7
<1>9. QED
  BY <1>2, <1>3, <1>4, <1>8

\* Nothing adds up to nothing.
LEMMA TotalOfZero ==
  ASSUME NEW s \in Seq(Amounts), \A k \in 1 .. Len(s) : s[k] = Zero
  PROVE  TotalAmounts(s) = Zero
<1>1. \A k \in 1 .. Len(s) : s[k] = Plus(s[k], s[k])
  BY DEF Zero, Plus
<1>2. TotalAmounts(s) = Plus(TotalAmounts(s), TotalAmounts(s))
  BY <1>1, TotalOfPlus
<1>3. QED
  BY <1>2, PlusLaws, TotalType

\* What is turned around line by line has the opposite sum.
LEMMA TotalOfMinus ==
  ASSUME NEW s \in Seq(Amounts), NEW t \in Seq(Amounts), Len(t) = Len(s),
         \A k \in 1 .. Len(s) : t[k] = Minus(s[k])
  PROVE  TotalAmounts(t) = Minus(TotalAmounts(s))
<1> DEFINE u == [k \in 1 .. Len(s) |-> Zero]
<1>1. u \in Seq(Amounts) /\ Len(u) = Len(s)
  BY PlusType
<1>3. \A k \in 1 .. Len(s) : u[k] = Plus(s[k], t[k])
  BY PlusLaws
<1>4. TotalAmounts(u) = Zero
  <2>1. \A k \in 1 .. Len(u) : u[k] = Zero
    BY <1>1
  <2> HIDE DEF u
  <2>2. QED
    BY <1>1, <2>1, TotalOfZero
<1>5. Plus(TotalAmounts(s), TotalAmounts(t)) = Zero
  <2> HIDE DEF u
  <2>1. QED
    BY <1>1, <1>3, <1>4, TotalOfPlus
<1>6. QED
  BY <1>5, PlusLaws, TotalType

-----

\* A quotient is known by its bounds.
LEMMA Quotient ==
  \A a, q \in Int, b \in Nat \ {0} : b * q <= a /\ a < b * q + b => a \div b = q
OBVIOUS

\* The bounds of a quotient.
LEMMA QuotientBounds ==
  \A a \in Int, b \in Nat \ {0} :
     /\ a \div b \in Int
     /\ b * (a \div b) <= a /\ a < b * (a \div b) + b
OBVIOUS

\* Rounding gives whole numbers.
LEMMA HalfAwayType ==
  \A n \in Int, d \in Nat \ {0} : HalfAway(n, d) \in Int /\ Magnitude(n) \in Nat
BY DEF HalfAway, Magnitude

\* Rounding away from zero does not look at the sign.
LEMMA HalfAwayIsOdd ==
  \A n \in Int, d \in Nat \ {0} : HalfAway(-n, d) = -HalfAway(n, d)
<1> SUFFICES ASSUME NEW n \in Int, NEW d \in Nat \ {0}
             PROVE  HalfAway(-n, d) = -HalfAway(n, d)
  OBVIOUS
<1>1. Magnitude(-n) = Magnitude(n) /\ Magnitude(n) \in Nat
  BY DEF Magnitude
<1>2. CASE n # 0
  BY <1>1, <1>2 DEF HalfAway
<1>3. CASE n = 0
  <2>1. d \div (2 * d) = 0
    BY Quotient
  <2>2. QED
    BY <1>3, <2>1 DEF HalfAway, Magnitude
<1>4. QED
  BY <1>2, <1>3

\* The two roundings agree on what is not negative.
LEMMA HalfUpIsHalfAway ==
  \A n \in Nat, d \in Nat \ {0} : HalfUp(n, d) = HalfAway(n, d)
BY DEF HalfUp, HalfAway, Magnitude

\* A fraction may be expanded before it is rounded.
LEMMA HalfAwayOfMultiple ==
  \A n \in Int, c, d \in Nat \ {0} : HalfAway(c * n, c * d) = HalfAway(n, d)
<1> SUFFICES ASSUME NEW n \in Int, NEW c \in Nat \ {0}, NEW d \in Nat \ {0}
             PROVE  HalfAway(c * n, c * d) = HalfAway(n, d)
  OBVIOUS
<1> DEFINE m == Magnitude(n)
           q == (2 * m + d) \div (2 * d)
<1>1. m \in Nat /\ q \in Int
  BY DEF Magnitude
<1>2. Magnitude(c * n) = c * m /\ (c * n < 0 <=> n < 0)
  BY DEF Magnitude
<1>3. (2 * d) * q <= 2 * m + d /\ 2 * m + d < (2 * d) * q + 2 * d
  <2>1. 2 * m + d \in Int /\ 2 * d \in Nat \ {0}
    BY <1>1
  <2> HIDE DEF m
  <2>2. QED
    BY <2>1, QuotientBounds
<1>4. (2 * (c * m) + c * d) \div (2 * (c * d)) = q
  <2> HIDE DEF m, q
  <2>1. c * ((2 * d) * q) <= c * (2 * m + d)
    BY <1>1, <1>3
  <2>2. c * (2 * m + d) < c * ((2 * d) * q + 2 * d)
    BY <1>1, <1>3
  <2>3. (2 * (c * d)) * q <= 2 * (c * m) + c * d
    BY <1>1, <2>1
  <2>4. 2 * (c * m) + c * d < (2 * (c * d)) * q + 2 * (c * d)
    BY <1>1, <2>2
  <2>5. c * d \in Nat \ {0} /\ c * m \in Nat
    BY <1>1
  <2>6. 2 * (c * d) \in Nat \ {0} /\ 2 * (c * m) + c * d \in Int
    BY <2>5
  <2>7. QED
    BY <1>1, <2>3, <2>4, <2>6, Quotient
<1>5. QED
  BY <1>2, <1>4 DEF HalfAway

\* Powers of ten multiply.
LEMMA PowersMultiply ==
  \A m, n \in Nat : PowerOfTen[m + n] = PowerOfTen[m] * PowerOfTen[n]
<1> SUFFICES ASSUME NEW m \in Nat
             PROVE  \A n \in Nat : PowerOfTen[m + n] = PowerOfTen[m] * PowerOfTen[n]
  OBVIOUS
<1> DEFINE S == {n \in Nat : PowerOfTen[m + n] = PowerOfTen[m] * PowerOfTen[n]}
<1>1. 0 \in S
  BY PowersOfTen, PowersArePositive
<1>2. ASSUME NEW n \in Nat, n \in S
      PROVE  n + 1 \in S
  <2> DEFINE a == PowerOfTen[m]
             b == PowerOfTen[n]
             c == PowerOfTen[m + n]
  <2>1. /\ m + n \in Nat /\ m + (n + 1) = (m + n) + 1
        /\ a \in Nat /\ b \in Nat /\ c \in Nat
    BY PowersArePositive
  <2>2. PowerOfTen[n + 1] = 10 * b /\ PowerOfTen[m + (n + 1)] = 10 * c
    BY <2>1, PowersArePositive
  <2>3. c = a * b
    BY <1>2
  <2>4. 10 * (a * b) = a * (10 * b)
    <3> HIDE DEF a, b
    <3>1. QED
      BY <2>1
  <2>5. QED
    BY <2>2, <2>3, <2>4
<1>3. Nat \subseteq S
  <2> HIDE DEF S
  <2>1. QED
    BY <1>1, <1>2, Induction
<1>4. QED
  BY <1>3

\* The fields of a decimal.
LEMMA DecimalFields ==
  \A u, s : Decimal(u, s).unscaled = u /\ Decimal(u, s).scale = s
BY DEF Decimal

\* What a decimal is.
LEMMA DecimalType ==
  /\ \A u \in Int, s \in Nat : Decimal(u, s) \in Decimals
  /\ \A d \in Decimals : d.unscaled \in Int /\ d.scale \in Nat /\ d = Decimal(d.unscaled, d.scale)
BY DEF Decimal, Decimals

\* roundToScale, of a decimal that is given by its parts.
LEMMA RoundToScaleCases ==
  \A u, s, t :
     /\ s <= t => RoundToScale(Decimal(u, s), t) = Decimal(u * PowerOfTen[t - s], t)
     /\ ~ (s <= t) => RoundToScale(Decimal(u, s), t) = Decimal(HalfAway(u, PowerOfTen[s - t]), t)
BY DecimalFields DEF RoundToScale

\* Grosze, by the scale of the decimal.
LEMMA GroszeCases ==
  \A u, s :
     /\ s <= 2 => Grosze(Decimal(u, s)) = u * PowerOfTen[2 - s]
     /\ ~ (s <= 2) => Grosze(Decimal(u, s)) = HalfAway(u, PowerOfTen[s - 2])
BY DecimalFields, RoundToScaleCases DEF Grosze

\* Grosze are whole.
LEMMA GroszeType == \A d \in Decimals : Grosze(d) \in Int
<1> SUFFICES ASSUME NEW u \in Int, NEW s \in Nat
             PROVE  Grosze(Decimal(u, s)) \in Int
  BY DecimalType
<1>1. CASE s <= 2
  <2>1. 2 - s \in Nat /\ PowerOfTen[2 - s] \in Int
    BY <1>1, PowersArePositive
  <2>2. QED
    BY <1>1, <2>1, GroszeCases
<1>2. CASE ~ (s <= 2)
  <2>1. PowerOfTen[s - 2] \in Nat \ {0}
    BY <1>2, PowersArePositive
  <2>2. QED
    BY <1>2, <2>1, GroszeCases, HalfAwayType
<1>3. QED
  BY <1>1, <1>2

\* Of the opposite of an amount, rounding makes the opposite.
LEMMA GroszeIsOdd ==
  \A u \in Int, s \in Nat : Grosze(Decimal(-u, s)) = -Grosze(Decimal(u, s))
<1> SUFFICES ASSUME NEW u \in Int, NEW s \in Nat
             PROVE  Grosze(Decimal(-u, s)) = -Grosze(Decimal(u, s))
  OBVIOUS
<1>1. CASE s <= 2
  <2>1. PowerOfTen[2 - s] \in Int
    BY <1>1, PowersArePositive
  <2>2. \A p \in Int : (-u) * p = -(u * p)
    OBVIOUS
  <2>3. QED
    BY <1>1, <2>1, <2>2, GroszeCases
<1>2. CASE ~ (s <= 2)
  <2>1. PowerOfTen[s - 2] \in Nat \ {0}
    BY <1>2, PowersArePositive
  <2>2. QED
    BY <1>2, <2>1, GroszeCases, HalfAwayIsOdd
<1>3. QED
  BY <1>1, <1>2

\* Zeros at the end of a decimal do not change what it is rounded to.
LEMMA GroszeOfScaled ==
  \A u \in Int, s, k \in Nat :
     Grosze(Decimal(u * PowerOfTen[k], s + k)) = Grosze(Decimal(u, s))
<1> SUFFICES ASSUME NEW u \in Int, NEW s \in Nat, NEW k \in Nat
             PROVE  Grosze(Decimal(u * PowerOfTen[k], s + k)) = Grosze(Decimal(u, s))
  OBVIOUS
<1> DEFINE p == PowerOfTen[k]
<1>1. p \in Nat \ {0} /\ s + k \in Nat
  BY PowersArePositive
<1>2. CASE ~ (s <= 2)
  <2> DEFINE d == PowerOfTen[s - 2]
  <2>1. d \in Nat \ {0} /\ PowerOfTen[(s - 2) + k] = d * p
    BY <1>2, PowersArePositive, PowersMultiply
  <2>2. ~ (s + k <= 2) /\ (s + k) - 2 = (s - 2) + k
    BY <1>2
  <2>3. HalfAway(p * u, p * d) = HalfAway(u, d)
    BY <1>1, <2>1, HalfAwayOfMultiple
  <2>4. p * u = u * p /\ p * d = d * p
    <3> HIDE DEF p, d
    <3>1. QED
      BY <1>1, <2>1
  <2>5. QED
    BY <1>2, <2>1, <2>2, <2>3, <2>4, GroszeCases
<1>3. CASE s + k <= 2
  <2> DEFINE m == 2 - (s + k)
  <2>1. m \in Nat /\ s <= 2 /\ 2 - s = k + m
    BY <1>3
  <2>2. PowerOfTen[k + m] = p * PowerOfTen[m] /\ PowerOfTen[m] \in Nat
    <3> HIDE DEF m
    <3>1. QED
      BY <2>1, PowersArePositive, PowersMultiply
  <2>3. \A q \in Nat : (u * p) * q = u * (p * q)
    <3> HIDE DEF p
    <3>1. QED
      BY <1>1
  <2>4. QED
    BY <1>3, <2>1, <2>2, <2>3, GroszeCases
<1>4. CASE s <= 2 /\ ~ (s + k <= 2)
  <2> DEFINE m == (s + k) - 2
             j == 2 - s
             n == u * PowerOfTen[j]
             d == PowerOfTen[m]
  <2>1. m \in Nat /\ j \in Nat /\ k = m + j
    BY <1>4
  <2>2. p = d * PowerOfTen[j] /\ d \in Nat \ {0} /\ PowerOfTen[j] \in Nat
    <3>1. PowerOfTen[m + j] = PowerOfTen[m] * PowerOfTen[j]
      <4> HIDE DEF m, j
      <4>1. QED
        BY <2>1, PowersMultiply
    <3>2. PowerOfTen[m] \in Nat \ {0} /\ PowerOfTen[j] \in Nat
      <4> HIDE DEF m, j
      <4>1. QED
        BY <2>1, PowersArePositive
    <3>3. p = PowerOfTen[m + j]
      BY <2>1
    <3>4. QED
      BY <3>1, <3>2, <3>3
  <2>3. n \in Int /\ u * p = d * n /\ d = d * 1
    <3>1. \A x, y \in Nat : u * (x * y) = x * (u * y) /\ x = x * 1 /\ u * y \in Int
      OBVIOUS
    <3> HIDE DEF p, d, j
    <3>2. QED
      BY <2>2, <3>1
  <2>4. HalfAway(d * n, d * 1) = HalfAway(n, 1)
    <3>1. \A x \in Int, c \in Nat \ {0} : HalfAway(c * x, c * 1) = HalfAway(x, 1)
      BY HalfAwayOfMultiple
    <3> HIDE DEF d, n
    <3>2. QED
      BY <2>2, <2>3, <3>1
  <2>5. HalfAway(n, 1) = n
    <3>1. \A x \in Nat : (2 * x + 1) \div 2 = x
      BY Quotient
    <3> HIDE DEF n
    <3>2. QED
      BY <2>3, <3>1 DEF HalfAway, Magnitude
  <2>6. Grosze(Decimal(u * p, s + k)) = HalfAway(u * p, d)
    BY <1>4, GroszeCases
  <2>7. Grosze(Decimal(u, s)) = n
    BY <1>4, GroszeCases
  <2>8. QED
    BY <2>3, <2>4, <2>5, <2>6, <2>7
<1>5. QED
  BY <1>2, <1>3, <1>4

-----------------------------------------------------------------------------
(***************************************************************************)
(* Lines: their net amount and their VAT.                                  *)
(***************************************************************************)
\* Rounding to grosze is one division, whatever the scale.
LEMMA GroszeIsHalfAway ==
  \A u \in Int, s \in Nat : Grosze(Decimal(u, s)) = HalfAway(100 * u, PowerOfTen[s])
<1> SUFFICES ASSUME NEW u \in Int, NEW s \in Nat
             PROVE  Grosze(Decimal(u, s)) = HalfAway(100 * u, PowerOfTen[s])
  OBVIOUS
<1>1. Grosze(Decimal(u * PowerOfTen[2], s + 2)) = Grosze(Decimal(u, s))
  BY GroszeOfScaled
<1>3. CASE s # 0
  <2>1. Grosze(Decimal(u * PowerOfTen[2], s + 2)) = HalfAway(u * PowerOfTen[2], PowerOfTen[s])
    <3>1. ~ (s + 2 <= 2) /\ (s + 2) - 2 = s
      BY <1>3
    <3>2. QED
      BY <3>1, GroszeCases
  <2>2. u * PowerOfTen[2] = 100 * u
    BY PowersOfTen
  <2>3. QED
    BY <1>1, <2>1, <2>2
<1>4. CASE s = 0
  <2>1. Grosze(Decimal(u, s)) = u * 100
    BY <1>4, GroszeCases, PowersOfTen
  <2>2. HalfAway(100 * u, 1) = 100 * u
    <3>1. \A x \in Nat : (2 * x + 1) \div 2 = x
      BY Quotient
    <3>2. QED
      BY <3>1 DEF HalfAway, Magnitude
  <2>3. QED
    BY <1>4, <2>1, <2>2, PowersOfTen
<1>5. QED
  BY <1>3, <1>4

\* What a number of columns need to be for a line to have amounts.
IsLine(line) ==
    /\ line.quantity \in Decimals /\ line.unitNetPrice \in Decimals
    /\ line.vatRate \in VatRates

\* The product of quantity and price, before it is rounded.
Unscaled(line) == line.quantity.unscaled * line.unitNetPrice.unscaled
Scale(line) == line.quantity.scale + line.unitNetPrice.scale

\* The net amount is the rounded product.
LEMMA NetOfLine ==
  \A line : Net(line) = Grosze(Decimal(Unscaled(line), Scale(line)))
BY DecimalFields DEF Net, Times, Unscaled, Scale

\* The product and the net amount are numbers.
LEMMA LineParts ==
  \A line : IsLine(line) => Unscaled(line) \in Int /\ Scale(line) \in Nat /\ Net(line) \in Int
<1> SUFFICES ASSUME NEW line, IsLine(line)
             PROVE  Unscaled(line) \in Int /\ Scale(line) \in Nat /\ Net(line) \in Int
  OBVIOUS
<1>1. Unscaled(line) \in Int /\ Scale(line) \in Nat
  BY DEF IsLine, Decimals, Unscaled, Scale
<1>2. QED
  BY <1>1, NetOfLine, GroszeType, DecimalType

\* The rates of VAT, and those without any.
LEMMA Factors ==
  \A r \in VatRates : VatFactor(r) \in {0, 5, 8, 23} /\ (r \in ZeroVatRates => VatFactor(r) = 0)
<1> SUFFICES ASSUME NEW r \in VatRates
             PROVE  VatFactor(r) \in {0, 5, 8, 23} /\ (r \in ZeroVatRates => VatFactor(r) = 0)
  OBVIOUS
<1>1. CASE r \in ZeroVatRates
  BY <1>1 DEF VatFactor, ZeroVatRates
<1>2. CASE r \in {"23", "8", "5"}
  BY <1>2 DEF VatFactor, ZeroVatRates
<1>3. QED
  BY <1>1, <1>2 DEF VatRates, ZeroVatRates

\* The VAT of a line is the rounded share of the net amount.
LEMMA VatOfLine ==
  \A line : IsLine(line) =>
     /\ Vat(line) = IF line.vatRate \in ZeroVatRates THEN 0
                    ELSE Grosze(Decimal(Net(line) * VatFactor(line.vatRate), 4))
     /\ Vat(line) \in Int
<1> SUFFICES ASSUME NEW line, IsLine(line)
             PROVE  /\ Vat(line) = IF line.vatRate \in ZeroVatRates THEN 0
                         ELSE Grosze(Decimal(Net(line) * VatFactor(line.vatRate), 4))
                    /\ Vat(line) \in Int
  OBVIOUS
<1>1. Vat(line) = IF line.vatRate \in ZeroVatRates THEN 0
                  ELSE Grosze(Decimal(Net(line) * VatFactor(line.vatRate), 4))
  BY DecimalFields DEF Vat, Times
<1>2. Net(line) \in Int /\ VatFactor(line.vatRate) \in Int
  BY LineParts, Factors DEF IsLine
<1>3. Decimal(Net(line) * VatFactor(line.vatRate), 4) \in Decimals
  BY <1>2, DecimalType
<1>4. QED
  BY <1>1, <1>3, GroszeType

\* The totals of a line are amounts.
LEMMA LineType ==
  \A line : IsLine(line) =>
     /\ LineTotals(line) \in Amounts
     /\ LineTotals(line).net = Net(line) /\ LineTotals(line).vat = Vat(line)
     /\ LineTotals(line).gross = Net(line) + Vat(line)
<1> SUFFICES ASSUME NEW line, IsLine(line)
             PROVE  /\ LineTotals(line) \in Amounts
                    /\ LineTotals(line).net = Net(line) /\ LineTotals(line).vat = Vat(line)
                    /\ LineTotals(line).gross = Net(line) + Vat(line)
  OBVIOUS
<1>1. Net(line) \in Int /\ Vat(line) \in Int
  BY LineParts, VatOfLine
<1>2. QED
  BY <1>1 DEF LineTotals, Amounts

\* Lines of the same net amount and rate have the same amounts.
LEMMA SameTotals ==
  ASSUME NEW a, NEW b, IsLine(a), IsLine(b), a.vatRate = b.vatRate, Net(a) = Net(b)
  PROVE  LineTotals(a) = LineTotals(b)
<1>1. Vat(a) = Vat(b)
  BY VatOfLine
<1>2. QED
  BY <1>1 DEF LineTotals

\* A line at the opposite price has the opposite amounts.
LEMMA OppositeTotals ==
  ASSUME NEW a, NEW b, IsLine(a), b.quantity = a.quantity, b.vatRate = a.vatRate,
         b.unitNetPrice = Decimal(-a.unitNetPrice.unscaled, a.unitNetPrice.scale)
  PROVE  IsLine(b) /\ LineTotals(b) = Minus(LineTotals(a))
<1>0. a.unitNetPrice.unscaled \in Int /\ a.quantity.unscaled \in Int /\ a.unitNetPrice.scale \in Nat
  BY DEF IsLine, Decimals
<1>1. IsLine(b)
  <2>1. -a.unitNetPrice.unscaled \in Int
    BY <1>0
  <2>2. QED
    BY <1>0, <2>1, DecimalType DEF IsLine
<1>2. Unscaled(b) = -Unscaled(a) /\ Scale(b) = Scale(a)
  <2>1. \A x, y \in Int : x * (-y) = -(x * y)
    OBVIOUS
  <2>2. QED
    BY <1>0, <2>1, DecimalFields DEF Unscaled, Scale
<1>3. Net(b) = -Net(a)
  BY <1>2, NetOfLine, LineParts, GroszeIsOdd
<1>4. Vat(b) = -Vat(a)
  <2> DEFINE f == VatFactor(a.vatRate)
  <2>1. Net(a) \in Int /\ f \in Int
    BY LineParts, Factors DEF IsLine
  <2>2. (-Net(a)) * f = -(Net(a) * f) /\ Net(a) * f \in Int
    <3>1. \A x, y \in Int : (-x) * y = -(x * y) /\ x * y \in Int
      OBVIOUS
    <3> HIDE DEF f
    <3>2. QED
      BY <2>1, <3>1
  <2>3. Grosze(Decimal(-(Net(a) * f), 4)) = -Grosze(Decimal(Net(a) * f, 4))
    <3> HIDE DEF f
    <3>1. QED
      BY <2>2, GroszeIsOdd
  <2>4. QED
    BY <1>1, <1>3, <2>2, <2>3, VatOfLine
<1>5. LineTotals(b) \in Amounts /\ Minus(LineTotals(a)) \in Amounts
  BY <1>1, LineType, PlusType
<1>6. /\ LineTotals(b).net = -Net(a) /\ LineTotals(b).vat = -Vat(a)
      /\ LineTotals(b).gross = (-Net(a)) + (-Vat(a))
  BY <1>1, <1>3, <1>4, LineType
<1>7. /\ Minus(LineTotals(a)).net = -Net(a) /\ Minus(LineTotals(a)).vat = -Vat(a)
      /\ Minus(LineTotals(a)).gross = -(Net(a) + Vat(a))
  BY LineType, PlusType
<1>8. (-Net(a)) + (-Vat(a)) = -(Net(a) + Vat(a))
  <2>1. \A x, y \in Int : (-x) + (-y) = -(x + y)
    OBVIOUS
  <2>2. QED
    BY <2>1, LineParts, VatOfLine
<1>9. QED
  BY <1>1, <1>5, <1>6, <1>7, <1>8, AmountsEqual

-----------------------------------------------------------------------------
(***************************************************************************)
(* What the database stores, and roundings that differ.                    *)
(***************************************************************************)
\* Final zeros can be taken away until there are none, and not beyond.
LEMMA TrimmedDecimal ==
  ASSUME NEW v \in Decimals
  PROVE  /\ Trimmed(v) \in Decimals
         /\ Trimmed(v).scale \in 0 .. v.scale
         /\ v.unscaled = Trimmed(v).unscaled * PowerOfTen[v.scale - Trimmed(v).scale]
<1> DEFINE u == v.unscaled
           s == v.scale
           Exactly(t) == u % PowerOfTen[s - t] = 0
           t0 == FewestDecimals(v)
<1>0. u \in Int /\ s \in Nat
  BY DEF Decimals
<1>1. Exactly(s) /\ s \in 0 .. s
  <2>1. u % 1 = 0 /\ s - s = 0
    BY <1>0
  <2>2. QED
    BY <1>0, <2>1, PowersOfTen
<1>2. \E t \in 0 .. s : Exactly(t) /\ \A less \in 0 .. t - 1 : ~ Exactly(less)
  <2> DEFINE T == {t \in 0 .. s : Exactly(t)}
  <2>1. T # {} /\ T \subseteq Nat
    BY <1>1
  <2>2. PICK t \in T : \A k \in T : t <= k
    <3> HIDE DEF T
    <3>1. QED
      BY <2>1, LeastNumber
  <2>3. \A less \in 0 .. t - 1 : less \notin T /\ less \in 0 .. s
    BY <1>0, <2>2
  <2>4. QED
    BY <2>2, <2>3
<1>3. t0 \in 0 .. s /\ Exactly(t0)
  BY <1>2 DEF FewestDecimals
<1> DEFINE p == PowerOfTen[s - t0]
<1>4. s - t0 \in Nat /\ t0 \in Nat /\ p \in Nat \ {0}
  <2>1. s - t0 \in Nat /\ t0 \in Nat
    BY <1>0, <1>3
  <2> HIDE DEF t0
  <2>2. QED
    BY <2>1, PowersArePositive
<1>5. Trimmed(v) = Decimal(u \div p, t0)
  BY DEF Trimmed
<1>6. u \div p \in Int /\ u = (u \div p) * p
  <2>1. u % p = 0
    BY <1>3
  <2>2. \A x \in Int, d \in Nat \ {0} : x \div d \in Int /\ (x % d = 0 => x = (x \div d) * d)
    OBVIOUS
  <2> HIDE DEF u, p
  <2>3. QED
    BY <1>0, <1>4, <2>1, <2>2
<1>7. QED
  BY <1>3, <1>4, <1>5, <1>6, DecimalFields, DecimalType

\* The columns keep numbers of at most four decimals as they are.
Value(d) == d.unscaled * PowerOfTen[StoredScale - d.scale]

\* What the database stores is a decimal of its scale.
LEMMA StoredType ==
  \A d \in Decimals : Stored(d) \in Decimals /\ Stored(d).scale \in 0 .. StoredScale
<1> SUFFICES ASSUME NEW d \in Decimals
             PROVE  Stored(d) \in Decimals /\ Stored(d).scale \in 0 .. StoredScale
  OBVIOUS
<1>1. RoundToScale(d, 4) \in Decimals /\ RoundToScale(d, 4).scale = 4
  <2> DEFINE u == d.unscaled
             s == d.scale
  <2>0. u \in Int /\ s \in Nat /\ d = Decimal(u, s)
    BY DecimalType
  <2>1. CASE s <= 4
    <3>1. 4 - s \in Nat
      BY <2>0, <2>1
    <3>2. u * PowerOfTen[4 - s] \in Int
      BY <2>0, <3>1, PowersArePositive
    <3>3. QED
      BY <2>0, <2>1, <3>2, RoundToScaleCases, DecimalType, DecimalFields
  <2>2. CASE ~ (s <= 4)
    <3>1. s - 4 \in Nat
      BY <2>0, <2>2
    <3>2. HalfAway(u, PowerOfTen[s - 4]) \in Int
      BY <2>0, <3>1, PowersArePositive, HalfAwayType
    <3>3. QED
      BY <2>0, <2>2, <3>2, RoundToScaleCases, DecimalType, DecimalFields
  <2>3. QED
    BY <2>1, <2>2
<1>2. QED
  BY <1>1, TrimmedDecimal DEF Stored, StoredScale

\* A decimal that is short enough is stored as it is.
LEMMA StoredKeeps ==
  ASSUME NEW d \in Decimals, d.scale <= StoredScale
  PROVE  Value(Stored(d)) = Value(d) /\ Value(d) \in Int
<1> DEFINE v == RoundToScale(d, 4)
<1>0. d.unscaled \in Int /\ d.scale \in Nat /\ d = Decimal(d.unscaled, d.scale)
  BY DecimalType
<1>1. v = Decimal(Value(d), 4)
  BY <1>0, RoundToScaleCases DEF Value, StoredScale
<1>2. Value(d) \in Int
  <2>1. 4 - d.scale \in Nat
    BY <1>0 DEF StoredScale
  <2>2. QED
    BY <1>0, <2>1, PowersArePositive DEF Value, StoredScale
<1>3. v \in Decimals /\ v.unscaled = Value(d) /\ v.scale = 4
  BY <1>1, <1>2, DecimalFields, DecimalType
<1> HIDE DEF v
<1>4. Value(d) = Trimmed(v).unscaled * PowerOfTen[4 - Trimmed(v).scale]
  BY <1>3, TrimmedDecimal
<1>5. QED
  BY <1>2, <1>4 DEF Value, Stored, StoredScale, v

\* The net amount of a line of such numbers depends on their values alone.
LEMMA NetOfValues ==
  ASSUME NEW line, IsLine(line), line.quantity.scale <= StoredScale,
         line.unitNetPrice.scale <= StoredScale
  PROVE  Net(line) = Grosze(Decimal(Value(line.quantity) * Value(line.unitNetPrice), 8))
<1> DEFINE a == line.quantity.unscaled
           s == line.quantity.scale
           b == line.unitNetPrice.unscaled
           t == line.unitNetPrice.scale
           x == PowerOfTen[4 - s]
           y == PowerOfTen[4 - t]
<1>1. a \in Int /\ b \in Int /\ s \in Nat /\ t \in Nat
  BY DEF IsLine, Decimals
<1>2. 4 - s \in Nat /\ 4 - t \in Nat
  BY <1>1 DEF StoredScale
<1>3. x \in Nat /\ y \in Nat /\ PowerOfTen[(4 - s) + (4 - t)] = x * y
  <2> HIDE DEF s, t
  <2>1. QED
    BY <1>2, PowersArePositive, PowersMultiply
<1>4. Grosze(Decimal((a * b) * PowerOfTen[(4 - s) + (4 - t)], (s + t) + ((4 - s) + (4 - t))))
      = Grosze(Decimal(a * b, s + t))
  <2>1. a * b \in Int /\ s + t \in Nat /\ (4 - s) + (4 - t) \in Nat
    BY <1>1, <1>2
  <2>2. \A u \in Int, r, k \in Nat :
           Grosze(Decimal(u * PowerOfTen[k], r + k)) = Grosze(Decimal(u, r))
    BY GroszeOfScaled
  <2> HIDE DEF a, b, s, t
  <2>3. QED
    BY <2>1, <2>2
<1>5. (s + t) + ((4 - s) + (4 - t)) = 8
  BY <1>1
<1>6. (a * b) * (x * y) = (a * x) * (b * y)
  <2>1. \A i, j \in Int, k, l \in Nat : (i * j) * (k * l) = (i * k) * (j * l)
    OBVIOUS
  <2> HIDE DEF a, b, x, y
  <2>2. QED
    BY <1>1, <1>3, <2>1
<1>7. Value(line.quantity) = a * x /\ Value(line.unitNetPrice) = b * y
  BY DEF Value, StoredScale
<1>8. QED
  BY <1>3, <1>4, <1>5, <1>6, <1>7, NetOfLine DEF Unscaled, Scale

\* What a row keeps of a line.
LEMMA RowOfLine ==
  ASSUME NEW line, IsLine(line)
  PROVE  /\ IsLine(Row(line)) /\ Row(line).vatRate = line.vatRate
         /\ Row(line).totals = LineTotals(line)
         /\ Row(line).quantity.scale <= StoredScale /\ Row(line).unitNetPrice.scale <= StoredScale
<1>1. /\ Stored(line.quantity) \in Decimals /\ Stored(line.quantity).scale \in 0 .. StoredScale
      /\ Stored(line.unitNetPrice) \in Decimals
      /\ Stored(line.unitNetPrice).scale \in 0 .. StoredScale
  BY StoredType DEF IsLine
<1>2. QED
  BY <1>1 DEF IsLine, Row, StoredScale

\* A row of numbers of at most four decimals says what was typed.
LEMMA FineRow ==
  ASSUME NEW line, IsLine(line), line.quantity.scale <= StoredScale,
         line.unitNetPrice.scale <= StoredScale
  PROVE  LineTotals(Row(line)) = LineTotals(line)
<1>1. /\ Value(Row(line).quantity) = Value(line.quantity)
      /\ Value(Row(line).unitNetPrice) = Value(line.unitNetPrice)
  BY StoredKeeps DEF IsLine, Row
<1>2. Net(Row(line)) = Net(line)
  BY <1>1, RowOfLine, NetOfValues
<1>3. QED
  BY <1>2, RowOfLine, SameTotals

=============================================================================
