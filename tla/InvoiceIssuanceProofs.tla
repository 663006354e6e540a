------------------------ MODULE InvoiceIssuanceProofs ------------------------
(***************************************************************************)
(* Theorems about InvoiceIssuance, for any sets of invoices, requests,     *)
(* drafts, periods and accounts.  Types and the uniqueness of numbers hold *)
(* for every behaviour; what an ISSUED invoice and its transmission look   *)
(* like, under the conditions of those theorems.                           *)
(***************************************************************************)
EXTENDS InvoiceIssuance, SequenceTheorems, TLAPS

(***************************************************************************)
(* Types.  A request under way has an invoice, and issuers and submitters  *)
(* have a document.                                                        *)
(***************************************************************************)
SubmitterPc == {"submit", "retry", "claimed"}
ReverterPc == {"deleting", "reverting"}

RequestsOK ==
    \A r \in Requests :
        /\ pc[r] \in IssuerPc => r \in Issuers
        /\ pc[r] \in SubmitterPc => r \in Submitters
        /\ pc[r] \in ReverterPc => r \in Reverters
        /\ pc[r] \in IssuerPc \cup SubmitterPc => job[r] \in Invoices /\ doc[r] \in Documents
        /\ pc[r] \in ReverterPc => job[r] \in Invoices

TypeInv == TypeOK /\ RequestsOK

LEMMA InitTypeInv == Init => TypeInv
<1> SUFFICES ASSUME Init PROVE TypeInv
  OBVIOUS
<1>1. /\ pdfs \in [Invoices -> Seq(FileRecords)]
      /\ xmls \in [Invoices -> Seq(FileRecords)]
  BY EmptySeq DEF Init
<1>2. TypeOK
  BY <1>1, MaxNumberAssumption, PeriodAssumption
     DEF Init, TypeOK, InvoiceStatus, KsefState, RequestPc
<1>3. RequestsOK
  BY DEF Init, RequestsOK, IssuerPc, SubmitterPc, ReverterPc
<1>4. QED
  BY <1>2, <1>3 DEF TypeInv

\* A list of file records remains one when a file is lost or stored, and its
\* documents stay where they are.
WithLost(fs, k) == [fs EXCEPT ![k].valid = FALSE]

LEMMA LoseRecord ==
  ASSUME NEW fs \in Seq(FileRecords), NEW k \in DOMAIN fs
  PROVE  /\ WithLost(fs, k) \in Seq(FileRecords)
         /\ Len(WithLost(fs, k)) = Len(fs)
         /\ DOMAIN WithLost(fs, k) = DOMAIN fs
         /\ \A j \in DOMAIN fs : WithLost(fs, k)[j].doc = fs[j].doc
<1>1. DOMAIN fs = 1..Len(fs) /\ Len(fs) \in Nat /\ k \in 1..Len(fs)
  BY LenProperties
<1>2. \A j \in 1..Len(fs) : fs[j] \in FileRecords
  BY ElementOfSeq
<1> DEFINE lost == [fs[k] EXCEPT !.valid = FALSE]
<1>3. lost \in FileRecords /\ lost.doc = fs[k].doc
  BY <1>1, <1>2 DEF FileRecords
<1>4. WithLost(fs, k) = [fs EXCEPT ![k] = lost]
  BY DEF WithLost
<1> HIDE DEF lost
<1>5. /\ [fs EXCEPT ![k] = lost] \in Seq(FileRecords)
      /\ Len([fs EXCEPT ![k] = lost]) = Len(fs)
      /\ \A j \in 1..Len(fs) :
            [fs EXCEPT ![k] = lost][j] = IF j = k THEN lost ELSE fs[j]
  BY <1>1, <1>3, ExceptSeq
<1>6. DOMAIN WithLost(fs, k) = DOMAIN fs
  BY <1>4
<1>7. QED
  BY <1>1, <1>3, <1>4, <1>5, <1>6

LEMMA StoreRecord ==
  ASSUME NEW fs \in Seq(FileRecords), NEW k \in DOMAIN fs, NEW f \in FileRecords,
         fs[k].doc = f.doc
  PROVE  LET gs == [fs EXCEPT ![k] = IF @.valid THEN @ ELSE f] IN
         /\ gs \in Seq(FileRecords)
         /\ DOMAIN gs = DOMAIN fs
         /\ \A j \in DOMAIN fs : gs[j].doc = fs[j].doc
<1>1. DOMAIN fs = 1..Len(fs) /\ Len(fs) \in Nat /\ k \in 1..Len(fs)
  BY LenProperties
<1> DEFINE new == IF fs[k].valid THEN fs[k] ELSE f
           gs == [fs EXCEPT ![k] = new]
<1>2. fs[k] \in FileRecords
  BY <1>1, ElementOfSeq
<1>3. new \in FileRecords /\ new.doc = fs[k].doc
  BY <1>2
<1> HIDE DEF new
<1>4. /\ gs \in Seq(FileRecords)
      /\ Len(gs) = Len(fs)
      /\ \A j \in 1..Len(fs) : gs[j] = IF j = k THEN new ELSE fs[j]
  BY <1>1, <1>3, ExceptSeq
<1>5. DOMAIN gs = DOMAIN fs
  OBVIOUS
<1>6. gs = [fs EXCEPT ![k] = IF @.valid THEN @ ELSE f]
  BY DEF new
<1>7. QED
  BY <1>1, <1>3, <1>4, <1>5, <1>6

LEMMA UserKeepsTypes ==
  ASSUME TypeInv, UserNext
  PROVE  TypeInv'
<1> USE DEF TypeInv, TypeOK, RequestsOK, company, invoice, files, delivery, request
<1>1. ASSUME NEW i \in Invoices, GoStale(i)
      PROVE  TypeInv'
  BY <1>1 DEF GoStale
<1>2. ASSUME NEW i \in Invoices, Lose(i)
      PROVE  TypeInv'
  <2>1. UNCHANGED <<company, invoice, delivery, request>>
    BY <1>2 DEF Lose
  <2>2. ASSUME NEW k \in DOMAIN pdfs[i], pdfs' = [pdfs EXCEPT ![i][k].valid = FALSE]
        PROVE  pdfs' \in [Invoices -> Seq(FileRecords)]
    <3>1. WithLost(pdfs[i], k) \in Seq(FileRecords)
      BY LoseRecord
    <3>2. QED
      BY <2>2, <3>1 DEF WithLost
  <2>3. ASSUME NEW k \in DOMAIN xmls[i], xmls' = [xmls EXCEPT ![i][k].valid = FALSE]
        PROVE  xmls' \in [Invoices -> Seq(FileRecords)]
    <3>1. WithLost(xmls[i], k) \in Seq(FileRecords)
      BY LoseRecord
    <3>2. QED
      BY <2>3, <3>1 DEF WithLost
  <2>4. /\ pdfs' \in [Invoices -> Seq(FileRecords)]
        /\ xmls' \in [Invoices -> Seq(FileRecords)]
    BY <1>2, <2>2, <2>3 DEF Lose
  <2>5. QED
    BY <2>1, <2>4
<1>3. ASSUME NEW i \in Invoices, NEW d \in Drafts, Edit(i, d)
      PROVE  TypeInv'
  BY <1>3 DEF Edit
<1>4. ASSUME NEW a \in Accounts, EditCompany(a)
      PROVE  TypeInv'
  BY <1>4 DEF EditCompany
<1>5. QED
  BY <1>1, <1>2, <1>3, <1>4 DEF UserNext

\* The number given to an invoice is one, and counting it keeps the counters.
LEMMA NumberingKeepsTypes ==
  ASSUME TypeInv, NEW i \in Invoices,
         number[i] # Null \/ seq[PeriodOf[draft[i]]] < MaxNumber
  PROVE  /\ NextNumber(i) \in Numbers
         /\ CountUp(i) \in [Periods -> 0..MaxNumber]
<1>1. /\ seq \in [Periods -> 0..MaxNumber]
      /\ number[i] \in Numbers \cup {Null}
      /\ PeriodOf[draft[i]] \in Periods
  BY PeriodAssumption DEF TypeInv, TypeOK
<1>2. CASE number[i] # Null
  BY <1>1, <1>2 DEF NextNumber, CountUp
<1>3. CASE number[i] = Null
  <2>1. seq[PeriodOf[draft[i]]] + 1 \in 1..MaxNumber
    BY <1>1, <1>3, MaxNumberAssumption
  <2>2. QED
    BY <1>1, <1>3, <2>1, MaxNumberAssumption DEF NextNumber, CountUp, Numbers
<1>4. QED
  BY <1>2, <1>3

LEMMA IssuerKeepsTypes ==
  ASSUME TypeInv, NEW r \in Issuers, IssuerNext(r)
  PROVE  TypeInv'
<1> USE DEF TypeInv, TypeOK, RequestsOK, Move, company, invoice, files, delivery, request
<1> r \in Requests
  BY DEF Requests
<1>1. ASSUME NEW i \in Invoices, Reserve(r, i)
      PROVE  TypeInv'
  <2>1. /\ NextNumber(i) \in Numbers
        /\ CountUp(i) \in [Periods -> 0..MaxNumber]
    BY <1>1, NumberingKeepsTypes DEF Reserve
  <2>2. [number |-> NextNumber(i), draft |-> draft[i], account |-> account] \in Documents
    BY <2>1 DEF Documents
  <2>3. TypeOK'
    BY <1>1, <2>1, <2>2 DEF Reserve, InvoiceStatus, RequestPc, IssuerPc
  <2>4. RequestsOK'
    BY <1>1, <2>2 DEF Reserve, IssuerPc, SubmitterPc, ReverterPc
  <2>5. QED
    BY <2>3, <2>4
<1>2. ASSUME NEW i \in Invoices, ResetStale(r, i)
      PROVE  TypeInv'
  BY <1>2 DEF ResetStale, InvoiceStatus, RequestPc, IssuerPc, SubmitterPc, ReverterPc
<1>3. CASE WriteTotals(r)
  <2>1. doc[r] \in Documents
    BY <1>3 DEF WriteTotals, IssuerPc
  <2>2. doc[r].draft \in Drafts
    BY <2>1 DEF Documents
  <2>3. TypeOK'
    BY <1>3, <2>2 DEF WriteTotals, RequestPc, IssuerPc
  <2>4. RequestsOK'
    BY <1>3 DEF WriteTotals, IssuerPc, SubmitterPc, ReverterPc
  <2>5. QED
    BY <2>3, <2>4
<1>4. ASSUME pc[r] \in IssuerPc
      PROVE  Record(r) \in FileRecords /\ Record(r).doc = doc[r]
  <2>1. doc[r] \in Documents
    BY <1>4
  <2>2. QED
    BY <2>1 DEF Record, FileRecords
<1>5. CASE SavePdf(r)
  <2>1. Record(r) \in FileRecords /\ pdfs[job[r]] \in Seq(FileRecords)
    BY <1>4, <1>5 DEF SavePdf, IssuerPc
  <2>2. Append(pdfs[job[r]], Record(r)) \in Seq(FileRecords)
    BY <2>1, AppendProperties
  <2>3. TypeOK'
    BY <1>5, <2>2 DEF SavePdf, RequestPc, IssuerPc
  <2>4. RequestsOK'
    BY <1>5 DEF SavePdf, IssuerPc, SubmitterPc, ReverterPc
  <2>5. QED
    BY <2>3, <2>4
<1>6. CASE SaveXml(r)
  <2>1. /\ Record(r) \in FileRecords /\ Record(r).doc = doc[r]
        /\ job[r] \in Invoices
        /\ xmls[job[r]] \in Seq(FileRecords)
    BY <1>4, <1>6 DEF SaveXml, IssuerPc
  <2>2. Append(xmls[job[r]], Record(r)) \in Seq(FileRecords)
    BY <2>1, AppendProperties
  <2>3. ASSUME NEW k \in DOMAIN xmls[job[r]], Stored(r, k)
        PROVE  [xmls[job[r]] EXCEPT ![k] = IF @.valid THEN @ ELSE Record(r)] \in Seq(FileRecords)
    <3>1. xmls[job[r]][k].doc = Record(r).doc
      BY <2>1, <2>3 DEF Stored
    <3> HIDE DEF TypeInv
    <3>2. QED
      BY <2>1, <3>1, StoreRecord
  <2>4. \E gs \in Seq(FileRecords) : xmls' = [xmls EXCEPT ![job[r]] = gs]
    <3>1. CASE \E k \in DOMAIN xmls[job[r]] : Stored(r, k)
      <4>1. PICK k \in DOMAIN xmls[job[r]] :
               /\ Stored(r, k)
               /\ xmls' = [xmls EXCEPT ![job[r]][k] = IF @.valid THEN @ ELSE Record(r)]
        BY <1>6, <3>1 DEF SaveXml
      <4>2. QED
        BY <2>3, <4>1
    <3>2. CASE ~\E k \in DOMAIN xmls[job[r]] : Stored(r, k)
      BY <1>6, <2>2, <3>2 DEF SaveXml
    <3>3. QED
      BY <3>1, <3>2
  <2>5. TypeOK'
    BY <1>6, <2>4 DEF SaveXml, RequestPc, IssuerPc
  <2>6. RequestsOK'
    BY <1>6 DEF SaveXml, IssuerPc, SubmitterPc, ReverterPc
  <2>7. QED
    BY <2>5, <2>6
<1>7. CASE Finalize(r)
  BY <1>7 DEF Finalize, InvoiceStatus, RequestPc, IssuerPc, SubmitterPc, ReverterPc
<1>8. QED
  BY <1>1, <1>2, <1>3, <1>5, <1>6, <1>7 DEF IssuerNext

LEMMA ReverterKeepsTypes ==
  ASSUME TypeInv, NEW r \in Reverters, ReverterNext(r)
  PROVE  TypeInv'
<1> USE DEF TypeInv, TypeOK, RequestsOK, Move, company, invoice, files, delivery, request
<1> r \in Requests
  BY DEF Requests
<1>1. ASSUME NEW i \in Invoices, ReadForRevert(r, i)
      PROVE  TypeInv'
  BY <1>1 DEF ReadForRevert, RequestPc, IssuerPc, SubmitterPc, ReverterPc
<1>2. CASE DeleteFiles(r)
  <2>1. <<>> \in Seq(FileRecords)
    BY EmptySeq
  <2>2. QED
    BY <1>2, <2>1 DEF DeleteFiles, RequestPc, IssuerPc, SubmitterPc, ReverterPc
<1>3. CASE Revert(r)
  BY <1>3 DEF Revert, InvoiceStatus, RequestPc, IssuerPc, SubmitterPc, ReverterPc
<1>4. QED
  BY <1>1, <1>2, <1>3 DEF ReverterNext

LEMMA SubmitterKeepsTypes ==
  ASSUME TypeInv, NEW r \in Submitters, SubmitterNext(r)
  PROVE  TypeInv'
<1> USE DEF TypeInv, TypeOK, RequestsOK, Move, company, invoice, files, delivery, request
<1> r \in Requests
  BY DEF Requests
<1>1. ASSUME NEW i \in Invoices, NEW to \in {"submit", "retry"}, Read(r, i, to)
      PROVE  TypeInv'
  <2>1. Rebuilt(i) \in Documents
    BY <1>1 DEF Read, Rebuilt, Documents
  <2>2. QED
    BY <1>1, <2>1 DEF Read, RequestPc, IssuerPc, SubmitterPc, ReverterPc
<1>2. CASE Claim(r)
  BY <1>2 DEF Claim, KsefState, RequestPc, IssuerPc, SubmitterPc, ReverterPc
<1>3. CASE Transmit(r)
  BY <1>3 DEF Transmit, KsefState, RequestPc, IssuerPc, SubmitterPc, ReverterPc
<1>4. CASE FailSafely(r)
  BY <1>4 DEF FailSafely, KsefState, RequestPc, IssuerPc, SubmitterPc, ReverterPc
<1>5. QED
  BY <1>1, <1>2, <1>3, <1>4 DEF SubmitterNext, ReadForSubmit, ReadForRetry

LEMMA NextTypeInv == TypeInv /\ [Next]_vars => TypeInv'
<1> SUFFICES ASSUME TypeInv, [Next]_vars PROVE TypeInv'
  OBVIOUS
<1>1. ASSUME NEW r \in Requests, Ends(r)
      PROVE  TypeInv'
  BY <1>1 DEF Ends, TypeInv, TypeOK, RequestsOK, RequestPc, IssuerPc, SubmitterPc,
     ReverterPc, company, invoice, files, delivery
<1>2. CASE UNCHANGED vars
  BY <1>2 DEF TypeInv, TypeOK, RequestsOK, vars, company, invoice, files, delivery, request
<1>3. QED
  BY <1>1, <1>2, UserKeepsTypes, IssuerKeepsTypes, ReverterKeepsTypes,
     SubmitterKeepsTypes DEF Next

\* Every column, file record and request keeps to its type.
THEOREM TypeCorrect == Spec => []TypeOK
<1>1. Spec => []TypeInv
  BY InitTypeInv, NextTypeInv, PTL DEF Spec
<1>2. TypeInv => TypeOK
  BY DEF TypeInv
<1>3. QED
  BY <1>1, <1>2, PTL

(***************************************************************************)
(* Numbers.  A number is in use by the invoice that has it, by the one on  *)
(* which a request works with it and by the one it was sent with.  What is *)
(* in use has been counted, and by one invoice only: a reversal gives up   *)
(* the number in the row, never its count.                                 *)
(***************************************************************************)
Uses(n, i) ==
    \/ number[i] = n
    \/ \E r \in Requests :
          pc[r] \in IssuerPc \cup SubmitterPc /\ job[r] = i /\ doc[r].number = n
    \/ sent[i] # Null /\ sent[i].number = n

Counted(n) == n[2] <= seq[n[1]]

NumberInv ==
    /\ \A n \in Numbers, i \in Invoices : Uses(n, i) => Counted(n)
    /\ \A n \in Numbers, i, j \in Invoices : Uses(n, i) /\ Uses(n, j) => i = j

\* A step that puts no number into use keeps the invariant.
LEMMA NoNewUse ==
  ASSUME NumberInv, seq' = seq,
         \A n \in Numbers, i \in Invoices : Uses(n, i)' => Uses(n, i)
  PROVE  NumberInv'
BY DEF NumberInv, Counted

LEMMA UserKeepsNumbers ==
  ASSUME TypeInv, NumberInv, UserNext
  PROVE  NumberInv'
<1>1. UNCHANGED <<seq, number, delivery, request>>
  BY DEF UserNext, GoStale, Lose, Edit, EditCompany, company, invoice
<1>2. QED
  BY <1>1, NoNewUse DEF Uses, delivery, request

LEMMA IssuerKeepsNumbers ==
  ASSUME TypeInv, NumberInv, NEW r \in Issuers, IssuerNext(r)
  PROVE  NumberInv'
<1> USE DEF Move, company, delivery
<1> r \in Requests
  BY DEF Requests
<1>1. ASSUME NEW i \in Invoices, Reserve(r, i)
      PROVE  NumberInv'
  <2>1. PICK m \in Numbers : m = NextNumber(i)
    BY <1>1, NumberingKeepsTypes DEF Reserve
  <2>0. PICK p \in Periods : p = PeriodOf[draft[i]]
    BY PeriodAssumption DEF TypeInv, TypeOK
  <2>2. /\ number' = [number EXCEPT ![i] = m]
        /\ seq' = CountUp(i)
        /\ job' = [job EXCEPT ![r] = i]
        /\ doc' = [doc EXCEPT ![r] = [number |-> m, draft |-> draft[i], account |-> account]]
        /\ pc[r] = "new" /\ pc' = [pc EXCEPT ![r] = "reserved"]
        /\ sent' = sent
    BY <1>1, <2>1 DEF Reserve
  <2>3. /\ seq \in [Periods -> 0..MaxNumber]
        /\ number \in [Invoices -> Numbers \cup {Null}]
        /\ job \in [Requests -> Invoices \cup {Null}]
        /\ pc \in [Requests -> RequestPc]
        /\ doc \in [Requests -> Documents \cup {Null}]
    BY DEF TypeInv, TypeOK
  <2>4. \A n \in Numbers, j \in Invoices :
           Uses(n, j)' => Uses(n, j) \/ (j = i /\ n = m)
    BY <2>2, <2>3 DEF Uses
  <2>5. CASE number[i] # Null
    <3>1. m = number[i] /\ seq' = seq
      BY <2>1, <2>2, <2>5 DEF NextNumber, CountUp
    <3>2. Uses(m, i)
      BY <3>1 DEF Uses
    <3>3. QED
      BY <2>4, <3>1, <3>2, NoNewUse
  <2>6. CASE number[i] = Null
    <3>1. m = <<p, seq[p] + 1>> /\ seq' = [seq EXCEPT ![p] = @ + 1]
      BY <2>0, <2>1, <2>2, <2>6 DEF NextNumber, CountUp
    <3>2. m[1] = p /\ m[2] = seq[p] + 1 /\ seq[p] \in Nat
      BY <2>3, <3>1, MaxNumberAssumption
    <3>3. \A j \in Invoices : ~Uses(m, j)
      BY <2>1, <3>2 DEF NumberInv, Counted
    <3>4. \A n \in Numbers : n[1] \in Periods /\ n[2] \in Nat
      BY MaxNumberAssumption DEF Numbers
    <3>5. \A q \in Periods : seq[q] \in Nat /\ seq'[q] \in Nat /\ seq[q] <= seq'[q]
      BY <2>3, <3>1, MaxNumberAssumption
    <3>6. \A n \in Numbers : Counted(n) => Counted(n)'
      BY <3>4, <3>5 DEF Counted
    <3>7. Counted(m)'
      <4>1. seq'[p] = seq[p] + 1
        BY <2>3, <3>1
      <4>2. m[2] <= seq'[m[1]]
        BY <3>2, <4>1
      <4>3. QED
        BY <4>2 DEF Counted
    <3>8. ASSUME NEW n \in Numbers, NEW j \in Invoices, Uses(n, j)'
          PROVE  Counted(n)'
      BY <2>4, <3>6, <3>7, <3>8 DEF NumberInv
    <3>9. ASSUME NEW n \in Numbers, NEW j \in Invoices, NEW k \in Invoices,
                 Uses(n, j)', Uses(n, k)'
          PROVE  j = k
      BY <2>4, <3>3, <3>9 DEF NumberInv
    <3>10. QED
      BY <3>8, <3>9 DEF NumberInv
  <2>7. QED
    BY <2>5, <2>6
<1>2. ASSUME NEW i \in Invoices, ResetStale(r, i)
      PROVE  NumberInv'
  BY <1>2, NoNewUse DEF ResetStale, Uses, TypeInv, TypeOK, IssuerPc, SubmitterPc
<1>3. CASE WriteTotals(r)
  BY <1>3, NoNewUse DEF WriteTotals, Uses, TypeInv, TypeOK, IssuerPc, SubmitterPc
<1>4. CASE SavePdf(r)
  BY <1>4, NoNewUse DEF SavePdf, Uses, TypeInv, TypeOK, IssuerPc, SubmitterPc, invoice
<1>5. CASE SaveXml(r)
  <2>1. /\ pc[r] = "printed" /\ pc' = [pc EXCEPT ![r] = "stored"]
        /\ UNCHANGED <<seq, number, sent, job, doc>>
    BY <1>5 DEF SaveXml, invoice
  <2>2. QED
    BY <2>1, NoNewUse DEF Uses, TypeInv, TypeOK, IssuerPc, SubmitterPc
<1>6. CASE Finalize(r)
  BY <1>6, NoNewUse DEF Finalize, Uses, TypeInv, TypeOK, IssuerPc, SubmitterPc
<1>7. QED
  BY <1>1, <1>2, <1>3, <1>4, <1>5, <1>6 DEF IssuerNext

LEMMA NullIsNoNumber == Null \notin Numbers
BY NullAssumption, MaxNumberAssumption DEF Numbers

LEMMA ReverterKeepsNumbers ==
  ASSUME TypeInv, NumberInv, NEW r \in Reverters, ReverterNext(r)
  PROVE  NumberInv'
<1> USE DEF Move, company, delivery, invoice, TypeInv, TypeOK, Uses, IssuerPc, SubmitterPc
<1> r \in Requests
  BY DEF Requests
<1>1. ASSUME NEW i \in Invoices, ReadForRevert(r, i)
      PROVE  NumberInv'
  BY <1>1, NoNewUse DEF ReadForRevert
<1>2. CASE DeleteFiles(r)
  BY <1>2, NoNewUse DEF DeleteFiles
<1>3. CASE Revert(r)
  BY <1>3, NoNewUse, NullIsNoNumber DEF Revert
<1>4. QED
  BY <1>1, <1>2, <1>3 DEF ReverterNext

LEMMA SubmitterKeepsNumbers ==
  ASSUME TypeInv, NumberInv, NEW r \in Submitters, SubmitterNext(r)
  PROVE  NumberInv'
<1> USE DEF Move, company, delivery, invoice, TypeInv, TypeOK, Uses, IssuerPc, SubmitterPc
<1> r \in Requests
  BY DEF Requests
<1>1. ASSUME NEW i \in Invoices, NEW to \in {"submit", "retry"}, Read(r, i, to)
      PROVE  NumberInv'
  BY <1>1, NoNewUse DEF Read, Rebuilt
<1>2. CASE Claim(r)
  BY <1>2, NoNewUse DEF Claim
<1>3. CASE Transmit(r)
  BY <1>3, NoNewUse DEF Transmit
<1>4. CASE FailSafely(r)
  BY <1>4, NoNewUse DEF FailSafely
<1>5. QED
  BY <1>1, <1>2, <1>3, <1>4 DEF SubmitterNext, ReadForSubmit, ReadForRetry

LEMMA NextNumberInv == TypeInv /\ NumberInv /\ [Next]_vars => NumberInv'
<1> SUFFICES ASSUME TypeInv, NumberInv, [Next]_vars PROVE NumberInv'
  OBVIOUS
<1>1. ASSUME NEW r \in Requests, Ends(r)
      PROVE  NumberInv'
  BY <1>1, NoNewUse DEF Ends, Uses, TypeInv, TypeOK, IssuerPc, SubmitterPc, company,
     invoice, delivery
<1>2. CASE UNCHANGED vars
  BY <1>2, NoNewUse DEF Uses, vars, company, invoice, delivery, request
<1>3. QED
  BY <1>1, <1>2, UserKeepsNumbers, IssuerKeepsNumbers, ReverterKeepsNumbers,
     SubmitterKeepsNumbers DEF Next

\* No number is ever given to two invoices, in the database or in KSeF: not
\* by concurrent requests, crashes, resets, reversals, or requests that
\* outlive the limit after which their reservation counts as stale.
THEOREM NumbersAreUnique == Spec => []NumberGivenOnce
<1>1. Init => NumberInv
  BY NullIsNoNumber DEF Init, NumberInv, Uses, IssuerPc, SubmitterPc
<1>2. Spec => [](TypeInv /\ NumberInv)
  BY <1>1, InitTypeInv, NextTypeInv, NextNumberInv, PTL DEF Spec
<1>3. TypeInv /\ NumberInv => NumberGivenOnce
  <2> SUFFICES ASSUME TypeInv, NumberInv, NEW i \in Invoices, NEW j \in Invoices, i # j
               PROVE  /\ number[i] # Null => number[j] # number[i]
                      /\ sent[i] # Null => number[j] # sent[i].number
                      /\ sent[i] # Null /\ sent[j] # Null => sent[j].number # sent[i].number
    BY DEF NumberGivenOnce
  <2>1. /\ number[i] # Null => number[i] \in Numbers
        /\ sent[i] # Null => sent[i].number \in Numbers
    BY DEF TypeInv, TypeOK, Documents
  <2>2. \A n \in Numbers : ~(Uses(n, i) /\ Uses(n, j))
    BY DEF NumberInv
  <2>3. QED
    BY <2>1, <2>2 DEF Uses
<1>4. QED
  BY <1>2, <1>3, PTL

\* A number is used up only by an invoice that had none, and is lost only by a
\* revert to DRAFT: retries, resets and late requests cost no number.
THEOREM NumbersAreKept == Spec => NumberIsKept
<1> DEFINE Kept ==
      /\ \A p \in Periods : seq'[p] # seq[p] =>
            /\ seq'[p] = seq[p] + 1
            /\ \E i \in Invoices : number[i] = Null /\ number'[i] = <<p, seq'[p]>>
      /\ \A i \in Invoices : number[i] # Null /\ number'[i] # number[i] =>
            number'[i] = Null /\ status'[i] = "DRAFT"
<1>1. TypeInv /\ [Next]_vars => Kept \/ UNCHANGED vars
  <2> SUFFICES ASSUME TypeInv, Next PROVE Kept
    BY DEF vars, company, invoice
  <2>1. CASE UNCHANGED <<seq, number>>
    BY <2>1
  <2>2. ASSUME NEW r \in Issuers, NEW i \in Invoices, Reserve(r, i)
        PROVE  Kept
    <3>1. PICK p \in Periods : p = PeriodOf[draft[i]]
      BY PeriodAssumption DEF TypeInv, TypeOK
    <3>2. /\ seq' = CountUp(i) /\ number' = [number EXCEPT ![i] = NextNumber(i)]
          /\ seq \in [Periods -> 0..MaxNumber] /\ number \in [Invoices -> Numbers \cup {Null}]
      BY <2>2 DEF Reserve, TypeInv, TypeOK
    <3>3. CASE number[i] # Null
      BY <3>2, <3>3 DEF CountUp, NextNumber
    <3>4. CASE number[i] = Null
      <4>1. /\ seq' = [seq EXCEPT ![p] = @ + 1]
            /\ number' = [number EXCEPT ![i] = <<p, seq[p] + 1>>]
        BY <3>1, <3>2, <3>4 DEF CountUp, NextNumber
      <4>2. seq'[p] = seq[p] + 1 /\ number'[i] = <<p, seq'[p]>>
        BY <3>2, <4>1
      <4>3. \A q \in Periods : q # p => seq'[q] = seq[q]
        BY <3>2, <4>1
      <4>4. \A j \in Invoices : j # i => number'[j] = number[j]
        BY <3>2, <4>1
      <4>5. QED
        BY <3>4, <4>2, <4>3, <4>4
    <3>5. QED
      BY <3>3, <3>4
  <2>3. ASSUME NEW r \in Reverters, Revert(r)
        PROVE  Kept
    <3>1. job[r] \in Invoices
      BY <2>3 DEF Revert, Move, TypeInv, RequestsOK, ReverterPc, Requests
    <3>2. QED
      BY <2>3, <3>1 DEF Revert, company, TypeInv, TypeOK
  <2>4. \/ UNCHANGED <<seq, number>>
        \/ \E r \in Issuers, i \in Invoices : Reserve(r, i)
        \/ \E r \in Reverters : Revert(r)
    BY DEF Next, UserNext, GoStale, Lose, Edit, EditCompany, IssuerNext, ResetStale,
       WriteTotals, SavePdf, SaveXml, Finalize, ReverterNext, ReadForRevert, DeleteFiles,
       SubmitterNext, ReadForSubmit, ReadForRetry, Read, Claim, Transmit, FailSafely, Ends,
       company, invoice
  <2>5. QED
    BY <2>1, <2>2, <2>3, <2>4
<1>2. QED
  BY <1>1, InitTypeInv, NextTypeInv, PTL DEF Spec, NumberIsKept

(***************************************************************************)
(* Documents, when no request outlives the staleness limit and nothing is  *)
(* reverted.  A request that issues an invoice has it to itself until it   *)
(* ends: the row is ISSUING, not stale, and says what the request prints.  *)
(***************************************************************************)
Undisturbed == Slow = FALSE /\ Reverters = {}

IssuersInv ==
    \A r \in Issuers : pc[r] \in IssuerPc =>
        /\ status[job[r]] = "ISSUING" /\ ~stale[job[r]]
        /\ doc[r] = Current(job[r])
        /\ pc[r] \in {"printed", "stored"} =>
              pdfs[job[r]] # <<>> /\ LatestPdf(job[r]) = doc[r]

OneIssuer ==
    \A r, s \in Issuers :
        pc[r] \in IssuerPc /\ pc[s] \in IssuerPc /\ job[r] = job[s] => r = s

SubmittersInv ==
    /\ \A r \in Submitters : pc[r] \in SubmitterPc =>
          /\ status[job[r]] = "ISSUED"
          /\ doc[r].number = number[job[r]]
          /\ doc[r].draft = draft[job[r]]
    /\ \A i \in Invoices : ksef[i] # "NOT_SENT" => status[i] = "ISSUED"

DocumentInv ==
    /\ IssuersInv
    /\ OneIssuer
    /\ totals = draft
    /\ IssuedIsDocumented
    /\ SubmittersInv
    /\ SentIsIssued

\* Losing bytes changes neither the number of files nor what they are of.
SameDocs(fs, gs) ==
    /\ gs \in Seq(FileRecords)
    /\ Len(gs) = Len(fs) /\ DOMAIN gs = DOMAIN fs
    /\ \A n \in DOMAIN fs : gs[n].doc = fs[n].doc

LEMMA LostHasSameDocs ==
  ASSUME NEW fs \in Seq(FileRecords), NEW k \in DOMAIN fs
  PROVE  SameDocs(fs, WithLost(fs, k))
BY LoseRecord DEF SameDocs

LEMMA LoseKeepsDocs ==
  ASSUME TypeInv, NEW i \in Invoices, Lose(i), NEW j \in Invoices
  PROVE  SameDocs(pdfs[j], pdfs'[j]) /\ SameDocs(xmls[j], xmls'[j])
<1>1. pdfs[j] \in Seq(FileRecords) /\ xmls[j] \in Seq(FileRecords)
  BY DEF TypeInv, TypeOK
<1>2. SameDocs(pdfs[j], pdfs[j]) /\ SameDocs(xmls[j], xmls[j])
  BY <1>1 DEF SameDocs
<1>3. ASSUME NEW k \in DOMAIN pdfs[i], pdfs' = [pdfs EXCEPT ![i][k].valid = FALSE]
      PROVE  SameDocs(pdfs[j], pdfs'[j])
  <2>1. pdfs'[j] = IF j = i THEN WithLost(pdfs[j], k) ELSE pdfs[j]
    BY <1>3 DEF WithLost, TypeInv, TypeOK
  <2>2. QED
    BY <1>1, <1>2, <1>3, <2>1, LostHasSameDocs
<1>4. ASSUME NEW k \in DOMAIN xmls[i], xmls' = [xmls EXCEPT ![i][k].valid = FALSE]
      PROVE  SameDocs(xmls[j], xmls'[j])
  <2>1. xmls'[j] = IF j = i THEN WithLost(xmls[j], k) ELSE xmls[j]
    BY <1>4 DEF WithLost, TypeInv, TypeOK
  <2>2. QED
    BY <1>1, <1>2, <1>4, <2>1, LostHasSameDocs
<1>5. QED
  BY <1>2, <1>3, <1>4 DEF Lose

LEMMA LoseKeepsDocuments ==
  ASSUME TypeInv, DocumentInv, NEW i \in Invoices, Lose(i)
  PROVE  DocumentInv'
<1>1. UNCHANGED <<company, invoice, delivery, request>>
  BY DEF Lose
<1>2. ASSUME NEW j \in Invoices, pdfs[j] # <<>>
      PROVE  pdfs'[j] # <<>> /\ LatestPdf(j)' = LatestPdf(j)
  <2>1. pdfs[j] \in Seq(FileRecords)
    BY DEF TypeInv, TypeOK
  <2>2. Len(pdfs[j]) \in Nat \ {0} /\ DOMAIN pdfs[j] = 1..Len(pdfs[j])
    BY <1>2, <2>1, EmptySeq, LenProperties
  <2>3. Len(pdfs[j]) \in DOMAIN pdfs[j]
    BY <2>2
  <2>4. SameDocs(pdfs[j], pdfs'[j])
    BY LoseKeepsDocs
  <2>5. pdfs'[j] # <<>>
    BY <2>2, <2>4, EmptySeq DEF SameDocs
  <2>6. QED
    BY <2>3, <2>4, <2>5 DEF LatestPdf, SameDocs
<1>3. IssuedIsDocumented'
  <2>1. \A j \in Invoices : Current(j)' = Current(j)
    BY <1>1 DEF Current, invoice
  <2>2. \A j \in Invoices : SameDocs(xmls[j], xmls'[j])
    BY LoseKeepsDocs
  <2>3. QED
    BY <1>1, <1>2, <2>1, <2>2 DEF DocumentInv, IssuedIsDocumented, invoice, SameDocs
<1>4. IssuersInv'
  BY <1>1, <1>2 DEF DocumentInv, IssuersInv, Current, invoice, request, TypeInv,
     RequestsOK, Requests
<1>5. QED
  BY <1>1, <1>3, <1>4 DEF DocumentInv, OneIssuer, SubmittersInv, SentIsIssued, invoice,
     delivery, request

\* What a row says and the PDF that is served depend on a few columns only.
LEMMA SameRow ==
  ASSUME NEW i \in Invoices, number'[i] = number[i], draft'[i] = draft[i],
         seller'[i] = seller[i]
  PROVE  Current(i)' = Current(i)
BY DEF Current

LEMMA SamePdf ==
  ASSUME NEW i \in Invoices, pdfs'[i] = pdfs[i]
  PROVE  LatestPdf(i)' = LatestPdf(i)
BY DEF LatestPdf

\* A step that makes no invoice ISSUED, and leaves those that are with what
\* they say and with their files, keeps them documented.
LEMMA StillDocumented ==
  ASSUME IssuedIsDocumented,
         \A i \in Invoices : status'[i] = "ISSUED" =>
            /\ status[i] = "ISSUED"
            /\ Current(i)' = Current(i)
            /\ pdfs'[i] = pdfs[i]
            /\ xmls'[i] = xmls[i]
  PROVE  IssuedIsDocumented'
BY SamePdf DEF IssuedIsDocumented

LEMMA UserKeepsDocuments ==
  ASSUME Undisturbed, TypeInv, DocumentInv, UserNext
  PROVE  DocumentInv'
<1> USE DEF DocumentInv, TypeInv, TypeOK, RequestsOK, Requests
<1>1. ASSUME NEW i \in Invoices, GoStale(i)
      PROVE  DocumentInv'
  <2>1. /\ \A r \in Issuers : ~(job[r] = i /\ pc[r] \in IssuerPc)
        /\ stale' = [stale EXCEPT ![i] = TRUE]
        /\ UNCHANGED <<status, number, draft, totals, seller, files, delivery, request>>
    BY <1>1 DEF GoStale, InFlight, Undisturbed
  <2>2. \A j \in Invoices : Current(j)' = Current(j) /\ LatestPdf(j)' = LatestPdf(j)
    BY <2>1, SameRow, SamePdf DEF files
  <2>3. IssuersInv'
    BY <2>1, <2>2 DEF IssuersInv, files, request
  <2>4. IssuedIsDocumented'
    BY <2>1, <2>2, StillDocumented DEF files
  <2>5. QED
    BY <2>1, <2>3, <2>4 DEF OneIssuer, SubmittersInv, SentIsIssued, delivery, request
<1>2. ASSUME NEW i \in Invoices, NEW d \in Drafts, Edit(i, d)
      PROVE  DocumentInv'
  <2>1. /\ status[i] = "DRAFT"
        /\ draft' = [draft EXCEPT ![i] = d] /\ totals' = [totals EXCEPT ![i] = d]
        /\ UNCHANGED <<status, number, seller, stale, files, delivery, request>>
    BY <1>2 DEF Edit
  <2>2. \A j \in Invoices :
           /\ j # i => Current(j)' = Current(j)
           /\ LatestPdf(j)' = LatestPdf(j)
    BY <2>1, SameRow, SamePdf DEF files
  <2>3. IssuersInv'
    BY <2>1, <2>2 DEF IssuersInv, files, request
  <2>4. IssuedIsDocumented'
    BY <2>1, <2>2, StillDocumented DEF files
  <2>5. SubmittersInv' /\ SentIsIssued'
    BY <2>1 DEF SubmittersInv, SentIsIssued, delivery, request
  <2>6. QED
    BY <2>1, <2>3, <2>4, <2>5 DEF OneIssuer, request
<1>3. ASSUME NEW a \in Accounts, EditCompany(a)
      PROVE  DocumentInv'
  <2>1. UNCHANGED <<status, number, draft, totals, seller, stale, files, delivery, request>>
    BY <1>3 DEF EditCompany, invoice
  <2>2. \A j \in Invoices : Current(j)' = Current(j) /\ LatestPdf(j)' = LatestPdf(j)
    BY <2>1, SameRow, SamePdf DEF files
  <2>3. IssuersInv'
    BY <2>1, <2>2 DEF IssuersInv, files, request
  <2>4. IssuedIsDocumented'
    BY <2>1, <2>2, StillDocumented DEF files
  <2>5. QED
    BY <2>1, <2>3, <2>4 DEF OneIssuer, SubmittersInv, SentIsIssued, delivery, request
<1>4. QED
  BY <1>1, <1>2, <1>3, LoseKeepsDocuments DEF UserNext

\* A step of an issuer changes nothing a submitter relies on: its invoice is
\* not ISSUED before the step.
LEMMA StillSubmitted ==
  ASSUME SubmittersInv, SentIsIssued, NEW r \in Issuers, TypeInv,
         UNCHANGED <<ksef, sent>>,
         \A s \in Requests : s # r => pc'[s] = pc[s] /\ job'[s] = job[s] /\ doc'[s] = doc[s],
         \A i \in Invoices : status[i] = "ISSUED" =>
            status'[i] = "ISSUED" /\ number'[i] = number[i] /\ draft'[i] = draft[i]
  PROVE  SubmittersInv' /\ SentIsIssued'
<1>1. \A s \in Submitters : s # r /\ s \in Requests
  BY RequestAssumption DEF Requests
<1>2. \A s \in Submitters : pc[s] \in SubmitterPc => job[s] \in Invoices
  BY <1>1 DEF TypeInv, RequestsOK
<1>3. SubmittersInv'
  BY <1>1, <1>2 DEF SubmittersInv
<1>4. SentIsIssued'
  BY DEF SentIsIssued
<1>5. QED
  BY <1>3, <1>4

LEMMA IssuerKeepsDocuments ==
  ASSUME TypeInv, DocumentInv, NEW r \in Issuers, IssuerNext(r)
  PROVE  DocumentInv'
<1> USE DEF DocumentInv, Move
<1> r \in Requests /\ Issuers \subseteq Requests
  BY DEF Requests
<1>0. /\ pc \in [Requests -> RequestPc] /\ job \in [Requests -> Invoices \cup {Null}]
      /\ doc \in [Requests -> Documents \cup {Null}]
      /\ status \in [Invoices -> InvoiceStatus] /\ stale \in [Invoices -> BOOLEAN]
      /\ number \in [Invoices -> Numbers \cup {Null}] /\ draft \in [Invoices -> Drafts]
      /\ totals \in [Invoices -> Drafts] /\ seller \in [Invoices -> Accounts \cup {Null}]
      /\ pdfs \in [Invoices -> Seq(FileRecords)] /\ xmls \in [Invoices -> Seq(FileRecords)]
      /\ \A s \in Issuers : pc[s] \in IssuerPc => job[s] \in Invoices /\ doc[s] \in Documents
  BY DEF TypeInv, TypeOK, RequestsOK
<1>1. ASSUME NEW i \in Invoices, Reserve(r, i)
      PROVE  DocumentInv'
  <2>1. PICK d \in Documents :
           /\ d = [number |-> NextNumber(i), draft |-> draft[i], account |-> account]
           /\ doc' = [doc EXCEPT ![r] = d]
    <3>1. NextNumber(i) \in Numbers /\ account \in Accounts /\ draft[i] \in Drafts
      BY <1>1, NumberingKeepsTypes DEF Reserve, TypeInv, TypeOK
    <3>2. [number |-> NextNumber(i), draft |-> draft[i], account |-> account] \in Documents
      BY <3>1 DEF Documents
    <3>3. QED
      BY <1>1, <3>2 DEF Reserve
  <2>2. /\ pc[r] = "new" /\ pc' = [pc EXCEPT ![r] = "reserved"]
        /\ number' = [number EXCEPT ![i] = NextNumber(i)]
        /\ status' = [status EXCEPT ![i] = "ISSUING"]
        /\ stale' = [stale EXCEPT ![i] = FALSE]
        /\ seller' = [seller EXCEPT ![i] = account]
        /\ job' = [job EXCEPT ![r] = i]
        /\ UNCHANGED <<draft, totals, pdfs, xmls, ksef, sent>>
    BY <1>1 DEF Reserve, files, delivery
  <2>3. status[i] = "DRAFT" \/ (status[i] = "ISSUING" /\ stale[i])
    BY <1>1 DEF Reserve, Reservable
  <2>4. \A s \in Issuers : pc[s] \in IssuerPc => job[s] # i
    BY <2>3 DEF IssuersInv
  <2>5. Current(i)' = d
    BY <1>0, <2>1, <2>2 DEF Current
  <2>6. \A j \in Invoices :
           /\ j # i => Current(j)' = Current(j)
           /\ LatestPdf(j)' = LatestPdf(j)
    BY <1>0, <2>2, SameRow, SamePdf
  <2>7. IssuersInv'
    <3>1. ASSUME NEW s \in Issuers, s # r, pc'[s] \in IssuerPc
          PROVE  /\ pc'[s] = pc[s] /\ job'[s] = job[s] /\ doc'[s] = doc[s]
                 /\ job[s] \in Invoices /\ job[s] # i
      BY <1>0, <2>1, <2>2, <2>4, <3>1
    <3>2. /\ pc'[r] = "reserved" /\ job'[r] = i /\ doc'[r] = d
          /\ status'[i] = "ISSUING" /\ ~stale'[i]
      BY <1>0, <2>1, <2>2
    <3>3. QED
      BY <1>0, <2>2, <2>5, <2>6, <3>1, <3>2 DEF IssuersInv
  <2>8. OneIssuer'
    BY <1>0, <2>2, <2>4 DEF OneIssuer
  <2>9. IssuedIsDocumented'
    BY <1>0, <2>2, <2>6, StillDocumented
  <2>10. SubmittersInv' /\ SentIsIssued'
    BY <1>0, <2>1, <2>2, <2>3, StillSubmitted
  <2>11. QED
    BY <2>2, <2>7, <2>8, <2>9, <2>10
<1>2. ASSUME NEW i \in Invoices, ResetStale(r, i)
      PROVE  DocumentInv'
  <2>1. /\ pc[r] = "new" /\ pc' = [pc EXCEPT ![r] = "end"]
        /\ status[i] = "ISSUING" /\ stale[i]
        /\ status' = [status EXCEPT ![i] = "DRAFT"]
        /\ stale' = [stale EXCEPT ![i] = FALSE]
        /\ UNCHANGED <<number, draft, totals, seller, pdfs, xmls, ksef, sent, job, doc>>
    BY <1>2 DEF ResetStale, files, delivery
  <2>2. \A s \in Issuers : pc[s] \in IssuerPc => job[s] # i
    BY <2>1 DEF IssuersInv
  <2>3. \A j \in Invoices : Current(j)' = Current(j) /\ LatestPdf(j)' = LatestPdf(j)
    BY <2>1, SameRow, SamePdf
  <2>4. IssuersInv'
    BY <1>0, <2>1, <2>2, <2>3 DEF IssuersInv, IssuerPc
  <2>5. OneIssuer'
    BY <1>0, <2>1 DEF OneIssuer, IssuerPc
  <2>6. IssuedIsDocumented'
    BY <1>0, <2>1, <2>3, StillDocumented
  <2>7. SubmittersInv' /\ SentIsIssued'
    BY <1>0, <2>1, StillSubmitted
  <2>8. QED
    BY <2>1, <2>4, <2>5, <2>6, <2>7
<1>3. ASSUME pc[r] \in IssuerPc
      PROVE  /\ job[r] \in Invoices /\ doc[r] \in Documents
             /\ status[job[r]] = "ISSUING" /\ ~stale[job[r]]
             /\ doc[r] = Current(job[r])
             /\ \A s \in Issuers : s # r /\ pc[s] \in IssuerPc => job[s] # job[r]
  BY <1>0, <1>3 DEF IssuersInv, OneIssuer
<1>4. CASE WriteTotals(r)
  <2>1. /\ pc[r] = "reserved" /\ pc' = [pc EXCEPT ![r] = "totalled"]
        /\ totals' = [totals EXCEPT ![job[r]] = doc[r].draft]
        /\ UNCHANGED <<status, number, draft, seller, stale, pdfs, xmls, ksef, sent, job, doc>>
    BY <1>4 DEF WriteTotals, files, delivery
  <2>2. doc[r].draft = draft[job[r]]
    BY <1>3, <2>1 DEF Current, IssuerPc
  <2>3. totals' = draft'
    BY <1>0, <2>1, <2>2
  <2>4. \A j \in Invoices : Current(j)' = Current(j) /\ LatestPdf(j)' = LatestPdf(j)
    BY <2>1, SameRow, SamePdf
  <2>5. IssuersInv' /\ OneIssuer'
    BY <1>0, <2>1, <2>4 DEF IssuersInv, OneIssuer, IssuerPc
  <2>6. IssuedIsDocumented'
    BY <1>0, <2>1, <2>4, StillDocumented
  <2>7. SubmittersInv' /\ SentIsIssued'
    BY <1>0, <2>1, StillSubmitted
  <2>8. QED
    BY <2>3, <2>5, <2>6, <2>7
<1>5. CASE SavePdf(r)
  <2>1. /\ pc[r] = "totalled" /\ pc' = [pc EXCEPT ![r] = "printed"]
        /\ pdfs' = [pdfs EXCEPT ![job[r]] = Append(@, Record(r))]
        /\ UNCHANGED <<status, number, draft, totals, seller, stale, xmls, ksef, sent, job, doc>>
    BY <1>5 DEF SavePdf, invoice, delivery
  <2>2. pc[r] \in IssuerPc
    BY <2>1 DEF IssuerPc
  <2>3. Record(r) \in FileRecords /\ Record(r).doc = doc[r] /\ pdfs[job[r]] \in Seq(FileRecords)
    BY <1>0, <1>3, <2>2 DEF Record, FileRecords
  <2>4. /\ Append(pdfs[job[r]], Record(r)) # <<>>
        /\ Append(pdfs[job[r]], Record(r))[Len(Append(pdfs[job[r]], Record(r)))] = Record(r)
    BY <2>3, AppendProperties
  <2>5. pdfs'[job[r]] # <<>> /\ LatestPdf(job[r])' = doc[r]
    BY <1>0, <1>3, <2>1, <2>2, <2>3, <2>4 DEF LatestPdf
  <2>6. \A j \in Invoices :
           /\ Current(j)' = Current(j)
           /\ j # job[r] => pdfs'[j] = pdfs[j] /\ LatestPdf(j)' = LatestPdf(j)
    BY <1>0, <2>1, SameRow, SamePdf
  <2>7. IssuersInv'
    <3>1. ASSUME NEW s \in Issuers, s # r, pc'[s] \in IssuerPc
          PROVE  pc'[s] = pc[s] /\ job[s] \in Invoices /\ job[s] # job[r]
      BY <1>0, <1>3, <2>1, <2>2, <3>1
    <3>2. pc'[r] = "printed"
      BY <1>0, <2>1
    <3>3. QED
      BY <1>3, <2>1, <2>2, <2>5, <2>6, <3>1, <3>2 DEF IssuersInv
  <2>8. OneIssuer'
    BY <1>0, <2>1, <2>2 DEF OneIssuer
  <2>9. IssuedIsDocumented'
    BY <1>3, <2>1, <2>2, <2>6, StillDocumented
  <2>10. SubmittersInv' /\ SentIsIssued'
    BY <1>0, <2>1, StillSubmitted
  <2>11. QED
    BY <2>1, <2>7, <2>8, <2>9, <2>10
<1>6. CASE SaveXml(r)
  <2>1. /\ pc[r] = "printed" /\ pc' = [pc EXCEPT ![r] = "stored"]
        /\ UNCHANGED <<status, number, draft, totals, seller, stale, pdfs, ksef, sent, job, doc>>
    BY <1>6 DEF SaveXml, invoice, delivery
  <2>2. pc[r] \in IssuerPc
    BY <2>1 DEF IssuerPc
  <2>3. \A j \in Invoices : j # job[r] => xmls'[j] = xmls[j]
    BY <1>0, <1>6 DEF SaveXml
  <2>4. \A j \in Invoices : Current(j)' = Current(j) /\ LatestPdf(j)' = LatestPdf(j)
    BY <2>1, SameRow, SamePdf
  <2>5. IssuersInv' /\ OneIssuer'
    BY <1>0, <2>1, <2>2, <2>4 DEF IssuersInv, OneIssuer, IssuerPc
  <2>6. IssuedIsDocumented'
    BY <1>3, <2>1, <2>2, <2>3, <2>4, StillDocumented
  <2>7. SubmittersInv' /\ SentIsIssued'
    BY <1>0, <2>1, StillSubmitted
  <2>8. QED
    BY <2>1, <2>5, <2>6, <2>7
<1>7. CASE Finalize(r)
  <2>1. /\ pc[r] = "stored" /\ pc' = [pc EXCEPT ![r] = "end"]
        /\ status' = [status EXCEPT ![job[r]] = "ISSUED"]
        /\ stale' = [stale EXCEPT ![job[r]] = FALSE]
        /\ UNCHANGED <<number, draft, totals, seller, pdfs, xmls, ksef, sent, job, doc>>
    BY <1>7 DEF Finalize, files, delivery
  <2>2. pc[r] \in IssuerPc /\ pc[r] \in {"printed", "stored"}
    BY <2>1 DEF IssuerPc
  <2>3. \A j \in Invoices : Current(j)' = Current(j) /\ LatestPdf(j)' = LatestPdf(j)
    BY <2>1, SameRow, SamePdf
  <2>4. /\ pdfs[job[r]] # <<>> /\ LatestPdf(job[r]) = Current(job[r])
        /\ \E k \in DOMAIN xmls[job[r]] : xmls[job[r]][k].doc = Current(job[r])
    BY <1>3, <1>7, <2>2 DEF IssuersInv, Finalize, Verified, Stored
  <2>5. IssuersInv' /\ OneIssuer'
    <3>1. ASSUME NEW s \in Issuers, pc'[s] \in IssuerPc
          PROVE  /\ s # r /\ pc'[s] = pc[s] /\ pc[s] \in IssuerPc
                 /\ job[s] \in Invoices /\ job[s] # job[r]
      BY <1>0, <1>3, <2>1, <2>2, <3>1 DEF IssuerPc
    <3>2. QED
      BY <1>0, <1>3, <2>1, <2>2, <2>3, <3>1 DEF IssuersInv, OneIssuer
  <2>6. IssuedIsDocumented'
    BY <1>0, <1>3, <2>1, <2>2, <2>3, <2>4 DEF IssuedIsDocumented
  <2>7. SubmittersInv' /\ SentIsIssued'
    BY <1>0, <2>1, StillSubmitted
  <2>8. QED
    BY <2>1, <2>5, <2>6, <2>7
<1>8. QED
  BY <1>1, <1>2, <1>4, <1>5, <1>6, <1>7 DEF IssuerNext

LEMMA SubmitterKeepsDocuments ==
  ASSUME TypeInv, DocumentInv, NEW r \in Submitters, SubmitterNext(r)
  PROVE  DocumentInv'
<1> USE DEF DocumentInv, Move
<1>0. /\ r \in Requests /\ Issuers \subseteq Requests /\ Submitters \subseteq Requests
      /\ \A s \in Issuers : s # r
      /\ pc \in [Requests -> RequestPc] /\ job \in [Requests -> Invoices \cup {Null}]
      /\ doc \in [Requests -> Documents \cup {Null}]
      /\ ksef \in [Invoices -> KsefState] /\ sent \in [Invoices -> Documents \cup {Null}]
      /\ \A s \in Submitters : pc[s] \in SubmitterPc => job[s] \in Invoices
  BY RequestAssumption DEF Requests, TypeInv, TypeOK, RequestsOK
\* The rows, the files and the issuers are left alone.
<1>1. /\ UNCHANGED <<invoice, files>>
      /\ \A s \in Requests : s # r => pc'[s] = pc[s] /\ job'[s] = job[s] /\ doc'[s] = doc[s]
  BY <1>0 DEF SubmitterNext, ReadForSubmit, ReadForRetry, Read, Claim, Transmit,
     FailSafely
<1>2. UNCHANGED <<status, number, draft, totals, seller, stale, pdfs, xmls>>
  BY <1>1 DEF invoice, files
<1>3. \A j \in Invoices : Current(j)' = Current(j) /\ LatestPdf(j)' = LatestPdf(j)
  BY <1>2, SameRow, SamePdf
<1>4. IssuersInv' /\ OneIssuer'
  <2>1. \A s \in Issuers : pc[s] \in IssuerPc => job[s] \in Invoices
    BY <1>0 DEF TypeInv, RequestsOK
  <2>2. QED
    BY <1>0, <1>1, <1>2, <1>3, <2>1 DEF IssuersInv, OneIssuer
<1>5. IssuedIsDocumented'
  BY <1>2, <1>3, StillDocumented
<1>6. ASSUME NEW i \in Invoices, NEW to \in {"submit", "retry"}, Read(r, i, to),
             status[i] = "ISSUED"
      PROVE  SubmittersInv' /\ SentIsIssued'
  <2>1. /\ pc' = [pc EXCEPT ![r] = to] /\ job' = [job EXCEPT ![r] = i]
        /\ doc' = [doc EXCEPT ![r] = Rebuilt(i)]
        /\ UNCHANGED <<ksef, sent>>
    BY <1>6 DEF Read, delivery
  <2>2. doc'[r].number = number[i] /\ doc'[r].draft = draft[i] /\ job'[r] = i
    BY <1>0, <2>1 DEF Rebuilt
  <2>3. SubmittersInv'
    BY <1>0, <1>1, <1>2, <1>6, <2>1, <2>2 DEF SubmittersInv
  <2>4. QED
    BY <1>2, <2>1, <2>3 DEF SentIsIssued
<1>7. ASSUME NEW i \in Invoices, ReadForSubmit(r, i)
      PROVE  SubmittersInv' /\ SentIsIssued'
  BY <1>6, <1>7 DEF ReadForSubmit
<1>8. ASSUME NEW i \in Invoices, ReadForRetry(r, i)
      PROVE  SubmittersInv' /\ SentIsIssued'
  <2>1. status[i] = "ISSUED"
    BY <1>8 DEF ReadForRetry, SubmittersInv
  <2>2. QED
    BY <1>6, <1>8, <2>1 DEF ReadForRetry
<1>9. ASSUME pc[r] \in SubmitterPc, pc'[r] \in {"claimed", "end"},
             UNCHANGED <<job, doc>>,
             \E k \in KsefState : ksef' = [ksef EXCEPT ![job[r]] = k]
      PROVE  SubmittersInv'
  BY <1>0, <1>1, <1>2, <1>9 DEF SubmittersInv, SubmitterPc
<1>10. ASSUME Claim(r)
       PROVE  SubmittersInv' /\ SentIsIssued'
  <2>1. SubmittersInv'
    BY <1>0, <1>9, <1>10 DEF Claim, SubmitterPc, KsefState
  <2>2. QED
    BY <1>2, <1>10, <2>1 DEF Claim, SentIsIssued
<1>11. ASSUME Transmit(r)
       PROVE  SubmittersInv' /\ SentIsIssued'
  <2>1. SubmittersInv'
    BY <1>0, <1>9, <1>11 DEF Transmit, SubmitterPc, KsefState
  <2>2. /\ status[job[r]] = "ISSUED" /\ doc[r].number = number[job[r]]
        /\ doc[r].draft = draft[job[r]] /\ sent' = [sent EXCEPT ![job[r]] = doc[r]]
    BY <1>11 DEF Transmit, SubmittersInv, SubmitterPc
  <2>3. QED
    BY <1>0, <1>2, <2>1, <2>2 DEF SentIsIssued
<1>12. ASSUME FailSafely(r)
       PROVE  SubmittersInv' /\ SentIsIssued'
  <2>1. SubmittersInv'
    BY <1>0, <1>9, <1>12 DEF FailSafely, SubmitterPc, KsefState
  <2>2. QED
    BY <1>2, <1>12, <2>1 DEF FailSafely, SentIsIssued
<1>13. QED
  BY <1>2, <1>4, <1>5, <1>7, <1>8, <1>10, <1>11, <1>12 DEF SubmitterNext

LEMMA NextDocumentInv ==
  ASSUME Undisturbed, TypeInv, DocumentInv, [Next]_vars
  PROVE  DocumentInv'
<1> USE DEF DocumentInv
<1>1. ASSUME NEW r \in Requests, Ends(r)
      PROVE  DocumentInv'
  <2>1. /\ pc' = [pc EXCEPT ![r] = "end"]
        /\ UNCHANGED <<status, number, draft, totals, seller, stale, pdfs, xmls, ksef, sent,
                       job, doc>>
    BY <1>1 DEF Ends, invoice, files, delivery
  <2>2. \A s \in Requests : pc'[s] \in IssuerPc \cup SubmitterPc => pc'[s] = pc[s]
    BY <2>1 DEF TypeInv, TypeOK, IssuerPc, SubmitterPc
  <2>3. Issuers \subseteq Requests /\ Submitters \subseteq Requests
    BY DEF Requests
  <2>4. IssuersInv' /\ OneIssuer'
    BY <2>1, <2>2, <2>3 DEF IssuersInv, OneIssuer, Current, LatestPdf
  <2>5. SubmittersInv' /\ SentIsIssued' /\ IssuedIsDocumented'
    BY <2>1, <2>2, <2>3 DEF SubmittersInv, SentIsIssued, IssuedIsDocumented, Current,
       LatestPdf
  <2>6. QED
    BY <2>1, <2>4, <2>5
<1>2. CASE UNCHANGED vars
  BY <1>2 DEF vars, invoice, files, delivery, request, IssuersInv, OneIssuer,
     SubmittersInv, SentIsIssued, IssuedIsDocumented, Current, LatestPdf
<1>3. QED
  BY <1>1, <1>2, UserKeepsDocuments, IssuerKeepsDocuments, SubmitterKeepsDocuments
     DEF Next, Undisturbed

LEMMA Documented ==
  ASSUME Slow = FALSE, Reverters = {}
  PROVE  Spec => [](TypeInv /\ DocumentInv)
<1>1. Undisturbed
  BY DEF Undisturbed
<1>2. Init => DocumentInv
  BY DEF Init, DocumentInv, IssuersInv, OneIssuer, IssuedIsDocumented, SubmittersInv,
     SentIsIssued, IssuerPc, SubmitterPc, Requests
<1>3. TypeInv /\ DocumentInv /\ [Next]_vars => DocumentInv'
  BY <1>1, NextDocumentInv
<1>4. QED
  BY <1>2, <1>3, InitTypeInv, NextTypeInv, PTL DEF Spec

\* The PDF served for an issued invoice, and one of its XML files, show what
\* the database says of it, whatever crashed, failed or ran concurrently
\* while it was issued, as long as no request outlives the staleness limit
\* and nothing is reverted.
THEOREM IssuedInvoicesAreDocumented ==
  ASSUME Slow = FALSE, Reverters = {}
  PROVE  Spec => []IssuedIsDocumented
<1>1. TypeInv /\ DocumentInv => IssuedIsDocumented
  BY DEF DocumentInv
<1>2. QED
  BY <1>1, Documented, PTL

\* Under the same conditions the totals of an issued invoice follow from its
\* lines, so that its submission is not refused for them.
THEOREM IssuedInvoicesAddUp ==
  ASSUME Slow = FALSE, Reverters = {}
  PROVE  Spec => []IssuedAddsUp
<1>1. TypeInv /\ DocumentInv => IssuedAddsUp
  BY DEF DocumentInv, IssuedAddsUp
<1>2. QED
  BY <1>1, Documented, PTL

\* Under the same conditions what KSeF received is the issued invoice: its
\* number and its lines, which stay as they were sent.
THEOREM SentInvoicesAreIssued ==
  ASSUME Slow = FALSE, Reverters = {}
  PROVE  Spec => []SentIsIssued
<1>1. TypeInv /\ DocumentInv => SentIsIssued
  BY DEF DocumentInv
<1>2. QED
  BY <1>1, Documented, PTL

\* Under the same conditions an issued invoice is not changed any more, nor is
\* the PDF that is served for it: every request that could write to it would hold
\* it as ISSUING.  The PDF follows from the invariant, before and after a step.
THEOREM IssuedInvoicesAreFinal ==
  ASSUME Slow = FALSE, Reverters = {}
  PROVE  Spec => IssuedIsFinal
<1> DEFINE Same(i) == /\ status'[i] = "ISSUED" /\ number'[i] = number[i]
                      /\ draft'[i] = draft[i] /\ seller'[i] = seller[i]
<1>1. ASSUME TypeInv, DocumentInv, Next, NEW i \in Invoices, status[i] = "ISSUED"
      PROVE  Same(i)
  <2>1. CASE UNCHANGED <<status, number, draft, seller>>
    BY <1>1, <2>1
  <2>2. ASSUME NEW j \in Invoices, NEW d \in Drafts, Edit(j, d)
        PROVE  Same(i)
    BY <1>1, <2>2 DEF Edit, TypeInv, TypeOK
  <2>3. ASSUME NEW r \in Issuers, NEW j \in Invoices, Reserve(r, j) \/ ResetStale(r, j)
        PROVE  Same(i)
    BY <1>1, <2>3 DEF Reserve, Reservable, ResetStale, TypeInv, TypeOK
  <2>4. ASSUME NEW r \in Issuers, Finalize(r)
        PROVE  Same(i)
    BY <1>1, <2>4 DEF Finalize, TypeInv, TypeOK
  <2>5. \/ UNCHANGED <<status, number, draft, seller>>
        \/ \E j \in Invoices, d \in Drafts : Edit(j, d)
        \/ \E r \in Issuers, j \in Invoices : Reserve(r, j) \/ ResetStale(r, j)
        \/ \E r \in Issuers : Finalize(r)
    BY <1>1 DEF Next, UserNext, GoStale, Lose, EditCompany, IssuerNext, WriteTotals, SavePdf,
       SaveXml, ReverterNext, SubmitterNext, ReadForSubmit, ReadForRetry, Read, Claim,
       Transmit, FailSafely, Ends, invoice
  <2>6. QED
    BY <2>1, <2>2, <2>3, <2>4, <2>5
<1>2. ASSUME TypeInv, DocumentInv, Next, DocumentInv'
      PROVE  \A i \in Invoices : status[i] = "ISSUED" =>
                /\ status'[i] = "ISSUED"
                /\ Current(i)' = Current(i)
                /\ LatestPdf(i)' = LatestPdf(i)
  <2> SUFFICES ASSUME NEW i \in Invoices, status[i] = "ISSUED"
               PROVE  /\ status'[i] = "ISSUED"
                      /\ Current(i)' = Current(i)
                      /\ LatestPdf(i)' = LatestPdf(i)
    OBVIOUS
  <2>1. status'[i] = "ISSUED" /\ Current(i)' = Current(i)
    BY <1>1, <1>2 DEF Current
  <2>2. LatestPdf(i) = Current(i) /\ LatestPdf(i)' = Current(i)'
    BY <1>2, <2>1 DEF DocumentInv, IssuedIsDocumented
  <2>3. QED
    BY <2>1, <2>2
<1>3. ASSUME UNCHANGED vars
      PROVE  \A i \in Invoices : status[i] = "ISSUED" =>
                /\ status'[i] = "ISSUED"
                /\ Current(i)' = Current(i)
                /\ LatestPdf(i)' = LatestPdf(i)
  BY <1>3 DEF vars, invoice, files, Current, LatestPdf
<1>4. Spec => [](TypeInv /\ DocumentInv)
  BY Documented
<1>5. QED
  BY <1>2, <1>3, <1>4, PTL DEF Spec, IssuedIsFinal
=============================================================================
