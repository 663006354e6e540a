SPECIFICATION Spec
CONSTANTS
  a = a
  k1 = k1
  k2 = k2
  q1 = q1
  q2 = q2
  c1 = c1
  number = number
  Invoices = {a, k1, k2}
  Contractors = {c1}
  Requests = {q1, q2}
  Originals = {a}
  Typed <- FirstDrafts
  Retyped <- SecondDrafts
  Corrections <- SampleCorrections
  None = None
SYMMETRY RegisterSymmetry
INVARIANTS
  OneCorrectionPerRequest
  
  CorrectionBalances
  XmlSaysWhatIsStored
  WordsSayTheAmount
  BooksAgree
CHECK_DEADLOCK FALSE
