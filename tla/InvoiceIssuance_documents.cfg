SPECIFICATION Spec
CONSTANTS
  d1 = d1
  d2 = d2
  july = july
  august = august
  Invoices = {i1}
  Issuers = {s1, s2, s3}
  Reverters = {}
  Submitters = {k1, k2}
  Null = Null
  Drafts = {d1, d2}
  Periods = {july, august}
  PeriodOf <- SamePeriod
  Accounts = {a1, a2}
  MaxNumber = 2
  Slow = FALSE
  FilesGetLost = TRUE
SYMMETRY RequestSymmetry
INVARIANTS
  IssuedIsDocumented
  IssuedAddsUp
  SentIsIssued

  
