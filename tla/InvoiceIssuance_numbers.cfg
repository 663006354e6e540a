SPECIFICATION Spec
CONSTANTS
  d1 = d1
  d2 = d2
  july = july
  august = august
  Invoices = {i1, i2}
  Issuers = {s1, s2, s3}
  Reverters = {v1}
  Submitters = {k1}
  Null = Null
  Drafts = {d1, d2}
  Periods = {july, august}
  PeriodOf <- TwoPeriods
  Accounts = {a1}
  MaxNumber = 3
  Slow = TRUE
  FilesGetLost = FALSE
SYMMETRY RequestSymmetry
INVARIANTS
  NumberGivenOnce
PROPERTIES
  NumberIsKept
