SPECIFICATION FairSpec
CONSTANTS
  Invoices = {i1}
  NoInvoice = NoInvoice
  Workers = {w1, w2}
  Pollers = {p1}
  MaxAttempts = 3
  AuthLookalike = FALSE
INVARIANTS
  AtMostOneTransmission
  RetryableWasNeverSent
  VerdictIsTrue
PROPERTIES
  ImplementsDelivery
  QueuedIsRetried
