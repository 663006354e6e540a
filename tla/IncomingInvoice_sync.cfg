SPECIFICATION FairSpec
CONSTANTS
  k1 = k1
  k2 = k2
  nip = nip
  n1 = n1
  n2 = n2
  Uploads = {u1}
  Invoices = {k1, k2}
  Reviewers = {v1, v2}
  Syncs = {s1, s2}
  Sellers = {nip}
  Numbers = {n1, n2}
  SellerOf <- OneSeller
  NumberOf <- TwoNumbers
  Unnumbered = {k2}
  Corrects = FALSE
  Null = Null
CHECK_DEADLOCK FALSE

  
  
PROPERTIES
  FetchedIsFinal
  OcrSettles
