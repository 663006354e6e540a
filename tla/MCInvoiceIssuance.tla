-------------------------- MODULE MCInvoiceIssuance --------------------------
(***************************************************************************)
(* InvoiceIssuance for TLC: the months of two drafts, and the calls that   *)
(* may be exchanged for one another.                                       *)
(***************************************************************************)
EXTENDS InvoiceIssuance, TLC

CONSTANTS d1, d2, july, august

\* Both drafts are of July, or the second one of August.
SamePeriod == (d1 :> july) @@ (d2 :> july)
TwoPeriods == (d1 :> july) @@ (d2 :> august)

RequestSymmetry ==
    Permutations(Issuers) \cup Permutations(Reverters) \cup Permutations(Submitters)
=============================================================================
