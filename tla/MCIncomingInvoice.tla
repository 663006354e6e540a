-------------------------- MODULE MCIncomingInvoice --------------------------
(***************************************************************************)
(* IncomingInvoice for TLC.                                                *)
(***************************************************************************)
EXTENDS IncomingInvoice, TLC

CONSTANTS k1, k2, nip, n1, n2

\* Two invoices of one seller.
OneSeller == (k1 :> nip) @@ (k2 :> nip)
TwoNumbers == (k1 :> n1) @@ (k2 :> n2)
=============================================================================
