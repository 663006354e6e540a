----------------------------- MODULE MCKsefSession -----------------------------
(***************************************************************************)
(* Instances of KsefSession: tokens of TEST, of PRODUCTION, and the one of  *)
(* the environment variable.                                               *)
(***************************************************************************)
EXTENDS KsefSession

CONSTANTS t1, t2, p1

MCTokens == {t1, t2, p1}
MCEnvironmentOf == [t \in MCTokens |-> IF t = p1 THEN "PRODUCTION" ELSE "TEST"]
=============================================================================
