--------------------------- MODULE MCKsefSubmission ---------------------------
(***************************************************************************)
(* KsefSubmission for TLC.  No symmetry is declared, as the run checks     *)
(* liveness.                                                               *)
(***************************************************************************)
EXTENDS KsefSubmission
=============================================================================
