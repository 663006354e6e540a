------------------------------- MODULE MCAccess -------------------------------
(***************************************************************************)
(* Instances of Access.                                                    *)
(***************************************************************************)
EXTENDS Access
=============================================================================
