--------------------------- MODULE MCCompanyBackup ---------------------------
(***************************************************************************)
(* CompanyBackup for TLC.                                                  *)
(***************************************************************************)
EXTENDS CompanyBackup, TLC

BackupSymmetry == Permutations(Files) \cup Permutations(Runs)
=============================================================================
