SPECIFICATION BackupSpec
CONSTANTS
  Files = {f1}
  Runs = {r1, r2}
  MaxInstant = 4
  MaxGrants = 1
  MaxCopies = 2
  LateInsert = FALSE
  FilesGetLost = TRUE
SYMMETRY BackupSymmetry
CHECK_DEADLOCK FALSE
INVARIANTS
  NothingIsSkipped
  SuccessCovers
