---------------------------- MODULE CompanyBackup ----------------------------
(***************************************************************************)
(* The incremental backup of the files of a company to its Google Drive.   *)
(* Source: apps/api/src/services/backup/gdrive.ts, run by                  *)
(* runCompanyGoogleDriveBackup in company-backup-policy.ts.                *)
(*                                                                         *)
(* A backup copies the files whose records were created after the last     *)
(* successful one and no later than its own start.  It may be started by   *)
(* an administrator, by an issued invoice and by the scheduled runner, in  *)
(* different processes, and nothing keeps two of them apart.  Every        *)
(* statement and every exchange with Google is an action.  Folders,        *)
(* triggers and the policy are left out: a run may start at any time.      *)
(***************************************************************************)
EXTENDS Naturals

CONSTANTS
    Files,          \* records of files of the company
    Runs,           \* concurrent backups
    MaxInstant,     \* bound: readings of the clock
    MaxGrants,      \* bound: authorizations given by the user
    MaxCopies,      \* bound: copies of a file written to the disk
    LateInsert,     \* may a record be inserted long after it was stamped?
    FilesGetLost    \* may a stored file lose its bytes?

ASSUME BoundAssumption ==
    MaxInstant \in Nat \ {0} /\ MaxGrants \in Nat /\ MaxCopies \in Nat \ {0}
ASSUME SwitchAssumption == LateInsert \in BOOLEAN /\ FilesGetLost \in BOOLEAN

VARIABLES
    instant,
    \* FileRecord: createdAt, and the copy that path names
    record, createdAt, path,
    \* the copies of each file on the disk
    disk,
    \* GoogleDriveCredential; the grant is 0 as long as there is no row
    grant, requiresReauthorization, lastBackupAt,
    \* the grants that Google honours
    honoured,
    \* the backups: where they are, what they read from the credential, their
    \* cutoff, and the copies they still have to upload
    step, token, since, snapshotCutoff, pending,
    \* BackupRun: the cutoffs of the runs recorded as successful
    succeeded,
    \* the state of the copies uploaded to Google Drive, by file
    drive

storage == <<record, createdAt, path, disk>>
googleCredential == <<grant, requiresReauthorization, lastBackupAt>>
run == <<step, token, since, snapshotCutoff, pending>>
backupVars == <<instant, storage, googleCredential, honoured, run, succeeded, drive>>

-----------------------------------------------------------------------------
Instants == 0..MaxInstant           \* lastBackupAt is 0 for null
Grants == 0..MaxGrants
Copies == 1..MaxCopies
Bytes == {"intact", "damaged", "missing"}

RunPc == {"idle", "refresh", "save", "flag", "query", "check", "upload", "record"}

BackupInit ==
    /\ instant = 1
    /\ record = [f \in Files |-> "none"]
    /\ createdAt = [f \in Files |-> 0]
    /\ path = [f \in Files |-> 1]
    /\ disk = [f \in Files |-> [c \in Copies |-> "missing"]]
    /\ grant = 0
    /\ requiresReauthorization = FALSE
    /\ lastBackupAt = 0
    /\ honoured = {}
    /\ step = [r \in Runs |-> "idle"]
    /\ token = [r \in Runs |-> 0]
    /\ since = [r \in Runs |-> 0]
    /\ snapshotCutoff = [r \in Runs |-> 0]
    /\ pending = [r \in Runs |-> {}]
    /\ succeeded = {}
    /\ drive = [f \in Files |-> {}]

-----------------------------------------------------------------------------
(***************************************************************************)
(* saveFile and the life of a file.                                        *)
(***************************************************************************)
Stored(f) == record[f] = "stored"

\* createdAt is taken from the clock of the program when the statement is
\* built, after the file was written ...
Stamp(f) ==
    /\ record[f] = "none"
    /\ record' = [record EXCEPT ![f] = "stamped"]
    /\ createdAt' = [createdAt EXCEPT ![f] = instant]
    /\ disk' = [disk EXCEPT ![f][1] = "intact"]
    /\ UNCHANGED <<instant, path, googleCredential, honoured, run, succeeded, drive>>

\* ... and the record is seen by others when the statement is through.
Insert(f) ==
    /\ record[f] = "stamped"
    /\ record' = [record EXCEPT ![f] = "stored"]
    /\ UNCHANGED <<instant, createdAt, path, disk, googleCredential, honoured,
                   run, succeeded, drive>>

\* A file that is not intact is written again, elsewhere, and its record
\* keeps the time of its creation.
Replace(f) ==
    /\ Stored(f)
    /\ disk[f][path[f]] # "intact"
    /\ path[f] < MaxCopies
    /\ path' = [path EXCEPT ![f] = @ + 1]
    /\ disk' = [disk EXCEPT ![f][path[f] + 1] = "intact"]
    /\ UNCHANGED <<instant, record, createdAt, googleCredential, honoured,
                   run, succeeded, drive>>

\* The revert of an invoice to draft deletes its records.
Remove(f) ==
    /\ Stored(f)
    /\ record' = [record EXCEPT ![f] = "removed"]
    /\ UNCHANGED <<instant, createdAt, path, disk, googleCredential, honoured,
                   run, succeeded, drive>>

Lose(f) ==
    /\ FilesGetLost
    /\ disk[f][path[f]] = "intact"
    /\ \E b \in {"damaged", "missing"} : disk' = [disk EXCEPT ![f][path[f]] = b]
    /\ UNCHANGED <<instant, record, createdAt, path, googleCredential, honoured,
                   run, succeeded, drive>>

\* Unless LateInsert, an insertion takes less time than the clock can tell.
TimePasses ==
    /\ instant < MaxInstant
    /\ LateInsert \/ \A f \in Files : record[f] # "stamped"
    /\ instant' = instant + 1
    /\ UNCHANGED <<storage, googleCredential, honoured, run, succeeded, drive>>

-----------------------------------------------------------------------------
(***************************************************************************)
(* The authorization: the callback of the OAuth flow stores a new grant,   *)
(* and the user may revoke all of them at Google.                          *)
(***************************************************************************)
Connect(g) ==
    /\ g \in Grants
    /\ \A h \in honoured \cup {grant} : h < g
    /\ honoured' = honoured \cup {g}
    /\ grant' = g
    /\ requiresReauthorization' = FALSE
    /\ UNCHANGED <<instant, storage, lastBackupAt, run, succeeded, drive>>

Revoke ==
    /\ honoured # {}
    /\ honoured' = {}
    /\ UNCHANGED <<instant, storage, googleCredential, run, succeeded, drive>>

-----------------------------------------------------------------------------
(***************************************************************************)
(* backupCompany                                                           *)
(***************************************************************************)
Move(r, from, to) ==
    /\ step[r] = from
    /\ step' = [step EXCEPT ![r] = to]

\* The variables of the call are gone.
End(r) ==
    /\ step' = [step EXCEPT ![r] = "idle"]
    /\ token' = [token EXCEPT ![r] = 0]
    /\ since' = [since EXCEPT ![r] = 0]
    /\ snapshotCutoff' = [snapshotCutoff EXCEPT ![r] = 0]
    /\ pending' = [pending EXCEPT ![r] = {}]

\* The credential is read, and right after it the clock.  The start of the
\* run that BackupRun records is a little earlier than this cutoff.
Start(r) ==
    /\ Move(r, "idle", "refresh")
    /\ grant # 0
    /\ ~requiresReauthorization
    /\ token' = [token EXCEPT ![r] = grant]
    /\ since' = [since EXCEPT ![r] = lastBackupAt]
    /\ snapshotCutoff' = [snapshotCutoff EXCEPT ![r] = instant]
    /\ UNCHANGED <<instant, storage, googleCredential, honoured, pending, succeeded, drive>>

\* Google answers with new tokens or with invalid_grant.
Refresh(r) ==
    /\ Move(r, "refresh", IF token[r] \in honoured THEN "save" ELSE "flag")
    /\ UNCHANGED <<instant, storage, googleCredential, honoured, token, since, snapshotCutoff,
                   pending, succeeded, drive>>

\* The refreshed tokens belong to the grant that was read at the start.
SaveTokens(r) ==
    /\ Move(r, "save", "query")
    /\ grant' = token[r]
    /\ requiresReauthorization' = FALSE
    /\ UNCHANGED <<instant, storage, lastBackupAt, honoured, token, since, snapshotCutoff,
                   pending, succeeded, drive>>

FlagReauthorization(r) ==
    /\ step[r] = "flag"
    /\ requiresReauthorization' = TRUE
    /\ End(r)
    /\ UNCHANGED <<instant, storage, grant, lastBackupAt, honoured, succeeded, drive>>

\* buildPendingCompanyFileRecordFilter
Pending(r) ==
    {f \in Files : Stored(f) /\ since[r] < createdAt[f] /\ createdAt[f] <= snapshotCutoff[r]}

\* The records are read with their paths.  Several exchanges with Google lie
\* between the cutoff and this query, so the clock has moved on.
QueryPending(r) ==
    /\ Move(r, "query", "check")
    /\ instant > snapshotCutoff[r]
    /\ pending' = [pending EXCEPT ![r] = {<<f, path[f]>> : f \in Pending(r)}]
    /\ UNCHANGED <<instant, storage, googleCredential, honoured, token, since, snapshotCutoff,
                   succeeded, drive>>

\* One file that cannot be read stops the backup, before anything is sent.
Accessible(r) ==
    /\ \A x \in pending[r] : disk[x[1]][x[2]] # "missing"
    /\ UNCHANGED pending

CheckFiles(r) ==
    /\ Move(r, "check", "upload")
    /\ Accessible(r)
    /\ UNCHANGED <<instant, storage, googleCredential, honoured, token, since, snapshotCutoff,
                   succeeded, drive>>

\* The file is sent as it is.  Marking its record afterwards fails, and the
\* backup with it, if the record is gone.
Upload(r) ==
    /\ step[r] = "upload"
    /\ \E x \in pending[r] :
          /\ disk[x[1]][x[2]] # "missing"
          /\ drive' = [drive EXCEPT ![x[1]] = @ \cup {disk[x[1]][x[2]]}]
          /\ \/ /\ Stored(x[1])
                /\ pending' = [pending EXCEPT ![r] = @ \ {x}]
                /\ UNCHANGED <<step, token, since, snapshotCutoff>>
             \/ ~Stored(x[1]) /\ End(r)
    /\ UNCHANGED <<instant, storage, googleCredential, honoured, succeeded>>

\* Mutant: the time of the end is taken for the next backup.
AdvanceToNow(r) == lastBackupAt' = instant

\* Later backups start from this cutoff, also when another one has finished
\* in the meantime.
Advance(r) == lastBackupAt' = snapshotCutoff[r]

FinishBackup(r) ==
    /\ Move(r, "upload", "record")
    /\ pending[r] = {}
    /\ Advance(r)
    /\ UNCHANGED <<instant, storage, grant, requiresReauthorization, honoured, token, since,
                   snapshotCutoff, pending, succeeded, drive>>

\* BackupRun of a successful backup.
RecordSuccess(r) ==
    /\ step[r] = "record"
    /\ succeeded' = succeeded \cup {snapshotCutoff[r]}
    /\ End(r)
    /\ UNCHANGED <<instant, storage, googleCredential, honoured, drive>>

\* Mutant: a failed backup is recorded like any other.
FailRecorded(r) ==
    /\ step[r] # "idle"
    /\ succeeded' = succeeded \cup {snapshotCutoff[r]}
    /\ End(r)
    /\ UNCHANGED <<instant, storage, googleCredential, honoured, drive>>

\* A file is missing, Google or the database fails, or the process stops.
\* At most a BackupRun with an error is left.
Fail(r) ==
    /\ step[r] # "idle"
    /\ End(r)
    /\ UNCHANGED <<instant, storage, googleCredential, honoured, succeeded, drive>>

-----------------------------------------------------------------------------
FileNext ==
    \E f \in Files : Stamp(f) \/ Insert(f) \/ Replace(f) \/ Remove(f) \/ Lose(f)

UserNext == (\E g \in Grants : Connect(g)) \/ Revoke

RunNext(r) ==
    \/ Start(r) \/ Refresh(r) \/ SaveTokens(r) \/ FlagReauthorization(r)
    \/ QueryPending(r) \/ CheckFiles(r) \/ Upload(r) \/ FinishBackup(r)
    \/ RecordSuccess(r) \/ Fail(r)

BackupNext == TimePasses \/ FileNext \/ UserNext \/ \E r \in Runs : RunNext(r)

BackupSpec == BackupInit /\ [][BackupNext]_backupVars

-----------------------------------------------------------------------------
(***************************************************************************)
(* Properties                                                              *)
(***************************************************************************)
\* Records, credential and runs keep to their types.
BackupTypeOK ==
    /\ instant \in Instants
    /\ record \in [Files -> {"none", "stamped", "stored", "removed"}]
    /\ createdAt \in [Files -> Instants]
    /\ path \in [Files -> Copies]
    /\ disk \in [Files -> [Copies -> Bytes]]
    /\ grant \in Grants
    /\ requiresReauthorization \in BOOLEAN
    /\ lastBackupAt \in Instants
    /\ honoured \in SUBSET Grants
    /\ step \in [Runs -> RunPc]
    /\ token \in [Runs -> Grants]
    /\ since \in [Runs -> Instants]
    /\ snapshotCutoff \in [Runs -> Instants]
    /\ pending \in [Runs -> SUBSET (Files \X Copies)]
    /\ succeeded \in SUBSET Instants
    /\ drive \in [Files -> SUBSET Bytes]

\* Everything that was stored until t is on the drive.
Covered(t) == \A f \in Files : Stored(f) /\ createdAt[f] <= t => drive[f] # {}

\* lastBackupAt never passes over a file: what the next backup leaves out for
\* being older was uploaded, whatever overlapping backups, failures, repairs
\* and reverts there have been.
NothingIsSkipped == Covered(lastBackupAt)

\* A backup recorded as successful has everything that was stored before it
\* started, in particular the files of the invoice that triggered it.
SuccessCovers == \A t \in succeeded : Covered(t)
=============================================================================
