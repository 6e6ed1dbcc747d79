-------------------------------- MODULE Backup --------------------------------
(***************************************************************************)
(* Backup and restore of one database, on top of revision allocation.      *)
(*                                                                         *)
(* CreateBackup and RestoreBackup copy a generation file by file into a    *)
(* temporary directory beside the destination, verify the copy, sync it    *)
(* and publish it with a rename that refuses an existing destination; the  *)
(* parent directory is synced last.  A backup runs on the writer, which    *)
(* pauses mutations; RestoreBackup is called beside the owner, in a        *)
(* process of its own (neither the socket nor gapctl reach the             *)
(* controller's Restore).  Copies come out wrong, media rot, processes die *)
(* and power fails between any two of these steps.  An operator may then   *)
(* serve from the restored directory: its line of commits goes on from the *)
(* backup's.                                                               *)
(***************************************************************************)
EXTENDS Revisions, FiniteSets

CONSTANT MaxFaults  \* bound on the copies that come out wrong and the files that rot

VARIABLES
  job,       \* the running CreateBackup or RestoreBackup
  dest,      \* what each destination name shows
  reported,  \* what the last job for each destination returned
  faults     \* wrong copies and rotten files so far

backupVars == <<revVars, job, dest, reported, faults>>

\* The files of a backup, as numbered by the order in which they are copied:
\* IDENTITY, CURRENT, the snapshot, the log, and backup.json written last.
Files == 1..5

\* A backup is published at the first, a restored database at the second.
Places == {"backup", "restored"}

NoJob == [place |-> "none"]

\* The temporary directory and the progress of the job that fills it: files
\* copied, copied wrong, and synced; what the copies hold.
NewJob(place, source) ==
  [place |-> place, pc |-> "copy", copied |-> 0, bad |-> {}, synced |-> {},
   end |-> source.end, line |-> source.line]

Absent == [state |-> "absent"]

BackupInit ==
  /\ RevInit
  /\ job = NoJob /\ faults = 0
  /\ dest = [p \in Places |-> Absent]
  /\ reported = [p \in Places |-> "nothing"]

Running == job.place # "none"

Returns(result) ==
  /\ job' = NoJob
  /\ reported' = [reported EXCEPT ![job.place] = result]

(***************************************************************************)
(* The owner.  While a backup runs the writer does nothing else.           *)
(***************************************************************************)

OwnerStep ==
  /\ job.place # "backup"
  /\ \/ BootRename \/ BootSync \/ BootSyncFails
     \/ NextFromRange \/ NextReserveRename \/ NextReserveSync \/ NextFails
     \/ DirectorySync \/ ProcessStop
  /\ UNCHANGED <<job, dest, reported, faults>>

(***************************************************************************)
(* The two operations.                                                     *)
(***************************************************************************)

\* Mutant: the backup copies the IDENTITY of the first start.
BackupFirstIdentity ==
  /\ owner = "serving" /\ ~Running
  /\ dest["backup"] = Absent
  /\ job' = NewJob("backup", [end |-> RangeSize, line |-> issued])
  /\ reported' = [reported EXCEPT !["backup"] = "nothing"]
  /\ UNCHANGED <<revVars, dest, faults>>

\* CreateBackup up to the temporary directory: the destination is new, every
\* commit so far is durable, the live generation verifies.
CreateBackup ==
  /\ owner = "serving" /\ ~Running
  /\ dest["backup"] = Absent
  /\ job' = NewJob("backup", [end |-> osEnd, line |-> issued])
  /\ reported' = [reported EXCEPT !["backup"] = "nothing"]
  /\ UNCHANGED <<revVars, dest, faults>>

\* RestoreBackup up to the temporary directory: the destination is new and
\* VerifyBackup accepts the backup.
RestoreBackup ==
  /\ ~Running
  /\ dest["restored"] = Absent
  /\ dest["backup"].state = "published" /\ dest["backup"].bad = {}
  /\ job' = NewJob("restored", dest["backup"])
  /\ reported' = [reported EXCEPT !["restored"] = "nothing"]
  /\ UNCHANGED <<revVars, dest, faults>>

\* Is the file that is copied next wrong in the directory it is copied from?  The
\* live generation was verified, a backup may have rotted or gone since.
SourceRotten(file) ==
  /\ job.place = "restored"
  /\ dest["backup"].state = "published" /\ file \in dest["backup"].bad

\* Mutant: the copy is closed without a sync.
CopyWithoutSync ==
  /\ Running /\ job.pc = "copy" /\ job.copied < Cardinality(Files)
  /\ job.place = "restored" => dest["backup"].state = "published"
  /\ LET file == job.copied + 1 IN
     \E wrong \in {SourceRotten(file), TRUE} :
       /\ wrong /\ ~SourceRotten(file) => faults < MaxFaults
       /\ faults' = IF wrong /\ ~SourceRotten(file) THEN faults + 1 ELSE faults
       /\ job' = [job EXCEPT !.copied = file,
                             !.bad = IF wrong THEN @ \cup {file} ELSE @]
  /\ UNCHANGED <<revVars, dest, reported>>

\* copyAndSync, and writeSyncedFile for backup.json: one file is copied, hashed
\* as it is read, and synced.
CopyFile ==
  /\ Running /\ job.pc = "copy" /\ job.copied < Cardinality(Files)
  /\ job.place = "restored" => dest["backup"].state = "published"
  /\ LET file == job.copied + 1 IN
     \E wrong \in {SourceRotten(file), TRUE} :
       /\ wrong /\ ~SourceRotten(file) => faults < MaxFaults
       /\ faults' = IF wrong /\ ~SourceRotten(file) THEN faults + 1 ELSE faults
       /\ job' = [job EXCEPT !.copied = file,
                             !.bad = IF wrong THEN @ \cup {file} ELSE @,
                             !.synced = @ \cup {file}]
  /\ UNCHANGED <<revVars, dest, reported>>

\* Mutant: the temporary directory is published as it was copied.
VerifyNothing ==
  /\ Running /\ job.pc = "copy" /\ job.copied = Cardinality(Files)
  /\ job' = [job EXCEPT !.pc = "verified"]
  /\ UNCHANGED <<revVars, dest, reported, faults>>

\* VerifyBackup of the temporary directory: five files, each with the size and
\* hash of backup.json, that hold a whole generation; then SyncDir.
VerifyTemp ==
  /\ Running /\ job.pc = "copy" /\ job.copied = Cardinality(Files)
  /\ job.bad = {}
  /\ job' = [job EXCEPT !.pc = "verified"]
  /\ UNCHANGED <<revVars, dest, reported, faults>>

\* Anything before the rename fails, or VerifyBackup refuses the copy: the
\* temporary directory is removed and the error does not say it was applied.
JobFails ==
  /\ Running /\ job.pc \in {"copy", "verified"}
  /\ Returns("failed")
  /\ UNCHANGED <<revVars, dest, faults>>

\* The directory the rename publishes.
Published ==
  [state |-> "published", end |-> job.end, line |-> job.line, bad |-> job.bad,
   rot |-> {}, synced |-> job.synced, durable |-> FALSE]

\* Mutant: the rename replaces what has taken the name since it was checked.
PublishReplacing ==
  /\ Running /\ job.pc = "verified"
  /\ dest' = [dest EXCEPT ![job.place] = Published]
  /\ job' = [job EXCEPT !.pc = "renamed"]
  /\ UNCHANGED <<revVars, reported, faults>>

\* PublishNoReplaceAnchored: the rename.
PublishRename ==
  /\ Running /\ job.pc = "verified"
  /\ dest[job.place] = Absent
  /\ dest' = [dest EXCEPT ![job.place] = Published]
  /\ job' = [job EXCEPT !.pc = "renamed"]
  /\ UNCHANGED <<revVars, reported, faults>>

\* Someone took the name since it was checked: the rename refuses, the temporary
\* directory is removed.
PublishExists ==
  /\ Running /\ job.pc = "verified"
  /\ dest[job.place] # Absent
  /\ Returns("exists")
  /\ UNCHANGED <<revVars, dest, faults>>

\* Mutant: success is reported from the rename on.
PublishUnsynced ==
  /\ Running /\ job.pc = "renamed"
  /\ Returns("ok")
  /\ UNCHANGED <<revVars, dest, faults>>

\* syncPublishedDirectory: the parent is synced, and the operation returns.
PublishSync ==
  /\ Running /\ job.pc = "renamed"
  /\ dest' = [dest EXCEPT ![job.place].durable = TRUE]
  /\ Returns("ok")
  /\ UNCHANGED <<revVars, faults>>

\* The parent cannot be synced: the error says that the operation was applied, and
\* the controller of a backup degrades the owner.
PublishSyncFails ==
  /\ Running /\ job.pc = "renamed"
  /\ Returns("applied")
  /\ owner' = IF job.place = "backup" THEN "failed" ELSE owner
  /\ UNCHANGED <<osEnd, diskEnd, held, next, end, exhausted, issued, dest, faults>>

(***************************************************************************)
(* The environment.                                                        *)
(***************************************************************************)

\* The process of the job dies; its temporary directory stays and nobody reads it.
JobKilled ==
  /\ Running
  /\ job' = NoJob
  /\ \/ job.place = "backup" /\ ForgetProcess
     \/ job.place = "restored" /\ UNCHANGED <<owner, held, next, end, exhausted>>
  /\ UNCHANGED <<osEnd, diskEnd, issued, dest, reported, faults>>

\* What a power loss leaves of a directory: a rename that no sync of the parent
\* followed may be undone, and a file that was not synced is not there whole.
AfterPowerLoss(d) ==
  IF d.state # "published" THEN {d}
  ELSE {[d EXCEPT !.durable = TRUE, !.bad = @ \cup (Files \ d.synced), !.synced = Files]}
         \cup (IF d.durable THEN {} ELSE {Absent})

MachineStops ==
  /\ PowerLoss
  /\ job' = NoJob
  /\ \E left \in [Places -> UNION {AfterPowerLoss(dest[p]) : p \in Places}] :
       /\ \A p \in Places : left[p] \in AfterPowerLoss(dest[p])
       /\ dest' = left
  /\ UNCHANGED <<reported, faults>>

\* A file of a published directory rots.
MediaRot ==
  /\ faults < MaxFaults
  /\ \E p \in Places, file \in Files :
       /\ dest[p].state = "published" /\ file \notin dest[p].bad
       /\ dest' = [dest EXCEPT ![p].bad = @ \cup {file}, ![p].rot = @ \cup {file}]
  /\ faults' = faults + 1
  /\ UNCHANGED <<revVars, job, reported>>

\* Another program takes a destination name.
NameTaken ==
  /\ \E p \in Places :
       dest[p] = Absent /\ dest' = [dest EXCEPT ![p] = [state |-> "foreign"]]
  /\ UNCHANGED <<revVars, job, reported, faults>>

\* An operator removes a published directory that no job is at work on.
OperatorRemoves ==
  /\ \E p \in Places :
       /\ dest[p].state = "published" /\ ~(Running /\ job.place = p)
       /\ dest' = [dest EXCEPT ![p] = Absent]
       /\ reported' = [reported EXCEPT ![p] = "nothing"]
  /\ UNCHANGED <<revVars, job, faults>>

\* An operator serves from the restored directory; a damaged one is refused when
\* the owner starts.
ServeRestored ==
  /\ owner = "down"
  /\ dest["restored"].state = "published" /\ dest["restored"].durable
  /\ dest["restored"].bad = {}
  /\ ~(Running /\ job.place = "restored")
  /\ osEnd' = dest["restored"].end /\ diskEnd' = dest["restored"].end
  /\ issued' = dest["restored"].line
  /\ dest' = [dest EXCEPT !["restored"] = Absent]
  /\ reported' = [reported EXCEPT !["restored"] = "nothing"]
  /\ UNCHANGED <<held, next, end, exhausted, owner, job, faults>>

BackupNext ==
  \/ OwnerStep
  \/ CreateBackup \/ RestoreBackup \/ CopyFile \/ VerifyTemp \/ JobFails
  \/ PublishRename \/ PublishExists \/ PublishSync \/ PublishSyncFails
  \/ JobKilled \/ MachineStops \/ MediaRot \/ NameTaken \/ OperatorRemoves
  \/ ServeRestored

BackupSpec == BackupInit /\ [][BackupNext]_backupVars

-----------------------------------------------------------------------------

\* A directory under a destination name is a whole verified copy, whatever copies
\* came out wrong, rotted or were cut short by a crash on the way: only what rots
\* after the publication is wrong in it (copyAndSync, VerifyBackup, SyncDir before
\* the rename).
PublishedIsWhole ==
  \A p \in Places : dest[p].state = "published" => dest[p].bad = dest[p].rot

\* What the operation returns tells what it did: success survives a power loss,
\* and an error that does not say it was applied has published nothing
\* (PublishNoReplaceAnchored, FailedAfter and ErrExist in CreateBackup and
\* RestoreBackup).
PublicationIsHonest ==
  \A p \in Places :
    /\ reported[p] = "ok" => dest[p].state = "published" /\ dest[p].durable
    /\ reported[p] \in {"failed", "exists"} => dest[p].state # "published"

\* A directory that another program put under a destination name after the name was
\* checked is never touched (RENAME_NOREPLACE).
ForeignIsKept ==
  [][\A p \in Places : dest[p].state = "foreign" => dest'[p] = dest[p]]_backupVars
=============================================================================
