-------------------------------- MODULE Admin --------------------------------
(***************************************************************************)
(* Online administration: requests of several connections pass through the *)
(* owner's dispatch, which reads a status and a manifest generation before *)
(* it enters the controller and reads files after it has left it; the      *)
(* controller's mutex, the engine's writer, the manifest CURRENT and the   *)
(* audit file behind it.                                                   *)
(*                                                                         *)
(* What a snapshot or a compaction does to the files is in module Storage; *)
(* here a generation is a number and the revision of its snapshot.         *)
(***************************************************************************)
EXTENDS Naturals, SequencesExt, Wire

CONSTANTS
  Requests,     \* the requests made
  MaxRevision,  \* bound on commits
  None

VARIABLES
  revision,     \* DatabaseState.current
  lifecycle,    \* DatabaseState.lifecycle: "ready" or "degraded"
  current,      \* CURRENT on disk: its generation, snapshot revision and whether
                \* its rename is known to be durable
  manifest,     \* Controller.manifest
  generation,   \* Server.manifest
  mu,           \* the request that holds Controller.mu
  files,        \* the revisions of the snapshot files in the directory
  audit,        \* the lines of audit.jsonl; a line is what lies between line ends
  req,          \* the requests
  effect        \* history: the requests that switched CURRENT, removed files or
                \* made a backup

adminVars == <<revision, lifecycle, current, manifest, generation, mu, files, audit, req, effect>>

Ops == {"snapshot", "compact", "backup", "verify"}

Generation(gen, rev) == [gen |-> gen, rev |-> rev]

NoRequest == [pc |-> "start", op |-> "none", expected |-> 0, snapshot |-> 0, gen |-> 0,
              out |-> "none", error |-> NoError, rev |-> 0, file |-> 0]

AdminInit ==
  /\ revision = 1 /\ lifecycle = "ready"
  /\ current = [gen |-> 1, rev |-> 0, durable |-> TRUE]
  /\ manifest = Generation(1, 0) /\ generation = 1
  /\ mu = None /\ files = {0} /\ audit = <<>> /\ effect = {}
  /\ req = [r \in Requests |-> NoRequest]

At(r, where) == req[r].pc = where
Admins == {r \in Requests : req[r].op \in Ops \ {"verify"}}

\* The writer is inside the snapshot installer of some request.
WriterBusy == \E r \in Requests : req[r].op = "snapshot" /\ At(r, "auditing")

\* The request r answered; what it had read on the way is gone.
Return(r, out, error) ==
  [req EXCEPT ![r].pc = "done", ![r].out = out, ![r].error = error,
              ![r].expected = 0, ![r].snapshot = 0, ![r].gen = 0]

\* DatabaseState.execute, as far as administration can tell.
Commit ==
  /\ lifecycle = "ready" /\ ~WriterBusy /\ revision < MaxRevision
  /\ revision' = revision + 1
  /\ UNCHANGED <<lifecycle, current, manifest, generation, mu, audit, req, files, effect>>

-----------------------------------------------------------------------------
(* The owner's side, before the controller.                                *)

\* dispatch reads a status, for which it needs the mutex.  The caller of a
\* snapshot or a backup names the revision it expects, a compaction takes the
\* status's.  (rev of a verification is history: CURRENT at this moment.)
ReadStatus(r) ==
  /\ At(r, "start") /\ mu = None
  /\ \E op \in Ops :
     \E expected \in IF op \in {"compact", "verify"} THEN {revision} ELSE {revision - 1, revision} :
       req' = [req EXCEPT ![r].pc = IF op = "verify" THEN "verifying" ELSE "statused",
                          ![r].op = op, ![r].expected = expected,
                          ![r].snapshot = IF op = "verify" THEN manifest.rev ELSE 0,
                          ![r].rev = IF op = "verify" THEN current.rev ELSE 0]
  /\ UNCHANGED <<revision, lifecycle, current, manifest, generation, mu, audit, files, effect>>

\* server.manifest.Load().
LoadGeneration(r) ==
  /\ At(r, "statused")
  /\ req' = [req EXCEPT ![r].pc = "calling", ![r].gen = generation]
  /\ UNCHANGED <<revision, lifecycle, current, manifest, generation, mu, audit, files, effect>>

\* Controller.check, and the lifecycle that Snapshot and DurableAdmin ask for.
Checked(r) == req[r].gen = manifest.gen /\ req[r].expected = revision
Admitted(r) == req[r].op = "compact" \/ lifecycle = "ready"

\* Controller.check under the mutex; a snapshot or a backup is then queued for the
\* writer if the engine is ready, a compaction does not ask.
Enter(r) ==
  /\ At(r, "calling") /\ mu = None
  /\ \/ /\ Checked(r) /\ Admitted(r)
        /\ mu' = r /\ req' = [req EXCEPT ![r].pc = "inside"]
     \/ /\ Checked(r) /\ ~Admitted(r)
        /\ req' = Return(r, "refused", storageDegraded) /\ UNCHANGED mu
     \/ /\ ~Checked(r)
        /\ req' = Return(r, "refused", adminPrecondition) /\ UNCHANGED mu
  /\ UNCHANGED <<revision, lifecycle, current, manifest, generation, audit, files, effect>>

-----------------------------------------------------------------------------
(* The controller's operations.                                            *)

\* What an operation that changed nothing of the authority can fail with.
Refusals(op) ==
  CASE op = "snapshot" -> {serverBusy, deadlineExceeded, adminPrecondition, ioFailure}
    [] op = "compact" -> {compactionNotSafe, ioFailure}
    [] op = "backup" -> {serverBusy, adminPrecondition, ioFailure, corruptWAL,
                         backupDestinationExists, backupInvalid}

\* The queue is full, the revision moved on, or nothing could be done; for a
\* snapshot, perhaps because its file is there already, or after the file is put in
\* place and left there.  A failed barrier degrades.
Refuse(r) ==
  /\ At(r, "inside")
  /\ mu' = None
  /\ \/ /\ \E error \in Refusals(req[r].op) : req' = Return(r, "refused", error)
        /\ UNCHANGED <<lifecycle, files>>
     \/ /\ req[r].op # "compact"
        /\ lifecycle' = "degraded" /\ req' = Return(r, "refused", storageDegraded)
        /\ UNCHANGED files
     \/ /\ req[r].op = "snapshot" /\ req[r].expected = revision /\ revision \notin files
        /\ files' = files \cup {revision} /\ req' = Return(r, "refused", ioFailure)
        /\ UNCHANGED lifecycle
  /\ UNCHANGED <<revision, current, manifest, generation, audit, effect>>

\* Mutant: a failed directory sync after the rename is an ordinary failure.
InstallSnapshotUnreported(r) ==
  /\ At(r, "inside") /\ req[r].op = "snapshot"
  /\ req[r].expected = revision /\ revision \notin files
  /\ manifest' = Generation(manifest.gen + 1, revision)
  /\ current' = [gen |-> manifest'.gen, rev |-> revision, durable |-> FALSE]
  /\ lifecycle' = "degraded"
  /\ req' = Return(r, "refused", ioFailure) /\ mu' = None
  /\ files' = files \cup {revision}
  /\ effect' = effect \cup {r}
  /\ UNCHANGED <<revision, generation, audit>>

\* Mutant: the controller keeps its manifest when the installation reports an error.
InstallSnapshotKeeping(r) ==
  /\ At(r, "inside") /\ req[r].op = "snapshot"
  /\ req[r].expected = revision /\ revision \notin files
  /\ current' = [gen |-> manifest.gen + 1, rev |-> revision, durable |-> FALSE]
  /\ lifecycle' = "degraded"
  /\ req' = [req EXCEPT ![r].pc = "auditing", ![r].rev = revision, ![r].out = "applied_error",
                        ![r].error = Applied(ioFailure)]
  /\ files' = files \cup {revision}
  /\ effect' = effect \cup {r}
  /\ UNCHANGED <<revision, manifest, generation, mu, audit>>

\* InstallSnapshotGeneration puts the next generation in place; when the last
\* directory sync fails the rename may not be durable.
InstallSnapshot(r) ==
  /\ At(r, "inside") /\ req[r].op = "snapshot"
  /\ req[r].expected = revision /\ revision \notin files
  /\ manifest' = Generation(manifest.gen + 1, revision)
  /\ \E durable \in BOOLEAN :
       /\ current' = [gen |-> manifest'.gen, rev |-> revision, durable |-> durable]
       /\ lifecycle' = IF durable THEN lifecycle ELSE "degraded"
       /\ req' = [req EXCEPT ![r].pc = "auditing", ![r].rev = revision,
                             ![r].out = IF durable THEN "ok" ELSE "applied_error",
                             ![r].error = IF durable THEN NoError ELSE Applied(ioFailure)]
  /\ files' = files \cup {revision}
  /\ effect' = effect \cup {r}
  /\ UNCHANGED <<revision, generation, mu, audit>>

\* A snapshot or log file was put in place, and the directory sync after it failed.
InstallFilesOnly(r) ==
  /\ At(r, "inside") /\ req[r].op = "snapshot"
  /\ req[r].expected = revision /\ revision \notin files
  /\ lifecycle' = "degraded"
  /\ req' = [req EXCEPT ![r].pc = "auditing", ![r].out = "applied_error",
                        ![r].error = Applied(ioFailure)]
  /\ files' = files \cup {revision}
  /\ UNCHANGED <<revision, current, manifest, generation, mu, audit, effect>>

\* RunCompaction, whatever the lifecycle, and CreateBackup behind the writer's
\* barrier; either may fail after part of it is done, which degrades.
Apply(r) ==
  /\ At(r, "inside")
  /\ \/ req[r].op = "compact"
     \/ req[r].op = "backup" /\ req[r].expected = revision
  /\ \E whole \in BOOLEAN :
       /\ lifecycle' = IF whole THEN lifecycle ELSE "degraded"
       /\ req' = [req EXCEPT ![r].pc = "auditing",
                             ![r].out = IF whole THEN "ok" ELSE "applied_error",
                             ![r].error = IF whole THEN NoError ELSE Applied(ioFailure)]
  /\ files' \in IF req[r].op = "compact" THEN {files, {f \in files : f >= manifest.rev}} ELSE {files}
  /\ effect' = effect \cup {r}
  /\ UNCHANGED <<revision, current, manifest, generation, mu, audit>>

\* The audit file once r's entry, or the head of it, is appended: to a line of its
\* own when the file ends with one or was just rotated, else to what is there.
Appended(r, rotated, whole) ==
  LET entry == [of |-> r, whole |-> whole]
  IN IF audit = <<>> \/ rotated \/ Last(Last(audit)).whole
     THEN Append(audit, <<entry>>)
     ELSE Append(Front(audit), Append(Last(audit), entry))

\* Mutant: an audit entry that could not be written is forgotten.
AuditForgiving(r) ==
  /\ At(r, "auditing")
  /\ audit' \in {audit, Appended(r, FALSE, FALSE), Appended(r, FALSE, TRUE)}
  /\ req' = [req EXCEPT ![r].pc = IF req[r].op = "snapshot" /\ req[r].out = "ok"
                                  THEN "returned" ELSE "done"]
  /\ mu' = None
  /\ UNCHANGED <<revision, lifecycle, current, manifest, generation, files, effect>>

\* Mutant: the generation advances after every snapshot that changed something.
AuditAdvancing(r) ==
  /\ At(r, "auditing")
  /\ audit' = Appended(r, FALSE, TRUE)
  /\ req' = [req EXCEPT ![r].pc = IF req[r].op = "snapshot" THEN "returned" ELSE "done"]
  /\ mu' = None
  /\ UNCHANGED <<revision, lifecycle, current, manifest, generation, files, effect>>

\* auditApplied or auditFailure: AppendAudit writes and syncs the entry, or fails
\* with none, some or all of it written, which degrades.
Audit(r) ==
  /\ At(r, "auditing")
  /\ \E rotated \in BOOLEAN :
       \/ /\ audit' = Appended(r, rotated, TRUE)
          /\ req' = [req EXCEPT ![r].pc = IF req[r].op = "snapshot" /\ req[r].out = "ok"
                                          THEN "returned" ELSE "done"]
          /\ UNCHANGED lifecycle
       \/ /\ audit' \in {audit, Appended(r, rotated, FALSE), Appended(r, rotated, TRUE)}
          /\ req' = Return(r, "applied_error",
                           IF req[r].out = "ok" THEN auditFailed ELSE auditFailedTwice)
          /\ lifecycle' = "degraded"
  /\ mu' = None
  /\ UNCHANGED <<revision, current, manifest, generation, files, effect>>

-----------------------------------------------------------------------------
(* The owner's side, after the controller.                                 *)

\* Mutant: the generation stays what it was.
AddNothing(r) ==
  /\ At(r, "returned")
  /\ req' = [req EXCEPT ![r].pc = "reading"]
  /\ UNCHANGED <<revision, lifecycle, current, manifest, generation, mu, audit, files, effect>>

\* server.manifest.Add(1) after a snapshot without error.
AddGeneration(r) ==
  /\ At(r, "returned")
  /\ generation' = generation + 1
  /\ req' = [req EXCEPT ![r].pc = "reading"]
  /\ UNCHANGED <<revision, lifecycle, current, manifest, mu, audit, files, effect>>

\* Mutant: the error of the second read goes out as it came.
ReadResultUnapplied(r) ==
  /\ At(r, "reading")
  /\ req' = Return(r, "applied_error", corruptManifest)
  /\ lifecycle' = "degraded"
  /\ UNCHANGED <<revision, current, manifest, generation, mu, audit, files, effect>>

\* The file names of the answer come from CURRENT as it is by now; a manifest that
\* cannot be read, or is older than the generation, degrades.
ReadResult(r) ==
  /\ At(r, "reading")
  /\ \/ /\ current.gen >= generation
        /\ req' = [req EXCEPT ![r].pc = "done", ![r].file = current.rev]
        /\ UNCHANGED lifecycle
     \/ /\ \E error \in {corruptManifest, ioFailure} :
             req' = Return(r, "applied_error", Applied(error))
        /\ lifecycle' = "degraded"
  /\ UNCHANGED <<revision, current, manifest, generation, mu, audit, files, effect>>

\* verifyOnline compares the status it has read with CURRENT as it is by now.
Verify(r) ==
  /\ At(r, "verifying")
  /\ req' = IF req[r].snapshot = current.rev THEN Return(r, "ok", NoError)
            ELSE Return(r, "mismatch", storageDegraded)
  /\ UNCHANGED <<revision, lifecycle, current, manifest, generation, mu, audit, files, effect>>

\* The process dies, perhaps in the middle of an audit line, and starts again; its
\* reservation of revisions syncs the directory (ReserveRevisions).  Requests in
\* progress get no answer.
Restart ==
  /\ \E r \in Requests : ~At(r, "start") /\ ~At(r, "gone")
  /\ audit' \in {audit} \cup {Appended(r, FALSE, FALSE) : r \in {q \in Requests : At(q, "auditing")}}
  /\ req' = [r \in Requests |-> IF At(r, "start") THEN req[r] ELSE [NoRequest EXCEPT !.pc = "gone"]]
  /\ lifecycle' = "ready" /\ mu' = None
  /\ current' = [current EXCEPT !.durable = TRUE]
  /\ manifest' = Generation(current.gen, current.rev) /\ generation' = current.gen
  /\ effect' = {}
  /\ UNCHANGED <<revision, files>>

\* Every request has its answer, or never will.
Over == (\A r \in Requests : At(r, "done") \/ At(r, "gone")) /\ UNCHANGED adminVars

AdminNext ==
  \/ Commit \/ Restart \/ Over
  \/ \E r \in Requests :
       \/ ReadStatus(r) \/ LoadGeneration(r) \/ Enter(r)
       \/ Refuse(r) \/ InstallSnapshot(r) \/ InstallFilesOnly(r) \/ Apply(r) \/ Audit(r)
       \/ AddGeneration(r) \/ ReadResult(r) \/ Verify(r)

AdminSpec == AdminInit /\ [][AdminNext]_adminVars

-----------------------------------------------------------------------------

Done(r) == At(r, "done")

\* A refused request has left the authority alone - CURRENT, the older files and the
\* backups - and one that reports success has done its work; a snapshot's answer never
\* names a file older than its snapshot, though it may name a later one
\* (OperationApplied in Controller.Snapshot, Compact and Backup, dispatch's second
\* read of CURRENT, appliedAdminResultError).  A verification reports a mismatch only
\* when CURRENT has moved on since it read its status, also after a snapshot that
\* failed behind the rename (verifyOnline, Controller.Status).
OutcomeTellsEffect ==
  /\ \A r \in Admins :
       /\ Done(r) /\ req[r].out = "refused" => r \notin effect
       /\ Done(r) /\ req[r].out = "ok" => r \in effect /\ req[r].file >= req[r].rev
  /\ \A r \in Requests : Done(r) /\ req[r].out = "mismatch" => req[r].rev < current.rev

\* encodeResponseForFrame succeeded; otherwise the connection is closed instead.
Told(r) == req[r].error = NoError \/ validateStructuredError(req[r].error)

\* A failure that reaches the client says operation_applied whenever CURRENT was
\* switched, files were removed or a backup made, and never when the request was
\* refused; and the only failures that reach nobody are those of an audit entry and
\* of a backup that exists or does not verify (validateStructuredError against the
\* errors of persist, engine and admin, augmentAdminError, appliedAdminResultError).
AnswerSaysApplied ==
  \A r \in Admins : Done(r) =>
    /\ Told(r) /\ req[r].out = "applied_error" => "operation_applied" \in req[r].error.evidence
    /\ req[r].out = "refused" => "operation_applied" \notin req[r].error.evidence
    /\ Told(r) \/ req[r].error.code \in {"AUDIT_FAILED_AFTER_APPLY", "BACKUP_DESTINATION_EXISTS",
                                        "BACKUP_INVALID"}

\* The failure of an audit entry is told to the client whose operation was applied
\* (AppendAuditAfterApply, auditFailure).
AuditFailureIsTold ==
  \A r \in Admins : Done(r) /\ req[r].error.code = "AUDIT_FAILED_AFTER_APPLY" => Told(r)

\* Ordinary success comes after the whole audit entry; an operation that took effect
\* and cannot say so leaves the owner degraded (auditApplied, auditFailure,
\* MarkAdminDegraded).
SuccessIsAudited ==
  \A r \in Admins :
    /\ Done(r) /\ req[r].out = "ok" =>
         \E i \in DOMAIN audit : \E j \in DOMAIN audit[i] : audit[i][j] = [of |-> r, whole |-> TRUE]
    /\ Done(r) /\ req[r].out = "applied_error" => lifecycle = "degraded"

\* An owner that says it is ready can be administered: once no snapshot is between
\* the controller and the counter, the three records of the generation agree, so
\* no request is refused for a generation nobody can name (Server.manifest,
\* Controller.manifest, CURRENT).
GenerationsAgree ==
  lifecycle = "ready" /\ (\A r \in Requests : req[r].pc \notin {"auditing", "returned"}) =>
    generation = manifest.gen /\ manifest.gen = current.gen

\* A compaction that takes effect never does so under a CURRENT that a power failure
\* could undo, though it does not ask for the lifecycle: the generation the
\* dispatch passes is then behind (Controller.check).
CompactionHasDurableCurrent ==
  [][\A r \in Admins : req[r].op = "compact" /\ r \in effect' \ effect => current.durable]_adminVars
=============================================================================
