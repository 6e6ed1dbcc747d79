--------------------------------- MODULE Wire ---------------------------------
(***************************************************************************)
(* Which failures of an administrative request the owner can put on the    *)
(* wire.  EncodeResponse decodes what it has encoded and refuses an error  *)
(* whose evidence does not fit the schema of its code; serveConnection     *)
(* then closes the connection and the client gets no answer.               *)
(*                                                                         *)
(* An error is its code and the evidence fields that are set in it; the    *)
(* codes are those that administration can answer with.                    *)
(***************************************************************************)
EXTENDS FiniteSets

Evidence(required, optional, alternatives) ==
  [required |-> required, alternatives |-> alternatives,
   allowed |-> required \cup optional \cup UNION alternatives \cup {"operation_applied"}]

Pairs == {{"expected_database_id", "actual_database_id"},
          {"expected_revision", "actual_revision"},
          {"expected_manifest_generation", "actual_manifest_generation"}}

errorSchema ==
  [SERVER_BUSY |-> Evidence({"active_clients", "maximum_clients", "queue_depth"}, {}, {}),
   SERVER_SHUTTING_DOWN |-> Evidence({"lifecycle"}, {}, {}),
   DEADLINE_EXCEEDED |-> Evidence({"operation", "deadline"}, {}, {}),
   STORAGE_DEGRADED |->
     Evidence({"failed_stage", "current_revision", "durable_through_revision"}, {}, {}),
   CORRUPT_MANIFEST |-> Evidence({"file", "reason"}, {}, {}),
   CORRUPT_WAL |-> Evidence({"file", "offset", "reason"}, {"actual_revision"}, {}),
   IO_ERROR |-> Evidence({"operation", "path", "os_error_category"}, {}, {}),
   ADMIN_PRECONDITION_FAILED |-> Evidence({}, UNION Pairs, {}),
   COMPACTION_NOT_SAFE |-> Evidence({"through_revision", "active_snapshot_revision"}, {}, {}),
   BACKUP_DESTINATION_EXISTS |-> Evidence({"destination"}, {}, {}),
   BACKUP_INVALID |-> Evidence({"backup_path"}, {}, {{"file", "reason"}}),
   AUDIT_FAILED_AFTER_APPLY |->
     Evidence({"operation", "reason", "current_revision", "operation_applied"}, {}, {}),
   INTERNAL |-> Evidence({"correlation_id"}, {"lifecycle", "reason"}, {})]

\* validateStructuredError: nothing irrelevant, everything required, one of each
\* group of alternatives, and a whole pair for a failed precondition.
validateStructuredError(error) ==
  LET schema == errorSchema[error.code]
  IN /\ error.evidence \subseteq schema.allowed
     /\ schema.required \subseteq error.evidence
     /\ \A group \in schema.alternatives : group \cap error.evidence # {}
     /\ error.code = "ADMIN_PRECONDITION_FAILED" =>
          \E pair \in Pairs : pair \subseteq error.evidence

NoError == [code |-> "none", evidence |-> {}]

Fails(code, evidence) == [code |-> code, evidence |-> evidence]

Applied(error) == [error EXCEPT !.evidence = @ \cup {"operation_applied"}]

-----------------------------------------------------------------------------
(* The errors as the code makes them.                                      *)

serverBusy == Fails("SERVER_BUSY", {"active_clients", "maximum_clients", "queue_depth"})

\* mutationUnavailable of a degraded owner, a failed barrier, verifyOnline's mismatch.
storageDegraded ==
  Fails("STORAGE_DEGRADED", {"failed_stage", "current_revision", "durable_through_revision"})

\* adminPreconditionError, whose reason dispatch replaces by a pair (augmentAdminError).
adminPrecondition == Fails("ADMIN_PRECONDITION_FAILED", {"expected_revision", "actual_revision"})

\* PlanCompaction's error, with the evidence that dispatch adds.
compactionNotSafe == Fails("COMPACTION_NOT_SAFE", {"through_revision", "active_snapshot_revision"})

ioFailure == Fails("IO_ERROR", {"operation", "path", "os_error_category"})

corruptManifest == Fails("CORRUPT_MANIFEST", {"file", "reason"})

corruptWAL == Fails("CORRUPT_WAL", {"file", "offset", "reason"})

backupDestinationExists == Fails("BACKUP_DESTINATION_EXISTS", {"path"})

backupInvalid == Fails("BACKUP_INVALID", {"reason"})

\* AppendAuditAfterApply, after an operation that went well.
auditFailed == Fails("AUDIT_FAILED_AFTER_APPLY", {"operation_applied"})

\* auditFailure, after one that had failed already.
auditFailedTwice == Fails("AUDIT_FAILED_AFTER_APPLY", {"operation_applied", "reason"})

\* structuredError of a context whose deadline passed.
deadlineExceeded == Fails("DEADLINE_EXCEEDED", {"operation", "deadline"})
=============================================================================
