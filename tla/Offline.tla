------------------------------- MODULE Offline -------------------------------
(***************************************************************************)
(* Offline recovery of a database directory beside the daemons that own it *)
(* (module Startup).  gapctl inspects the directory and proposes to move a *)
(* damaged log aside; an operator applies the proposal later, when daemons *)
(* may have started, repaired and written the log in between.  Both take   *)
(* the daemons' lock.  A proposal carries the evidence it rests on, and    *)
(* ApplyRecovery compares it with the log before it moves the file.        *)
(***************************************************************************)
EXTENDS Startup, Naturals

CONSTANTS
  Tool,       \* gapctl, as holder of the lock
  MaxInode,   \* bound on the log files that come to stand under the log's name
  MaxWritten  \* bound on the appends

ASSUME ToolIsNoProcess == Tool \notin Processes \cup {None}

VARIABLES
  log,         \* the file under the log's name
  quarantine,  \* the file in the quarantine directory
  proposal,    \* the proposal in the operator's hands
  tool         \* the running or last recover-apply

offlineVars == <<log, quarantine, proposal, tool>>

NoFile == [inode |-> 0, written |-> 0, health |-> "absent"]

\* A log file: which file it is, how much was appended to it, and what a scan of it
\* finds.  ("torn" is the incomplete last frame of a crash.)
NewLog(inode) == [inode |-> inode, written |-> 0, health |-> "whole"]

NoProposal == NoFile

\* The number of the next file: those of the files that exist are taken.
FreshInode == 1 + (IF log.inode > quarantine.inode THEN log.inode ELSE quarantine.inode)

Idle == [pc |-> "idle", claim |-> NoProposal, moved |-> FALSE, audited |-> FALSE,
         outcome |-> "none"]

OfflineInit ==
  /\ StartupInit
  /\ log = NoFile /\ quarantine = NoFile /\ proposal = NoProposal /\ tool = Idle

-----------------------------------------------------------------------------
(* The daemons, with what they do to the log.                              *)

LogUntouched(p) ==
  /\ \/ Start(p) \/ AcquireToInitialize(p) \/ Recheck(p) \/ AcquireToRecover(p)
     \/ ReserveRevisions(p) \/ OpenFails(p) \/ RemoveStaleSocket(p) \/ Bind(p)
     \/ Publish(p) \/ OpenUnwinds(p) \/ Shutdown(p) \/ RemoveSocket(p)
     \/ DrainEngine(p) \/ ReleaseLease(p) \/ CloseWAL(p)
  /\ UNCHANGED log

CreateLog(p) ==
  /\ CreateFile(p)
  /\ log' = IF pc[p] = "wal" THEN NewLog(1) ELSE log

\* RecoverDatabase truncates a torn tail; a damaged or missing log makes it fail,
\* as OpenFails does.
RecoverLog(p) ==
  /\ RecoverDatabase(p)
  /\ "CURRENT" \in files => log.health \in {"whole", "torn"}
  /\ log' = IF log.health = "torn" THEN [log EXCEPT !.health = "whole"] ELSE log

WriteLog(p) ==
  /\ Write(p)
  /\ log.written < MaxWritten
  /\ log' = IF pending[p] THEN log ELSE [log EXCEPT !.written = @ + 1]

\* A snapshot: the next generation has a log of its own.
NextGeneration(p) ==
  /\ pc[p] = "serving" /\ ~pending[p] /\ FreshInode =< MaxInode
  /\ log' = NewLog(FreshInode)
  /\ UNCHANGED startupVars

\* What was not synced may be half written when the process dies.
KillDaemon(p) ==
  /\ Kill(p)
  /\ log' \in {log} \cup (IF pending[p] /\ log.health = "whole"
                          THEN {[log EXCEPT !.health = "torn"]} ELSE {})

-----------------------------------------------------------------------------
(* gapctl recover-propose and recover-apply.                               *)

\* What inspectHeld reports of a log it can find at fault: CORRUPT_WAL, for a torn
\* tail as for damage, with the file's hash and inode.  A missing log leaves no
\* evidence.
Finding == log.health \in {"torn", "damaged"}

\* InspectOffline and ProposeQuarantine, under the lock.
Propose ==
  /\ lock = None
  /\ "CURRENT" \in files /\ Finding
  /\ proposal' = log
  /\ UNCHANGED <<startupVars, log, quarantine, tool>>

\* The deferred close of the lock, by the tool that holds it.
Unlocked == IF lock = Tool THEN None ELSE lock

Release(outcome) ==
  /\ lock' = Unlocked
  /\ tool' = [tool EXCEPT !.pc = "idle", !.outcome = outcome]

OtherThanLock == <<pc, files, identity, socket, pending, served, refused>>

\* Mutant: the owner's lock is not asked for.
ApplyWithoutLock ==
  /\ tool.pc = "idle" /\ proposal # NoProposal
  /\ tool' = [Idle EXCEPT !.pc = "inspect", !.claim = proposal]
  /\ UNCHANGED <<startupVars, log, quarantine, proposal>>

\* ApplyRecovery: AcquireOwner, or OWNER_EXISTS.
ApplyAcquire ==
  /\ tool.pc = "idle" /\ proposal # NoProposal
  /\ lock = None
  /\ lock' = Tool
  /\ tool' = [Idle EXCEPT !.pc = "inspect", !.claim = proposal]
  /\ UNCHANGED <<OtherThanLock, log, quarantine, proposal>>

\* Mutant: the proposal is taken at its word.
ApplyUninspected ==
  /\ tool.pc = "inspect"
  /\ tool' = [tool EXCEPT !.pc = "stat"]
  /\ UNCHANGED <<startupVars, log, quarantine, proposal>>

\* inspectHeld and artifactEvidenceFor: the finding and its evidence are still those
\* of the proposal.
ApplyInspect ==
  /\ tool.pc = "inspect"
  /\ \/ /\ Finding /\ log = tool.claim
        /\ tool' = [tool EXCEPT !.pc = "stat"]
        /\ UNCHANGED lock
     \/ /\ ~(Finding /\ log = tool.claim)
        /\ Release("mismatch")
  /\ UNCHANGED <<OtherThanLock, log, quarantine, proposal>>

\* PublishNoReplaceAnchored looks at the inode it is about to move.
ApplyStat ==
  /\ tool.pc = "stat"
  /\ IF log.inode = tool.claim.inode
     THEN tool' = [tool EXCEPT !.pc = "rename"] /\ UNCHANGED lock
     ELSE Release("failed")
  /\ UNCHANGED <<OtherThanLock, log, quarantine, proposal>>

\* The rename, which refuses to replace a file in the quarantine directory.
ApplyRename ==
  /\ tool.pc = "rename"
  /\ quarantine = NoFile /\ log # NoFile
  /\ quarantine' = log /\ log' = NoFile /\ files' = files \ {"wal"}
  /\ tool' = [tool EXCEPT !.pc = "renamed", !.moved = TRUE]
  /\ UNCHANGED <<pc, lock, identity, socket, pending, served, refused, proposal>>

\* Any failure up to the rename, a taken destination included.
ApplyFails ==
  /\ tool.pc \in {"inspect", "stat", "rename"}
  /\ Release("failed")
  /\ UNCHANGED <<OtherThanLock, log, quarantine, proposal>>

\* Mutant: the moved file is not looked at.
ApplyUnchecked ==
  /\ tool.pc = "renamed"
  /\ tool' = [tool EXCEPT !.pc = "audit"] /\ UNCHANGED lock
  /\ UNCHANGED <<OtherThanLock, log, quarantine, proposal>>

\* PublishNoReplaceAnchored compares the inode it moved, then syncs both directories.
ApplyCheckMoved ==
  /\ tool.pc = "renamed"
  /\ \/ quarantine.inode = tool.claim.inode
        /\ tool' = [tool EXCEPT !.pc = "audit"] /\ UNCHANGED lock
     \/ Release("applied")
  /\ UNCHANGED <<OtherThanLock, log, quarantine, proposal>>

\* AppendAuditAfterApply; the deferred close releases the lock.
ApplyAudit ==
  /\ tool.pc = "audit"
  /\ lock' = Unlocked
  /\ \E synced \in BOOLEAN :
       tool' = [tool EXCEPT !.pc = "idle", !.audited = synced,
                            !.outcome = IF synced THEN "ok" ELSE "applied"]
  /\ UNCHANGED <<OtherThanLock, log, quarantine, proposal>>

KillTool ==
  /\ tool.pc # "idle"
  /\ lock' = Unlocked
  /\ tool' = Idle
  /\ UNCHANGED <<OtherThanLock, log, quarantine, proposal>>

-----------------------------------------------------------------------------
(* The medium and the operator.                                            *)

MediaDamage ==
  /\ log.health \in {"whole", "torn"}
  /\ log' = [log EXCEPT !.health = "damaged"]
  /\ UNCHANGED <<startupVars, quarantine, proposal, tool>>

\* While no daemon owns the directory the operator puts another file under the
\* log's name: a copy, or the file from the quarantine directory.
OperatorReplaces ==
  /\ lock \notin Processes /\ "CURRENT" \in files
  /\ \/ /\ FreshInode =< MaxInode
        /\ log' = NewLog(FreshInode)
        /\ UNCHANGED <<quarantine, tool>>
     \/ /\ quarantine # NoFile /\ log = NoFile
        /\ tool.pc = "idle"
        /\ log' = quarantine /\ quarantine' = NoFile
        /\ tool' = Idle
  /\ files' = files \cup {"wal"}
  /\ UNCHANGED <<pc, lock, identity, socket, pending, served, refused, proposal>>

OfflineNext ==
  \/ /\ \E p \in Processes :
          \/ LogUntouched(p) \/ CreateLog(p) \/ RecoverLog(p) \/ WriteLog(p)
          \/ NextGeneration(p) \/ KillDaemon(p)
     /\ UNCHANGED <<quarantine, proposal, tool>>
  \/ Propose \/ ApplyAcquire \/ ApplyInspect \/ ApplyStat \/ ApplyRename \/ ApplyFails
  \/ ApplyCheckMoved \/ ApplyAudit \/ KillTool
  \/ MediaDamage \/ OperatorReplaces

OfflineSpec == OfflineInit /\ [][OfflineNext]_<<startupVars, offlineVars>>

-----------------------------------------------------------------------------

\* A daemon that serves has its log under the log's name: recovery never moves a
\* file away from under an owner, whenever it was proposed (AcquireOwner in
\* ApplyRecovery and in RecoverDatabase).
ServingHasLog ==
  \A p \in Processes : pc[p] \in {"serving", "quiet", "draining"} => log # NoFile

\* An applied recovery moved the very file of its proposal, with nothing appended
\* since, and is in the audit file; one that reports a mismatch or a failure moved
\* nothing, and one that moved something else says that it was applied
\* (ApplyRecovery, sameArtifactEvidence, PublishNoReplaceAnchored).
RecoveryIsExact ==
  /\ tool.outcome = "ok" => /\ quarantine.inode = tool.claim.inode
                            /\ quarantine.written = tool.claim.written
                            /\ tool.audited
  /\ tool.outcome \in {"mismatch", "failed"} => ~tool.moved
  /\ tool.outcome = "applied" => tool.moved
=============================================================================
