------------------------------- MODULE Storage -------------------------------
(***************************************************************************)
(* The storage authority of one database directory and the writer that     *)
(* owns it: commits go through the revision allocator, the write-ahead log *)
(* and the in-memory map; a snapshot installs a new generation (snapshot   *)
(* file, next log, CURRENT); compaction removes superseded files; the      *)
(* owner may be stopped, killed or lose power at any step, and start-up    *)
(* recovers from what the directory holds.                                 *)
(*                                                                         *)
(* Three layers hold a log frame: the process's bufio buffer (lost when    *)
(* the process dies), the file as the kernel shows it (lost, from the end, *)
(* when power fails) and what the last file sync covered.  Two layers hold *)
(* directory entries: what the kernel shows and what the last directory    *)
(* sync covered.  A record's value is identified by the revision that      *)
(* wrote it.  The predicate phase of a batch, expiry and watches are the   *)
(* subject of other modules: here a batch is one whose conditions hold.    *)
(***************************************************************************)
EXTENDS Revisions, FiniteSets, SequencesExt

CONSTANTS Keys,     \* the keys of the database
          Batches   \* the batches clients send: [Keys -> {"none", "put", "delete"}]

ASSUME BatchAssumption == Batches \subseteq [Keys -> {"none", "put", "delete"}]

VARIABLES
  dir,        \* snapshot and log files and CURRENT, as the kernel shows them
  disk,       \* the same, as the last directory sync left them
  snapshots,  \* the contents of snapshot files, by snapshot revision
  wals,       \* the contents of log files, by first revision
  phase,      \* where start-up or the writer goroutine is
  op,         \* the mutation the writer is executing
  lifecycle,  \* DatabaseState.lifecycle
  closing,    \* DatabaseState.closed
  records,    \* DatabaseState.records: the revision of each key, 0 when absent
  current,    \* DatabaseState.current
  durable,    \* DatabaseState.durableThrough
  log,        \* DatabaseState.log: the first revision of the log written to
  walDurable, \* WAL.durableThrough
  walFailed,  \* WAL.failed
  request,    \* the administrative request being served, at most one (Controller.mu)
  serverGen,  \* Server.manifest: the generation the server expects of Controller
  commits,    \* history: the frames appended, less those a crash lost
  promised,   \* history: the largest revision a client was told is durable
  claimed     \* history: the largest durable_through_revision ever reported

diskVars  == <<dir, disk, snapshots, wals>>
engineVars == <<phase, op, lifecycle, closing, records, current, durable>>
walVars   == <<log, walDurable, walFailed>>
adminVars == <<request, serverGen>>
history   == <<commits, promised, claimed>>
vars == <<revVars, diskVars, engineVars, walVars, adminVars, history>>

Revs == 0..MaxRevision
NoRecords == [k \in Keys |-> 0]
NoOp == [rev |-> 0, batch |-> [k \in Keys |-> "none"], ack |-> "memory"]
NewWal(generation) ==
  [gen |-> generation, frames |-> <<>>, written |-> 0, synced |-> 0, torn |-> FALSE]

Up == phase \notin {"down", "recovering"}
Greater(a, b) == IF a > b THEN a ELSE b

-----------------------------------------------------------------------------
(* The log file and the map it replays to.                                 *)

\* replayRecords and DatabaseState.apply: what one commit does to the records.
ApplyCommit(map, commit) ==
  [k \in Keys |-> CASE commit.batch[k] = "put"    -> commit.rev
                    [] commit.batch[k] = "delete" -> 0
                    [] OTHER                      -> map[k]]

Replay(map, frames) == FoldLeft(ApplyCommit, map, frames)

\* WAL.lastRevision, and the revision ScanWAL recovers.
LastRevision(first) ==
  IF wals[first].frames = <<>> THEN first - 1 ELSE Last(wals[first].frames).rev

\* The buffer may spill whole frames and part of the next one into the file.
Spills(wal) ==
  {[wal EXCEPT !.written = n, !.torn = t] :
     <<n, t>> \in {<<m, u>> \in (wal.written..Len(wal.frames)) \X BOOLEAN :
                     /\ u => m < Len(wal.frames)
                     /\ (m = wal.written /\ wal.torn) => u}}

\* WAL.Barrier: flush and sync.
Synced(wal) ==
  [wal EXCEPT !.written = Len(wal.frames), !.synced = Len(wal.frames), !.torn = FALSE]

BarrierSucceeds ==
  /\ ~walFailed
  /\ wals' = [wals EXCEPT ![log] = Synced(wals[log])]
  /\ walDurable' = LastRevision(log)
  /\ UNCHANGED walFailed

BarrierFails ==
  /\ wals' \in IF walFailed THEN {wals}
               ELSE {[wals EXCEPT ![log] = w] : w \in Spills(wals[log])}
  /\ walFailed' = TRUE
  /\ UNCHANGED walDurable

\* A dead process leaves the part of the log it had handed to the kernel.
Abandoned(wal) == [wal EXCEPT !.frames = SubSeq(wal.frames, 1, wal.written)]

\* Power loss keeps at least the synced part of the log.
PowerLossOutcomes(wal) ==
  {[wal EXCEPT !.frames = SubSeq(wal.frames, 1, n), !.written = n,
               !.synced = n, !.torn = t] :
     <<n, t>> \in {<<m, u>> \in (wal.synced..wal.written) \X BOOLEAN :
                     u => m < wal.written \/ wal.torn}}

-----------------------------------------------------------------------------
(* The directory.                                                          *)

ActiveLog(d) == d.cur.snap + 1

\* RecoverDatabase finds the generation CURRENT names, complete and in order.
AuthorityIntact(d) ==
  /\ d.cur.snap \in d.snaps
  /\ ActiveLog(d) \in d.logs
  /\ LET wal == wals[ActiveLog(d)]
     IN /\ wal.gen = d.cur.gen
        /\ \A i \in 1..wal.written :
             /\ wal.frames[i].rev > IF i = 1 THEN d.cur.snap ELSE wal.frames[i - 1].rev
             /\ wal.frames[i].rev =< osEnd

\* Each rename or removal since the last directory sync may or may not survive.
PowerLossDirectories ==
  {[cur |-> c, snaps |-> s, logs |-> l] :
     <<c, s, l>> \in
       {dir.cur, disk.cur}
       \X {s \in SUBSET (dir.snaps \cup disk.snaps) : dir.snaps \cap disk.snaps \subseteq s}
       \X {l \in SUBSET (dir.logs \cup disk.logs) : dir.logs \cap disk.logs \subseteq l}}

SyncDir == disk' = dir /\ DirectorySync

-----------------------------------------------------------------------------
(***************************************************************************)
(* The database directory and engine as initializeRuntime leaves them.     *)
(***************************************************************************)
StorageInit ==
  /\ RevInit
  /\ dir = [cur |-> [gen |-> 1, snap |-> 0], snaps |-> {0}, logs |-> {1}]
  /\ disk = dir
  /\ snapshots = [r \in Revs |-> NoRecords]
  /\ wals = [r \in 1..MaxRevision |-> NewWal(IF r = 1 THEN 1 ELSE 0)]
  /\ phase = "idle" /\ op = NoOp /\ lifecycle = "ready" /\ closing = FALSE
  /\ records = NoRecords /\ current = 0 /\ durable = 0
  /\ log = 1 /\ walDurable = 0 /\ walFailed = FALSE
  /\ request = <<>> /\ serverGen = 1
  /\ commits = <<>> /\ promised = 0 /\ claimed = 0

-----------------------------------------------------------------------------
(* execute: one mutation, from the allocator to the response.              *)

Degrade == lifecycle' = "degraded" /\ phase' = "idle" /\ op' = NoOp

\* WAL.Append writes through the buffer; an error leaves any part of the frame
\* behind and fails the log for good.
AppendFrame(revision, batch, ack) ==
  LET frame   == [rev |-> revision, batch |-> batch]
      longer  == [wals[log] EXCEPT !.frames = Append(@, frame)]
  IN /\ ~walFailed
     /\ wals' \in {[wals EXCEPT ![log] = w] : w \in Spills(longer)}
     /\ commits' = Append(commits, frame)
     /\ \/ /\ phase' = IF ack = "durable" THEN "barrier" ELSE "apply"
           /\ op' = [rev |-> revision, batch |-> batch, ack |-> ack]
           /\ UNCHANGED <<lifecycle, walFailed>>
        \/ Degrade /\ walFailed' = TRUE
     /\ UNCHANGED <<dir, snapshots, closing, records, current, durable, log, walDurable,
                    adminVars, promised, claimed>>

\* execute's lifecycle check, and a delete's record_exists condition.
MayExecute(batch) ==
  /\ phase = "idle"
  /\ lifecycle \in {"ready", "draining"}
  /\ \A k \in Keys : batch[k] = "delete" => records[k] # 0

ExecuteFromRange(batch, ack) ==
  /\ MayExecute(batch)
  /\ NextFromRange
  /\ AppendFrame(next, batch, ack)
  /\ UNCHANGED disk

ExecuteReserve(batch, ack) ==
  /\ MayExecute(batch)
  /\ NextReserveRename
  /\ phase' = "reserving"
  /\ op' = [rev |-> 0, batch |-> batch, ack |-> ack]
  /\ UNCHANGED <<diskVars, lifecycle, closing, records, current, durable, walVars,
                 adminVars, history>>

ReserveDone ==
  /\ phase = "reserving"
  /\ NextReserveSync
  /\ AppendFrame(held + 1, op.batch, op.ack)
  /\ disk' = dir

\* No revision to give: before or after the new IDENTITY was renamed.
ExecuteWithoutRevision ==
  /\ phase = "reserving" \/ \E batch \in Batches : MayExecute(batch)
  /\ NextFails
  /\ Degrade
  /\ UNCHANGED <<diskVars, closing, records, current, durable, walVars, adminVars, history>>

\* Mutant: the durable response does not wait for the barrier.
NoBarrier ==
  /\ phase = "barrier"
  /\ phase' = "apply"
  /\ UNCHANGED <<revVars, diskVars, op, lifecycle, closing, records, current, durable,
                 walVars, adminVars, history>>

\* Mutant: a failed barrier refuses the mutation and the writer goes on.
BarrierFailureRefused ==
  /\ phase = "barrier"
  /\ \/ BarrierSucceeds /\ phase' = "apply" /\ UNCHANGED <<op, lifecycle>>
     \/ phase' = "idle" /\ op' = NoOp /\ UNCHANGED <<lifecycle, wals, walDurable, walFailed>>
  /\ UNCHANGED <<revVars, dir, disk, snapshots, closing, records, current, durable, log,
                 adminVars, history>>

ExecuteBarrier ==
  /\ phase = "barrier"
  /\ \/ BarrierSucceeds /\ phase' = "apply" /\ UNCHANGED <<op, lifecycle>>
     \/ BarrierFails /\ Degrade
  /\ UNCHANGED <<revVars, dir, disk, snapshots, closing, records, current, durable, log,
                 adminVars, history>>

\* The map, the revisions and the response change together under state.mu.
ExecuteApply ==
  /\ phase = "apply"
  /\ records' = ApplyCommit(records, op)
  /\ current' = op.rev
  /\ durable' = Greater(durable, walDurable)
  /\ promised' = IF op.ack = "durable" THEN op.rev ELSE promised
  /\ claimed' = Greater(claimed, durable')
  /\ phase' = "idle" /\ op' = NoOp
  /\ UNCHANGED <<revVars, diskVars, lifecycle, closing, walVars, adminVars, commits>>

-----------------------------------------------------------------------------
(* Controller: snapshot, backup and compaction, one at a time.             *)

\* A request passes the checks of the server and of Controller.check.
AdmitAdmin(kind) ==
  /\ Up /\ lifecycle = "ready" /\ request = <<>>
  /\ serverGen = dir.cur.gen
  /\ request' = <<[kind |-> kind, expected |-> current]>>
  /\ UNCHANGED <<revVars, diskVars, engineVars, walVars, serverGen, history>>

Serving(kind) == request # <<>> /\ Head(request).kind = kind

\* The administrative command ends: refused, or failed before anything changed.
AdminEnds == request' = <<>> /\ phase' = "idle" /\ UNCHANGED lifecycle

\* It ends having changed the directory without being able to say so.
AdminDegrades == request' = <<>> /\ phase' = "idle" /\ lifecycle' = "degraded"

\* executeSnapshot and executeDurableAdmin start with a barrier, whatever the
\* lifecycle has become since admission.
AdminBarrier ==
  /\ phase = "idle"
  /\ Serving("snapshot") \/ Serving("backup")
  /\ \/ /\ BarrierSucceeds
        /\ durable' = walDurable'
        /\ promised' = Greater(promised, durable')
        /\ claimed' = Greater(claimed, durable')
        /\ \/ /\ Serving("snapshot") /\ Head(request).expected = current
              /\ phase' = "snapshotFile" /\ UNCHANGED <<request, lifecycle>>
           \/ /\ Serving("snapshot") /\ Head(request).expected # current /\ AdminEnds
           \/ /\ Serving("backup") /\ (AdminEnds \/ AdminDegrades)
     \/ BarrierFails /\ AdminDegrades /\ UNCHANGED <<durable, promised, claimed>>
  /\ UNCHANGED <<revVars, dir, disk, snapshots, op, closing, records, current, log,
                 serverGen, commits>>

\* installSnapshotFile up to the rename; it refuses to replace a file.
InstallSnapshotFile ==
  /\ phase = "snapshotFile"
  /\ \/ /\ current \notin dir.snaps /\ current < MaxRevision
        /\ snapshots' = [snapshots EXCEPT ![current] = records]
        /\ dir' = [dir EXCEPT !.snaps = @ \cup {current}]
        /\ phase' = "snapshotSync" /\ UNCHANGED <<request, lifecycle>>
     \/ AdminEnds /\ UNCHANGED <<dir, snapshots>>
  /\ UNCHANGED <<revVars, disk, wals, op, closing, records, current, durable, walVars,
                 serverGen, history>>

\* A directory sync of the installation: on to the next phase, or degraded.
InstallSync(from, to) ==
  /\ phase = from
  /\ \/ SyncDir /\ phase' = to /\ UNCHANGED <<request, lifecycle>>
     \/ AdminDegrades /\ UNCHANGED <<revVars, disk>>
  /\ UNCHANGED <<dir, snapshots, wals, op, closing, records, current, durable, walVars,
                 serverGen, history>>

\* installNextWAL up to the rename.
InstallNextWAL ==
  /\ phase = "walFile"
  /\ \/ /\ current + 1 \notin dir.logs
        /\ wals' = [wals EXCEPT ![current + 1] = NewWal(dir.cur.gen + 1)]
        /\ dir' = [dir EXCEPT !.logs = @ \cup {current + 1}]
        /\ phase' = "walSync" /\ UNCHANGED <<request, lifecycle>>
     \/ AdminEnds /\ UNCHANGED <<dir, wals>>
  /\ UNCHANGED <<revVars, disk, snapshots, op, closing, records, current, durable, walVars,
                 serverGen, history>>

\* InstallManifest up to the rename of CURRENT.
InstallManifest ==
  /\ phase = "manifestFile"
  /\ \/ /\ dir' = [dir EXCEPT !.cur = [gen |-> @.gen + 1, snap |-> current]]
        /\ phase' = "manifestSync" /\ UNCHANGED <<request, lifecycle>>
     \/ AdminEnds /\ UNCHANGED dir
  /\ UNCHANGED <<revVars, disk, snapshots, wals, op, closing, records, current, durable,
                 walVars, serverGen, history>>

\* The audit record of the snapshot, then the writer's switch to the new log.
SwitchLog ==
  /\ phase = "audit"
  /\ \/ AdminEnds /\ log' = current + 1 /\ walDurable' = current /\ walFailed' = FALSE
        /\ serverGen' = dir.cur.gen
     \/ AdminDegrades /\ UNCHANGED <<walVars, serverGen>>
  /\ UNCHANGED <<revVars, diskVars, op, closing, records, current, durable, history>>

\* Mutant: the request's generation is not compared with the controller's.
CompactAnyGeneration(through) ==
  LET oldSnaps == {s \in dir.snaps : s =< through /\ s # dir.cur.snap}
      oldLogs  == {l \in dir.logs : l =< through /\ l # ActiveLog(dir)}
  IN /\ Up /\ request = <<>>
     /\ through =< dir.cur.snap
     /\ oldSnaps \cup oldLogs # {}
     /\ dir' = [dir EXCEPT !.snaps = @ \ oldSnaps, !.logs = @ \ oldLogs]
     /\ request' = <<[kind |-> "compact", expected |-> current]>>
     /\ UNCHANGED <<revVars, disk, snapshots, wals, engineVars, walVars, serverGen,
                    history>>

\* PlanCompaction's files, removed in the order of their names; an error stops
\* the removal after some of them.
CompactRemove(through) ==
  LET oldSnaps == {s \in dir.snaps : s =< through /\ s # dir.cur.snap}
      oldLogs  == {l \in dir.logs : l =< through /\ l # ActiveLog(dir)}
  IN /\ Up /\ request = <<>>
     /\ serverGen = dir.cur.gen
     /\ through =< dir.cur.snap
     /\ \E s \in SUBSET oldSnaps, l \in SUBSET oldLogs :
          /\ s \cup l # {}
          /\ l # {} => s = oldSnaps
          /\ dir' = [dir EXCEPT !.snaps = @ \ s, !.logs = @ \ l]
     /\ request' = <<[kind |-> "compact", expected |-> current]>>
     /\ UNCHANGED <<revVars, disk, snapshots, wals, engineVars, walVars, serverGen,
                    history>>

\* The directory sync and the audit, or an error after files were removed.
CompactFinish ==
  /\ Serving("compact")
  /\ request' = <<>>
  /\ \/ SyncDir /\ lifecycle' \in {lifecycle, "degraded"}
     \/ lifecycle' = "degraded" /\ UNCHANGED <<revVars, disk>>
  /\ UNCHANGED <<dir, snapshots, wals, phase, op, closing, records, current, durable,
                 walVars, serverGen, history>>

-----------------------------------------------------------------------------
(* Shutdown, crashes and recovery.                                         *)

BeginClose ==
  /\ Up /\ ~closing
  /\ closing' = TRUE
  /\ lifecycle' = IF lifecycle = "ready" THEN "draining" ELSE lifecycle
  /\ UNCHANGED <<revVars, diskVars, phase, op, records, current, durable, walVars, adminVars,
                 history>>

ForgetEngine ==
  /\ phase' = "down" /\ op' = NoOp /\ lifecycle' = "stopped" /\ closing' = FALSE
  /\ records' = NoRecords /\ current' = 0 /\ durable' = 0
  /\ log' = 1 /\ walDurable' = 0 /\ walFailed' = FALSE
  /\ request' = <<>> /\ serverGen' = 0

\* Mutant: the last barrier is left out.
FinishCloseUnsynced ==
  /\ closing /\ phase = "idle" /\ request = <<>>
  /\ wals' = [wals EXCEPT ![log] = Abandoned(wals[log])]
  /\ promised' = Greater(promised, current)
  /\ ProcessStop
  /\ ForgetEngine
  /\ UNCHANGED <<dir, disk, snapshots, commits, claimed>>

\* The writer has drained its queue: a last barrier, and the process ends.
FinishClose ==
  /\ closing /\ phase = "idle" /\ request = <<>>
  /\ \/ /\ ~walFailed
        /\ wals' = [wals EXCEPT ![log] = Synced(wals[log])]
        /\ promised' = Greater(promised, current)
     \/ /\ wals' \in {[wals EXCEPT ![log] = Abandoned(w)] :
                        w \in IF walFailed THEN {wals[log]} ELSE Spills(wals[log])}
        /\ UNCHANGED promised
  /\ ProcessStop
  /\ ForgetEngine
  /\ UNCHANGED <<dir, disk, snapshots, commits, claimed>>

ProcessCrash ==
  /\ phase # "down"
  /\ ProcessStop
  /\ ForgetEngine
  /\ wals' = [wals EXCEPT ![log] = Abandoned(wals[log])]
  /\ UNCHANGED <<dir, disk, snapshots, history>>

\* Only the log last written to can hold frames that no sync covered: the barrier
\* of a snapshot covers the one it supersedes.
MachineCrash ==
  /\ PowerLoss
  /\ ForgetEngine
  /\ dir' \in PowerLossDirectories
  /\ disk' = dir'
  /\ LET first == IF phase = "down" THEN ActiveLog(dir) ELSE log
     IN wals' \in {[wals EXCEPT ![first] = w] : w \in PowerLossOutcomes(wals[first])}
  /\ UNCHANGED <<snapshots, history>>

\* applyWALTail: a torn tail is cut and the file synced; a log without one is
\* taken as it is.
TailCut ==
  LET first == ActiveLog(dir)
  IN IF wals[first].torn THEN [wals EXCEPT ![first] = Synced(wals[first])] ELSE wals

\* RecoverDatabase up to the rename of IDENTITY.
RecoverScan ==
  /\ phase = "down"
  /\ AuthorityIntact(dir)
  /\ BootRename
  /\ log' = ActiveLog(dir)
  /\ wals' = TailCut
  /\ phase' = "recovering"
  /\ UNCHANGED <<dir, disk, snapshots, op, lifecycle, closing, records, current, durable,
                 walDurable, walFailed, adminVars, history>>

\* The tail is cut, and the tail's audit or the reservation fails before the rename.
RecoverStops ==
  /\ phase = "down"
  /\ AuthorityIntact(dir)
  /\ wals' = TailCut
  /\ UNCHANGED <<revVars, dir, disk, snapshots, engineVars, walVars, adminVars, history>>

RecoverFails ==
  /\ phase = "recovering"
  /\ BootSyncFails
  /\ ForgetEngine
  /\ UNCHANGED <<diskVars, history>>

\* Mutant: the log is replayed on an empty map.
RecoverFromLogOnly ==
  /\ phase = "recovering"
  /\ BootSync
  /\ disk' = dir
  /\ phase' = "idle" /\ lifecycle' = "ready" /\ serverGen' = dir.cur.gen
  /\ records' = Replay(NoRecords, wals[log].frames)
  /\ current' = LastRevision(log) /\ durable' = current' /\ walDurable' = current'
  /\ commits' = SelectSeq(commits, LAMBDA c : c.rev =< current')
  /\ claimed' = Greater(claimed, durable')
  /\ UNCHANGED <<dir, snapshots, wals, op, closing, log, walFailed, request, promised>>

\* IDENTITY is durable: replay, and serve.
RecoverReady ==
  /\ phase = "recovering"
  /\ BootSync
  /\ disk' = dir
  /\ phase' = "idle" /\ lifecycle' = "ready" /\ serverGen' = dir.cur.gen
  /\ records' = Replay(snapshots[dir.cur.snap], wals[log].frames)
  /\ current' = LastRevision(log) /\ durable' = current' /\ walDurable' = current'
  /\ commits' = SelectSeq(commits, LAMBDA c : c.rev =< current')
  /\ claimed' = Greater(claimed, durable')
  /\ UNCHANGED <<dir, snapshots, wals, op, closing, log, walFailed, request, promised>>

StorageNext ==
  \/ \E batch \in Batches, ack \in {"memory", "durable"} :
       ExecuteFromRange(batch, ack) \/ ExecuteReserve(batch, ack)
  \/ ReserveDone \/ ExecuteWithoutRevision \/ ExecuteBarrier \/ ExecuteApply
  \/ \E kind \in {"snapshot", "backup"} : AdmitAdmin(kind)
  \/ AdminBarrier
  \/ InstallSnapshotFile \/ InstallSync("snapshotSync", "walFile")
  \/ InstallNextWAL \/ InstallSync("walSync", "manifestFile")
  \/ InstallManifest \/ InstallSync("manifestSync", "audit")
  \/ SwitchLog
  \/ \E through \in Revs : CompactRemove(through)
  \/ CompactFinish
  \/ BeginClose \/ FinishClose \/ ProcessCrash \/ MachineCrash
  \/ RecoverScan \/ RecoverStops \/ RecoverFails \/ RecoverReady

StorageSpec == StorageInit /\ [][StorageNext]_vars

-----------------------------------------------------------------------------

\* The commits a reader of the map may see.
VisibleCommits == SelectSeq(commits, LAMBDA c : c.rev =< current)

\* What clients read is the replay of the surviving commits up to the current
\* revision: no crash, restart, snapshot or log switch drops a commit from the
\* middle, splits a batch or brings back one that was lost (execute's map apply,
\* replayRecords, executeSnapshot, RecoverDatabase).  A commit a client was told is
\* durable, by a durable response, a snapshot, a backup or an orderly stop, is among
\* them (execute's barrier before the response, FinishClose's barrier).  No two
\* commits that were ever given a revision share it (RangeAllocator.Next).
VisibleIsReplay ==
  /\ Up => records = Replay(NoRecords, VisibleCommits) /\ promised =< current
  /\ RevisionsIncrease

\* The evidence checks of execute, executeSnapshot and executeDurableAdmin (log
\* durable revision against current revision) hold whenever they are reached.
DurabilityEvidence ==
  /\ phase = "apply" => /\ durable =< walDurable /\ walDurable =< op.rev
                        /\ op.ack = "durable" => walDurable = op.rev
  /\ phase = "snapshotFile" => walDurable = current /\ durable = current

\* Whatever the instant of a crash, start-up finds a complete authority: CURRENT
\* names an existing snapshot and an existing log of the same generation, whose
\* frames ascend within the reserved revisions (InstallSnapshotGeneration's order
\* of syncs, RunCompaction, ReserveRevisions).
AuthorityAlwaysIntact ==
  phase = "down" => AuthorityIntact(dir)

\* A revision reported as durable_through_revision is in every later served state
\* (RecoverDatabase's DurableThroughRevision, and what execute reports).
ReportedDurableSurvives ==
  Up => claimed =< current

(***************************************************************************)
(* The refinement mapping to DurableKV: what clients were shown and        *)
(* promised, whatever files it is spread over.                             *)
(***************************************************************************)
KV == INSTANCE DurableKV WITH
  accepted <- commits,
  shown    <- IF Up THEN Len(VisibleCommits) ELSE 0,
  store    <- records,
  kept     <- Len(SelectSeq(commits, LAMBDA c : c.rev =< promised)),
  top      <- IF issued = <<>> THEN 0 ELSE Last(issued),
  serving  <- Up

\* The storage authority implements DurableKV: over any interleaving of commits,
\* snapshots, compactions, failures, crashes and recoveries, clients see whole
\* batches in revision order, a restart loses only the newest unpromised
\* commits, and no revision is given twice.
ImplementsDurableKV == KV!KVSpec
=============================================================================
