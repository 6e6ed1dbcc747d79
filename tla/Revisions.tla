------------------------------ MODULE Revisions ------------------------------
(***************************************************************************)
(* Revision allocation: the IDENTITY file with its reserved revision end,  *)
(* and the in-memory range allocator of one owner process.                 *)
(*                                                                         *)
(* A revision may be handed out only from a range whose end is already on  *)
(* disk, so that the revisions lost in a crash (allocated, acknowledged in *)
(* memory, never synced) are never handed out again.  installIdentity      *)
(* writes a temporary file, syncs it, renames it over IDENTITY and syncs   *)
(* the directory; a machine crash between the last two may leave either    *)
(* the old or the new IDENTITY.                                            *)
(***************************************************************************)
EXTENDS Naturals, Sequences

CONSTANTS RangeSize,    \* defaultRevisionReservation
          MaxRevision   \* the largest revision: math.MaxUint64 in the code

ASSUME RevisionAssumption ==
  /\ RangeSize \in Nat \ {0}
  /\ MaxRevision \in Nat
  /\ RangeSize =< MaxRevision

VARIABLES
  osEnd,      \* ReservedRevisionEnd of the IDENTITY the file system shows
  diskEnd,    \* ReservedRevisionEnd of the IDENTITY last made durable
  held,       \* ReservedRevisionEnd of the identity the process works from
  next, end,  \* RangeAllocator.next and RangeAllocator.end
  exhausted,  \* RangeAllocator.exhausted
  owner,      \* where the owner process is
  issued      \* history: every revision Next has returned, in order

revVars == <<osEnd, diskEnd, held, next, end, exhausted, owner, issued>>

OwnerStates == {"down", "booting", "serving", "reserving", "failed"}

(***************************************************************************)
(* The state initializeRuntime leaves: one range reserved, none of it used.*)
(***************************************************************************)
RevInit ==
  /\ osEnd = RangeSize /\ diskEnd = RangeSize /\ held = RangeSize
  /\ next = 1 /\ end = RangeSize /\ exhausted = FALSE
  /\ owner = "serving"
  /\ issued = <<>>

\* Mutant: only the end in use is compared with the largest revision.
RangeStartFits(reservedEnd) == reservedEnd + 1 =< MaxRevision

\* ReserveRevisions refuses a reservation that would overflow.
RangeFits(reservedEnd) == reservedEnd + RangeSize =< MaxRevision

\* The end of the range after reservedEnd, in unsigned arithmetic that wraps.
ReservedAfter(reservedEnd) == (reservedEnd + RangeSize) % (MaxRevision + 1)

\* What Next does with the revision it returns.
Issue(revision) ==
  /\ issued' = Append(issued, revision)
  /\ exhausted' = (revision = MaxRevision)
  /\ next' = IF revision = MaxRevision THEN revision ELSE revision + 1

\* The in-memory allocator is gone with its process.
ForgetProcess ==
  /\ owner' = "down"
  /\ held' = 0 /\ next' = 0 /\ end' = 0 /\ exhausted' = FALSE

(***************************************************************************)
(* Start-up: RecoverDatabase reads IDENTITY and reserves the range after   *)
(* its end, whatever revision the log replay recovered.                    *)
(***************************************************************************)
BootRename ==
  /\ owner = "down"
  /\ RangeFits(osEnd)
  /\ held' = osEnd
  /\ osEnd' = ReservedAfter(osEnd)
  /\ owner' = "booting"
  /\ UNCHANGED <<diskEnd, next, end, exhausted, issued>>

\* Mutant: the new range is used before the directory sync.
BootWithoutSync ==
  /\ owner = "booting"
  /\ held' = osEnd
  /\ next' = held + 1 /\ end' = osEnd /\ exhausted' = FALSE
  /\ owner' = "serving"
  /\ UNCHANGED <<osEnd, diskEnd, issued>>

\* Mutant: the owner goes on after the last revision it replayed, which a crash may
\* have made an early one.
BootAtReplay ==
  /\ owner = "booting"
  /\ diskEnd' = osEnd
  /\ held' = osEnd
  /\ \E replayed \in {0} \cup {issued[i] : i \in DOMAIN issued} : next' = replayed + 1
  /\ end' = osEnd /\ exhausted' = FALSE
  /\ owner' = "serving"
  /\ UNCHANGED <<osEnd, issued>>

BootSync ==
  /\ owner = "booting"
  /\ diskEnd' = osEnd
  /\ held' = osEnd
  /\ next' = held + 1 /\ end' = osEnd /\ exhausted' = FALSE
  /\ owner' = "serving"
  /\ UNCHANGED <<osEnd, issued>>

BootSyncFails ==
  /\ owner = "booting"
  /\ ForgetProcess
  /\ UNCHANGED <<osEnd, diskEnd, issued>>

(***************************************************************************)
(* RangeAllocator.Next, called by the writer only.                         *)
(***************************************************************************)
NextFromRange ==
  /\ owner = "serving"
  /\ ~exhausted
  /\ next =< end
  /\ Issue(next)
  /\ UNCHANGED <<osEnd, diskEnd, held, end, owner>>

\* The range is used up: reserve the one after the identity the process holds.
NextReserveRename ==
  /\ owner = "serving"
  /\ ~exhausted
  /\ next > end
  /\ RangeFits(held)
  /\ osEnd' = ReservedAfter(held)
  /\ owner' = "reserving"
  /\ UNCHANGED <<diskEnd, held, next, end, exhausted, issued>>

NextReserveSync ==
  /\ owner = "reserving"
  /\ diskEnd' = osEnd
  /\ held' = osEnd
  /\ end' = osEnd
  /\ Issue(held + 1)
  /\ owner' = "serving"
  /\ UNCHANGED osEnd

\* Next returns an error, and the writer degrades: it never calls Next again.
NextFails ==
  /\ \/ owner = "serving" /\ (exhausted \/ next > end)
     \/ owner = "reserving"
  /\ owner' = "failed"
  /\ UNCHANGED <<osEnd, diskEnd, held, next, end, exhausted, issued>>

(***************************************************************************)
(* The environment.                                                        *)
(***************************************************************************)

\* Another component syncs the directory that also holds IDENTITY.
DirectorySync ==
  /\ owner # "down"
  /\ diskEnd' = osEnd
  /\ UNCHANGED <<osEnd, held, next, end, exhausted, owner, issued>>

\* The process stops, in order or not; the file system keeps what it shows.
ProcessStop ==
  /\ owner # "down"
  /\ ForgetProcess
  /\ UNCHANGED <<osEnd, diskEnd, issued>>

\* Power is lost: a rename that no directory sync followed may be undone.
PowerLoss ==
  /\ \E survivor \in {osEnd, diskEnd} : osEnd' = survivor /\ diskEnd' = survivor
  /\ ForgetProcess
  /\ UNCHANGED issued

RevNext ==
  \/ BootRename \/ BootSync \/ BootSyncFails
  \/ NextFromRange \/ NextReserveRename \/ NextReserveSync \/ NextFails
  \/ DirectorySync \/ ProcessStop \/ PowerLoss

RevSpec == RevInit /\ [][RevNext]_revVars

-----------------------------------------------------------------------------

\* The reserved ends, the allocator's range and what Next returns stay within the
\* revisions there are: no reservation runs past the largest (ReserveRevisions).
RevTypeOK ==
  /\ osEnd \in 0..MaxRevision /\ diskEnd \in 0..MaxRevision
  /\ held \in 0..MaxRevision
  /\ next \in 0..(MaxRevision + 1) /\ end \in 0..MaxRevision
  /\ exhausted \in BOOLEAN
  /\ owner \in OwnerStates
  /\ issued \in Seq(1..MaxRevision)

\* No revision is ever given to two commits, and later commits get larger ones,
\* across every reservation, failed reservation, restart and power loss
\* (RangeAllocator.Next, ReserveRevisions, RecoverDatabase).
RevisionsIncrease ==
  \A i, j \in DOMAIN issued : i < j => issued[i] < issued[j]

\* The allocator never hands out a revision above the reserved end that any
\* power loss would leave in IDENTITY (installIdentity before Next returns).
IssuedWithinReservation ==
  \A i \in DOMAIN issued : issued[i] =< diskEnd
=============================================================================
