---------------------------- MODULE StartupProofs ----------------------------
(***************************************************************************)
(* The ownership properties of module Startup, for any set of processes.   *)
(*                                                                         *)
(* None of them is inductive by itself.  The invariant says which points   *)
(* of Open and Close lie between taking and giving up the lock, that a log *)
(* has nothing pending once the engine is drained, and which files exist   *)
(* at which point.                                                         *)
(***************************************************************************)
EXTENDS Startup, TLAPS

\* Between AcquireOwner and the end of Runtime.Close.
Owning == Installing \cup {"recheck", "recovering", "reserving", "claimed", "bind", "bound",
                           "serving", "quiet", "draining", "release"}

\* The lock is held at every point between taking and releasing it, and what only
\* its holder does stays done (AcquireOwner, Runtime.Close).
OwnerInv ==
  /\ pc \in [Processes -> Owning \cup {"down", "initialize", "recover", "closing"}]
  /\ pending \in [Processes -> BOOLEAN]
  /\ \A p \in Processes :
       /\ pc[p] \in Owning => lock = p
       /\ pending[p] => pc[p] \in {"serving", "quiet", "draining"}
       /\ pc[p] \in {"bound", "serving"} => socket = p

\* IDENTITY is installed once and before CURRENT, and CURRENT before the first
\* service (initializeRuntime, RecoverDatabase).
FilesInv ==
  /\ identity # None <=> "IDENTITY" \in files
  /\ "CURRENT" \in files => "IDENTITY" \in files
  /\ served => "CURRENT" \in files
  /\ \A p \in Processes :
       /\ pc[p] \in {"IDENTITY.tmp", "IDENTITY"} => "IDENTITY" \notin files
       /\ pc[p] \in {"snapshot", "wal", "CURRENT"} => "IDENTITY" \in files
       /\ pc[p] \in {"reserving", "claimed", "bind", "bound"} => "CURRENT" \in files

LEMMA OwnerInvInit == StartupInit => OwnerInv
  BY DEF StartupInit, OwnerInv, Owning, Installing

LEMMA FilesInvInit == StartupInit => FilesInv
  BY DEF StartupInit, FilesInv

\* Every step keeps the lock with the process that is between taking and releasing it.
LEMMA OwnerInvStep == OwnerInv /\ [StartupNext]_startupVars => OwnerInv'
<1> SUFFICES ASSUME OwnerInv, [StartupNext]_startupVars PROVE OwnerInv'
  OBVIOUS
<1> USE NoneIsNoProcess DEF OwnerInv, Owning, Installing, Go
<1>1. ASSUME NEW p \in Processes, Start(p) PROVE OwnerInv'
  BY <1>1 DEF Start
<1>2. ASSUME NEW p \in Processes, AcquireToInitialize(p) PROVE OwnerInv'
  BY <1>2 DEF AcquireToInitialize
<1>3. ASSUME NEW p \in Processes, Recheck(p) PROVE OwnerInv'
  BY <1>3 DEF Recheck
<1>4. ASSUME NEW p \in Processes, CreateFile(p) PROVE OwnerInv'
  BY <1>4 DEF CreateFile, NextAfter
<1>5. ASSUME NEW p \in Processes, AcquireToRecover(p) PROVE OwnerInv'
  BY <1>5 DEF AcquireToRecover
<1>6. ASSUME NEW p \in Processes, RecoverDatabase(p) PROVE OwnerInv'
  BY <1>6 DEF RecoverDatabase
<1>7. ASSUME NEW p \in Processes, ReserveRevisions(p) PROVE OwnerInv'
  BY <1>7 DEF ReserveRevisions
<1>8. ASSUME NEW p \in Processes, OpenFails(p) PROVE OwnerInv'
  BY <1>8 DEF OpenFails
<1>9. ASSUME NEW p \in Processes, RemoveStaleSocket(p) PROVE OwnerInv'
  BY <1>9 DEF RemoveStaleSocket
<1>10. ASSUME NEW p \in Processes, Bind(p) PROVE OwnerInv'
  BY <1>10 DEF Bind
<1>11. ASSUME NEW p \in Processes, Publish(p) PROVE OwnerInv'
  BY <1>11 DEF Publish
<1>12. ASSUME NEW p \in Processes, OpenUnwinds(p) PROVE OwnerInv'
  BY <1>12 DEF OpenUnwinds
<1>13. ASSUME NEW p \in Processes, Write(p) PROVE OwnerInv'
  BY <1>13 DEF Write
<1>14. ASSUME NEW p \in Processes, Shutdown(p) PROVE OwnerInv'
  BY <1>14 DEF Shutdown
<1>15. ASSUME NEW p \in Processes, RemoveSocket(p) PROVE OwnerInv'
  BY <1>15 DEF RemoveSocket
<1>16. ASSUME NEW p \in Processes, DrainEngine(p) PROVE OwnerInv'
  BY <1>16 DEF DrainEngine
<1>17. ASSUME NEW p \in Processes, ReleaseLease(p) PROVE OwnerInv'
  BY <1>17 DEF ReleaseLease
<1>18. ASSUME NEW p \in Processes, CloseWAL(p) PROVE OwnerInv'
  BY <1>18 DEF CloseWAL
<1>19. ASSUME NEW p \in Processes, Kill(p) PROVE OwnerInv'
  BY <1>19 DEF Kill
<1>20. CASE UNCHANGED startupVars
  BY <1>20 DEF startupVars
<1>21. QED
  BY <1>1, <1>2, <1>3, <1>4, <1>5, <1>6, <1>7, <1>8, <1>9, <1>10, <1>11, <1>12, <1>13, <1>14, <1>15, <1>16, <1>17, <1>18, <1>19, <1>20 DEF StartupNext

\* Every step keeps the order in which the files appear.
LEMMA FilesInvStep == OwnerInv /\ FilesInv /\ [StartupNext]_startupVars => FilesInv'
<1> SUFFICES ASSUME OwnerInv, FilesInv, [StartupNext]_startupVars PROVE FilesInv'
  OBVIOUS
<1> USE NoneIsNoProcess DEF OwnerInv, FilesInv, Owning, Installing, Go
<1>1. ASSUME NEW p \in Processes, Start(p) PROVE FilesInv'
  BY <1>1 DEF Start
<1>2. ASSUME NEW p \in Processes, AcquireToInitialize(p) PROVE FilesInv'
  BY <1>2 DEF AcquireToInitialize
<1>3. ASSUME NEW p \in Processes, Recheck(p) PROVE FilesInv'
  BY <1>3 DEF Recheck
<1>4. ASSUME NEW p \in Processes, CreateFile(p) PROVE FilesInv'
  BY <1>4 DEF CreateFile, NextAfter
<1>5. ASSUME NEW p \in Processes, AcquireToRecover(p) PROVE FilesInv'
  BY <1>5 DEF AcquireToRecover
<1>6. ASSUME NEW p \in Processes, RecoverDatabase(p) PROVE FilesInv'
  BY <1>6 DEF RecoverDatabase
<1>7. ASSUME NEW p \in Processes, ReserveRevisions(p) PROVE FilesInv'
  BY <1>7 DEF ReserveRevisions
<1>8. ASSUME NEW p \in Processes, OpenFails(p) PROVE FilesInv'
  BY <1>8 DEF OpenFails
<1>9. ASSUME NEW p \in Processes, RemoveStaleSocket(p) PROVE FilesInv'
  BY <1>9 DEF RemoveStaleSocket
<1>10. ASSUME NEW p \in Processes, Bind(p) PROVE FilesInv'
  BY <1>10 DEF Bind
<1>11. ASSUME NEW p \in Processes, Publish(p) PROVE FilesInv'
  BY <1>11 DEF Publish
<1>12. ASSUME NEW p \in Processes, OpenUnwinds(p) PROVE FilesInv'
  BY <1>12 DEF OpenUnwinds
<1>13. ASSUME NEW p \in Processes, Write(p) PROVE FilesInv'
  BY <1>13 DEF Write
<1>14. ASSUME NEW p \in Processes, Shutdown(p) PROVE FilesInv'
  BY <1>14 DEF Shutdown
<1>15. ASSUME NEW p \in Processes, RemoveSocket(p) PROVE FilesInv'
  BY <1>15 DEF RemoveSocket
<1>16. ASSUME NEW p \in Processes, DrainEngine(p) PROVE FilesInv'
  BY <1>16 DEF DrainEngine
<1>17. ASSUME NEW p \in Processes, ReleaseLease(p) PROVE FilesInv'
  BY <1>17 DEF ReleaseLease
<1>18. ASSUME NEW p \in Processes, CloseWAL(p) PROVE FilesInv'
  BY <1>18 DEF CloseWAL
<1>19. ASSUME NEW p \in Processes, Kill(p) PROVE FilesInv'
  BY <1>19 DEF Kill
<1>20. CASE UNCHANGED startupVars
  BY <1>20 DEF startupVars
<1>21. QED
  BY <1>1, <1>2, <1>3, <1>4, <1>5, <1>6, <1>7, <1>8, <1>9, <1>10, <1>11, <1>12, <1>13, <1>14, <1>15, <1>16, <1>17, <1>18, <1>19, <1>20 DEF StartupNext

\* The two invariants hold in every reachable state of any number of daemons.
THEOREM StartupInductive == StartupSpec => [](OwnerInv /\ FilesInv)
  BY OwnerInvInit, FilesInvInit, OwnerInvStep, FilesInvStep, PTL DEF StartupSpec

\* Only the holder of the kernel's lock changes the directory, WAL.Close included.
THEOREM OnlyOwnerWrites == StartupSpec => []WritersHoldLock
<1>1. OwnerInv => WritersHoldLock
  BY DEF OwnerInv, WritersHoldLock, Writes, Owning, Installing
<1>2. QED
  BY <1>1, StartupInductive, PTL

\* The socket file leads to the process that serves.
THEOREM ServerIsReachable == StartupSpec => []ServingIsReachable
<1>1. OwnerInv => ServingIsReachable
  BY DEF OwnerInv, ServingIsReachable
<1>2. QED
  BY <1>1, StartupInductive, PTL

\* No race of fresh starters replaces an installed database ID.
THEOREM IdentityNeverReplaced == StartupSpec => IdentityIsStable
<1>1. ASSUME OwnerInv, FilesInv, [StartupNext]_startupVars
      PROVE [identity # None => identity' = identity]_startupVars
  <2>1. ASSUME NEW p \in Processes, CreateFile(p) PROVE identity # None => identity' = identity
    BY <1>1, <2>1 DEF CreateFile, FilesInv, Installing
  <2>2. CASE UNCHANGED startupVars
    BY <2>2 DEF startupVars
  <2>3. QED
    BY <1>1, <2>1, <2>2 DEF StartupNext, Start, AcquireToInitialize, Recheck, AcquireToRecover, RecoverDatabase, ReserveRevisions, OpenFails, RemoveStaleSocket, Bind, Publish, OpenUnwinds, Write, Shutdown, RemoveSocket, DrainEngine, ReleaseLease, CloseWAL, Kill
<1>2. QED
  BY <1>1, StartupInductive, PTL DEF StartupSpec, IdentityIsStable

\* No start of a directory that has served is refused for what it finds there.
THEOREM ServedNeverRefused == StartupSpec => ServedIsNeverRefused
<1>1. ASSUME OwnerInv, FilesInv, [StartupNext]_startupVars
      PROVE [served => refused' \subseteq refused]_startupVars
  <2>1. ASSUME NEW p \in Processes, Recheck(p) PROVE served => refused' \subseteq refused
    BY <1>1, <2>1 DEF Recheck, FilesInv
  <2>2. ASSUME NEW p \in Processes, RecoverDatabase(p) PROVE served => refused' \subseteq refused
    BY <1>1, <2>2 DEF RecoverDatabase, FilesInv
  <2>3. CASE UNCHANGED startupVars
    BY <2>3 DEF startupVars
  <2>4. QED
    BY <1>1, <2>1, <2>2, <2>3 DEF StartupNext, Start, AcquireToInitialize, CreateFile, AcquireToRecover, ReserveRevisions, OpenFails, RemoveStaleSocket, Bind, Publish, OpenUnwinds, Write, Shutdown, RemoveSocket, DrainEngine, ReleaseLease, CloseWAL, Kill
<1>2. QED
  BY <1>1, StartupInductive, PTL DEF StartupSpec, ServedIsNeverRefused
=============================================================================
