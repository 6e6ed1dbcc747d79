------------------------------- MODULE Startup -------------------------------
(***************************************************************************)
(* Which process owns a database directory: several daemons start, create  *)
(* or recover the directory, publish the socket, shut down and are killed, *)
(* in any order.  The kernel's lock is all that keeps them apart.          *)
(***************************************************************************)

CONSTANTS
  Processes,  \* daemons; each may be started again after it ended
  None

ASSUME NoneIsNoProcess == None \notin Processes

VARIABLES
  pc,         \* where each process is in server.Open or Server.Close
  lock,       \* the process whose descriptor holds the flock on LOCK
  files,      \* the authority and temporary files in the directory
  identity,   \* the process that drew the database ID in IDENTITY
  socket,     \* the process whose listener the socket file names
  pending,    \* WAL.pending: whether appended commits await a barrier
  served,     \* history: whether a process has ever been ready
  refused     \* history: the processes whose last start was refused for the files found

startupVars == <<pc, lock, files, identity, socket, pending, served, refused>>

Installing == {"IDENTITY.tmp", "IDENTITY", "snapshot", "wal", "CURRENT"}

\* The order in which initializeRuntime installs the files.
NextAfter(f) ==
  CASE f = "IDENTITY.tmp" -> "IDENTITY"
    [] f = "IDENTITY" -> "snapshot"
    [] f = "snapshot" -> "wal"
    [] f = "wal" -> "CURRENT"
    [] f = "CURRENT" -> "claimed"

StartupInit ==
  /\ pc = [p \in Processes |-> "down"]
  /\ lock = None /\ files = {} /\ identity = None /\ socket = None
  /\ pending = [p \in Processes |-> FALSE]
  /\ served = FALSE /\ refused = {}

Go(p, where) == pc' = [pc EXCEPT ![p] = where]

-----------------------------------------------------------------------------
(* Start-up.                                                               *)

\* openRuntime: IDENTITY is looked for before the lock is taken.
Start(p) ==
  /\ pc[p] = "down"
  /\ Go(p, IF "IDENTITY" \in files THEN "recover" ELSE "initialize")
  /\ refused' = refused \ {p}
  /\ UNCHANGED <<lock, files, identity, socket, pending, served>>

\* AcquireOwner for a fresh directory: OWNER_EXISTS when the lock is taken.
AcquireToInitialize(p) ==
  /\ pc[p] = "initialize"
  /\ IF lock = None
     THEN lock' = p /\ Go(p, "recheck")
     ELSE Go(p, "down") /\ UNCHANGED lock
  /\ UNCHANGED <<files, identity, socket, pending, served, refused>>

\* Mutant: IDENTITY is not looked for again once the lock is held.
RecheckNothing(p) ==
  /\ pc[p] = "recheck"
  /\ IF files # {}
     THEN /\ lock' = None /\ Go(p, "down") /\ refused' = refused \cup {p}
     ELSE Go(p, "IDENTITY.tmp") /\ UNCHANGED <<lock, refused>>
  /\ UNCHANGED <<files, identity, socket, pending, served>>

\* Mutant: the directory is initialised whatever the second look finds.
RecheckIgnored(p) ==
  /\ pc[p] = "recheck"
  /\ Go(p, "IDENTITY.tmp")
  /\ UNCHANGED <<lock, files, identity, socket, pending, served, refused>>

\* initializeRuntime under the lock: another starter may have been first; files
\* without an identity are left alone.
Recheck(p) ==
  /\ pc[p] = "recheck"
  /\ \/ "IDENTITY" \in files /\ lock' = None /\ Go(p, "recover") /\ UNCHANGED refused
     \/ "IDENTITY" \notin files /\ files # {}
        /\ lock' = None /\ Go(p, "down") /\ refused' = refused \cup {p}
     \/ files = {} /\ Go(p, "IDENTITY.tmp") /\ UNCHANGED <<lock, refused>>
  /\ UNCHANGED <<files, identity, socket, pending, served>>

\* initializeRuntime's next file; renaming IDENTITY consumes the temporary file.
CreateFile(p) ==
  LET f == pc[p]
  IN /\ f \in Installing
     /\ files' = (files \cup {f}) \ (IF f = "IDENTITY" THEN {"IDENTITY.tmp"} ELSE {})
     /\ identity' = IF f = "IDENTITY" THEN p ELSE identity
     /\ Go(p, NextAfter(f))
     /\ UNCHANGED <<lock, socket, pending, served, refused>>

\* AcquireOwner at the head of RecoverDatabase.
AcquireToRecover(p) ==
  /\ pc[p] = "recover"
  /\ IF lock = None
     THEN lock' = p /\ Go(p, "recovering")
     ELSE Go(p, "down") /\ UNCHANGED lock
  /\ UNCHANGED <<files, identity, socket, pending, served, refused>>

\* RecoverDatabase needs CURRENT; its last act is to install the next IDENTITY.
RecoverDatabase(p) ==
  /\ pc[p] = "recovering"
  /\ IF "CURRENT" \in files
     THEN files' = files \cup {"IDENTITY.tmp"} /\ Go(p, "reserving") /\ UNCHANGED <<lock, refused>>
     ELSE lock' = None /\ Go(p, "down") /\ refused' = refused \cup {p} /\ UNCHANGED files
  /\ UNCHANGED <<identity, socket, pending, served>>

ReserveRevisions(p) ==
  /\ pc[p] = "reserving"
  /\ files' = files \ {"IDENTITY.tmp"}
  /\ Go(p, "claimed")
  /\ UNCHANGED <<lock, identity, socket, pending, served, refused>>

\* An I/O error before the runtime exists: the deferred close releases the lock.
OpenFails(p) ==
  /\ pc[p] \in Installing \cup {"recovering", "reserving"}
  /\ lock' = IF lock = p THEN None ELSE lock
  /\ Go(p, "down")
  /\ UNCHANGED <<files, identity, socket, pending, served, refused>>

\* server.Open removes a socket it finds, whoever bound it.
RemoveStaleSocket(p) ==
  /\ pc[p] = "claimed"
  /\ socket' = None
  /\ Go(p, "bind")
  /\ UNCHANGED <<lock, files, identity, pending, served, refused>>

\* ListenUnix fails on a name in use.
Bind(p) ==
  /\ pc[p] = "bind"
  /\ IF socket = None
     THEN socket' = p /\ Go(p, "bound")
     ELSE Go(p, "draining") /\ UNCHANGED socket
  /\ UNCHANGED <<lock, files, identity, pending, served, refused>>

Publish(p) ==
  /\ pc[p] = "bound"
  /\ Go(p, "serving") /\ served' = TRUE
  /\ UNCHANGED <<lock, files, identity, socket, pending, refused>>

\* One of Open's checks of the lock or the socket fails; what was opened is closed.
OpenUnwinds(p) ==
  /\ pc[p] \in {"claimed", "bind", "bound"}
  /\ Go(p, IF pc[p] = "bound" THEN "quiet" ELSE "draining")
  /\ UNCHANGED <<lock, files, identity, socket, pending, served, refused>>

-----------------------------------------------------------------------------
(* Service and shutdown.                                                   *)

\* Commits reach the log's buffer; barriers come and go.
Write(p) ==
  /\ pc[p] = "serving"
  /\ pending' = [pending EXCEPT ![p] = ~@]
  /\ UNCHANGED <<pc, lock, files, identity, socket, served, refused>>

\* Server.Close once the connections are gone (module Connections).
Shutdown(p) ==
  /\ pc[p] = "serving"
  /\ Go(p, "quiet")
  /\ UNCHANGED <<lock, files, identity, socket, pending, served, refused>>

RemoveSocket(p) ==
  /\ pc[p] = "quiet"
  /\ socket' = None
  /\ Go(p, "draining")
  /\ UNCHANGED <<lock, files, identity, pending, served, refused>>

\* Mutant: the lease is released before the engine is drained.
ReleaseBeforeDrain(p) ==
  /\ pc[p] = "draining"
  /\ lock' = None
  /\ Go(p, "closing")
  /\ UNCHANGED <<files, identity, socket, pending, served, refused>>

\* DatabaseState.Close: the writer's last barrier succeeds, or fails the log for good.
DrainEngine(p) ==
  /\ pc[p] = "draining"
  /\ pending' = [pending EXCEPT ![p] = FALSE]
  /\ Go(p, "release")
  /\ UNCHANGED <<lock, files, identity, socket, served, refused>>

\* OwnerLease.Close at the end of Runtime.Close.
ReleaseLease(p) ==
  /\ pc[p] = "release"
  /\ lock' = None
  /\ Go(p, "closing")
  /\ UNCHANGED <<files, identity, socket, pending, served, refused>>

\* Mutant: the socket is removed last.
CloseWALAndSocket(p) ==
  /\ pc[p] = "closing"
  /\ pending' = [pending EXCEPT ![p] = FALSE]
  /\ socket' = None
  /\ Go(p, "down")
  /\ UNCHANGED <<lock, files, identity, served, refused>>

\* WAL.Close comes after Runtime.Close; it writes what is still pending.
CloseWAL(p) ==
  /\ pc[p] = "closing"
  /\ pending' = [pending EXCEPT ![p] = FALSE]
  /\ Go(p, "down")
  /\ UNCHANGED <<lock, files, identity, socket, served, refused>>

\* The process is killed; the kernel drops its lock, its socket file stays.
Kill(p) ==
  /\ pc[p] # "down"
  /\ lock' = IF lock = p THEN None ELSE lock
  /\ pending' = [pending EXCEPT ![p] = FALSE]
  /\ Go(p, "down")
  /\ UNCHANGED <<files, identity, socket, served, refused>>

StartupNext ==
  \E p \in Processes :
    \/ Start(p) \/ AcquireToInitialize(p) \/ Recheck(p) \/ CreateFile(p)
    \/ AcquireToRecover(p) \/ RecoverDatabase(p) \/ ReserveRevisions(p) \/ OpenFails(p)
    \/ RemoveStaleSocket(p) \/ Bind(p) \/ Publish(p) \/ OpenUnwinds(p)
    \/ Write(p) \/ Shutdown(p) \/ RemoveSocket(p) \/ DrainEngine(p) \/ ReleaseLease(p)
    \/ CloseWAL(p) \/ Kill(p)

StartupSpec == StartupInit /\ [][StartupNext]_startupVars

-----------------------------------------------------------------------------

\* Where a process changes the directory or its log.
Writes(p) ==
  \/ pc[p] \in Installing
  \/ pc[p] \in {"reserving", "claimed", "bind", "bound", "serving", "quiet", "draining"}
  \/ pc[p] = "closing" /\ pending[p]

\* Only the process with the kernel's lock changes the directory: creation, the
\* reservation, service, the drain, and WAL.Close, which comes after the lock is
\* given up (AcquireOwner, initializeRuntime, Runtime.Close, Server.Close).
WritersHoldLock ==
  \A p \in Processes : Writes(p) => lock = p

\* A process that serves is the one the socket file leads to: neither a starting
\* nor a stopping process takes away another's socket (removeStaleSocket under
\* the lock, removeSocket before the lock is released).
ServingIsReachable ==
  \A p \in Processes : pc[p] = "serving" => socket = p

\* A database ID, once installed, is never replaced, however many fresh starters
\* race for the directory (initializeRuntime's second look at IDENTITY).
IdentityIsStable ==
  [][identity # None => identity' = identity]_startupVars

\* A directory that has served is never refused for the files found in it: kills
\* during later starts leave nothing that stops the next one, and a starter that
\* looked before the first one was done recovers instead.
ServedIsNeverRefused ==
  [][served => refused' \subseteq refused]_startupVars
=============================================================================
