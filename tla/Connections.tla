----------------------------- MODULE Connections -----------------------------
(***************************************************************************)
(* The unary path between the Go client and the owner's socket: a client   *)
(* that keeps one connection for all its calls (ReuseUnaryConnection),     *)
(* calls that dial one connection each, the accept loop with its bounded   *)
(* slots, one serving goroutine per connection, and both sides' Close.     *)
(*                                                                         *)
(* A connection is named after the call that dialled it.  Frames travel    *)
(* whole; a frame written in part ends in a closed connection.  Watch      *)
(* streams are in module Watch, what an operation does in Engine.          *)
(***************************************************************************)
EXTENDS Naturals, Sequences, FiniteSets

CONSTANTS
  Calls,       \* the calls made
  Reusing,     \* those of the client with ReuseUnaryConnection
  RequestID,   \* the request ID of each call; the caller may choose it
  MaxClients,  \* limits.MaxConcurrentClients
  IdleTimeout, \* whether a read or idle timeout is configured
  None

VARIABLES
  call,       \* the calls: where each is, its context, connection and outcome
  gate,       \* Client.unaryGate: the call that holds it
  unaryConn,  \* Client.unaryConn
  closed,     \* Client.closed
  conn,       \* the connections: both ends and the frames in flight
  server,     \* "up", "draining", "stopped"
  applied     \* history: how often each call's operation was carried out

clientVars == <<call, gate, unaryConn, closed>>
connVars == <<call, gate, unaryConn, closed, conn, server, applied>>

Outcomes == {"none", "ok", "error", "busy", "transport", "ambiguous"}

\* A response frame; a stray one names the operation status and no request.
Response(kind, c) == [kind |-> kind, to |-> c]
Stray == Response("stray", None)

Unused == [client |-> "none", owner |-> "none", req |-> <<>>, rsp |-> <<>>,
           at |-> "none", serves |-> None, deadline |-> "none"]

ConnInit ==
  /\ call = [c \in Calls |-> [pc |-> "start", cancelled |-> "no", conn |-> None,
                              out |-> "none", from |-> None]]
  /\ gate = None /\ unaryConn = None /\ closed = FALSE
  /\ conn = [c \in Calls |-> Unused]
  /\ server = "up"
  /\ applied = [c \in Calls |-> 0]

Serving == {k \in Calls : conn[k].owner = "serving"}

-----------------------------------------------------------------------------
(* The client.                                                             *)

Returned(c, out, from) ==
  [call EXCEPT ![c].pc = "done", ![c].out = out, ![c].from = from]

ReleaseGate(c) == gate' = IF gate = c THEN None ELSE gate

\* A closed end discards what it has not read.
ClosedEnd(k) == [conn EXCEPT ![k].client = "closed", ![k].rsp = <<>>]

\* The caller's context is cancelled; history keeps whether the call was queued.
\* Later cancellations have no effect but those of DialFails.
Cancel(c) ==
  /\ c \in Reusing /\ call[c].pc \in {"start", "gated"} /\ call[c].cancelled = "no"
  /\ call' = [call EXCEPT ![c].cancelled = IF call[c].pc = "start" THEN "queued" ELSE "running"]
  /\ UNCHANGED <<gate, unaryConn, closed, conn, server, applied>>

\* reusableUnary's select: the gate, or the end of the context.
TakeGate(c) ==
  /\ c \in Reusing /\ call[c].pc = "start" /\ gate = None
  /\ gate' = c
  /\ call' = [call EXCEPT ![c].pc = "gated"]
  /\ UNCHANGED <<unaryConn, closed, conn, server, applied>>

CancelledInQueue(c) ==
  /\ c \in Reusing /\ call[c].pc = "start" /\ call[c].cancelled # "no"
  /\ call' = Returned(c, "transport", None)
  /\ UNCHANGED <<gate, unaryConn, closed, conn, server, applied>>

\* Mutant: the gate's owner does not look at its context again.
UseConnectionAnyway(c) ==
  /\ call[c].pc = "gated"
  /\ IF closed
     THEN call' = Returned(c, "transport", None) /\ ReleaseGate(c)
     ELSE /\ call' = [call EXCEPT ![c].pc = IF unaryConn = None THEN "dial" ELSE "write",
                                  ![c].conn = unaryConn]
          /\ UNCHANGED gate
  /\ UNCHANGED <<unaryConn, closed, conn, server, applied>>

\* reusableUnary with the gate: context and closed checked, connection taken.
UseConnection(c) ==
  /\ call[c].pc = "gated"
  /\ IF call[c].cancelled # "no" \/ closed
     THEN call' = Returned(c, "transport", None) /\ ReleaseGate(c)
     ELSE /\ call' = [call EXCEPT ![c].pc = IF unaryConn = None THEN "dial" ELSE "write",
                                  ![c].conn = unaryConn]
          /\ UNCHANGED gate
  /\ UNCHANGED <<unaryConn, closed, conn, server, applied>>

\* unary of a client that does not reuse connections.
PlainCall(c) ==
  /\ c \notin Reusing /\ call[c].pc = "start"
  /\ call' = [call EXCEPT ![c].pc = "dial"]
  /\ UNCHANGED <<gate, unaryConn, closed, conn, server, applied>>

\* Client.dial: the kernel queues the connection for the accept loop.
Dial(c) ==
  /\ call[c].pc = "dial" /\ server = "up"
  /\ ~(closed /\ c \in Reusing)
  /\ conn' = [conn EXCEPT ![c] = [Unused EXCEPT !.client = "open", !.owner = "backlog"]]
  /\ call' = [call EXCEPT ![c].pc = IF c \in Reusing THEN "dialled" ELSE "write", ![c].conn = c]
  /\ UNCHANGED <<gate, unaryConn, closed, server, applied>>

\* The client is closed, the owner gone, the context over or the dialer timed out.
DialFails(c) ==
  /\ call[c].pc = "dial"
  /\ call' = Returned(c, "transport", None) /\ ReleaseGate(c)
  /\ UNCHANGED <<unaryConn, closed, conn, server, applied>>

\* Mutant: a connection that Close came too early for is not closed.
AdoptLeaking(c) ==
  /\ call[c].pc = "dialled"
  /\ IF closed
     THEN call' = Returned(c, "transport", None) /\ ReleaseGate(c) /\ UNCHANGED unaryConn
     ELSE /\ unaryConn' = c
          /\ call' = [call EXCEPT ![c].pc = "write"]
          /\ UNCHANGED gate
  /\ UNCHANGED <<conn, closed, server, applied>>

\* reusableUnary after the dial: Close may have come in between.
Adopt(c) ==
  /\ call[c].pc = "dialled"
  /\ IF closed
     THEN /\ call' = Returned(c, "transport", None) /\ ReleaseGate(c)
          /\ conn' = ClosedEnd(c)
          /\ UNCHANGED unaryConn
     ELSE /\ unaryConn' = c
          /\ call' = [call EXCEPT ![c].pc = "write"]
          /\ UNCHANGED <<gate, conn>>
  /\ UNCHANGED <<closed, server, applied>>

\* discardUnaryConnection, or the deferred close of a plain call.
Discard(c) ==
  /\ conn' = ClosedEnd(call[c].conn)
  /\ unaryConn' = IF unaryConn = call[c].conn THEN None ELSE unaryConn
  /\ ReleaseGate(c)

WriteRequest(c) ==
  LET k == call[c].conn
  IN /\ call[c].pc = "write"
     /\ conn[k].client = "open" /\ conn[k].owner # "closed"
     /\ conn' = [conn EXCEPT ![k].req = Append(@, c)]
     /\ call' = [call EXCEPT ![c].pc = "read"]
     /\ UNCHANGED <<gate, unaryConn, closed, server, applied>>

\* A deadline, a closed connection or a closed peer: some of the frame may be gone.
WriteFails(c) ==
  /\ call[c].pc = "write"
  /\ call' = Returned(c, "ambiguous", None)
  /\ Discard(c)
  /\ UNCHANGED <<closed, server, applied>>

\* The request does not fit MaxFrameBytes; nothing is sent.
RequestTooLarge(c) ==
  /\ call[c].pc = "write"
  /\ call' = Returned(c, "error", c)
  /\ Discard(c)
  /\ UNCHANGED <<closed, server, applied>>

\* readResponse's test that a response belongs to the request.
Correlates(c, rsp) ==
  \/ rsp.kind = "busy"
  \/ rsp.to # None /\ RequestID[rsp.to] = RequestID[c]

\* A response arrives.  A remote error leaves the reused connection in place.
ReadResponse(c) ==
  LET k == call[c].conn
      rsp == Head(conn[k].rsp)
  IN /\ call[c].pc = "read" /\ conn[k].client = "open" /\ conn[k].rsp # <<>>
     /\ IF ~Correlates(c, rsp)
        THEN call' = Returned(c, "ambiguous", None) /\ Discard(c)
        ELSE /\ call' = Returned(c, rsp.kind, rsp.to) /\ ReleaseGate(c)
             /\ conn' = [conn EXCEPT ![k].rsp = Tail(@),
                                     ![k].client = IF c \in Reusing THEN @ ELSE "closed"]
             /\ UNCHANGED unaryConn
     /\ UNCHANGED <<closed, server, applied>>

\* Mutant: a response that does not come in time leaves the connection in use.
ReadFailsKeeping(c) ==
  /\ call[c].pc = "read"
  /\ call' = Returned(c, "ambiguous", None)
  /\ ReleaseGate(c)
  /\ UNCHANGED <<unaryConn, conn, closed, server, applied>>

\* Mutant: a lost response is reported as an operation that did not happen.
ReadFailsDefinitely(c) ==
  /\ call[c].pc = "read"
  /\ call' = Returned(c, "transport", None)
  /\ Discard(c)
  /\ UNCHANGED <<closed, server, applied>>

\* Mutant: a read that Close interrupted is begun again.
ReadFailsRetried(c) ==
  /\ call[c].pc = "read"
  /\ IF closed THEN UNCHANGED <<call, unaryConn, gate, conn>>
     ELSE call' = Returned(c, "ambiguous", None) /\ Discard(c)
  /\ UNCHANGED <<closed, server, applied>>

\* A deadline, Close, end of stream, or a reset that discards what had arrived.
ReadFails(c) ==
  /\ call[c].pc = "read"
  /\ call' = Returned(c, "ambiguous", None)
  /\ Discard(c)
  /\ UNCHANGED <<closed, server, applied>>

\* Client.Close.
CloseClient ==
  /\ ~closed
  /\ closed' = TRUE
  /\ unaryConn' = None
  /\ conn' = IF unaryConn = None THEN conn ELSE ClosedEnd(unaryConn)
  /\ UNCHANGED <<call, gate, server, applied>>

-----------------------------------------------------------------------------
(* The owner.                                                              *)

\* What waits for the client once the owner has written rsps.
Arriving(k, rsps) == IF conn[k].client = "open" THEN conn[k].rsp \o rsps ELSE <<>>

\* accept: a slot and a goroutine, or a busy answer and the end.
Accept(k) ==
  /\ server = "up" /\ conn[k].owner = "backlog"
  /\ conn' = IF Cardinality(Serving) < MaxClients
             THEN [conn EXCEPT ![k].owner = "serving", ![k].at = "top"]
             ELSE [conn EXCEPT ![k].owner = "closed",
                               ![k].req = <<>>,
                               ![k].rsp = Arriving(k, <<Response("busy", None)>>)]
  /\ UNCHANGED <<clientVars, server, applied>>

\* serveConnection's deferred calls: untrack, free the slot, close.
Ended(k, rsps) ==
  [conn EXCEPT ![k].owner = "closed", ![k].at = "none", ![k].serves = None,
               ![k].req = <<>>, ![k].deadline = "none",
               ![k].rsp = Arriving(k, rsps)]

At(k, where) == conn[k].owner = "serving" /\ conn[k].at = where

\* The head of serveConnection's loop.
LoopTop(k) ==
  /\ At(k, "top")
  /\ conn' = IF server = "up" THEN [conn EXCEPT ![k].at = "arm"] ELSE Ended(k, <<>>)
  /\ UNCHANGED <<clientVars, server, applied>>

\* setReadDeadline: it replaces whatever deadline there was.
SetReadDeadline(k) ==
  /\ At(k, "arm")
  /\ conn' = [conn EXCEPT ![k].at = "reading",
                          ![k].deadline = IF IdleTimeout THEN "armed" ELSE "none"]
  /\ UNCHANGED <<clientVars, server, applied>>

\* ReadFrame and DecodeRequest; a request that does not decode is answered with
\* a frame that names no request.
ReadRequest(k) ==
  /\ At(k, "reading") /\ conn[k].req # <<>> /\ conn[k].deadline # "now"
  /\ \/ conn' = [conn EXCEPT ![k].at = "working", ![k].serves = Head(conn[k].req),
                             ![k].req = Tail(@)]
     \/ conn' = [conn EXCEPT ![k].at = "top", ![k].req = Tail(@),
                             ![k].rsp = Arriving(k, <<Stray>>)]
  /\ UNCHANGED <<clientVars, server, applied>>

\* ReadFrame fails: the client is gone, or the deadline passed.
ReadFrameFails(k) ==
  /\ At(k, "reading")
  /\ \/ conn[k].client = "closed" /\ conn[k].req = <<>> /\ conn' = Ended(k, <<>>)
     \/ conn[k].deadline # "none" /\ conn' = Ended(k, <<Stray>>)
  /\ UNCHANGED <<clientVars, server, applied>>

\* dispatch carries the operation out, refuses it, or finds the queue full.
Dispatch(k) ==
  LET c == conn[k].serves
  IN /\ At(k, "working")
     /\ \/ /\ applied' = [applied EXCEPT ![c] = @ + 1]
           /\ conn' = [conn EXCEPT ![k].at = "ok"]
        \/ /\ \E kind \in {"error", "busy"} : conn' = [conn EXCEPT ![k].at = kind]
           /\ UNCHANGED applied
     /\ UNCHANGED <<clientVars, server>>

\* A handler panics, before or after the operation took effect.
DispatchPanics(k) ==
  LET c == conn[k].serves
  IN /\ At(k, "working")
     /\ applied' \in {applied, [applied EXCEPT ![c] = @ + 1]}
     /\ conn' = Ended(k, <<Stray>>)
     /\ UNCHANGED <<clientVars, server>>

\* writeResponse, which may fail or run out of time.
WriteResponse(k) ==
  /\ conn[k].owner = "serving" /\ conn[k].at \in {"ok", "error", "busy"}
  /\ \/ /\ conn[k].client = "open"
        /\ conn' = [conn EXCEPT ![k].at = "top", ![k].serves = None,
                                ![k].rsp = Append(@, Response(conn[k].at, conn[k].serves))]
     \/ conn' = Ended(k, <<>>)
  /\ UNCHANGED <<clientVars, server, applied>>

\* Server.Close: no more connections, and a read deadline of now on each.
CloseServer ==
  /\ server = "up"
  /\ server' = "draining"
  /\ conn' = [k \in Calls |->
                CASE conn[k].owner = "serving" -> [conn[k] EXCEPT !.deadline = "now"]
                  [] conn[k].owner = "backlog" -> [conn[k] EXCEPT !.owner = "closed", !.req = <<>>]
                  [] OTHER -> conn[k]]
  /\ UNCHANGED <<clientVars, applied>>

\* wg.Wait is over: the runtime closes, which drains and syncs (module Storage).
Stop ==
  /\ server = "draining" /\ Serving = {}
  /\ server' = "stopped"
  /\ UNCHANGED <<clientVars, conn, applied>>

-----------------------------------------------------------------------------

ClientStep(c) ==
  \/ TakeGate(c) \/ CancelledInQueue(c) \/ UseConnection(c) \/ PlainCall(c)
  \/ Dial(c) \/ DialFails(c) \/ Adopt(c)
  \/ WriteRequest(c) \/ WriteFails(c) \/ RequestTooLarge(c)
  \/ ReadResponse(c) \/ ReadFails(c)

ServerStep(k) ==
  \/ Accept(k) \/ LoopTop(k) \/ SetReadDeadline(k) \/ ReadRequest(k) \/ ReadFrameFails(k)
  \/ Dispatch(k) \/ DispatchPanics(k) \/ WriteResponse(k)

\* Every call is back and the owner has stopped.
AllOver ==
  /\ server = "stopped" /\ \A c \in Calls : call[c].pc = "done"
  /\ UNCHANGED connVars

ConnNext ==
  \/ \E c \in Calls : Cancel(c) \/ ClientStep(c) \/ ServerStep(c)
  \/ CloseClient \/ CloseServer \/ Stop
  \/ AllOver

ConnSpec == ConnInit /\ [][ConnNext]_connVars

\* The steps of a call that wait for nobody: on a closed connection a read returns.
ClientUnblocked(c) ==
  \/ TakeGate(c) \/ UseConnection(c) \/ Dial(c) \/ DialFails(c) \/ Adopt(c) \/ WriteRequest(c)
  \/ call[c].conn # None /\ conn[call[c].conn].client = "closed" /\ (WriteFails(c) \/ ReadFails(c))

ConnClientSpec == ConnSpec /\ \A c \in Calls : WF_connVars(ClientUnblocked(c))

\* The owner's goroutines run, its engine answers, its deadlines expire.
ConnServerSpec == ConnSpec /\ WF_connVars(Stop) /\ \A k \in Calls : WF_connVars(ServerStep(k))

-----------------------------------------------------------------------------

\* Calls that share a connection, and even a request ID, never get each other's
\* answer: what a call returns is what the owner said to it (reusableUnary's gate
\* and the connection it throws away after a failure).
RepliesCorrelate ==
  \A c \in Calls : call[c].out \in {"ok", "error"} => call[c].from = c

\* The owner has c's request, or is about to: it may yet take effect.
MayYetApply(c) ==
  \E k \in Calls :
    /\ conn[k].owner # "closed"
    /\ \/ \E i \in DOMAIN conn[k].req : conn[k].req[i] = c
       \/ conn[k].at = "working" /\ conn[k].serves = c

\* A call takes effect at most once, once it says so exactly once; an outcome not
\* marked ambiguous is final: the operation has not happened and never will
\* (TransportError.Ambiguous in writeRequest, readResponse and dial).  A call whose
\* context ended while it waited for the gate is never sent (reusableUnary looks at
\* the context again once it has the gate).
OutcomeIsHonest ==
  \A c \in Calls :
    /\ applied[c] =< 1
    /\ call[c].out = "ok" => applied[c] = 1
    /\ call[c].out \in {"error", "busy", "transport"} => applied[c] = 0 /\ ~MayYetApply(c)
    /\ c \in Reusing /\ call[c].cancelled = "queued" =>
         call[c].pc \in {"start", "gated", "done"} /\ applied[c] = 0 /\ ~MayYetApply(c)

\* A closed client whose calls are back holds no connection open, also when a
\* dial overlapped Close (reusableUnary's second look at closed).
CloseLeaksNothing ==
  closed /\ (\A c \in Reusing : call[c].pc \in {"start", "done"}) =>
    \A k \in Reusing : conn[k].client # "open"

\* Close ends every call in flight, though the owner stays silent and no timeout
\* is set (Client.Close closes the connection under the call).
CloseInterrupts ==
  \A c \in Reusing : closed /\ call[c].pc # "start" ~> call[c].pc = "done"

\* A shutdown ends, whatever the clients do (Server.Close: the read deadlines end
\* the idle connections, the answers in progress are written).
ShutdownStops ==
  server = "draining" ~> server = "stopped"
=============================================================================
