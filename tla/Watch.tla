-------------------------------- MODULE Watch --------------------------------
(***************************************************************************)
(* Watch streams: the bounded history, the writer that registers watchers  *)
(* and publishes each commit to them, the pump goroutine of each watcher,  *)
(* the server's connection handler, and the client that reads the stream   *)
(* and resumes it.                                                         *)
(*                                                                         *)
(* An event is the key it concerns, in a revision; a commit is the group   *)
(* of its events.  Watchers are the clients' streams: a client has one     *)
(* connection at a time and opens the next after the revision the last one *)
(* reported.  Revisions are consecutive (gaps play no part here).          *)
(***************************************************************************)
EXTENDS Naturals, Sequences, SequencesExt, FiniteSets

CONSTANTS
  Watchers,           \* the clients that watch
  Matches,            \* Matches[w]: the keys under the prefix w watches
  Groups,             \* the commits: nonempty sequences of keys
  MaxCommits,         \* bound on the number of commits
  WatchBufferEvents,  \* limits.WatchBufferEvents
  MaxHistoryEvents,   \* limits.MaxHistoryEvents
  MaxWatchClients,    \* limits.MaxWatchClients
  SocketFrames        \* response frames the connection buffers

ASSUME WatchAssumption ==
  /\ WatchBufferEvents \in Nat \ {0} /\ MaxHistoryEvents \in Nat \ {0}
  /\ MaxWatchClients \in Nat \ {0} /\ SocketFrames \in Nat \ {0}
  /\ \A g \in Groups : g # <<>>

VARIABLES
  committed,         \* history: the groups committed; a revision is its index
  history,           \* historyLog.commits
  compactedThrough,  \* historyLog.compactedThrough
  watchers,          \* DatabaseState.watchers: the registered ones
  sub,               \* watcherState and its pump
  handler,           \* handleWatch: its phase and lastWritten
  wire,              \* frames written to the connection and not yet read
  shutdown,          \* Server.shutdown
  client             \* Client.receiveWatch, and what the caller has got

watchVars == <<committed, history, compactedThrough, watchers, sub, handler, wire,
               shutdown, client>>

current == Len(committed)

NoSub == [phase |-> "none", backlog |-> <<>>, live |-> <<>>, end |-> <<>>, queued |-> 0,
          owed |-> 0, delivered |-> 0, registration |-> 0, fits |-> TRUE,
          group |-> <<>>, rev |-> 0, stop |-> FALSE, term |-> <<>>]
NoHandler == [phase |-> "none", lastWritten |-> 0]
NoClient == [phase |-> "none", from |-> 0, last |-> 0, seen |-> <<>>, reason |-> "none"]

\* The events of a group under w's prefix.
Select(w, group) == SelectSeq(group, LAMBDA k : k \in Matches[w])

\* What a stream of w from one revision to another must hold.
Matching(w, from, to) ==
  FlattenSeq([i \in 1..(to - from) |->
    LET keys == Select(w, committed[from + i])
    IN [j \in DOMAIN keys |-> [rev |-> from + i, key |-> keys[j]]]])

EventCount(groups) == FoldLeft(LAMBDA n, g : n + Len(g.events), 0, groups)

WatchInit ==
  /\ committed = <<>> /\ history = <<>> /\ compactedThrough = 0
  /\ watchers = {} /\ shutdown = FALSE
  /\ sub = [w \in Watchers |-> NoSub]
  /\ handler = [w \in Watchers |-> NoHandler]
  /\ wire = [w \in Watchers |-> <<>>]
  /\ client = [w \in Watchers |-> NoClient]

-----------------------------------------------------------------------------
(* The history.                                                            *)

\* Mutant: eviction drops groups without recording how far.
EvictSilently(groups, through) ==
  LET drop == CHOOSE d \in 0..Len(groups) :
                /\ EventCount(SubSeq(groups, d + 1, Len(groups))) =< MaxHistoryEvents
                /\ \A e \in 0..(d - 1) :
                     EventCount(SubSeq(groups, e + 1, Len(groups))) > MaxHistoryEvents
  IN /\ history' = SubSeq(groups, drop + 1, Len(groups))
     /\ compactedThrough' = through

\* historyLog.append's loop: the oldest groups go until the rest fits.
Evict(groups, through) ==
  LET drop == CHOOSE d \in 0..Len(groups) :
                /\ EventCount(SubSeq(groups, d + 1, Len(groups))) =< MaxHistoryEvents
                /\ \A e \in 0..(d - 1) :
                     EventCount(SubSeq(groups, e + 1, Len(groups))) > MaxHistoryEvents
  IN /\ history' = SubSeq(groups, drop + 1, Len(groups))
     /\ compactedThrough' = IF drop = 0 THEN through ELSE groups[drop].rev

\* replayGroupsForWatch: the matching groups after a revision.
ReplayGroups(w, after) ==
  SelectSeq([i \in DOMAIN history |->
               [rev |-> history[i].rev, events |-> Select(w, history[i].events)]],
            LAMBDA g : g.rev > after /\ g.events # <<>>)

-----------------------------------------------------------------------------
(* The writer.                                                             *)

\* Mutant: a full buffer drops the group and keeps the watcher.
PublishDropping(w, group) ==
  IF w \notin watchers \/ group.events = <<>> THEN sub[w]
  ELSE IF sub[w].queued + Len(group.events) > WatchBufferEvents THEN sub[w]
  ELSE [sub[w] EXCEPT !.queued = @ + Len(group.events), !.live = Append(@, group)]

\* publishWatchers for one watcher: reserve room, or end the stream as lagged.
Publish(w, group) ==
  IF w \notin watchers \/ group.events = <<>> THEN sub[w]
  ELSE IF sub[w].queued + Len(group.events) > WatchBufferEvents
       THEN [sub[w] EXCEPT !.end = Append(@, "lagged")]
  ELSE [sub[w] EXCEPT !.queued = @ + Len(group.events), !.live = Append(@, group)]

\* afterCommit: the history first, then every registered watcher.
Commit(keys) ==
  LET revision == current + 1
      groupOf(w) == [rev |-> revision, events |-> Select(w, keys)]
  IN /\ current < MaxCommits
     /\ ~shutdown
     /\ committed' = Append(committed, keys)
     /\ Evict(Append(history, [rev |-> revision, events |-> keys]), compactedThrough)
     /\ sub' = [w \in Watchers |-> Publish(w, groupOf(w))]
     /\ watchers' = {w \in watchers : sub'[w].end = <<>>}
     /\ UNCHANGED <<handler, wire, shutdown, client>>

\* registerWatch's result once the revision is known to be retained.
Registered(w, after) ==
  LET backlog == ReplayGroups(w, after)
      fits    == EventCount(backlog) =< WatchBufferEvents
  IN [NoSub EXCEPT !.phase = "backlog", !.delivered = after, !.registration = current,
                   !.fits = fits,
                   !.backlog = IF fits THEN backlog ELSE <<>>,
                   !.queued = IF fits THEN EventCount(backlog) ELSE 0,
                   !.end = IF fits THEN <<>> ELSE <<"lagged">>]

\* Client.Watch, handleWatch up to the started frame, and registerWatch.
Open(w, after) ==
  /\ ~shutdown
  /\ client[w].phase \in {"none", "ended"} /\ handler[w].phase = "none"
  /\ client[w].phase = "ended" => after = client[w].last
  /\ after =< current
  /\ after >= compactedThrough
  /\ Cardinality(watchers) < MaxWatchClients
  /\ sub' = [sub EXCEPT ![w] = Registered(w, after)]
  /\ watchers' = IF sub'[w].fits THEN watchers \cup {w} ELSE watchers
  /\ handler' = [handler EXCEPT ![w] = [phase |-> "streaming", lastWritten |-> after]]
  /\ wire' = [wire EXCEPT ![w] = <<>>]
  /\ client' = [client EXCEPT ![w] = [NoClient EXCEPT !.phase = "open", !.from = after,
                                                      !.last = after]]
  /\ UNCHANGED <<committed, history, compactedThrough, shutdown>>

\* A caller told REVISION_COMPACTED scans, and watches after the scan's revision.
Rescan(w) ==
  /\ client[w].phase = "ended"
  /\ client[w].last < compactedThrough
  /\ client' = [client EXCEPT ![w] = [NoClient EXCEPT !.phase = "ended", !.from = current,
                                                      !.last = current]]
  /\ UNCHANGED <<committed, history, compactedThrough, watchers, sub, handler, wire, shutdown>>

\* Mutant: the end message is sent to a watcher that already has one.
UnregisterAgain(w) ==
  /\ handler[w].phase = "closing"
  /\ watchers' = watchers \ {w}
  /\ sub' = [sub EXCEPT ![w].end = Append(@, "client")]
  /\ handler' = [handler EXCEPT ![w].phase = "closed"]
  /\ UNCHANGED <<committed, history, compactedThrough, wire, shutdown, client>>

\* unregisterWatch, for a subscription its handler closed.
Unregister(w) ==
  /\ handler[w].phase = "closing"
  /\ watchers' = watchers \ {w}
  /\ sub' = IF w \in watchers THEN [sub EXCEPT ![w].end = Append(@, "client")] ELSE sub
  /\ handler' = [handler EXCEPT ![w].phase = "closed"]
  /\ UNCHANGED <<committed, history, compactedThrough, wire, shutdown, client>>

-----------------------------------------------------------------------------
(* The pump of one watcher.                                                *)

Idle(w) == sub[w].group = <<>> /\ sub[w].owed = 0
MustEnd(w) == sub[w].end # <<>> \/ sub[w].stop

SetSub(w, s) ==
  /\ sub' = [sub EXCEPT ![w] = s]
  /\ UNCHANGED <<committed, history, compactedThrough, watchers, handler, wire, shutdown,
                 client>>

PumpBacklog(w) ==
  /\ sub[w].phase = "backlog" /\ Idle(w)
  /\ sub[w].backlog # <<>> /\ ~MustEnd(w)
  /\ SetSub(w, [sub[w] EXCEPT !.backlog = Tail(@), !.group = Head(sub[w].backlog).events,
                              !.rev = Head(sub[w].backlog).rev])

\* The backlog is through: everything up to the registration is delivered.
PumpGoLive(w) ==
  /\ sub[w].phase = "backlog" /\ Idle(w)
  /\ sub[w].backlog = <<>>
  /\ SetSub(w, [sub[w] EXCEPT !.phase = "live",
                              !.delivered = IF sub[w].fits THEN sub[w].registration ELSE @])

\* Mutant: the pump takes a group only once the next one has come.
PumpLiveLate(w) ==
  /\ sub[w].phase = "live" /\ Idle(w)
  /\ Len(sub[w].live) > 1 /\ ~MustEnd(w)
  /\ SetSub(w, [sub[w] EXCEPT !.live = Tail(@), !.group = Head(sub[w].live).events,
                              !.rev = Head(sub[w].live).rev])

PumpLive(w) ==
  /\ sub[w].phase = "live" /\ Idle(w)
  /\ sub[w].live # <<>> /\ ~MustEnd(w)
  /\ SetSub(w, [sub[w] EXCEPT !.live = Tail(@), !.group = Head(sub[w].live).events,
                              !.rev = Head(sub[w].live).rev])

\* One event goes from the pump to the handler, which writes it out.
PumpEvent(w) ==
  LET event == [kind |-> "event", rev |-> sub[w].rev, key |-> Head(sub[w].group)]
      last  == Len(sub[w].group) = 1
  IN /\ sub[w].group # <<>>
     /\ handler[w].phase = "streaming"
     /\ client[w].phase = "open"
     /\ Len(wire[w]) < SocketFrames
     /\ wire' = [wire EXCEPT ![w] = Append(@, event)]
     /\ handler' = [handler EXCEPT ![w].lastWritten = sub[w].rev]
     /\ sub' = [sub EXCEPT ![w].group = Tail(@),
                           ![w].delivered = IF last THEN sub[w].rev ELSE @,
                           ![w].owed = @ + 1]
     /\ UNCHANGED <<committed, history, compactedThrough, watchers, shutdown, client>>

\* Mutant: the room of a delivered group is kept.
ReleaseNothing(w) ==
  /\ sub[w].group = <<>> /\ sub[w].owed > 0
  /\ SetSub(w, [sub[w] EXCEPT !.owed = 0])

\* The delivered group's room in the buffer is given back.
PumpRelease(w) ==
  /\ sub[w].group = <<>> /\ sub[w].owed > 0
  /\ SetSub(w, [sub[w] EXCEPT !.queued = @ - sub[w].owed, !.owed = 0])

\* Mutant: an end message interrupts a group that has been begun.
FinishMidGroup(w) ==
  /\ sub[w].phase \in {"backlog", "live"}
  /\ MustEnd(w)
  /\ \E reason \in ToSet(sub[w].end) \cup IF sub[w].stop THEN {"client"} ELSE {} :
       SetSub(w, [sub[w] EXCEPT !.phase = "finished",
                                !.term = <<[reason |-> reason, last |-> sub[w].delivered]>>])

\* The pump ends: between two groups on an end message, anywhere when stopped.
PumpFinish(w) ==
  /\ sub[w].phase \in {"backlog", "live"}
  /\ \E reason \in ToSet(sub[w].end) \cup IF sub[w].stop THEN {"client"} ELSE {} :
       /\ \/ Idle(w) /\ (sub[w].phase = "backlog" => sub[w].backlog # <<>>)
          \/ sub[w].group # <<>> /\ sub[w].stop /\ reason = "client"
       /\ SetSub(w, [sub[w] EXCEPT !.phase = "finished",
                                   !.term = <<[reason |-> reason, last |-> sub[w].delivered]>>])

-----------------------------------------------------------------------------
(* The connection handler.                                                 *)

\* handleWatch returns: subscription.Close stops the pump and asks the writer
\* to unregister.
HandlerReturns(w, frames) ==
  /\ handler' = [handler EXCEPT ![w].phase = "closing"]
  /\ sub' = [sub EXCEPT ![w].stop = TRUE]
  /\ wire' = [wire EXCEPT ![w] = @ \o frames]
  /\ UNCHANGED <<committed, history, compactedThrough, watchers, shutdown, client>>

\* The termination of the pump; a lag reports what this handler has written.
HandlerTerminates(w) ==
  /\ handler[w].phase = "streaming"
  /\ sub[w].term # <<>>
  /\ Len(wire[w]) < SocketFrames
  /\ HandlerReturns(w, <<[kind |-> "end", reason |-> Head(sub[w].term).reason,
                          last |-> handler[w].lastWritten]>>)

HandlerShutsDown(w) ==
  /\ handler[w].phase = "streaming"
  /\ shutdown
  /\ Len(wire[w]) < SocketFrames
  /\ HandlerReturns(w, <<[kind |-> "end", reason |-> "shutdown", last |-> 0]>>)

\* A write to a connection that is gone, or that stays full past the deadline;
\* the client finds the connection closed after the frames it still holds.
HandlerWriteFails(w) ==
  /\ handler[w].phase = "streaming"
  /\ sub[w].group # <<>> \/ sub[w].term # <<>> \/ shutdown
  /\ client[w].phase # "open" \/ Len(wire[w]) = SocketFrames
  /\ HandlerReturns(w, IF client[w].phase = "open"
                       THEN <<[kind |-> "end", reason |-> "disconnected", last |-> 0]>>
                       ELSE <<>>)

\* The connection is closed once the writer and the pump are done with it.
HandlerDone(w) ==
  /\ handler[w].phase = "closed"
  /\ sub[w].phase = "finished"
  /\ handler' = [handler EXCEPT ![w] = NoHandler]
  /\ sub' = [sub EXCEPT ![w] = NoSub]
  /\ UNCHANGED <<committed, history, compactedThrough, watchers, wire, shutdown, client>>

BeginShutdown ==
  /\ ~shutdown
  /\ shutdown' = TRUE
  /\ UNCHANGED <<committed, history, compactedThrough, watchers, sub, handler, wire, client>>

\* A clean stop, and a start from the last snapshot: initialize and rebuild.
Restart ==
  /\ shutdown
  /\ \A w \in Watchers : handler[w].phase = "none"
  /\ \E snapshot \in 0..current :
       Evict([i \in 1..(current - snapshot) |->
                [rev |-> snapshot + i, events |-> committed[snapshot + i]]], snapshot)
  /\ shutdown' = FALSE
  /\ UNCHANGED <<committed, watchers, sub, handler, wire, client>>

-----------------------------------------------------------------------------
(* The client.                                                             *)

\* receiveWatch: an event, or the end of the stream.
Receive(w) ==
  /\ client[w].phase = "open"
  /\ wire[w] # <<>>
  /\ LET frame == Head(wire[w])
     IN client' = [client EXCEPT ![w] =
          IF frame.kind = "event"
          THEN [@ EXCEPT !.seen = Append(@, [rev |-> frame.rev, key |-> frame.key]),
                         !.last = frame.rev]
          ELSE [@ EXCEPT !.phase = "ended", !.reason = frame.reason,
                         !.last = IF frame.reason = "lagged" THEN frame.last ELSE @]]
  /\ wire' = [wire EXCEPT ![w] = Tail(@)]
  /\ UNCHANGED <<committed, history, compactedThrough, watchers, sub, handler, shutdown>>

Cancel(w) ==
  /\ client[w].phase = "open"
  /\ client' = [client EXCEPT ![w].phase = "ended", ![w].reason = "client"]
  /\ wire' = [wire EXCEPT ![w] = <<>>]
  /\ UNCHANGED <<committed, history, compactedThrough, watchers, sub, handler, shutdown>>

Pump(w) ==
  \/ PumpBacklog(w) \/ PumpGoLive(w) \/ PumpLive(w) \/ PumpEvent(w)
  \/ PumpRelease(w) \/ PumpFinish(w)

Handle(w) ==
  \/ HandlerTerminates(w) \/ HandlerShutsDown(w) \/ HandlerWriteFails(w) \/ HandlerDone(w)

WatchNext ==
  \/ \E keys \in Groups : Commit(keys)
  \/ \E w \in Watchers :
       \/ \E after \in 0..MaxCommits : Open(w, after)
       \/ Rescan(w) \/ Unregister(w) \/ Pump(w) \/ Handle(w) \/ Receive(w) \/ Cancel(w)
  \/ BeginShutdown \/ Restart

WatchSpec == WatchInit /\ [][WatchNext]_watchVars

\* Goroutines that can run do; the writer gets to every queued command; the
\* caller keeps reading.  Nobody has to commit, open, cancel or shut down.
WatchFairness ==
  \A w \in Watchers :
    /\ WF_watchVars(Pump(w))
    /\ WF_watchVars(Handle(w))
    /\ WF_watchVars(Unregister(w))
    /\ WF_watchVars(Receive(w))

FairWatchSpec == WatchSpec /\ WatchFairness

-----------------------------------------------------------------------------

\* The history is exactly the commits after compactedThrough, within its bound
\* (append, its eviction loop, and rebuild at start-up).
HistoryIsSuffix ==
  /\ compactedThrough + Len(history) = current
  /\ \A i \in DOMAIN history :
       history[i] = [rev |-> compactedThrough + i, events |-> committed[compactedThrough + i]]
  /\ EventCount(history) =< MaxHistoryEvents

\* A stream carries the matching events after its start revision in commit order,
\* with none skipped, repeated or out of place, backlog and live part joined
\* without a seam (registerWatch, publishWatchers, pump, handleWatch).
StreamIsExact ==
  \A w \in Watchers : IsPrefix(client[w].seen, Matching(w, client[w].from, current))

\* WATCH_LAGGED reports a revision up to which the client has every matching event
\* and beyond which it has none (deliver finishes a group before it ends).
LagReportsBoundary ==
  \A w \in Watchers :
    client[w].phase = "ended" /\ client[w].reason = "lagged"
      => client[w].seen = Matching(w, client[w].from, client[w].last)

\* queuedEvents counts what the watcher still holds and keeps within its limit, so
\* that the live channel has room whenever reserveWatchEvents succeeds and the
\* writer never waits for it.
BufferAccounting ==
  \A w \in Watchers :
    sub[w].phase \in {"backlog", "live"} /\ sub[w].fits =>
      /\ sub[w].queued =< WatchBufferEvents
      /\ sub[w].queued = EventCount(sub[w].backlog) + EventCount(sub[w].live)
                           + Len(sub[w].group) + sub[w].owed
      /\ Len(sub[w].live) =< WatchBufferEvents

\* A running watcher is either registered or has its one end message waiting: it is
\* never silently forgotten, and the writer never blocks on a full end channel.
RegisteredOrEnding ==
  \A w \in Watchers :
    sub[w].phase \in {"backlog", "live"} =>
      /\ (w \in watchers) = (sub[w].end = <<>>)
      /\ Len(sub[w].end) =< 1

\* Every commit a client's open stream covers reaches the client, or the stream
\* ends (pump, handler and client running; the writer serving its queue).
DeliveredOrEnded ==
  \A w \in Watchers : \A r \in 1..MaxCommits :
    (client[w].phase = "open" /\ r =< current /\ client[w].from < r)
      ~> (\/ client[w].phase # "open"
          \/ r =< current /\ IsPrefix(Matching(w, client[w].from, r), client[w].seen))
=============================================================================
