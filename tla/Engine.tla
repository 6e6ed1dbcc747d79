-------------------------------- MODULE Engine --------------------------------
(***************************************************************************)
(* The engine as its callers meet it: admission to a bounded queue, the    *)
(* writer that takes commands one at a time, the predicate phase of a      *)
(* batch, record expiry with its heap and timer, the nondecreasing clock,  *)
(* reads that take the time before they take the lock, degradation and the *)
(* draining of the queue at close.                                         *)
(*                                                                         *)
(* The callers use the database as its specification intends: each tries   *)
(* to hold a lease (a record with an expiry, taken with PutIfAbsent,       *)
(* renewed with CompareAndSwap, given up with DeleteIfRevision) and writes *)
(* data in a batch that asserts the lease.  Revisions are consecutive and  *)
(* a commit is one step: modules Revisions and Storage take them apart.    *)
(***************************************************************************)
EXTENDS Naturals, Sequences, FiniteSets

CONSTANTS
  Callers,             \* goroutines that submit mutations
  Readers,             \* goroutines that read
  Lease, Data,         \* the two keys
  MaxTime,             \* bound on the wall clock
  MaxRevision,         \* bound on the number of commits
  TTL,                 \* how long a lease lasts
  QueueCapacity,       \* cap(state.queue)
  MaxBatchOperations   \* limits.MaxBatchOperations, for the expiry batch

Keys == {Lease, Data}

ASSUME EngineAssumption ==
  /\ Lease # Data
  /\ TTL \in Nat \ {0} /\ QueueCapacity \in Nat \ {0} /\ MaxBatchOperations \in Nat \ {0}

VARIABLES
  wall,       \* the source clock, which may be set back
  latest,     \* Nondecreasing.latest
  records,    \* DatabaseState.records: revision 0 is absent, expiry 0 is none
  current,    \* DatabaseState.current
  expiries,   \* DatabaseState.expiries with expiryByKey
  timer,      \* the expiry timer: stopped, armed, or fired with its tick unread
  queue,      \* DatabaseState.queue
  lifecycle,  \* DatabaseState.lifecycle
  closed,     \* DatabaseState.closed
  writer,     \* "running", or "done" when runWriter has returned
  caller,     \* what each caller is doing, and the lease revision it knows
  holder,     \* history: the lease each caller was granted, until when
  expired,    \* history: revisions some finished read found expired
  reader,     \* reads in progress: the time taken, and what was expired then
  stale       \* history: a read returned what an earlier one had found expired

engineVars == <<wall, latest, records, current, expiries, timer, queue, lifecycle, closed,
                writer, caller, holder, expired, reader, stale>>

Absent == [rev |-> 0, at |-> 0]
NoLease == [rev |-> 0, until |-> 0]

EngineInit ==
  /\ wall = 1 /\ latest = 1
  /\ records = [k \in Keys |-> Absent] /\ current = 0
  /\ expiries = {} /\ timer = "stopped"
  /\ queue = <<>> /\ lifecycle = "ready" /\ closed = FALSE /\ writer = "running"
  /\ caller = [c \in Callers |-> [phase |-> "idle", knows |-> 0]]
  /\ holder = [c \in Callers |-> NoLease]
  /\ expired = {} /\ stale = FALSE
  /\ reader = [r \in Readers |-> [phase |-> "idle", now |-> 0, barred |-> {}]]

-----------------------------------------------------------------------------
(* Time.                                                                   *)

\* Nondecreasing.Now.
Now == IF wall > latest THEN wall ELSE latest

\* Mutant: a record expires one tick early.
ExpiredEarly(record, now) == record.at # 0 /\ now + 1 >= record.at

\* recordExpired and IsExpired: at the instant itself a record is expired.
Expired(record, now) == record.at # 0 /\ now >= record.at

Live(k, now) == records[k].rev # 0 /\ ~Expired(records[k], now)

WallMoves ==
  /\ wall' \in 1..MaxTime
  /\ UNCHANGED <<latest, records, current, expiries, timer, queue, lifecycle, closed, writer,
                 caller, holder, expired, reader, stale>>

-----------------------------------------------------------------------------
(* Batches.                                                                *)

Condition(kind, expected) == [kind |-> kind, expected |-> expected]
Put(k, condition, at) == [op |-> "put", key |-> k, cond |-> condition, at |-> at]
Delete(k, revision) ==
  [op |-> "delete", key |-> k, cond |-> Condition("revision", revision), at |-> 0]
Assertion(k, condition) == [key |-> k, cond |-> condition]

\* The calls a caller makes: acquire, renew and release the lease, and write data
\* under an assertion that the lease is still the one it was granted.
Requests(c) ==
  LET known == caller[c].knows
  IN {[asserts |-> {}, mutations |-> {Put(Lease, Condition("absent", 0), Now + TTL)}]}
     \cup (IF known = 0 THEN {} ELSE
       {[asserts |-> {}, mutations |-> {Put(Lease, Condition("revision", known), Now + TTL)}],
        [asserts |-> {}, mutations |-> {Delete(Lease, known)}],
        [asserts |-> {Assertion(Lease, Condition("revision", known))},
         mutations |-> {Put(Data, Condition("any", 0), 0)}]})

\* validateBatchAt: an expiry must lie in the future.
Valid(batch, now) == \A m \in batch.mutations : m.at = 0 \/ m.at > now

\* conditionError and assertionConditionError.
Holds(condition, k, now) ==
  CASE condition.kind = "any"      -> TRUE
    [] condition.kind = "absent"   -> ~Live(k, now)
    [] condition.kind = "revision" -> Live(k, now) /\ records[k].rev = condition.expected

\* Mutant: only the mutations' conditions are evaluated.
ConditionsOnly(batch, now) ==
  \A m \in batch.mutations : Holds(m.cond, m.key, now)

\* The predicate phase: assertions and conditions, one lock, one time.
Predicates(batch, now) ==
  /\ \A x \in batch.asserts : Holds(x.cond, x.key, now)
  /\ \A m \in batch.mutations : Holds(m.cond, m.key, now)

\* apply, for every mutation of the batch.
Applied(batch, revision) ==
  [k \in Keys |->
     IF \E m \in batch.mutations : m.key = k
     THEN LET m == CHOOSE m \in batch.mutations : m.key = k
          IN IF m.op = "put" THEN [rev |-> revision, at |-> m.at] ELSE Absent
     ELSE records[k]]

\* Mutant: a deleted record keeps its place in the heap.
RescheduledPutsOnly(batch, revision) ==
  {e \in expiries : \A m \in batch.mutations : m.op = "put" => m.key # e.key}
  \cup {[at |-> m.at, key |-> m.key, rev |-> revision] :
          m \in {n \in batch.mutations : n.op = "put" /\ n.at # 0}}

\* afterCommit: scheduleRecordExpiry and removeScheduledExpiry.
Rescheduled(batch, revision) ==
  {e \in expiries : \A m \in batch.mutations : m.key # e.key}
  \cup {[at |-> m.at, key |-> m.key, rev |-> revision] :
          m \in {n \in batch.mutations : n.op = "put" /\ n.at # 0}}

-----------------------------------------------------------------------------
(* Callers.                                                                *)

\* prepareAndSubmit and submit: valid now, the owner ready, room in the queue.
Submit(c, batch) ==
  /\ caller[c].phase = "idle"
  /\ Valid(batch, Now)
  /\ lifecycle = "ready"
  /\ Len(queue) < QueueCapacity
  /\ latest' = Now
  /\ queue' = Append(queue, [from |-> c, batch |-> batch])
  /\ caller' = [caller EXCEPT ![c].phase = "waiting"]
  /\ UNCHANGED <<wall, records, current, expiries, timer, lifecycle, closed, writer, holder,
                 expired, reader, stale>>

\* Mutant: Get asks the source clock.
GetSourceTime(r) ==
  /\ reader[r].phase = "idle"
  /\ reader' = [reader EXCEPT ![r] = [phase |-> "timed", now |-> wall, barred |-> expired]]
  /\ UNCHANGED <<wall, latest, records, current, expiries, timer, queue, lifecycle, closed,
                 writer, caller, holder, expired, stale>>

\* Get takes the time, then the lock.
GetTime(r) ==
  /\ reader[r].phase = "idle"
  /\ latest' = Now
  /\ reader' = [reader EXCEPT ![r] = [phase |-> "timed", now |-> Now, barred |-> expired]]
  /\ UNCHANGED <<wall, records, current, expiries, timer, queue, lifecycle, closed, writer,
                 caller, holder, expired, stale>>

GetRecord(r) ==
  LET record == records[Lease]
  IN /\ reader[r].phase = "timed"
     /\ reader' = [reader EXCEPT ![r] = [phase |-> "idle", now |-> 0, barred |-> {}]]
     /\ expired' = IF Expired(record, reader[r].now) THEN expired \cup {record.rev} ELSE expired
     /\ stale' = (stale \/ /\ record.rev \in reader[r].barred
                           /\ ~Expired(record, reader[r].now))
     /\ UNCHANGED <<wall, latest, records, current, expiries, timer, queue, lifecycle, closed,
                    writer, caller, holder>>

-----------------------------------------------------------------------------
(* The writer.                                                             *)

\* Mutant: the timer is stopped with the last candidate and never started again.
TimerLeftAlone(heap) == IF heap = {} THEN "stopped" ELSE timer

\* resetExpiryTimer: an unread tick is discarded.
TimerAfter(heap) == IF heap = {} THEN "stopped" ELSE "armed"

\* A caller's reply, and the lease it stands for.
Answer(c, ok, revision) ==
  LET batch == Head(queue).batch
      leasePuts == {m \in batch.mutations : m.key = Lease /\ m.op = "put"}
      leaseDeletes == {m \in batch.mutations : m.key = Lease /\ m.op = "delete"}
  IN /\ caller' = [caller EXCEPT ![c] =
                     [phase |-> "idle",
                      knows |-> IF ok /\ leasePuts # {} THEN revision
                                ELSE IF ok /\ leaseDeletes # {} THEN 0 ELSE @.knows]]
     /\ holder' = [holder EXCEPT ![c] =
                     IF ok /\ leasePuts # {}
                     THEN [rev |-> revision, until |-> (CHOOSE m \in leasePuts : TRUE).at]
                     ELSE IF ok /\ leaseDeletes # {} THEN NoLease ELSE @]

\* execute, when it commits.
ExecuteCommits ==
  LET command  == Head(queue)
      revision == current + 1
  IN /\ writer = "running" /\ queue # <<>>
     /\ lifecycle \in {"ready", "draining"}
     /\ Valid(command.batch, Now)
     /\ Predicates(command.batch, Now)
     /\ current < MaxRevision
     /\ latest' = Now
     /\ records' = Applied(command.batch, revision)
     /\ current' = revision
     /\ expiries' = Rescheduled(command.batch, revision)
     /\ timer' = TimerAfter(expiries')
     /\ Answer(command.from, TRUE, revision)
     /\ queue' = Tail(queue)
     /\ UNCHANGED <<wall, lifecycle, closed, writer, expired, reader, stale>>

\* execute, when the batch is refused: late, failed predicates, or no writer left.
ExecuteRefuses ==
  LET command == Head(queue)
  IN /\ writer = "running" /\ queue # <<>>
     /\ \/ lifecycle = "degraded" /\ UNCHANGED latest
        \/ /\ lifecycle # "degraded"
           /\ ~Valid(command.batch, Now) \/ ~Predicates(command.batch, Now)
           /\ latest' = Now
     /\ timer' = TimerAfter(expiries)
     /\ Answer(command.from, FALSE, 0)
     /\ queue' = Tail(queue)
     /\ UNCHANGED <<wall, records, current, expiries, lifecycle, closed, writer, expired,
                    reader, stale>>

\* execute, when the log or the allocator fails after the predicates held.
ExecuteDegrades ==
  LET command == Head(queue)
  IN /\ writer = "running" /\ queue # <<>>
     /\ lifecycle \in {"ready", "draining"}
     /\ Valid(command.batch, Now)
     /\ Predicates(command.batch, Now)
     /\ latest' = Now
     /\ lifecycle' = "degraded"
     /\ timer' = TimerAfter(expiries)
     /\ Answer(command.from, FALSE, 0)
     /\ queue' = Tail(queue)
     /\ UNCHANGED <<wall, records, current, expiries, closed, writer, expired, reader, stale>>

\* The timer's delay passes; the effective time need not have got there.
TimerElapses ==
  /\ timer = "armed"
  /\ timer' = "fired"
  /\ UNCHANGED <<wall, latest, records, current, expiries, queue, lifecycle, closed, writer,
                 caller, holder, expired, reader, stale>>

\* executeDueExpiries: a candidate must still name the record's revision.
Due(popped) ==
  {e \in popped : records[e.key].rev = e.rev /\ records[e.key].at = e.at}

\* The earliest due candidates leave the heap, at most a batch of them valid.
Popped(popped) ==
  /\ popped \subseteq {e \in expiries : e.at =< Now}
  /\ \A e \in popped, f \in expiries \ popped : e.at =< f.at
  /\ Cardinality(Due(popped)) =< MaxBatchOperations
  /\ \/ popped = {e \in expiries : e.at =< Now}
     \/ Cardinality(Due(popped)) = MaxBatchOperations

\* The timer case of runWriter: a durable batch of deletes, or degradation.
ExpireDue ==
  /\ writer = "running"
  /\ timer = "fired"
  /\ lifecycle = "ready"
  /\ latest' = Now
  /\ \E popped \in SUBSET expiries :
       /\ Popped(popped)
       /\ expiries' = expiries \ popped
       /\ \/ /\ Due(popped) = {}
             /\ UNCHANGED <<records, current, lifecycle>>
          \/ /\ Due(popped) # {} /\ current < MaxRevision
             /\ current' = current + 1
             /\ records' = [k \in Keys |-> IF \E e \in Due(popped) : e.key = k
                                           THEN Absent ELSE records[k]]
             /\ UNCHANGED lifecycle
          \/ /\ Due(popped) # {}
             /\ lifecycle' = "degraded" /\ UNCHANGED <<records, current>>
  /\ timer' = TimerAfter(expiries')
  /\ UNCHANGED <<wall, queue, closed, writer, caller, holder, expired, reader, stale>>

TimerStops ==
  /\ writer = "running"
  /\ timer = "fired"
  /\ lifecycle # "ready"
  /\ timer' = "stopped"
  /\ UNCHANGED <<wall, latest, records, current, expiries, queue, lifecycle, closed, writer,
                 caller, holder, expired, reader, stale>>

Close ==
  /\ ~closed
  /\ closed' = TRUE
  /\ lifecycle' = IF lifecycle = "ready" THEN "draining" ELSE lifecycle
  /\ UNCHANGED <<wall, latest, records, current, expiries, timer, queue, writer, caller,
                 holder, expired, reader, stale>>

\* Mutant: the writer leaves as soon as it sees the close.
WriterReturnsAtOnce ==
  /\ writer = "running" /\ closed
  /\ writer' = "done" /\ timer' = "stopped"
  /\ UNCHANGED <<wall, latest, records, current, expiries, queue, lifecycle, closed, caller,
                 holder, expired, reader, stale>>

\* The closed queue is empty: the timer stops and runWriter returns.
WriterReturns ==
  /\ writer = "running" /\ closed /\ queue = <<>>
  /\ writer' = "done" /\ timer' = "stopped"
  /\ UNCHANGED <<wall, latest, records, current, expiries, queue, lifecycle, closed, caller,
                 holder, expired, reader, stale>>

Execute == ExecuteCommits \/ ExecuteRefuses \/ ExecuteDegrades

EngineNext ==
  \/ WallMoves
  \/ \E c \in Callers : \E batch \in Requests(c) : Submit(c, batch)
  \/ \E r \in Readers : GetTime(r) \/ GetRecord(r)
  \/ Execute \/ TimerElapses \/ ExpireDue \/ TimerStops \/ Close \/ WriterReturns

EngineSpec == EngineInit /\ [][EngineNext]_engineVars

\* The writer goroutine runs; its select, which chooses at random, does not pass
\* over a ready timer for ever; an armed timer fires.
FairEngineSpec ==
  /\ EngineSpec
  /\ WF_engineVars(Execute \/ WriterReturns)
  /\ SF_engineVars(ExpireDue)
  /\ WF_engineVars(TimerElapses)

-----------------------------------------------------------------------------

\* Two callers are never granted the lease for the same effective time, whatever
\* the wall clock does and however long requests wait in the queue (PutIfAbsent,
\* CompareAndSwap and DeleteIfRevision against a nondecreasing time).
LeaseExclusion ==
  \A c, d \in Callers :
    c # d => ~(holder[c].until > latest /\ holder[d].until > latest)

\* A record that a finished read found expired is not returned by a read that
\* starts later, even if the wall clock is set back (Nondecreasing.Now, Get).
ExpiredStaysExpired == ~stale

\* Data is committed only by the caller whose lease was live at that moment: an
\* assertion is not passed on the strength of a lease that ran out in the queue.
FencedWrites ==
  [][\A k \in {Data} : records[k]' # records[k] =>
       LET c == Head(queue).from
       IN holder[c].rev = records[Lease].rev /\ holder[c].until > latest']_engineVars

\* While the owner is ready, the heap holds exactly one candidate, up to date, for
\* every record with an expiry, and no other (scheduleRecordExpiry,
\* removeScheduledExpiry, executeDueExpiries).
HeapMatchesRecords ==
  lifecycle # "degraded" =>
    expiries = {[at |-> records[k].at, key |-> k, rev |-> records[k].rev] :
                  k \in {j \in Keys : records[j].at # 0}}

\* Every admitted command is answered, also through degradation and close; the
\* writer leaves nobody waiting (submit's wait for its response, runWriter).  The
\* callers are interchangeable, so any one of them stands for all.
EveryCallReturns ==
  LET c == CHOOSE c \in Callers : TRUE
  IN caller[c].phase = "waiting" ~> caller[c].phase = "idle"

\* A record whose expiry has been reached is removed from a ready owner, by the
\* cleanup commit or by an overwrite (executeDueExpiries, the expiry timer).  Only
\* the lease has an expiry.
ExpiredIsRemoved ==
  (lifecycle = "ready" /\ Expired(records[Lease], latest))
    ~> (lifecycle # "ready" \/ ~Expired(records[Lease], latest))
=============================================================================
