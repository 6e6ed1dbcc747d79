--------------------------------- MODULE Scan ---------------------------------
(***************************************************************************)
(* The ordered key index and the reads that walk it: planOrderedKeys and   *)
(* its merge on every commit, the paged ScanPrefix with its cursor, and    *)
(* the one-shot recovery snapshot; snapshots and restarts, which rebuild   *)
(* records and index under a cursor a client still holds.                  *)
(*                                                                         *)
(* A key is a short sequence of numbers, so that order and prefixes are    *)
(* those of strings.  Every commit is durable here: what a crash loses is  *)
(* the subject of Storage.  The time source does not go back on a restart. *)
(***************************************************************************)
EXTENDS Naturals, SequencesExt

CONSTANTS
  ScanKeys,      \* the keys: nonempty sequences of numbers
  ScanPrefixes,  \* the prefixes clients ask for
  Bytes,         \* Bytes[k]: the size of k's record without an expiry
  MaxScanBytes,  \* limits.MaxScanBytes
  Limits,        \* the page limits clients ask for
  HeaderBytes,   \* a recovery snapshot frame without request identity and records
  MaxRequestID,  \* the longest request identity admitted
  MaxTime,       \* bound on the effective time
  MaxRevision    \* bound on the number of commits

VARIABLES
  records,      \* DatabaseState.records: each key's expiry, Gone when absent
  orderedKeys,  \* DatabaseState.orderedKeys
  revision,     \* DatabaseState.current
  now,          \* the effective time
  recovered,    \* what snapshot file and log rebuild: replayRecords
  scan          \* one client's scan: request, cursor, outcome and records so far

scanVars == <<records, orderedKeys, revision, now, recovered, scan>>

Gone == 0
Never == MaxTime + 1

RECURSIVE Before(_, _)

\* The order of Go strings.
Before(x, y) ==
  \/ x = <<>> /\ y # <<>>
  \/ /\ x # <<>> /\ y # <<>>
     /\ \/ Head(x) < Head(y)
        \/ Head(x) = Head(y) /\ Before(Tail(x), Tail(y))

Stored(recs) == {k \in ScanKeys : recs[k] # Gone}

\* recordExpired, of a stored record.
Expired(k, time) == records[k] =< time

Live(time) == {k \in Stored(records) : ~Expired(k, time)}

\* The reference: the live keys of a prefix, in order.
LiveUnder(prefix, time) == SetToSortSeq({k \in Live(time) : IsPrefix(prefix, k)}, Before)

\* scanRecordBytes: an expiry takes room too.
ScanRecordBytes(k) == Bytes[k] + (IF records[k] = Never THEN 0 ELSE 1)

TotalBytes(size(_), keys) == FoldLeft(LAMBDA n, k : n + size(k), 0, keys)

NoScan == [phase |-> "idle", prefix |-> <<>>, limit |-> 1, last |-> <<>>, rev |-> 0,
           asOf |-> 0, got |-> <<>>, expect |-> <<>>, restarted |-> FALSE]

ScanInit ==
  /\ records = [k \in ScanKeys |-> Gone] /\ recovered = records
  /\ orderedKeys = <<>>
  /\ revision = 0 /\ now = 1
  /\ scan = NoScan

-----------------------------------------------------------------------------
(* The index.                                                              *)

\* sort.Search: the first position whose key satisfies test, or one past the end.
Search(keys, test(_)) ==
  CHOOSE i \in 1..(Len(keys) + 1) :
    /\ i =< Len(keys) => test(keys[i])
    /\ \A j \in 1..(i - 1) : ~test(keys[j])

SearchStrings(keys, k) == Search(keys, LAMBDA x : ~Before(x, k))

Indexed(keys, k) ==
  LET i == SearchStrings(keys, k) IN i =< Len(keys) /\ keys[i] = k

RECURSIVE Merge(_, _, _)

\* The loop of mergeOrderedKeyDelta.
Merge(base, additions, removed) ==
  IF base = <<>> /\ additions = <<>> THEN <<>>
  ELSE IF base # <<>> /\ Head(base) \in removed THEN Merge(Tail(base), additions, removed)
  ELSE IF additions = <<>> \/ (base # <<>> /\ Before(Head(base), Head(additions)))
       THEN <<Head(base)>> \o Merge(Tail(base), additions, removed)
  ELSE <<Head(additions)>> \o Merge(base, Tail(additions), removed)

Additions(keys, puts) == SetToSortSeq({k \in puts : ~Indexed(keys, k)}, Before)

\* Mutant: only a batch that deletes merges; new keys go to the end.
MergeOnDeleteOnly(keys, puts, deletes) ==
  IF deletes = {} THEN keys \o Additions(keys, puts)
  ELSE Merge(keys, Additions(keys, puts), deletes)

\* planOrderedKeys: unchanged, appended at the end, or merged.
PlanOrderedKeys(keys, puts, deletes) ==
  LET additions == Additions(keys, puts)
      removed   == {k \in deletes : Indexed(keys, k)}
      bulkMerge == \/ removed # {}
                   \/ /\ keys # <<>>
                      /\ \E i \in DOMAIN additions : ~Before(Last(keys), additions[i])
  IN IF bulkMerge THEN Merge(keys, additions, removed) ELSE keys \o additions

\* The records after a batch: the keys put get the expiry, the deleted ones go.
ApplyBatch(recs, puts, deletes, at) ==
  [k \in ScanKeys |-> IF k \in puts THEN at ELSE IF k \in deletes THEN Gone ELSE recs[k]]

\* The planned index and the records change together; the log gets the same effects.
Apply(puts, deletes, at) ==
  /\ revision < MaxRevision
  /\ orderedKeys' = PlanOrderedKeys(orderedKeys, puts, deletes)
  /\ records' = ApplyBatch(records, puts, deletes, at)
  /\ recovered' = ApplyBatch(recovered, puts, deletes, at)
  /\ revision' = revision + 1
  /\ UNCHANGED <<now, scan>>

\* A client's batch: keys are distinct, an expiry is in the future, and a delete
\* names a live record's revision.
Commit(puts, deletes, at) ==
  /\ puts \cup deletes # {} /\ puts \cap deletes = {}
  /\ deletes \subseteq Live(now) /\ at > now
  /\ Apply(puts, deletes, at)

\* An expiry cleanup of some of the due records.
Cleanup(due) ==
  /\ due # {} /\ due \subseteq Stored(records) \ Live(now)
  /\ Apply({}, due, Never)

Tick ==
  /\ now < MaxTime
  /\ now' = now + 1
  /\ UNCHANGED <<records, orderedKeys, revision, recovered, scan>>

\* A snapshot of the current revision; EncodeSnapshot leaves expired records out.
Snapshot ==
  /\ recovered' = [k \in ScanKeys |-> IF k \in Live(now) THEN records[k] ELSE Gone]
  /\ UNCHANGED <<records, orderedKeys, revision, now, scan>>

\* A new process: records from snapshot and log, the index sorted afresh.
Restart ==
  /\ records' = recovered
  /\ orderedKeys' = SetToSortSeq(Stored(recovered), Before)
  /\ scan' = [scan EXCEPT !.restarted = @ \/ scan.phase = "paging"]
  /\ UNCHANGED <<revision, now, recovered>>

-----------------------------------------------------------------------------
(* ScanPrefix.                                                             *)

RECURSIVE Walk(_, _, _, _, _)

\* The loop of ScanPrefix from position i, page being the keys taken so far.
Walk(i, prefix, limit, asOf, page) ==
  IF i > Len(orderedKeys) \/ ~IsPrefix(prefix, orderedKeys[i])
  THEN [keys |-> page, truncated |-> FALSE]
  ELSE LET k == orderedKeys[i] IN
    IF Expired(k, asOf) THEN Walk(i + 1, prefix, limit, asOf, page)
    ELSE IF \/ Len(page) = limit
            \/ TotalBytes(ScanRecordBytes, page) + ScanRecordBytes(k) > MaxScanBytes
         THEN [keys |-> page, truncated |-> TRUE]
    ELSE Walk(i + 1, prefix, limit, asOf, Append(page, k))

\* What a page does to the scan: end it, move its cursor to the last key, or fail
\* with FRAME_TOO_LARGE on a record no page can hold.
TakePage(s, page) ==
  IF page.truncated /\ page.keys = <<>> THEN [s EXCEPT !.phase = "too_large"]
  ELSE [s EXCEPT !.phase = IF page.truncated THEN "paging" ELSE "done",
                 !.last = IF page.truncated THEN Last(page.keys) ELSE @,
                 !.got = @ \o page.keys]

\* A request without a cursor; a client may also abandon the scan it had.
FirstPage(prefix, limit) ==
  LET start == [NoScan EXCEPT !.prefix = prefix, !.limit = limit, !.rev = revision,
                              !.asOf = now, !.expect = LiveUnder(prefix, now)]
  IN /\ scan' = TakePage(start, Walk(SearchStrings(orderedKeys, prefix), prefix, limit,
                                     now, <<>>))
     /\ UNCHANGED <<records, orderedKeys, revision, now, recovered>>

\* Mutant: a later page reads the clock again.
NextPageNow ==
  /\ scan.phase = "paging"
  /\ scan' = IF scan.rev # revision THEN [scan EXCEPT !.phase = "stale"]
             ELSE TakePage(scan, Walk(Search(orderedKeys, LAMBDA k : Before(scan.last, k)),
                                      scan.prefix, scan.limit, now, <<>>))
  /\ UNCHANGED <<records, orderedKeys, revision, now, recovered>>

\* A request with the cursor: SCAN_STALE when the revision moved, else the keys
\* after the cursor's last one, at the cursor's time.
NextPage ==
  /\ scan.phase = "paging"
  /\ scan' = IF scan.rev # revision THEN [scan EXCEPT !.phase = "stale"]
             ELSE TakePage(scan, Walk(Search(orderedKeys, LAMBDA k : Before(scan.last, k)),
                                      scan.prefix, scan.limit, scan.asOf, <<>>))
  /\ UNCHANGED <<records, orderedKeys, revision, now, recovered>>

RECURSIVE Collect(_, _, _, _, _)

\* The loop of ReadRecoverySnapshot: all of the prefix or an error.
Collect(i, prefix, maxRecords, maxBytes, got) ==
  IF i > Len(orderedKeys) \/ ~IsPrefix(prefix, orderedKeys[i]) THEN [ok |-> TRUE, keys |-> got]
  ELSE LET k == orderedKeys[i] IN
    IF k \notin Live(now) THEN Collect(i + 1, prefix, maxRecords, maxBytes, got)
    ELSE IF \/ Len(got) = maxRecords
            \/ TotalBytes(LAMBDA x : Bytes[x], got) + Bytes[k] > maxBytes
         THEN [ok |-> FALSE, keys |-> <<>>]
    ELSE Collect(i + 1, prefix, maxRecords, maxBytes, Append(got, k))

\* recoverySnapshotHeaderBytes, with the identity of the request.
RecoverySnapshotHeaderBytes(id) == HeaderBytes + id

\* Mutant: room is kept for the shortest identity only.
ReadRecoverySnapshotShort(prefix, maxRecords, maxBytes) ==
  Collect(SearchStrings(orderedKeys, prefix), prefix, maxRecords,
          maxBytes - RecoverySnapshotHeaderBytes(1), <<>>)

\* ReadRecoverySnapshot of the engine, at the revision the client expects: room is
\* kept for the longest identity.
ReadRecoverySnapshot(prefix, maxRecords, maxBytes) ==
  Collect(SearchStrings(orderedKeys, prefix), prefix, maxRecords,
          maxBytes - RecoverySnapshotHeaderBytes(MaxRequestID), <<>>)

\* EncodeRecoverySnapshot: the size of the frame, 0 when it does not encode.
EncodeRecoverySnapshot(keys, id, prefix, maxRecords, maxBytes) ==
  LET size == RecoverySnapshotHeaderBytes(id) + TotalBytes(LAMBDA k : Bytes[k], keys)
  IN IF /\ Len(keys) =< maxRecords /\ size =< maxBytes
        /\ \A i \in DOMAIN keys : /\ IsPrefix(prefix, keys[i]) /\ records[keys[i]] > now
                                  /\ i > 1 => Before(keys[i - 1], keys[i])
     THEN size ELSE 0

ScanNext ==
  \/ \E puts, deletes \in SUBSET ScanKeys, at \in 1..Never : Commit(puts, deletes, at)
  \/ \E due \in SUBSET ScanKeys : Cleanup(due)
  \/ Tick
  \/ Snapshot
  \/ Restart
  \/ \E prefix \in ScanPrefixes, limit \in Limits : FirstPage(prefix, limit)
  \/ NextPage

ScanSpec == ScanInit /\ [][ScanNext]_scanVars

-----------------------------------------------------------------------------

\* The reference of planOrderedKeys and mergeOrderedKeyDelta: a sort of the map.
IndexIsSorted == orderedKeys = SetToSortSeq(Stored(records), Before)

\* The pages of a scan that is not refused add up to the live records of the prefix
\* at its revision and time: none twice, none missed, though records expire between
\* the pages.  After a restart they may lack records that a snapshot left out as
\* expired, but gain, repeat or reorder none (ScanPrefix and its cursor,
\* EncodeSnapshot).  The index they walk is the stored keys, each once, in order,
\* after any commits, cleanups and restarts (planOrderedKeys, mergeOrderedKeyDelta).
ScanIsPointInTime ==
  /\ IndexIsSorted
  /\ IF scan.restarted
     THEN scan.got = SelectSeq(scan.expect, LAMBDA k : k \in ToSet(scan.got))
     ELSE /\ IsPrefix(scan.got, scan.expect)
          /\ scan.phase = "done" => scan.got = scan.expect

\* The recovery snapshot is all the live records of the prefix in order, and fails
\* only when with the longest identity they would exceed the bounds of the request;
\* what the engine admits, the owner encodes within the client's bound, save that
\* without a record the frame itself may be too large (ReadRecoverySnapshot,
\* EncodeRecoverySnapshot, handleRecoverySnapshot).
RecoverySnapshotIsExact ==
  \A prefix \in ScanPrefixes \ {<<>>}, maxRecords \in Limits,
     maxBytes \in 1..(HeaderBytes + MaxRequestID + MaxScanBytes + 1) :
    LET result == ReadRecoverySnapshot(prefix, maxRecords, maxBytes)
        live   == LiveUnder(prefix, now)
        fits   == /\ Len(live) =< maxRecords
                  /\ RecoverySnapshotHeaderBytes(MaxRequestID)
                       + TotalBytes(LAMBDA k : Bytes[k], live) =< maxBytes
    IN /\ result = IF fits \/ live = <<>> THEN [ok |-> TRUE, keys |-> live]
                   ELSE [ok |-> FALSE, keys |-> <<>>]
       /\ \A id \in {1, MaxRequestID} :
            result.ok /\ EncodeRecoverySnapshot(result.keys, id, prefix, maxRecords, maxBytes) = 0 =>
              live = <<>> /\ RecoverySnapshotHeaderBytes(id) > maxBytes
=============================================================================
