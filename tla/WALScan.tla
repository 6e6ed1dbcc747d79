------------------------------- MODULE WALScan -------------------------------
(***************************************************************************)
(* The bytes of one log file: how a commit becomes a frame, how the frame  *)
(* reaches the file piece by piece, and how ScanWAL tells an incomplete    *)
(* last frame, which start-up cuts off, from damage, which it refuses.     *)
(*                                                                         *)
(* The file is a sequence of cells, one per field, each a sequence of      *)
(* numbers with no trace of the field it belongs to: a reader that loses   *)
(* its place reads nonsense, as it would in bytes.  A checksum cell holds  *)
(* what it covers, so it misses nothing.  An effect is one cell: its key.  *)
(***************************************************************************)
EXTENDS Naturals, SequencesExt

CONSTANTS
  Contents,            \* the effects of commits: nonempty sequences of distinct keys
  Reserved,            \* the reserved revision end, and bound on revisions
  MaxFrame,            \* min(MaxBatchBytes, MaxFrameBytes), in cells
  MaxBatchOperations,  \* limits.MaxBatchOperations
  DamageValues         \* what a damaged cell may read as

VARIABLES
  file,     \* the cells of the file after its header, as the kernel shows them
  buffer,   \* WAL.buffer
  synced,   \* how many cells the last file sync covered
  up,       \* whether an owner has the log open
  issued,   \* the last revision allocated, in this or an earlier process
  written,  \* history: the commits in file and buffer, in order
  damage    \* history: the cell that was damaged, 0 for none

walScanVars == <<file, buffer, synced, up, issued, written, damage>>

Magic == <<77>>
Version == <<1>>
HeaderCells == 6                   \* magic, version, total, revision, count, payload
FixedCells == HeaderCells + 1      \* and the checksum

Covered(cells) == FlattenSeq(cells)

\* EncodeCommitFrame.
Encode(commit) ==
  LET payload == [i \in DOMAIN commit.keys |-> <<commit.keys[i]>>]
      body == <<Magic, Version, <<FixedCells + Len(payload)>>, <<commit.rev>>,
                <<Len(commit.keys)>>, <<Len(payload)>>>> \o payload
  IN Append(body, Covered(body))

EncodeAll(commits) == FlattenSeq([i \in DOMAIN commits |-> Encode(commits[i])])

WALScanInit ==
  /\ file = <<>> /\ buffer = <<>> /\ synced = 0 /\ up = TRUE
  /\ issued = 0 /\ written = <<>> /\ damage = 0

-----------------------------------------------------------------------------
(* Reading.                                                                *)

Number(cell) == Head(cell)

\* Mutant: the two lengths of a header are not compared.
PrefixWithoutLengths(p) ==
  /\ Len(p) >= 1 => p[1] = Magic
  /\ Len(p) >= 2 => p[2] = Version
  /\ Len(p) >= 3 => Number(p[3]) \in FixedCells..MaxFrame
  /\ Len(p) >= 5 => Number(p[4]) # 0 /\ Number(p[5]) \in 1..MaxBatchOperations

\* validateFramePrefix: the fields that are there, of a header that may be cut.
ValidPrefix(p) ==
  /\ Len(p) >= 1 => p[1] = Magic
  /\ Len(p) >= 2 => p[2] = Version
  /\ Len(p) >= 3 => Number(p[3]) \in FixedCells..MaxFrame
  /\ Len(p) >= 5 => Number(p[4]) # 0 /\ Number(p[5]) \in 1..MaxBatchOperations
  /\ Len(p) >= 6 => Number(p[3]) = FixedCells + Number(p[6]) /\ Number(p[5]) =< Number(p[6])

\* DecodeCommitFrame and validateCommit: lengths, checksum, effects, distinct keys.
Decodes(frame) ==
  LET payload == SubSeq(frame, HeaderCells + 1, Len(frame) - 1)
  IN /\ ValidPrefix(SubSeq(frame, 1, HeaderCells))
     /\ Number(frame[3]) = Len(frame)
     /\ Last(frame) = Covered(Front(frame))
     /\ Number(frame[5]) = Len(payload)
     /\ \A i \in DOMAIN payload : Len(payload[i]) = 1
     /\ IsInjective(payload)

Decoded(frame) ==
  [rev |-> Number(frame[4]),
   keys |-> [i \in 1..(Len(frame) - FixedCells) |-> Number(frame[HeaderCells + i])]]

Corrupt == [ok |-> FALSE, commits |-> <<>>, tail |-> FALSE, size |-> 0]

RECURSIVE ScanFrom(_, _, _)

\* ScanWAL from a frame boundary, with the commits and the revision so far.
ScanFrom(cells, commits, recovered) ==
  LET at    == Len(EncodeAll(commits))
      rest  == SubSeq(cells, at + 1, Len(cells))
      whole == [ok |-> TRUE, commits |-> commits, tail |-> FALSE, size |-> at]
      torn  == [whole EXCEPT !.tail = TRUE]
  IN IF rest = <<>> THEN whole
     ELSE IF Len(rest) < HeaderCells THEN IF ValidPrefix(rest) THEN torn ELSE Corrupt
     ELSE IF ~ValidPrefix(SubSeq(rest, 1, HeaderCells)) THEN Corrupt
     ELSE IF Len(rest) < Number(rest[3]) THEN torn
     ELSE LET frame == SubSeq(rest, 1, Number(rest[3]))
          IN IF /\ Decodes(frame)
                /\ Decoded(frame).rev > recovered /\ Decoded(frame).rev =< Reserved
             THEN ScanFrom(cells, Append(commits, Decoded(frame)), Decoded(frame).rev)
             ELSE Corrupt

ScanWAL(cells) == ScanFrom(cells, <<>>, 0)

-----------------------------------------------------------------------------
(* Writing.                                                                *)

LastWritten == IF written = <<>> THEN 0 ELSE Last(written).rev

\* WAL.Append of the next revision; the buffer takes the frame.
AppendCommit(keys) ==
  LET commit == [rev |-> issued + 1, keys |-> keys]
  IN /\ up /\ issued < Reserved
     /\ commit.rev > LastWritten
     /\ Len(Encode(commit)) =< MaxFrame /\ Len(keys) =< MaxBatchOperations
     /\ buffer' = buffer \o Encode(commit)
     /\ written' = Append(written, commit)
     /\ issued' = commit.rev
     /\ UNCHANGED <<file, synced, up, damage>>

\* The buffer overflows, or a flush fails, part of the way.
Spill(n) ==
  /\ up /\ n \in 1..Len(buffer)
  /\ file' = file \o SubSeq(buffer, 1, n)
  /\ buffer' = SubSeq(buffer, n + 1, Len(buffer))
  /\ UNCHANGED <<synced, up, issued, written, damage>>

\* WAL.Barrier.
Barrier ==
  /\ up
  /\ file' = file \o buffer /\ buffer' = <<>>
  /\ synced' = Len(file')
  /\ UNCHANGED <<up, issued, written, damage>>

\* The process dies, or the machine: the file keeps at least what was synced.
Crash(n) ==
  /\ n \in synced..Len(file)
  /\ file' = SubSeq(file, 1, n) /\ buffer' = <<>>
  /\ up' = FALSE
  /\ UNCHANGED <<synced, issued, written, damage>>

\* One cell of the file reads differently than it was written.
DamageCell(i, v) ==
  /\ ~up /\ damage = 0
  /\ i \in DOMAIN file /\ file[i] # <<v>>
  /\ file' = [file EXCEPT ![i] = <<v>>]
  /\ damage' = i
  /\ UNCHANGED <<buffer, synced, up, issued, written>>

\* Mutant: the file is opened at its end, torn tail and all.
RecoverKeepingTail ==
  LET scan == ScanWAL(file)
  IN /\ ~up /\ scan.ok
     /\ synced' = IF scan.tail THEN Len(file) ELSE synced
     /\ written' = scan.commits
     /\ up' = TRUE
     /\ UNCHANGED <<file, buffer, issued, damage>>

\* RecoverDatabase's scan, applyWALTail's cut and sync, and OpenWALForAppend.
Recover ==
  LET scan == ScanWAL(file)
  IN /\ ~up /\ scan.ok
     /\ file' = SubSeq(file, 1, scan.size)
     /\ synced' = IF scan.tail THEN scan.size ELSE synced
     /\ written' = scan.commits
     /\ up' = TRUE
     /\ UNCHANGED <<buffer, issued, damage>>

WALScanNext ==
  \/ \E keys \in Contents : AppendCommit(keys)
  \/ \E n \in 1..(2 * MaxFrame) : Spill(n)
  \/ Barrier
  \/ \E n \in 0..(Reserved * MaxFrame) : Crash(n)
  \/ \E i \in 1..(Reserved * MaxFrame), v \in DamageValues : DamageCell(i, v)
  \/ Recover

WALScanSpec == WALScanInit /\ [][WALScanNext]_walScanVars

-----------------------------------------------------------------------------

\* The commits whose frames lie whole in the first n cells of the log.
WholeWithin(n) ==
  LET count == CHOOSE c \in 0..Len(written) :
                 /\ Len(EncodeAll(SubSeq(written, 1, c))) =< n
                 /\ c < Len(written) => Len(EncodeAll(SubSeq(written, 1, c + 1))) > n
  IN SubSeq(written, 1, count)

\* Wherever a crash cuts an undamaged log, also one already cut and extended
\* before, the scan takes exactly the frames that are whole: it neither refuses
\* the file nor takes part of a batch (ScanWAL, validateFramePrefix, applyWALTail).
CrashedLogScans ==
  ~up /\ damage = 0 =>
    LET scan == ScanWAL(file) IN scan.ok /\ scan.commits = WholeWithin(Len(file))

\* A damaged field never makes the scan drop, alter or invent a whole frame: the
\* file is refused, unless the damage is in the torn tail that is cut anyway
\* (validateFramePrefix's two lengths, DecodeCommitFrame's checksum).
DamageIsNotSilent ==
  ~up /\ damage # 0 =>
    LET scan == ScanWAL(file) IN scan.ok => scan.commits = WholeWithin(Len(file))
=============================================================================
