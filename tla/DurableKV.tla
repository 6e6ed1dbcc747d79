------------------------------ MODULE DurableKV ------------------------------
(***************************************************************************)
(* What one database promises its clients, with no log, snapshot or file   *)
(* in sight: commits take effect one at a time, in revision order, each    *)
(* batch whole; a stop may lose commits, but only the newest ones and none *)
(* that was promised; a revision, lost or not, is never given again.       *)
(***************************************************************************)
EXTENDS Naturals, Sequences

CONSTANTS Keys, Batches

VARIABLES
  accepted,  \* the commits that may still be served, oldest first
  shown,     \* how many of them clients can see
  store,     \* the revision of each key, 0 when absent
  kept,      \* how many of them no stop may lose
  top,       \* the largest revision ever given to a commit
  serving    \* whether the database answers

kvVars == <<accepted, shown, store, kept, top, serving>>

Empty == [k \in Keys |-> 0]

\* One batch, whole.
Effect(map, commit) ==
  [k \in Keys |-> IF commit.batch[k] = "put" THEN commit.rev
                  ELSE IF commit.batch[k] = "delete" THEN 0 ELSE map[k]]

\* The store after the first n commits of a sequence.
StoreAfter(seq, n) ==
  LET after[i \in 0..n] == IF i = 0 THEN Empty ELSE Effect(after[i - 1], seq[i])
  IN after[n]

KVInit ==
  /\ accepted = <<>> /\ shown = 0 /\ store = Empty
  /\ kept = 0 /\ top = 0 /\ serving = TRUE

\* A commit gets its revision; it waits for the one before it to be shown.
Accept ==
  /\ serving
  /\ Len(accepted) = shown
  /\ \E commit \in [rev : {top' }, batch : Batches] :
       /\ commit.rev > top
       /\ accepted' = Append(accepted, commit)
  /\ UNCHANGED <<shown, store, kept, serving>>

\* The commit becomes visible, promised or not.
Show ==
  /\ serving
  /\ shown < Len(accepted)
  /\ shown' = shown + 1
  /\ store' = Effect(store, accepted[shown'])
  /\ kept' \in {kept, shown'}
  /\ UNCHANGED <<accepted, top, serving>>

\* Everything visible is made durable, by a snapshot or a backup.
Keep ==
  /\ serving
  /\ kept' = shown
  /\ UNCHANGED <<accepted, shown, store, top, serving>>

\* The database stops, in order (everything visible is kept) or not.
Stop ==
  /\ serving' = FALSE
  /\ shown' = 0 /\ store' = Empty
  /\ kept' \in {kept, shown}
  /\ kept' >= kept
  /\ UNCHANGED <<accepted, top>>

\* It serves again, from a prefix of the commits that holds the promised ones.
Start ==
  /\ ~serving
  /\ serving' = TRUE
  /\ \E n \in kept..Len(accepted) :
       /\ accepted' = SubSeq(accepted, 1, n)
       /\ shown' = n
       /\ store' = StoreAfter(accepted, n)
  /\ UNCHANGED <<kept, top>>

KVNext == Accept \/ Show \/ Keep \/ Stop \/ Start

KVSpec == KVInit /\ [][KVNext]_kvVars
=============================================================================
