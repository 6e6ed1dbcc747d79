--------------------------- MODULE RevisionsProofs ---------------------------
(***************************************************************************)
(* Revision allocation is safe for every range size and every largest      *)
(* revision: RevisionsIncrease and IssuedWithinReservation are invariants. *)
(***************************************************************************)
EXTENDS Revisions, TLAPS

\* Every issued revision is at most the bound b.
IssuedUpTo(b) == \A i \in DOMAIN issued : issued[i] =< b

(***************************************************************************)
(* The inductive invariant.  IssuedWithinReservation alone does not survive*)
(* a boot or a reservation: while IDENTITY is renamed but not synced, the  *)
(* range that is about to be used starts after "held", and everything      *)
(* issued so far must lie at or below it.  While the process serves, the   *)
(* four copies of the reserved end agree and "next" is beyond everything   *)
(* issued.                                                                 *)
(***************************************************************************)
RevInv ==
  /\ RevTypeOK
  /\ RevisionsIncrease
  /\ diskEnd =< osEnd
  /\ IssuedUpTo(diskEnd)
  /\ owner \in {"booting", "reserving"} =>
       osEnd = held + RangeSize /\ IssuedUpTo(held)
  /\ owner = "serving" =>
       /\ osEnd = diskEnd /\ held = diskEnd /\ end = diskEnd
       /\ ~exhausted => next >= 1 /\ IssuedUpTo(next - 1)

USE RevisionAssumption DEF RevisionAssumption

\* A reservation that fits does not wrap around.
LEMMA NoWrap ==
  ASSUME NEW e \in 0..MaxRevision, RangeFits(e)
  PROVE  ReservedAfter(e) = e + RangeSize
BY DEF RangeFits, ReservedAfter

\* What is issued is a revision.
LEMMA IssuedType ==
  ASSUME RevTypeOK
  PROVE  \A i \in DOMAIN issued : issued[i] \in 1..MaxRevision
BY DEF RevTypeOK

\* Appending a revision above everything issued keeps the sequence increasing.
LEMMA IssueIncreases ==
  ASSUME RevTypeOK, RevisionsIncrease,
         NEW r \in 1..MaxRevision, IssuedUpTo(r - 1),
         issued' = Append(issued, r)
  PROVE  /\ issued' \in Seq(1..MaxRevision)
         /\ RevisionsIncrease'
         /\ \A i \in DOMAIN issued' : issued'[i] =< r
<1> USE DEF RevTypeOK
<1>1. issued' \in Seq(1..MaxRevision)
  OBVIOUS
<1>2. /\ Len(issued') = Len(issued) + 1
      /\ DOMAIN issued' = 1..(Len(issued) + 1)
      /\ DOMAIN issued = 1..Len(issued)
      /\ issued'[Len(issued) + 1] = r
      /\ \A i \in 1..Len(issued) : issued'[i] = issued[i]
  OBVIOUS
<1>3. \A i \in 1..Len(issued) : issued[i] \in 1..MaxRevision /\ issued[i] < r
  BY <1>2, IssuedType DEF IssuedUpTo
<1>4. RevisionsIncrease'
  BY <1>2, <1>3 DEF RevisionsIncrease
<1>5. \A i \in DOMAIN issued' : issued'[i] =< r
  BY <1>2, <1>3
<1> QED BY <1>1, <1>4, <1>5

LEMMA InitRevInv == RevInit => RevInv
<1> SUFFICES ASSUME RevInit PROVE RevInv
  OBVIOUS
<1>1. DOMAIN issued = {} /\ issued \in Seq(1..MaxRevision)
  BY DEF RevInit
<1>2. exhausted \in BOOLEAN
  BY Zenon DEF RevInit
<1> QED BY <1>1, <1>2 DEF RevInit, RevInv, RevTypeOK, OwnerStates, RevisionsIncrease, IssuedUpTo

LEMMA StepRevInv == RevInv /\ [RevNext]_revVars => RevInv'
<1> SUFFICES ASSUME RevInv, [RevNext]_revVars PROVE RevInv'
  OBVIOUS
<1> USE DEF RevInv, RevTypeOK, OwnerStates
<1>0. \A i \in DOMAIN issued : issued[i] \in 1..MaxRevision
  BY IssuedType
<1>1. CASE BootRename
  <2>1. osEnd' = osEnd + RangeSize
    BY <1>1, NoWrap DEF BootRename
  <2> QED BY <1>0, <1>1, <2>1 DEF BootRename, RangeFits, RevisionsIncrease, IssuedUpTo
<1>2. CASE BootSync
  <2>1. exhausted' \in BOOLEAN
    BY <1>2, Zenon DEF BootSync
  <2> QED BY <1>0, <1>2, <2>1 DEF BootSync, RevisionsIncrease, IssuedUpTo
<1>3. CASE BootSyncFails
  <2>1. exhausted' \in BOOLEAN
    BY <1>3, Zenon DEF BootSyncFails, ForgetProcess
  <2> QED BY <1>0, <1>3, <2>1 DEF BootSyncFails, ForgetProcess, RevisionsIncrease, IssuedUpTo
<1>4. CASE NextFromRange
  <2>1. next \in 1..MaxRevision /\ IssuedUpTo(next - 1) /\ issued' = Append(issued, next)
    BY <1>4 DEF NextFromRange, Issue
  <2>2. /\ issued' \in Seq(1..MaxRevision)
        /\ RevisionsIncrease'
        /\ \A i \in DOMAIN issued' : issued'[i] =< next
    BY <2>1, IssueIncreases
  <2>3a. exhausted' \in BOOLEAN
    BY <1>4, Zenon DEF NextFromRange, Issue
  <2>3. RevTypeOK'
    BY <1>4, <2>1, <2>2, <2>3a DEF NextFromRange, Issue
  <2>4. \A i \in DOMAIN issued' : issued'[i] \in 1..MaxRevision
    BY <2>2
  <2>5. IssuedUpTo(diskEnd)'
    BY <1>4, <2>1, <2>2, <2>4 DEF NextFromRange, IssuedUpTo
  <2>6a. ~exhausted' => next' = (next) + 1
    BY <1>4, Zenon DEF NextFromRange, Issue
  <2>6b. ASSUME next' = (next) + 1 PROVE next' >= 1 /\ IssuedUpTo(next - 1)'
    BY <2>1, <2>2, <2>4, <2>6b DEF IssuedUpTo
  <2>6. ~exhausted' => next' >= 1 /\ IssuedUpTo(next - 1)'
    BY <2>6a, <2>6b, Zenon
  <2> QED BY <1>4, <2>2, <2>3, <2>5, <2>6 DEF NextFromRange
<1>5. CASE NextReserveRename
  <2>1. osEnd' = held + RangeSize
    BY <1>5, NoWrap DEF NextReserveRename
  <2> QED BY <1>0, <1>5, <2>1 DEF NextReserveRename, RangeFits, RevisionsIncrease, IssuedUpTo
<1>6. CASE NextReserveSync
  <2>1. held + 1 \in 1..MaxRevision /\ IssuedUpTo((held + 1) - 1) /\ issued' = Append(issued, held + 1)
    BY <1>6 DEF NextReserveSync, Issue, IssuedUpTo
  <2>2. /\ issued' \in Seq(1..MaxRevision)
        /\ RevisionsIncrease'
        /\ \A i \in DOMAIN issued' : issued'[i] =< held + 1
    BY <2>1, IssueIncreases
  <2>3a. exhausted' \in BOOLEAN
    BY <1>6, Zenon DEF NextReserveSync, Issue
  <2>3. RevTypeOK'
    BY <1>6, <2>1, <2>2, <2>3a DEF NextReserveSync, Issue
  <2>4. \A i \in DOMAIN issued' : issued'[i] \in 1..MaxRevision
    BY <2>2
  <2>5. IssuedUpTo(diskEnd)'
    BY <1>6, <2>1, <2>2, <2>4 DEF NextReserveSync, IssuedUpTo
  <2>6a. ~exhausted' => next' = (held + 1) + 1
    BY <1>6, Zenon DEF NextReserveSync, Issue
  <2>6b. ASSUME next' = (held + 1) + 1 PROVE next' >= 1 /\ IssuedUpTo(next - 1)'
    BY <2>1, <2>2, <2>4, <2>6b DEF IssuedUpTo
  <2>6. ~exhausted' => next' >= 1 /\ IssuedUpTo(next - 1)'
    BY <2>6a, <2>6b, Zenon
  <2> QED BY <1>6, <2>2, <2>3, <2>5, <2>6 DEF NextReserveSync
<1>7. CASE NextFails
  BY <1>0, <1>7 DEF NextFails, RevisionsIncrease, IssuedUpTo
<1>8. CASE DirectorySync
  BY <1>0, <1>8 DEF DirectorySync, RevisionsIncrease, IssuedUpTo
<1>9. CASE ProcessStop
  <2>1. exhausted' \in BOOLEAN
    BY <1>9, Zenon DEF ProcessStop, ForgetProcess
  <2> QED BY <1>0, <1>9, <2>1 DEF ProcessStop, ForgetProcess, RevisionsIncrease, IssuedUpTo
<1>10. CASE PowerLoss
  <2>1. exhausted' \in BOOLEAN
    BY <1>10, Zenon DEF PowerLoss, ForgetProcess
  <2> QED BY <1>0, <1>10, <2>1 DEF PowerLoss, ForgetProcess, RevisionsIncrease, IssuedUpTo
<1>11. CASE UNCHANGED revVars
  BY <1>11 DEF revVars, RevisionsIncrease, IssuedUpTo
<1> QED BY <1>1, <1>2, <1>3, <1>4, <1>5, <1>6, <1>7, <1>8, <1>9, <1>10, <1>11 DEF RevNext

\* The inductive invariant holds in every reachable state.
THEOREM RevisionsInductive == RevSpec => []RevInv
BY InitRevInv, StepRevInv, PTL DEF RevSpec

\* No revision is given to two commits of one database directory, through any
\* number of reservations, failed syncs, restarts and power losses.
THEOREM RevisionsNeverReused == RevSpec => []RevisionsIncrease
<1>1. RevInv => RevisionsIncrease
  BY DEF RevInv
<1> QED BY <1>1, RevisionsInductive, PTL

\* Nothing is handed out above the reserved end that a power loss would leave.
THEOREM IssuedIsReserved == RevSpec => []IssuedWithinReservation
<1>1. RevInv => IssuedWithinReservation
  BY DEF RevInv, IssuedUpTo, IssuedWithinReservation
<1> QED BY <1>1, RevisionsInductive, PTL
=============================================================================
