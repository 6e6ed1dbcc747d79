------------------------------ MODULE MCStorage ------------------------------
(* A small database: two keys, a batch that puts both and one that deletes   *)
(* the first.                                                                 *)
EXTENDS Storage

CONSTANTS k1, k2

MCKeys == {k1, k2}
MCBatches == {[k \in MCKeys |-> "put"], [k \in MCKeys |-> IF k = k1 THEN "delete" ELSE "none"]}
=============================================================================
