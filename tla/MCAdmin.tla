------------------------------- MODULE MCAdmin -------------------------------
(* Requests are alike until they have chosen their operation. *)
EXTENDS Admin

MCSymmetry == Permutations(Requests)
=============================================================================
