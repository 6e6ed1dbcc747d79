---------------------------- MODULE MCConnections ----------------------------
(***************************************************************************)
(* Two calls of a reusing client and one plain call, all with one request  *)
(* ID; for the owner's shutdown, one call of each kind.                    *)
(***************************************************************************)
EXTENDS Connections, TLC

CONSTANTS c1, c2, p1

MCCalls == {c1, c2, p1}
MCReusing == {c1, c2}
MCRequestID == [c \in MCCalls |-> 1]
MCPair == {c1, p1}
MCPairReusing == {c1}
MCSymmetry == Permutations(MCReusing)
=============================================================================
