------------------------------- MODULE MCWatch -------------------------------
(* One client that watches the prefix of keys a and b; commits of one and two *)
(* matching events, and one outside the prefix.                               *)
EXTENDS Watch

CONSTANTS w1, a, b, c

MCMatches == [w \in Watchers |-> {a, b}]
MCGroups == {<<a>>, <<a, b>>, <<c>>}
=============================================================================
