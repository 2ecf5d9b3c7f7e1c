----------------------------- MODULE MCEncounter -----------------------------
(* Small instances of Encounter for TLC: two nodes that can be Central of   *)
(* one another at once, or three.                                           *)
EXTENDS Encounter, TLC

CONSTANTS n1, n2, n3

MCPair == {n1, n2}
MCTrio == {n1, n2, n3}

Pairs == Permutations(MCPair)
==============================================================================
