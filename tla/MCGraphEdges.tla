---------------------------- MODULE MCGraphEdges ----------------------------
(* Small instances of GraphEdges for TLC. *)
EXTENDS GraphEdges

CONSTANTS a, b, c

OnePair == {<<a, b>>}
TwoPairs == {<<a, b>>, <<a, c>>}
=============================================================================
