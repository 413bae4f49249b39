------------------------------ MODULE MCSwarm -------------------------------
(* Two contents of two pieces that differ in the second. *)
EXTENDS Swarm

CONSTANTS k1, k2, x, y, z

TwoContents == {k1, k2}
TwoPieces == [k \in TwoContents |-> [i \in 1..2 |-> IF i = 1 THEN x
                                                   ELSE IF k = k1 THEN y ELSE z]]
=============================================================================
