------------------------------ MODULE MCGossip ------------------------------
(***************************************************************************)
(* A small network for TLC: n2 dials n1, n3 dials n2, and x, of another    *)
(* network, dials n1.                                                      *)
(***************************************************************************)
EXTENDS Gossip, TLC

CONSTANTS n1, n2, n3, x

Dial(a, b) == [dialer |-> a, target |-> b]
Line     == {Dial(n2, n1), Dial(n3, n2), Dial(x, n1)}
Networks == [n \in {n1, n2, n3, x} |-> IF n = x THEN "other" ELSE "main"]

=============================================================================
