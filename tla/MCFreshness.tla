---------------------------- MODULE MCFreshness ----------------------------
(* A small instance of Freshness: a history with a fork.                   *)
EXTENDS Freshness, TLC

CONSTANTS p1, c1, c2, c3

(* c1 is the parent of c2 and of c3.                                       *)
MCPast == [c \in Commits |-> {c1, c}]

Symmetry == Permutations({c2, c3})
=============================================================================
