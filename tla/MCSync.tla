------------------------------- MODULE MCSync -------------------------------
(* Small instances of Sync: two runtime files.                             *)
EXTENDS Sync, TLC

CONSTANTS p1, p2

Plain(d) == [data |-> d, exec |-> FALSE]
Script(d) == [data |-> d, exec |-> TRUE]

(* Commits that change a file, its mode, both, drop one and bring it back. *)
Tree1 == [f \in Files |-> Plain("A")]
Tree2 == [f \in Files |-> IF f = 1 THEN Plain("B") ELSE Absent]
Tree3 == [f \in Files |-> IF f = 1 THEN Script("B") ELSE Plain("B")]

MCTrees    == {Tree1, Tree2, Tree3}
MCTwoTrees == {Tree1, Tree3}

NoLegacy    == [f \in Files |-> NoData]
AllLegacy   == [f \in Files |-> "A"]

MCNoLegacy == {NoLegacy}
MCLegacies == {NoLegacy, AllLegacy, Damaged}

(* A foreign file, and the content of a commit put there by hand.          *)
MCForeign   == {Plain("u")}
MCHandFiles == {Plain("u"), Plain("A")}

Symmetry == Permutations(Procs)
=============================================================================
