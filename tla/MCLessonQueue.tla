--------------------------- MODULE MCLessonQueue ---------------------------
(* Small instances of LessonQueue.                                          *)
EXTENDS LessonQueue, TLC

CONSTANTS p1, p2, c1, c2, g1, j1

Rule(t, n) == [text |-> t, dots |-> n]

SeedLine(i) == [id |-> i, rule |-> Rule("seed", 1), from |-> Seed,
                sup |-> NoId, by |-> NoId, active |-> TRUE]

MCTexts == {"t", "seed"}

(* One spelling, or the same rule with and without its full stop.           *)
MCOneRule  == {Rule("t", 0)}
MCTwoRules == {Rule("t", 0), Rule("t", 1)}

(* Ledgers start with a lesson each, or only the project's does.            *)
MCSeedLedger == [s \in Stores |-> {SeedLine(1)}]
MCOneSeed    == [s \in Stores |-> IF s = j1 THEN {SeedLine(1)} ELSE {}]

Symmetry == Permutations(Procs) \cup Permutations(Candidates)
=============================================================================
