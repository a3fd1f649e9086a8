----------------------------- MODULE AtomicSync -----------------------------
(***************************************************************************)
(* What `agent-core sync` promises of the runtime files and the receipt    *)
(* taken together.  A transaction opens with a goal; it closes with every  *)
(* path as it was or every path as the goal has it, or it stays open for   *)
(* the user to look at.  Paths that others have changed are theirs.        *)
(***************************************************************************)
CONSTANTS Paths, NoGoal

VARIABLES tree,     \* the value of each path, as of the last closing
          open,     \* whether a transaction is open
          goal,     \* what the open transaction is to reach
          touched   \* the paths others have changed

aVars == <<tree, open, goal, touched>>

Agree(t, u) == \A x \in Paths \ touched : t[x] = u[x]

AInit == ~open /\ goal = NoGoal /\ touched = {}

Open == /\ ~open /\ open'
        /\ goal' # NoGoal
        /\ Agree(tree', tree)
        /\ UNCHANGED touched

Close == /\ open /\ ~open'
         /\ Agree(tree', tree) \/ Agree(tree', goal)
         /\ goal' = NoGoal
         /\ UNCHANGED touched

(* Somebody else changes a path; while a transaction is open, tree does    *)
(* not show it.                                                            *)
Touch == /\ \E x \in Paths :
              /\ touched' = touched \cup {x}
              /\ \A y \in Paths \ {x} : tree'[y] = tree[y]
         /\ UNCHANGED <<open, goal>>

(* The user gives up on an open transaction and takes over all paths.      *)
Abandon == /\ open /\ ~open'
           /\ touched' = Paths
           /\ goal' = NoGoal

ANext == Open \/ Close \/ Touch \/ Abandon

ASpec == AInit /\ [][ANext]_aVars
=============================================================================
