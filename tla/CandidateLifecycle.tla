------------------------- MODULE CandidateLifecycle -------------------------
(***************************************************************************)
(* What the review queue promises about one lesson candidate, with no      *)
(* files, locks, plans or Git index in sight.  docs/DESIGN.md: a captured  *)
(* candidate waits in inbox/, is moved to consumed/ when it is promoted    *)
(* and to rejected/ when it is rejected.  A candidate is promoted only     *)
(* after a ledger holds a lesson made from it; both ends are final.        *)
(***************************************************************************)
CONSTANT Candidates

VARIABLES status,  \* where the candidate is in its life
          noted    \* the candidates some ledger has held a lesson from

lcVars == <<status, noted>>

Statuses == {"uncaptured", "queued", "promoted", "rejected"}

LCInit == /\ status = [c \in Candidates |-> "uncaptured"]
          /\ noted = {}

LCCapture(c) == /\ status[c] = "uncaptured"
                /\ status' = [status EXCEPT ![c] = "queued"]
                /\ UNCHANGED noted

(* The ledger is written first: an interrupted promotion stays queued.     *)
LCNote(c) == /\ status[c] = "queued"
             /\ noted' = noted \cup {c}
             /\ UNCHANGED status

LCPromote(c) == /\ status[c] = "queued"
                /\ c \in noted
                /\ status' = [status EXCEPT ![c] = "promoted"]
                /\ UNCHANGED noted

LCReject(c) == /\ status[c] = "queued"
               /\ status' = [status EXCEPT ![c] = "rejected"]
               /\ UNCHANGED noted

LCNext == \E c \in Candidates :
             LCCapture(c) \/ LCNote(c) \/ LCPromote(c) \/ LCReject(c)

LCSpec == LCInit /\ [][LCNext]_lcVars
=============================================================================
