--------------------- MODULE LifecycleRefinement_proofs ---------------------
(***************************************************************************)
(* The review queue implements CandidateLifecycle: the initial states of   *)
(* LessonQueue are initial states of the life cycle, and every step, of    *)
(* whatever process, is a step of it or changes nothing in it.             *)
(***************************************************************************)
EXTENDS LessonQueue_proofs

-----------------------------------------------------------------------------
(* Which candidates are in the middle of a reject, now and next: at most   *)
(* the one of the process that holds the lock.                             *)
LEMMA RejectingInApply ==
  ASSUME LockOwner, NEW p \in Procs, pc[p] \in PromoteSteps \cup RejectSteps,
         NEW d \in Candidates
  PROVE  Rejecting(d) <=> pc[p] \in {"rstage", "relink"} /\ plan[p].cand = d
BY DEF LockOwner, Rejecting, RejectSteps

LEMMA RejectingInApplyNext ==
  ASSUME LockOwner', NEW p \in Procs, pc'[p] \in PromoteSteps \cup RejectSteps,
         NEW d \in Candidates
  PROVE  Rejecting(d)' <=> pc'[p] \in {"rstage", "relink"} /\ plan'[p].cand = d
BY DEF LockOwner, Rejecting, RejectSteps

LEMMA NoneRejecting ==
  ASSUME LockOwner, lock = NoProc, NEW d \in Candidates
  PROVE  ~Rejecting(d)
BY ConstantsOK DEF LockOwner, Rejecting, RejectSteps

LEMMA NoneRejectingNext ==
  ASSUME LockOwner', lock' = NoProc, NEW d \in Candidates
  PROVE  ~Rejecting(d)'
BY ConstantsOK DEF LockOwner, Rejecting, RejectSteps

-----------------------------------------------------------------------------
(* What a step of the queue is in the life cycle, by what it does to the   *)
(* status of the candidates.                                               *)
Keeps(d) == Status(d)' = Status(d)

Stutters == UNCHANGED Lifecycle!lcVars

LEMMA KeepingStutters ==
  ASSUME recorded' = recorded, \A d \in Candidates : Keeps(d)
  PROVE  Stutters
BY DEF Stutters, Keeps, Lifecycle!lcVars

LEMMA SameFilesKeep ==
  ASSUME loc' = loc, NEW d \in Candidates, Rejecting(d)' <=> Rejecting(d)
  PROVE  Keeps(d)
BY DEF Keeps, Status

(* Only candidate c moves, from the first status to the second.            *)
OnlyMoves(c, from, to) ==
  /\ recorded' = recorded
  /\ Status(c) = from /\ Status(c)' = to
  /\ \A d \in Candidates \ {c} : Keeps(d)

LEMMA MovesAsFunction ==
  ASSUME NEW c \in Candidates, NEW from, NEW to, OnlyMoves(c, from, to)
  PROVE  /\ [d \in Candidates |-> Status(d)'] =
              [[d \in Candidates |-> Status(d)] EXCEPT ![c] = to]
         /\ [d \in Candidates |-> Status(d)][c] = from
BY DEF OnlyMoves, Keeps

LEMMA CaptureMoves ==
  ASSUME NEW c \in Candidates, OnlyMoves(c, "uncaptured", "queued")
  PROVE  Lifecycle!LCNext
BY MovesAsFunction DEF OnlyMoves, Lifecycle!LCNext, Lifecycle!LCCapture

LEMMA PromoteMoves ==
  ASSUME NEW c \in Candidates, OnlyMoves(c, "queued", "promoted"),
         recorded[c] # {}
  PROVE  Lifecycle!LCNext
BY MovesAsFunction DEF OnlyMoves, Lifecycle!LCNext, Lifecycle!LCPromote

LEMMA RejectMoves ==
  ASSUME NEW c \in Candidates, OnlyMoves(c, "queued", "rejected")
  PROVE  Lifecycle!LCNext
BY MovesAsFunction DEF OnlyMoves, Lifecycle!LCNext, Lifecycle!LCReject

-----------------------------------------------------------------------------
LEMMA InitRefines == Init => Lifecycle!LCInit
<1> SUFFICES ASSUME Init PROVE Lifecycle!LCInit
  OBVIOUS
<1>1. \A c \in Candidates : Status(c) = "uncaptured"
  BY DEF Init, Status
<1>2. {c \in Candidates : recorded[c] # {}} = {}
  BY DEF Init
<1> QED
  BY <1>1, <1>2 DEF Lifecycle!LCInit

-----------------------------------------------------------------------------
(* The status of a candidate from the place of its file, now and next.     *)
LEMMA StatusAt ==
  ASSUME NEW c \in Candidates
  PROVE  /\ loc[c] = {} => Status(c) = "uncaptured"
         /\ loc[c] \in {{"inbox"}, {"inbox", "rejected"}} => Status(c) = "queued"
         /\ loc[c] = {"consumed"} => Status(c) = "promoted"
         /\ loc[c] = {"rejected"} =>
              Status(c) = IF Rejecting(c) THEN "queued" ELSE "rejected"
BY DEF Status

LEMMA StatusAtNext ==
  ASSUME NEW c \in Candidates
  PROVE  /\ loc'[c] = {} => Status(c)' = "uncaptured"
         /\ loc'[c] \in {{"inbox"}, {"inbox", "rejected"}} => Status(c)' = "queued"
         /\ loc'[c] = {"consumed"} => Status(c)' = "promoted"
         /\ loc'[c] = {"rejected"} =>
              Status(c)' = IF Rejecting(c)' THEN "queued" ELSE "rejected"
BY DEF Status

(* A step of a process that is not inside an apply, and does not enter the *)
(* part of a reject that counts, changes no status.                        *)
LEMMA OutsideApplyStutters ==
  ASSUME IInv, NEW p \in Procs, NEW l, NEW pl,
         pc[p] \notin PromoteSteps \cup RejectSteps, l \notin {"rstage", "relink"},
         pc' = [pc EXCEPT ![p] = l], plan' = [plan EXCEPT ![p] = pl],
         loc' = loc, recorded' = recorded
  PROVE  Stutters
<1>1. \A d \in Candidates : Rejecting(d)' <=> Rejecting(d)
  BY DEF Rejecting, RejectSteps, IInv, TypeOK
<1> QED
  BY <1>1, SameFilesKeep, KeepingStutters

LEMMA PreviewRefines ==
  ASSUME IInv, NEW p \in Procs, Preview(p)
  PROVE  Stutters
<1>1. PICK pl : plan' = [plan EXCEPT ![p] = pl]
  BY DEF Preview, PreviewPromote, PreviewReject
<1>2. /\ pc[p] = "idle" /\ pc' = [pc EXCEPT ![p] = "previewed"]
      /\ loc' = loc /\ recorded' = recorded
  BY DEF Preview, PreviewPromote, PreviewReject, Goto, files, history
<1> QED
  BY <1>1, <1>2, OutsideApplyStutters DEF PromoteSteps, RejectSteps

LEMMA StartApplyRefines ==
  ASSUME IInv, NEW p \in Procs, StartApply(p)
  PROVE  Stutters
<1>1. /\ pc[p] = "previewed" /\ loc' = loc /\ recorded' = recorded
      /\ plan' = [plan EXCEPT ![p] = plan[p]]
  BY DEF StartApply, files, history, IInv, TypeOK
<1>2. PICK l \in {"link", "write", "move", "stage"} : pc' = [pc EXCEPT ![p] = l]
  BY DEF StartApply, Goto
<1> QED
  BY <1>1, <1>2, OutsideApplyStutters DEF PromoteSteps, RejectSteps

LEMMA RefuseApplyRefines ==
  ASSUME IInv, NEW p \in Procs, RefuseApply(p)
  PROVE  Stutters
<1>1. /\ pc[p] = "previewed" /\ loc' = loc /\ recorded' = recorded
      /\ pc' = [pc EXCEPT ![p] = "idle"] /\ plan' = [plan EXCEPT ![p] = NoPlan]
  BY DEF RefuseApply, Goto, files, history
<1> QED
  BY <1>1, OutsideApplyStutters DEF PromoteSteps, RejectSteps

-----------------------------------------------------------------------------
(* Steps inside an apply: it goes on, or it ends and frees the lock.       *)
Goes(p) == /\ pc[p] \in PromoteSteps \cup RejectSteps
           /\ \/ Finish(p)
              \/ pc'[p] \in PromoteSteps \cup RejectSteps /\ plan' = plan

LEMMA RejectingAfter ==
  ASSUME IInv, IInv', NEW p \in Procs, Goes(p), NEW d \in Candidates
  PROVE  /\ Rejecting(d) <=> pc[p] \in {"rstage", "relink"} /\ plan[p].cand = d
         /\ Finish(p) => ~Rejecting(d)'
         /\ ~Finish(p) =>
              (Rejecting(d)' <=> pc'[p] \in {"rstage", "relink"} /\ plan[p].cand = d)
<1>1. Rejecting(d) <=> pc[p] \in {"rstage", "relink"} /\ plan[p].cand = d
  BY RejectingInApply DEF IInv, Goes
<1>2. ASSUME Finish(p) PROVE ~Rejecting(d)'
  BY <1>2, NoneRejectingNext DEF Finish, IInv
<1>3. ASSUME ~Finish(p)
      PROVE  Rejecting(d)' <=> pc'[p] \in {"rstage", "relink"} /\ plan[p].cand = d
  BY <1>3, RejectingInApplyNext DEF IInv, Goes
<1> QED
  BY <1>1, <1>2, <1>3

LEMMA OthersKeep ==
  ASSUME IInv, IInv', NEW p \in Procs, Goes(p),
         NEW c \in Candidates, plan[p].cand = c,
         NEW places, Relocate(c, places) \/ loc' = loc
  PROVE  \A d \in Candidates \ {c} : Keeps(d)
<1> SUFFICES ASSUME NEW d \in Candidates \ {c} PROVE Keeps(d)
  OBVIOUS
<1>1. loc'[d] = loc[d]
  BY DEF Relocate, IInv, TypeOK
<1>2. Rejecting(d)' <=> Rejecting(d)
  BY RejectingAfter
<1> QED
  BY <1>1, <1>2 DEF Keeps, Status

(* A step inside an apply that keeps the status of its own candidate.      *)
LEMMA OwnKeptStutters ==
  ASSUME IInv, IInv', NEW p \in Procs, Goes(p),
         NEW c \in Candidates, plan[p].cand = c,
         NEW places, Relocate(c, places) \/ loc' = loc,
         Keeps(c), recorded' = recorded
  PROVE  Stutters
<1>1. \A d \in Candidates : Keeps(d)
  BY OthersKeep
<1> QED
  BY <1>1, KeepingStutters

LEMMA WriteLedgerRefines ==
  ASSUME IInv, IInv', NEW p \in Procs, WriteLedger(p),
         NEW c \in Candidates, plan[p].cand = c
  PROVE  Lifecycle!LCNext
<1>1. /\ pc[p] = "write"
      /\ loc' = loc /\ plan' = plan /\ pc' = [pc EXCEPT ![p] = "move"]
      /\ recorded' = [recorded EXCEPT ![c] = @ \cup {plan[p].rule}]
  BY DEF WriteLedger, Goto, IInv, PlanTyped, PromoteSteps, PromotePlanType
<1>2. pc'[p] = "move"
  BY <1>1 DEF IInv, TypeOK
<1>3. Goes(p) /\ ~Finish(p)
  BY <1>1, <1>2 DEF Goes, Finish, Goto, PromoteSteps, IInv, TypeOK
<1>4. \A d \in Candidates : Rejecting(d)' <=> Rejecting(d)
  BY <1>1, <1>2, <1>3, RejectingAfter
<1>5. \A d \in Candidates : Status(d)' = Status(d)
  BY <1>1, <1>4, SameFilesKeep DEF Keeps
<1>6. Status(c) = "queued"
  BY <1>1, StatusAt DEF IInv, ApplyWhere
<1>7. {d \in Candidates : recorded'[d] # {}}
        = {d \in Candidates : recorded[d] # {}} \cup {c}
  BY <1>1 DEF IInv, TypeOK
<1>8. Lifecycle!LCNote(c)
  BY <1>1, <1>5, <1>6, <1>7 DEF Lifecycle!LCNote
<1> QED
  BY <1>1, <1>8 DEF Lifecycle!LCNext

LEMMA CompareCandidateRefines ==
  ASSUME IInv, IInv', NEW p \in Procs, CompareCandidate(p)
  PROVE  Stutters
<1>1. pc[p] = "move" /\ loc' = loc /\ recorded' = recorded
  BY DEF CompareCandidate, files
<1>2. Goes(p)
  <2>1. CASE Finish(p)
    BY <1>1, <2>1 DEF Goes, PromoteSteps
  <2>2. CASE Goto(p, "rename") /\ plan' = plan
    BY <1>1, <2>2 DEF Goes, Goto, PromoteSteps, IInv, TypeOK
  <2> QED
    BY <2>1, <2>2 DEF CompareCandidate
<1>3. \A d \in Candidates : Rejecting(d)' <=> Rejecting(d)
  <2>1. pc[p] \notin {"rstage", "relink"} /\ pc'[p] \notin {"rstage", "relink"}
    BY <1>1 DEF CompareCandidate, Goto, Finish, IInv, TypeOK
  <2> QED
    BY <1>1, <1>2, <2>1, RejectingAfter
<1> QED
  BY <1>1, <1>3, SameFilesKeep, KeepingStutters

LEMMA MoveCandidateRefines ==
  ASSUME IInv, IInv', NEW p \in Procs, MoveCandidate(p),
         NEW c \in Candidates, plan[p].cand = c
  PROVE  Lifecycle!LCNext
<1>1. /\ pc[p] = "rename" /\ recorded' = recorded
      /\ Relocate(c, (loc[c] \ {"inbox"}) \cup {"consumed"})
      /\ Goto(p, "stage") /\ plan' = plan
  BY DEF MoveCandidate, history
<1>2. pc'[p] = "stage"
  BY <1>1 DEF Goto, IInv, TypeOK
<1>3. Goes(p)
  BY <1>1, <1>2 DEF Goes, PromoteSteps
<1>4. loc[c] = {"inbox"}
  BY <1>1 DEF IInv, ApplyWhere
<1>5. loc'[c] = {"consumed"}
  BY <1>1, <1>4 DEF Relocate, IInv, TypeOK
<1>6. Status(c) = "queued" /\ Status(c)' = "promoted"
  BY <1>1, <1>4, <1>5, StatusAt, StatusAtNext
<1>7. \A d \in Candidates \ {c} : Keeps(d)
  BY <1>1, <1>3, OthersKeep
<1>8. recorded[c] # {}
  BY <1>1 DEF IInv, MoveRecorded
<1> QED
  BY <1>1, <1>6, <1>7, <1>8, PromoteMoves DEF OnlyMoves

LEMMA StagePromoteRefines ==
  ASSUME IInv, IInv', NEW p \in Procs, StagePromote(p)
  PROVE  Stutters
<1>1. /\ pc[p] = "stage" /\ Finish(p)
      /\ loc' = loc /\ recorded' = recorded
  BY DEF StagePromote, files, history
<1>2. Goes(p)
  BY <1>1 DEF Goes, PromoteSteps
<1>3. \A d \in Candidates : Rejecting(d)' <=> Rejecting(d)
  BY <1>1, <1>2, RejectingAfter
<1> QED
  BY <1>1, <1>3, SameFilesKeep, KeepingStutters

LEMMA LinkRejectedRefines ==
  ASSUME IInv, IInv', NEW p \in Procs, LinkRejected(p),
         NEW c \in Candidates, plan[p].cand = c
  PROVE  Stutters
<1>1. /\ pc[p] = "link" /\ plan' = plan /\ recorded' = recorded
      /\ Relocate(c, loc[c] \cup {"rejected"}) /\ Goto(p, "unlink")
  BY DEF LinkRejected, history, IInv, PlanTyped, RejectSteps, RejectPlanType
<1>2. Goes(p)
  BY <1>1 DEF Goes, Goto, RejectSteps, IInv, TypeOK
<1>3. loc[c] = {"inbox"}
  BY <1>1 DEF IInv, ApplyWhere
<1>4. loc'[c] = {"inbox", "rejected"}
  BY <1>1, <1>3 DEF Relocate, IInv, TypeOK
<1>5. Keeps(c)
  BY <1>1, <1>3, <1>4, StatusAt, StatusAtNext DEF Keeps
<1> QED
  BY <1>1, <1>2, <1>5, OwnKeptStutters

(* The unlink is where a reject begins to count, unless an edit of the     *)
(* file makes the apply stop there with the file already in rejected/.     *)
LEMMA UnlinkInboxRefines ==
  ASSUME IInv, IInv', NEW p \in Procs, UnlinkInbox(p),
         NEW c \in Candidates, plan[p].cand = c
  PROVE  Lifecycle!LCNext \/ Stutters
<1>1. pc[p] = "unlink" /\ recorded' = recorded
  BY DEF UnlinkInbox, history, IInv, PlanTyped, RejectSteps, RejectPlanType
<1>2. loc[c] = {"inbox", "rejected"} /\ Status(c) = "queued"
  BY <1>1, StatusAt DEF IInv, ApplyWhere
<1>3. CASE Relocate(c, loc[c] \ {"inbox"}) /\ Goto(p, "rstage") /\ plan' = plan
  <2>1. pc'[p] = "rstage" /\ loc'[c] = {"rejected"}
    BY <1>1, <1>2, <1>3 DEF Goto, Relocate, IInv, TypeOK
  <2>2. Goes(p) /\ ~Finish(p)
    BY <1>1, <1>3, <2>1 DEF Goes, Finish, Goto, RejectSteps, IInv, TypeOK
  <2>3. Rejecting(c)'
    BY <1>1, <2>1, <2>2, RejectingAfter
  <2>4. Keeps(c)
    BY <1>1, <1>2, <2>1, <2>3, StatusAtNext DEF Keeps
  <2> QED
    BY <1>1, <1>3, <2>2, <2>4, OwnKeptStutters
<1>4. CASE Finish(p) /\ loc' = loc
  <2>1. Goes(p)
    BY <1>1, <1>4 DEF Goes, RejectSteps
  <2>2. Keeps(c)
    BY <1>1, <1>2, <1>4, StatusAtNext DEF Keeps
  <2> QED
    BY <1>1, <1>4, <2>1, <2>2, OwnKeptStutters
<1>5. CASE Finish(p) /\ Relocate(c, loc[c] \ {"inbox"})
  <2>1. Goes(p)
    BY <1>1, <1>5 DEF Goes, RejectSteps
  <2>2. loc'[c] = {"rejected"}
    BY <1>1, <1>2, <1>5 DEF Relocate, IInv, TypeOK
  <2>3. Status(c)' = "rejected"
    BY <1>1, <1>5, <2>1, <2>2, RejectingAfter, StatusAtNext
  <2>4. \A d \in Candidates \ {c} : Keeps(d)
    BY <1>5, <2>1, OthersKeep
  <2> QED
    BY <1>1, <1>2, <2>3, <2>4, RejectMoves DEF OnlyMoves
<1> QED
  BY <1>3, <1>4, <1>5 DEF UnlinkInbox, Relocate

(* The end of an apply that leaves the files alone, past the point where a *)
(* reject could be taken back, makes the reject final.                     *)
LEMMA EndOfRejectRefines ==
  ASSUME IInv, IInv', NEW p \in Procs, pc[p] \in PromoteSteps \cup RejectSteps,
         Finish(p), loc' = loc, recorded' = recorded,
         NEW c \in Candidates, plan[p].cand = c
  PROVE  Lifecycle!LCNext \/ Stutters
<1>1. Goes(p)
  BY DEF Goes
<1>2. CASE pc[p] \in {"rstage", "relink"}
  <2>1. loc[c] = {"rejected"} /\ loc'[c] = {"rejected"}
    BY <1>2 DEF IInv, ApplyWhere
  <2>2. Rejecting(c) /\ ~Rejecting(c)'
    BY <1>1, <1>2, RejectingAfter
  <2>3. Status(c) = "queued" /\ Status(c)' = "rejected"
    BY <2>1, <2>2, StatusAt, StatusAtNext
  <2>4. \A d \in Candidates \ {c} : Keeps(d)
    BY <1>1, OthersKeep
  <2> QED
    BY <2>3, <2>4, RejectMoves DEF OnlyMoves
<1>3. CASE pc[p] \notin {"rstage", "relink"}
  <2>1. \A d \in Candidates : Rejecting(d)' <=> Rejecting(d)
    BY <1>1, <1>3, RejectingAfter
  <2> QED
    BY <2>1, SameFilesKeep, KeepingStutters
<1> QED
  BY <1>2, <1>3

LEMMA StageRejectRefines ==
  ASSUME IInv, IInv', NEW p \in Procs, StageReject(p),
         NEW c \in Candidates, plan[p].cand = c
  PROVE  Lifecycle!LCNext \/ Stutters
BY EndOfRejectRefines DEF StageReject, RejectSteps, files, history

LEMMA InterruptRefines ==
  ASSUME IInv, IInv', NEW p \in Procs, Interrupt(p),
         NEW c \in Candidates, plan[p].cand = c
  PROVE  Lifecycle!LCNext \/ Stutters
BY EndOfRejectRefines DEF Interrupt, files, history, IInv, TypeOK

LEMMA StageRejectFailsRefines ==
  ASSUME IInv, IInv', NEW p \in Procs, StageRejectFails(p)
  PROVE  Stutters
<1>1. /\ pc[p] = "rstage" /\ Goto(p, "relink") /\ plan' = plan
      /\ loc' = loc /\ recorded' = recorded
  BY DEF StageRejectFails, files, history
<1>2. pc'[p] = "relink"
  BY <1>1 DEF Goto, IInv, TypeOK
<1>3. Goes(p) /\ ~Finish(p)
  BY <1>1, <1>2 DEF Goes, Finish, Goto, RejectSteps, IInv, TypeOK
<1>4. \A d \in Candidates : Rejecting(d)' <=> Rejecting(d)
  BY <1>1, <1>2, <1>3, RejectingAfter
<1> QED
  BY <1>1, <1>4, SameFilesKeep, KeepingStutters

LEMMA RelinkInboxRefines ==
  ASSUME IInv, IInv', NEW p \in Procs, RelinkInbox(p),
         NEW c \in Candidates, plan[p].cand = c
  PROVE  Stutters
<1>1. /\ pc[p] = "relink" /\ plan' = plan /\ recorded' = recorded
      /\ Relocate(c, loc[c] \cup {"inbox"}) /\ Goto(p, "runlink")
  BY DEF RelinkInbox, history
<1>2. Goes(p)
  BY <1>1 DEF Goes, Goto, RejectSteps, IInv, TypeOK
<1>3. loc[c] = {"rejected"} /\ Rejecting(c)
  BY <1>1, <1>2, RejectingAfter DEF IInv, ApplyWhere
<1>4. loc'[c] = {"inbox", "rejected"}
  BY <1>1, <1>3 DEF Relocate, IInv, TypeOK
<1>5. Keeps(c)
  BY <1>3, <1>4, StatusAt, StatusAtNext DEF Keeps
<1> QED
  BY <1>1, <1>2, <1>5, OwnKeptStutters

LEMMA UnlinkRejectedRefines ==
  ASSUME IInv, IInv', NEW p \in Procs, UnlinkRejected(p),
         NEW c \in Candidates, plan[p].cand = c
  PROVE  Stutters
<1>1. /\ pc[p] = "runlink" /\ Finish(p) /\ recorded' = recorded
      /\ Relocate(c, loc[c] \ {"rejected"})
  BY DEF UnlinkRejected, history
<1>2. Goes(p)
  BY <1>1 DEF Goes, RejectSteps
<1>3. loc[c] = {"inbox", "rejected"}
  BY <1>1 DEF IInv, ApplyWhere
<1>4. loc'[c] = {"inbox"}
  BY <1>1, <1>3 DEF Relocate, IInv, TypeOK
<1>5. Keeps(c)
  BY <1>3, <1>4, StatusAt, StatusAtNext DEF Keeps
<1> QED
  BY <1>1, <1>2, <1>5, OwnKeptStutters

LEMMA StepRefines ==
  ASSUME IInv, IInv', NEW p \in Procs, Step(p) \/ Interrupt(p)
  PROVE  Lifecycle!LCNext \/ Stutters
<1>1. CASE StartApply(p) \/ RefuseApply(p)
  BY <1>1, StartApplyRefines, RefuseApplyRefines
<1>2. CASE ~(StartApply(p) \/ RefuseApply(p))
  <2>1. pc[p] \in PromoteSteps \cup RejectSteps
    BY <1>2 DEF Step, WriteLedger, CompareCandidate, MoveCandidate, StagePromote, LinkRejected,
       UnlinkInbox, StageReject, StageRejectFails, RelinkInbox, UnlinkRejected,
       Interrupt, PromoteSteps, RejectSteps, IInv, TypeOK
  <2>2. plan[p].cand \in Candidates
    BY <2>1 DEF IInv, PlanTyped, PromotePlanType, RejectPlanType
  <2>3. PICK c \in Candidates : plan[p].cand = c
    BY <2>2
  <2> QED
    BY <1>2, <2>3, WriteLedgerRefines, CompareCandidateRefines, MoveCandidateRefines,
       StagePromoteRefines,
       LinkRejectedRefines, UnlinkInboxRefines, StageRejectRefines,
       StageRejectFailsRefines, RelinkInboxRefines, UnlinkRejectedRefines,
       InterruptRefines
    DEF Step
<1> QED
  BY <1>1, <1>2

-----------------------------------------------------------------------------
(* Steps of captures and of the user.                                      *)
LEMMA OutsideRejecting ==
  ASSUME control' = control, NEW d \in Candidates
  PROVE  Rejecting(d)' <=> Rejecting(d)
BY DEF Rejecting, control

LEMMA CaptureRefines ==
  ASSUME IInv, NEW c \in Candidates, NEW r \in CaptureRules, Capture(c, r)
  PROVE  Lifecycle!LCNext
<1>1. /\ loc[c] = {} /\ loc' = [loc EXCEPT ![c] = {"inbox"}]
      /\ control' = control /\ recorded' = recorded
  BY DEF Capture, Relocate, control, history
<1>2. loc'[c] = {"inbox"}
  BY <1>1 DEF IInv, TypeOK
<1>3. Status(c) = "uncaptured" /\ Status(c)' = "queued"
  BY <1>1, <1>2, StatusAt, StatusAtNext
<1>4. \A d \in Candidates \ {c} : loc'[d] = loc[d] /\ (Rejecting(d)' <=> Rejecting(d))
  BY <1>1, OutsideRejecting DEF IInv, TypeOK
<1>5. \A d \in Candidates \ {c} : Keeps(d)
  BY <1>4 DEF Keeps, Status
<1> QED
  BY <1>1, <1>3, <1>5, CaptureMoves DEF OnlyMoves

LEMMA ResolvePairRefines ==
  ASSUME IInv, NEW c \in Candidates, NEW d \in Places, d \in loc[c], ResolvePair(c, d)
  PROVE  Lifecycle!LCNext \/ Stutters
<1>1. /\ loc[c] = {"inbox", "rejected"} /\ loc' = [loc EXCEPT ![c] = {d}]
      /\ control' = control /\ recorded' = recorded /\ lock = NoProc
  BY DEF ResolvePair, Relocate, control, history
<1>2. loc'[c] = {d} /\ d \in {"inbox", "rejected"}
  BY <1>1 DEF IInv, TypeOK
<1>3. ~Rejecting(c)'
  BY <1>1, OutsideRejecting, NoneRejecting DEF IInv
<1>4. \A b \in Candidates \ {c} : loc'[b] = loc[b] /\ (Rejecting(b)' <=> Rejecting(b))
  BY <1>1, OutsideRejecting DEF IInv, TypeOK
<1>5. \A b \in Candidates \ {c} : Keeps(b)
  BY <1>4 DEF Keeps, Status
<1>6. Status(c) = "queued"
  BY <1>1, StatusAt
<1>7. CASE d = "inbox"
  <2>1. Keeps(c)
    BY <1>2, <1>6, <1>7, StatusAtNext DEF Keeps
  <2> QED
    BY <1>1, <1>5, <2>1, KeepingStutters
<1>8. CASE d = "rejected"
  <2>1. Status(c)' = "rejected"
    BY <1>2, <1>3, <1>8, StatusAtNext
  <2> QED
    BY <1>1, <1>5, <1>6, <2>1, RejectMoves DEF OnlyMoves
<1> QED
  BY <1>2, <1>7, <1>8

LEMMA SameFilesStutters ==
  ASSUME loc' = loc, control' = control, recorded' = recorded
  PROVE  Stutters
BY OutsideRejecting, SameFilesKeep, KeepingStutters

LEMMA UserRefines ==
  ASSUME IInv, User
  PROVE  Lifecycle!LCNext \/ Stutters
<1>1. CASE \E c \in Candidates, r \in CaptureRules : Capture(c, r)
  BY <1>1, CaptureRefines
<1>2. CASE \E c \in Candidates, d \in Places : d \in loc[c] /\ ResolvePair(c, d)
  BY <1>2, ResolvePairRefines
<1>3. CASE \/ \E c \in Candidates, r \in CaptureRules : EditCandidate(c, r)
           \/ \E s \in Stores : \E e \in ledger[s] : ArchiveByHand(s, e)
           \/ \E c \in Candidates : GitAddCandidate(c)
           \/ GitCommit
  BY <1>3, SameFilesStutters DEF EditCandidate, ArchiveByHand, GitAddCandidate,
     GitCommit, files, control, history
<1> QED
  BY <1>1, <1>2, <1>3 DEF User

-----------------------------------------------------------------------------
LEMMA NextRefines == IInv /\ IInv' /\ [Next]_vars => [Lifecycle!LCNext]_Lifecycle!lcVars
<1> SUFFICES ASSUME IInv, IInv', [Next]_vars PROVE Lifecycle!LCNext \/ Stutters
  BY DEF Stutters
<1>1. CASE \E p \in Procs : Preview(p)
  BY <1>1, PreviewRefines
<1>2. CASE \E p \in Procs : Step(p) \/ Interrupt(p)
  BY <1>2, StepRefines
<1>3. CASE User
  BY <1>3, UserRefines
<1>4. CASE UNCHANGED vars
  BY <1>4, SameFilesStutters DEF vars, files, control, history
<1> QED
  BY <1>1, <1>2, <1>3, <1>4 DEF Next

(* Whatever processes do and whenever they die, and whatever the user does *)
(* in between, each candidate lives the life CandidateLifecycle promises:  *)
(* it is promoted only after a ledger has had a lesson made from it, and   *)
(* neither a promotion nor a rejection is ever taken back.                 *)
THEOREM ImplementsLifecycle == Spec => LifecycleSpec
<1>1. []IInv /\ [][Next]_vars => [][Lifecycle!LCNext]_Lifecycle!lcVars
  BY NextRefines, PTL
<1> QED
  BY <1>1, InitRefines, Invariant, PTL DEF Spec, LifecycleSpec, Lifecycle!LCSpec
=============================================================================
