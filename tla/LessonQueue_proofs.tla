------------------------- MODULE LessonQueue_proofs -------------------------
(***************************************************************************)
(* Proofs about LessonQueue, for any numbers of processes, candidates,     *)
(* ledgers and rules, any bounds, and user edits at any time.              *)
(***************************************************************************)
EXTENDS LessonQueue, TLAPS

(* A rule is rendered from no other rule of a candidate.                   *)
LEMMA RenderedInjective ==
  ASSUME NEW s \in Stores, NEW q \in CandidateRule, NEW r \in CandidateRule,
         Rendered(s, q) = Rendered(s, r)
  PROVE  q = r
BY DEF Rendered, CandidateRule

LEMMA RenderedTyped ==
  ASSUME NEW s \in Stores, NEW r \in CandidateRule
  PROVE  Rendered(s, r) \in LedgerRule
BY DEF Rendered, CandidateRule, LedgerRule

(* The line to write is a ledger line that spells the candidate's rule.    *)
LEMMA NewEntryTyped ==
  ASSUME NEW c \in Candidates, NEW s \in Stores, NEW ch \in ReviewChoices,
         NEW rid \in Ids, rule[c] \in CandidateRule
  PROVE  NewEntry(c, s, ch, rid) \in Entry
<1>1. Rendered(s, rule[c]) \in LedgerRule
  BY RenderedTyped
<1>2. (IF ch.kind = "supersede" THEN ch.id ELSE NoId) \in Ids \cup {NoId}
  BY DEF ReviewChoices
<1> QED
  BY <1>1, <1>2 DEF NewEntry, Entry

(* Rendering a line into a ledger leaves a ledger.                         *)
LEMMA RenderTyped ==
  ASSUME NEW L \in SUBSET Entry, NEW new \in Entry, NEW ch \in ReviewChoices
  PROVE  Render(L, new, ch) \in SUBSET Entry
<1>1. \A e \in L : [e EXCEPT !.active = FALSE, !.by = new.id] \in Entry
  BY DEF Entry
<1>2. ArchiveSuperseded(L, ch.id, new.id) \in SUBSET Entry
  BY <1>1 DEF ArchiveSuperseded
<1> QED
  BY <1>2 DEF Render

(* What a preview of a promote yields, in a state of the right types.      *)
LEMMA PromotePlanTyped ==
  ASSUME TypeOK, Captured,
         NEW c \in Candidates, NEW s \in Stores, NEW ch \in ReviewChoices,
         NEW pl \in PromotePlans(c, s, ch)
  PROVE  /\ pl \in PromotePlanType
         /\ pl.cand = c /\ pl.store = s /\ pl.rule = rule[c]
         /\ pl.rule \in CandidateRule
<1>1. PICK rid \in ResultIds(c, s, ch) \cap Ids :
         /\ Promotable(c, s, ch)
         /\ pl = PromotePlan(c, s, ch, rid)
  BY DEF PromotePlans
<1>2. rule[c] \in CandidateRule
  BY <1>1 DEF Promotable, Captured, TypeOK
<1>3. /\ ledger[s] \in SUBSET Entry
      /\ Tracked(c) \in BOOLEAN
      /\ Source(c) \in {"inbox", "consumed"}
      /\ ExactElsewhere(s, rule[c]) \in SUBSET (Stores \X Ids)
  BY DEF TypeOK, Tracked, Source, ExactElsewhere
<1>4. Render(ledger[s], NewEntry(c, s, ch, rid), ch) \in SUBSET Entry
  BY <1>1, <1>2, <1>3, NewEntryTyped, RenderTyped
<1> QED
  BY <1>1, <1>2, <1>3, <1>4 DEF PromotePlan, PromotePlanType

LEMMA RejectPlanTyped ==
  ASSUME TypeOK, Captured, NEW c \in Candidates, NEW pl \in RejectPlans(c)
  PROVE  pl \in RejectPlanType /\ pl.cand = c /\ loc[c] = {"inbox"}
<1>1. /\ loc[c] = {"inbox"}
      /\ pl = [kind |-> "reject", cand |-> c, rule |-> rule[c],
               tracked |-> Tracked(c), head |-> head]
  BY DEF RejectPlans
<1>2. rule[c] \in CandidateRule /\ Tracked(c) \in BOOLEAN /\ head \in Tree
  BY <1>1 DEF Captured, TypeOK, Tracked
<1> QED
  BY <1>1, <1>2 DEF RejectPlanType


-----------------------------------------------------------------------------
(* The inductive invariant holds at the start.                             *)
LEMMA InitInvariant == Init => IInv
<1> SUFFICES ASSUME Init PROVE IInv
  OBVIOUS
<1> USE ConstantsOK
<1>1. TypeOK
  <2>1. /\ loc \in [Candidates -> SUBSET Places]
        /\ ledger \in [Stores -> SUBSET Entry]
    BY DEF Init, ConstantsOK
  <2>2. index \in Tree /\ head \in Tree
    BY <2>1 DEF Init, ConstantsOK, Tree
  <2>3. /\ rule \in [Candidates -> CandidateRule \cup {NoRule}]
        /\ recorded \in [Candidates -> SUBSET CandidateRule]
        /\ replaced \in SUBSET (Candidates \cup {Seed})
        /\ slipped \in SUBSET Candidates
    BY DEF Init
  <2>4. /\ lock \in Procs \cup {NoProc}
        /\ pc \in [Procs -> {"idle", "previewed"} \cup PromoteSteps \cup RejectSteps]
        /\ plan \in [Procs -> {NoPlan} \cup PromotePlanType \cup RejectPlanType]
    BY DEF Init
  <2>5. crashes \in 0 .. MaxCrashes /\ edits \in 0 .. MaxEdits
    BY DEF Init, ConstantsOK
  <2> QED
    BY <2>1, <2>2, <2>3, <2>4, <2>5 DEF TypeOK
<1>2. LockOwner /\ PlanTyped
  BY DEF Init, LockOwner, PlanTyped, PromoteSteps, RejectSteps, ConstantsOK
<1>3. Captured /\ OneFate /\ ConsumedAsRecorded
  BY DEF Init, Captured, OneFate, ConsumedAsRecorded
<1>4. ApplyWhere /\ PostRecorded /\ MoveRecorded /\ MoveCompared /\ PostUnique
  BY DEF Init, ApplyWhere, PostRecorded, MoveRecorded, MoveCompared, PostUnique
<1>5. LedgerIdsUnique /\ LinesRecorded
  BY DEF Init, LedgerIdsUnique, LinesRecorded, Spelled, ConstantsOK
<1> QED
  BY <1>1, <1>2, <1>3, <1>4, <1>5 DEF IInv

(* At most one process is inside an apply.                                 *)
LEMMA OneApply ==
  ASSUME LockOwner, NEW p \in Procs, NEW q \in Procs,
         pc[p] \in PromoteSteps \cup RejectSteps,
         pc[q] \in PromoteSteps \cup RejectSteps
  PROVE  p = q
BY DEF LockOwner

(* Previews read only.                                                     *)
LEMMA PreviewStep ==
  ASSUME IInv, NEW p \in Procs, Preview(p)
  PROVE  IInv'
<1>1. PICK pl \in PromotePlanType \cup RejectPlanType :
         plan' = [plan EXCEPT ![p] = pl]
  BY PromotePlanTyped, RejectPlanTyped
  DEF Preview, PreviewPromote, PreviewReject, IInv
<1>2. /\ pc[p] = "idle"
      /\ pc' = [pc EXCEPT ![p] = "previewed"]
      /\ UNCHANGED <<files, git, lock, history, counts>>
  BY DEF Preview, PreviewPromote, PreviewReject, Goto
<1> USE <1>1, <1>2 DEF IInv, files, git, history, counts
<1>3. TypeOK'
  BY DEF TypeOK
<1>4. LockOwner' /\ PlanTyped'
  BY ConstantsOK DEF LockOwner, PlanTyped, TypeOK, PromoteSteps, RejectSteps
<1>5. Captured' /\ OneFate' /\ ConsumedAsRecorded'
  BY DEF Captured, OneFate, ConsumedAsRecorded
<1>6. ApplyWhere' /\ PostRecorded' /\ MoveRecorded' /\ MoveCompared' /\ PostUnique'
  BY DEF ApplyWhere, PostRecorded, MoveRecorded, MoveCompared, PostUnique, TypeOK
<1>7. LedgerIdsUnique' /\ LinesRecorded'
  BY DEF LedgerIdsUnique, LinesRecorded
<1> QED
  BY <1>3, <1>4, <1>5, <1>6, <1>7

-----------------------------------------------------------------------------
(* What a preview learns about the rules recorded so far.                  *)

(* The text to write spells recorded rules, and the one it will record.    *)
LEMMA WritePlanSpelled ==
  ASSUME TypeOK, Captured, LinesRecorded,
         NEW c \in Candidates, NEW s \in Stores, NEW ch \in ReviewChoices,
         NEW pl \in PromotePlans(c, s, ch), pl.action = "write",
         NEW e \in pl.post
  PROVE  Spelled(s, e, [recorded EXCEPT ![c] = @ \cup {pl.rule}])
<1> DEFINE known == [recorded EXCEPT ![c] = @ \cup {pl.rule}]
<1>1. PICK rid \in ResultIds(c, s, ch) \cap Ids :
         /\ Promotable(c, s, ch)
         /\ pl = PromotePlan(c, s, ch, rid)
  BY DEF PromotePlans
<1>2. pl.post = Render(ledger[s], NewEntry(c, s, ch, rid), ch) /\ pl.rule = rule[c]
  BY <1>1 DEF PromotePlan
<1>3. /\ known \in [Candidates -> SUBSET (CandidateRule \cup {NoRule})]
      /\ \A d \in Candidates : recorded[d] \subseteq known[d]
      /\ rule[c] \in known[c]
  BY <1>2 DEF TypeOK
<1>4. \A f \in ledger[s] : /\ f \in Entry
                           /\ Spelled(s, f, known)
  BY <1>3 DEF LinesRecorded, Spelled, TypeOK, Entry
<1>5. Spelled(s, NewEntry(c, s, ch, rid), known)
  BY <1>3 DEF Spelled, NewEntry
<1>6. \A f \in Entry : Spelled(s, f, known) =>
         Spelled(s, [f EXCEPT !.active = FALSE, !.by = NewEntry(c, s, ch, rid).id], known)
  BY DEF Spelled, Entry
<1>7. \/ e = NewEntry(c, s, ch, rid)
      \/ e \in ledger[s]
      \/ \E f \in ledger[s] :
           e = [f EXCEPT !.active = FALSE, !.by = NewEntry(c, s, ch, rid).id]
  BY <1>2 DEF Render, ArchiveSuperseded
<1> QED
  BY <1>4, <1>5, <1>6, <1>7

(* A plan that finds its line written finds its rule recorded.             *)
LEMMA ConvergePlanRecorded ==
  ASSUME TypeOK, Captured, LinesRecorded,
         NEW c \in Candidates, NEW s \in Stores, NEW ch \in ReviewChoices,
         NEW pl \in PromotePlans(c, s, ch), pl.action = "converge"
  PROVE  pl.rule \in recorded[c]
<1>1. PICK rid \in ResultIds(c, s, ch) \cap Ids :
         /\ Promotable(c, s, ch)
         /\ pl = PromotePlan(c, s, ch, rid)
  BY DEF PromotePlans
<1>2. rule[c] \in CandidateRule /\ pl.rule = rule[c]
  BY <1>1 DEF Promotable, Captured, TypeOK, PromotePlan
<1>3. PICK e \in ledger[s] : SameLine(e, NewEntry(c, s, ch, rid))
  BY <1>1 DEF PromotePlan
<1>4. e \in Entry /\ NewEntry(c, s, ch, rid) \in Entry
  BY <1>1, <1>2, NewEntryTyped DEF TypeOK
<1>5. e.from = NewEntry(c, s, ch, rid).from /\ e.rule = NewEntry(c, s, ch, rid).rule
  BY <1>3, <1>4 DEF SameLine, Entry
<1>6. e.from = c /\ e.rule = Rendered(s, rule[c])
  BY <1>5 DEF NewEntry
<1>7. PICK r \in recorded[c] : Rendered(s, r) = Rendered(s, rule[c])
  BY <1>6, ConstantsOK DEF LinesRecorded, Spelled
<1>8. r \in CandidateRule
  BY <1>7 DEF TypeOK
<1> QED
  BY <1>2, <1>7, <1>8, RenderedInjective

-----------------------------------------------------------------------------
(* The steps of an apply.                                                  *)

(* An approved plan is typed, and is what a preview of now would yield.    *)
LEMMA ReplannedTyped ==
  ASSUME IInv, NEW p \in Procs, StartApply(p)
  PROVE  \/ /\ plan[p] \in RejectPlanType
            /\ plan[p].kind = "reject"
            /\ plan[p] \in RejectPlans(plan[p].cand)
         \/ /\ plan[p] \in PromotePlanType
            /\ plan[p].kind = "promote"
            /\ plan[p] \in PromotePlans(plan[p].cand, plan[p].store, plan[p].choice)
            /\ plan[p].action = "write" =>
                  "consumed" \notin loc[plan[p].cand] /\ UniqueIdsIn(plan[p].post)
<1>1. plan[p] \in PromotePlanType \cup RejectPlanType
  BY DEF IInv, PlanTyped, StartApply
<1>2. CASE plan[p] \in PromotePlanType
  BY <1>2 DEF StartApply, Applicable, Replans, PromotePlanType
<1>3. CASE plan[p] \in RejectPlanType
  BY <1>3 DEF StartApply, Applicable, Replans, RejectPlanType
<1> QED
  BY <1>1, <1>2, <1>3

(* Where the candidate of an approved promote is.                          *)
LEMMA PromoteWhere ==
  ASSUME IInv, NEW c \in Candidates, NEW s \in Stores, NEW ch \in ReviewChoices,
         NEW pl \in PromotePlans(c, s, ch)
  PROVE  /\ pl.src = "inbox" => loc[c] = {"inbox"}
         /\ pl.src # "inbox" => loc[c] = {"consumed"}
         /\ "consumed" \notin loc[c] => loc[c] = {"inbox"}
<1>1. PICK rid \in ResultIds(c, s, ch) \cap Ids :
         /\ Promotable(c, s, ch)
         /\ pl = PromotePlan(c, s, ch, rid)
  BY DEF PromotePlans
<1>2. /\ pl.src = IF "inbox" \in loc[c] THEN "inbox" ELSE "consumed"
      /\ loc[c] \cap {"inbox", "consumed"} # {}
      /\ ~({"inbox", "rejected"} \subseteq loc[c])
  BY <1>1 DEF PromotePlan, Promotable, Source, SingleLink
<1>3. loc[c] \in {{"inbox"}, {"inbox", "rejected"}, {"rejected"}, {"consumed"}}
  BY <1>2 DEF IInv, OneFate, Captured
<1> QED
  BY <1>2, <1>3

LEMMA StartApplyStep ==
  ASSUME IInv, NEW p \in Procs, StartApply(p)
  PROVE  IInv'
<1> DEFINE pl == plan[p]
<1>1. /\ lock = NoProc /\ lock' = p
      /\ pc[p] = "previewed"
      /\ UNCHANGED <<files, git, plan, history, counts>>
  BY DEF StartApply
<1>2. \/ /\ pl \in RejectPlanType
         /\ pc' = [pc EXCEPT ![p] = "link"]
      \/ /\ pl \in PromotePlanType
         /\ pl.action = "write"
         /\ pc' = [pc EXCEPT ![p] = "write"]
         /\ pl \in PromotePlans(pl.cand, pl.store, pl.choice)
         /\ UniqueIdsIn(pl.post)
      \/ /\ pl \in PromotePlanType
         /\ pl.action = "converge"
         /\ pl \in PromotePlans(pl.cand, pl.store, pl.choice)
         /\ \E l \in {"move", "stage"} : pc' = [pc EXCEPT ![p] = l]
  BY ReplannedTyped DEF StartApply, Goto, PromotePlanType
<1>3. \A q \in Procs : pc[q] \notin PromoteSteps \cup RejectSteps
  BY <1>1, ConstantsOK DEF IInv, LockOwner
<1> USE <1>1, <1>2 DEF IInv, files, git, history, counts
<1>4. TypeOK'
  BY DEF TypeOK, PromoteSteps, RejectSteps
<1>5. LockOwner' /\ PlanTyped'
  BY <1>3, ConstantsOK DEF LockOwner, PlanTyped, TypeOK, PromoteSteps, RejectSteps
<1>6. Captured' /\ OneFate' /\ ConsumedAsRecorded'
  BY DEF Captured, OneFate, ConsumedAsRecorded
<1>7. ApplyWhere'
  <2>1. pl.cand \in Candidates /\
        \/ pc'[p] = "link" /\ loc[pl.cand] = {"inbox"}
        \/ pc'[p] \in {"write", "move"} /\ loc[pl.cand] = {"inbox"}
        \/ pc'[p] = "stage" /\ loc[pl.cand] = {"consumed"}
    <3>1. CASE pl \in RejectPlanType /\ pl.kind = "reject" /\ pl \in RejectPlans(pl.cand)
      BY <3>1, RejectPlanTyped DEF StartApply, Goto, TypeOK, RejectPlanType
    <3>2. CASE /\ pl \in PromotePlanType /\ pl.kind = "promote"
               /\ pl \in PromotePlans(pl.cand, pl.store, pl.choice)
               /\ pl.action = "write" => "consumed" \notin loc[pl.cand]
      BY <3>2, PromoteWhere DEF StartApply, Goto, TypeOK, PromotePlanType
    <3> QED
      BY <3>1, <3>2, ReplannedTyped
  <2> QED
    BY <1>3, <2>1 DEF ApplyWhere, TypeOK, PromoteSteps, RejectSteps
<1>11. PostUnique'
  BY <1>3 DEF PostUnique, TypeOK, PromoteSteps, RejectSteps
<1>8. PostRecorded'
  <2> SUFFICES ASSUME NEW q \in Procs, pc'[q] = "write", NEW e \in plan[q].post
               PROVE  Spelled(plan[q].store, e,
                        [recorded EXCEPT ![plan[q].cand] = @ \cup {plan[q].rule}])
    BY DEF PostRecorded, Spelled, Rendered
  <2>1. /\ q = p /\ pl.action = "write" /\ pl \in PromotePlanType
        /\ pl \in PromotePlans(pl.cand, pl.store, pl.choice)
    BY <1>3 DEF TypeOK, PromoteSteps
  <2>2. pl.cand \in Candidates /\ pl.store \in Stores /\ pl.choice \in ReviewChoices
    BY <2>1 DEF PromotePlanType
  <2> QED
    BY <2>1, <2>2, WritePlanSpelled
<1>12. MoveCompared'
  BY <1>3 DEF MoveCompared, TypeOK, PromoteSteps, RejectSteps
<1>9. MoveRecorded'
  <2> SUFFICES ASSUME NEW q \in Procs, pc'[q] \in {"move", "rename"}
               PROVE  plan[q].rule \in recorded[plan[q].cand]
    BY DEF MoveRecorded
  <2>1. /\ q = p /\ pl.action = "converge" /\ pl \in PromotePlanType
        /\ pl \in PromotePlans(pl.cand, pl.store, pl.choice)
    BY <1>3 DEF TypeOK, PromoteSteps
  <2>2. pl.cand \in Candidates /\ pl.store \in Stores /\ pl.choice \in ReviewChoices
    BY <2>1 DEF PromotePlanType
  <2> QED
    BY <2>1, <2>2, ConvergePlanRecorded
<1>10. LedgerIdsUnique' /\ LinesRecorded'
  BY DEF LedgerIdsUnique, LinesRecorded
<1> QED
  BY <1>4, <1>5, <1>6, <1>7, <1>8, <1>9, <1>10, <1>11, <1>12

LEMMA RefuseApplyStep ==
  ASSUME IInv, NEW p \in Procs, RefuseApply(p)
  PROVE  IInv'
<1>1. /\ pc[p] = "previewed"
      /\ pc' = [pc EXCEPT ![p] = "idle"]
      /\ plan' = [plan EXCEPT ![p] = NoPlan]
      /\ UNCHANGED <<files, git, lock, history, counts>>
  BY DEF RefuseApply, Goto
<1> USE <1>1 DEF IInv, files, git, history, counts
<1>2. TypeOK'
  BY DEF TypeOK
<1>3. LockOwner' /\ PlanTyped'
  BY ConstantsOK DEF LockOwner, PlanTyped, TypeOK, PromoteSteps, RejectSteps
<1>4. Captured' /\ OneFate' /\ ConsumedAsRecorded'
  BY DEF Captured, OneFate, ConsumedAsRecorded
<1>5. ApplyWhere' /\ PostRecorded' /\ MoveRecorded' /\ MoveCompared' /\ PostUnique'
  BY DEF ApplyWhere, PostRecorded, MoveRecorded, MoveCompared, PostUnique, TypeOK
<1>6. LedgerIdsUnique' /\ LinesRecorded'
  BY DEF LedgerIdsUnique, LinesRecorded
<1> QED
  BY <1>2, <1>3, <1>4, <1>5, <1>6

(* The end of a command, with whatever last change to a candidate's place  *)
(* or to the Git index: no process is inside an apply any more.            *)
LEMMA FinishStep ==
  ASSUME IInv, NEW p \in Procs, Finish(p), pc[p] \in PromoteSteps \cup RejectSteps,
         UNCHANGED <<rule, ledger, history, edits>>,
         loc' \in [Candidates -> SUBSET Places],
         Captured', OneFate', ConsumedAsRecorded',
         index' \in Tree, head' \in Tree, crashes' \in 0 .. MaxCrashes
  PROVE  IInv'
<1>1. /\ pc' = [pc EXCEPT ![p] = "idle"]
      /\ plan' = [plan EXCEPT ![p] = NoPlan]
      /\ lock' = NoProc
  BY DEF Finish, Goto
<1>2. \A q \in Procs : pc'[q] \notin PromoteSteps \cup RejectSteps
  BY <1>1 DEF IInv, LockOwner, TypeOK, PromoteSteps, RejectSteps
<1> USE <1>1 DEF IInv, history
<1>3. TypeOK'
  BY DEF TypeOK
<1>4. LockOwner' /\ PlanTyped'
  BY <1>2, ConstantsOK DEF LockOwner, PlanTyped, TypeOK
<1>5. ApplyWhere' /\ PostRecorded' /\ MoveRecorded' /\ MoveCompared' /\ PostUnique'
  BY <1>2 DEF ApplyWhere, PostRecorded, MoveRecorded, MoveCompared, PostUnique,
              PromoteSteps, RejectSteps
<1>6. LedgerIdsUnique' /\ LinesRecorded'
  BY DEF LedgerIdsUnique, LinesRecorded
<1> QED
  BY <1>3, <1>4, <1>5, <1>6

(* The ledger write: the prepared text becomes the ledger.                 *)
LEMMA WriteLedgerStep ==
  ASSUME IInv, NEW p \in Procs, WriteLedger(p)
  PROVE  IInv'
<1> DEFINE pl == plan[p]
           known == [recorded EXCEPT ![pl.cand] = @ \cup {pl.rule}]
<1>1. /\ pc[p] = "write"
      /\ ledger' = [ledger EXCEPT ![pl.store] = pl.post]
      /\ recorded' = known
      /\ pc' = [pc EXCEPT ![p] = "move"]
      /\ UNCHANGED <<loc, rule, index, head, lock, plan, slipped, crashes, edits>>
  BY DEF WriteLedger, Goto, git, counts
<1>2. pl \in PromotePlanType
  BY <1>1 DEF IInv, PlanTyped, PromoteSteps
<1>3. /\ pl.cand \in Candidates /\ pl.store \in Stores
      /\ pl.rule \in CandidateRule /\ pl.post \in SUBSET Entry /\ pl.pre \in SUBSET Entry
  BY <1>2 DEF PromotePlanType
<1>4. \A q \in Procs : pc[q] \in PromoteSteps \cup RejectSteps => q = p
  BY <1>1, OneApply DEF IInv, PromoteSteps
<1>5. \A c \in Candidates : recorded[c] \subseteq recorded'[c]
  BY <1>1, <1>3 DEF IInv, TypeOK
<1> USE DEF IInv
<1>6. TypeOK'
  <2>1. replaced' \in SUBSET (Candidates \cup {Seed})
    BY <1>3 DEF WriteLedger, TypeOK, Entry
  <2> QED
    BY <1>1, <1>3, <2>1 DEF TypeOK, PromoteSteps
<1>7. LockOwner' /\ PlanTyped'
  BY <1>1 DEF LockOwner, PlanTyped, TypeOK, PromoteSteps, RejectSteps
<1>8. Captured' /\ OneFate' /\ ConsumedAsRecorded'
  BY <1>1, <1>5 DEF Captured, OneFate, ConsumedAsRecorded
<1>9. ApplyWhere' /\ PostRecorded' /\ PostUnique' /\ MoveCompared'
  BY <1>1, <1>4 DEF ApplyWhere, PostRecorded, PostUnique, MoveCompared, TypeOK,
                    PromoteSteps
<1>10. MoveRecorded'
  <2> SUFFICES ASSUME NEW q \in Procs, pc'[q] \in {"move", "rename"}
               PROVE  plan[q].rule \in recorded'[plan[q].cand]
    BY <1>1 DEF MoveRecorded
  <2>1. q = p
    BY <1>1, <1>4 DEF TypeOK, PromoteSteps
  <2> QED
    BY <1>1, <1>3, <2>1 DEF TypeOK
<1>11. LedgerIdsUnique'
  BY <1>1 DEF LedgerIdsUnique, PostUnique, TypeOK
<1>12. LinesRecorded'
  <2> SUFFICES ASSUME NEW s \in Stores, NEW e \in ledger'[s]
               PROVE  Spelled(s, e, known)
    BY <1>1 DEF LinesRecorded, Spelled, Rendered
  <2>1. CASE s = pl.store
    BY <1>1, <2>1 DEF PostRecorded, TypeOK
  <2>2. CASE s # pl.store
    <3>1. e \in ledger[s] /\ e \in Entry
      BY <1>1, <2>2 DEF TypeOK
    <3> QED
      BY <1>1, <1>5, <3>1 DEF LinesRecorded, Spelled, Entry
  <2> QED
    BY <2>1, <2>2
<1> QED
  BY <1>6, <1>7, <1>8, <1>9, <1>10, <1>11, <1>12

(* The candidate of a step of a reject or of a move, when its file is the  *)
(* only thing that moves.                                                  *)
LEMMA RelocateStep ==
  ASSUME IInv, NEW p \in Procs, pc[p] \in PromoteSteps \cup RejectSteps,
         NEW l \in PromoteSteps \cup RejectSteps,
         Goto(p, l), l \in PromoteSteps <=> pc[p] \in PromoteSteps,
         NEW places \in SUBSET Places, Relocate(plan[p].cand, places),
         plan[p].cand \in Candidates, loc[plan[p].cand] # {},
         places \in {{"inbox"}, {"inbox", "rejected"}, {"rejected"}, {"consumed"}},
         "consumed" \in places /\ plan[p].cand \notin slipped =>
            rule[plan[p].cand] \in recorded[plan[p].cand],
         l \in {"unlink", "runlink"} => places = {"inbox", "rejected"},
         l \in {"rstage", "relink"} => places = {"rejected"},
         l = "stage" => places = {"consumed"},
         l \notin {"write", "move", "rename", "link"},
         UNCHANGED <<rule, ledger, git, lock, plan, history, counts>>
  PROVE  IInv'
<1>1. /\ pc' = [pc EXCEPT ![p] = l]
      /\ loc' = [loc EXCEPT ![plan[p].cand] = places]
  BY DEF Goto, Relocate
<1>2. \A q \in Procs : pc[q] \in PromoteSteps \cup RejectSteps => q = p
  BY OneApply DEF IInv
<1> USE <1>1 DEF IInv, git, history, counts
<1>3. TypeOK'
  BY DEF TypeOK
<1>4. LockOwner' /\ PlanTyped'
  BY DEF LockOwner, PlanTyped, TypeOK, PromoteSteps, RejectSteps
<1>5. Captured' /\ OneFate' /\ ConsumedAsRecorded'
  BY DEF Captured, OneFate, ConsumedAsRecorded, TypeOK
<1>6. ApplyWhere'
  BY <1>2 DEF ApplyWhere, TypeOK, PromoteSteps, RejectSteps
<1>7. PostRecorded' /\ MoveRecorded' /\ MoveCompared' /\ PostUnique'
  BY <1>2 DEF PostRecorded, MoveRecorded, MoveCompared, PostUnique, TypeOK, PromoteSteps
<1>8. LedgerIdsUnique' /\ LinesRecorded'
  BY DEF LedgerIdsUnique, LinesRecorded
<1> QED
  BY <1>3, <1>4, <1>5, <1>6, <1>7, <1>8

(* The comparison: past it the rule to move is the reviewed one.           *)
LEMMA CompareCandidateStep ==
  ASSUME IInv, NEW p \in Procs, CompareCandidate(p)
  PROVE  IInv'
<1> DEFINE c == plan[p].cand
<1>1. pc[p] = "move" /\ c \in Candidates
  BY DEF CompareCandidate, IInv, PlanTyped, PromoteSteps, PromotePlanType
<1>2. UNCHANGED <<files, git, recorded, replaced, counts>>
  BY DEF CompareCandidate
<1>3. CASE /\ rule[c] = plan[p].rule /\ slipped' = slipped \ {c}
           /\ Goto(p, "rename")
           /\ UNCHANGED <<lock, plan>>
  <2>1. \A q \in Procs : pc[q] \in PromoteSteps \cup RejectSteps => q = p
    BY <1>1, OneApply DEF IInv, PromoteSteps
  <2>2. loc[c] = {"inbox"} /\ plan[p].rule \in recorded[c]
    BY <1>1 DEF IInv, ApplyWhere, MoveRecorded
  <2> USE <1>1, <1>2, <1>3 DEF IInv, files, git, counts, Goto
  <2>3. TypeOK'
    BY DEF TypeOK, PromoteSteps
  <2>4. LockOwner' /\ PlanTyped'
    BY DEF LockOwner, PlanTyped, TypeOK, PromoteSteps, RejectSteps
  <2>5. Captured' /\ OneFate' /\ ConsumedAsRecorded'
    BY <2>2 DEF Captured, OneFate, ConsumedAsRecorded
  <2>6. ApplyWhere'
    BY <2>1, <2>2 DEF ApplyWhere, TypeOK, PromoteSteps, RejectSteps
  <2>7. PostRecorded' /\ MoveRecorded' /\ MoveCompared' /\ PostUnique'
    BY <2>1, <2>2 DEF PostRecorded, MoveRecorded, MoveCompared, PostUnique, TypeOK,
                      PromoteSteps
  <2>8. LedgerIdsUnique' /\ LinesRecorded'
    BY DEF LedgerIdsUnique, LinesRecorded
  <2> QED
    BY <2>3, <2>4, <2>5, <2>6, <2>7, <2>8
<1>4. CASE Finish(p) /\ UNCHANGED slipped
  <2>1. /\ loc' \in [Candidates -> SUBSET Places]
        /\ Captured' /\ OneFate' /\ ConsumedAsRecorded'
        /\ index' \in Tree /\ head' \in Tree /\ crashes' \in 0 .. MaxCrashes
    BY <1>2, <1>4
    DEF IInv, TypeOK, Captured, OneFate, ConsumedAsRecorded, files, git, counts
  <2> QED
    BY <1>1, <1>2, <1>4, <2>1, FinishStep DEF PromoteSteps, files, counts, history
<1> QED
  BY <1>3, <1>4 DEF CompareCandidate

(* The rename: an edit since the comparison is in slipped.                 *)
LEMMA MoveCandidateStep ==
  ASSUME IInv, NEW p \in Procs, MoveCandidate(p)
  PROVE  IInv'
<1> DEFINE c == plan[p].cand
<1>1. pc[p] = "rename" /\ c \in Candidates
  BY DEF MoveCandidate, IInv, PlanTyped, PromoteSteps, PromotePlanType
<1>2. /\ Relocate(c, (loc[c] \ {"inbox"}) \cup {"consumed"}) /\ Goto(p, "stage")
      /\ UNCHANGED <<rule, ledger, git, lock, plan, history, counts>>
  BY DEF MoveCandidate
<1>3. loc[c] = {"inbox"}
  BY <1>1 DEF IInv, ApplyWhere
<1>4. Relocate(c, {"consumed"})
  BY <1>2, <1>3 DEF Relocate
<1>5. c \notin slipped => rule[c] \in recorded[c]
  BY <1>1 DEF IInv, MoveRecorded, MoveCompared
<1> QED
  BY <1>1, <1>2, <1>3, <1>4, <1>5, RelocateStep DEF PromoteSteps, RejectSteps, Places

(* The last step of a command that ends with an index or nothing changed.  *)
LEMMA FinishFilesStep ==
  ASSUME IInv, NEW p \in Procs, pc[p] \in PromoteSteps \cup RejectSteps, Finish(p),
         UNCHANGED <<files, history, edits>>,
         index' \in Tree, head' \in Tree, crashes' \in 0 .. MaxCrashes
  PROVE  IInv'
<1>1. /\ loc' \in [Candidates -> SUBSET Places]
      /\ Captured' /\ OneFate' /\ ConsumedAsRecorded'
  BY DEF IInv, TypeOK, Captured, OneFate, ConsumedAsRecorded, files, history
<1> QED
  BY <1>1, FinishStep DEF files

LEMMA StagePromoteStep ==
  ASSUME IInv, NEW p \in Procs, StagePromote(p)
  PROVE  IInv'
<1>1. pc[p] = "stage" /\ plan[p] \in PromotePlanType
  BY DEF StagePromote, IInv, PlanTyped, PromoteSteps
<1>2. plan[p].cand \in Candidates /\ plan[p].store \in Stores
  BY <1>1 DEF PromotePlanType
<1>3. \A places \in SUBSET Places : Staged(plan[p].cand, places) \in SUBSET Places
  BY <1>2 DEF Staged, IInv, TypeOK, Tree
<1>4. index' \in Tree
  <2>1. CASE UNCHANGED index
    BY <2>1 DEF IInv, TypeOK
  <2>2. CASE \E places \in SUBSET Places :
               index' = [index EXCEPT !.ledger[plan[p].store] = ledger[plan[p].store],
                                      !.loc[plan[p].cand] = Staged(plan[p].cand, places)]
    <3>1. PICK places \in SUBSET Places :
             index' = [index EXCEPT !.ledger[plan[p].store] = ledger[plan[p].store],
                                    !.loc[plan[p].cand] = Staged(plan[p].cand, places)]
      BY <2>2
    <3>2. /\ index \in Tree /\ ledger[plan[p].store] \in SUBSET Entry
          /\ Staged(plan[p].cand, places) \in SUBSET Places
      BY <1>2, <1>3, <3>1 DEF IInv, TypeOK
    <3> QED
      BY <1>2, <3>1, <3>2 DEF Tree
  <2> QED
    BY <2>1, <2>2 DEF StagePromote, Places
<1>5. /\ Finish(p) /\ UNCHANGED <<files, head, history, counts>>
  BY DEF StagePromote
<1>6. head' \in Tree /\ crashes' \in 0 .. MaxCrashes
  BY <1>5 DEF IInv, TypeOK, counts
<1> QED
  BY <1>1, <1>4, <1>5, <1>6, FinishFilesStep DEF PromoteSteps, counts

LEMMA LinkRejectedStep ==
  ASSUME IInv, NEW p \in Procs, LinkRejected(p)
  PROVE  IInv'
<1> DEFINE c == plan[p].cand
<1>1. pc[p] = "link" /\ c \in Candidates
  BY DEF LinkRejected, IInv, PlanTyped, RejectSteps, RejectPlanType
<1>2. loc[c] = {"inbox"}
  BY <1>1 DEF LinkRejected, IInv, OneFate, Captured
<1>3. Relocate(c, {"inbox", "rejected"})
  BY <1>2 DEF LinkRejected, Relocate
<1> QED
  BY <1>1, <1>2, <1>3, RelocateStep
  DEF LinkRejected, PromoteSteps, RejectSteps, Places

LEMMA UnlinkInboxStep ==
  ASSUME IInv, NEW p \in Procs, UnlinkInbox(p)
  PROVE  IInv'
<1> DEFINE c == plan[p].cand
<1>1. pc[p] = "unlink" /\ c \in Candidates
  BY DEF UnlinkInbox, IInv, PlanTyped, RejectSteps, RejectPlanType
<1>2. loc[c] = {"inbox", "rejected"}
  BY <1>1 DEF IInv, ApplyWhere
<1>3. UNCHANGED <<rule, ledger, git, history, counts>>
  BY DEF UnlinkInbox
<1>4. CASE /\ Relocate(c, loc[c] \ {"inbox"})
           /\ Goto(p, "rstage")
           /\ UNCHANGED <<lock, plan>>
  <2>1. Relocate(c, {"rejected"})
    BY <1>2, <1>4 DEF Relocate
  <2> QED
    BY <1>1, <1>2, <1>3, <1>4, <2>1, RelocateStep
    DEF PromoteSteps, RejectSteps, Places
<1>5. CASE /\ loc' \in {loc, [loc EXCEPT ![c] = @ \ {"inbox"}]}
           /\ Finish(p)
  <2>1. loc' \in {loc, [loc EXCEPT ![c] = {"rejected"}]}
    BY <1>2, <1>5
  <2>2. /\ rule' = rule /\ recorded' = recorded /\ slipped' = slipped
        /\ index' \in Tree /\ head' \in Tree /\ crashes' \in 0 .. MaxCrashes
    BY <1>3 DEF IInv, TypeOK, git, history, counts
  <2>3. loc' \in [Candidates -> SUBSET Places]
    BY <2>1 DEF IInv, TypeOK, Places
  <2>4. /\ \A d \in Candidates : d # c => loc'[d] = loc[d]
        /\ loc'[c] \in {{"inbox", "rejected"}, {"rejected"}}
    BY <1>1, <1>2, <2>1 DEF IInv, TypeOK
  <2>5. Captured'
    BY <1>2, <2>2, <2>4 DEF IInv, Captured
  <2>6. OneFate'
    BY <2>2, <2>4 DEF IInv, OneFate
  <2>7. ConsumedAsRecorded'
    BY <2>2, <2>4 DEF IInv, ConsumedAsRecorded
  <2> QED
    BY <1>1, <1>3, <1>5, <2>2, <2>3, <2>5, <2>6, <2>7, FinishStep
    DEF RejectSteps, counts, history
<1> QED
  BY <1>4, <1>5 DEF UnlinkInbox

LEMMA StageRejectStep ==
  ASSUME IInv, NEW p \in Procs, StageReject(p)
  PROVE  IInv'
<1>1. pc[p] = "rstage" /\ plan[p].cand \in Candidates
  BY DEF StageReject, IInv, PlanTyped, RejectSteps, RejectPlanType
<1>2. Staged(plan[p].cand, RejectPaths(plan[p])) \in SUBSET Places
  BY <1>1 DEF Staged, RejectPaths, IInv, TypeOK, Tree
<1>3. /\ index' = [index EXCEPT !.loc[plan[p].cand] =
                                   Staged(plan[p].cand, RejectPaths(plan[p]))]
      /\ Finish(p) /\ UNCHANGED <<files, head, history, counts>>
  BY DEF StageReject
<1>4. index' \in Tree /\ head' \in Tree /\ crashes' \in 0 .. MaxCrashes
  BY <1>1, <1>2, <1>3 DEF IInv, TypeOK, Tree, counts
<1> QED
  BY <1>1, <1>3, <1>4, FinishFilesStep DEF RejectSteps, counts

LEMMA StageRejectFailsStep ==
  ASSUME IInv, NEW p \in Procs, StageRejectFails(p)
  PROVE  IInv'
<1> DEFINE c == plan[p].cand
           back == (index.loc[c] \ RejectPaths(plan[p]))
                     \cup (head.loc[c] \cap RejectPaths(plan[p]))
<1>1. /\ pc[p] = "rstage"
      /\ pc' = [pc EXCEPT ![p] = "relink"]
      /\ index' = [index EXCEPT !.loc[c] = back]
      /\ UNCHANGED <<files, head, lock, plan, history, counts>>
  BY DEF StageRejectFails, Goto
<1>2. c \in Candidates
  BY <1>1 DEF IInv, PlanTyped, RejectSteps, RejectPlanType
<1>3. back \in SUBSET Places
  BY <1>2 DEF IInv, TypeOK, Tree
<1>4. index' \in Tree
  BY <1>1, <1>2, <1>3 DEF IInv, TypeOK, Tree
<1> USE <1>1 DEF IInv, files, history, counts
<1>5. TypeOK'
  BY <1>4 DEF TypeOK, RejectSteps
<1>6. LockOwner' /\ PlanTyped'
  BY DEF LockOwner, PlanTyped, TypeOK, PromoteSteps, RejectSteps
<1>7. Captured' /\ OneFate' /\ ConsumedAsRecorded'
  BY DEF Captured, OneFate, ConsumedAsRecorded
<1>8. ApplyWhere'
  BY DEF ApplyWhere, TypeOK
<1>9. PostRecorded' /\ MoveRecorded' /\ MoveCompared' /\ PostUnique'
  BY DEF PostRecorded, MoveRecorded, MoveCompared, PostUnique, TypeOK
<1>10. LedgerIdsUnique' /\ LinesRecorded'
  BY DEF LedgerIdsUnique, LinesRecorded
<1> QED
  BY <1>5, <1>6, <1>7, <1>8, <1>9, <1>10

LEMMA RelinkInboxStep ==
  ASSUME IInv, NEW p \in Procs, RelinkInbox(p)
  PROVE  IInv'
<1> DEFINE c == plan[p].cand
<1>1. pc[p] = "relink" /\ c \in Candidates
  BY DEF RelinkInbox, IInv, PlanTyped, RejectSteps, RejectPlanType
<1>2. loc[c] = {"rejected"}
  BY <1>1 DEF IInv, ApplyWhere
<1>3. Relocate(c, {"inbox", "rejected"})
  <2>1. {"rejected"} \cup {"inbox"} = {"inbox", "rejected"}
    OBVIOUS
  <2> QED
    BY <1>2, <2>1 DEF RelinkInbox, Relocate
<1>4. /\ Goto(p, "runlink")
      /\ UNCHANGED <<rule, ledger, git, lock, plan, history, counts>>
  BY DEF RelinkInbox
<1> QED
  BY <1>1, <1>2, <1>3, <1>4, RelocateStep DEF PromoteSteps, RejectSteps, Places

LEMMA UnlinkRejectedStep ==
  ASSUME IInv, NEW p \in Procs, UnlinkRejected(p)
  PROVE  IInv'
<1> DEFINE c == plan[p].cand
<1>1. pc[p] = "runlink" /\ c \in Candidates
  BY DEF UnlinkRejected, IInv, PlanTyped, RejectSteps, RejectPlanType
<1>2. loc[c] = {"inbox", "rejected"}
  BY <1>1 DEF IInv, ApplyWhere
<1>3. /\ loc' = [loc EXCEPT ![c] = {"inbox"}]
      /\ Finish(p)
      /\ UNCHANGED <<rule, ledger, git, history, counts>>
  BY <1>2 DEF UnlinkRejected, Relocate
<1>4. /\ loc' \in [Candidates -> SUBSET Places]
      /\ Captured' /\ OneFate' /\ ConsumedAsRecorded'
      /\ index' \in Tree /\ head' \in Tree /\ crashes' \in 0 .. MaxCrashes
  BY <1>1, <1>2, <1>3
  DEF IInv, TypeOK, Captured, OneFate, ConsumedAsRecorded, git, history, counts, Places
<1> QED
  BY <1>1, <1>3, <1>4, FinishStep DEF RejectSteps, counts, history

LEMMA InterruptStep ==
  ASSUME IInv, NEW p \in Procs, Interrupt(p)
  PROVE  IInv'
<1>1. /\ pc[p] \in PromoteSteps \cup RejectSteps
      /\ Finish(p) /\ UNCHANGED <<files, git, history, edits>>
  BY DEF Interrupt, IInv, TypeOK
<1>2. index' \in Tree /\ head' \in Tree /\ crashes' \in 0 .. MaxCrashes
  BY <1>1, ConstantsOK DEF Interrupt, IInv, TypeOK, git
<1> QED
  BY <1>1, <1>2, FinishFilesStep

-----------------------------------------------------------------------------
(* Captures and the user.                                                  *)

(* A step that touches neither processes nor ledgers, nor what they noted. *)
LEMMA OutsideStep ==
  ASSUME IInv, UNCHANGED <<ledger, control, recorded, replaced>>,
         slipped' \in SUBSET Candidates,
         loc' \in [Candidates -> SUBSET Places],
         rule' \in [Candidates -> CandidateRule \cup {NoRule}],
         index' \in Tree, head' \in Tree,
         crashes' \in 0 .. MaxCrashes, edits' \in 0 .. MaxEdits,
         Captured', OneFate', ConsumedAsRecorded', ApplyWhere', MoveCompared'
  PROVE  IInv'
<1> USE DEF IInv, control
<1>1. TypeOK'
  BY DEF TypeOK
<1>2. LockOwner' /\ PlanTyped'
  BY DEF LockOwner, PlanTyped
<1>3. PostRecorded' /\ MoveRecorded' /\ PostUnique'
  BY DEF PostRecorded, MoveRecorded, PostUnique
<1>4. LedgerIdsUnique' /\ LinesRecorded'
  BY DEF LedgerIdsUnique, LinesRecorded
<1> QED
  BY <1>1, <1>2, <1>3, <1>4

(* The candidate of a running apply has a file.                            *)
LEMMA UnderApply ==
  ASSUME IInv, NEW p \in Procs, pc[p] \in PromoteSteps \cup RejectSteps
  PROVE  plan[p].cand \in Candidates /\ loc[plan[p].cand] # {}
<1>1. plan[p].cand \in Candidates
  <2>1. CASE pc[p] \in PromoteSteps
    BY <2>1 DEF IInv, PlanTyped, PromotePlanType
  <2>2. CASE pc[p] \in RejectSteps
    BY <2>2 DEF IInv, PlanTyped, RejectPlanType
  <2> QED
    BY <2>1, <2>2
<1>2. loc[plan[p].cand] # {}
  BY DEF IInv, ApplyWhere, PromoteSteps, RejectSteps
<1> QED
  BY <1>1, <1>2

LEMMA CaptureStep ==
  ASSUME IInv, NEW c \in Candidates, NEW r \in CaptureRules, Capture(c, r)
  PROVE  IInv'
<1>1. /\ loc[c] = {}
      /\ loc' = [loc EXCEPT ![c] = {"inbox"}]
      /\ rule' = [rule EXCEPT ![c] = r]
      /\ r \in CandidateRule /\ r # NoRule
      /\ UNCHANGED <<ledger, index, head, control, history, crashes, edits>>
  BY ConstantsOK DEF Capture, Relocate, git, counts
<1> USE <1>1 DEF IInv, TypeOK
<1>2. /\ loc' \in [Candidates -> SUBSET Places]
      /\ rule' \in [Candidates -> CandidateRule \cup {NoRule}]
  BY DEF Places
<1>3. Captured' /\ OneFate' /\ ConsumedAsRecorded'
  BY DEF Captured, OneFate, ConsumedAsRecorded, history
<1>4. ApplyWhere'
  <2>1. plan' = plan /\ pc' = pc
    BY DEF control
  <2>2. \A d \in Candidates : loc[d] # {} => loc'[d] = loc[d]
    BY <1>1
  <2>3. \A p \in Procs : pc[p] \in PromoteSteps \cup RejectSteps =>
           plan[p].cand \in Candidates /\ loc[plan[p].cand] # {}
    BY UnderApply DEF IInv
  <2>4. \A p \in Procs : pc[p] \in PromoteSteps \cup RejectSteps =>
           loc'[plan[p].cand] = loc[plan[p].cand]
    BY <2>2, <2>3
  <2> QED
    BY <2>1, <2>4 DEF ApplyWhere, PromoteSteps, RejectSteps
<1>5. MoveCompared'
  <2>1. \A p \in Procs : pc[p] = "rename" =>
           plan[p].cand \in Candidates /\ plan[p].cand # c
    BY UnderApply DEF IInv, PromoteSteps
  <2> QED
    BY <2>1 DEF MoveCompared, control, history
<1> QED
  BY <1>2, <1>3, <1>4, <1>5, OutsideStep DEF history

LEMMA EditCandidateStep ==
  ASSUME IInv, NEW c \in Candidates, NEW r \in CaptureRules, EditCandidate(c, r)
  PROVE  IInv'
<1>1. /\ loc[c] = {"inbox"}
      /\ rule' = [rule EXCEPT ![c] = r]
      /\ r \in CandidateRule /\ r # NoRule
      /\ edits' = edits + 1 /\ edits < MaxEdits
      /\ slipped' = IF Moving(c) THEN slipped \cup {c} ELSE slipped
      /\ UNCHANGED <<loc, ledger, index, head, control, recorded, replaced, crashes>>
  BY ConstantsOK DEF EditCandidate, HandEdit, git
<1> USE <1>1 DEF IInv, TypeOK
<1>2. /\ rule' \in [Candidates -> CandidateRule \cup {NoRule}]
      /\ edits' \in 0 .. MaxEdits /\ slipped' \in SUBSET Candidates
  BY ConstantsOK
<1>3. Captured' /\ OneFate' /\ ConsumedAsRecorded'
  BY DEF Captured, OneFate, ConsumedAsRecorded
<1>4. ApplyWhere'
  BY DEF ApplyWhere, control
<1>5. MoveCompared'
  <2>1. \A p \in Procs : pc[p] = "rename" => plan[p].cand \in Candidates
    BY UnderApply DEF IInv, PromoteSteps
  <2> QED
    BY <2>1 DEF MoveCompared, Moving, control
<1> QED
  BY <1>2, <1>3, <1>4, <1>5, OutsideStep

LEMMA ArchiveByHandStep ==
  ASSUME IInv, NEW s \in Stores, NEW e \in ledger[s], ArchiveByHand(s, e)
  PROVE  IInv'
<1>1. /\ ledger' = [ledger EXCEPT ![s] = (@ \ {e}) \cup {[e EXCEPT !.active = FALSE]}]
      /\ edits' = edits + 1 /\ edits < MaxEdits
      /\ UNCHANGED <<loc, rule, index, head, lock, pc, plan, recorded, replaced,
                     slipped, crashes>>
  BY DEF ArchiveByHand, HandEdit, git, control, history
<1>2. e \in Entry
  BY DEF IInv, TypeOK
<1>3. PICK a \in Entry : /\ a = [e EXCEPT !.active = FALSE]
                         /\ a.id = e.id /\ a.from = e.from /\ a.rule = e.rule
  <2>1. \A f \in Entry : LET a == [f EXCEPT !.active = FALSE] IN
           a \in Entry /\ a.id = f.id /\ a.from = f.from /\ a.rule = f.rule
    BY DEF Entry
  <2> QED
    BY <1>2, <2>1
<1>4. \A t \in Stores : /\ ledger'[t] \in SUBSET Entry
                        /\ \A f \in ledger'[t] :
                              f \in ledger[t] \/ (t = s /\ f = a)
  BY <1>1, <1>3 DEF IInv, TypeOK
<1>5. e \notin ledger'[s] \/ e = a
  BY <1>1, <1>3 DEF IInv, TypeOK
<1> USE DEF IInv
<1>6. TypeOK'
  BY <1>1, <1>4, ConstantsOK DEF TypeOK
<1>7. LockOwner' /\ PlanTyped' /\ Captured' /\ OneFate' /\ ConsumedAsRecorded'
  BY <1>1 DEF LockOwner, PlanTyped, Captured, OneFate, ConsumedAsRecorded
<1>8. ApplyWhere' /\ PostRecorded' /\ MoveRecorded' /\ MoveCompared' /\ PostUnique'
  BY <1>1 DEF ApplyWhere, PostRecorded, MoveRecorded, MoveCompared, PostUnique
<1>9. LedgerIdsUnique'
  <2>1. \A t \in Stores : UniqueIdsIn(ledger'[t])
    <3> SUFFICES ASSUME NEW t \in Stores, NEW f \in ledger'[t], NEW g \in ledger'[t],
                        f.id = g.id
                 PROVE  f = g
      BY DEF UniqueIdsIn
    <3>1. CASE f \in ledger[t] /\ g \in ledger[t]
      BY <3>1 DEF LedgerIdsUnique, UniqueIdsIn
    <3>2. CASE t = s /\ f = a /\ g \in ledger[t]
      BY <1>3, <1>5, <3>2 DEF LedgerIdsUnique, UniqueIdsIn
    <3>3. CASE t = s /\ g = a /\ f \in ledger[t]
      BY <1>3, <1>5, <3>3 DEF LedgerIdsUnique, UniqueIdsIn
    <3>4. CASE f = a /\ g = a
      BY <3>4
    <3> QED
      BY <1>4, <3>1, <3>2, <3>3, <3>4
  <2> QED
    BY <2>1 DEF LedgerIdsUnique, UniqueIdsIn
<1>10. LinesRecorded'
  <2>1. \A t \in Stores : \A f \in ledger'[t] : Spelled(t, f, recorded)
    <3>1. Spelled(s, e, recorded)
      BY DEF LinesRecorded
    <3>2. Spelled(s, a, recorded)
      BY <1>3, <3>1 DEF Spelled
    <3> QED
      BY <1>4, <3>2 DEF LinesRecorded
  <2> QED
    BY <1>1, <2>1 DEF LinesRecorded, Spelled, Rendered
<1> QED
  BY <1>6, <1>7, <1>8, <1>9, <1>10

LEMMA ResolvePairStep ==
  ASSUME IInv, NEW c \in Candidates, NEW d \in Places, d \in loc[c], ResolvePair(c, d)
  PROVE  IInv'
<1>1. /\ lock = NoProc
      /\ loc[c] = {"inbox", "rejected"}
      /\ loc' = [loc EXCEPT ![c] = {d}]
      /\ UNCHANGED <<rule, ledger, index, head, control, history, crashes, edits>>
  BY DEF ResolvePair, Relocate, git, counts
<1> USE <1>1 DEF IInv, TypeOK
<1>2. loc' \in [Candidates -> SUBSET Places]
  OBVIOUS
<1>3. Captured' /\ OneFate' /\ ConsumedAsRecorded'
  BY DEF Captured, OneFate, ConsumedAsRecorded, history
<1>4. ApplyWhere' /\ MoveCompared'
  BY ConstantsOK DEF ApplyWhere, MoveCompared, control, history, LockOwner, RejectSteps
<1> QED
  BY <1>2, <1>3, <1>4, OutsideStep DEF history

LEMMA GitStep ==
  ASSUME IInv, UNCHANGED <<files, control, history, counts>>,
         index' \in Tree, head' \in Tree
  PROVE  IInv'
<1>1. /\ loc' \in [Candidates -> SUBSET Places]
      /\ rule' \in [Candidates -> CandidateRule \cup {NoRule}]
      /\ crashes' \in 0 .. MaxCrashes /\ edits' \in 0 .. MaxEdits
  BY DEF IInv, TypeOK, files, counts
<1>2. /\ Captured' /\ OneFate' /\ ConsumedAsRecorded'
      /\ ApplyWhere' /\ MoveCompared' /\ slipped' \in SUBSET Candidates
  BY DEF IInv, TypeOK, Captured, OneFate, ConsumedAsRecorded, ApplyWhere,
         MoveCompared, files, control, history
<1> QED
  BY <1>1, <1>2, OutsideStep DEF files, history

LEMMA UserStep ==
  ASSUME IInv, User
  PROVE  IInv'
<1>1. CASE \E c \in Candidates, r \in CaptureRules : Capture(c, r) \/ EditCandidate(c, r)
  BY <1>1, CaptureStep, EditCandidateStep
<1>2. CASE \E s \in Stores : \E e \in ledger[s] : ArchiveByHand(s, e)
  BY <1>2, ArchiveByHandStep
<1>3. CASE \E c \in Candidates, d \in Places : d \in loc[c] /\ ResolvePair(c, d)
  BY <1>3, ResolvePairStep
<1>4. CASE \E c \in Candidates : GitAddCandidate(c)
  <2>1. PICK c \in Candidates : GitAddCandidate(c)
    BY <1>4
  <2>2. index' \in Tree /\ head' \in Tree
    BY <2>1 DEF GitAddCandidate, IInv, TypeOK, Tree, Places
  <2> QED
    BY <2>1, <2>2, GitStep DEF GitAddCandidate
<1>5. CASE GitCommit
  <2>1. index' \in Tree /\ head' \in Tree
    BY <1>5 DEF GitCommit, IInv, TypeOK
  <2> QED
    BY <1>5, <2>1, GitStep DEF GitCommit
<1> QED
  BY <1>1, <1>2, <1>3, <1>4, <1>5 DEF User

-----------------------------------------------------------------------------
(* The inductive invariant holds for ever, and so do the properties in it. *)
LEMMA NextInvariant == IInv /\ [Next]_vars => IInv'
<1> SUFFICES ASSUME IInv, [Next]_vars PROVE IInv'
  OBVIOUS
<1>1. CASE \E p \in Procs : Preview(p)
  BY <1>1, PreviewStep
<1>2. CASE \E p \in Procs : Step(p)
  BY <1>2, StartApplyStep, RefuseApplyStep, WriteLedgerStep, CompareCandidateStep,
     MoveCandidateStep, StagePromoteStep, LinkRejectedStep, UnlinkInboxStep, StageRejectStep,
     StageRejectFailsStep, RelinkInboxStep, UnlinkRejectedStep
  DEF Step
<1>3. CASE \E p \in Procs : Interrupt(p)
  BY <1>3, InterruptStep
<1>4. CASE User
  BY <1>4, UserStep
<1>5. CASE UNCHANGED vars
  <2>1. UNCHANGED <<files, control, history, counts>> /\ index' = index /\ head' = head
    BY <1>5 DEF vars, git
  <2> QED
    BY <2>1, GitStep DEF IInv, TypeOK
<1> QED
  BY <1>1, <1>2, <1>3, <1>4, <1>5 DEF Next

THEOREM Invariant == Spec => []IInv
<1> QED
  BY InitInvariant, NextInvariant, PTL DEF Spec

(* Every variable keeps its type, the plans and the Git trees included.    *)
THEOREM TypeCorrect == Spec => []TypeOK
<1>1. IInv => TypeOK
  BY DEF IInv
<1> QED
  BY Invariant, <1>1, PTL

(* Processes that promote and reject one candidate, and die at any step,   *)
(* never lose its file nor give it two fates.                              *)
THEOREM CandidatesHaveOneFate == Spec => []OneFate
<1>1. IInv => OneFate
  BY DEF IInv
<1> QED
  BY Invariant, <1>1, PTL

(* What is archived as consumed is what a ledger has been given.           *)
THEOREM ConsumedIsRecorded == Spec => []ConsumedAsRecorded
<1>1. IInv => ConsumedAsRecorded
  BY DEF IInv
<1> QED
  BY Invariant, <1>1, PTL

(* No ledger ever has one number on two lines.                             *)
THEOREM LessonNumbersUnique == Spec => []LedgerIdsUnique
<1>1. IInv => LedgerIdsUnique
  BY DEF IInv
<1> QED
  BY Invariant, <1>1, PTL
=============================================================================
