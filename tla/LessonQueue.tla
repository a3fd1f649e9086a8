----------------------------- MODULE LessonQueue -----------------------------
(***************************************************************************)
(* The review queue of lesson candidates: `agent-core lessons capture`,    *)
(* `lessons promote` and `lessons reject` (agent_core/local_promote.py,    *)
(* candidates.py, lock.py), run by several processes on one repository     *)
(* that holds the inbox and the ledgers.                                   *)
(*                                                                         *)
(* A promote or reject is a preview, which takes no lock and yields a plan *)
(* bound by a hash to everything it read, and an apply, which takes the    *)
(* operation lock, plans again, refuses unless the two plans are equal,    *)
(* and then changes the files one at a time.  A process may die between    *)
(* any two of those changes; the operating system then frees its lock.     *)
(* Captures, the user's editor and the user's `git` take no lock.          *)
(***************************************************************************)
EXTENDS Naturals, FiniteSets, FiniteSetsExt

CONSTANTS
  Procs,           \* agent-core processes (one per agent session)
  Candidates,      \* candidate ids: fresh UUIDs, one per capture
  Stores,          \* ledgers in this repository
  DotStores,       \* the global and profile ledgers among them
  Texts,           \* rule texts, up to their closing full stops
  CaptureRules,    \* bound: the rules a capture or an edit may give
  SeedLedger,      \* what each ledger holds at the start
  MaxId,           \* bound: the largest lesson number
  MaxCrashes,      \* bound: how many processes may die
  MaxEdits,        \* bound: how many edits by hand
  EditsRaceApply,  \* whether user edits may fall inside an apply
  NoProc, NoPlan, NoRule, Seed

Ids     == 1 .. MaxId
NoId    == 0
Places  == {"inbox", "consumed", "rejected"}

(* A rule's text with the number of full stops at its end: the renderer of *)
(* the global and profile ledgers adds one.                                *)
CandidateRule == [text : Texts, dots : 0 .. 1]
LedgerRule    == [text : Texts, dots : 0 .. 2]

(* One ledger line.  `sup` is its supersedes field, `by` its superseded_by *)
(* field, `active` whether it stands in the active section.                *)
Entry == [id : Ids, rule : LedgerRule, from : Candidates \cup {Seed},
          sup : Ids \cup {NoId}, by : Ids \cup {NoId}, active : BOOLEAN]

UniqueIdsIn(L) == \A e, f \in L : e.id = f.id => e = f

NoDuplicateIn(L) ==
  \A e, f \in L : e.active /\ f.active /\ e.rule = f.rule => e.id = f.id

ASSUME ConstantsOK ==
  /\ DotStores \subseteq Stores
  /\ CaptureRules \subseteq CandidateRule
  /\ MaxId \in Nat /\ MaxCrashes \in Nat /\ MaxEdits \in Nat
  /\ EditsRaceApply \in BOOLEAN
  /\ NoProc \notin Procs /\ NoRule \notin CandidateRule
  /\ Seed \notin Candidates
  /\ SeedLedger \in [Stores -> SUBSET Entry]
  /\ \A s \in Stores : /\ UniqueIdsIn(SeedLedger[s])
                       /\ NoDuplicateIn(SeedLedger[s])
                       /\ \A e \in SeedLedger[s] :
                             e.from = Seed /\ e.sup = NoId /\ e.by = NoId

VARIABLES
  loc,       \* loc[c]: the directories that hold a file of candidate c
  rule,      \* rule[c]: the rule in that file
  ledger,    \* ledger[s]: the lines of ledger s on disk
  index,     \* the Git index: its candidate files and ledgers
  head,      \* the tree of HEAD, of the same form
  lock,      \* holder of <control>/locks/promote.lock
  pc,        \* pc[p]: the next step of process p
  plan,      \* plan[p]: the plan p previewed, and applies
  recorded,  \* history: recorded[c], the rules of c an apply has written
  replaced,  \* history: candidates whose line an --update replaced
  slipped,   \* history: candidates edited between comparison and rename
  crashes,   \* how many processes have died
  edits      \* how many edits by hand were made

files   == <<loc, rule, ledger>>
git     == <<index, head>>
control == <<lock, pc, plan>>
history == <<recorded, replaced, slipped>>
counts  == <<crashes, edits>>
vars    == <<files, git, control, history, counts>>

-----------------------------------------------------------------------------
(* Ledger text.                                                            *)

(* A mutant: the full stop is rendered twice.                              *)
RenderedTwice(s, r) == IF s \in DotStores THEN [r EXCEPT !.dots = @ + 2] ELSE r

Rendered(s, r) == IF s \in DotStores THEN [r EXCEPT !.dots = @ + 1] ELSE r

NextId(s) == Max({NoId} \cup {e.id : e \in ledger[s]}) + 1

From(s, c) == {e \in ledger[s] : e.from = c}

ActiveIds(s) == {e.id : e \in {f \in ledger[s] : f.active}}

(* A mutant: any line made from the candidate counts as its finished write. *)
SameOrigin(e, f) == e.from = f.from /\ e.id = f.id

(* The section of a line is not part of its text.                          *)
SameLine(e, f) == [e EXCEPT !.active = TRUE] = [f EXCEPT !.active = TRUE]

(* --force-new, --update <id>, --supersedes <id>: exactly one is given.    *)
ReviewChoices == [kind : {"new"}, id : {NoId}]
                   \cup [kind : {"update", "supersede"}, id : Ids]

(* The number of the line to write: the updated one's; else that of a line *)
(* already made from c, by an apply that did not finish; else a new one.   *)
(* (Which one, when c has several, is the file's order: any.)              *)
ResultIds(c, s, ch) ==
  IF ch.kind = "update" THEN {ch.id}
  ELSE IF From(s, c) # {} THEN {e.id : e \in From(s, c)}
  ELSE {NextId(s)}

NewEntry(c, s, ch, rid) ==
  [id |-> rid, rule |-> Rendered(s, rule[c]), from |-> c,
   sup |-> IF ch.kind = "supersede" THEN ch.id ELSE NoId,
   by |-> NoId, active |-> TRUE]

(* The duplicate check compares the rule as the candidate spells it with   *)
(* the rules as the ledgers spell them, in their active sections.          *)
ExactIds(s, r) == {e.id : e \in {f \in ledger[s] : f.active /\ f.rule = r}}

ExactElsewhere(s, r) ==
  {x \in (Stores \ {s}) \X Ids : x[2] \in ExactIds(x[1], r)}

ArchiveSuperseded(L, id, rid) ==
  {IF e.active /\ e.id = id
     THEN [e EXCEPT !.active = FALSE, !.by = rid]
     ELSE e : e \in L}

Render(L, new, ch) ==
  CASE ch.kind = "update"    -> {e \in L : ~(e.active /\ e.id = ch.id)} \cup {new}
    [] ch.kind = "supersede" -> ArchiveSuperseded(L, ch.id, new.id) \cup {new}
    [] OTHER                 -> L \cup {new}

-----------------------------------------------------------------------------
(* Files and the Git index.                                                *)

Tracked(c) == "inbox" \in index.loc[c]

(* `git diff --cached --quiet -- <candidate paths>`                        *)
CandidateClean(c, places) ==
  index.loc[c] \cap places = head.loc[c] \cap places

LedgerClean(s) == index.ledger[s] = head.ledger[s]

(* `git add -- <candidate paths>`: the index takes what the disk holds.    *)
Staged(c, places) == (index.loc[c] \ places) \cup (loc[c] \cap places)

(* A mutant: the link count of a reviewed file is not looked at.           *)
AnyLinks(c) == c \in Candidates

(* A reviewed file is an ordinary file with exactly one link; inbox/ and   *)
(* rejected/ hold the same candidate only as two links to one file.        *)
SingleLink(c) == ~({"inbox", "rejected"} \subseteq loc[c])

Source(c) == IF "inbox" \in loc[c] THEN "inbox" ELSE "consumed"

-----------------------------------------------------------------------------
(* Previews.  Each is the set of plans it can yield: none when it refuses. *)

PromotePlan(c, s, ch, rid) ==
  LET new       == NewEntry(c, s, ch, rid)
      converges == \E e \in ledger[s] : SameLine(e, new)
  IN [kind |-> "promote", cand |-> c, store |-> s, choice |-> ch, id |-> rid,
      rule |-> rule[c], src |-> Source(c), tracked |-> Tracked(c),
      pre |-> ledger[s],
      post |-> IF converges THEN ledger[s] ELSE Render(ledger[s], new, ch),
      action |-> IF converges THEN "converge" ELSE "write",
      exact |-> ExactElsewhere(s, rule[c])]

(* A mutant: an update may repeat any rule of its ledger.                  *)
DuplicateBlocksNew(pl) ==
  \E i \in ExactIds(pl.store, pl.rule) :
     /\ pl.choice.kind # "update"
     /\ ~(pl.action = "converge" /\ i = pl.id)

(* A mutant: the line an unfinished apply left counts as a duplicate.      *)
DuplicateBlocksOwn(pl) ==
  \E i \in ExactIds(pl.store, pl.rule) :
     ~(pl.choice.kind = "update" /\ i = pl.choice.id)

(* FAIL_EXACT_DUPLICATE, save for the line being updated and the line an   *)
(* unfinished apply of the same candidate left.                            *)
DuplicateBlocks(pl) ==
  \E i \in ExactIds(pl.store, pl.rule) :
     /\ ~(pl.choice.kind = "update" /\ i = pl.choice.id)
     /\ ~(pl.action = "converge" /\ i = pl.id)

Promotable(c, s, ch) ==
  /\ loc[c] \cap {"inbox", "consumed"} # {} /\ SingleLink(c)
  /\ ch.kind = "update" => ch.id \in ActiveIds(s)
  /\ LedgerClean(s) /\ CandidateClean(c, {"inbox", "consumed"})

(* A mutant: the line to supersede may be archived already.                *)
PromotePlansAnyTarget(c, s, ch) ==
  {pl \in {PromotePlan(c, s, ch, rid) :
             rid \in {i \in ResultIds(c, s, ch) \cap Ids : Promotable(c, s, ch)}} :
     /\ ~DuplicateBlocks(pl)
     /\ ch.kind = "supersede" => \E e \in ledger[s] : e.id = ch.id}

PromotePlans(c, s, ch) ==
  {pl \in {PromotePlan(c, s, ch, rid) :
             rid \in {i \in ResultIds(c, s, ch) \cap Ids : Promotable(c, s, ch)}} :
     /\ ~DuplicateBlocks(pl)
     /\ pl.action = "write" /\ ch.kind = "supersede" => ch.id \in ActiveIds(s)}

RejectPlans(c) ==
  {pl \in {[kind |-> "reject", cand |-> c, rule |-> rule[c],
            tracked |-> Tracked(c), head |-> head]} :
     loc[c] = {"inbox"} /\ CandidateClean(c, {"inbox", "rejected"})}

Replans(pl) == IF pl.kind = "promote"
                 THEN PromotePlans(pl.cand, pl.store, pl.choice)
                 ELSE RejectPlans(pl.cand)

-----------------------------------------------------------------------------
(* Processes.                                                              *)

Goto(p, l) == pc' = [pc EXCEPT ![p] = l]

(* The end of a command, by success or by an error: the lock is released.  *)
Finish(p) == /\ Goto(p, "idle")
             /\ plan' = [plan EXCEPT ![p] = NoPlan]
             /\ lock' = NoProc

Relocate(c, places) == loc' = [loc EXCEPT ![c] = places]

PreviewPromote(p, c, s, ch) ==
  /\ pc[p] = "idle"
  /\ \E pl \in PromotePlans(c, s, ch) : plan' = [plan EXCEPT ![p] = pl]
  /\ Goto(p, "previewed")
  /\ UNCHANGED <<files, git, lock, history, counts>>

PreviewReject(p, c) ==
  /\ pc[p] = "idle"
  /\ \E pl \in RejectPlans(c) : plan' = [plan EXCEPT ![p] = pl]
  /\ Goto(p, "previewed")
  /\ UNCHANGED <<files, git, lock, history, counts>>

(* A mutant: the plan is not made again under the lock.                    *)
ApplicableStale(pl) ==
  pl.kind = "promote" /\ pl.action = "write" =>
     "consumed" \notin loc[pl.cand] /\ UniqueIdsIn(pl.post)

(* A mutant: the rendered ledger is not parsed before it is written.       *)
ApplicableUnparsed(pl) ==
  /\ pl \in Replans(pl)
  /\ pl.kind = "promote" /\ pl.action = "write" => "consumed" \notin loc[pl.cand]

(* Under the lock: the plan of now is the plan the user approved, the      *)
(* consumed/ name is free and the rendered ledger has no number twice.     *)
Applicable(pl) ==
  /\ pl \in Replans(pl)
  /\ pl.kind = "promote" /\ pl.action = "write" =>
        "consumed" \notin loc[pl.cand] /\ UniqueIdsIn(pl.post)

(* A mutant: the candidate is moved before the ledger is written.          *)
StartApplyMovesFirst(p) ==
  /\ pc[p] = "previewed"
  /\ lock = NoProc
  /\ Applicable(plan[p])
  /\ lock' = p
  /\ Goto(p, IF plan[p].kind = "reject" THEN "link"
             ELSE IF plan[p].src = "inbox" THEN "move" ELSE "stage")
  /\ UNCHANGED <<files, git, plan, history, counts>>

StartApply(p) ==
  /\ pc[p] = "previewed"
  /\ lock = NoProc
  /\ Applicable(plan[p])
  /\ lock' = p
  /\ Goto(p, IF plan[p].kind = "reject" THEN "link"
             ELSE IF plan[p].action = "write" THEN "write"
             ELSE IF plan[p].src = "inbox" THEN "move" ELSE "stage")
  /\ UNCHANGED <<files, git, plan, history, counts>>

(* FAIL_LOCKED, FAIL_INPUT_CHANGED, FAIL_CANDIDATE_STATE, FAIL_LEDGER.     *)
RefuseApply(p) ==
  /\ pc[p] = "previewed"
  /\ lock # NoProc \/ ~Applicable(plan[p])
  /\ Goto(p, "idle")
  /\ plan' = [plan EXCEPT ![p] = NoPlan]
  /\ UNCHANGED <<files, git, lock, history, counts>>

(* The ledger is replaced whole by the text rendered from the copy read    *)
(* under the lock; nothing looks at the file again first.                  *)
WriteLedger(p) ==
  LET pl == plan[p] IN
  /\ pc[p] = "write"
  /\ ledger' = [ledger EXCEPT ![pl.store] = pl.post]
  /\ recorded' = [recorded EXCEPT ![pl.cand] = @ \cup {pl.rule}]
  /\ replaced' = replaced \cup
       {e.from : e \in {f \in pl.pre : /\ pl.choice.kind = "update"
                                       /\ f.active /\ f.id = pl.choice.id}}
  /\ Goto(p, "move")
  /\ UNCHANGED <<loc, rule, git, lock, plan, slipped, counts>>

(* The candidate must still be the reviewed file; else FAIL_INPUT_CHANGED, *)
(* with the ledger already written.                                        *)
CompareCandidate(p) ==
  LET c == plan[p].cand IN
  /\ pc[p] = "move"
  /\ IF "inbox" \in loc[c] /\ SingleLink(c) /\ rule[c] = plan[p].rule
          /\ "consumed" \notin loc[c]
       THEN /\ Goto(p, "rename")
            /\ slipped' = slipped \ {c}
            /\ UNCHANGED <<lock, plan>>
       ELSE Finish(p) /\ UNCHANGED slipped
  /\ UNCHANGED <<files, git, recorded, replaced, counts>>

(* The rename takes whatever bears the candidate's name by then.           *)
MoveCandidate(p) ==
  LET c == plan[p].cand IN
  /\ pc[p] = "rename"
  /\ "inbox" \in loc[c]
  /\ Relocate(c, (loc[c] \ {"inbox"}) \cup {"consumed"})
  /\ Goto(p, "stage")
  /\ UNCHANGED <<rule, ledger, git, lock, plan, history, counts>>

(* A mutant: a converging apply, which wrote no ledger, stages none.       *)
StagePromoteOwnWrites(p) ==
  LET c      == plan[p].cand
      s      == plan[p].store
      places == {"consumed"} \cup (IF Tracked(c) THEN {"inbox"} ELSE {})
  IN
  /\ pc[p] = "stage"
  /\ IF Tracked(c) = plan[p].tracked
       THEN index' = [index EXCEPT
              !.ledger[s] = IF plan[p].action = "write" THEN ledger[s] ELSE @,
              !.loc[c] = Staged(c, places)]
       ELSE UNCHANGED index
  /\ Finish(p)
  /\ UNCHANGED <<files, head, history, counts>>

StagePromote(p) ==
  LET c      == plan[p].cand
      s      == plan[p].store
      places == {"consumed"} \cup (IF Tracked(c) THEN {"inbox"} ELSE {})
  IN
  /\ pc[p] = "stage"
  /\ IF Tracked(c) = plan[p].tracked
       THEN index' = [index EXCEPT !.ledger[s] = ledger[s],
                                   !.loc[c] = Staged(c, places)]
       ELSE UNCHANGED index
  /\ Finish(p)
  /\ UNCHANGED <<files, head, history, counts>>

(* rejected/ gets a second link to the file, then inbox/ loses its own.    *)
LinkRejected(p) ==
  LET c == plan[p].cand IN
  /\ pc[p] = "link"
  /\ "inbox" \in loc[c] /\ "rejected" \notin loc[c]
  /\ Relocate(c, loc[c] \cup {"rejected"})
  /\ Goto(p, "unlink")
  /\ UNCHANGED <<rule, ledger, git, lock, plan, history, counts>>

(* An edit since the plan was made shows as another size, before inbox/ is *)
(* unlinked, or only as other bytes, after it; both leave the files so.    *)
UnlinkInbox(p) ==
  LET c == plan[p].cand IN
  /\ pc[p] = "unlink"
  /\ \/ /\ rule[c] = plan[p].rule
        /\ Relocate(c, loc[c] \ {"inbox"})
        /\ Goto(p, "rstage")
        /\ UNCHANGED <<lock, plan>>
     \/ /\ rule[c] # plan[p].rule
        /\ loc' \in {loc, [loc EXCEPT ![c] = @ \ {"inbox"}]}
        /\ Finish(p)
  /\ UNCHANGED <<rule, ledger, git, history, counts>>

RejectPaths(pl) == {"rejected"} \cup (IF pl.tracked THEN {"inbox"} ELSE {})

(* `git add`, then the staged set must be exactly the reviewed paths.      *)
StageReject(p) ==
  LET c      == plan[p].cand
      places == RejectPaths(plan[p])
      after  == Staged(c, places)
  IN
  /\ pc[p] = "rstage"
  /\ \A d \in places : (d \in after) # (d \in head.loc[c])
  /\ index' = [index EXCEPT !.loc[c] = after]
  /\ Finish(p)
  /\ UNCHANGED <<files, head, history, counts>>

(* Staging failed: unstage, then move the file back the way it came.       *)
StageRejectFails(p) ==
  LET c      == plan[p].cand
      places == RejectPaths(plan[p])
  IN
  /\ pc[p] = "rstage"
  /\ index' = [index EXCEPT !.loc[c] = (@ \ places) \cup (head.loc[c] \cap places)]
  /\ Goto(p, "relink")
  /\ UNCHANGED <<files, head, lock, plan, history, counts>>

RelinkInbox(p) ==
  LET c == plan[p].cand IN
  /\ pc[p] = "relink"
  /\ "inbox" \notin loc[c]
  /\ Relocate(c, loc[c] \cup {"inbox"})
  /\ Goto(p, "runlink")
  /\ UNCHANGED <<rule, ledger, git, lock, plan, history, counts>>

UnlinkRejected(p) ==
  LET c == plan[p].cand IN
  /\ pc[p] = "runlink"
  /\ Relocate(c, loc[c] \ {"rejected"})
  /\ Finish(p)
  /\ UNCHANGED <<rule, ledger, git, history, counts>>

(* A process dies, or an apply of a promote stops at a file error: nothing *)
(* is undone, and the lock is free again.                                  *)
Interrupt(p) ==
  /\ pc[p] \notin {"idle", "previewed"}
  /\ crashes < MaxCrashes
  /\ crashes' = crashes + 1
  /\ Finish(p)
  /\ UNCHANGED <<files, git, history, edits>>

-----------------------------------------------------------------------------
(* Captures and the user, who take no lock.                                *)

Capture(c, r) ==
  /\ loc[c] = {}
  /\ Relocate(c, {"inbox"})
  /\ rule' = [rule EXCEPT ![c] = r]
  /\ UNCHANGED <<ledger, git, control, history, counts>>

HandEdit == /\ lock = NoProc \/ EditsRaceApply
            /\ edits < MaxEdits
            /\ edits' = edits + 1

(* An apply is between its comparison and its rename of this candidate.    *)
Moving(c) == \E p \in Procs : pc[p] = "rename" /\ plan[p].cand = c

EditCandidate(c, r) ==
  /\ HandEdit
  /\ loc[c] = {"inbox"}
  /\ rule[c] # r
  /\ rule' = [rule EXCEPT ![c] = r]
  /\ slipped' = IF Moving(c) THEN slipped \cup {c} ELSE slipped
  /\ UNCHANGED <<loc, ledger, git, control, recorded, replaced, crashes>>

(* Retirement is by hand: the user moves a line to the archive section.    *)
ArchiveByHand(s, e) ==
  /\ HandEdit
  /\ e \in ledger[s] /\ e.active
  /\ ledger' = [ledger EXCEPT ![s] = (@ \ {e}) \cup {[e EXCEPT !.active = FALSE]}]
  /\ UNCHANGED <<loc, rule, git, control, history, crashes>>

(* One of the two links an interrupted reject left is removed by hand.     *)
ResolvePair(c, d) ==
  /\ lock = NoProc
  /\ loc[c] = {"inbox", "rejected"}
  /\ Relocate(c, {d})
  /\ UNCHANGED <<rule, ledger, git, control, history, counts>>

GitAddCandidate(c) ==
  /\ loc[c] = {"inbox"} /\ ~Tracked(c)
  /\ index' = [index EXCEPT !.loc[c] = @ \cup {"inbox"}]
  /\ UNCHANGED <<files, head, control, history, counts>>

GitCommit ==
  /\ index # head
  /\ head' = index
  /\ UNCHANGED <<files, index, control, history, counts>>

-----------------------------------------------------------------------------
Tree == [loc : [Candidates -> SUBSET Places], ledger : [Stores -> SUBSET Entry]]

Init ==
  /\ loc = [c \in Candidates |-> {}]
  /\ rule = [c \in Candidates |-> NoRule]
  /\ ledger = SeedLedger
  /\ index = [loc |-> loc, ledger |-> SeedLedger]
  /\ head = index
  /\ lock = NoProc
  /\ pc = [p \in Procs |-> "idle"]
  /\ plan = [p \in Procs |-> NoPlan]
  /\ recorded = [c \in Candidates |-> {}]
  /\ replaced = {} /\ slipped = {}
  /\ crashes = 0 /\ edits = 0

Preview(p) ==
  \E c \in Candidates :
     \/ \E s \in Stores, ch \in ReviewChoices : PreviewPromote(p, c, s, ch)
     \/ PreviewReject(p, c)

(* The steps a running command takes of itself.                            *)
Step(p) ==
  \/ StartApply(p) \/ RefuseApply(p)
  \/ WriteLedger(p) \/ CompareCandidate(p) \/ MoveCandidate(p) \/ StagePromote(p)
  \/ LinkRejected(p) \/ UnlinkInbox(p)
  \/ StageReject(p) \/ StageRejectFails(p)
  \/ RelinkInbox(p) \/ UnlinkRejected(p)

User ==
  \/ \E c \in Candidates, r \in CaptureRules : Capture(c, r) \/ EditCandidate(c, r)
  \/ \E s \in Stores : \E e \in ledger[s] : ArchiveByHand(s, e)
  \/ \E c \in Candidates, d \in Places : d \in loc[c] /\ ResolvePair(c, d)
  \/ \E c \in Candidates : GitAddCandidate(c)
  \/ GitCommit

Next == \/ \E p \in Procs : Preview(p) \/ Step(p) \/ Interrupt(p)
        \/ User

Spec == Init /\ [][Next]_vars
(* A command neither waits nor stops in its tracks: once approved it takes *)
(* its steps to the end, or dies.                                          *)
ProcessFairness == \A p \in Procs : WF_vars(Step(p))

(* A ledger holds the very line an apply with choice ch writes for c, but  *)
(* c is still in the inbox: that apply was cut off before the move.        *)
Unfinished(c, s, ch) ==
  /\ loc[c] = {"inbox"}
  /\ \E e \in From(s, c) : /\ SameLine(e, NewEntry(c, s, ch, e.id))
                           /\ ch.kind = "update" => e.active /\ e.id = ch.id

(* The user's side of recovery, as docs/LESSONS.md asks for it: commit     *)
(* what an apply staged, preview an unfinished promotion again, apply.     *)
RetryPreview(c, s) ==
  \E p \in Procs, ch \in ReviewChoices : /\ Unfinished(c, s, ch)
                                         /\ PreviewPromote(p, c, s, ch)

RetryApply(c, s) ==
  \E p \in Procs, ch \in ReviewChoices : /\ Unfinished(c, s, ch)
                                         /\ plan[p] \in PromotePlans(c, s, ch)
                                         /\ StartApply(p)

UserRetries ==
  /\ WF_vars(GitCommit)
  /\ \A c \in Candidates, s \in Stores :
        SF_vars(RetryPreview(c, s)) /\ SF_vars(RetryApply(c, s))

FairSpec == Spec /\ ProcessFairness /\ UserRetries

-----------------------------------------------------------------------------
(* Correctness.                                                            *)

PromotePlanType ==
  [kind : {"promote"}, cand : Candidates, store : Stores,
   choice : ReviewChoices, id : Ids, rule : CandidateRule,
   src : {"inbox", "consumed"}, tracked : BOOLEAN,
   pre : SUBSET Entry, post : SUBSET Entry, action : {"write", "converge"},
   exact : SUBSET (Stores \X Ids)]

RejectPlanType ==
  [kind : {"reject"}, cand : Candidates, rule : CandidateRule,
   tracked : BOOLEAN, head : Tree]

PromoteSteps == {"write", "move", "rename", "stage"}
RejectSteps  == {"link", "unlink", "rstage", "relink", "runlink"}

TypeOK ==
  /\ loc \in [Candidates -> SUBSET Places]
  /\ rule \in [Candidates -> CandidateRule \cup {NoRule}]
  /\ ledger \in [Stores -> SUBSET Entry]
  /\ index \in Tree /\ head \in Tree
  /\ lock \in Procs \cup {NoProc}
  /\ pc \in [Procs -> {"idle", "previewed"} \cup PromoteSteps \cup RejectSteps]
  /\ plan \in [Procs -> {NoPlan} \cup PromotePlanType \cup RejectPlanType]
  /\ recorded \in [Candidates -> SUBSET CandidateRule]
  /\ replaced \in SUBSET (Candidates \cup {Seed})
  /\ slipped \in SUBSET Candidates
  /\ crashes \in 0 .. MaxCrashes /\ edits \in 0 .. MaxEdits

(* A captured candidate always has a file, and never two fates: it waits,  *)
(* or it is consumed, or it is rejected; only while a reject is under way, *)
(* or was interrupted, do inbox/ and rejected/ both name it.  Promotes and *)
(* rejects of one candidate by several processes, and crashes, keep it so. *)
OneFate ==
  \A c \in Candidates : rule[c] # NoRule =>
     loc[c] \in {{"inbox"}, {"inbox", "rejected"}, {"rejected"}, {"consumed"}}

(* A candidate is archived as consumed only with the very rule that some   *)
(* apply wrote into a ledger for it: not after a crash between the ledger  *)
(* write and the move, an edit of the candidate, and another apply.  One   *)
(* gap is left in the code and stated here: an edit between the comparison *)
(* and the rename that follows it slips through.  No other edit does, at   *)
(* whatever step of an apply it falls.                                     *)
ConsumedAsRecorded ==
  \A c \in Candidates \ slipped : "consumed" \in loc[c] => rule[c] \in recorded[c]

(* No ledger ever has one lesson number on two lines, whatever mix of      *)
(* interrupted applies, updates and supersedes was run.                    *)
LedgerIdsUnique == \A s \in Stores : UniqueIdsIn(ledger[s])

(* A ledger whose renderer keeps the candidate's spelling never has one    *)
(* rule twice in its active section.                                       *)
NoActiveDuplicate == \A s \in Stores \ DotStores : NoDuplicateIn(ledger[s])

(* docs/LESSONS.md: an exact duplicate in the target ledger blocks a new   *)
(* line.  The same, of every ledger.                                       *)
ExactDuplicateBlocks == \A s \in Stores : NoDuplicateIn(ledger[s])

(* A line that supersedes another: the other is in the same ledger,        *)
(* archived, and names it back; so no line is superseded twice.            *)
SupersedeLinked ==
  \A s \in Stores : \A e \in ledger[s] : e.sup # NoId =>
     \E f \in ledger[s] : f.id = e.sup /\ ~f.active /\ f.by = e.id

(* What is staged or committed is whole: a consumed candidate comes with   *)
(* the lesson made from it (unless an --update replaced that line since)   *)
(* and without its inbox file.                                             *)
StagedWhole ==
  \A c \in Candidates : \A tree \in {index, head} :
     "consumed" \in tree.loc[c] =>
        /\ "inbox" \notin tree.loc[c]
        /\ \/ c \in replaced
           \/ \E s \in Stores : \E e \in tree.ledger[s] : e.from = c

(* No step loses a lesson: a number stays in its ledger, and an archived   *)
(* line stays as it is.  A plan made before another process's apply, or    *)
(* before the user archived a line, must not be applied.                   *)
NoLessonLost ==
  [][\A s \in Stores : \A e \in ledger[s] :
       IF e.active THEN \E f \in ledger'[s] : f.id = e.id
                   ELSE e \in ledger'[s]]_ledger

(* README.md: if the ledger changed after the preview, apply refuses.      *)
ChangedLedgerRefused ==
  [][\A p \in Procs : pc[p] = "write" /\ pc'[p] = "move" =>
       ledger[plan[p].store] = plan[p].pre]_vars

(* Every behaviour is one of the candidate life cycle.  A reject counts    *)
(* when its process can no longer take the file back.                      *)
Rejecting(c) == \E p \in Procs : /\ pc[p] \in {"rstage", "relink"}
                                 /\ plan[p].cand = c

Status(c) == CASE loc[c] = {}                                -> "uncaptured"
               [] "consumed" \in loc[c]                      -> "promoted"
               [] loc[c] = {"rejected"} /\ ~Rejecting(c)     -> "rejected"
               [] OTHER                                      -> "queued"

Lifecycle == INSTANCE CandidateLifecycle
               WITH status <- [c \in Candidates |-> Status(c)],
                    noted  <- {c \in Candidates : recorded[c] # {}}

LifecycleSpec == Lifecycle!LCSpec

(* A promotion cut off after its ledger write is not stuck: a user who     *)
(* commits what is staged and keeps trying the same command again gets the *)
(* candidate consumed, unless the line or the candidate changes first.     *)
RetryConverges ==
  \A c \in Candidates, s \in Stores :
     (\E ch \in ReviewChoices : Unfinished(c, s, ch))
       ~> (\A ch \in ReviewChoices : ~Unfinished(c, s, ch))

-----------------------------------------------------------------------------
(* The inductive invariant behind the safety properties.                   *)

(* Exactly the process inside an apply holds the operation lock.           *)
LockOwner ==
  \A p \in Procs : pc[p] \in PromoteSteps \cup RejectSteps <=> lock = p

(* A process past its preview has a plan of the command it runs.           *)
PlanTyped ==
  \A p \in Procs :
     /\ pc[p] = "previewed" => plan[p] \in PromotePlanType \cup RejectPlanType
     /\ pc[p] \in PromoteSteps => plan[p] \in PromotePlanType
     /\ pc[p] \in RejectSteps => plan[p] \in RejectPlanType

(* A candidate has a file from its capture on.                             *)
Captured == \A c \in Candidates : loc[c] = {} <=> rule[c] = NoRule

(* Where the file of a candidate is at each step of an apply.              *)
ApplyWhere ==
  \A p \in Procs :
     /\ pc[p] \in {"write", "move", "rename", "link"} => loc[plan[p].cand] = {"inbox"}
     /\ pc[p] = "stage" => loc[plan[p].cand] = {"consumed"}
     /\ pc[p] \in {"unlink", "runlink"} => loc[plan[p].cand] = {"inbox", "rejected"}
     /\ pc[p] \in {"rstage", "relink"} => loc[plan[p].cand] = {"rejected"}

(* A line made from a candidate spells a rule recorded for it; the line an *)
(* apply is about to write may spell the rule it is about to record.       *)
Spelled(s, e, known) ==
  e.from # Seed => \E r \in known[e.from] : e.rule = Rendered(s, r)

LinesRecorded ==
  \A s \in Stores : \A e \in ledger[s] : Spelled(s, e, recorded)

PostRecorded ==
  \A p \in Procs : pc[p] = "write" =>
     \A e \in plan[p].post :
        Spelled(plan[p].store, e,
                [recorded EXCEPT ![plan[p].cand] = @ \cup {plan[p].rule}])

(* Past the ledger write, or the check that found it done.                 *)
MoveRecorded ==
  \A p \in Procs : pc[p] \in {"move", "rename"} =>
                       plan[p].rule \in recorded[plan[p].cand]

(* Past the comparison only an edit in the gap changes the rule to move.   *)
MoveCompared ==
  \A p \in Procs : pc[p] = "rename" =>
     plan[p].cand \in slipped \/ rule[plan[p].cand] = plan[p].rule

PostUnique == \A p \in Procs : pc[p] = "write" => UniqueIdsIn(plan[p].post)

IInv == /\ TypeOK /\ LockOwner /\ PlanTyped /\ Captured /\ ApplyWhere
        /\ OneFate /\ ConsumedAsRecorded /\ LedgerIdsUnique
        /\ LinesRecorded /\ PostRecorded /\ MoveRecorded /\ MoveCompared
        /\ PostUnique
=============================================================================
