------------------------- MODULE LessonLedger_proofs -------------------------
(***************************************************************************)
(* Proofs about what the review queue keeps in the ledgers and in Git, for *)
(* any numbers of processes, candidates, ledgers and rules, any bounds,    *)
(* deaths at any step, and user edits at any time (but for NothingLost,    *)
(* which an edit inside an apply could break).                             *)
(***************************************************************************)
EXTENDS LessonQueue_proofs

-----------------------------------------------------------------------------
(* What is true of a ledger's lines, and of the lines before and after.    *)

SupersedesMeet(L) ==
  \A e \in L : e.sup # NoId => \E f \in L : f.id = e.sup /\ ~f.active /\ f.by = e.id

Sound(s, L) == SupersedesMeet(L) /\ (s \notin DotStores => NoDuplicateIn(L))

Keeps(L, M) == \A e \in L : IF e.active THEN \E f \in M : f.id = e.id ELSE e \in M

Origins(L) == {e.from : e \in L}

(* The candidates whose line an --update takes away.                       *)
Gone(pl) == {e.from : e \in {f \in pl.pre : /\ pl.choice.kind = "update"
                                            /\ f.active /\ f.id = pl.choice.id}}

LedgersSound == \A s \in Stores : Sound(s, ledger[s])

(* What a process knows of the text it will write, or has written.         *)
WriteKnows(p) ==
  LET pl == plan[p] IN
  /\ Sound(pl.store, pl.post) /\ Keeps(pl.pre, pl.post)
  /\ pl.cand \in Origins(pl.post)
  /\ Origins(ledger[pl.store]) \subseteq Origins(pl.post) \cup replaced \cup Gone(pl)

WrittenKnows(p) ==
  plan[p].cand \in Origins(ledger[plan[p].store]) \cup replaced

ApplyKnows ==
  \A p \in Procs : /\ pc[p] = "write" => WriteKnows(p)
                   /\ pc[p] \in {"move", "rename", "stage"} => WrittenKnows(p)

(* A lesson that is staged or committed is still in its ledger.            *)
TreeHeld(tree) ==
  /\ \A s \in Stores : Origins(tree.ledger[s]) \subseteq Origins(ledger[s]) \cup replaced
  /\ \A c \in Candidates :
       "consumed" \in tree.loc[c] =>
         /\ loc[c] = {"consumed"} /\ "inbox" \notin tree.loc[c]
         /\ c \in replaced \/ \E s \in Stores : c \in Origins(tree.ledger[s])

LInv == LedgersSound /\ ApplyKnows /\ TreeHeld(index) /\ TreeHeld(head)

-----------------------------------------------------------------------------
(* What a plan promises of the text it renders.                            *)

LEMMA PlanFields ==
  ASSUME IInv, NEW c \in Candidates, NEW s \in Stores, NEW ch \in ReviewChoices,
         NEW pl \in PromotePlans(c, s, ch)
  PROVE  \E rid \in Ids :
           LET new == NewEntry(c, s, ch, rid) IN
           /\ new \in Entry /\ ledger[s] \in SUBSET Entry
           /\ pl.pre = ledger[s] /\ pl.choice = ch /\ pl.id = rid
           /\ pl.rule = rule[c] /\ pl.store = s /\ pl.cand = c
           /\ ch.kind = "update" => rid = ch.id
           /\ ~DuplicateBlocks(pl)
           /\ pl.action = "write" => /\ pl.post = Render(ledger[s], new, ch)
                                     /\ ch.kind = "supersede" => ch.id \in ActiveIds(s)
           /\ pl.action = "converge" => \E e \in ledger[s] : SameLine(e, new)
<1>1. PICK rid \in ResultIds(c, s, ch) \cap Ids :
         /\ Promotable(c, s, ch)
         /\ pl = PromotePlan(c, s, ch, rid)
  BY DEF PromotePlans
<1>2. /\ ~DuplicateBlocks(pl)
      /\ pl.action = "write" /\ ch.kind = "supersede" => ch.id \in ActiveIds(s)
  BY DEF PromotePlans
<1>3. rule[c] \in CandidateRule /\ ledger[s] \in SUBSET Entry
  BY <1>1 DEF Promotable, IInv, Captured, TypeOK
<1>4. NewEntry(c, s, ch, rid) \in Entry
  BY <1>1, <1>3, NewEntryTyped
<1>5. ch.kind = "update" => rid = ch.id
  BY <1>1 DEF ResultIds
<1>6. /\ pl.pre = ledger[s] /\ pl.choice = ch /\ pl.id = rid
      /\ pl.rule = rule[c] /\ pl.store = s /\ pl.cand = c
      /\ pl.action = "write" => pl.post = Render(ledger[s], NewEntry(c, s, ch, rid), ch)
      /\ pl.action = "converge" => \E e \in ledger[s] : SameLine(e, NewEntry(c, s, ch, rid))
  BY <1>1 DEF PromotePlan
<1> QED
  BY <1>1, <1>2, <1>3, <1>4, <1>5, <1>6

(* A line that is written supersedes one that is archived with it.         *)
LEMMA RenderMeets ==
  ASSUME NEW L \in SUBSET Entry, NEW new \in Entry, NEW ch \in ReviewChoices,
         SupersedesMeet(L),
         new.sup = IF ch.kind = "supersede" THEN ch.id ELSE NoId,
         ch.kind = "supersede" => \E e \in L : e.active /\ e.id = ch.id
  PROVE  SupersedesMeet(Render(L, new, ch))
<1>1. CASE ch.kind = "supersede"
  <2> DEFINE arch(e) == [e EXCEPT !.active = FALSE, !.by = new.id]
  <2>1. Render(L, new, ch)
          = {IF e.active /\ e.id = ch.id THEN arch(e) ELSE e : e \in L} \cup {new}
    BY <1>1 DEF Render, ArchiveSuperseded
  <2>2. \A e \in Entry : /\ arch(e).id = e.id /\ arch(e).sup = e.sup
                         /\ ~arch(e).active /\ arch(e).by = new.id
    BY DEF Entry
  <2> HIDE DEF arch
  <2>3. ASSUME NEW e \in L, e.sup # NoId
        PROVE  \E f \in Render(L, new, ch) : f.id = e.sup /\ ~f.active /\ f.by = e.id
    <3>1. PICK f \in L : f.id = e.sup /\ ~f.active /\ f.by = e.id
      BY <2>3 DEF SupersedesMeet
    <3> QED
      BY <2>1, <3>1
  <2>4. \E f \in Render(L, new, ch) : f.id = new.sup /\ ~f.active /\ f.by = new.id
    <3>1. PICK e \in L : e.active /\ e.id = ch.id
      BY <1>1
    <3>2. arch(e) \in Render(L, new, ch)
      BY <2>1, <3>1
    <3> QED
      BY <1>1, <2>2, <3>1, <3>2
  <2>5. ASSUME NEW e \in Render(L, new, ch)
        PROVE  e = new \/ \E g \in L : e.sup = g.sup /\ e.id = g.id
    BY <2>1, <2>2
  <2> QED
    BY <2>3, <2>4, <2>5 DEF SupersedesMeet
<1>2. CASE ch.kind # "supersede"
  <2>1. /\ \A e \in Render(L, new, ch) : e \in L \/ e = new
        /\ \A e \in L : ~e.active => e \in Render(L, new, ch)
    BY <1>2 DEF Render
  <2> QED
    BY <1>2, <2>1 DEF SupersedesMeet
<1> QED
  BY <1>1, <1>2

(* No rendering takes a number or an archived line away.                   *)
LEMMA RenderKeeps ==
  ASSUME NEW L \in SUBSET Entry, NEW new \in Entry, NEW ch \in ReviewChoices,
         ch.kind = "update" => new.id = ch.id
  PROVE  /\ Keeps(L, Render(L, new, ch))
         /\ \A e \in L : \/ e.from \in Origins(Render(L, new, ch))
                         \/ ch.kind = "update" /\ e.active /\ e.id = ch.id
         /\ new \in Render(L, new, ch)
<1>1. CASE ch.kind = "supersede"
  <2> DEFINE arch(e) == [e EXCEPT !.active = FALSE, !.by = new.id]
  <2>1. Render(L, new, ch)
          = {IF e.active /\ e.id = ch.id THEN arch(e) ELSE e : e \in L} \cup {new}
    BY <1>1 DEF Render, ArchiveSuperseded
  <2>2. \A e \in Entry : arch(e).id = e.id /\ arch(e).from = e.from
    BY DEF Entry
  <2> HIDE DEF arch
  <2> QED
    BY <2>1, <2>2 DEF Keeps, Origins
<1>2. CASE ch.kind = "update"
  BY <1>2 DEF Render, Keeps, Origins
<1>3. CASE ch.kind \notin {"update", "supersede"}
  BY <1>3 DEF Render, Keeps, Origins
<1> QED
  BY <1>1, <1>2, <1>3

(* The duplicate check does its work where the spelling is kept.           *)
LEMMA RenderNoDuplicate ==
  ASSUME IInv, NEW c \in Candidates, NEW s \in Stores \ DotStores, NEW ch \in ReviewChoices,
         NEW pl \in PromotePlans(c, s, ch), pl.action = "write", NoDuplicateIn(ledger[s])
  PROVE  NoDuplicateIn(pl.post)
<1>1. PICK rid \in Ids :
        LET new == NewEntry(c, s, ch, rid) IN
        /\ new \in Entry /\ ledger[s] \in SUBSET Entry
        /\ pl.choice = ch /\ pl.rule = rule[c] /\ pl.store = s
        /\ ch.kind = "update" => rid = ch.id
        /\ ~DuplicateBlocks(pl) /\ pl.post = Render(ledger[s], new, ch)
  BY PlanFields
<1> DEFINE new == NewEntry(c, s, ch, rid)
<1>2. new.rule = rule[c] /\ new.id = rid /\ new.active
  BY DEF NewEntry, Rendered
<1>3. ASSUME NEW e \in ledger[s], e.active, e.rule = rule[c]
      PROVE  ch.kind = "update" /\ e.id = ch.id
  <2>1. e.id \in ExactIds(s, rule[c])
    BY <1>3 DEF ExactIds
  <2> QED
    BY <1>1, <2>1 DEF DuplicateBlocks
<1> HIDE DEF new
<1>4. pl.post = Render(ledger[s], new, ch) /\ ledger[s] \in SUBSET Entry /\ new \in Entry
  BY <1>1 DEF new
<1>5. ASSUME NEW e \in pl.post, e.active
      PROVE  e = new \/ (e \in ledger[s] /\ ~(ch.kind = "update" /\ e.id = ch.id))
  <2>1. CASE ch.kind = "supersede"
    <3> DEFINE arch(f) == [f EXCEPT !.active = FALSE, !.by = new.id]
    <3>1. pl.post = {IF f.active /\ f.id = ch.id THEN arch(f) ELSE f : f \in ledger[s]}
                      \cup {new}
      BY <1>4, <2>1 DEF Render, ArchiveSuperseded
    <3>2. \A f \in Entry : ~arch(f).active
      BY DEF Entry
    <3> HIDE DEF arch
    <3> QED
      BY <1>4, <1>5, <2>1, <3>1, <3>2
  <2>2. CASE ch.kind = "update"
    BY <1>4, <1>5, <2>2 DEF Render
  <2>3. CASE ch.kind \notin {"update", "supersede"}
    BY <1>4, <1>5, <2>3 DEF Render
  <2> QED
    BY <2>1, <2>2, <2>3
<1> QED
  BY <1>2, <1>3, <1>5 DEF NoDuplicateIn

LEMMA PlanSound ==
  ASSUME IInv, LedgersSound,
         NEW c \in Candidates, NEW s \in Stores, NEW ch \in ReviewChoices,
         NEW pl \in PromotePlans(c, s, ch)
  PROVE  /\ pl.pre = ledger[s]
         /\ pl.action = "write" => /\ Sound(s, pl.post) /\ Keeps(ledger[s], pl.post)
                                   /\ c \in Origins(pl.post)
                                   /\ Origins(ledger[s]) \subseteq Origins(pl.post) \cup Gone(pl)
         /\ pl.action = "converge" => c \in Origins(ledger[s])
<1>1. PICK rid \in Ids :
        LET new == NewEntry(c, s, ch, rid) IN
        /\ new \in Entry /\ ledger[s] \in SUBSET Entry
        /\ pl.pre = ledger[s] /\ pl.choice = ch /\ pl.store = s
        /\ ch.kind = "update" => rid = ch.id
        /\ pl.action = "write" => /\ pl.post = Render(ledger[s], new, ch)
                                  /\ ch.kind = "supersede" => ch.id \in ActiveIds(s)
        /\ pl.action = "converge" => \E e \in ledger[s] : SameLine(e, new)
  BY PlanFields
<1> DEFINE new == NewEntry(c, s, ch, rid)
<1>2. /\ new.id = rid /\ new.from = c
      /\ new.sup = IF ch.kind = "supersede" THEN ch.id ELSE NoId
  BY DEF NewEntry
<1> HIDE DEF new
<1>3. ASSUME pl.action = "write"
      PROVE  /\ Sound(s, pl.post) /\ Keeps(ledger[s], pl.post)
             /\ c \in Origins(pl.post)
             /\ Origins(ledger[s]) \subseteq Origins(pl.post) \cup Gone(pl)
  <2>1. SupersedesMeet(pl.post)
    <3>1. ch.kind = "supersede" => \E e \in ledger[s] : e.active /\ e.id = ch.id
      BY <1>1, <1>3 DEF ActiveIds
    <3> QED
      BY <1>1, <1>2, <1>3, <3>1, RenderMeets DEF LedgersSound, Sound, new
  <2>2. s \notin DotStores => NoDuplicateIn(pl.post)
    BY <1>3, RenderNoDuplicate DEF LedgersSound, Sound
  <2>3. /\ Keeps(ledger[s], pl.post) /\ new \in pl.post
        /\ \A e \in ledger[s] : \/ e.from \in Origins(pl.post)
                                \/ ch.kind = "update" /\ e.active /\ e.id = ch.id
    BY <1>1, <1>2, <1>3, RenderKeeps DEF new
  <2> QED
    BY <1>1, <1>2, <2>1, <2>2, <2>3 DEF Sound, Origins, Gone
<1>4. ASSUME pl.action = "converge" PROVE c \in Origins(ledger[s])
  <2>1. PICK e \in ledger[s] : SameLine(e, new)
    BY <1>1, <1>4 DEF new
  <2>2. e.from = new.from
    BY <1>1, <2>1 DEF SameLine, Entry, new
  <2> QED
    BY <1>2, <2>2 DEF Origins
<1> QED
  BY <1>1, <1>3, <1>4

-----------------------------------------------------------------------------
(* The ledgers at the start were written by hand and link nothing.         *)
LEMMA InitLedgers == Init => LInv
<1> SUFFICES ASSUME Init PROVE LInv
  OBVIOUS
<1>1. LedgersSound
  BY ConstantsOK DEF Init, LedgersSound, Sound, SupersedesMeet
<1>2. ApplyKnows
  BY DEF Init, ApplyKnows
<1>3. TreeHeld(index) /\ TreeHeld(head)
  BY DEF Init, TreeHeld
<1> QED
  BY <1>1, <1>2, <1>3 DEF LInv

(* A step that writes no ledger: what is known of it stays known to a      *)
(* process that goes on with the same plan, and a consumed file stays.     *)
LEMMA QuietStep ==
  ASSUME LInv, UNCHANGED <<ledger, replaced>>,
         \A q \in Procs : pc'[q] = "write" => pc[q] = "write" /\ plan'[q] = plan[q],
         \A q \in Procs : pc'[q] \in {"move", "rename", "stage"} =>
                            pc[q] \in {"move", "rename", "stage"} /\ plan'[q] = plan[q],
         \A c \in Candidates : loc[c] = {"consumed"} => loc'[c] = {"consumed"},
         index' = index \/ TreeHeld(index)',
         head' = head \/ (head' = index /\ index' = index)
  PROVE  LInv'
<1>1. LedgersSound'
  BY DEF LInv, LedgersSound
<1>2. ApplyKnows'
  BY DEF LInv, ApplyKnows, WriteKnows, WrittenKnows, Gone
<1>3. index' = index => TreeHeld(index)'
  BY DEF LInv, TreeHeld
<1>4. TreeHeld(head)'
  BY DEF LInv, TreeHeld
<1> QED
  BY <1>1, <1>2, <1>3, <1>4 DEF LInv

(* Staging a candidate that is not consumed.                               *)
LEMMA StageElsewhere ==
  ASSUME IInv, TreeHeld(index), NEW c \in Candidates, loc[c] # {"consumed"},
         NEW places, "consumed" \in places => "consumed" \in index.loc[c],
         index' = [index EXCEPT !.loc[c] = places],
         UNCHANGED <<loc, ledger, replaced>>
  PROVE  TreeHeld(index)'
<1>1. /\ index'.ledger = index.ledger
      /\ index'.loc = [index.loc EXCEPT ![c] = places]
  BY DEF IInv, TypeOK, Tree
<1>2. "consumed" \notin places
  BY DEF TreeHeld
<1>3. \A d \in Candidates : d # c => index'.loc[d] = index.loc[d]
  BY <1>1 DEF IInv, TypeOK, Tree
<1>4. index'.loc[c] = places
  BY <1>1 DEF IInv, TypeOK, Tree
<1> QED
  BY <1>1, <1>2, <1>3, <1>4 DEF TreeHeld

LEMMA PreviewLedgers ==
  ASSUME IInv, LInv, NEW p \in Procs, Preview(p)
  PROVE  LInv'
<1>1. /\ pc[p] = "idle"
      /\ pc' = [pc EXCEPT ![p] = "previewed"]
      /\ \E pl : plan' = [plan EXCEPT ![p] = pl]
      /\ UNCHANGED <<files, git, lock, history, counts>>
  BY DEF Preview, PreviewPromote, PreviewReject, Goto
<1> QED
  BY <1>1, QuietStep DEF IInv, TypeOK, files, git, history

(* A plan made again under the lock knows the ledger it was made from.     *)
LEMMA StartApplyLedgers ==
  ASSUME IInv, LInv, NEW p \in Procs, StartApply(p)
  PROVE  LInv'
<1> DEFINE pl == plan[p]
<1>1. /\ pc[p] = "previewed" /\ UNCHANGED <<files, git, plan, history>>
      /\ pc' = [pc EXCEPT ![p] = IF pl.kind = "reject" THEN "link"
                                 ELSE IF pl.action = "write" THEN "write"
                                 ELSE IF pl.src = "inbox" THEN "move" ELSE "stage"]
  BY DEF StartApply, Goto
<1>2. lock = NoProc
  BY DEF StartApply
<1>3. \A q \in Procs : pc[q] \notin PromoteSteps \cup RejectSteps
  BY <1>2, ConstantsOK DEF IInv, LockOwner
<1>4. \A q \in Procs : q # p => pc'[q] \notin {"write", "move", "rename", "stage"}
  BY <1>1, <1>3 DEF IInv, TypeOK, PromoteSteps
<1>5. /\ pc'[p] = "write" => pl.kind # "reject" /\ pl.action = "write"
      /\ pc'[p] \in {"move", "rename", "stage"} => pl.kind # "reject" /\ pl.action # "write"
  BY <1>1 DEF IInv, TypeOK
<1>6. ASSUME pl.kind # "reject"
      PROVE  /\ pl \in PromotePlanType
             /\ pl \in PromotePlans(pl.cand, pl.store, pl.choice)
  BY <1>6, ReplannedTyped
<1>7. ASSUME pl.kind # "reject"
      PROVE  /\ pl.pre = ledger[pl.store]
             /\ pl.action = "write" =>
                  /\ Sound(pl.store, pl.post) /\ Keeps(ledger[pl.store], pl.post)
                  /\ pl.cand \in Origins(pl.post)
                  /\ Origins(ledger[pl.store]) \subseteq Origins(pl.post) \cup Gone(pl)
             /\ pl.action = "converge" => pl.cand \in Origins(ledger[pl.store])
  <2>1. pl.cand \in Candidates /\ pl.store \in Stores /\ pl.choice \in ReviewChoices
    BY <1>6, <1>7 DEF PromotePlanType
  <2> HIDE DEF pl
  <2> QED
    BY <1>6, <1>7, <2>1, PlanSound DEF LInv
<1>8. pl.kind # "reject" => pl.action \in {"write", "converge"}
  BY <1>6 DEF PromotePlanType
<1>9. ApplyKnows'
  <2>1. pc'[p] = "write" => WriteKnows(p)'
    BY <1>1, <1>5, <1>7 DEF WriteKnows, files, history, Gone
  <2>2. pc'[p] \in {"move", "rename", "stage"} => WrittenKnows(p)'
    BY <1>1, <1>5, <1>7, <1>8 DEF WrittenKnows, files, history
  <2> QED
    BY <1>4, <2>1, <2>2 DEF ApplyKnows
<1> QED
  BY <1>1, <1>9 DEF LInv, LedgersSound, TreeHeld, files, git, history

(* The ledger write is the one step that changes a ledger in an apply.     *)
LEMMA WriteLedgerLedgers ==
  ASSUME IInv, LInv, NEW p \in Procs, WriteLedger(p)
  PROVE  LInv'
<1> DEFINE pl == plan[p]
<1>1. /\ pc[p] = "write"
      /\ ledger' = [ledger EXCEPT ![pl.store] = pl.post]
      /\ replaced' = replaced \cup Gone(pl)
      /\ pc' = [pc EXCEPT ![p] = "move"]
      /\ UNCHANGED <<loc, index, head, plan>>
  BY DEF WriteLedger, Gone, Goto, git
<1>2. /\ pl \in PromotePlanType /\ pl.store \in Stores
      /\ Sound(pl.store, pl.post) /\ pl.cand \in Origins(pl.post)
      /\ Origins(ledger[pl.store]) \subseteq Origins(pl.post) \cup replaced \cup Gone(pl)
  BY <1>1 DEF IInv, PlanTyped, PromoteSteps, PromotePlanType, LInv, ApplyKnows, WriteKnows
<1> HIDE DEF pl
<1>3. /\ ledger'[pl.store] = pl.post
      /\ \A s \in Stores : s # pl.store => ledger'[s] = ledger[s]
  BY <1>1, <1>2 DEF IInv, TypeOK
<1>4. LedgersSound'
  BY <1>2, <1>3 DEF LInv, LedgersSound
<1>5. ApplyKnows'
  <2>1. \A q \in Procs : q # p => pc'[q] \notin {"write", "move", "rename", "stage"}
    BY <1>1, OneApply DEF IInv, TypeOK, PromoteSteps
  <2>2. pc'[p] = "move"
    BY <1>1 DEF IInv, TypeOK
  <2>3. WrittenKnows(p)'
    BY <1>1, <1>2, <1>3 DEF WrittenKnows, pl
  <2> QED
    BY <2>1, <2>2, <2>3 DEF ApplyKnows
<1>6. \A s \in Stores : Origins(ledger[s]) \cup replaced \subseteq Origins(ledger'[s]) \cup replaced'
  BY <1>1, <1>2, <1>3
<1>7. /\ replaced \subseteq replaced'
      /\ \A s \in Stores, O \in SUBSET (Candidates \cup {Seed}) :
           O \subseteq Origins(ledger[s]) \cup replaced =>
              O \subseteq Origins(ledger'[s]) \cup replaced'
  BY <1>1, <1>6
<1>8. \A s \in Stores : /\ Origins(index.ledger[s]) \in SUBSET (Candidates \cup {Seed})
                        /\ Origins(head.ledger[s]) \in SUBSET (Candidates \cup {Seed})
  BY DEF Origins, IInv, TypeOK, Tree, Entry
<1>9. /\ index' = index /\ head' = head /\ loc' = loc
      /\ TreeHeld(index) /\ TreeHeld(head)
  BY <1>1 DEF LInv
<1> HIDE DEF Sound
<1>10. TreeHeld(index)' /\ TreeHeld(head)'
  BY <1>7, <1>8, <1>9 DEF TreeHeld
<1> QED
  BY <1>4, <1>5, <1>10 DEF LInv

LEMMA MoveCandidateLedgers ==
  ASSUME IInv, LInv, NEW p \in Procs, CompareCandidate(p) \/ MoveCandidate(p)
  PROVE  LInv'
<1>1. /\ pc[p] \in {"move", "rename"}
      /\ \/ /\ \E l \in {"rename", "stage"} : pc' = [pc EXCEPT ![p] = l]
            /\ plan' = plan
         \/ pc' = [pc EXCEPT ![p] = "idle"] /\ plan' = [plan EXCEPT ![p] = NoPlan]
      /\ UNCHANGED <<ledger, replaced, index, head>>
      /\ \/ loc' = loc
         \/ loc' = [loc EXCEPT ![plan[p].cand] = (loc[plan[p].cand] \ {"inbox"}) \cup {"consumed"}]
  BY DEF CompareCandidate, MoveCandidate, Goto, Finish, Relocate, files, git, history
<1>2. loc[plan[p].cand] = {"inbox"}
  BY <1>1 DEF IInv, ApplyWhere
<1>3. \A c \in Candidates : loc[c] = {"consumed"} => loc'[c] = {"consumed"}
  BY <1>1, <1>2 DEF IInv, TypeOK
<1>4. \A q \in Procs : q # p => pc'[q] = pc[q] /\ plan'[q] = plan[q]
  BY <1>1 DEF IInv, TypeOK
<1>5. pc'[p] = "idle" \/ (pc'[p] \in {"rename", "stage"} /\ plan'[p] = plan[p])
  BY <1>1 DEF IInv, TypeOK
<1> QED
  BY <1>1, <1>3, <1>4, <1>5, QuietStep

(* A promote stages the whole ledger with the consumed file, and takes the *)
(* inbox file out of the index when it was there.                          *)
LEMMA StagePromoteLedgers ==
  ASSUME IInv, LInv, NEW p \in Procs, StagePromote(p)
  PROVE  LInv'
<1> DEFINE c == plan[p].cand
           s == plan[p].store
           places == {"consumed"} \cup (IF Tracked(c) THEN {"inbox"} ELSE {})
<1>1. /\ pc[p] = "stage" /\ pc' = [pc EXCEPT ![p] = "idle"]
      /\ plan' = [plan EXCEPT ![p] = NoPlan]
      /\ UNCHANGED <<loc, ledger, head, replaced>>
      /\ \/ index' = index
         \/ index' = [index EXCEPT !.ledger[s] = ledger[s], !.loc[c] = Staged(c, places)]
  BY DEF StagePromote, Finish, Goto, files, history
<1>2. c \in Candidates /\ s \in Stores /\ loc[c] = {"consumed"}
  BY <1>1 DEF IInv, PlanTyped, PromoteSteps, PromotePlanType, ApplyWhere
<1>3. c \in Origins(ledger[s]) \cup replaced
  BY <1>1 DEF LInv, ApplyKnows, WrittenKnows
<1>4. Staged(c, places) \subseteq (index.loc[c] \ places) \cup {"consumed"}
  BY <1>2 DEF Staged
<1>5. "inbox" \notin Staged(c, places)
  BY <1>4 DEF Tracked
<1> HIDE DEF c, s, places
<1>6. ASSUME index' = [index EXCEPT !.ledger[s] = ledger[s], !.loc[c] = Staged(c, places)]
      PROVE  TreeHeld(index)'
  <2>1. index \in Tree /\ TreeHeld(index)
    BY DEF IInv, TypeOK, LInv
  <2>2. /\ index'.ledger = [index.ledger EXCEPT ![s] = ledger[s]]
        /\ index'.loc = [index.loc EXCEPT ![c] = Staged(c, places)]
    BY <1>6, <2>1 DEF Tree
  <2>3. /\ index'.ledger[s] = ledger[s]
        /\ \A t \in Stores : t # s => index'.ledger[t] = index.ledger[t]
    BY <1>2, <2>1, <2>2 DEF Tree
  <2>4. /\ index'.loc[c] = Staged(c, places)
        /\ \A d \in Candidates : d # c => index'.loc[d] = index.loc[d]
    BY <1>2, <2>1, <2>2 DEF Tree
  <2>5. \A t \in Stores : Origins(index'.ledger[t]) \subseteq Origins(ledger'[t]) \cup replaced'
    BY <1>1, <2>1, <2>3 DEF TreeHeld
  <2>6. \A t \in Stores : Origins(index.ledger[t]) \subseteq Origins(index'.ledger[t]) \cup replaced'
    BY <1>1, <2>1, <2>3 DEF TreeHeld
  <2>7. ASSUME NEW d \in Candidates, "consumed" \in index'.loc[d]
        PROVE  /\ loc'[d] = {"consumed"} /\ "inbox" \notin index'.loc[d]
               /\ d \in replaced' \/ \E t \in Stores : d \in Origins(index'.ledger[t])
    <3>1. CASE d = c
      BY <1>1, <1>2, <1>3, <1>5, <2>3, <2>4, <3>1
    <3>2. CASE d # c
      <4>1. "consumed" \in index.loc[d]
        BY <2>4, <2>7, <3>2
      <4>2. /\ loc[d] = {"consumed"} /\ "inbox" \notin index.loc[d]
            /\ d \in replaced \/ \E t \in Stores : d \in Origins(index.ledger[t])
        BY <2>1, <4>1 DEF TreeHeld
      <4> QED
        BY <1>1, <2>4, <2>6, <3>2, <4>2
    <3> QED
      BY <3>1, <3>2
  <2> QED
    BY <2>5, <2>7 DEF TreeHeld
<1>7. \A q \in Procs : pc'[q] \in {"write", "move", "rename", "stage"} => pc'[q] = pc[q] /\ plan'[q] = plan[q]
  BY <1>1 DEF IInv, TypeOK
<1> QED
  BY <1>1, <1>6, <1>7, QuietStep

(* The steps of a reject touch no ledger and no consumed file.             *)
LEMMA RejectLedgers ==
  ASSUME IInv, LInv, NEW p \in Procs,
         \/ LinkRejected(p) \/ UnlinkInbox(p) \/ RelinkInbox(p) \/ UnlinkRejected(p)
         \/ StageReject(p) \/ StageRejectFails(p)
  PROVE  LInv'
<1> DEFINE c == plan[p].cand
<1>1. /\ pc[p] \in RejectSteps /\ c \in Candidates /\ loc[c] # {"consumed"}
      /\ UNCHANGED <<ledger, replaced, head>>
  BY DEF LinkRejected, UnlinkInbox, RelinkInbox, UnlinkRejected, StageReject,
         StageRejectFails, IInv, PlanTyped, RejectSteps, RejectPlanType, ApplyWhere,
         files, git, history
<1>2. \/ \E l \in RejectSteps : pc' = [pc EXCEPT ![p] = l] /\ plan' = plan
      \/ pc' = [pc EXCEPT ![p] = "idle"] /\ plan' = [plan EXCEPT ![p] = NoPlan]
  BY DEF LinkRejected, UnlinkInbox, RelinkInbox, UnlinkRejected, StageReject,
         StageRejectFails, RejectSteps, Goto, Finish
<1>3. loc' = loc \/ (\E there : loc' = [loc EXCEPT ![c] = there])
  BY DEF LinkRejected, UnlinkInbox, RelinkInbox, UnlinkRejected, StageReject,
         StageRejectFails, Relocate, files
<1>4. index' = index \/ TreeHeld(index)'
  <2> DEFINE away == Staged(c, RejectPaths(plan[p]))
             back == (index.loc[c] \ RejectPaths(plan[p]))
                        \cup (head.loc[c] \cap RejectPaths(plan[p]))
  <2>1. CASE LinkRejected(p) \/ UnlinkInbox(p) \/ RelinkInbox(p) \/ UnlinkRejected(p)
    BY <2>1 DEF LinkRejected, UnlinkInbox, RelinkInbox, UnlinkRejected, git
  <2>2. /\ "consumed" \in away => "consumed" \in index.loc[c]
        /\ "consumed" \in back => "consumed" \in index.loc[c]
    BY DEF Staged, RejectPaths
  <2>3. StageReject(p) => /\ index' = [index EXCEPT !.loc[c] = away]
                          /\ UNCHANGED <<loc, ledger, replaced>>
    BY <1>1 DEF StageReject, files
  <2>4. StageRejectFails(p) => /\ index' = [index EXCEPT !.loc[c] = back]
                               /\ UNCHANGED <<loc, ledger, replaced>>
    BY <1>1 DEF StageRejectFails, files, IInv, TypeOK, Tree
  <2>5. TreeHeld(index)
    BY DEF LInv
  <2> HIDE DEF away, back, c
  <2>6. CASE StageReject(p)
    BY <1>1, <2>2, <2>3, <2>5, <2>6, StageElsewhere
  <2>7. CASE StageRejectFails(p)
    BY <1>1, <2>2, <2>4, <2>5, <2>7, StageElsewhere
  <2> QED
    BY <2>1, <2>6, <2>7
<1> HIDE DEF c
<1>5. \A d \in Candidates : loc[d] = {"consumed"} => loc'[d] = {"consumed"}
  BY <1>1, <1>3 DEF IInv, TypeOK
<1>6. \A q \in Procs : pc'[q] \in {"write", "move", "rename", "stage"} => pc'[q] = pc[q] /\ plan'[q] = plan[q]
  BY <1>1, <1>2 DEF IInv, TypeOK, RejectSteps
<1> QED
  BY <1>1, <1>4, <1>5, <1>6, QuietStep

(* An apply that dies knows nothing any more.                              *)
LEMMA StopLedgers ==
  ASSUME IInv, LInv, NEW p \in Procs, RefuseApply(p) \/ Interrupt(p)
  PROVE  LInv'
<1>1. /\ pc' = [pc EXCEPT ![p] = "idle"] /\ plan' = [plan EXCEPT ![p] = NoPlan]
      /\ UNCHANGED <<loc, ledger, replaced, index, head>>
  BY DEF RefuseApply, Interrupt, Finish, Goto, files, git, history
<1>2. \A q \in Procs : pc'[q] \in {"write", "move", "rename", "stage"} => pc'[q] = pc[q] /\ plan'[q] = plan[q]
  BY <1>1 DEF IInv, TypeOK
<1> QED
  BY <1>1, <1>2, QuietStep

(* The user archives a line: it keeps its number and its origin.           *)
LEMMA ArchiveByHandLedgers ==
  ASSUME IInv, LInv, NEW s \in Stores, NEW e \in ledger[s], ArchiveByHand(s, e)
  PROVE  LInv'
<1> DEFINE arch == [e EXCEPT !.active = FALSE]
<1>1. /\ ledger' = [ledger EXCEPT ![s] = (ledger[s] \ {e}) \cup {arch}]
      /\ e.active /\ UNCHANGED <<loc, index, head, pc, plan, replaced>>
  BY DEF ArchiveByHand, git, control, history, IInv, TypeOK
<1>2. /\ arch.id = e.id /\ arch.sup = e.sup /\ arch.from = e.from /\ ~arch.active
      /\ arch.by = e.by
  BY DEF IInv, TypeOK, Entry
<1> HIDE DEF arch
<1>3. /\ ledger'[s] = (ledger[s] \ {e}) \cup {arch}
      /\ \A t \in Stores : t # s => ledger'[t] = ledger[t]
  BY <1>1 DEF IInv, TypeOK
<1>4. Sound(s, ledger[s])
  BY DEF LInv, LedgersSound
<1>5. SupersedesMeet(ledger'[s])
  <2>1. SupersedesMeet(ledger[s])
    BY <1>4 DEF Sound
  <2>2. ASSUME NEW x \in ledger'[s], x.sup # NoId
        PROVE  \E f \in ledger'[s] : f.id = x.sup /\ ~f.active /\ f.by = x.id
    <3>1. PICK y \in ledger[s] : y.sup = x.sup /\ y.id = x.id
      BY <1>2, <1>3, <2>2
    <3>2. PICK f \in ledger[s] : f.id = y.sup /\ ~f.active /\ f.by = y.id
      BY <2>1, <2>2, <3>1 DEF SupersedesMeet
    <3> QED
      BY <1>1, <1>3, <3>1, <3>2
  <2> QED
    BY <2>2 DEF SupersedesMeet
<1>6. s \notin DotStores => NoDuplicateIn(ledger'[s])
  BY <1>2, <1>3, <1>4 DEF Sound, NoDuplicateIn
<1>7. LedgersSound'
  BY <1>3, <1>5, <1>6 DEF LInv, LedgersSound, Sound
<1>8. \A t \in Stores : Origins(ledger'[t]) = Origins(ledger[t])
  BY <1>2, <1>3 DEF Origins
<1>9. ApplyKnows'
  <2>1. ASSUME NEW q \in Procs, pc'[q] = "write"
        PROVE  WriteKnows(q)'
    <3>1. WriteKnows(q) /\ plan[q].store \in Stores
      BY <1>1, <2>1 DEF LInv, ApplyKnows, IInv, PlanTyped, PromoteSteps, PromotePlanType
    <3> QED
      BY <1>1, <1>8, <3>1 DEF WriteKnows, Gone
  <2>2. ASSUME NEW q \in Procs, pc'[q] \in {"move", "rename", "stage"}
        PROVE  WrittenKnows(q)'
    <3>1. WrittenKnows(q) /\ plan[q].store \in Stores
      BY <1>1, <2>2 DEF LInv, ApplyKnows, IInv, PlanTyped, PromoteSteps, PromotePlanType
    <3> QED
      BY <1>1, <1>8, <3>1 DEF WrittenKnows
  <2> QED
    BY <2>1, <2>2 DEF ApplyKnows
<1>10. TreeHeld(index)' /\ TreeHeld(head)'
  <2>1. TreeHeld(index) /\ TreeHeld(head)
    BY DEF LInv
  <2> QED
    BY <1>1, <1>8, <2>1 DEF TreeHeld
<1> QED
  BY <1>7, <1>9, <1>10 DEF LInv

LEMMA UserLedgers ==
  ASSUME IInv, LInv, User
  PROVE  LInv'
<1>1. CASE \E c \in Candidates, r \in CaptureRules : Capture(c, r) \/ EditCandidate(c, r)
  <2>1. PICK c \in Candidates, r \in CaptureRules : Capture(c, r) \/ EditCandidate(c, r)
    BY <1>1
  <2>2. /\ loc' = loc \/ (loc[c] = {} /\ loc' = [loc EXCEPT ![c] = {"inbox"}])
        /\ UNCHANGED <<ledger, replaced, index, head, pc, plan>>
    BY <2>1 DEF Capture, EditCandidate, Relocate, git, control, history
  <2>3. \A d \in Candidates : loc[d] = {"consumed"} => loc'[d] = {"consumed"}
    BY <2>2 DEF IInv, TypeOK
  <2> QED
    BY <2>2, <2>3, QuietStep
<1>2. CASE \E s \in Stores : \E e \in ledger[s] : ArchiveByHand(s, e)
  BY <1>2, ArchiveByHandLedgers
<1>3. CASE \E c \in Candidates, d \in Places : d \in loc[c] /\ ResolvePair(c, d)
  <2>1. PICK c \in Candidates, d \in Places : ResolvePair(c, d)
    BY <1>3
  <2>2. /\ loc[c] = {"inbox", "rejected"} /\ loc' = [loc EXCEPT ![c] = {d}]
        /\ UNCHANGED <<ledger, replaced, index, head, pc, plan>>
    BY <2>1 DEF ResolvePair, Relocate, git, control, history
  <2>3. \A b \in Candidates : loc[b] = {"consumed"} => loc'[b] = {"consumed"}
    BY <2>2 DEF IInv, TypeOK
  <2> QED
    BY <2>2, <2>3, QuietStep
<1>4. CASE \E c \in Candidates : GitAddCandidate(c)
  <2>1. PICK c \in Candidates : GitAddCandidate(c)
    BY <1>4
  <2>2. /\ loc[c] = {"inbox"} /\ UNCHANGED <<loc, ledger, replaced, head, pc, plan>>
        /\ index' = [index EXCEPT !.loc[c] = index.loc[c] \cup {"inbox"}]
    BY <2>1 DEF GitAddCandidate, files, control, history, IInv, TypeOK, Tree
  <2>3. "consumed" \in index.loc[c] \cup {"inbox"} => "consumed" \in index.loc[c]
    OBVIOUS
  <2>4. loc[c] # {"consumed"} /\ TreeHeld(index)
    BY <2>2 DEF LInv
  <2>5. TreeHeld(index)'
    BY <2>2, <2>3, <2>4, StageElsewhere
  <2> QED
    BY <2>2, <2>5, QuietStep
<1>5. CASE GitCommit
  BY <1>5, QuietStep DEF GitCommit, files, control, history
<1> QED
  BY <1>1, <1>2, <1>3, <1>4, <1>5 DEF User

LEMMA NextLedgers == IInv /\ LInv /\ [Next]_vars => LInv'
<1> SUFFICES ASSUME IInv, LInv, [Next]_vars PROVE LInv'
  OBVIOUS
<1>1. CASE \E p \in Procs : Preview(p)
  BY <1>1, PreviewLedgers
<1>2. CASE \E p \in Procs : Step(p)
  BY <1>2, StartApplyLedgers, StopLedgers, WriteLedgerLedgers, MoveCandidateLedgers,
     StagePromoteLedgers, RejectLedgers
  DEF Step
<1>3. CASE \E p \in Procs : Interrupt(p)
  BY <1>3, StopLedgers
<1>4. CASE User
  BY <1>4, UserLedgers
<1>5. CASE UNCHANGED vars
  BY <1>5, QuietStep DEF vars, files, git, control, history
<1> QED
  BY <1>1, <1>2, <1>3, <1>4, <1>5 DEF Next

-----------------------------------------------------------------------------
(* The ledgers are sound for ever, and what is staged is whole.            *)
THEOREM LedgerInvariant == Spec => [](IInv /\ LInv)
<1> QED
  BY InitInvariant, InitLedgers, NextInvariant, NextLedgers, PTL DEF Spec

(* A line that supersedes another finds it in its ledger, archived, and    *)
(* named back: after any mix of interrupted applies, retries, --update,    *)
(* --supersedes and lines archived by hand, also inside an apply.          *)
THEOREM SupersededAreLinked == Spec => []SupersedeLinked
<1>1. LInv => SupersedeLinked
  BY DEF LInv, LedgersSound, Sound, SupersedesMeet, SupersedeLinked
<1> QED
  BY LedgerInvariant, <1>1, PTL

(* A project ledger, which keeps the spelling of a rule, never has a rule  *)
(* on two active lines.                                                    *)
THEOREM NoRuleTwice == Spec => []NoActiveDuplicate
<1>1. LInv => NoActiveDuplicate
  BY DEF LInv, LedgersSound, Sound, NoActiveDuplicate
<1> QED
  BY LedgerInvariant, <1>1, PTL

(* What is staged or committed is whole: a consumed candidate comes with   *)
(* its lesson and without its inbox file.                                  *)
THEOREM StagedIsWhole == Spec => []StagedWhole
<1>1. LInv => StagedWhole
  <2> SUFFICES ASSUME LInv, NEW c \in Candidates, NEW tree \in {index, head},
                      "consumed" \in tree.loc[c]
               PROVE  /\ "inbox" \notin tree.loc[c]
                      /\ c \in replaced \/ \E s \in Stores : \E e \in tree.ledger[s] : e.from = c
    BY DEF StagedWhole
  <2>1. TreeHeld(tree)
    BY DEF LInv
  <2> QED
    BY <2>1 DEF TreeHeld, Origins
<1> QED
  BY LedgerInvariant, <1>1, PTL

-----------------------------------------------------------------------------
(* What a step may never do to a ledger.                                   *)

(* Inside an apply the ledger may have changed since its plan was made.    *)
Overtaken == \E p \in Procs : pc[p] = "write" /\ ledger[plan[p].store] # plan[p].pre

LEMMA StepKeeps ==
  ASSUME IInv, LInv, ~Overtaken, [Next]_vars, NEW s \in Stores
  PROVE  Keeps(ledger[s], ledger'[s])
<1>1. CASE ledger' = ledger
  BY <1>1 DEF Keeps
<1>2. ASSUME NEW p \in Procs, WriteLedger(p)
      PROVE  Keeps(ledger[s], ledger'[s])
  <2>1. /\ pc[p] = "write"
        /\ ledger' = [ledger EXCEPT ![plan[p].store] = plan[p].post]
    BY <1>2 DEF WriteLedger
  <2>2. /\ plan[p].store \in Stores /\ Keeps(plan[p].pre, plan[p].post)
        /\ plan[p].pre = ledger[plan[p].store]
    BY <2>1 DEF IInv, PlanTyped, PromoteSteps, PromotePlanType, LInv, ApplyKnows,
                WriteKnows, Overtaken
  <2>3. ledger'[s] = IF s = plan[p].store THEN plan[p].post ELSE ledger[s]
    BY <2>1, <2>2 DEF IInv, TypeOK
  <2>4. Keeps(ledger[s], ledger[s])
    BY DEF Keeps
  <2> QED
    BY <2>2, <2>3, <2>4
<1>3. ASSUME NEW t \in Stores, NEW e \in ledger[t], ArchiveByHand(t, e)
      PROVE  Keeps(ledger[s], ledger'[s])
  <2> DEFINE arch == [e EXCEPT !.active = FALSE]
  <2>1. /\ ledger' = [ledger EXCEPT ![t] = (ledger[t] \ {e}) \cup {arch}]
        /\ e.active /\ arch.id = e.id
    BY <1>3 DEF ArchiveByHand, IInv, TypeOK, Entry
  <2> HIDE DEF arch
  <2>2. ledger'[s] = IF s = t THEN (ledger[t] \ {e}) \cup {arch} ELSE ledger[s]
    BY <2>1 DEF IInv, TypeOK
  <2> QED
    BY <2>1, <2>2 DEF Keeps
<1>4. \/ ledger' = ledger
      \/ \E p \in Procs : WriteLedger(p)
      \/ \E t \in Stores : \E e \in ledger[t] : ArchiveByHand(t, e)
  <2>1. CASE \E p \in Procs : Preview(p)
    BY <2>1 DEF Preview, PreviewPromote, PreviewReject, files
  <2>2. CASE \E p \in Procs : Step(p)
    BY <2>2 DEF Step, StartApply, RefuseApply, CompareCandidate, MoveCandidate, StagePromote, LinkRejected,
                UnlinkInbox, StageReject, StageRejectFails, RelinkInbox, UnlinkRejected, files
  <2>3. CASE \E p \in Procs : Interrupt(p)
    BY <2>3 DEF Interrupt, files
  <2>4. CASE User
    BY <2>4 DEF User, Capture, EditCandidate, ResolvePair, GitAddCandidate, GitCommit, files
  <2>5. CASE UNCHANGED vars
    BY <2>5 DEF vars, files
  <2> QED
    BY <2>1, <2>2, <2>3, <2>4, <2>5 DEF Next
<1> QED
  BY <1>1, <1>2, <1>3, <1>4

(* No step loses a lesson but the ledger write of an apply that a change   *)
(* made outside the lock has overtaken.                                    *)
THEOREM OnlyOvertakenLoses ==
  Spec => [][~Overtaken => \A s \in Stores : Keeps(ledger[s], ledger'[s])]_ledger
<1>1. IInv /\ LInv /\ [Next]_vars
        => [~Overtaken => \A s \in Stores : Keeps(ledger[s], ledger'[s])]_ledger
  BY StepKeeps
<1> QED
  BY LedgerInvariant, <1>1, PTL DEF Spec

(* When the user leaves the files alone while an apply holds the lock, the *)
(* ledger an apply writes over is the one its plan was made from.          *)
LEMMA PreHeldStep ==
  ASSUME IInv, ~Overtaken, [Next]_vars, EditsRaceApply = FALSE
  PROVE  ~Overtaken'
<1> SUFFICES ASSUME NEW q \in Procs, pc'[q] = "write"
             PROVE  ledger'[plan'[q].store] = plan'[q].pre
  BY DEF Overtaken
<1>1. CASE \E p \in Procs : StartApply(p)
  <2>1. PICK p \in Procs : StartApply(p)
    BY <1>1
  <2>2. CASE p = q
    <3>1. /\ plan[q].kind # "reject" /\ ledger' = ledger /\ plan' = plan
      BY <2>1, <2>2 DEF StartApply, Goto, IInv, TypeOK, files
    <3>2. /\ plan[q] \in PromotePlanType
          /\ plan[q] \in PromotePlans(plan[q].cand, plan[q].store, plan[q].choice)
      BY <2>1, <2>2, <3>1, ReplannedTyped
    <3>3. plan[q].pre = ledger[plan[q].store]
      BY <3>2 DEF PromotePlans, PromotePlan
    <3> QED
      BY <3>1, <3>3
  <2>3. CASE p # q
    BY <2>1, <2>3, ConstantsOK DEF StartApply, Goto, IInv, TypeOK, LockOwner, PromoteSteps
  <2> QED
    BY <2>2, <2>3
<1>2. ASSUME pc[q] = "write", plan'[q] = plan[q], ledger' = ledger
      PROVE  ledger'[plan'[q].store] = plan'[q].pre
  BY <1>2 DEF Overtaken
<1>3. CASE \E p \in Procs : Preview(p)
  BY <1>2, <1>3 DEF Preview, PreviewPromote, PreviewReject, Goto, IInv, TypeOK, files
<1>4. ASSUME NEW p \in Procs, WriteLedger(p)
      PROVE  FALSE
  BY <1>4, OneApply DEF WriteLedger, Goto, IInv, TypeOK, PromoteSteps
<1>5. ASSUME NEW p \in Procs, ledger' = ledger,
             \/ \E l \in PromoteSteps \cup RejectSteps :
                   l # "write" /\ pc' = [pc EXCEPT ![p] = l] /\ plan' = plan
             \/ pc' = [pc EXCEPT ![p] = "idle"] /\ plan' = [plan EXCEPT ![p] = NoPlan]
      PROVE  pc[q] = "write" /\ plan'[q] = plan[q]
  BY <1>5 DEF IInv, TypeOK
<1>6. CASE \E p \in Procs : \/ RefuseApply(p) \/ CompareCandidate(p) \/ MoveCandidate(p) \/ StagePromote(p)
                           \/ LinkRejected(p) \/ UnlinkInbox(p) \/ StageReject(p)
                           \/ StageRejectFails(p) \/ RelinkInbox(p) \/ UnlinkRejected(p)
                           \/ Interrupt(p)
  <2>1. PICK p \in Procs : \/ RefuseApply(p) \/ CompareCandidate(p) \/ MoveCandidate(p) \/ StagePromote(p)
                           \/ LinkRejected(p) \/ UnlinkInbox(p) \/ StageReject(p)
                           \/ StageRejectFails(p) \/ RelinkInbox(p) \/ UnlinkRejected(p)
                           \/ Interrupt(p)
    BY <1>6
  <2>2. /\ ledger' = ledger
        /\ \/ \E l \in PromoteSteps \cup RejectSteps :
                 l # "write" /\ pc' = [pc EXCEPT ![p] = l] /\ plan' = plan
           \/ pc' = [pc EXCEPT ![p] = "idle"] /\ plan' = [plan EXCEPT ![p] = NoPlan]
    BY <2>1 DEF RefuseApply, CompareCandidate, MoveCandidate, StagePromote, LinkRejected, UnlinkInbox,
                StageReject, StageRejectFails, RelinkInbox, UnlinkRejected, Interrupt,
                Goto, Finish, files, PromoteSteps, RejectSteps
  <2> QED
    BY <1>2, <1>5, <2>2
<1>7. ASSUME NEW t \in Stores, NEW e \in ledger[t], ArchiveByHand(t, e)
      PROVE  FALSE
  BY <1>7, ConstantsOK DEF ArchiveByHand, HandEdit, control, IInv, LockOwner, PromoteSteps
<1>8. CASE User
  BY <1>2, <1>7, <1>8 DEF User, Capture, EditCandidate, ResolvePair, GitAddCandidate, GitCommit,
                          files, control
<1>9. CASE UNCHANGED vars
  BY <1>2, <1>9 DEF vars, files, control
<1> QED
  BY <1>1, <1>3, <1>4, <1>6, <1>8, <1>9 DEF Next, Step

(* So no lesson is lost and no archived line changed, by any interleaving  *)
(* of commands and any deaths, when edits by hand wait for a free lock.    *)
THEOREM NothingLost ==
  ASSUME EditsRaceApply = FALSE
  PROVE  Spec => NoLessonLost
<1>1. Init => ~Overtaken
  BY DEF Init, Overtaken
<1>2. IInv /\ ~Overtaken /\ [Next]_vars => ~Overtaken'
  BY PreHeldStep
<1>3. IInv /\ LInv /\ ~Overtaken /\ [Next]_vars
        => [\A s \in Stores : \A e \in ledger[s] :
              IF e.active THEN \E f \in ledger'[s] : f.id = e.id
                          ELSE e \in ledger'[s]]_ledger
  BY StepKeeps DEF Keeps
<1> QED
  BY LedgerInvariant, <1>1, <1>2, <1>3, PTL DEF Spec, NoLessonLost

(* What README.md promises of a ledger that changed after the preview, the *)
(* code keeps as far as its lock reaches: only a change made inside the    *)
(* apply itself is written over unseen.                                    *)
THEOREM RefusedUnlessOvertaken ==
  ASSUME EditsRaceApply = FALSE
  PROVE  Spec => ChangedLedgerRefused
<1>1. Init => ~Overtaken
  BY DEF Init, Overtaken
<1>2. IInv /\ ~Overtaken /\ [Next]_vars => ~Overtaken'
  BY PreHeldStep
<1>3. ~Overtaken => [\A p \in Procs : pc[p] = "write" /\ pc'[p] = "move" =>
                       ledger[plan[p].store] = plan[p].pre]_vars
  BY DEF Overtaken
<1> QED
  BY LedgerInvariant, <1>1, <1>2, <1>3, PTL DEF Spec, ChangedLedgerRefused
=============================================================================
