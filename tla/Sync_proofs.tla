---------------------------- MODULE Sync_proofs ----------------------------
(***************************************************************************)
(* Proofs about Sync, for any number of processes, runtime files, commits, *)
(* old installations, hand edits, faults and deaths.                       *)
(*                                                                         *)
(* The first half is about the types, and that foreign content is never    *)
(* lost outside the two windows.  The second, with the windows open, is    *)
(* about what sync leaves behind on the paths that nobody else has         *)
(* changed: the receipt tells the truth, sync does not stand in its own    *)
(* way, a killed sync can be recovered, and Sync implements AtomicSync.    *)
(***************************************************************************)
EXTENDS Sync, TLAPS

-----------------------------------------------------------------------------
(* Values of paths.                                                        *)

(* Runtime files are not the receipt, and the sentinels are no values.     *)
LEMMA Names ==
  /\ Receipt \notin Files /\ Receipt \in Paths /\ Files \subseteq Paths
  /\ Files \subseteq Nat
  /\ Absent \notin File /\ NoProc \notin Procs
  /\ NoData \notin HandData /\ Data \cap HandData = {}
BY ConstantsOK DEF ConstantsOK, Files, Receipt, Paths

LEMMA DiskAt ==
  ASSUME NEW d \in Disk, NEW x \in Paths
  PROVE  /\ d[x] \in Value(x)
         /\ x \in Files => d[x] \in File \cup {Absent}
BY Names DEF Disk, Value

LEMMA DiskExcept ==
  ASSUME NEW d \in Disk, NEW x \in Paths, NEW v \in Value(x)
  PROVE  [d EXCEPT ![x] = v] \in Disk
<1>1. v \in File \cup Book \cup {Absent, Damaged}
  BY DEF Value
<1>2. [d EXCEPT ![x] = v] \in [Paths -> File \cup Book \cup {Absent, Damaged}]
  BY <1>1 DEF Disk
<1>3. ASSUME NEW y \in Paths PROVE [d EXCEPT ![x] = v][y] \in Value(y)
  <2>1. CASE y = x
    BY <2>1 DEF Disk
  <2>2. CASE y # x
    BY <2>2 DEF Disk
  <2> QED
    BY <2>1, <2>2
<1> QED
  BY <1>2, <1>3 DEF Disk

LEMMA NoAsideTyped == NoAside \in [Dirs -> Disk]
BY DEF NoAside, Disk, Value

(* A file of the repository is no foreign file.                            *)
LEMMA WantedNotForeign ==
  ASSUME NEW t \in Tree, NEW f \in Files, t[f] # Absent
  PROVE  t[f] \in File /\ t[f].data \in Data /\ ~Foreign(t[f])
BY Names DEF Tree, File, Foreign

-----------------------------------------------------------------------------
(* The control of an apply: what each way of going on leaves behind.       *)

TypeCtl ==
  /\ pending \in BOOLEAN
  /\ lock \in Procs \cup {NoProc}
  /\ pc \in [Procs -> Steps]
  /\ plan \in [Procs -> Plans \cup {NoPlan}]
  /\ job \in [at : Paths, dir : Dirs, err : {"none", "other", "race"}]

CtlOK == TypeCtl /\ LockOwner /\ ApplyKnows

(* A step that changes nothing of the snapshot but which copies are there. *)
SameSnap == /\ snap' \in Snap
            /\ snap'.old = snap.old /\ snap'.new = snap.new
            /\ snap'.changed = snap.changed

LEMMA SnapTyped ==
  ASSUME CtlOK, NEW p \in Procs, pc[p] \in Applying
  PROVE  /\ snap \in Snap
         /\ lock = p
         /\ \A q \in Procs : pc[q] \in Applying => q = p
         /\ snap.changed \subseteq Files
         /\ pc[p] # "snapshot" => pending
BY DEF CtlOK, LockOwner, ApplyKnows, Snap

LEMMA OnwardStep ==
  ASSUME CtlOK, NEW p \in Procs, pc[p] \in Applying \ {"snapshot"},
         NEW l \in Applying \ {"snapshot"}, Onward(p, l), SameSnap,
         l \in Placing => job.at \in snap.changed \cup {Receipt},
         l \in {"detach", "unlink", "inspect", "putback"} => Before(job.at) # Absent,
         l = "chmod" => job.at # Receipt /\ Target(job.at) # Absent
  PROVE  CtlOK'
<1>1. /\ lock = p /\ pending /\ \A q \in Procs : pc[q] \in Applying => q = p
  BY SnapTyped
<1>2. /\ pc' = [pc EXCEPT ![p] = l] /\ lock' = lock /\ plan' = plan
      /\ job' = job /\ pending' = pending
  BY DEF Onward, Goto
<1>3. TypeCtl'
  BY <1>2 DEF CtlOK, TypeCtl, Steps
<1>4. LockOwner'
  BY <1>1, <1>2 DEF CtlOK, TypeCtl, LockOwner
<1>5. ApplyKnows'
  <2> SUFFICES ASSUME NEW q \in Procs PROVE ApplyKnows!(q)'
    BY DEF ApplyKnows
  <2>1. CASE q = p
    BY <2>1, <1>1, <1>2 DEF CtlOK, TypeCtl, SameSnap, Before, Target
  <2>2. CASE q # p
    BY <2>2, <1>1, <1>2 DEF CtlOK, TypeCtl, Placing, Applying
  <2> QED
    BY <2>1, <2>2
<1> QED
  BY <1>3, <1>4, <1>5 DEF CtlOK

LEMMA ToFileStep ==
  ASSUME CtlOK, NEW p \in Procs, pc[p] \in Applying \ {"snapshot"},
         NEW x \in snap.changed \cup {Receipt}, ToFile(p, x), SameSnap
  PROVE  CtlOK'
<1>1. /\ lock = p /\ pending /\ \A q \in Procs : pc[q] \in Applying => q = p
      /\ snap.changed \subseteq Files
  BY SnapTyped
<1>2. /\ pc' = [pc EXCEPT ![p] = "check"] /\ lock' = lock /\ plan' = plan
      /\ job' = [job EXCEPT !.at = x] /\ pending' = pending
  BY DEF ToFile, Goto
<1>3. TypeCtl'
  BY <1>1, <1>2, Names DEF CtlOK, TypeCtl, Steps, Applying
<1>4. LockOwner'
  BY <1>1, <1>2 DEF CtlOK, TypeCtl, LockOwner, Applying
<1>5. ApplyKnows'
  <2> SUFFICES ASSUME NEW q \in Procs PROVE ApplyKnows!(q)'
    BY DEF ApplyKnows
  <2>1. CASE q = p
    BY <2>1, <1>1, <1>2 DEF CtlOK, TypeCtl, SameSnap
  <2>2. CASE q # p
    BY <2>2, <1>1, <1>2 DEF CtlOK, TypeCtl, Placing, Applying
  <2> QED
    BY <2>1, <2>2
<1> QED
  BY <1>3, <1>4, <1>5 DEF CtlOK

LEMMA FinishStep ==
  ASSUME CtlOK, NEW p \in Procs, pc[p] \in Applying, Finish(p), pending' \in BOOLEAN
  PROVE  CtlOK'
<1>1. /\ lock = p /\ \A q \in Procs : pc[q] \in Applying => q = p
  BY SnapTyped
<1>2. /\ pc' = [pc EXCEPT ![p] = "idle"] /\ lock' = NoProc
      /\ plan' = [plan EXCEPT ![p] = NoPlan] /\ job' = NoJob
  BY DEF Finish, Goto
<1>3. TypeCtl'
  BY <1>2, Names DEF CtlOK, TypeCtl, Steps, NoJob, Dirs
<1>4. \A q \in Procs : pc'[q] \notin Applying
  BY <1>1, <1>2 DEF CtlOK, TypeCtl, Applying
<1>5. LockOwner'
  BY <1>2, <1>4, Names DEF LockOwner
<1>6. ApplyKnows'
  BY <1>4 DEF ApplyKnows, Applying, Placing
<1> QED
  BY <1>3, <1>5, <1>6 DEF CtlOK

LEMMA ErrorStep ==
  ASSUME CtlOK, NEW p \in Procs, pc[p] \in Applying \ {"snapshot"},
         NEW e \in {"other", "race"}, Error(p, e), SameSnap
  PROVE  CtlOK'
<1>1. CASE job.dir = "back"
  <2>1. Finish(p) /\ pending' = pending
    BY <1>1 DEF Error, GiveUp
  <2> QED
    BY <2>1, FinishStep DEF CtlOK, TypeCtl
<1>2. CASE job.dir = "fwd"
  <2>1. /\ lock = p /\ pending /\ \A q \in Procs : pc[q] \in Applying => q = p
        /\ snap.changed \subseteq Files
    BY SnapTyped
  <2>2. PICK x \in LastChanged : job' = [at |-> x, dir |-> "back", err |-> e]
    BY <1>2 DEF Error
  <2>3. x \in snap.changed \cup {Receipt}
    BY DEF LastChanged, First
  <2>4. /\ pc' = [pc EXCEPT ![p] = "check"] /\ lock' = lock /\ plan' = plan
        /\ pending' = pending
    BY <1>2 DEF Error, Goto
  <2>5. TypeCtl'
    BY <2>1, <2>2, <2>3, <2>4, Names DEF CtlOK, TypeCtl, Steps, Applying, Dirs
  <2>6. LockOwner'
    BY <2>1, <2>4 DEF CtlOK, TypeCtl, LockOwner, Applying
  <2>7. ApplyKnows'
    <3> SUFFICES ASSUME NEW q \in Procs PROVE ApplyKnows!(q)'
      BY DEF ApplyKnows
    <3>1. CASE q = p
      BY <3>1, <2>1, <2>2, <2>3, <2>4 DEF CtlOK, TypeCtl, SameSnap
    <3>2. CASE q # p
      BY <3>2, <2>1, <2>4 DEF CtlOK, TypeCtl, Placing, Applying
    <3> QED
      BY <3>1, <3>2
  <2> QED
    BY <2>5, <2>6, <2>7 DEF CtlOK
<1> QED
  BY <1>1, <1>2 DEF CtlOK, TypeCtl, Dirs

LEMMA ProceedStep ==
  ASSUME CtlOK, NEW p \in Procs, pc[p] \in Applying \ {"snapshot"},
         Proceed(p), SameSnap
  PROVE  CtlOK'
<1>1. CASE \E x \in First(Later, job.dir) : ToFile(p, x)
  <2>1. PICK x \in snap.changed : ToFile(p, x)
    BY <1>1 DEF First, Later
  <2> QED
    BY <2>1, ToFileStep
<1>2. CASE ToFile(p, Receipt)
  BY <1>2, ToFileStep
<1>3. CASE Onward(p, "verify")
  BY <1>3, OnwardStep DEF Applying, Placing
<1>4. CASE Onward(p, "clear")
  BY <1>4, OnwardStep DEF Applying, Placing
<1>5. CASE GiveUp(p)
  BY <1>5, FinishStep DEF GiveUp, CtlOK, TypeCtl
<1> QED
  BY <1>1, <1>2, <1>3, <1>4, <1>5 DEF Proceed

-----------------------------------------------------------------------------
(* Foreign content, over the same ways of going on.                        *)

HandInv == SnapClean /\ UnlinkSafe /\ MissingAside /\ MissingHeld

(* A step after which no more files are missing than before, and those are *)
(* where they were.                                                        *)
NoNewMissing ==
  \A f \in Files : Missing(f)' =>
    /\ Missing(f) /\ hand'[f] = hand[f] /\ disk'[f] = disk[f]
    /\ \A d \in Dirs : aside'[d][f] = aside[d][f]

LEMMA SnapCleanKept ==
  ASSUME SnapClean, SameSnap, lock # NoProc
  PROVE  SnapClean'
BY DEF SnapClean, SameSnap

LEMMA MissingAsideKept ==
  ASSUME MissingAside, NoNewMissing, pending' = pending
  PROVE  MissingAside'
BY DEF MissingAside, NoNewMissing, HandAside

(* An error forward leaves a file that is missing ahead of the way back;   *)
(* one on the way back ends the apply.                                     *)
LEMMA ErrorHand ==
  ASSUME CtlOK, HandInv, NoNewMissing, SameSnap, CtlOK',
         NEW p \in Procs, pc[p] \in Applying \ {"snapshot"},
         NEW e \in {"other", "race"}, Error(p, e)
  PROVE  HandInv'
<1>1. /\ lock = p /\ \A q \in Procs : pc[q] \in Applying => q = p
      /\ snap.changed \subseteq Files
  BY SnapTyped
<1>2. SnapClean'
  BY <1>1, SnapCleanKept, Names DEF HandInv
<1>3. pending' = pending /\ pc' = [pc EXCEPT ![p] = pc'[p]] /\ pc'[p] \in {"check", "idle"}
  BY DEF Error, GiveUp, Finish, Goto, CtlOK, TypeCtl
<1>4. MissingAside'
  BY <1>3, MissingAsideKept DEF HandInv
<1>5. \A q \in Procs : pc'[q] \notin {"detach", "unlink"}
  BY <1>1, <1>3 DEF CtlOK, TypeCtl, Applying
<1>6. UnlinkSafe'
  BY <1>5 DEF UnlinkSafe
<1>7. CASE job.dir = "back"
  <2>1. lock' = NoProc
    BY <1>7 DEF Error, GiveUp, Finish
  <2>2. MissingHeld'
    BY <2>1, Names DEF MissingHeld
  <2> QED
    BY <1>2, <1>4, <1>6, <2>2 DEF HandInv
<1>8. CASE job.dir = "fwd"
  <2>1. PICK x \in LastChanged : job' = [at |-> x, dir |-> "back", err |-> e]
    BY <1>8 DEF Error
  <2>2. pc'[p] = "check" /\ lock' = lock
    BY <1>8 DEF Error, Goto, CtlOK, TypeCtl
  <2>3. ASSUME NEW f \in Files, Missing(f)'
        PROVE  f \in snap.changed /\ snap.old[f] # Absent /\ (f < x \/ f = x)
    <3>1. Missing(f)
      BY <2>3 DEF NoNewMissing
    <3>2. pc[p] \in {"inspect", "putback"} /\ job.at = f
      BY <3>1, <1>1, <1>8 DEF HandInv, MissingHeld
    <3>3. f \in snap.changed /\ snap.old[f] # Absent
      BY <3>2, <1>8, Names DEF CtlOK, ApplyKnows, Before, Placing
    <3>4. x \in Files /\ f <= x
      BY <3>3, <1>1 DEF LastChanged, First
    <3> QED
      BY <3>3, <3>4, Names
  <2>4. MissingHeld'
    <3> SUFFICES ASSUME NEW f \in Files, NEW q \in Procs, Missing(f)', lock' = q
                 PROVE  /\ pc'[q] \in Placing /\ job'.dir = "back"
                        /\ f \in snap'.changed /\ snap'.old[f] # Absent
                        /\ f < job'.at \/ (f = job'.at /\ pc'[q] = "check")
      BY DEF MissingHeld
    <3> QED
      BY <1>1, <2>1, <2>2, <2>3 DEF SameSnap, Placing
  <2> QED
    BY <1>2, <1>4, <1>6, <2>4 DEF HandInv
<1> QED
  BY <1>7, <1>8 DEF CtlOK, TypeCtl, Dirs

(* Going on to another step of the same path, or past all of them, when    *)
(* the file at hand is not missing.                                        *)
LEMMA OnwardHand ==
  ASSUME CtlOK, HandInv, NoNewMissing, SameSnap,
         NEW p \in Procs, pc[p] \in Applying \ {"snapshot"},
         NEW l \in Applying \ {"detach", "unlink"}, Onward(p, l),
         \A f \in Files : Missing(f)' => f # job.at,
         l \in Placing \/ \A f \in Files : ~Missing(f)'
  PROVE  HandInv'
<1>1. /\ lock = p /\ \A q \in Procs : pc[q] \in Applying => q = p
  BY SnapTyped
<1>2. /\ pc' = [pc EXCEPT ![p] = l] /\ lock' = lock /\ job' = job
      /\ pending' = pending
  BY DEF Onward, Goto
<1>3. SnapClean'
  BY <1>1, SnapCleanKept, Names DEF HandInv
<1>4. MissingAside'
  BY <1>2, MissingAsideKept DEF HandInv
<1>5. UnlinkSafe'
  <2>1. \A q \in Procs : pc'[q] \notin {"detach", "unlink"}
    BY <1>1, <1>2 DEF CtlOK, TypeCtl, Applying
  <2> QED
    BY <2>1 DEF UnlinkSafe
<1>6. MissingHeld'
  <2> SUFFICES ASSUME NEW f \in Files, NEW q \in Procs, Missing(f)', lock' = q
               PROVE  /\ pc'[q] \in Placing /\ job'.dir = "back"
                      /\ f \in snap'.changed /\ snap'.old[f] # Absent
                      /\ f < job'.at
    BY DEF MissingHeld
  <2>1. Missing(f) /\ q = p /\ f # job.at
    BY <1>1, <1>2 DEF NoNewMissing
  <2>2. /\ job.dir = "back" /\ f \in snap.changed /\ snap.old[f] # Absent
        /\ f < job.at
    BY <2>1, <1>1 DEF HandInv, MissingHeld
  <2>3. pc'[q] \in Placing
    BY <1>2, <2>1 DEF CtlOK, TypeCtl
  <2> QED
    BY <1>2, <2>2, <2>3 DEF SameSnap
<1> QED
  BY <1>3, <1>4, <1>5, <1>6 DEF HandInv

(* A path is dealt with: what is still missing lies ahead on the way back. *)
LEMMA ProceedHand ==
  ASSUME CtlOK, HandInv, NoNewMissing, SameSnap,
         NEW p \in Procs, pc[p] \in Placing, Proceed(p),
         \A f \in Files : Missing(f)' => f # job.at
  PROVE  HandInv'
<1>1. /\ lock = p /\ \A q \in Procs : pc[q] \in Applying => q = p
      /\ snap.changed \subseteq Files /\ pc[p] \in Applying \ {"snapshot"}
  BY SnapTyped DEF Placing, Applying
<1>2. /\ pc' = [pc EXCEPT ![p] = pc'[p]]
      /\ pc'[p] \in {"check", "verify", "clear", "idle"}
      /\ pending' = pending
  BY DEF Proceed, ToFile, Onward, GiveUp, Finish, Goto, CtlOK, TypeCtl
<1>3. SnapClean'
  BY <1>1, SnapCleanKept, Names DEF HandInv
<1>4. MissingAside'
  BY <1>2, MissingAsideKept DEF HandInv
<1>5. UnlinkSafe'
  <2>1. \A q \in Procs : pc'[q] \notin {"detach", "unlink"}
    BY <1>1, <1>2 DEF CtlOK, TypeCtl, Applying
  <2> QED
    BY <2>1 DEF UnlinkSafe
<1>6. ASSUME NEW f \in Files, Missing(f)'
      PROVE  /\ job.dir = "back" /\ f \in snap.changed /\ snap.old[f] # Absent
             /\ f < job.at
  <2>1. Missing(f) /\ f # job.at
    BY <1>6 DEF NoNewMissing
  <2> QED
    BY <2>1, <1>1 DEF HandInv, MissingHeld
<1>7. MissingHeld'
  <2> SUFFICES ASSUME NEW f \in Files, NEW q \in Procs, Missing(f)', lock' = q
               PROVE  /\ pc'[q] \in Placing /\ job'.dir = "back"
                      /\ f \in snap'.changed /\ snap'.old[f] # Absent
                      /\ f < job'.at \/ (f = job'.at /\ pc'[q] = "check")
    BY DEF MissingHeld
  <2>1. /\ job.dir = "back" /\ f \in snap.changed /\ snap.old[f] # Absent
        /\ f < job.at
    BY <1>6
  <2>2. f \in Later /\ job.at # Receipt
    BY <2>1, Names DEF Later, Receipt
  <2>3. PICK x \in First(Later, "back") : ToFile(p, x)
    BY <2>1, <2>2 DEF Proceed
  <2>4. x \in Nat /\ f \in Nat /\ x >= f
    BY <2>2, <2>3, <1>1, Names DEF First, Later
  <2>5. /\ lock' = lock /\ pc'[p] = "check" /\ job' = [job EXCEPT !.at = x]
    BY <2>3 DEF ToFile, Goto, CtlOK, TypeCtl
  <2> QED
    BY <2>1, <2>4, <2>5, <1>1 DEF SameSnap, Placing, CtlOK, TypeCtl
<1> QED
  BY <1>3, <1>4, <1>5, <1>7 DEF HandInv

-----------------------------------------------------------------------------
(* Types and control, one action after the other.                          *)

TypeData ==
  /\ disk \in Disk
  /\ want \in Tree
  /\ legacy \in [Files -> Data \cup {NoData}] \cup {Damaged}
  /\ snap \in Snap \cup {NoSnap}
  /\ aside \in [Dirs -> Disk]
  /\ stored \subseteq Data \cup HandData
  /\ hand \in [Files -> HandData \cup {NoData}]
  /\ touched \subseteq Paths
  /\ changes \in 0 .. MaxChanges /\ edits \in 0 .. MaxEdits
  /\ faults \in 0 .. MaxFaults /\ crashes \in 0 .. MaxCrashes

LEMMA Parts == CInv <=> TypeData /\ CtlOK
BY DEF CInv, TypeOK, TypeData, CtlOK, TypeCtl

LEMMA PartsNext == ASSUME TypeData', CtlOK' PROVE CInv'
BY DEF CInv, TypeOK, TypeData, CtlOK, TypeCtl

LEMMA DataKept ==
  ASSUME TypeData, UNCHANGED <<disk, source, snap, aside, stored, history, counts>>
  PROVE  TypeData'
BY DEF TypeData, source, history, counts

(* The control part of a step that leaves every program counter alone.     *)
LEMMA ControlKept ==
  ASSUME CtlOK, UNCHANGED <<pending, control, snap>>
  PROVE  CtlOK'
BY DEF CtlOK, TypeCtl, LockOwner, ApplyKnows, control, Before, Target

(* A process outside an apply goes to another place outside an apply.      *)
LEMMA OutsideStep ==
  ASSUME CtlOK, NEW p \in Procs, pc[p] \notin Applying,
         NEW l \in {"idle", "previewed"}, Goto(p, l),
         plan' \in [Procs -> Plans \cup {NoPlan}],
         UNCHANGED <<pending, lock, job, snap>>
  PROVE  CtlOK'
<1>1. pc' = [pc EXCEPT ![p] = l]
  BY DEF Goto
<1>2. TypeCtl'
  BY <1>1 DEF CtlOK, TypeCtl, Steps
<1>3. pc'[p] \notin Applying /\ \A q \in Procs : q # p => pc'[q] = pc[q]
  BY <1>1 DEF CtlOK, TypeCtl, Applying
<1>4. LockOwner'
  BY <1>3 DEF CtlOK, LockOwner
<1>5. ApplyKnows'
  <2> SUFFICES ASSUME NEW q \in Procs PROVE ApplyKnows!(q)'
    BY DEF ApplyKnows
  <2>1. CASE q = p
    BY <2>1, <1>3 DEF Applying, Placing
  <2>2. CASE q # p
    BY <2>2, <1>3 DEF CtlOK, ApplyKnows, Before, Target
  <2> QED
    BY <2>1, <2>2
<1> QED
  BY <1>2, <1>4, <1>5 DEF CtlOK

LEMMA PlanTyped ==
  ASSUME TypeData PROVE Plan(want) \in Plans
<1>1. [f \in Planned(want) |-> disk[f]] \in [Planned(want) -> File \cup {Absent}]
  BY DiskAt, Names DEF TypeData, Planned
<1>2. Planned(want) \in SUBSET Files
  BY DEF Planned
<1>3. disk[Receipt] \in Value(Receipt)
  BY DiskAt, Names DEF TypeData
<1> QED
  BY <1>1, <1>2, <1>3 DEF Plan, Plans, TypeData

LEMMA PreviewCInv == ASSUME CInv, NEW p \in Procs, Preview(p) PROVE CInv'
<1>1. TypeData /\ CtlOK
  BY Parts
<1>2. TypeData'
  BY <1>1, DataKept DEF Preview, record
<1>3. plan' \in [Procs -> Plans \cup {NoPlan}]
  BY <1>1, PlanTyped DEF Preview, CtlOK, TypeCtl
<1>4. CtlOK'
  BY <1>1, <1>3, OutsideStep DEF Preview, record, Applying
<1> QED
  BY <1>2, <1>4, PartsNext

LEMMA RefuseCInv == ASSUME CInv, NEW p \in Procs, Refuse(p) PROVE CInv'
<1>1. TypeData /\ CtlOK
  BY Parts
<1>2. TypeData'
  BY <1>1, DataKept DEF Refuse, record
<1>3. plan' \in [Procs -> Plans \cup {NoPlan}]
  BY <1>1 DEF Refuse, CtlOK, TypeCtl
<1>4. CtlOK'
  BY <1>1, <1>3, OutsideStep DEF Refuse, record, Applying
<1> QED
  BY <1>2, <1>4, PartsNext

LEMMA BookTyped == ASSUME TypeData PROVE NextBook(want) \in Book
<1>1. Rows \in [Files -> Row \cup {NoRow}]
  BY DiskAt, Names DEF TypeData, Rows, NoRows, Value, Book
<1>2. ASSUME NEW f \in Planned(want)
      PROVE  f \in Files /\ ActiveRow(want[f]) \in Row
  BY <1>2 DEF TypeData, Tree, Planned, ActiveRow, Row
<1>3. ASSUME NEW f \in Kept(want)
      PROVE  [Rows[f] EXCEPT !.status = "retained"] \in Row
  BY <1>1, <1>3 DEF Kept, Row
<1>4. NextBook(want).rows \in [Files -> Row \cup {NoRow}]
  BY <1>2, <1>3 DEF NextBook
<1> QED
  BY <1>4 DEF NextBook, Book, TypeData

LEMMA BeginSnapTyped ==
  ASSUME TypeData
  PROVE  [old |-> disk,
          new |-> [x \in Paths |-> IF x = Receipt THEN NextBook(want)
                                   ELSE IF x \in Planned(want) THEN want[x] ELSE disk[x]],
          changed |-> Changing(want), copies |-> {}] \in Snap
<1> DEFINE new == [x \in Paths |-> IF x = Receipt THEN NextBook(want)
                                   ELSE IF x \in Planned(want) THEN want[x] ELSE disk[x]]
<1>1. ASSUME NEW x \in Paths PROVE new[x] \in Value(x)
  <2>1. CASE x = Receipt
    BY <2>1, BookTyped DEF Value
  <2>2. CASE x # Receipt /\ x \in Planned(want)
    BY <2>2, WantedNotForeign DEF Planned, TypeData, Value
  <2>3. CASE x # Receipt /\ x \notin Planned(want)
    BY <2>3, DiskAt DEF TypeData
  <2> QED
    BY <2>1, <2>2, <2>3
<1>2. new \in [Paths -> File \cup Book \cup {Absent, Damaged}]
  BY <1>1 DEF Value
<1>3. new \in Disk
  BY <1>1, <1>2 DEF Disk
<1>4. Changing(want) \subseteq Files
  BY DEF Changing, Planned
<1> QED
  BY <1>3, <1>4 DEF Snap, TypeData

LEMMA BeginCInv == ASSUME CInv, NEW p \in Procs, Begin(p) PROVE CInv'
<1>1. TypeData /\ CtlOK /\ pc[p] = "previewed" /\ lock = NoProc
  BY Parts DEF Begin
<1>2. CASE Finish(p) /\ UNCHANGED snap
  <2>1. TypeData'
    BY <1>1, <1>2, DataKept DEF Begin
  <2>2. plan' \in [Procs -> Plans \cup {NoPlan}] /\ lock' = lock
    BY <1>1, <1>2 DEF Finish, CtlOK, TypeCtl
  <2>3. ASSUME NEW q \in Procs PROVE pc'[q] \notin Applying
    BY <1>1, <1>2, Names DEF Finish, Goto, CtlOK, TypeCtl, LockOwner, Applying
  <2>4. TypeCtl'
    BY <1>1, <1>2, <2>2, Names DEF Begin, Finish, Goto, CtlOK, TypeCtl, Steps, NoJob, Dirs
  <2>5. CtlOK'
    BY <2>2, <2>3, <2>4, <1>1, Names DEF CtlOK, LockOwner, ApplyKnows, Placing, Applying
  <2> QED
    BY <2>1, <2>5, PartsNext
<1>3. CASE /\ snap' \in Snap /\ lock' = p /\ Goto(p, "snapshot")
           /\ UNCHANGED <<plan, job>>
  <2>1. TypeData'
    BY <1>1, <1>3 DEF Begin, TypeData, source, history, counts
  <2>2. \A q \in Procs : pc'[q] = IF q = p THEN "snapshot" ELSE pc[q]
    BY <1>1, <1>3 DEF Goto, CtlOK, TypeCtl
  <2>3. \A q \in Procs : pc[q] \notin Applying
    BY <1>1, Names DEF CtlOK, LockOwner
  <2>4. TypeCtl'
    BY <1>1, <1>3 DEF Begin, Goto, CtlOK, TypeCtl, Steps, Applying
  <2>5. LockOwner'
    BY <1>3, <2>2, <2>3 DEF LockOwner, Applying
  <2>6. ApplyKnows'
    BY <1>3, <2>2, <2>3 DEF ApplyKnows, Placing, Applying
  <2> QED
    BY <2>1, <2>4, <2>5, <2>6, PartsNext DEF CtlOK
<1> QED
  BY <1>1, <1>2, <1>3, BeginSnapTyped DEF Begin

(* Where the apply is and what it is about to do.                          *)
LEMMA AtPath ==
  ASSUME CInv, NEW p \in Procs, pc[p] \in Placing
  PROVE  /\ job.at \in Paths /\ job.dir \in Dirs
         /\ Before(job.at) \in Value(job.at) /\ Target(job.at) \in Value(job.at)
         /\ disk[job.at] \in Value(job.at)
         /\ aside[job.dir][job.at] \in Value(job.at)
         /\ pc[p] \in Applying \ {"snapshot"}
<1>1. TypeData /\ CtlOK
  BY Parts
<1>2. pc[p] \in Applying \ {"snapshot"}
  BY DEF Placing, Applying
<1>3. snap \in Snap /\ job.at \in Paths /\ job.dir \in Dirs
  BY <1>1, <1>2, SnapTyped DEF CtlOK, TypeCtl
<1>4. snap.old \in Disk /\ snap.new \in Disk
  BY <1>3 DEF Snap
<1>5. disk \in Disk /\ aside[job.dir] \in Disk
  BY <1>1, <1>3 DEF TypeData
<1> QED
  BY <1>2, <1>3, <1>4, <1>5, DiskAt DEF Before, Target

LEMMA SameSnapKept == ASSUME snap \in Snap, snap' = snap PROVE SameSnap
BY DEF SameSnap

LEMMA CheckFileCInv == ASSUME CInv, NEW p \in Procs, CheckFile(p) PROVE CInv'
<1> DEFINE x == job.at
<1>1. TypeData /\ CtlOK /\ pc[p] \in Applying \ {"snapshot"}
  BY Parts DEF CheckFile, Applying
<1>2. TypeData'
  BY <1>1, DataKept DEF CheckFile
<1>3. SameSnap
  BY <1>1, SnapTyped, SameSnapKept DEF CheckFile
<1>4. CASE Onward(p, FirstStep(x)) /\ (job.dir = "back" => ~AsReviewed(x) /\ AsPlaced(x))
  <2>1. x \in snap.changed \cup {Receipt} /\ x \in Paths
    BY <1>1, AtPath DEF CheckFile, CtlOK, ApplyKnows, Placing
  <2>2. FirstStep(x) \in {"place", "chmod", "detach"}
    BY DEF FirstStep
  <2>3. FirstStep(x) = "detach" => Before(x) # Absent
    BY DEF FirstStep
  <2>4. FirstStep(x) = "chmod" => x # Receipt /\ Target(x) # Absent
    BY DEF FirstStep, SameData
  <2> QED
    BY <1>1, <1>2, <1>3, <1>4, <2>1, <2>2, <2>3, <2>4, OnwardStep, PartsNext
       DEF Applying, Placing
<1>5. CASE Error(p, "other")
  BY <1>1, <1>2, <1>3, <1>5, ErrorStep, PartsNext
<1>6. CASE Proceed(p)
  BY <1>1, <1>2, <1>3, <1>6, ProceedStep, PartsNext
<1>7. CASE GiveUp(p)
  BY <1>1, <1>2, <1>7, FinishStep, PartsNext DEF GiveUp, CtlOK, TypeCtl
<1> QED
  BY <1>4, <1>5, <1>6, <1>7 DEF CheckFile

LEMMA LinkAsideCInv == ASSUME CInv, NEW p \in Procs, LinkAside(p) PROVE CInv'
<1>1. TypeData /\ CtlOK /\ pc[p] \in Applying \ {"snapshot"} /\ pc[p] \in Placing
  BY Parts DEF LinkAside, Applying, Placing
<1>2. SameSnap
  BY <1>1, SnapTyped, SameSnapKept DEF LinkAside
<1>3. CASE aside' = [aside EXCEPT ![job.dir][job.at] = disk[job.at]] /\ Onward(p, "unlink")
  <2>1. [aside[job.dir] EXCEPT ![job.at] = disk[job.at]] \in Disk
    BY <1>1, AtPath, DiskExcept DEF TypeData
  <2>2. aside' \in [Dirs -> Disk]
    BY <1>1, <1>3, <2>1, AtPath DEF TypeData
  <2>3. TypeData'
    BY <1>1, <2>2 DEF LinkAside, TypeData, source, history, counts
  <2>4. job.at \in snap.changed \cup {Receipt} /\ Before(job.at) # Absent
    BY <1>1 DEF CtlOK, ApplyKnows, LinkAside
  <2> QED
    BY <1>1, <1>2, <1>3, <2>3, <2>4, OnwardStep, PartsNext DEF Applying, Placing
<1>4. CASE Error(p, "race") /\ UNCHANGED aside
  <2>1. TypeData'
    BY <1>1, <1>4, DataKept DEF LinkAside
  <2> QED
    BY <1>1, <1>2, <1>4, <2>1, ErrorStep, PartsNext
<1> QED
  BY <1>3, <1>4 DEF LinkAside

LEMMA UnlinkPathCInv == ASSUME CInv, NEW p \in Procs, UnlinkPath(p) PROVE CInv'
<1>1. TypeData /\ CtlOK /\ pc[p] \in Applying \ {"snapshot"} /\ pc[p] \in Placing
  BY Parts DEF UnlinkPath, Applying, Placing
<1>2. SameSnap
  BY <1>1, SnapTyped, SameSnapKept DEF UnlinkPath
<1>3. CASE /\ disk' = [disk EXCEPT ![job.at] = Absent]
           /\ Onward(p, IF Removing(job.at) THEN "gone" ELSE "inspect")
  <2>1. Absent \in Value(job.at)
    BY DEF Value
  <2>2. disk' \in Disk
    BY <1>1, <1>3, <2>1, AtPath, DiskExcept DEF TypeData
  <2>3. TypeData'
    BY <1>1, <2>2 DEF UnlinkPath, TypeData, source, history, counts
  <2>4. job.at \in snap.changed \cup {Receipt} /\ Before(job.at) # Absent
    BY <1>1 DEF CtlOK, ApplyKnows, UnlinkPath
  <2> QED
    BY <1>1, <1>2, <1>3, <2>3, <2>4, OnwardStep, PartsNext DEF Applying, Placing
<1>4. CASE Error(p, "race") /\ UNCHANGED disk
  <2>1. TypeData'
    BY <1>1, <1>4, DataKept DEF UnlinkPath
  <2> QED
    BY <1>1, <1>2, <1>4, <2>1, ErrorStep, PartsNext
<1> QED
  BY <1>3, <1>4 DEF UnlinkPath

LEMMA InspectAsideCInv == ASSUME CInv, NEW p \in Procs, InspectAside(p) PROVE CInv'
<1>1. TypeData /\ CtlOK /\ pc[p] \in Applying \ {"snapshot"}
  BY Parts DEF InspectAside, Applying
<1>2. TypeData' /\ SameSnap
  BY <1>1, DataKept, SnapTyped, SameSnapKept DEF InspectAside
<1>3. job.at \in snap.changed \cup {Receipt} /\ Before(job.at) # Absent
  BY <1>1 DEF CtlOK, ApplyKnows, InspectAside, Placing
<1>4. PICK l \in {"place", "putback"} : Onward(p, l)
  BY DEF InspectAside
<1> QED
  BY <1>1, <1>2, <1>3, <1>4, OnwardStep, PartsNext DEF Applying, Placing

LEMMA PutBackCInv == ASSUME CInv, NEW p \in Procs, PutBack(p) PROVE CInv'
<1>1. /\ TypeData /\ CtlOK /\ pc[p] \in Applying \ {"snapshot"} /\ pc[p] \in Placing
      /\ Error(p, "race")
  BY Parts DEF PutBack, Applying, Placing
<1>2. SameSnap
  BY <1>1, SnapTyped, SameSnapKept DEF PutBack
<1>3. CASE /\ disk' = [disk EXCEPT ![job.at] = aside[job.dir][job.at]]
           /\ aside' = [aside EXCEPT ![job.dir][job.at] = Absent]
  <2>1. disk' \in Disk
    BY <1>1, <1>3, AtPath, DiskExcept DEF TypeData
  <2>2. [aside[job.dir] EXCEPT ![job.at] = Absent] \in Disk
    BY <1>1, AtPath, DiskExcept DEF TypeData, Value
  <2>3. aside' \in [Dirs -> Disk]
    BY <1>1, <1>3, <2>2, AtPath DEF TypeData
  <2>4. TypeData'
    BY <1>1, <2>1, <2>3 DEF PutBack, TypeData, source, history, counts
  <2> QED
    BY <1>1, <1>2, <2>4, ErrorStep, PartsNext
<1>4. CASE UNCHANGED <<disk, aside>>
  <2>1. TypeData'
    BY <1>1, <1>4, DataKept DEF PutBack
  <2> QED
    BY <1>1, <1>2, <2>1, ErrorStep, PartsNext
<1> QED
  BY <1>3, <1>4 DEF PutBack

LEMMA PlaceCInv == ASSUME CInv, NEW p \in Procs, Place(p) PROVE CInv'
<1>1. TypeData /\ CtlOK /\ pc[p] \in Applying \ {"snapshot"} /\ pc[p] \in Placing
  BY Parts DEF Place, Applying, Placing
<1>2. SameSnap
  BY <1>1, SnapTyped, SameSnapKept DEF Place
<1>3. CASE disk' = [disk EXCEPT ![job.at] = Target(job.at)] /\ Onward(p, "placed")
  <2>1. disk' \in Disk
    BY <1>1, <1>3, AtPath, DiskExcept DEF TypeData
  <2>2. TypeData'
    BY <1>1, <2>1 DEF Place, TypeData, source, history, counts
  <2>3. job.at \in snap.changed \cup {Receipt}
    BY <1>1 DEF CtlOK, ApplyKnows
  <2> QED
    BY <1>1, <1>2, <1>3, <2>2, <2>3, OnwardStep, PartsNext DEF Applying, Placing
<1>4. CASE Error(p, "race") /\ UNCHANGED disk
  <2>1. TypeData'
    BY <1>1, <1>4, DataKept DEF Place
  <2> QED
    BY <1>1, <1>2, <1>4, <2>1, ErrorStep, PartsNext
<1> QED
  BY <1>3, <1>4 DEF Place

LEMMA ChmodCInv == ASSUME CInv, NEW p \in Procs, Chmod(p) PROVE CInv'
<1>1. TypeData /\ CtlOK /\ pc[p] \in Applying \ {"snapshot"} /\ pc[p] \in Placing
  BY Parts DEF Chmod, Applying, Placing
<1>2. SameSnap
  BY <1>1, SnapTyped, SameSnapKept DEF Chmod
<1>3. CASE /\ disk[job.at] # Absent
           /\ disk' = [disk EXCEPT ![job.at].exec = Target(job.at).exec]
           /\ Onward(p, "placed")
  <2>1. job.at # Receipt /\ Target(job.at) # Absent /\ job.at \in snap.changed \cup {Receipt}
    BY <1>1 DEF CtlOK, ApplyKnows, Chmod
  <2>2. Target(job.at) \in File /\ disk[job.at] \in File
    BY <1>1, <1>3, <2>1, AtPath DEF Value
  <2>3. [disk[job.at] EXCEPT !.exec = Target(job.at).exec] \in Value(job.at)
    BY <2>1, <2>2 DEF File, Value
  <2>4. disk' = [disk EXCEPT ![job.at] = [disk[job.at] EXCEPT !.exec = Target(job.at).exec]]
    BY <1>3
  <2>5. disk' \in Disk
    BY <1>1, <2>3, <2>4, AtPath, DiskExcept DEF TypeData
  <2>6. TypeData'
    BY <1>1, <2>5 DEF Chmod, TypeData, source, history, counts
  <2> QED
    BY <1>1, <1>2, <1>3, <2>1, <2>6, OnwardStep, PartsNext DEF Applying, Placing
<1>4. CASE Error(p, "race") /\ UNCHANGED disk
  <2>1. TypeData'
    BY <1>1, <1>4, DataKept DEF Chmod
  <2> QED
    BY <1>1, <1>2, <1>4, <2>1, ErrorStep, PartsNext
<1> QED
  BY <1>3, <1>4 DEF Chmod

LEMMA CheckPlacedCInv == ASSUME CInv, NEW p \in Procs, CheckPlaced(p) PROVE CInv'
<1>1. TypeData /\ CtlOK /\ pc[p] \in Applying \ {"snapshot"}
  BY Parts DEF CheckPlaced, Applying
<1>2. TypeData' /\ SameSnap
  BY <1>1, DataKept, SnapTyped, SameSnapKept DEF CheckPlaced
<1> QED
  BY <1>1, <1>2, ProceedStep, ErrorStep, PartsNext DEF CheckPlaced

LEMMA CheckGoneCInv == ASSUME CInv, NEW p \in Procs, CheckGone(p) PROVE CInv'
<1>1. TypeData /\ CtlOK /\ pc[p] \in Applying \ {"snapshot"}
  BY Parts DEF CheckGone, Applying
<1>2. TypeData' /\ SameSnap
  BY <1>1, DataKept, SnapTyped, SameSnapKept DEF CheckGone
<1> QED
  BY <1>1, <1>2, ProceedStep, ErrorStep, PartsNext DEF CheckGone

LEMMA VerifyCInv == ASSUME CInv, NEW p \in Procs, Verify(p) PROVE CInv'
<1>1. TypeData /\ CtlOK /\ pc[p] \in Applying \ {"snapshot"}
  BY Parts DEF Verify, Applying
<1>2. TypeData' /\ SameSnap
  BY <1>1, DataKept, SnapTyped, SameSnapKept DEF Verify
<1>3. CASE ToFile(p, Receipt)
  BY <1>1, <1>2, <1>3, ToFileStep, PartsNext
<1>4. CASE Onward(p, "clear")
  BY <1>1, <1>2, <1>4, OnwardStep, PartsNext DEF Applying, Placing
<1>5. CASE Error(p, "other")
  BY <1>1, <1>2, <1>5, ErrorStep, PartsNext
<1> QED
  BY <1>3, <1>4, <1>5 DEF Verify

LEMMA SnapshotCInv == ASSUME CInv, NEW p \in Procs, Snapshot(p) PROVE CInv'
<1>1. TypeData /\ CtlOK /\ pc[p] = "snapshot"
  BY Parts DEF Snapshot
<1>2. /\ snap \in Snap /\ lock = p /\ snap.changed \subseteq Files
      /\ \A q \in Procs : pc[q] \in Applying => q = p
  BY <1>1, SnapTyped DEF Applying
<1>3. CASE Finish(p) /\ snap' = NoSnap /\ UNCHANGED pending
  <2>1. TypeData'
    BY <1>1, <1>3 DEF Snapshot, TypeData, source, history, counts
  <2>2. CtlOK'
    BY <1>1, <1>3, FinishStep DEF Applying, CtlOK, TypeCtl
  <2> QED
    BY <2>1, <2>2, PartsNext
<1>4. CASE /\ snap' = [snap EXCEPT !.copies = Copied] /\ pending' = TRUE
           /\ \/ Goto(p, "verify") /\ UNCHANGED job
              \/ /\ Goto(p, "check")
                 /\ \E x \in First(snap.changed, "fwd") : job' = [job EXCEPT !.at = x]
           /\ UNCHANGED <<lock, plan>>
  <2>1. Copied \subseteq Paths
    BY <1>2, Names DEF Copied
  <2>2. SameSnap
    BY <1>2, <1>4, <2>1 DEF SameSnap, Snap
  <2>3. TypeData'
    BY <1>1, <1>4, <2>2 DEF Snapshot, TypeData, SameSnap, source, history, counts
  <2>4. PICK l \in {"verify", "check"} : Goto(p, l)
    BY <1>4
  <2>5. \A q \in Procs : pc'[q] = IF q = p THEN l ELSE pc[q]
    BY <1>1, <2>4 DEF Goto, CtlOK, TypeCtl
  <2>6. \/ l = "verify" /\ job' = job
        \/ \E x \in snap.changed : job' = [job EXCEPT !.at = x]
    BY <1>1, <1>4, <2>4 DEF Goto, First, CtlOK, TypeCtl
  <2>7. job' \in [at : Paths, dir : Dirs, err : {"none", "other", "race"}]
    BY <1>1, <1>2, <2>6, Names DEF CtlOK, TypeCtl
  <2>8. TypeCtl'
    BY <1>1, <1>4, <2>4, <2>7 DEF Goto, CtlOK, TypeCtl, Steps, Applying
  <2>9. LockOwner'
    BY <1>1, <1>2, <1>4, <2>5 DEF CtlOK, LockOwner, Applying
  <2>10. l = "check" => job'.at \in snap'.changed \cup {Receipt}
    BY <1>1, <2>2, <2>6 DEF SameSnap, CtlOK, TypeCtl
  <2>11. ApplyKnows'
    <3> SUFFICES ASSUME NEW q \in Procs PROVE ApplyKnows!(q)'
      BY DEF ApplyKnows
    <3>1. CASE q = p
      BY <3>1, <1>4, <2>2, <2>5, <2>10 DEF SameSnap, Placing
    <3>2. CASE q # p
      BY <3>2, <1>2, <2>5 DEF Placing, Applying
    <3> QED
      BY <3>1, <3>2
  <2> QED
    BY <2>3, <2>8, <2>9, <2>11, PartsNext DEF CtlOK
<1> QED
  BY <1>3, <1>4 DEF Snapshot

LEMMA ClearSnapshotCInv == ASSUME CInv, NEW p \in Procs, ClearSnapshot(p) PROVE CInv'
<1>1. TypeData /\ CtlOK /\ pc[p] \in Applying \ {"snapshot"}
  BY Parts DEF ClearSnapshot, Applying
<1>2. SameSnap
  BY <1>1, SnapTyped DEF ClearSnapshot, SameSnap, Snap
<1>3. TypeData'
  BY <1>1, <1>2, NoAsideTyped
     DEF ClearSnapshot, TypeData, SameSnap, source, history, counts
<1> QED
  BY <1>1, <1>2, <1>3, OnwardStep, PartsNext DEF ClearSnapshot, Applying, Placing

LEMMA RemoveMarkerCInv == ASSUME CInv, NEW p \in Procs, RemoveMarker(p) PROVE CInv'
<1>1. TypeData /\ CtlOK /\ pc[p] \in Applying
  BY Parts DEF RemoveMarker, Applying
<1>2. TypeData'
  BY <1>1 DEF RemoveMarker, TypeData, source, history, counts
<1> QED
  BY <1>1, <1>2, FinishStep, PartsNext DEF RemoveMarker

LEMMA FaultCInv == ASSUME CInv, NEW p \in Procs, Fault(p) PROVE CInv'
<1>1. TypeData /\ CtlOK /\ pc[p] \in Applying \ {"snapshot"}
  BY Parts DEF Fault
<1>2. SameSnap
  BY <1>1, SnapTyped, SameSnapKept DEF Fault
<1>3. TypeData'
  BY <1>1, ConstantsOK DEF ConstantsOK, Fault, TypeData, source, history
<1> QED
  BY <1>1, <1>2, <1>3, ErrorStep, PartsNext DEF Fault

LEMMA ClearFailsCInv == ASSUME CInv, NEW p \in Procs, ClearFails(p) PROVE CInv'
<1>1. TypeData /\ CtlOK /\ pc[p] \in Applying \ {"snapshot"}
  BY Parts DEF ClearFails, Applying
<1>2. SameSnap
  BY <1>1, SnapTyped DEF ClearFails, SameSnap, Snap
<1>3. TypeData'
  BY <1>1, <1>2, NoAsideTyped, ConstantsOK
     DEF ConstantsOK, ClearFails, TypeData, SameSnap, source, history
<1> QED
  BY <1>1, <1>2, <1>3, ErrorStep, PartsNext DEF ClearFails

LEMMA CrashCInv == ASSUME CInv, NEW p \in Procs, Crash(p) PROVE CInv'
<1>1. TypeData /\ CtlOK /\ pc[p] \in Applying
  BY Parts DEF Crash
<1>2. snap \in Snap
  BY <1>1, SnapTyped
<1>3. snap' \in Snap \cup {NoSnap}
  BY <1>2 DEF Crash, Snap
<1>4. aside' \in [Dirs -> Disk]
  BY <1>1, NoAsideTyped DEF Crash, TypeData
<1>5. TypeData'
  BY <1>1, <1>3, <1>4, ConstantsOK DEF ConstantsOK, Crash, TypeData, source, history
<1>6. CtlOK'
  BY <1>1, FinishStep DEF Crash, CtlOK, TypeCtl
<1> QED
  BY <1>5, <1>6, PartsNext

LEMMA HandEditCInv ==
  ASSUME CInv, NEW x \in Paths, NEW v \in Value(x), NEW how \in {"replace", "inplace"},
         HandEdit(x, v, how)
  PROVE  CInv'
<1>1. TypeData /\ CtlOK
  BY Parts
<1>2. disk' \in Disk
  BY <1>1, DiskExcept DEF HandEdit, TypeData
<1>3. aside' \in [Dirs -> Disk]
  <2>1. job.dir \in Dirs /\ aside[job.dir] \in Disk
    BY <1>1 DEF CtlOK, TypeCtl, TypeData
  <2>2. [aside[job.dir] EXCEPT ![x] = v] \in Disk
    BY <2>1, DiskExcept
  <2> QED
    BY <1>1, <2>1, <2>2 DEF HandEdit, TypeData
<1>4. hand' \in [Files -> HandData \cup {NoData}]
  BY <1>1 DEF HandEdit, TypeData
<1>5. TypeData'
  BY <1>1, <1>2, <1>3, <1>4, ConstantsOK DEF ConstantsOK, HandEdit, TypeData, source
<1>6. CtlOK'
  BY <1>1, ControlKept DEF HandEdit
<1> QED
  BY <1>5, <1>6, PartsNext

LEMMA SourceChangeCInv == ASSUME CInv, NEW t \in Trees, SourceChange(t) PROVE CInv'
<1>1. TypeData /\ CtlOK
  BY Parts
<1>2. TypeData'
  BY <1>1, ConstantsOK DEF ConstantsOK, SourceChange, TypeData, record, history
<1>3. CtlOK'
  BY <1>1, ControlKept DEF SourceChange, record
<1> QED
  BY <1>2, <1>3, PartsNext

LEMMA MoveLegacyAsideCInv == ASSUME CInv, MoveLegacyAside PROVE CInv'
<1>1. TypeData /\ CtlOK
  BY Parts
<1>2. TypeData'
  BY <1>1 DEF MoveLegacyAside, TypeData, record, history, counts
<1>3. CtlOK'
  BY <1>1, ControlKept DEF MoveLegacyAside, record
<1> QED
  BY <1>2, <1>3, PartsNext

LEMMA ClearMarkerCInv == ASSUME CInv, ClearMarker PROVE CInv'
<1>1. TypeData /\ CtlOK
  BY Parts
<1>2. ASSUME NEW d \in Dirs, NEW f \in Files, aside[d][f] # Absent
      PROVE  aside[d][f].data \in Data \cup HandData
  BY <1>1, <1>2, DiskAt, Names DEF TypeData, File
<1>3. stored' \subseteq Data \cup HandData
  BY <1>1, <1>2 DEF ClearMarker, TypeData
<1>4. TypeData'
  BY <1>1, <1>3, NoAsideTyped DEF ClearMarker, TypeData, source, counts
<1>5. \A q \in Procs : pc[q] \notin Applying
  BY <1>1, Names DEF ClearMarker, CtlOK, LockOwner
<1>6. CtlOK'
  BY <1>1, <1>5 DEF ClearMarker, control, CtlOK, TypeCtl, LockOwner, ApplyKnows,
                     Applying, Placing
<1> QED
  BY <1>4, <1>6, PartsNext

LEMMA InitCInv == ASSUME Init PROVE CInv
<1>1. disk \in Disk
  <2>1. ASSUME NEW x \in Paths PROVE disk[x] \in Value(x)
    BY <2>1, ConstantsOK, Names DEF Init, ConstantsOK, Value, File, Paths
  <2> QED
    BY <2>1 DEF Init, Disk, Value
<1>2. TypeData
  BY <1>1, ConstantsOK, NoAsideTyped DEF Init, ConstantsOK, TypeData
<1>3. TypeCtl
  BY Names DEF Init, TypeCtl, Steps, NoJob, Dirs
<1>4. \A p \in Procs : pc[p] \notin Applying
  BY DEF Init, Applying
<1>5. LockOwner /\ ApplyKnows
  BY <1>4, Names DEF Init, LockOwner, ApplyKnows, Applying, Placing
<1> QED
  BY <1>2, <1>3, <1>5, Parts DEF CtlOK

(* What the user may write is a value of the path he writes.               *)
LEMMA EditsTyped ==
  /\ \A x \in Files : HandFiles \cup {Absent} \subseteq Value(x) /\ x \in Paths
  /\ {Absent, Damaged} \subseteq Value(Receipt) /\ Receipt \in Paths
BY Names, ConstantsOK DEF ConstantsOK, Value

LEMMA StutterCInv == ASSUME CInv, UNCHANGED vars PROVE CInv'
<1>1. TypeData'
  BY Parts, DataKept DEF vars, record
<1>2. CtlOK'
  BY Parts, ControlKept DEF vars, record
<1> QED
  BY <1>1, <1>2, PartsNext

LEMMA NextCInv == ASSUME CInv, [Next]_vars PROVE CInv'
<1>1. ASSUME NEW p \in Procs, Preview(p) \/ Step(p) \/ Failure(p) PROVE CInv'
  BY <1>1, PreviewCInv, BeginCInv, RefuseCInv, SnapshotCInv, CheckFileCInv,
     LinkAsideCInv, UnlinkPathCInv, InspectAsideCInv, PutBackCInv, PlaceCInv,
     ChmodCInv, CheckPlacedCInv, CheckGoneCInv, VerifyCInv, ClearSnapshotCInv,
     RemoveMarkerCInv, FaultCInv, ClearFailsCInv, CrashCInv
     DEF Step, Failure
<1>2. ASSUME User PROVE CInv'
  <2>1. ASSUME NEW x \in Files, NEW v \in HandFiles \cup {Absent},
               NEW how \in {"replace", "inplace"}, HandEdit(x, v, how)
        PROVE  CInv'
    BY <2>1, EditsTyped, HandEditCInv
  <2>2. ASSUME NEW v \in {Absent, Damaged}, HandEdit(Receipt, v, "replace") PROVE CInv'
    BY <2>2, EditsTyped, HandEditCInv
  <2> QED
    BY <1>2, <2>1, <2>2, SourceChangeCInv, MoveLegacyAsideCInv, ClearMarkerCInv DEF User
<1>3. CASE UNCHANGED vars
  BY <1>3, StutterCInv
<1> QED
  BY <1>1, <1>2, <1>3 DEF Next

(* Every variable keeps its type, and with it: exactly the process inside  *)
(* an apply holds the lock, and the pending marker is there from the first *)
(* change to the end (execute in sync.py).                                 *)
THEOREM ControlInvariant == Spec => []CInv
<1>1. Init => CInv
  BY InitCInv
<1>2. CInv /\ [Next]_vars => CInv'
  BY NextCInv
<1> QED
  BY <1>1, <1>2, PTL DEF Spec

(* Whatever interleaves, fails or dies, every variable keeps its type: the *)
(* receipt stays a receipt, a runtime file a file, and a plan a plan.      *)
THEOREM TypeCorrect == Spec => []TypeOK
<1>1. CInv => TypeOK
  BY DEF CInv
<1> QED
  BY <1>1, ControlInvariant, PTL

-----------------------------------------------------------------------------
(* Foreign content, one action after the other.                            *)

LEMMA NothingMissing ==
  ASSUME SnapClean', \A f \in Files : ~Missing(f)',
         \A q \in Procs : pc'[q] \notin {"detach", "unlink"}
  PROVE  HandInv'
BY DEF HandInv, UnlinkSafe, MissingAside, MissingHeld

(* A file is missing only while an apply changes files or after it ended.  *)
LEMMA NoneMissing ==
  ASSUME CInv, HandInv, ~pending \/ \E p \in Procs : pc[p] \in Applying \ Placing
  PROVE  \A f \in Files : ~Missing(f)
<1>1. CASE ~pending
  BY <1>1 DEF HandInv, MissingAside
<1>2. ASSUME NEW p \in Procs, pc[p] \in Applying \ Placing
      PROVE  \A f \in Files : ~Missing(f)
  <2>1. lock = p
    BY <1>2 DEF CInv, LockOwner
  <2> QED
    BY <1>2, <2>1 DEF HandInv, MissingHeld, Placing
<1> QED
  BY <1>1, <1>2

(* On a way forward nothing is missing but what is being looked at.        *)
LEMMA MissingIs ==
  ASSUME CInv, HandInv, NEW p \in Procs, pc[p] \in Placing, NEW f \in Files, Missing(f)
  PROVE  /\ disk[f] = Absent
         /\ \/ pc[p] \in {"inspect", "putback"} /\ job.at = f /\ HandAside(job.dir, f)
            \/ /\ job.dir = "back" /\ f \in snap.changed /\ snap.old[f] # Absent
               /\ f < job.at \/ (f = job.at /\ pc[p] = "check")
         /\ pc[p] \notin {"inspect", "putback", "check"} => f # job.at
<1>1. lock = p /\ f \in Nat
  BY Names DEF CInv, LockOwner, Placing, Applying
<1> QED
  BY <1>1 DEF HandInv, MissingHeld, MissingAside

LEMMA OldOwned ==
  ASSUME CInv, Ready(want), NEW f \in Changing(want)
  PROVE  f \in Files /\ ~Foreign(disk[f]) /\ want[f] # Absent /\ ~Foreign(want[f])
<1>1. TypeData /\ f \in Files /\ want[f] # Absent /\ f \in Planned(want) /\ disk[f] # want[f]
  BY Parts DEF Changing, Planned
<1>2. ~Foreign(want[f])
  BY <1>1, WantedNotForeign DEF TypeData
<1> SUFFICES ~Foreign(disk[f])
  BY <1>1, <1>2
<1>3. ~Blocked(f, want)
  BY <1>1 DEF Ready
<1>4. Rows \in [Files -> Row \cup {NoRow}]
  BY <1>1, DiskAt, Names DEF TypeData, Rows, NoRows, Value, Book
<1>5. CASE Owned(f)
  <2>1. Rows[f] \in Row /\ disk[f].data = Rows[f].data
    BY <1>1, <1>4, <1>5 DEF Owned, Holds
  <2> QED
    BY <2>1, Names DEF Row, Foreign
<1>6. CASE Bootstrap(f)
  <2>1. legacy[f] \in Data \cup {NoData}
    BY <1>1, <1>6 DEF TypeData, Bootstrap, LegacyError
  <2> QED
    BY <2>1, <1>6, Names DEF Bootstrap, Holds, Foreign
<1>7. CASE disk[f] = Absent
  BY <1>7 DEF Foreign
<1> QED
  BY <1>1, <1>3, <1>5, <1>6, <1>7 DEF Blocked

LEMMA OutsideHand ==
  ASSUME CInv, HandInv, NEW p \in Procs, pc[p] \notin Applying,
         NEW l \in {"idle", "previewed"}, Goto(p, l),
         UNCHANGED <<disk, pending, snap, aside, stored, hand, lock, job>>
  PROVE  HandInv'
<1>1. \A q \in Procs : pc'[q] \in Applying \/ pc[q] \in Applying => pc'[q] = pc[q]
  BY DEF Goto, CInv, TypeOK, Applying
<1>2. SnapClean' /\ MissingAside'
  BY DEF HandInv, SnapClean, MissingAside, Missing, HandAside, Holds
<1>3. UnlinkSafe'
  BY <1>1 DEF HandInv, UnlinkSafe, HandHere, HandAside, Holds, Removing, Applying
<1>4. MissingHeld'
  <2> SUFFICES ASSUME NEW f \in Files, NEW q \in Procs, Missing(f)', lock' = q
               PROVE  MissingHeld!(f, q)!2'
    BY DEF MissingHeld
  <2>1. Missing(f) /\ lock = q
    BY DEF Missing, Holds
  <2>2. pc'[q] = pc[q]
    BY <2>1, <1>1 DEF CInv, LockOwner
  <2> QED
    BY <2>1, <2>2 DEF HandInv, MissingHeld, HandAside
<1> QED
  BY <1>2, <1>3, <1>4 DEF HandInv

LEMMA BeginHand == ASSUME CInv, HandInv, NEW p \in Procs, Begin(p) PROVE HandInv'
<1>1. /\ pc[p] = "previewed" /\ lock = NoProc /\ ~pending /\ Ready(want)
      /\ pc \in [Procs -> Steps]
  BY DEF Begin, Applicable, CInv, TypeOK
<1>2. \A f \in Files : ~Missing(f)'
  BY <1>1, NoneMissing DEF Begin, Missing, Holds, history
<1>3. \A q \in Procs : pc'[q] \notin {"detach", "unlink"}
  BY <1>1, Names DEF Begin, Finish, Goto, CInv, LockOwner, Applying
<1>4. SnapClean'
  <2>1. CASE Finish(p)
    BY <2>1 DEF Finish, SnapClean
  <2>2. CASE /\ snap'.old = disk /\ snap'.changed = Changing(want)
             /\ snap'.new = [x \in Paths |-> IF x = Receipt THEN NextBook(want)
                                ELSE IF x \in Planned(want) THEN want[x] ELSE disk[x]]
    <3>1. ASSUME NEW f \in Changing(want)
          PROVE  /\ ~Foreign(snap'.old[f])
                 /\ snap'.new[f] # Absent /\ ~Foreign(snap'.new[f])
      <4>1. f \in Planned(want) /\ f \in Paths /\ f # Receipt
        BY Names DEF Changing, Planned
      <4>2. snap'.new[f] = want[f] /\ snap'.old[f] = disk[f]
        BY <2>2, <4>1
      <4> QED
        BY <4>2, <1>1, OldOwned
    <3> QED
      BY <2>2, <3>1 DEF SnapClean, Foreign
  <2> QED
    BY <2>1, <2>2 DEF Begin
<1> QED
  BY <1>2, <1>3, <1>4, NothingMissing

LEMMA PartsAfter == ASSUME CInv' PROVE CtlOK'
BY DEF CInv, TypeOK, CtlOK, TypeCtl

(* Steps that touch neither files, nor what is aside, nor the history.     *)
LEMMA NoneNew ==
  ASSUME UNCHANGED <<disk, aside, stored, hand>>
  PROVE  NoNewMissing /\ \A f \in Files : Missing(f)' = Missing(f)
BY DEF NoNewMissing, Missing, Holds

LEMMA SnapshotHand == ASSUME CInv, HandInv, NEW p \in Procs, Snapshot(p) PROVE HandInv'
<1>1. CtlOK /\ pc[p] = "snapshot" /\ pc[p] \in Applying \ Placing
  BY Parts DEF Snapshot, Applying, Placing
<1>2. /\ snap \in Snap /\ lock = p
      /\ \A q \in Procs : pc[q] \in Applying => q = p
  BY <1>1, SnapTyped
<1>3. \A f \in Files : ~Missing(f)'
  BY <1>1, NoneMissing, NoneNew DEF Snapshot, history
<1>4. \A q \in Procs : pc'[q] \notin {"detach", "unlink"}
  BY <1>1, <1>2 DEF Snapshot, Finish, Goto, CtlOK, TypeCtl, Applying
<1>5. SnapClean'
  <2>1. CASE lock' = NoProc
    BY <2>1 DEF SnapClean
  <2>2. CASE snap' = [snap EXCEPT !.copies = Copied]
    <3>1. snap'.old = snap.old /\ snap'.new = snap.new /\ snap'.changed = snap.changed
      BY <2>2, <1>2 DEF Snap
    <3> QED
      BY <3>1, <1>2, Names DEF HandInv, SnapClean
  <2> QED
    BY <2>1, <2>2 DEF Snapshot, Finish
<1> QED
  BY <1>3, <1>4, <1>5, NothingMissing

LEMMA CheckFileHand == ASSUME CInv, HandInv, NEW p \in Procs, CheckFile(p) PROVE HandInv'
<1> DEFINE x == job.at
<1>1. /\ CtlOK /\ CtlOK' /\ pc[p] \in Applying \ {"snapshot"}
      /\ pc[p] = "check" /\ pc[p] \in Placing
  BY Parts, CheckFileCInv, PartsAfter DEF CheckFile, Applying, Placing
<1>2. /\ NoNewMissing /\ \A f \in Files : Missing(f)' = Missing(f)
      /\ SameSnap /\ lock = p /\ \A q \in Procs : pc[q] \in Applying => q = p
  BY <1>1, NoneNew, SnapTyped, SameSnapKept DEF CheckFile, history
<1>3. CASE Error(p, "other")
  BY <1>1, <1>2, <1>3, ErrorHand
<1>4. CASE GiveUp(p)
  <2>1. lock' = NoProc /\ pending' = pending
    BY <1>4 DEF GiveUp, Finish
  <2>2. \A q \in Procs : pc'[q] \notin {"detach", "unlink"}
    BY <1>1, <1>2, <1>4 DEF GiveUp, Finish, Goto, CtlOK, TypeCtl, Applying
  <2>3. MissingAside'
    BY <1>2, <2>1, MissingAsideKept DEF HandInv
  <2> QED
    BY <2>1, <2>2, <2>3, Names DEF HandInv, SnapClean, UnlinkSafe, MissingHeld
<1>5. ASSUME AsReviewed(x) \/ AsPlaced(x), NEW f \in Files, Missing(f)' PROVE f # x
  <2>1. Missing(f)
    BY <1>2, <1>5
  <2>2. /\ disk[f] = Absent /\ f \in snap.changed /\ snap.old[f] # Absent
    BY <1>1, <2>1, MissingIs
  <2>3. snap.new[f] # Absent
    BY <1>2, <2>2, Names DEF HandInv, SnapClean
  <2> QED
    BY <1>5, <2>2, <2>3 DEF AsReviewed, AsPlaced
<1>6. CASE AsReviewed(x) /\ Proceed(p)
  BY <1>1, <1>2, <1>5, <1>6, ProceedHand
<1>7. CASE /\ Onward(p, FirstStep(x))
           /\ \/ job.dir = "fwd" /\ AsReviewed(x)
              \/ AsPlaced(x)
  <2>1. CASE FirstStep(x) \in {"place", "chmod"}
    BY <1>1, <1>2, <1>5, <1>7, <2>1, OnwardHand DEF Applying, Placing
  <2>2. CASE FirstStep(x) = "detach"
    <3>1. /\ pc' = [pc EXCEPT ![p] = "detach"] /\ job' = job /\ pending' = pending
          /\ lock' = lock
      BY <1>7, <2>2 DEF Onward, Goto
    <3>2. SnapClean' /\ MissingAside'
      BY <1>2, <3>1, SnapCleanKept, MissingAsideKept, Names DEF HandInv
    <3>3. \A q \in Procs : pc'[q] \in {"detach", "unlink"} => q = p /\ pc'[q] = "detach"
      BY <1>1, <1>2, <3>1 DEF CtlOK, TypeCtl, Applying
    <3>4. ASSUME x \in Files, Removing(x)' PROVE ~HandHere(x)'
      <4>1. Removing(x) /\ x \in snap.changed
        BY <1>1, <1>2, <3>1, <3>4, Names DEF Removing, SameSnap, CtlOK, ApplyKnows
      <4>2. SameData(x, disk[x], snap.new[x])
        BY <1>7, <4>1 DEF Removing, AsPlaced
      <4>3. snap.new[x] # Absent /\ snap.new[x].data \notin HandData
        BY <1>2, <4>1, Names DEF HandInv, SnapClean, Foreign
      <4>4. hand[x] \in HandData \cup {NoData}
        BY <3>4 DEF CInv, TypeOK
      <4> QED
        BY <3>1, <4>2, <4>3, <4>4 DEF SameData, HandHere, Holds, CheckFile, history
    <3>5. UnlinkSafe'
      BY <3>1, <3>3, <3>4 DEF UnlinkSafe
    <3>6. ASSUME NEW f \in Files, Missing(f)'
          PROVE  job.dir = "back" /\ f \in snap.changed /\ snap.old[f] # Absent /\ f < x
      BY <1>1, <1>2, <1>5, <1>7, <3>6, MissingIs
    <3>7. MissingHeld'
      BY <1>1, <1>2, <3>1, <3>6 DEF MissingHeld, SameSnap, Placing, CtlOK, TypeCtl
    <3> QED
      BY <3>2, <3>5, <3>7 DEF HandInv
  <2> QED
    BY <2>1, <2>2 DEF FirstStep
<1> QED
  BY <1>3, <1>4, <1>6, <1>7 DEF CheckFile

LEMMA LinkAsideHand == ASSUME CInv, HandInv, NEW p \in Procs, LinkAside(p) PROVE HandInv'
<1> DEFINE x == job.at
<1>1. /\ CtlOK /\ CtlOK' /\ pc[p] \in Applying \ {"snapshot"}
      /\ pc[p] = "detach" /\ pc[p] \in Placing /\ job.dir \in Dirs /\ x \in Paths
      /\ aside \in [Dirs -> Disk]
  BY Parts, LinkAsideCInv, PartsAfter, AtPath DEF LinkAside, Applying, Placing, TypeData
<1>2. /\ SameSnap /\ lock = p /\ \A q \in Procs : pc[q] \in Applying => q = p
  BY <1>1, SnapTyped, SameSnapKept DEF LinkAside
<1>3. ASSUME NEW f \in Files, Missing(f)'
      PROVE  /\ Missing(f) /\ f # x
             /\ job.dir = "back" /\ f \in snap.changed /\ snap.old[f] # Absent /\ f < x
  <2>1. Missing(f)
    BY <1>3 DEF LinkAside, Missing, Holds, history
  <2> QED
    BY <2>1, <1>1, MissingIs
<1>4. NoNewMissing
  BY <1>1, <1>3, Names DEF NoNewMissing, LinkAside, history, Disk
<1>5. CASE Error(p, "race")
  BY <1>1, <1>2, <1>4, <1>5, ErrorHand
<1>6. CASE aside' = [aside EXCEPT ![job.dir][x] = disk[x]] /\ Onward(p, "unlink")
  <2>1. /\ pc' = [pc EXCEPT ![p] = "unlink"] /\ job' = job /\ pending' = pending
        /\ lock' = lock
    BY <1>6 DEF Onward, Goto
  <2>2. SnapClean' /\ MissingAside'
    BY <1>2, <1>4, <2>1, SnapCleanKept, MissingAsideKept, Names DEF HandInv
  <2>3. \A q \in Procs : pc'[q] \in {"detach", "unlink"} => q = p
    BY <1>1, <1>2, <2>1 DEF CtlOK, TypeCtl, Applying
  <2>4. x \in Files => (HandHere(x)' => HandAside(job.dir, x)')
    BY <1>1, <1>6, <2>1 DEF LinkAside, HandHere, HandAside, Holds, Disk, history
  <2>5. x \in Files => (Removing(x)' => ~HandHere(x)')
    BY <1>1, <2>1 DEF LinkAside, HandInv, UnlinkSafe, Removing, HandHere, Holds, history
  <2>6. UnlinkSafe'
    BY <2>1, <2>3, <2>4, <2>5 DEF UnlinkSafe
  <2>7. MissingHeld'
    BY <1>1, <1>2, <1>3, <2>1 DEF MissingHeld, SameSnap, Placing, CtlOK, TypeCtl
  <2> QED
    BY <2>2, <2>6, <2>7 DEF HandInv
<1> QED
  BY <1>5, <1>6 DEF LinkAside

LEMMA UnlinkPathHand == ASSUME CInv, HandInv, NEW p \in Procs, UnlinkPath(p) PROVE HandInv'
<1> DEFINE x == job.at
<1>1. /\ CtlOK /\ CtlOK' /\ pc[p] \in Applying \ {"snapshot"}
      /\ pc[p] = "unlink" /\ pc[p] \in Placing /\ job.dir \in Dirs /\ x \in Paths
      /\ disk \in Disk
  BY Parts, UnlinkPathCInv, PartsAfter, AtPath DEF UnlinkPath, Applying, Placing, TypeData
<1>2. /\ SameSnap /\ lock = p /\ \A q \in Procs : pc[q] \in Applying => q = p
  BY <1>1, SnapTyped, SameSnapKept DEF UnlinkPath
<1>3. CASE Error(p, "race") /\ UNCHANGED disk
  <2>1. NoNewMissing
    BY <1>3, NoneNew DEF UnlinkPath, history
  <2> QED
    BY <1>1, <1>2, <1>3, <2>1, ErrorHand
<1>4. CASE /\ disk' = [disk EXCEPT ![x] = Absent]
           /\ Onward(p, IF Removing(x) THEN "gone" ELSE "inspect")
  <2>1. /\ pc' = [pc EXCEPT ![p] = IF Removing(x) THEN "gone" ELSE "inspect"]
        /\ job' = job /\ pending' = pending /\ lock' = lock
    BY <1>4 DEF Onward, Goto
  <2>2. ASSUME NEW f \in Files, Missing(f)', f # x PROVE Missing(f) /\ disk'[f] = disk[f]
    BY <1>1, <1>4, <2>2 DEF UnlinkPath, Missing, Holds, history, Disk
  <2>3. ASSUME x \in Files, Missing(x)' PROVE HandAside(job.dir, x) /\ ~Removing(x)
    <3>1. HandHere(x) \/ Missing(x)
      BY <2>3, <2>1 DEF UnlinkPath, Missing, HandHere, history
    <3>2. ~Missing(x)
      BY <1>1, <2>3, MissingIs
    <3> QED
      BY <1>1, <2>3, <3>1, <3>2 DEF HandInv, UnlinkSafe
  <2>4. SnapClean'
    BY <1>2, SnapCleanKept, Names DEF HandInv
  <2>5. MissingAside'
    <3> SUFFICES ASSUME NEW f \in Files, Missing(f)' PROVE MissingAside!(f)!2'
      BY DEF MissingAside
    <3>1. CASE f # x
      BY <2>2, <2>1, <3>1 DEF HandInv, MissingAside, UnlinkPath, HandAside, history
    <3>2. CASE f = x
      BY <1>1, <1>4, <2>3, <2>1, <3>2, SnapTyped
         DEF UnlinkPath, HandAside, history, Disk, CInv
    <3> QED
      BY <3>1, <3>2
  <2>6. UnlinkSafe'
    <3>1. \A q \in Procs : pc'[q] \notin {"detach", "unlink"}
      BY <1>1, <1>2, <2>1 DEF CtlOK, TypeCtl, Applying
    <3> QED
      BY <3>1 DEF UnlinkSafe
  <2>7. MissingHeld'
    <3> SUFFICES ASSUME NEW f \in Files, NEW q \in Procs, Missing(f)', lock' = q
                 PROVE  MissingHeld!(f, q)!2'
      BY DEF MissingHeld
    <3>1. CASE f # x
      <4>1. job.dir = "back" /\ f \in snap.changed /\ snap.old[f] # Absent /\ f < x
        BY <1>1, <2>2, <3>1, MissingIs
      <4> QED
        BY <1>1, <1>2, <2>1, <4>1 DEF SameSnap, Placing, CtlOK, TypeCtl
    <3>2. CASE f = x
      BY <1>1, <1>2, <2>3, <2>1, <3>2
         DEF UnlinkPath, HandAside, history, CtlOK, TypeCtl
    <3> QED
      BY <3>1, <3>2
  <2> QED
    BY <2>4, <2>5, <2>6, <2>7 DEF HandInv
<1> QED
  BY <1>3, <1>4 DEF UnlinkPath

LEMMA InspectAsideHand == ASSUME CInv, HandInv, NEW p \in Procs, InspectAside(p) PROVE HandInv'
<1> DEFINE x == job.at
           l == IF SameData(x, aside[job.dir][x], Before(x)) THEN "place" ELSE "putback"
<1>1. /\ CtlOK /\ CtlOK' /\ pc[p] \in Applying \ {"snapshot"}
      /\ pc[p] = "inspect" /\ pc[p] \in Placing /\ Onward(p, l)
  BY Parts, InspectAsideCInv, PartsAfter DEF InspectAside, Applying, Placing
<1>2. /\ NoNewMissing /\ \A f \in Files : Missing(f)' = Missing(f)
      /\ SameSnap /\ lock = p /\ \A q \in Procs : pc[q] \in Applying => q = p
  BY <1>1, NoneNew, SnapTyped, SameSnapKept DEF InspectAside, history
<1>3. /\ pc' = [pc EXCEPT ![p] = l] /\ job' = job /\ pending' = pending /\ lock' = lock
  BY <1>1 DEF Onward, Goto
<1>4. CASE \A f \in Files : Missing(f)' => f # x
  BY <1>1, <1>2, <1>4, OnwardHand DEF Applying, Placing
<1>5. CASE x \in Files /\ Missing(x)
  <2>1. HandAside(job.dir, x)
    <3>1. PICK f \in Files : f = x /\ Missing(f)
      BY <1>5
    <3>2. ~(f < f)
      BY Names
    <3> QED
      BY <1>1, <3>1, <3>2, MissingIs
  <2>2. x \in snap.changed /\ Before(x) # Absent /\ ~Foreign(Before(x))
    BY <1>1, <1>2, <1>5, Names DEF CtlOK, ApplyKnows, HandInv, SnapClean, Before
  <2>3. hand[x] \in HandData
    BY <1>5 DEF CInv, TypeOK, Missing
  <2>4. l = "putback"
    BY <2>1, <2>2, <2>3 DEF SameData, HandAside, Foreign
  <2>5. \A q \in Procs : pc'[q] \notin {"detach", "unlink"}
    BY <1>1, <1>2, <1>3 DEF CtlOK, TypeCtl, Applying
  <2>6. SnapClean' /\ MissingAside' /\ UnlinkSafe'
    BY <1>2, <1>3, <2>5, SnapCleanKept, MissingAsideKept, Names DEF HandInv, UnlinkSafe
  <2>7. MissingHeld'
    <3> SUFFICES ASSUME NEW f \in Files, NEW q \in Procs, Missing(f)', lock' = q
                 PROVE  MissingHeld!(f, q)!2'
      BY DEF MissingHeld
    <3>1. CASE f # x
      <4>1. job.dir = "back" /\ f \in snap.changed /\ snap.old[f] # Absent /\ f < x
        BY <1>1, <1>2, <3>1, MissingIs
      <4> QED
        BY <1>1, <1>2, <1>3, <4>1 DEF SameSnap, Placing, CtlOK, TypeCtl
    <3>2. CASE f = x
      BY <1>1, <1>2, <1>3, <2>1, <2>4, <3>2
         DEF InspectAside, HandAside, history, CtlOK, TypeCtl
    <3> QED
      BY <3>1, <3>2
  <2> QED
    BY <2>6, <2>7 DEF HandInv
<1> QED
  BY <1>2, <1>4, <1>5

LEMMA PutBackHand == ASSUME CInv, HandInv, NEW p \in Procs, PutBack(p) PROVE HandInv'
<1> DEFINE x == job.at
<1>1. /\ CtlOK /\ CtlOK' /\ pc[p] \in Applying \ {"snapshot"}
      /\ pc[p] = "putback" /\ pc[p] \in Placing /\ job.dir \in Dirs /\ x \in Paths
      /\ disk \in Disk /\ aside \in [Dirs -> Disk]
  BY Parts, PutBackCInv, PartsAfter, AtPath DEF PutBack, Applying, Placing, TypeData
<1>2. SameSnap
  BY <1>1, SnapTyped, SameSnapKept DEF PutBack
<1>3. CASE UNCHANGED <<disk, aside>>
  <2>1. NoNewMissing
    BY <1>3, NoneNew DEF PutBack, history
  <2> QED
    BY <1>1, <1>2, <2>1, ErrorHand DEF PutBack
<1>4. CASE /\ disk[x] = Absent
           /\ disk' = [disk EXCEPT ![x] = aside[job.dir][x]]
           /\ aside' = [aside EXCEPT ![job.dir][x] = Absent]
  <2>1. ASSUME NEW f \in Files, Missing(f)' PROVE f # x
    <3> SUFFICES ASSUME f = x PROVE FALSE
      OBVIOUS
    <3>1. Missing(x)
      BY <1>4, <2>1 DEF PutBack, Missing, Holds, history
    <3>2. HandAside(job.dir, x) /\ disk'[x] = aside[job.dir][x]
      BY <1>1, <1>4, <2>1, <3>1, MissingIs, Names DEF Disk
    <3> QED
      BY <2>1, <3>2 DEF PutBack, Missing, Holds, HandAside, history
  <2>2. NoNewMissing
    BY <1>1, <1>4, <2>1, Names DEF NoNewMissing, PutBack, Missing, Holds, history, Disk
  <2> QED
    BY <1>1, <1>2, <2>2, ErrorHand DEF PutBack
<1> QED
  BY <1>3, <1>4 DEF PutBack

LEMMA PlaceHand == ASSUME CInv, HandInv, NEW p \in Procs, Place(p) PROVE HandInv'
<1> DEFINE x == job.at
<1>1. /\ CtlOK /\ CtlOK' /\ pc[p] \in Applying \ {"snapshot"}
      /\ pc[p] = "place" /\ pc[p] \in Placing /\ x \in Paths /\ disk \in Disk
  BY Parts, PlaceCInv, PartsAfter, AtPath DEF Place, Applying, Placing, TypeData
<1>2. SameSnap
  BY <1>1, SnapTyped, SameSnapKept DEF Place
<1>3. CASE Error(p, "race") /\ UNCHANGED disk
  <2>1. NoNewMissing
    BY <1>3, NoneNew DEF Place, history
  <2> QED
    BY <1>1, <1>2, <1>3, <2>1, ErrorHand
<1>4. CASE /\ disk[x] = Absent /\ disk' = [disk EXCEPT ![x] = Target(x)]
           /\ Onward(p, "placed")
  <2>1. ASSUME NEW f \in Files, Missing(f)' PROVE Missing(f) /\ f # x
    <3>1. Missing(f)
      BY <1>1, <1>4, <2>1, Names DEF Place, Missing, Holds, history, Disk
    <3> QED
      BY <1>1, <3>1, MissingIs
  <2>2. NoNewMissing
    BY <1>1, <1>4, <2>1, Names DEF NoNewMissing, Place, history, Disk
  <2> QED
    BY <1>1, <1>2, <1>4, <2>1, <2>2, OnwardHand DEF Applying, Placing
<1> QED
  BY <1>3, <1>4 DEF Place

LEMMA ChmodHand == ASSUME CInv, HandInv, NEW p \in Procs, Chmod(p) PROVE HandInv'
<1> DEFINE x == job.at
<1>1. /\ CtlOK /\ CtlOK' /\ pc[p] \in Applying \ {"snapshot"}
      /\ pc[p] = "chmod" /\ pc[p] \in Placing /\ x \in Paths /\ disk \in Disk
      /\ disk[x] \in Value(x) /\ x # Receipt
  BY Parts, ChmodCInv, PartsAfter, AtPath
     DEF Chmod, Applying, Placing, TypeData, CtlOK, ApplyKnows
<1>2. SameSnap
  BY <1>1, SnapTyped, SameSnapKept DEF Chmod
<1>3. CASE Error(p, "race") /\ UNCHANGED disk
  <2>1. NoNewMissing
    BY <1>3, NoneNew DEF Chmod, history
  <2> QED
    BY <1>1, <1>2, <1>3, <2>1, ErrorHand
<1>4. CASE /\ disk[x] # Absent /\ disk' = [disk EXCEPT ![x].exec = Target(x).exec]
           /\ Onward(p, "placed")
  <2>1. disk[x] \in File
    BY <1>1, <1>4 DEF Value
  <2>2. disk'[x] = [disk[x] EXCEPT !.exec = Target(x).exec]
    BY <1>1, <1>4 DEF Disk
  <2>3. disk'[x].data = disk[x].data /\ disk'[x] # Absent
    <3>1. disk'[x].data = disk[x].data
      BY <2>1, <2>2 DEF File
    <3>2. disk' \in Disk /\ job' = job
      BY <1>4, ChmodCInv DEF CInv, TypeOK, Onward
    <3>3. Target(x) \in File
      BY <1>1, AtPath DEF CtlOK, ApplyKnows, Value
    <3>4. disk'[x] \in File
      BY <2>1, <2>2, <3>3 DEF File
    <3> QED
      BY <3>1, <3>4, Names
  <2>4. ASSUME NEW f \in Files, Missing(f)' PROVE Missing(f) /\ f # x
    <3>1. CASE f = x
      <4>1. Missing(x)
        BY <1>4, <2>3, <2>4, <3>1 DEF Chmod, Missing, Holds, history
      <4> QED
        BY <1>1, <3>1, <4>1, MissingIs
    <3>2. CASE f # x
      BY <1>1, <1>4, <2>4, <3>2, Names DEF Chmod, Missing, Holds, history, Disk
    <3> QED
      BY <3>1, <3>2
  <2>5. NoNewMissing
    BY <1>1, <1>4, <2>4, Names DEF NoNewMissing, Chmod, history, Disk
  <2> QED
    BY <1>1, <1>2, <1>4, <2>4, <2>5, OnwardHand DEF Applying, Placing
<1> QED
  BY <1>3, <1>4 DEF Chmod

LEMMA CheckPlacedHand == ASSUME CInv, HandInv, NEW p \in Procs, CheckPlaced(p) PROVE HandInv'
<1>1. /\ CtlOK /\ CtlOK' /\ pc[p] \in Applying \ {"snapshot"} /\ pc[p] \in Placing
      /\ pc[p] = "placed"
  BY Parts, CheckPlacedCInv, PartsAfter DEF CheckPlaced, Applying, Placing
<1>2. NoNewMissing /\ SameSnap /\ \A f \in Files : Missing(f)' = Missing(f)
  BY <1>1, NoneNew, SnapTyped, SameSnapKept DEF CheckPlaced, history
<1>3. \A f \in Files : Missing(f)' => f # job.at
  BY <1>1, <1>2, MissingIs
<1> QED
  BY <1>1, <1>2, <1>3, ProceedHand, ErrorHand DEF CheckPlaced

LEMMA CheckGoneHand == ASSUME CInv, HandInv, NEW p \in Procs, CheckGone(p) PROVE HandInv'
<1>1. /\ CtlOK /\ CtlOK' /\ pc[p] \in Applying \ {"snapshot"} /\ pc[p] \in Placing
      /\ pc[p] = "gone"
  BY Parts, CheckGoneCInv, PartsAfter DEF CheckGone, Applying, Placing
<1>2. NoNewMissing /\ SameSnap /\ \A f \in Files : Missing(f)' = Missing(f)
  BY <1>1, NoneNew, SnapTyped, SameSnapKept DEF CheckGone, history
<1>3. \A f \in Files : Missing(f)' => f # job.at
  BY <1>1, <1>2, MissingIs
<1> QED
  BY <1>1, <1>2, <1>3, ProceedHand, ErrorHand DEF CheckGone

LEMMA VerifyHand == ASSUME CInv, HandInv, NEW p \in Procs, Verify(p) PROVE HandInv'
<1>1. /\ CtlOK /\ CtlOK' /\ pc[p] \in Applying \ {"snapshot"}
      /\ pc[p] \in Applying \ Placing
  BY Parts, VerifyCInv, PartsAfter DEF Verify, Applying, Placing
<1>2. /\ NoNewMissing /\ SameSnap /\ \A f \in Files : ~Missing(f)'
      /\ lock = p /\ \A q \in Procs : pc[q] \in Applying => q = p
  BY <1>1, NoneMissing, NoneNew, SnapTyped, SameSnapKept DEF Verify, history
<1>3. CASE Error(p, "other")
  BY <1>1, <1>2, <1>3, ErrorHand
<1>4. CASE ToFile(p, Receipt) \/ Onward(p, "clear")
  <2>1. \A q \in Procs : pc'[q] \notin {"detach", "unlink"}
    BY <1>1, <1>2, <1>4 DEF ToFile, Onward, Goto, CtlOK, TypeCtl, Applying
  <2>2. SnapClean'
    BY <1>2, SnapCleanKept, Names DEF HandInv
  <2> QED
    BY <1>2, <2>1, <2>2, NothingMissing
<1> QED
  BY <1>3, <1>4 DEF Verify

LEMMA ClearSnapshotHand == ASSUME CInv, HandInv, NEW p \in Procs, ClearSnapshot(p) PROVE HandInv'
<1>1. CtlOK /\ pc[p] \in Applying \ Placing
  BY Parts DEF ClearSnapshot, Applying, Placing
<1>2. /\ snap \in Snap /\ lock = p /\ \A q \in Procs : pc[q] \in Applying => q = p
      /\ \A f \in Files : ~Missing(f)
  BY <1>1, NoneMissing, SnapTyped
<1>3. SameSnap
  BY <1>2 DEF ClearSnapshot, SameSnap, Snap
<1>4. \A f \in Files : ~Missing(f)'
  BY <1>2 DEF ClearSnapshot, Missing, Holds, history
<1>5. \A q \in Procs : pc'[q] \notin {"detach", "unlink"}
  BY <1>1, <1>2 DEF ClearSnapshot, Onward, Goto, CtlOK, TypeCtl, Applying
<1>6. SnapClean'
  BY <1>2, <1>3, SnapCleanKept, Names DEF HandInv
<1> QED
  BY <1>4, <1>5, <1>6, NothingMissing

LEMMA RemoveMarkerHand == ASSUME CInv, HandInv, NEW p \in Procs, RemoveMarker(p) PROVE HandInv'
<1>1. CtlOK /\ pc[p] \in Applying \ Placing
  BY Parts DEF RemoveMarker, Applying, Placing
<1>2. \A q \in Procs : pc[q] \in Applying => q = p
  BY <1>1, SnapTyped
<1>3. \A f \in Files : ~Missing(f)'
  BY <1>1, NoneMissing, NoneNew DEF RemoveMarker, history
<1>4. \A q \in Procs : pc'[q] \notin {"detach", "unlink"}
  BY <1>1, <1>2 DEF RemoveMarker, Finish, Goto, CtlOK, TypeCtl, Applying
<1>5. SnapClean'
  BY DEF RemoveMarker, Finish, SnapClean
<1> QED
  BY <1>3, <1>4, <1>5, NothingMissing

LEMMA FaultHand == ASSUME CInv, HandInv, NEW p \in Procs, Fault(p) PROVE HandInv'
<1>1. CtlOK /\ CtlOK' /\ pc[p] \in Applying \ {"snapshot"}
  BY Parts, FaultCInv, PartsAfter DEF Fault
<1>2. NoNewMissing /\ SameSnap
  BY <1>1, NoneNew, SnapTyped, SameSnapKept DEF Fault, history
<1> QED
  BY <1>1, <1>2, ErrorHand DEF Fault

LEMMA ClearFailsHand == ASSUME CInv, HandInv, NEW p \in Procs, ClearFails(p) PROVE HandInv'
<1>1. /\ CtlOK /\ CtlOK' /\ pc[p] \in Applying \ {"snapshot"}
      /\ pc[p] \in Applying \ Placing
  BY Parts, ClearFailsCInv, PartsAfter DEF ClearFails, Applying, Placing
<1>2. SameSnap
  BY <1>1, SnapTyped DEF ClearFails, SameSnap, Snap
<1>3. NoNewMissing
  BY <1>1, NoneMissing DEF NoNewMissing, ClearFails, Missing, Holds, history
<1> QED
  BY <1>1, <1>2, <1>3, ErrorHand DEF ClearFails

(* A death leaves the marker and what is aside; only the removal of a      *)
(* finished snapshot takes that away.                                      *)
LEMMA CrashHand == ASSUME CInv, HandInv, NEW p \in Procs, Crash(p) PROVE HandInv'
<1>1. CtlOK /\ pc[p] \in Applying /\ lock' = NoProc /\ pending' = pending
  BY Parts DEF Crash, Finish
<1>2. \A q \in Procs : pc[q] \in Applying => q = p
  BY <1>1, SnapTyped
<1>3. \A q \in Procs : pc'[q] \notin {"detach", "unlink"}
  BY <1>1, <1>2 DEF Crash, Finish, Goto, CtlOK, TypeCtl, Applying
<1>4. \A f \in Files : Missing(f)' = Missing(f) /\ hand'[f] = hand[f] /\ disk'[f] = disk[f]
  BY DEF Crash, Missing, Holds, history
<1>5. MissingAside'
  <2>1. CASE pc[p] = "clear"
    <3>1. \A f \in Files : ~Missing(f)
      BY <1>1, <2>1, NoneMissing DEF Placing
    <3> QED
      BY <1>4, <3>1 DEF MissingAside
  <2>2. CASE pc[p] # "clear"
    <3>1. aside' = aside
      BY <2>2 DEF Crash
    <3> QED
      BY <1>1, <1>4, <3>1 DEF HandInv, MissingAside, HandAside
  <2> QED
    BY <2>1, <2>2
<1> QED
  BY <1>1, <1>3, <1>5, Names DEF HandInv, SnapClean, UnlinkSafe, MissingHeld

(* An edit outside the two windows puts no content where the apply is      *)
(* about to unlink it, and what it leaves is under its name.               *)
LEMMA HandEditHand ==
  ASSUME RaceWindows = {}, CInv, HandInv,
         NEW y \in Paths, NEW v \in Value(y), NEW how \in {"replace", "inplace"},
         HandEdit(y, v, how)
  PROVE  HandInv'
<1>1. /\ disk \in Disk /\ aside \in [Dirs -> Disk] /\ job.dir \in Dirs
      /\ hand \in [Files -> HandData \cup {NoData}]
      /\ disk' = [disk EXCEPT ![y] = v]
      /\ UNCHANGED <<pending, snap, stored, lock, pc, job>>
  BY DEF CInv, TypeOK, HandEdit, control
<1>2. ASSUME NEW f \in Files, f # y
      PROVE  /\ disk'[f] = disk[f] /\ hand'[f] = hand[f]
             /\ \A d \in Dirs : aside'[d][f] = aside[d][f]
  BY <1>1, <1>2, Names DEF HandEdit, Disk
<1>3. ASSUME y \in Files
      PROVE  /\ disk'[y] = v
             /\ hand'[y] = IF v # Absent /\ v.data \in HandData THEN v.data ELSE NoData
  BY <1>1, <1>3, Names DEF HandEdit, Disk
<1>4. ASSUME NEW f \in Files, Missing(f)' PROVE f # y /\ Missing(f)
  <2>1. f # y
    BY <1>3, <1>4 DEF Missing, Holds
  <2> QED
    BY <1>1, <1>2, <1>4, <2>1 DEF Missing, Holds
<1>5. NoNewMissing
  BY <1>2, <1>4 DEF NoNewMissing
<1>6. SnapClean' /\ MissingAside'
  BY <1>1, <1>5, MissingAsideKept DEF HandInv, SnapClean
<1>7. MissingHeld'
  <2> SUFFICES ASSUME NEW f \in Files, NEW q \in Procs, Missing(f)', lock' = q
               PROVE  MissingHeld!(f, q)!2'
    BY DEF MissingHeld
  <2> QED
    BY <1>1, <1>2, <1>4 DEF HandInv, MissingHeld, HandAside
<1>8. ASSUME NEW p \in Procs, job.at \in Files, pc[p] = "unlink", HandHere(job.at)'
      PROVE  HandAside(job.dir, job.at)'
  <2>1. CASE job.at # y
    BY <1>1, <1>2, <1>8, <2>1 DEF HandInv, UnlinkSafe, HandHere, HandAside, Holds
  <2>2. CASE job.at = y
    <3>1. v # Absent
      BY <1>1, <1>3, <1>8, <2>2 DEF HandHere, Holds
    <3>2. how = "inplace"
      BY <1>8, <2>2, <3>1 DEF HandEdit, InWindow, Working
    <3>3. aside' = [aside EXCEPT ![job.dir][y] = v]
      BY <1>8, <2>2, <3>2 DEF HandEdit, Working
    <3>4. aside'[job.dir][y] = v
      BY <1>1, <3>3 DEF Disk
    <3> QED
      BY <1>1, <1>3, <1>8, <2>2, <3>1, <3>4 DEF HandHere, HandAside, Holds
  <2> QED
    BY <2>1, <2>2
<1>9. ASSUME NEW p \in Procs, job.at \in Files, pc[p] \in {"detach", "unlink"},
             Removing(job.at)
      PROVE  ~HandHere(job.at)'
  <2>1. CASE job.at # y
    BY <1>1, <1>2, <1>9, <2>1 DEF HandInv, UnlinkSafe, HandHere, Holds
  <2>2. CASE job.at = y
    <3>1. InWindow(y, how)
      BY <1>9, <2>2 DEF InWindow, Working
    <3>2. v = Absent
      BY <3>1 DEF HandEdit
    <3> QED
      BY <1>1, <1>3, <1>9, <2>2, <3>2 DEF HandHere
  <2> QED
    BY <2>1, <2>2
<1>10. UnlinkSafe'
  BY <1>1, <1>8, <1>9 DEF UnlinkSafe, Removing
<1> QED
  BY <1>6, <1>7, <1>10 DEF HandInv

LEMMA NothingHand ==
  ASSUME HandInv, UNCHANGED <<disk, record, control, hand>>
  PROVE  HandInv'
BY DEF HandInv, SnapClean, UnlinkSafe, MissingAside, MissingHeld, Missing, HandHere,
       HandAside, Holds, Removing, record, control

LEMMA ClearMarkerHand == ASSUME CInv, HandInv, ClearMarker PROVE HandInv'
<1>1. \A q \in Procs : pc'[q] \notin {"detach", "unlink"}
  BY Names DEF ClearMarker, CInv, LockOwner, Applying, control
<1>2. SnapClean'
  BY DEF ClearMarker, control, SnapClean
<1>3. ASSUME NEW f \in Files, Missing(f)' PROVE FALSE
  <2>1. Missing(f) /\ hand'[f] = hand[f]
    BY <1>3 DEF ClearMarker, Missing, Holds
  <2>2. PICK d \in Dirs : aside[d][f] # Absent /\ aside[d][f].data = hand[f]
    BY <2>1 DEF HandInv, MissingAside, HandAside
  <2>3. hand[f] \in stored'
    BY <2>2 DEF ClearMarker
  <2> QED
    BY <1>3, <2>1, <2>3 DEF Missing
<1> QED
  BY <1>1, <1>2, <1>3, NothingMissing

LEMMA InitHand == ASSUME Init PROVE HandInv
BY Names DEF Init, HandInv, SnapClean, UnlinkSafe, MissingAside, MissingHeld, Missing

LEMMA NextHand == ASSUME RaceWindows = {}, CInv, HandInv, [Next]_vars PROVE HandInv'
<1>1. ASSUME NEW p \in Procs, Preview(p) \/ Refuse(p) PROVE HandInv'
  BY <1>1, OutsideHand DEF Preview, Refuse, record, history, Applying
<1>2. ASSUME NEW p \in Procs, Step(p) \/ Failure(p) PROVE HandInv'
  BY <1>2, BeginHand, <1>1, SnapshotHand, CheckFileHand, LinkAsideHand, UnlinkPathHand,
     InspectAsideHand, PutBackHand, PlaceHand, ChmodHand, CheckPlacedHand,
     CheckGoneHand, VerifyHand, ClearSnapshotHand, RemoveMarkerHand, FaultHand,
     ClearFailsHand, CrashHand
     DEF Step, Failure
<1>3. ASSUME User PROVE HandInv'
  <2>1. ASSUME NEW x \in Files, NEW v \in HandFiles \cup {Absent},
               NEW how \in {"replace", "inplace"}, HandEdit(x, v, how)
        PROVE  HandInv'
    BY <2>1, EditsTyped, HandEditHand
  <2>2. ASSUME NEW v \in {Absent, Damaged}, HandEdit(Receipt, v, "replace") PROVE HandInv'
    BY <2>2, EditsTyped, HandEditHand
  <2>3. ASSUME NEW t \in Trees, SourceChange(t) PROVE HandInv'
    BY <2>3, NothingHand DEF SourceChange, history
  <2>4. CASE MoveLegacyAside
    BY <2>4, NothingHand DEF MoveLegacyAside, history
  <2> QED
    BY <1>3, <2>1, <2>2, <2>3, <2>4, ClearMarkerHand DEF User
<1>4. CASE UNCHANGED vars
  BY <1>4, NothingHand DEF vars, history
<1> QED
  BY <1>1, <1>2, <1>3, <1>4 DEF Next

(* With no hand edit in the two windows of InWindow, every state of a sync *)
(* satisfies IInv: an apply changes only files of its own, a foreign file  *)
(* that is not under its name is aside, and the rollback cannot get past   *)
(* it (execute, _rollback_materialization in sync.py).                     *)
THEOREM Invariant == ASSUME RaceWindows = {} PROVE Spec => []IInv
<1>1. Init => CInv /\ HandInv
  BY InitCInv, InitHand
<1>2. (CInv /\ HandInv) /\ [Next]_vars => (CInv /\ HandInv)'
  BY NextCInv, NextHand
<1>3. CInv /\ HandInv => IInv
  BY DEF IInv, HandInv
<1> QED
  BY <1>1, <1>2, <1>3, PTL DEF Spec

(* Content the user puts under a runtime file's name is never lost,        *)
(* whatever else happens, unless he puts it there in one of the two        *)
(* windows: between an apply's link and its unlink, or between the         *)
(* rollback's last look at a file it created and its removal               *)
(* (_move_no_replace and restore_file_preimage in materializer.py).        *)
THEOREM HandContentKept == ASSUME RaceWindows = {} PROVE Spec => []HandKept
<1>1. IInv => HandKept
  BY DEF IInv, MissingAside, Missing, HandAside, HandKept
<1> QED
  BY <1>1, Invariant, PTL
-----------------------------------------------------------------------------
(* Paths that nobody else has changed.                                     *)
Mine == Paths \ touched

(* The paths an apply is done with when it is at step l of job j.          *)
Done(l, j) ==
  IF l = "snapshot" THEN {}
  ELSE IF l \in {"clear", "unmark"} THEN Paths
  ELSE IF l = "verify" \/ j.at = Receipt THEN Files
  ELSE {f \in Files : IF j.dir = "fwd" THEN f < j.at ELSE f > j.at}

At(l) == IF l \in Placing THEN {job.at} ELSE {}

(* What an apply at step l knows of its own path.                          *)
HereKnown(l) ==
  LET x == job.at IN
  /\ l = "gone" => Removing(x)
  /\ x \in Mine =>
       /\ l = "check" /\ job.dir = "fwd" => disk[x] = Before(x)
       /\ l = "chmod" => disk[x] = Before(x) /\ SameData(x, Before(x), Target(x))
       /\ l \in {"detach", "unlink"} => Removing(x) \/ disk[x] = Before(x)
       /\ l \in {"unlink", "inspect"} => Removing(x) \/ aside[job.dir][x] = Before(x)
       /\ l \in {"inspect", "place", "gone"} => disk[x] = Absent
       /\ l = "inspect" => ~Removing(x)
       /\ l = "placed" => disk[x] = Target(x)
       /\ l # "putback"

(* What it knows of the others: those it is done with are as it wants      *)
(* them, and on the way forward the rest is as reviewed.                   *)
OthersKnown(l) ==
  \A x \in Mine :
    /\ x \in Done(l, job) => disk[x] = Target(x)
    /\ x \notin snap.changed \cup {Receipt} => disk[x] = snap.old[x]
    /\ job.dir = "fwd" /\ x \notin Done(l, job) \cup At(l) => disk[x] = snap.old[x]

(* A receipt speaks the truth of the files beside it, and a file without a *)
(* row is absent or from an older installation.                            *)
RowsOf(t) == IF t[Receipt] = Absent THEN NoRows ELSE t[Receipt].rows

Honest(t) ==
  Receipt \in Mine =>
    /\ t[Receipt] # Damaged
    /\ \A f \in Files \cap Mine :
         LET row == RowsOf(t)[f] IN
         IF row # NoRow THEN t[f] = [data |-> row.data, exec |-> row.exec]
         ELSE t[f] = Absent \/ (legacy # Damaged /\ t[f].data = legacy[f])

SnapKnown ==
  /\ \A x \in Paths : x \notin snap.changed \cup {Receipt} => snap.new[x] = snap.old[x]
  /\ Honest(snap.old) /\ Honest(snap.new)

(* Forward, the copies are complete until they are removed; and without a  *)
(* fault and a hand there is no way back.                                  *)
WayKnown(l) ==
  /\ job.dir = "fwd" /\ l \notin {"snapshot", "clear", "unmark"} => snap.copies = Copied
  /\ l = "snapshot" => job = NoJob /\ ~pending
  /\ l = "verify" \/ (faults = 0 /\ touched = {}) => job.dir = "fwd"

ApplyAt(l) ==
  /\ SnapKnown /\ WayKnown(l) /\ OthersKnown(l)
  /\ l \in Placing => HereKnown(l)

PathsKnown == \A p \in Procs : pc[p] \in Applying => ApplyAt(pc[p])

(* Between applies.                                                        *)
Idle == lock = NoProc => job = NoJob /\ (~pending => Honest(disk))

RInv == CInv /\ PathsKnown /\ Idle /\ KilledSyncRecoverable

-----------------------------------------------------------------------------
(* Frames.                                                                 *)

(* A step that changes nothing of the paths nobody else has changed, and   *)
(* nothing of the snapshot but its copies.                                 *)
Quiet == SameSnap /\ UNCHANGED <<legacy, touched>>

Still == \A x \in Mine : disk'[x] = disk[x]

LEMMA HonestDisk ==
  ASSUME NEW t, Honest(t), UNCHANGED <<legacy, touched>>, \A x \in Mine : disk'[x] = t[x]
  PROVE  Honest(disk)'
BY Names DEF Honest, RowsOf, Mine

LEMMA SnapKnownKept ==
  ASSUME SnapKnown, SameSnap, legacy' = legacy, touched \subseteq touched'
  PROVE  SnapKnown'
BY Names DEF SnapKnown, SameSnap, Honest, RowsOf, Mine

LEMMA NotDone ==
  ASSUME NEW j, j.at \in Paths, NEW l \in Placing
  PROVE  j.at \notin Done(l, j)
<1>1. l \notin {"snapshot", "clear", "unmark", "verify"}
  BY DEF Placing
<1>2. CASE j.at = Receipt
  BY <1>1, <1>2, Names DEF Done
<1>3. CASE j.at # Receipt
  <2>1. j.at \in Nat
    BY <1>3, Names DEF Paths
  <2> QED
    BY <1>1, <1>3, <2>1 DEF Done
<1> QED
  BY <1>2, <1>3

LEMMA Applies ==
  ASSUME RInv, NEW p \in Procs, pc[p] \in Applying
  PROVE  /\ ApplyAt(pc[p]) /\ snap \in Snap /\ snap.changed \subseteq Files
         /\ lock = p /\ lock # NoProc
         /\ pc[p] # "snapshot" => pending
         /\ job.at \in Paths /\ job.dir \in Dirs
         /\ pc[p] \in Placing => job.at \in snap.changed \cup {Receipt}
<1>1. CtlOK
  BY Parts DEF RInv
<1>2. /\ snap \in Snap /\ snap.changed \subseteq Files /\ lock = p
      /\ pc[p] # "snapshot" => pending
  BY <1>1, SnapTyped
<1>3. pc[p] \in Placing => job.at \in snap.changed \cup {Receipt}
  BY <1>1 DEF CtlOK, ApplyKnows
<1> QED
  BY <1>1, <1>2, <1>3, Names DEF RInv, PathsKnown, CtlOK, TypeCtl

-----------------------------------------------------------------------------
(* The ways of going on.                                                   *)

(* The apply goes on at step l.                                            *)
LEMMA AtStep ==
  ASSUME CInv', NEW p \in Procs, NEW l \in Applying, pc'[p] = l, ApplyAt(l)'
  PROVE  RInv'
<1>1. CtlOK'
  BY PartsAfter
<1>2. /\ lock' = p /\ lock' # NoProc
      /\ \A q \in Procs : pc'[q] \in Applying => q = p
  BY <1>1, Names DEF CtlOK, LockOwner
<1>3. PathsKnown'
  BY <1>2 DEF PathsKnown
<1>4. Idle'
  BY <1>2 DEF Idle
<1>5. KilledSyncRecoverable'
  <2> SUFFICES ASSUME pending', faults' = 0, touched' = {}
               PROVE  KilledSyncRecoverable'
    BY DEF KilledSyncRecoverable
  <2>1. l # "snapshot" /\ job'.dir = "fwd"
    BY DEF ApplyAt, WayKnown
  <2>2. CASE l \in {"clear", "unmark"}
    BY <2>1, <2>2 DEF ApplyAt, OthersKnown, Done, Mine, Target, KilledSyncRecoverable
  <2>3. CASE l \notin {"clear", "unmark"}
    BY <2>1, <2>3 DEF ApplyAt, WayKnown, Copied, KilledSyncRecoverable
  <2> QED
    BY <2>2, <2>3
<1> QED
  BY <1>3, <1>4, <1>5 DEF RInv

(* The apply ends, and leaves its marker or a tree to be trusted.          *)
LEMMA EndStep ==
  ASSUME RInv, CInv', NEW p \in Procs, Finish(p),
         ~pending' => Honest(disk)', KilledSyncRecoverable'
  PROVE  RInv'
<1>1. lock' = NoProc /\ job' = NoJob
  BY DEF Finish
<1>2. PathsKnown'
  BY <1>1, PartsAfter, Names DEF PathsKnown, CtlOK, LockOwner
<1>3. Idle'
  BY <1>1 DEF Idle
<1> QED
  BY <1>2, <1>3 DEF RInv

LEMMA KilledKept ==
  ASSUME RInv, NEW p \in Procs, pc[p] \in Applying, UNCHANGED <<snap, touched>>, Still,
         pending', faults' = 0 => faults = 0, pending \/ touched # {}
  PROVE  KilledSyncRecoverable'
<1>1. snap.changed \cup {Receipt} \subseteq Paths
  BY Applies, Names
<1> QED
  BY <1>1 DEF RInv, KilledSyncRecoverable, Still, Mine

(* It goes to a path to check it.                                          *)
LEMMA CheckStep ==
  ASSUME RInv, CInv', NEW p \in Procs, pc[p] \in Applying, pc'[p] = "check",
         Quiet, Still,
         \A x \in Mine : /\ x \in Done("check", job') => disk[x] = Target(x)'
                         /\ job'.dir = "fwd" /\ x \notin Done("check", job') => disk[x] = snap.old[x],
         job'.dir = "fwd" => snap'.copies = Copied',
         faults' = 0 /\ touched = {} => job'.dir = "fwd"
  PROVE  RInv'
<1>1. "check" \in Applying /\ "check" \in Placing
  BY DEF Applying, Placing
<1>2. SnapKnown'
  BY Applies, SnapKnownKept DEF ApplyAt, Quiet
<1>3. WayKnown("check")'
  BY DEF WayKnown, Quiet
<1>4. OthersKnown("check")'
  <2> SUFFICES ASSUME NEW x \in Mine
               PROVE  /\ x \in Done("check", job') => disk'[x] = Target(x)'
                      /\ x \notin snap'.changed \cup {Receipt} => disk'[x] = snap'.old[x]
                      /\ job'.dir = "fwd" /\ x \notin Done("check", job') \cup At("check")'
                           => disk'[x] = snap'.old[x]
    BY DEF OthersKnown, Mine, Quiet
  <2>1. x \notin snap.changed \cup {Receipt} => disk[x] = snap.old[x]
    BY Applies DEF ApplyAt, OthersKnown
  <2> QED
    BY <2>1 DEF Quiet, SameSnap, Still, Target
<1>5. HereKnown("check")'
  <2>1. job'.at \notin Done("check", job')
    BY <1>1, PartsAfter, NotDone DEF CtlOK, TypeCtl
  <2> QED
    BY <2>1 DEF HereKnown, Before, Quiet, SameSnap, Still, Mine
<1> QED
  BY <1>1, <1>2, <1>3, <1>4, <1>5, AtStep DEF ApplyAt

(* It goes on with the path it is at.                                      *)
LEMMA HereStep ==
  ASSUME RInv, CInv', NEW p \in Procs, pc[p] \in Placing,
         NEW l \in Placing, pc'[p] = l, UNCHANGED <<job, snap, legacy, touched, faults>>,
         \A x \in Mine : x # job.at => disk'[x] = disk[x],
         HereKnown(l)'
  PROVE  RInv'
<1>1. pc[p] \in Applying /\ l \in Applying
  BY DEF Applying, Placing
<1>2. SameSnap
  BY <1>1, Applies DEF SameSnap
<1>3. SnapKnown'
  BY <1>1, <1>2, Applies, SnapKnownKept DEF ApplyAt
<1>4. /\ l \notin {"snapshot", "clear", "unmark", "verify"}
      /\ pc[p] \notin {"snapshot", "clear", "unmark", "verify"}
  BY DEF Placing
<1>5. WayKnown(l)'
  BY <1>1, <1>4, Applies DEF ApplyAt, WayKnown, Copied
<1>6. OthersKnown(l)'
  <2>1. OthersKnown(pc[p])
    BY <1>1, Applies DEF ApplyAt
  <2>2. /\ Done(l, job) = Done(pc[p], job) /\ job' = job
        /\ At(l)' = {job.at} /\ At(pc[p]) = {job.at}
    BY <1>4 DEF Done, At
  <2>3. /\ job.at \in snap.changed \cup {Receipt}
        /\ job.at \notin Done(pc[p], job)
    BY <1>1, Applies, NotDone
  <2> QED
    BY <2>1, <2>2, <2>3, <1>2 DEF OthersKnown, SameSnap, Mine, Target
<1> QED
  BY <1>1, <1>3, <1>5, <1>6, AtStep DEF ApplyAt

(* It is done with all files, or with everything.                          *)
LEMMA LateStep ==
  ASSUME RInv, CInv', NEW p \in Procs, pc[p] \in Applying,
         NEW l \in {"verify", "clear", "unmark"}, pc'[p] = l, job' = job, Quiet, Still,
         \A x \in Mine : /\ x \in Done(l, job) => disk[x] = Target(x)
                         /\ job.dir = "fwd" /\ x \notin Done(l, job) => disk[x] = snap.old[x],
         job.dir = "fwd" /\ l = "verify" => snap'.copies = Copied',
         l = "verify" \/ (faults' = 0 /\ touched = {}) => job.dir = "fwd"
  PROVE  RInv'
<1>1. l \in Applying \ {"snapshot"} /\ l \notin Placing
  BY DEF Applying, Placing
<1>2. SnapKnown'
  BY Applies, SnapKnownKept DEF ApplyAt, Quiet
<1>3. WayKnown(l)'
  BY <1>1 DEF WayKnown, Quiet
<1>4. OthersKnown(l)'
  <2> SUFFICES ASSUME NEW x \in Mine
               PROVE  /\ x \in Done(l, job') => disk'[x] = Target(x)'
                      /\ x \notin snap'.changed \cup {Receipt} => disk'[x] = snap'.old[x]
                      /\ job'.dir = "fwd" /\ x \notin Done(l, job') \cup At(l)'
                           => disk'[x] = snap'.old[x]
    BY DEF OthersKnown, Mine, Quiet
  <2>1. x \notin snap.changed \cup {Receipt} => disk[x] = snap.old[x]
    BY Applies DEF ApplyAt, OthersKnown
  <2> QED
    BY <2>1 DEF Quiet, SameSnap, Still, Target
<1> QED
  BY <1>1, <1>2, <1>3, <1>4, AtStep DEF ApplyAt

LEMMA ErrorPaths ==
  ASSUME RInv, CInv', NEW p \in Procs, pc[p] \in Applying \ {"snapshot"},
         NEW e \in {"other", "race"}, Error(p, e), Quiet, Still,
         job.dir = "fwd" => ~(faults' = 0 /\ touched = {}),
         faults' = 0 => faults = 0
  PROVE  RInv'
<1> CtlOK
  BY Parts DEF RInv
<1>1. CASE job.dir = "back"
  <2>1. Finish(p) /\ pending' = pending
    BY <1>1 DEF Error, GiveUp
  <2>2. pending /\ ~(faults = 0 /\ touched = {})
    BY <1>1, Applies DEF ApplyAt, WayKnown
  <2>3. KilledSyncRecoverable'
    BY <2>2 DEF KilledSyncRecoverable, Quiet
  <2> QED
    BY <2>1, <2>2, <2>3, EndStep
<1>2. CASE job.dir = "fwd"
  <2>1. PICK x \in LastChanged : job' = [at |-> x, dir |-> "back", err |-> e]
    BY <1>2 DEF Error
  <2>3. ASSUME NEW y \in Mine, y \in Done("check", job') PROVE disk[y] = snap.old[y]
    <3>1. y \in Files /\ (x # Receipt => y > x)
      BY <2>1, <2>3, Names DEF Done
    <3>2. y \notin snap.changed
      BY <3>1, Applies, Names DEF LastChanged, First
    <3> QED
      BY <3>1, <3>2, Applies, Names DEF ApplyAt, OthersKnown
  <2>4. pc'[p] = "check"
    BY <1>2 DEF Error, Goto, CtlOK, TypeCtl
  <2> QED
    BY <1>2, <2>1, <2>3, <2>4, CheckStep DEF Target, Quiet, SameSnap
<1> QED
  BY <1>1, <1>2 DEF Error

LEMMA ProceedPaths ==
  ASSUME RInv, CInv', NEW p \in Procs, pc[p] \in Placing, Proceed(p),
         UNCHANGED <<disk, snap, legacy, touched, faults>>,
         job.at \in Mine => disk[job.at] = Target(job.at)
  PROVE  RInv'
<1> CtlOK
  BY Parts DEF RInv
<1>1. pc[p] \in Applying \ {"snapshot", "verify", "clear", "unmark"}
  BY DEF Placing, Applying
<1>2. Quiet /\ Still
  BY <1>1, Applies DEF Quiet, Still, SameSnap
<1>3. /\ OthersKnown(pc[p]) /\ SnapKnown /\ WayKnown(pc[p])
      /\ At(pc[p]) = {job.at} /\ job.at \in Paths
  BY <1>1, Applies DEF ApplyAt, At
<1>4. ASSUME NEW y \in Mine, y \notin snap.changed, y # Receipt
      PROVE  disk[y] = snap.old[y] /\ disk[y] = Target(y)
  BY <1>3, <1>4 DEF OthersKnown, SnapKnown, Target, Mine
<1>5. /\ pc \in [Procs -> Steps] /\ job \in [at : Paths, dir : Dirs, err : {"none", "other", "race"}]
      /\ snap.changed \subseteq Files /\ pending
  BY <1>1, Applies DEF CtlOK, TypeCtl
<1>6. CASE job.at # Receipt /\ \E x \in First(Later, job.dir) : ToFile(p, x)
  <2>1. PICK x \in First(Later, job.dir) : ToFile(p, x)
    BY <1>6
  <2>2. x \in snap.changed /\ job' = [job EXCEPT !.at = x] /\ pc'[p] = "check"
    BY <2>1, <1>5 DEF First, Later, ToFile, Goto
  <2>3. ASSUME NEW y \in Mine
        PROVE  /\ y \in Done("check", job') => disk[y] = Target(y)
               /\ job.dir = "fwd" /\ y \notin Done("check", job') => disk[y] = snap.old[y]
    <3>1. x \in Files /\ job.at \in Files /\ Files \subseteq Nat /\ job'.at = x
          /\ job'.dir = job.dir /\ x # Receipt
      BY <2>2, <1>5, <1>6, Names DEF Paths
    <3>2. IF job.dir = "fwd" THEN job.at < x ELSE job.at > x
      BY <2>1, <3>1 DEF First, Later
    <3>3. y \in Done("check", job') <=>
            y \in Files /\ IF job.dir = "fwd" THEN y < x ELSE y > x
      BY <3>1 DEF Done
    <3>4. y \in Done(pc[p], job) <=>
            y \in Files /\ IF job.dir = "fwd" THEN y < job.at ELSE y > job.at
      BY <3>1, <1>1, <1>6 DEF Done
    <3>5. CASE y = job.at
      BY <3>1, <3>2, <3>3, <3>5
    <3>6. CASE y # job.at /\ y \in Files
      <4>1. CASE y \in Done(pc[p], job)
        BY <4>1, <3>1, <3>2, <3>3, <3>4, <1>3 DEF OthersKnown
      <4>2. CASE y \notin Done(pc[p], job)
        <5>1. job.dir = "fwd" => disk[y] = snap.old[y]
          BY <4>2, <3>6, <1>3 DEF OthersKnown
        <5>2. y \in Done("check", job') => y \notin snap.changed
          BY <4>2, <3>1, <3>3, <3>4, <3>6, <2>1 DEF First, Later
        <5> QED
          BY <5>1, <5>2, <3>1, <3>6, <1>4, Names
      <4> QED
        BY <4>1, <4>2
    <3>7. CASE y \notin Files
      BY <3>3, <3>4, <3>7, <3>1, <1>3 DEF OthersKnown
    <3> QED
      BY <3>5, <3>6, <3>7
  <2>4. job'.dir = job.dir /\ \A y \in Mine : Target(y)' = Target(y)
    BY <2>2, <1>5 DEF Target
  <2>5. job.dir = "fwd" => snap'.copies = Copied'
    BY <1>1, <1>3 DEF WayKnown, Copied
  <2>6. faults' = 0 /\ touched = {} => job.dir = "fwd"
    BY <1>3 DEF WayKnown
  <2> QED
    BY <2>2, <2>3, <2>4, <2>5, <2>6, <1>1, <1>2, CheckStep
<1>7. CASE job.at # Receipt /\ Later = {} /\ job.dir = "fwd" /\ Onward(p, "verify")
  <2>1. job' = job /\ pc'[p] = "verify"
    BY <1>5, <1>7 DEF Onward, Goto
  <2>2. ASSUME NEW y \in Mine
        PROVE  /\ y \in Done("verify", job) => disk[y] = Target(y)
               /\ y \notin Done("verify", job) => disk[y] = snap.old[y]
    <3>1. job.at \in Files /\ Done("verify", job) = Files /\ Files \subseteq Nat
      BY <1>3, <1>7, Names DEF Done, Paths
    <3>2. y \in Done(pc[p], job) <=> y \in Files /\ y < job.at
      BY <1>1, <1>7 DEF Done
    <3>3. CASE y \in Files /\ y > job.at
      <4>1. y \notin snap.changed
        BY <1>7, <3>3 DEF Later
      <4> QED
        BY <4>1, <3>1, <3>3, <1>4, Names
    <3>4. CASE y = job.at
      BY <3>1, <3>4
    <3>5. CASE y \in Files /\ y < job.at
      BY <3>1, <3>2, <3>5, <1>3 DEF OthersKnown
    <3>6. CASE y \notin Files
      BY <3>1, <3>2, <3>6, <1>3, <1>7 DEF OthersKnown
    <3>7. y \in Files => y \in Nat /\ job.at \in Nat
      BY <3>1
    <3> QED
      BY <3>3, <3>4, <3>5, <3>6, <3>7
  <2>3. snap'.copies = Copied'
    BY <1>1, <1>3, <1>7 DEF WayKnown, Copied
  <2> QED
    BY <2>1, <2>2, <2>3, <1>1, <1>2, <1>7, LateStep
<1>8. CASE job.at # Receipt /\ Later = {} /\ job.dir = "back" /\ ToFile(p, Receipt)
  <2>1. job' = [job EXCEPT !.at = Receipt] /\ pc'[p] = "check"
    BY <1>5, <1>8 DEF ToFile, Goto
  <2>2. job'.at = Receipt /\ job'.dir = "back" /\ \A y \in Mine : Target(y)' = Target(y)
    BY <2>1, <1>5, <1>8 DEF Target
  <2>3. ASSUME NEW y \in Mine, y \in Done("check", job') PROVE disk[y] = Target(y)
    <3>1. y \in Files /\ job.at \in Files /\ Files \subseteq Nat
      BY <2>2, <2>3, <1>3, <1>8, Names DEF Done, Paths
    <3>2. y \in Done(pc[p], job) <=> y > job.at
      BY <3>1, <1>1, <1>8 DEF Done
    <3>3. CASE y < job.at
      <4>1. y \notin snap.changed
        BY <1>8, <3>1, <3>3 DEF Later
      <4> QED
        BY <4>1, <3>1, <1>4, Names
    <3>4. CASE y = job.at
      BY <3>4
    <3>5. CASE y > job.at
      BY <3>1, <3>2, <3>5, <1>3 DEF OthersKnown
    <3>6. y \in Nat /\ job.at \in Nat
      BY <3>1
    <3> QED
      BY <3>3, <3>4, <3>5, <3>6
  <2>4. faults' = 0 => touched # {}
    BY <1>3, <1>8 DEF WayKnown
  <2> QED
    BY <2>1, <2>2, <2>3, <2>4, <1>1, <1>2, CheckStep
<1>9. CASE job.at = Receipt /\ job.err # "race" /\ Onward(p, "clear")
  <2>1. job' = job /\ pc'[p] = "clear"
    BY <1>5, <1>9 DEF Onward, Goto
  <2>2. Done("clear", job) = Paths /\ Done(pc[p], job) = Files
    BY <1>1, <1>9 DEF Done
  <2>3. ASSUME NEW y \in Mine PROVE y \in Paths /\ disk[y] = Target(y)
    BY <2>2, <1>3, <1>9 DEF OthersKnown, Mine, Paths
  <2>4. faults' = 0 /\ touched = {} => job.dir = "fwd"
    BY <1>3 DEF WayKnown
  <2> QED
    BY <2>1, <2>2, <2>3, <2>4, <1>1, <1>2, LateStep
<1>10. CASE job.at = Receipt /\ job.err = "race" /\ GiveUp(p)
  <2>1. Finish(p) /\ pending'
    BY <1>5, <1>10 DEF GiveUp
  <2>2. KilledSyncRecoverable'
    BY <2>1, <1>1, <1>2, <1>5, KilledKept
  <2> QED
    BY <2>1, <2>2, EndStep
<1> QED
  BY <1>6, <1>7, <1>8, <1>9, <1>10 DEF Proceed

-----------------------------------------------------------------------------
(* Every step preserves RInv.                                              *)

(* A step of another process, or outside of applies.                       *)
LEMMA AsideStep ==
  ASSUME RInv, CInv', \A q \in Procs : pc[q] \in Applying \/ pc'[q] \in Applying => pc'[q] = pc[q],
         UNCHANGED <<disk, snap, aside, job, lock, pending, legacy, touched, faults>>
  PROVE  RInv'
<1>1. PathsKnown'
  <2> SUFFICES ASSUME NEW p \in Procs, pc'[p] \in Applying PROVE ApplyAt(pc[p])'
    BY DEF PathsKnown
  <2>1. PICK l : l = pc[p]
    OBVIOUS
  <2>2. ApplyAt(l) /\ pc'[p] = l
    BY <2>1, Applies
  <2>3. SnapKnown' /\ WayKnown(l)' /\ OthersKnown(l)' /\ (l \in Placing => HereKnown(l)')
    BY <2>2 DEF ApplyAt, SnapKnown, Honest, RowsOf, Mine, WayKnown, Copied, OthersKnown, At,
                Target, HereKnown, Before, Removing
  <2> QED
    BY <2>2, <2>3 DEF ApplyAt
<1>2. Idle'
  BY DEF RInv, Idle, Honest, RowsOf, Mine
<1>3. KilledSyncRecoverable'
  BY DEF RInv, KilledSyncRecoverable
<1> QED
  BY <1>1, <1>2, <1>3 DEF RInv

LEMMA PreviewPaths == ASSUME RInv, CInv', NEW p \in Procs, Preview(p) PROVE RInv'
<1>1. \A q \in Procs : pc'[q] = IF q = p THEN "previewed" ELSE pc[q]
  BY Parts DEF RInv, CtlOK, TypeCtl, Preview, Goto
<1>2. pc[p] = "idle" /\ "idle" \notin Applying /\ "previewed" \notin Applying
  BY DEF Preview, Applying
<1> QED
  BY <1>1, <1>2, AsideStep DEF Preview, source, record, history, counts

LEMMA RefusePaths == ASSUME RInv, CInv', NEW p \in Procs, Refuse(p) PROVE RInv'
<1>1. \A q \in Procs : pc'[q] = IF q = p THEN "idle" ELSE pc[q]
  BY Parts DEF RInv, CtlOK, TypeCtl, Refuse, Goto
<1>2. pc[p] = "previewed" /\ "idle" \notin Applying /\ "previewed" \notin Applying
  BY DEF Refuse, Applying
<1> QED
  BY <1>1, <1>2, AsideStep DEF Refuse, source, record, history, counts

(* What an apply of these commits will leave is as true as what it finds.  *)
LEMMA BookHonest ==
  ASSUME TypeData, Honest(disk), Ready(want),
         NEW new, new = [x \in Paths |-> IF x = Receipt THEN NextBook(want)
                                        ELSE IF x \in Planned(want) THEN want[x] ELSE disk[x]]
  PROVE  /\ Honest(new)
         /\ \A x \in Paths : x \notin Changing(want) \cup {Receipt} => new[x] = disk[x]
<1>1. Rows \in [Files -> Row \cup {NoRow}]
  BY DiskAt, Names DEF TypeData, Rows, NoRows, Value, Book
<1>2. NextBook(want) \in Book /\ Absent \notin Book /\ Damaged \notin Book
  BY BookTyped, ConstantsOK
<1>3. new[Receipt] = NextBook(want) /\ RowsOf(new) = NextBook(want).rows
  BY <1>2, Names DEF RowsOf
<1>4. \A x \in Files : new[x] = IF x \in Planned(want) THEN want[x] ELSE disk[x]
  BY Names
<1>5. ASSUME NEW f \in Files \cap Mine, Receipt \in Mine
      PROVE  LET row == RowsOf(new)[f] IN
             IF row # NoRow THEN new[f] = [data |-> row.data, exec |-> row.exec]
             ELSE new[f] = Absent \/ (legacy # Damaged /\ new[f].data = legacy[f])
  <2>1. CASE f \in Planned(want)
    <3>1. want[f] \in [data : Data, exec : BOOLEAN]
      BY <2>1 DEF Planned, TypeData, Tree
    <3>2. RowsOf(new)[f] = ActiveRow(want[f]) /\ new[f] = want[f]
      BY <1>3, <1>4, <2>1 DEF NextBook
    <3>3. ActiveRow(want[f]) # NoRow
      BY <3>1, ConstantsOK DEF ActiveRow, Row
    <3> QED
      BY <3>1, <3>2, <3>3 DEF ActiveRow
  <2>2. CASE f \notin Planned(want) /\ Rows[f] # NoRow
    <3>1. f \in Kept(want) /\ AsInstalled(f) /\ Rows[f] \in Row
      BY <2>2, <1>1 DEF Kept, Ready
    <3>2. RowsOf(new)[f] = [Rows[f] EXCEPT !.status = "retained"] /\ new[f] = disk[f]
      BY <1>3, <1>4, <2>2, <3>1 DEF NextBook
    <3>3. /\ RowsOf(new)[f] \in Row /\ RowsOf(new)[f].data = Rows[f].data
          /\ RowsOf(new)[f].exec = Rows[f].exec
      BY <3>1, <3>2 DEF Row
    <3> QED
      BY <3>1, <3>2, <3>3, ConstantsOK DEF AsInstalled
  <2>3. CASE f \notin Planned(want) /\ Rows[f] = NoRow
    <3>1. RowsOf(new)[f] = NoRow /\ new[f] = disk[f]
      BY <1>3, <1>4, <2>3 DEF NextBook, Kept
    <3>2. RowsOf(disk)[f] = NoRow
      BY <1>5, <2>3 DEF Honest, RowsOf, Rows
    <3> QED
      BY <1>5, <3>1, <3>2 DEF Honest
  <2> QED
    BY <2>1, <2>2, <2>3
<1>6. Honest(new)
  BY <1>2, <1>3, <1>5 DEF Honest
<1> QED
  BY <1>4, <1>6 DEF Changing, Paths

LEMMA BeginPaths == ASSUME RInv, CInv', NEW p \in Procs, Begin(p) PROVE RInv'
<1>1. TypeData /\ CtlOK /\ pc[p] = "previewed" /\ lock = NoProc
  BY Parts DEF RInv, Begin
<1>2. job = NoJob /\ ~pending /\ Ready(want) /\ Honest(disk)
  BY <1>1 DEF RInv, Idle, Begin, Applicable
<1>3. CASE Finish(p) /\ UNCHANGED snap
  <2>1. \A q \in Procs : pc'[q] = IF q = p THEN "idle" ELSE pc[q]
    BY <1>1, <1>3 DEF CtlOK, TypeCtl, Finish, Goto
  <2>2. "idle" \notin Applying /\ "previewed" \notin Applying
    BY DEF Applying
  <2> QED
    BY <1>1, <1>2, <1>3, <2>1, <2>2, AsideStep DEF Begin, Finish, source, history, counts
<1>4. ASSUME Goto(p, "snapshot"), UNCHANGED job, NEW new,
             new = [x \in Paths |-> IF x = Receipt THEN NextBook(want)
                                     ELSE IF x \in Planned(want) THEN want[x] ELSE disk[x]],
             snap' = [old |-> disk, new |-> new, changed |-> Changing(want), copies |-> {}]
      PROVE  RInv'
  <2>1. pc'[p] = "snapshot" /\ "snapshot" \in Applying /\ "snapshot" \notin Placing
    BY <1>1, <1>4 DEF Goto, CtlOK, TypeCtl, Applying, Placing
  <2>2. /\ Honest(new)
        /\ \A x \in Paths : x \notin Changing(want) \cup {Receipt} => new[x] = disk[x]
    BY <1>1, <1>2, <1>4, BookHonest
  <2>3. UNCHANGED <<disk, legacy, touched, faults, pending>>
    BY DEF Begin, source, history, counts
  <2>4. SnapKnown'
    BY <1>2, <1>4, <2>2, <2>3 DEF SnapKnown, Honest, RowsOf, Mine
  <2>5. WayKnown("snapshot")'
    BY <1>2, <1>4, <2>3 DEF WayKnown, NoJob
  <2>6. OthersKnown("snapshot")'
    BY <1>4, <2>3 DEF OthersKnown, Done
  <2> QED
    BY <2>1, <2>4, <2>5, <2>6, AtStep DEF ApplyAt
<1> QED
  BY <1>3, <1>4 DEF Begin

LEMMA SnapshotPaths == ASSUME RInv, CInv', NEW p \in Procs, Snapshot(p) PROVE RInv'
<1>1. pc[p] = "snapshot" /\ pc[p] \in Applying /\ CtlOK
  BY Parts DEF RInv, Snapshot, Applying
<1>2. /\ SnapKnown /\ job = NoJob /\ ~pending /\ snap.changed \subseteq Files
      /\ \A x \in Mine : disk[x] = snap.old[x]
  BY <1>1, Applies DEF ApplyAt, WayKnown, OthersKnown, Done, At, Placing, NoJob
<1>3. Still /\ UNCHANGED <<disk, legacy, touched, faults>>
  BY DEF Still, Snapshot, source, history, counts
<1>4. CASE Finish(p) /\ UNCHANGED pending
  <2>1. Honest(disk)'
    BY <1>2, <1>3, HonestDisk DEF SnapKnown
  <2> QED
    BY <1>2, <1>4, <2>1, EndStep DEF KilledSyncRecoverable
<1>5. ASSUME snap' = [snap EXCEPT !.copies = Copied]
      PROVE  Quiet /\ snap'.copies = Copied' /\ snap'.new = snap.new
  <2>1. snap \in Snap /\ Copied \subseteq Paths
    BY <1>1, <1>2, Applies, Names DEF Copied
  <2> QED
    BY <1>3, <1>5, <2>1 DEF Quiet, SameSnap, Snap, Copied
<1>6. CASE /\ snap' = [snap EXCEPT !.copies = Copied] /\ snap.changed = {}
           /\ Goto(p, "verify") /\ UNCHANGED job
  <2>1. pc'[p] = "verify"
    BY <1>1, <1>6 DEF Goto, CtlOK, TypeCtl
  <2>2. ASSUME NEW y \in Mine
        PROVE  /\ y \in Done("verify", job) => disk[y] = Target(y)
               /\ disk[y] = snap.old[y]
    BY <1>2, <1>6, Names DEF Done, NoJob, SnapKnown, Target, Mine
  <2> QED
    BY <1>1, <1>2, <1>3, <1>5, <1>6, <2>1, <2>2, LateStep DEF NoJob
<1>7. CASE /\ snap' = [snap EXCEPT !.copies = Copied] /\ Goto(p, "check")
           /\ \E x \in First(snap.changed, "fwd") : job' = [job EXCEPT !.at = x]
  <2>1. PICK x \in First(snap.changed, "fwd") : job' = [job EXCEPT !.at = x]
    BY <1>7
  <2>2. pc'[p] = "check" /\ job'.dir = "fwd" /\ job'.at = x
    BY <1>1, <1>2, <1>7, <2>1 DEF Goto, CtlOK, TypeCtl, NoJob
  <2>3. ASSUME NEW y \in Mine
        PROVE  /\ y \in Done("check", job') => disk[y] = Target(y)'
               /\ disk[y] = snap.old[y]
    <3>1. x \in Files /\ Files \subseteq Nat /\ x # Receipt
      BY <1>2, Names DEF First
    <3>2. x \in Nat /\ (y \in Done("check", job') => y \in Files /\ y \in Nat /\ y < x)
      BY <2>2, <3>1 DEF Done
    <3>3. y \in Done("check", job') => y \notin snap.changed
      BY <3>1, <3>2 DEF First
    <3> QED
      BY <1>2, <1>5, <1>7, <2>2, <3>2, <3>3, Names DEF SnapKnown, Target, Mine
  <2> QED
    BY <1>1, <1>3, <1>5, <1>7, <2>2, <2>3, CheckStep
<1> QED
  BY <1>4, <1>6, <1>7 DEF Snapshot

(* What an apply at a path can count on.                                   *)
LEMMA AtHere ==
  ASSUME RInv, NEW p \in Procs, pc[p] \in Placing
  PROVE  /\ HereKnown(pc[p]) /\ CtlOK /\ (snap' = snap => SameSnap)
         /\ (faults = 0 /\ touched = {} => job.dir = "fwd")
         /\ pc[p] \in Applying \ {"snapshot"} /\ job.at \in Paths
         /\ job.at \in Files \/ job.at = Receipt
         /\ touched = {} => job.at \in Mine
<1>1. pc[p] \in Applying \ {"snapshot"}
  BY DEF Placing, Applying
<1>2. /\ ApplyAt(pc[p]) /\ snap \in Snap /\ CtlOK
      /\ job.at \in Paths
  BY <1>1, Applies, Parts DEF RInv
<1> QED
  BY <1>1, <1>2 DEF ApplyAt, WayKnown, SameSnap, Mine, Paths

LEMMA CheckFilePaths == ASSUME RInv, CInv', NEW p \in Procs, CheckFile(p) PROVE RInv'
<1>1. pc[p] = "check" /\ pc[p] \in Placing /\ UNCHANGED <<disk, snap, aside, legacy, touched, faults>>
  BY DEF CheckFile, Placing, source, history, counts
<1>2. /\ CtlOK /\ Quiet /\ Still
      /\ faults = 0 /\ touched = {} => job.dir = "fwd" /\ job.at \in Mine
  BY <1>1, AtHere DEF Quiet, Still
<1>3. HereKnown("check")
  BY <1>1, AtHere DEF HereKnown
<1>4. CASE job.dir = "fwd" /\ ~AsReviewed(job.at) /\ Error(p, "other")
  BY <1>3, <1>1, <1>2, <1>4, ErrorPaths, AtHere DEF HereKnown, AsReviewed, Before
<1>5. CASE job.dir = "back" /\ AsReviewed(job.at) /\ Proceed(p)
  BY <1>1, <1>2, <1>5, ProceedPaths DEF AsReviewed, Target
<1>6. CASE job.dir = "back" /\ ~AsReviewed(job.at) /\ ~AsPlaced(job.at) /\ GiveUp(p)
  <2>1. Finish(p) /\ pending' /\ pending
    BY <1>1, <1>6, Applies, AtHere DEF GiveUp
  <2>2. KilledSyncRecoverable'
    BY <2>1, <1>1, <1>2, AtHere, KilledKept
  <2> QED
    BY <2>1, <2>2, EndStep
<1>7. CASE /\ Onward(p, FirstStep(job.at))
           /\ \/ job.dir = "fwd" /\ AsReviewed(job.at)
              \/ job.dir = "back" /\ ~AsReviewed(job.at) /\ AsPlaced(job.at)
  <2>1. PICK l : l = FirstStep(job.at)
    OBVIOUS
  <2>2. l \in {"place", "chmod", "detach"} /\ l \in Placing
    BY <2>1 DEF FirstStep, Placing
  <2>3. pc'[p] = l /\ job' = job
    BY <1>2, <1>7, <2>1 DEF Onward, Goto, CtlOK, TypeCtl
  <2>4. HereKnown(l)
    <3>1. CASE job.dir = "fwd" /\ AsReviewed(job.at)
      BY <1>3, <2>1, <2>2, <3>1 DEF HereKnown, FirstStep, AsReviewed, Before, Target, Removing
    <3>2. CASE job.dir = "back" /\ ~AsReviewed(job.at) /\ AsPlaced(job.at)
      BY <2>1, <2>2, <3>2
      DEF HereKnown, FirstStep, AsReviewed, AsPlaced, SameData, Before, Target, Removing
    <3> QED
      BY <1>7, <3>1, <3>2
  <2>5. HereKnown(l)'
    BY <1>1, <2>3, <2>4 DEF HereKnown, Mine, Before, Target, Removing
  <2> QED
    BY <1>1, <2>2, <2>3, <2>5, HereStep
<1> QED
  BY <1>4, <1>5, <1>6, <1>7 DEF CheckFile

LEMMA LinkAsidePaths == ASSUME RInv, CInv', NEW p \in Procs, LinkAside(p) PROVE RInv'
<1>1. pc[p] = "detach" /\ pc[p] \in Placing /\ UNCHANGED <<disk, snap, legacy, touched, faults>>
  BY DEF LinkAside, Placing, source, history, counts
<1>2. CtlOK /\ Quiet /\ Still /\ HereKnown("detach")
  BY <1>1, AtHere DEF Quiet, Still
<1>3. CASE /\ disk[job.at] # Absent /\ Onward(p, "unlink")
           /\ aside' = [aside EXCEPT ![job.dir][job.at] = disk[job.at]]
  <2>1. pc'[p] = "unlink" /\ job' = job /\ "unlink" \in Placing
    BY <1>2, <1>3 DEF Onward, Goto, CtlOK, TypeCtl, Placing
  <2>2. aside'[job.dir][job.at] = disk[job.at]
    BY <1>1, <1>3, Parts, AtPath DEF RInv, TypeData, Disk
  <2>3. HereKnown("unlink")'
    BY <1>1, <1>2, <2>1, <2>2 DEF HereKnown, Mine, Before, Target, Removing
  <2> QED
    BY <1>1, <2>1, <2>3, HereStep
<1>4. CASE disk[job.at] = Absent /\ Error(p, "race")
  <2>1. Before(job.at) # Absent
    BY <1>1, <1>2 DEF CtlOK, ApplyKnows
  <2> QED
    BY <1>1, <1>2, <1>4, <2>1, AtHere, ErrorPaths DEF HereKnown, Removing
<1> QED
  BY <1>3, <1>4 DEF LinkAside

LEMMA UnlinkPathPaths == ASSUME RInv, CInv', NEW p \in Procs, UnlinkPath(p) PROVE RInv'
<1>1. pc[p] = "unlink" /\ pc[p] \in Placing /\ UNCHANGED <<snap, aside, legacy, touched, faults>>
  BY DEF UnlinkPath, Placing, source, history, counts
<1>2. CtlOK /\ Quiet /\ HereKnown("unlink") /\ disk \in Disk /\ job.at \in Paths
  BY <1>1, AtHere, Parts DEF Quiet, RInv, TypeData
<1>3. CASE /\ disk[job.at] # Absent /\ disk' = [disk EXCEPT ![job.at] = Absent]
           /\ Onward(p, IF Removing(job.at) THEN "gone" ELSE "inspect")
  <2>1. PICK l : l = IF Removing(job.at) THEN "gone" ELSE "inspect"
    OBVIOUS
  <2>2. pc'[p] = l /\ job' = job /\ l \in Placing
    BY <1>2, <1>3, <2>1 DEF Onward, Goto, CtlOK, TypeCtl, Placing
  <2>3. disk'[job.at] = Absent /\ \A x \in Mine : x # job.at => disk'[x] = disk[x]
    BY <1>2, <1>3 DEF Disk, Mine
  <2>4. HereKnown(l)'
    BY <1>1, <1>2, <2>1, <2>2, <2>3 DEF HereKnown, Mine, Before, Target, Removing
  <2> QED
    BY <1>1, <2>2, <2>3, <2>4, HereStep
<1>4. CASE disk[job.at] = Absent /\ Error(p, "race") /\ UNCHANGED disk
  <2>1. Before(job.at) # Absent
    BY <1>1, <1>2 DEF CtlOK, ApplyKnows
  <2> QED
    BY <1>1, <1>2, <1>4, <2>1, AtHere, ErrorPaths DEF HereKnown, Removing, Still
<1> QED
  BY <1>3, <1>4 DEF UnlinkPath

LEMMA InspectAsidePaths == ASSUME RInv, CInv', NEW p \in Procs, InspectAside(p) PROVE RInv'
<1>1. pc[p] = "inspect" /\ pc[p] \in Placing /\ UNCHANGED <<disk, snap, aside, legacy, touched, faults>>
  BY DEF InspectAside, Placing, source, history, counts
<1>2. CtlOK /\ HereKnown("inspect")
  BY <1>1, AtHere
<1>3. PICK l : l = IF SameData(job.at, aside[job.dir][job.at], Before(job.at))
                     THEN "place" ELSE "putback"
  OBVIOUS
<1>4. pc'[p] = l /\ job' = job /\ l \in Placing
  BY <1>2, <1>3 DEF InspectAside, Onward, Goto, CtlOK, TypeCtl, Placing
<1>5. HereKnown(l)'
  BY <1>1, <1>2, <1>3, <1>4 DEF HereKnown, SameData, Mine, Before, Target, Removing
<1> QED
  BY <1>1, <1>4, <1>5, HereStep

LEMMA PutBackPaths == ASSUME RInv, CInv', NEW p \in Procs, PutBack(p) PROVE RInv'
<1>1. pc[p] = "putback" /\ pc[p] \in Placing /\ UNCHANGED <<snap, legacy, touched, faults>>
  BY DEF PutBack, Placing, source, history, counts
<1>2. CtlOK /\ Quiet /\ HereKnown("putback") /\ disk \in Disk /\ Error(p, "race")
  BY <1>1, AtHere, Parts DEF Quiet, RInv, TypeData, PutBack
<1>3. job.at \notin Mine
  BY <1>2 DEF HereKnown
<1>4. Still
  BY <1>2, <1>3 DEF PutBack, Still, Disk, Mine
<1> QED
  BY <1>1, <1>2, <1>3, <1>4, AtHere, ErrorPaths

LEMMA PlacePaths == ASSUME RInv, CInv', NEW p \in Procs, Place(p) PROVE RInv'
<1>1. pc[p] = "place" /\ pc[p] \in Placing /\ UNCHANGED <<snap, aside, legacy, touched, faults>>
  BY DEF Place, Placing, source, history, counts
<1>2. CtlOK /\ Quiet /\ HereKnown("place") /\ disk \in Disk /\ job.at \in Paths
  BY <1>1, AtHere, Parts DEF Quiet, RInv, TypeData
<1>3. CASE /\ disk' = [disk EXCEPT ![job.at] = Target(job.at)] /\ Onward(p, "placed")
  <2>1. pc'[p] = "placed" /\ job' = job /\ "placed" \in Placing
    BY <1>2, <1>3 DEF Onward, Goto, CtlOK, TypeCtl, Placing
  <2>2. disk'[job.at] = Target(job.at) /\ \A x \in Mine : x # job.at => disk'[x] = disk[x]
    BY <1>2, <1>3 DEF Disk, Mine
  <2>3. HereKnown("placed")'
    BY <1>1, <2>1, <2>2 DEF HereKnown, Mine, Before, Target, Removing
  <2> QED
    BY <1>1, <2>1, <2>2, <2>3, HereStep
<1>4. CASE disk[job.at] # Absent /\ Error(p, "race") /\ UNCHANGED disk
  BY <1>1, <1>2, <1>4, AtHere, ErrorPaths DEF HereKnown, Still
<1> QED
  BY <1>3, <1>4 DEF Place

LEMMA ChmodPaths == ASSUME RInv, CInv', NEW p \in Procs, Chmod(p) PROVE RInv'
<1>1. pc[p] = "chmod" /\ pc[p] \in Placing /\ UNCHANGED <<snap, aside, legacy, touched, faults>>
  BY DEF Chmod, Placing, source, history, counts
<1>2. CtlOK /\ Quiet /\ HereKnown("chmod") /\ disk \in Disk /\ job.at \in Paths
  BY <1>1, AtHere, Parts DEF Quiet, RInv, TypeData
<1>3. /\ job.at \in Files /\ Target(job.at) \in File
      /\ Before(job.at) \in File \cup {Absent}
  BY <1>1, <1>2, AtPath, AtHere DEF RInv, CtlOK, ApplyKnows, Value
<1>4. CASE /\ disk[job.at] # Absent /\ Onward(p, "placed")
           /\ disk' = [disk EXCEPT ![job.at].exec = Target(job.at).exec]
  <2>1. pc'[p] = "placed" /\ job' = job /\ "placed" \in Placing
    BY <1>2, <1>4 DEF Onward, Goto, CtlOK, TypeCtl, Placing
  <2>2. /\ disk'[job.at] = [disk[job.at] EXCEPT !.exec = Target(job.at).exec]
        /\ \A x \in Mine : x # job.at => disk'[x] = disk[x]
    BY <1>2, <1>4 DEF Disk, Mine
  <2>3. job.at \in Mine => disk'[job.at] = Target(job.at)
    BY <1>2, <1>3, <1>4, <2>2, Names DEF HereKnown, SameData, File
  <2>4. HereKnown("placed")'
    BY <1>1, <2>1, <2>3 DEF HereKnown, Mine, Before, Target, Removing
  <2> QED
    BY <1>1, <2>1, <2>2, <2>4, HereStep
<1>5. CASE disk[job.at] = Absent /\ Error(p, "race") /\ UNCHANGED disk
  BY <1>1, <1>2, <1>3, <1>5, AtHere, ErrorPaths, Names DEF HereKnown, SameData, Still
<1> QED
  BY <1>4, <1>5 DEF Chmod

LEMMA CheckPlacedPaths == ASSUME RInv, CInv', NEW p \in Procs, CheckPlaced(p) PROVE RInv'
<1>1. pc[p] = "placed" /\ pc[p] \in Placing /\ UNCHANGED <<disk, snap, legacy, touched, faults>>
  BY DEF CheckPlaced, Placing, source, history, counts
<1>2. Quiet /\ Still /\ HereKnown("placed")
  BY <1>1, AtHere DEF Quiet, Still
<1>3. CASE disk[job.at] = Target(job.at) /\ Proceed(p)
  BY <1>1, <1>3, ProceedPaths
<1>4. CASE disk[job.at] # Target(job.at) /\ Error(p, "race")
  BY <1>1, <1>2, <1>4, AtHere, ErrorPaths DEF HereKnown
<1> QED
  BY <1>3, <1>4 DEF CheckPlaced

LEMMA CheckGonePaths == ASSUME RInv, CInv', NEW p \in Procs, CheckGone(p) PROVE RInv'
<1>1. pc[p] = "gone" /\ pc[p] \in Placing /\ UNCHANGED <<disk, snap, legacy, touched, faults>>
  BY DEF CheckGone, Placing, source, history, counts
<1>2. Quiet /\ Still /\ HereKnown("gone")
  BY <1>1, AtHere DEF Quiet, Still
<1>3. CASE disk[job.at] = Absent /\ Proceed(p)
  BY <1>1, <1>2, <1>3, ProceedPaths DEF HereKnown, Removing, Target
<1>4. CASE disk[job.at] # Absent /\ Error(p, "race")
  BY <1>1, <1>2, <1>4, AtHere, ErrorPaths DEF HereKnown
<1> QED
  BY <1>3, <1>4 DEF CheckGone

LEMMA VerifyPaths == ASSUME RInv, CInv', NEW p \in Procs, Verify(p) PROVE RInv'
<1> CtlOK
  BY Parts DEF RInv
<1>1. /\ pc[p] = "verify" /\ pc[p] \in Applying \ {"snapshot"}
      /\ UNCHANGED <<disk, snap, legacy, touched, faults>>
  BY DEF Verify, Applying, source, history, counts
<1>2. /\ WayKnown("verify") /\ OthersKnown("verify") /\ snap \in Snap
      /\ Done("verify", job) = Files /\ At("verify") = {}
  BY <1>1, Applies DEF ApplyAt, Done, At, Placing
<1>3. Quiet /\ Still /\ job.dir = "fwd" /\ snap'.copies = Copied'
  BY <1>1, <1>2 DEF Quiet, SameSnap, Still, WayKnown, Copied
<1>4. ASSUME NEW y \in Mine
      PROVE  /\ y \in Files => disk[y] = snap.new[y]
             /\ y = Receipt => disk[y] = snap.old[y]
             /\ y \in Files \/ y = Receipt
  BY <1>2, <1>3, Names DEF OthersKnown, Target, Mine, Paths
<1>5. CASE ToFile(p, Receipt)
  <2>1. pc'[p] = "check" /\ job'.at = Receipt /\ job'.dir = "fwd"
    BY <1>3, <1>5 DEF ToFile, Goto, CtlOK, TypeCtl
  <2>2. Done("check", job') = Files
    BY <2>1 DEF Done
  <2> QED
    BY <2>1, <2>2, <1>1, <1>3, <1>4, CheckStep DEF Target
<1>6. CASE snap.new[Receipt] = snap.old[Receipt] /\ Onward(p, "clear")
  <2>1. pc'[p] = "clear" /\ job' = job /\ Done("clear", job) = Paths
    BY <1>6 DEF Onward, Goto, CtlOK, TypeCtl, Done
  <2>2. \A y \in Mine : y \in Paths /\ disk[y] = Target(y)
    BY <1>3, <1>4, <1>6 DEF Target, Mine
  <2> QED
    BY <2>1, <2>2, <1>1, <1>3, LateStep
<1>7. CASE /\ Error(p, "other")
           /\ ~\A f \in {g \in Files : snap.new[Receipt].rows[g] # NoRow} : disk[f] = snap.new[f]
  <2>1. touched # {}
    BY <1>4, <1>7, Names DEF Mine
  <2> QED
    BY <2>1, <1>1, <1>3, <1>7, ErrorPaths
<1> QED
  BY <1>5, <1>6, <1>7 DEF Verify

LEMMA ClearSnapshotPaths == ASSUME RInv, CInv', NEW p \in Procs, ClearSnapshot(p) PROVE RInv'
<1> CtlOK
  BY Parts DEF RInv
<1>1. /\ pc[p] = "clear" /\ pc[p] \in Applying /\ UNCHANGED <<disk, legacy, touched, faults>>
      /\ Onward(p, "unmark")
  BY DEF ClearSnapshot, Applying, source, history, counts
<1>2. /\ ApplyAt("clear") /\ snap \in Snap
      /\ Done("clear", job) = Paths /\ Done("unmark", job) = Paths
  BY <1>1, Applies DEF Done
<1>3. Quiet /\ Still
  BY <1>1, <1>2 DEF Quiet, SameSnap, Snap, Still, ClearSnapshot
<1>4. pc'[p] = "unmark" /\ job' = job
  BY <1>1 DEF Onward, Goto, CtlOK, TypeCtl
<1>5. \A y \in Mine : y \in Paths /\ disk[y] = Target(y)
  BY <1>2 DEF ApplyAt, OthersKnown, Mine
<1> QED
  BY <1>1, <1>2, <1>3, <1>4, <1>5, LateStep DEF ApplyAt, WayKnown

(* What an apply that has been everywhere leaves is true.                  *)
LEMMA DoneHonest ==
  ASSUME RInv, NEW p \in Procs, pc[p] \in {"clear", "unmark"}, UNCHANGED <<disk, legacy, touched>>
  PROVE  /\ \A x \in Mine : disk[x] = Target(x)
         /\ Honest(disk)'
<1>1. ApplyAt(pc[p]) /\ Done(pc[p], job) = Paths
  BY Applies DEF Applying, Done
<1>2. \A x \in Mine : disk[x] = Target(x)
  BY <1>1 DEF ApplyAt, OthersKnown, Mine
<1>3. Honest(snap.old) /\ Honest(snap.new)
  BY <1>1 DEF ApplyAt, SnapKnown
<1>4. CASE job.dir = "fwd"
  BY <1>2, <1>3, <1>4, HonestDisk DEF Target
<1>5. CASE job.dir # "fwd"
  BY <1>2, <1>3, <1>5, HonestDisk DEF Target
<1> QED
  BY <1>2, <1>4, <1>5

LEMMA RemoveMarkerPaths == ASSUME RInv, CInv', NEW p \in Procs, RemoveMarker(p) PROVE RInv'
<1>1. /\ pc[p] = "unmark" /\ Finish(p) /\ ~pending'
      /\ UNCHANGED <<disk, legacy, touched>>
  BY DEF RemoveMarker, source, history
<1> QED
  BY <1>1, DoneHonest, EndStep DEF KilledSyncRecoverable

LEMMA FaultPaths == ASSUME RInv, CInv', NEW p \in Procs, Fault(p) PROVE RInv'
<1>1. /\ pc[p] \in Applying \ {"snapshot"} /\ UNCHANGED <<disk, snap, legacy, touched>>
      /\ faults' = faults + 1 /\ faults \in Nat
      /\ \E e \in {"other", "race"} : Error(p, e)
  BY Parts, ConstantsOK DEF RInv, TypeData, Fault, source, history
<1>2. Quiet /\ Still
  BY <1>1, Applies DEF Quiet, SameSnap, Still
<1> QED
  BY <1>1, <1>2, ErrorPaths

LEMMA ClearFailsPaths == ASSUME RInv, CInv', NEW p \in Procs, ClearFails(p) PROVE RInv'
<1>1. /\ pc[p] \in Applying \ {"snapshot"} /\ UNCHANGED <<disk, legacy, touched>>
      /\ faults' = faults + 1 /\ faults \in Nat /\ Error(p, "other")
  BY Parts, ConstantsOK DEF RInv, TypeData, ClearFails, Applying, source, history
<1>2. PICK left \in SUBSET snap.copies : snap' = [snap EXCEPT !.copies = left]
  BY DEF ClearFails
<1>3. Quiet /\ Still
  BY <1>1, <1>2, Applies DEF Quiet, SameSnap, Snap, Still
<1> QED
  BY <1>1, <1>3, ErrorPaths

LEMMA CrashPaths == ASSUME RInv, CInv', NEW p \in Procs, Crash(p) PROVE RInv'
<1>1. /\ pc[p] \in Applying /\ UNCHANGED <<disk, legacy, touched, faults, pending>> /\ Finish(p)
  BY DEF Crash, source, history
<1>2. Still
  BY <1>1 DEF Still
<1>3. CASE pc[p] = "snapshot"
  <2>1. ~pending /\ SnapKnown /\ \A x \in Mine : disk'[x] = snap.old[x]
    BY <1>1, <1>3, Applies DEF ApplyAt, WayKnown, OthersKnown, Done, At, Placing, NoJob
  <2>2. Honest(disk)'
    BY <2>1, <1>1, HonestDisk DEF SnapKnown
  <2> QED
    BY <2>1, <2>2, <1>1, EndStep DEF KilledSyncRecoverable
<1>4. CASE pc[p] \notin {"snapshot", "clear"}
  BY <1>1, <1>2, <1>4, Applies, KilledKept, EndStep DEF Crash
<1>5. CASE pc[p] = "clear"
  <2>1. PICK left \in SUBSET snap.copies : snap' = [snap EXCEPT !.copies = left]
    BY <1>5 DEF Crash
  <2>2. snap'.new = snap.new /\ pending
    BY <2>1, <1>1, <1>5, Applies DEF Snap
  <2>3. faults = 0 /\ touched = {} => \A x \in Paths : disk[x] = snap.new[x]
    BY <1>1, <1>5, Applies, DoneHonest DEF ApplyAt, WayKnown, Target, Mine
  <2> QED
    BY <2>2, <2>3, <1>1, EndStep DEF KilledSyncRecoverable
<1> QED
  BY <1>3, <1>4, <1>5

LEMMA HandEditPaths ==
  ASSUME RInv, CInv', NEW x \in Paths, NEW v, NEW how, HandEdit(x, v, how)
  PROVE  RInv'
<1>1. /\ UNCHANGED <<snap, pending, job, lock, pc, legacy, faults>>
      /\ touched' = touched \cup {x} /\ disk' = [disk EXCEPT ![x] = v]
  BY DEF HandEdit, source, control
<1>2. disk \in Disk /\ aside \in [Dirs -> Disk] /\ touched \subseteq Paths
  BY Parts DEF RInv, TypeData
<1>3. /\ Mine' = Mine \ {x}
      /\ \A y \in Mine' : disk'[y] = disk[y]
      /\ \A d \in Dirs : \A y \in Mine' : aside'[d][y] = aside[d][y]
  <2>1. Mine' = Mine \ {x}
    BY <1>1 DEF Mine
  <2>2. \A y \in Mine' : disk'[y] = disk[y]
    BY <1>1, <1>2, <2>1 DEF Disk, Mine
  <2>3. ASSUME NEW d \in Dirs, NEW y \in Mine' PROVE aside'[d][y] = aside[d][y]
    <3>1. y \in Paths /\ y # x
      BY <2>1 DEF Mine
    <3>2. CASE aside' = aside
      BY <3>2
    <3>3. CASE x = job.at /\ aside' = [aside EXCEPT ![job.dir][x] = v]
      BY <1>2, <3>1, <3>3 DEF Disk
    <3> QED
      BY <3>2, <3>3 DEF HandEdit
  <2> QED
    BY <2>1, <2>2, <2>3
<1>5. PathsKnown'
  <2> SUFFICES ASSUME NEW p \in Procs, pc[p] \in Applying PROVE ApplyAt(pc[p])'
    BY <1>1 DEF PathsKnown
  <2>1. PICK l : l = pc[p]
    OBVIOUS
  <2>2. ApplyAt(l) /\ job.dir \in Dirs
    BY <2>1, Applies
  <2>3. SnapKnown'
    BY <2>2, <1>1, <1>3 DEF ApplyAt, SnapKnown, Honest, RowsOf
  <2>4. WayKnown(l)'
    BY <2>2, <1>1 DEF ApplyAt, WayKnown, Copied
  <2>5. OthersKnown(l)'
    BY <2>2, <1>1, <1>3 DEF ApplyAt, OthersKnown, Target, At
  <2>6. l \in Placing => HereKnown(l)'
    BY <2>2, <1>1, <1>3 DEF ApplyAt, HereKnown, Before, Target, Removing
  <2>7. ApplyAt(l)' /\ pc'[p] = l
    BY <1>1, <2>1, <2>3, <2>4, <2>5, <2>6 DEF ApplyAt
  <2> QED
    BY <2>7
<1>6. Idle'
  BY <1>1, <1>3 DEF RInv, Idle, Honest, RowsOf
<1>7. KilledSyncRecoverable'
  BY <1>1 DEF KilledSyncRecoverable
<1> QED
  BY <1>5, <1>6, <1>7 DEF RInv

LEMMA SourceChangePaths == ASSUME RInv, CInv', NEW t \in Trees, SourceChange(t) PROVE RInv'
BY AsideStep DEF SourceChange, record, control, history

(* While the install-receipt/1 was unreadable it vouched for nothing.      *)
LEMMA MoveLegacyAsidePaths == ASSUME RInv, CInv', MoveLegacyAside PROVE RInv'
<1>1. /\ legacy = Damaged
      /\ UNCHANGED <<disk, snap, aside, job, lock, pending, pc, touched, faults>>
  BY DEF MoveLegacyAside, record, control, history, counts
<1>2. PathsKnown'
  <2> SUFFICES ASSUME NEW p \in Procs, pc'[p] \in Applying PROVE ApplyAt(pc[p])'
    BY DEF PathsKnown
  <2>1. PICK l : l = pc[p]
    OBVIOUS
  <2>2. ApplyAt(l) /\ pc'[p] = l
    BY <1>1, <2>1, Applies
  <2>3. SnapKnown' /\ WayKnown(l)' /\ OthersKnown(l)' /\ (l \in Placing => HereKnown(l)')
    BY <1>1, <2>2 DEF ApplyAt, SnapKnown, Honest, RowsOf, Mine, WayKnown, Copied, OthersKnown, At,
                Target, HereKnown, Before, Removing
  <2> QED
    BY <2>2, <2>3 DEF ApplyAt
<1>3. Idle'
  BY <1>1 DEF RInv, Idle, Honest, RowsOf, Mine
<1>4. KilledSyncRecoverable'
  BY <1>1 DEF RInv, KilledSyncRecoverable
<1> QED
  BY <1>2, <1>3, <1>4 DEF RInv

LEMMA ClearMarkerPaths == ASSUME RInv, CInv', ClearMarker PROVE RInv'
<1>1. /\ lock' = NoProc /\ job' = job /\ lock = NoProc /\ touched' = Paths /\ ~pending'
  BY DEF ClearMarker, control
<1>2. PathsKnown'
  BY <1>1, PartsAfter, Names DEF PathsKnown, CtlOK, LockOwner
<1>3. Idle'
  BY <1>1 DEF RInv, Idle, Honest, Mine
<1>4. KilledSyncRecoverable'
  BY <1>1 DEF KilledSyncRecoverable
<1> QED
  BY <1>2, <1>3, <1>4 DEF RInv

LEMMA InitPaths == ASSUME Init PROVE RInv
<1>1. PathsKnown
  BY DEF Init, PathsKnown, Applying
<1>2. Honest(disk)
  <2>1. disk[Receipt] = Absent /\ Absent # Damaged
    BY Names, ConstantsOK DEF Init
  <2>2. ASSUME NEW f \in Files
        PROVE  /\ RowsOf(disk)[f] = NoRow
               /\ disk[f] = Absent \/ (legacy # Damaged /\ disk[f].data = legacy[f])
    BY <2>1, Names DEF Init, RowsOf, NoRows
  <2> QED
    BY <2>1, <2>2 DEF Honest
<1>3. Idle /\ KilledSyncRecoverable
  BY <1>2 DEF Init, Idle, KilledSyncRecoverable
<1> QED
  BY <1>1, <1>3, InitCInv DEF RInv

LEMMA NextPaths == ASSUME RInv, [Next]_vars PROVE RInv'
<1> CInv'
  BY NextCInv DEF RInv
<1>1. ASSUME NEW p \in Procs, Step(p) PROVE RInv'
  BY <1>1, BeginPaths, RefusePaths, SnapshotPaths, CheckFilePaths, LinkAsidePaths,
     UnlinkPathPaths, InspectAsidePaths, PutBackPaths, PlacePaths, ChmodPaths,
     CheckPlacedPaths, CheckGonePaths, VerifyPaths, ClearSnapshotPaths, RemoveMarkerPaths
  DEF Step
<1>2. ASSUME NEW p \in Procs, Preview(p) \/ Failure(p) PROVE RInv'
  BY <1>2, PreviewPaths, FaultPaths, ClearFailsPaths, CrashPaths DEF Failure
<1>3. CASE User
  BY <1>3, Names, HandEditPaths, SourceChangePaths, MoveLegacyAsidePaths, ClearMarkerPaths DEF User
<1>4. CASE UNCHANGED vars
  BY <1>4, AsideStep DEF vars, source, record, control, history, counts
<1> QED
  BY <1>1, <1>2, <1>3, <1>4 DEF Next

-----------------------------------------------------------------------------
(* What follows for every run.                                             *)

(* In every state, each apply knows what it has placed and what is still   *)
(* as it was reviewed, and between applies the receipt is honest.          *)
THEOREM PathsInvariant == Spec => []RInv
<1> QED
  BY InitPaths, NextPaths, PTL DEF Spec

(* Between applies, the receipt tells the truth about every file nobody    *)
(* else has changed, whatever errors, deaths and half-done removals there  *)
(* were.                                                                   *)
THEOREM ReceiptTellsTruth == Spec => []ReceiptTrue
<1>1. RInv => ReceiptTrue
  BY Names DEF RInv, Idle, Honest, RowsOf, Mine, ReceiptTrue, Rows, AsInstalled, NoRows
<1> QED
  BY PathsInvariant, <1>1, PTL

(* Sync does not stand in its own way: if nobody else has changed a file,  *)
(* the next plan is ready, whatever the commits wanted and whichever       *)
(* applies failed, but for an orphan that it wants to change.              *)
THEOREM NotSelfBlocked == Spec => []NeverSelfBlocked
<1>1. RInv => NeverSelfBlocked
  <2> SUFFICES ASSUME RInv, lock = NoProc, ~pending, touched = {}, legacy # Damaged,
                      NEW t \in Trees, \A f \in Changing(t) : ~Orphan(f)
               PROVE  Ready(t)
    BY DEF NeverSelfBlocked
  <2>1. TypeData /\ Mine = Paths /\ Honest(disk)
    BY Parts DEF RInv, Mine, Idle
  <2>2. /\ disk[Receipt] # Damaged /\ Rows = RowsOf(disk)
        /\ Rows \in [Files -> Row \cup {NoRow}]
    BY <2>1, DiskAt, Names DEF Honest, RowsOf, TypeData, Rows, NoRows, Value, Book
  <2>3. ASSUME NEW f \in Files, Rows[f] # NoRow PROVE AsInstalled(f) /\ Owned(f)
    <3>1. AsInstalled(f)
      BY <2>1, <2>2, <2>3, Names DEF Honest, AsInstalled
    <3>2. disk[f] \in File /\ disk[f].data = Rows[f].data
      BY <2>2, <2>3, <3>1 DEF AsInstalled, Row, File
    <3> QED
      BY <2>3, <3>1, <3>2, Names DEF Owned, Holds
  <2>4. ASSUME NEW f \in Planned(t) PROVE ~Blocked(f, t)
    <3>1. f \in Files
      BY DEF Planned
    <3>2. CASE Rows[f] # NoRow
      BY <2>2, <2>3, <3>1, <3>2 DEF Blocked, ReceiptError, LegacyError
    <3>3. CASE Rows[f] = NoRow /\ disk[f] # Absent
      <4>1. Holds(f, legacy[f])
        BY <2>1, <2>2, <3>1, <3>3, Names DEF Honest, Holds
      <4>2. Bootstrap(f) \/ disk[f] = t[f]
        BY <2>2, <3>3, <4>1 DEF Bootstrap, LegacyError, NoReceipt, Changing, Orphan
      <4> QED
        BY <2>2, <3>3, <4>2 DEF Blocked, ReceiptError, LegacyError
    <3>4. CASE Rows[f] = NoRow /\ disk[f] = Absent
      BY <2>2, <3>4 DEF Blocked, ReceiptError, LegacyError
    <3> QED
      BY <3>2, <3>3, <3>4
  <2> QED
    BY <2>2, <2>3, <2>4 DEF Ready, Kept, ReceiptError, LegacyError
<1> QED
  BY PathsInvariant, <1>1, PTL

(* A sync killed at any step can be undone or completed: every file it was *)
(* to change is as before or has its copy, or all are as planned.          *)
THEOREM KilledIsRecoverable == Spec => []KilledSyncRecoverable
<1>1. RInv => KilledSyncRecoverable
  BY DEF RInv
<1> QED
  BY PathsInvariant, <1>1, PTL

-----------------------------------------------------------------------------
(* Sync implements AtomicSync.                                             *)

tree == IF pending THEN snap.old ELSE disk
goal == IF pending THEN snap.new ELSE NoSnap

LEMMA StutterStep ==
  ASSUME UNCHANGED <<pending, touched>>,
         IF pending THEN snap'.old = snap.old /\ snap'.new = snap.new ELSE disk' = disk
  PROVE  UNCHANGED Atomic!aVars
BY DEF Atomic!aVars

(* Inside an apply nothing is seen from outside.                           *)
LEMMA InsideStep ==
  ASSUME RInv, NEW p \in Procs, pc[p] \in Applying \ {"snapshot"},
         SameSnap, UNCHANGED <<pending, touched>>
  PROVE  UNCHANGED Atomic!aVars
BY Applies, StutterStep DEF SameSnap

LEMMA OpenStep ==
  ASSUME RInv, NEW p \in Procs, Snapshot(p)
  PROVE  Atomic!ANext \/ UNCHANGED Atomic!aVars
<1>1. pc[p] = "snapshot" /\ pc[p] \in Applying /\ UNCHANGED <<disk, touched>>
  BY DEF Snapshot, Applying, history
<1>2. /\ ~pending /\ snap \in Snap
      /\ \A x \in Paths \ touched : disk[x] = snap.old[x]
  BY <1>1, Applies DEF ApplyAt, WayKnown, OthersKnown, Done, At, Placing, NoJob, Mine
<1>3. CASE UNCHANGED pending
  BY <1>1, <1>2, <1>3, StutterStep
<1>4. CASE snap' = [snap EXCEPT !.copies = Copied] /\ pending' = TRUE
  <2>1. snap'.old = snap.old /\ snap'.new \in Disk
    BY <1>2, <1>4 DEF Snap
  <2>2. snap'.new # NoSnap
    BY <2>1, ConstantsOK
  <2>3. Atomic!Open
    BY <1>1, <1>2, <1>4, <2>1, <2>2 DEF Atomic!Open, Atomic!Agree
  <2> QED
    BY <2>3 DEF Atomic!ANext
<1> QED
  BY <1>3, <1>4 DEF Snapshot

LEMMA CloseStep ==
  ASSUME RInv, NEW p \in Procs, RemoveMarker(p)
  PROVE  Atomic!ANext
<1>1. /\ pc[p] = "unmark" /\ pc[p] \in Applying /\ UNCHANGED <<disk, legacy, touched>>
      /\ pending' = FALSE
  BY DEF RemoveMarker, Applying, source, history
<1>2. pending /\ \A x \in Paths \ touched : disk[x] = Target(x)
  BY <1>1, Applies, DoneHonest DEF Mine
<1>3. \/ \A x \in Paths \ touched : disk[x] = snap.old[x]
      \/ \A x \in Paths \ touched : disk[x] = snap.new[x]
  BY <1>2 DEF Target
<1>4. Atomic!Close
  BY <1>1, <1>2, <1>3 DEF Atomic!Close, Atomic!Agree
<1> QED
  BY <1>4 DEF Atomic!ANext

(* A step at a path, or of the clearing up.                                *)
LEMMA QuietStep ==
  ASSUME RInv, NEW p \in Procs,
         \/ CheckFile(p) \/ LinkAside(p) \/ UnlinkPath(p) \/ InspectAside(p)
         \/ PutBack(p) \/ Place(p) \/ Chmod(p) \/ CheckPlaced(p) \/ CheckGone(p)
         \/ Verify(p) \/ ClearSnapshot(p) \/ Fault(p) \/ ClearFails(p)
  PROVE  UNCHANGED Atomic!aVars
<1>1. pc[p] \in Applying \ {"snapshot"} /\ UNCHANGED touched
  BY DEF CheckFile, LinkAside, UnlinkPath, InspectAside, PutBack, Place, Chmod, CheckPlaced,
         CheckGone, Verify, ClearSnapshot, Fault, ClearFails, Applying, history
<1>2. UNCHANGED pending
  <2>1. \A l : Onward(p, l) => UNCHANGED pending
    BY DEF Onward
  <2>2. \A x : ToFile(p, x) => UNCHANGED pending
    BY DEF ToFile
  <2>3. GiveUp(p) => UNCHANGED pending
    BY DEF GiveUp
  <2>4. \A e : Error(p, e) => UNCHANGED pending
    BY <2>3 DEF Error
  <2>5. Proceed(p) => UNCHANGED pending
    BY <2>1, <2>2, <2>3 DEF Proceed
  <2> QED
    BY <2>1, <2>2, <2>3, <2>4, <2>5
    DEF CheckFile, LinkAside, UnlinkPath, InspectAside, PutBack, Place, Chmod, CheckPlaced,
        CheckGone, Verify, ClearSnapshot, Fault, ClearFails
<1>3. snap' = snap \/ \E left \in SUBSET snap.copies : snap' = [snap EXCEPT !.copies = left]
  BY DEF CheckFile, LinkAside, UnlinkPath, InspectAside, PutBack, Place, Chmod, CheckPlaced,
         CheckGone, Verify, ClearSnapshot, Fault, ClearFails
<1>4. SameSnap
  BY <1>1, <1>3, Applies DEF SameSnap, Snap
<1> QED
  BY <1>1, <1>2, <1>4, InsideStep

LEMMA CrashStep ==
  ASSUME RInv, NEW p \in Procs, Crash(p)
  PROVE  UNCHANGED Atomic!aVars
<1>1. pc[p] \in Applying /\ UNCHANGED <<disk, pending, touched>>
  BY DEF Crash, history
<1>2. CASE pc[p] = "snapshot"
  BY <1>1, <1>2, Applies, StutterStep DEF ApplyAt, WayKnown
<1>3. CASE pc[p] # "snapshot"
  <2>1. snap' = snap \/ \E left \in SUBSET snap.copies : snap' = [snap EXCEPT !.copies = left]
    BY <1>3 DEF Crash
  <2>2. SameSnap
    BY <1>1, <2>1, Applies DEF SameSnap, Snap
  <2> QED
    BY <1>1, <1>3, <2>2, InsideStep
<1> QED
  BY <1>2, <1>3

LEMMA TouchStep ==
  ASSUME RInv, NEW x \in Paths, NEW v, NEW how, HandEdit(x, v, how)
  PROVE  Atomic!ANext
<1>1. disk \in Disk
  BY Parts DEF RInv, TypeData
<1>2. /\ UNCHANGED <<snap, pending>> /\ touched' = touched \cup {x}
      /\ disk' = [disk EXCEPT ![x] = v]
  BY DEF HandEdit
<1>3. \A y \in Paths \ {x} : disk'[y] = disk[y]
  BY <1>1, <1>2 DEF Disk
<1>4. Atomic!Touch
  BY <1>2, <1>3 DEF Atomic!Touch
<1> QED
  BY <1>4 DEF Atomic!ANext

LEMMA AtomicStep ==
  ASSUME RInv, [Next]_vars
  PROVE  [Atomic!ANext]_(Atomic!aVars)
<1>1. ASSUME NEW p \in Procs, Step(p) PROVE Atomic!ANext \/ UNCHANGED Atomic!aVars
  <2>1. CASE Begin(p)
    BY <2>1, StutterStep DEF Begin, Applicable, history
  <2>2. CASE Refuse(p)
    BY <2>2, StutterStep DEF Refuse, record, history
  <2> QED
    BY <1>1, <2>1, <2>2, OpenStep, CloseStep, QuietStep DEF Step
<1>2. ASSUME NEW p \in Procs, Preview(p) \/ Failure(p)
      PROVE  Atomic!ANext \/ UNCHANGED Atomic!aVars
  <2>1. CASE Preview(p)
    BY <2>1, StutterStep DEF Preview, record, history
  <2> QED
    BY <1>2, <2>1, QuietStep, CrashStep DEF Failure
<1>3. CASE User
  <2>1. ASSUME NEW t \in Trees, SourceChange(t) PROVE UNCHANGED Atomic!aVars
    BY <2>1, StutterStep DEF SourceChange, record, history
  <2>2. CASE MoveLegacyAside
    BY <2>2, StutterStep DEF MoveLegacyAside, record, history
  <2>3. CASE ClearMarker
    BY <2>3 DEF ClearMarker, Atomic!ANext, Atomic!Abandon
  <2> QED
    BY <1>3, <2>1, <2>2, <2>3, TouchStep, Names DEF User
<1>4. CASE UNCHANGED vars
  BY <1>4, StutterStep DEF vars, record, history
<1> QED
  BY <1>1, <1>2, <1>3, <1>4 DEF Next

(* Seen from outside, an apply changes the runtime files and the receipt   *)
(* together, or not at all, or leaves its marker.                          *)
THEOREM ImplementsAtomic == Spec => AtomicSpec
<1>1. Init => Atomic!AInit
  BY DEF Init, Atomic!AInit
<1>2. RInv /\ [Next]_vars => [Atomic!ANext]_(Atomic!aVars)
  BY AtomicStep
<1> QED
  BY PathsInvariant, <1>1, <1>2, PTL DEF Spec, AtomicSpec, Atomic!ASpec

=============================================================================
