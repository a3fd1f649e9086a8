-------------------------------- MODULE Sync --------------------------------
(***************************************************************************)
(* `agent-core sync`: it makes the files of the agents' runtimes what the  *)
(* private repository says (agent_core/sync.py, materializer.py).          *)
(*                                                                         *)
(* A preview reviews every runtime file against the materialization        *)
(* receipt, which records what sync has installed; it yields a plan only   *)
(* if every file to be changed is absent or is what sync installed.  An    *)
(* apply takes the operation lock, reviews again, copies what it will      *)
(* change into a snapshot, leaves a pending marker, and then changes one   *)
(* file at a time without replacing: the old file is moved aside by a link *)
(* and an unlink, looked at again, and the new one linked into the free    *)
(* name.  The receipt comes last, then the snapshot and the marker go.  An *)
(* error rolls back in the opposite order.  The user and other programs    *)
(* change the same files at any time, and the process may die at any time. *)
(***************************************************************************)
EXTENDS Naturals

CONSTANTS
  Procs,        \* processes that run sync
  N,            \* how many runtime files there are
  Data,         \* contents the repository may hold for a runtime file
  HandData,     \* contents only the user writes
  HandFiles,    \* bound: the files a hand edit may leave
  Trees,        \* bound: what successive commits may want
  Legacies,     \* what an install-receipt/1 may say: contents per file
  RaceWindows,  \* the windows in which a hand edit may fall, see InWindow
  MaxChanges, MaxEdits, MaxFaults, MaxCrashes,   \* bounds on those events
  Absent, Damaged, NoRow, NoData, NoSnap, NoPlan, NoProc

Files   == 1 .. N      \* in the order of the plan
Receipt == 0           \* materialization-receipt.json
Paths   == {Receipt} \cup Files
Dirs    == {"fwd", "back"}

File == [data : Data \cup HandData, exec : BOOLEAN]
Tree == [Files -> [data : Data, exec : BOOLEAN] \cup {Absent}]
Row  == [data : Data, exec : BOOLEAN, status : {"active", "retained"}]
Book == [rows : [Files -> Row \cup {NoRow}], head : Tree]

Value(x) == IF x = Receipt THEN Book \cup {Absent, Damaged} ELSE File \cup {Absent}
Disk     == {d \in [Paths -> File \cup Book \cup {Absent, Damaged}] :
               \A x \in Paths : d[x] \in Value(x)}

NoRows  == [f \in Files |-> NoRow]
NoAside == [d \in Dirs |-> [x \in Paths |-> Absent]]
NoJob   == [at |-> Receipt, dir |-> "fwd", err |-> "none"]

ASSUME ConstantsOK ==
  /\ N \in Nat \ {0}
  /\ MaxChanges \in Nat /\ MaxEdits \in Nat /\ MaxFaults \in Nat /\ MaxCrashes \in Nat
  /\ Data \cap HandData = {}
  /\ HandFiles \subseteq File
  /\ Trees \subseteq Tree /\ Trees # {}
  /\ Legacies \subseteq [Files -> Data \cup {NoData}] \cup {Damaged}
  /\ RaceWindows \subseteq {"unlink", "removal"}
  /\ NoData \notin Data \cup HandData
  /\ NoProc \notin Procs
  /\ Absent \notin File \cup Book \cup {Damaged}
  /\ Damaged \notin Book
  /\ NoRow \notin Row /\ NoSnap \notin Disk

VARIABLES
  disk,      \* disk[x]: the runtime file x, or the receipt
  want,      \* what the checked-out commit wants of each runtime file
  legacy,    \* the rows of an install-receipt/1
  pending,   \* whether txn/materialization-pending.json is there
  snap,      \* the snapshot: old and new values, what changes, the copies
  aside,     \* aside[d][x]: what that snapshot's directories hold of x
  stored,    \* contents left in the directories of older snapshots
  lock,      \* holder of the operation lock
  pc,        \* pc[p]: the next step of process p
  plan,      \* plan[p]: the plan p previewed
  job,       \* the lock holder's path, direction and first error
  hand,      \* history: hand[f], the foreign content last put there by hand
  touched,   \* history: paths ever changed by hand
  changes, edits, faults, crashes   \* how many of each there were

source  == <<want, legacy>>
record  == <<pending, snap, aside, stored>>
control == <<lock, pc, plan, job>>
history == <<hand, touched>>
counts  == <<changes, edits, faults, crashes>>
vars    == <<disk, source, record, control, history, counts>>

-----------------------------------------------------------------------------
(* The review: what may be done to each runtime file.                      *)

SameData(x, v, w) ==
  \/ v = w
  \/ x # Receipt /\ v # Absent /\ w # Absent /\ v.data = w.data

Rows == IF disk[Receipt] \in {Absent, Damaged} THEN NoRows ELSE disk[Receipt].rows

ReceiptError == disk[Receipt] = Damaged
NoReceipt    == disk[Receipt] = Absent
LegacyError  == NoReceipt /\ legacy = Damaged

Holds(f, d) == disk[f] # Absent /\ disk[f].data = d

(* The content is what an earlier sync, or before it the installer, left.  *)
Owned(f) == Rows[f] # NoRow /\ Holds(f, Rows[f].data)

Bootstrap(f) == NoReceipt /\ ~LegacyError /\ Holds(f, legacy[f])

(* Status foreign or indeterminate: action BLOCK.                          *)
Blocked(f, t) ==
  \/ ReceiptError \/ LegacyError
  \/ ~Owned(f) /\ Rows[f] # NoRow
  \/ /\ Rows[f] = NoRow /\ ~Bootstrap(f)
     /\ disk[f] # Absent /\ disk[f] # t[f]

Planned(t) == {f \in Files : t[f] # Absent}

(* A mutant: a file with the right bytes and the wrong mode is left alone. *)
ChangingBytes(t) == {f \in Planned(t) : ~SameData(f, disk[f], t[f])}

(* Actions WRITE and MODE; NOOP is for the rest.                           *)
Changing(t) == {f \in Planned(t) : disk[f] # t[f]}

(* Files that were installed and are no longer wanted stay, and stay owned.*)
Kept(t) == {f \in Files \ Planned(t) : Rows[f] # NoRow}

AsInstalled(f) == disk[f] = [data |-> Rows[f].data, exec |-> Rows[f].exec]

Ready(t) ==
  /\ ~ReceiptError /\ ~LegacyError
  /\ \A f \in Planned(t) : ~Blocked(f, t)
  /\ \A f \in Kept(t) : AsInstalled(f)

ActiveRow(v) == [data |-> v.data, exec |-> v.exec, status |-> "active"]

(* A mutant: files no longer wanted are forgotten.                         *)
NextBookForgets(t) ==
  [rows |-> [f \in Files |-> IF f \in Planned(t) THEN ActiveRow(t[f]) ELSE NoRow],
   head |-> t]

NextBook(t) ==
  [rows |-> [f \in Files |->
               IF f \in Planned(t) THEN ActiveRow(t[f])
               ELSE IF f \in Kept(t) THEN [Rows[f] EXCEPT !.status = "retained"]
               ELSE NoRow],
   head |-> t]

(* What the plan hash binds: the commit, the reviewed files, the receipt.  *)
Plan(t) == [want |-> t, receipt |-> disk[Receipt],
            before |-> [f \in Planned(t) |-> disk[f]]]

-----------------------------------------------------------------------------
(* Control of an apply.                                                    *)

Goto(p, l) == pc' = [pc EXCEPT ![p] = l]

(* The command ends, by success or by an error: the lock is released.      *)
Finish(p) == /\ Goto(p, "idle")
             /\ plan' = [plan EXCEPT ![p] = NoPlan]
             /\ lock' = NoProc
             /\ job' = NoJob

(* A mutant: an apply that gives up takes its marker with it.              *)
GiveUpClears(p) == Finish(p) /\ pending' = FALSE

(* The rollback itself fails: marker and snapshot are left for the user.   *)
GiveUp(p) == Finish(p) /\ UNCHANGED pending

ToFile(p, x) == /\ job' = [job EXCEPT !.at = x]
                /\ Goto(p, "check")
                /\ UNCHANGED <<lock, plan, pending>>

Onward(p, l) == Goto(p, l) /\ UNCHANGED <<lock, plan, job, pending>>

(* The one of these files that comes first in a direction.                 *)
First(S, d) == {x \in S : \A y \in S : IF d = "fwd" THEN x <= y ELSE x >= y}

Later == {f \in snap.changed : IF job.dir = "fwd" THEN f > job.at ELSE f < job.at}

(* A mutant: the rollback ends with the runtime files.                     *)
ProceedFilesOnly(p) ==
  \/ job.at # Receipt /\ \E x \in First(Later, job.dir) : ToFile(p, x)
  \/ job.at # Receipt /\ Later = {} /\ job.dir = "fwd" /\ Onward(p, "verify")
  \/ job.at # Receipt /\ Later = {} /\ job.dir = "back" /\ Onward(p, "clear")
  \/ job.at = Receipt /\ job.err # "race" /\ Onward(p, "clear")
  \/ job.at = Receipt /\ job.err = "race" /\ GiveUp(p)

(* The path is dealt with.  Forward, all files are verified before the     *)
(* receipt is published; back, the receipt comes last as well.  After a    *)
(* race the snapshot is kept even if the rollback succeeds.                *)
Proceed(p) ==
  \/ job.at # Receipt /\ \E x \in First(Later, job.dir) : ToFile(p, x)
  \/ job.at # Receipt /\ Later = {} /\ job.dir = "fwd" /\ Onward(p, "verify")
  \/ job.at # Receipt /\ Later = {} /\ job.dir = "back" /\ ToFile(p, Receipt)
  \/ job.at = Receipt /\ job.err # "race" /\ Onward(p, "clear")
  \/ job.at = Receipt /\ job.err = "race" /\ GiveUp(p)

LastChanged == IF snap.changed = {} THEN {Receipt} ELSE First(snap.changed, "back")

(* A mutant: the rollback starts one record past the last.                 *)
ErrorPastEnd(p, e) ==
  \/ /\ job.dir = "fwd"
     /\ \E x \in LastChanged : job' = [at |-> x + 1, dir |-> "back", err |-> e]
     /\ Goto(p, "check")
     /\ UNCHANGED <<lock, plan, pending>>
  \/ job.dir = "back" /\ GiveUp(p)

(* An exception: forward it starts the rollback, in the rollback it ends   *)
(* the command.                                                            *)
Error(p, e) ==
  \/ /\ job.dir = "fwd"
     /\ \E x \in LastChanged : job' = [at |-> x, dir |-> "back", err |-> e]
     /\ Goto(p, "check")
     /\ UNCHANGED <<lock, plan, pending>>
  \/ job.dir = "back" /\ GiveUp(p)

Before(x) == IF job.dir = "fwd" THEN snap.old[x] ELSE snap.new[x]
Target(x) == IF job.dir = "fwd" THEN snap.new[x] ELSE snap.old[x]

(* The rollback removes a file that the apply created.                     *)
Removing(x) == job.dir = "back" /\ snap.old[x] = Absent

-----------------------------------------------------------------------------
(* The commands.                                                           *)

Preview(p) ==
  /\ pc[p] = "idle"
  /\ ~pending /\ Ready(want)
  /\ plan' = [plan EXCEPT ![p] = Plan(want)]
  /\ Goto(p, "previewed")
  /\ UNCHANGED <<disk, source, record, lock, job, history, counts>>

Applicable(p) == ~pending /\ Ready(want) /\ plan[p] = Plan(want)

Begin(p) ==
  LET book == NextBook(want)
      new  == [x \in Paths |-> IF x = Receipt THEN book
                               ELSE IF x \in Planned(want) THEN want[x] ELSE disk[x]]
  IN
  /\ pc[p] = "previewed" /\ lock = NoProc
  /\ Applicable(p)
  /\ IF Changing(want) = {} /\ book = disk[Receipt]
       THEN Finish(p) /\ UNCHANGED snap
       ELSE /\ snap' = [old |-> disk, new |-> new, changed |-> Changing(want),
                        copies |-> {}]
            /\ lock' = p
            /\ Goto(p, "snapshot")
            /\ UNCHANGED <<plan, job>>
  /\ UNCHANGED <<disk, source, pending, aside, stored, history, counts>>

(* FAIL_LOCKED, FAIL_MATERIALIZATION_RECOVERY, FAIL_PLAN_HASH.             *)
Refuse(p) ==
  /\ pc[p] = "previewed"
  /\ lock # NoProc \/ ~Applicable(p)
  /\ Goto(p, "idle")
  /\ plan' = [plan EXCEPT ![p] = NoPlan]
  /\ UNCHANGED <<disk, source, record, lock, job, history, counts>>

(* A mutant: only the files that are rewritten are copied.                 *)
CopiedRewritten ==
  {x \in snap.changed \cup {Receipt} :
     snap.old[x] # Absent /\ ~SameData(x, snap.old[x], snap.new[x])}

Copied == {x \in snap.changed \cup {Receipt} : snap.old[x] # Absent}

(* Copies first, the marker last; a file that changed since the review     *)
(* ends the command with nothing done.                                     *)
Snapshot(p) ==
  /\ pc[p] = "snapshot"
  /\ IF \A x \in snap.changed \cup Copied : disk[x] = snap.old[x]
       THEN /\ snap' = [snap EXCEPT !.copies = Copied]
            /\ pending' = TRUE
            /\ IF snap.changed = {} THEN Goto(p, "verify") /\ UNCHANGED job
               ELSE /\ Goto(p, "check")
                    /\ \E x \in First(snap.changed, "fwd") : job' = [job EXCEPT !.at = x]
            /\ UNCHANGED <<lock, plan>>
       ELSE /\ Finish(p)
            /\ snap' = NoSnap
            /\ UNCHANGED pending
  /\ UNCHANGED <<disk, source, aside, stored, history, counts>>

(* The file is looked at before anything is done to it.  Forward it must   *)
(* be as reviewed.  Back, a file that is as before is skipped, and any     *)
(* other must be as this apply left it (its mode aside if it is removed)   *)
(* and, unless it is removed, have its copy.                               *)
AsReviewed(x) == disk[x] = snap.old[x]

AsPlaced(x) == IF snap.old[x] = Absent THEN SameData(x, disk[x], snap.new[x])
               ELSE disk[x] = snap.new[x] /\ x \in snap.copies

FirstStep(x) ==
  IF Before(x) = Absent THEN "place"
  ELSE IF x # Receipt /\ ~Removing(x) /\ SameData(x, Before(x), Target(x)) THEN "chmod"
  ELSE "detach"

CheckFile(p) ==
  LET x == job.at IN
  /\ pc[p] = "check"
  /\ \/ job.dir = "fwd" /\ AsReviewed(x) /\ Onward(p, FirstStep(x))
     \/ job.dir = "fwd" /\ ~AsReviewed(x) /\ Error(p, "other")
     \/ job.dir = "back" /\ AsReviewed(x) /\ Proceed(p)
     \/ job.dir = "back" /\ ~AsReviewed(x) /\ AsPlaced(x) /\ Onward(p, FirstStep(x))
     \/ job.dir = "back" /\ ~AsReviewed(x) /\ ~AsPlaced(x) /\ GiveUp(p)
  /\ UNCHANGED <<disk, source, snap, aside, stored, history, counts>>

(* os.link(path, detached)                                                 *)
LinkAside(p) ==
  LET x == job.at IN
  /\ pc[p] = "detach"
  /\ \/ /\ disk[x] # Absent
        /\ aside' = [aside EXCEPT ![job.dir][x] = disk[x]]
        /\ Onward(p, "unlink")
     \/ disk[x] = Absent /\ Error(p, "race") /\ UNCHANGED aside
  /\ UNCHANGED <<disk, source, snap, stored, history, counts>>

(* path.unlink(), whatever is there by now.                                *)
UnlinkPath(p) ==
  LET x == job.at IN
  /\ pc[p] = "unlink"
  /\ \/ /\ disk[x] # Absent
        /\ disk' = [disk EXCEPT ![x] = Absent]
        /\ Onward(p, IF Removing(x) THEN "gone" ELSE "inspect")
     \/ disk[x] = Absent /\ Error(p, "race") /\ UNCHANGED disk
  /\ UNCHANGED <<source, snap, aside, stored, history, counts>>

(* A mutant: what was moved aside is not looked at.                        *)
InspectAsideTrusts(p) ==
  /\ pc[p] = "inspect"
  /\ Onward(p, "place")
  /\ UNCHANGED <<disk, source, snap, aside, stored, history, counts>>

InspectAside(p) ==
  LET x == job.at IN
  /\ pc[p] = "inspect"
  /\ Onward(p, IF SameData(x, aside[job.dir][x], Before(x)) THEN "place" ELSE "putback")
  /\ UNCHANGED <<disk, source, snap, aside, stored, history, counts>>

(* Back under its name if that is still free, else it stays aside.         *)
PutBack(p) ==
  LET x == job.at IN
  /\ pc[p] = "putback"
  /\ \/ /\ disk[x] = Absent
        /\ disk' = [disk EXCEPT ![x] = aside[job.dir][x]]
        /\ aside' = [aside EXCEPT ![job.dir][x] = Absent]
     \/ disk[x] # Absent /\ UNCHANGED <<disk, aside>>
  /\ Error(p, "race")
  /\ UNCHANGED <<source, snap, stored, history, counts>>

(* os.link(staged, path): never onto a file.                               *)
Place(p) ==
  LET x == job.at IN
  /\ pc[p] = "place"
  /\ \/ /\ disk[x] = Absent
        /\ disk' = [disk EXCEPT ![x] = Target(x)]
        /\ Onward(p, "placed")
     \/ disk[x] # Absent /\ Error(p, "race") /\ UNCHANGED disk
  /\ UNCHANGED <<source, snap, aside, stored, history, counts>>

Chmod(p) ==
  LET x == job.at IN
  /\ pc[p] = "chmod"
  /\ \/ /\ disk[x] # Absent
        /\ disk' = [disk EXCEPT ![x].exec = Target(x).exec]
        /\ Onward(p, "placed")
     \/ disk[x] = Absent /\ Error(p, "race") /\ UNCHANGED disk
  /\ UNCHANGED <<source, snap, aside, stored, history, counts>>

CheckPlaced(p) ==
  LET x == job.at IN
  /\ pc[p] = "placed"
  /\ \/ disk[x] = Target(x) /\ Proceed(p)
     \/ disk[x] # Target(x) /\ Error(p, "race")
  /\ UNCHANGED <<disk, source, snap, aside, stored, history, counts>>

CheckGone(p) ==
  LET x == job.at IN
  /\ pc[p] = "gone"
  /\ \/ disk[x] = Absent /\ Proceed(p)
     \/ disk[x] # Absent /\ Error(p, "race")
  /\ UNCHANGED <<disk, source, snap, aside, stored, history, counts>>

(* Every file of the plan, retained ones included, must be as planned.     *)
Verify(p) ==
  LET listed == {f \in Files : snap.new[Receipt].rows[f] # NoRow}
      good   == \A f \in listed : disk[f] = snap.new[f]
      publish == snap.new[Receipt] # snap.old[Receipt]
  IN
  /\ pc[p] = "verify"
  /\ \/ good /\ publish /\ ToFile(p, Receipt)
     \/ good /\ ~publish /\ Onward(p, "clear")
     \/ ~good /\ Error(p, "other")
  /\ UNCHANGED <<disk, source, snap, aside, stored, history, counts>>

(* shutil.rmtree(snapshot)                                                 *)
ClearSnapshot(p) ==
  /\ pc[p] = "clear"
  /\ snap' = [snap EXCEPT !.copies = {}]
  /\ aside' = NoAside
  /\ Onward(p, "unmark")
  /\ UNCHANGED <<disk, source, stored, history, counts>>

RemoveMarker(p) ==
  /\ pc[p] = "unmark"
  /\ Finish(p)
  /\ pending' = FALSE
  /\ snap' = NoSnap
  /\ UNCHANGED <<disk, source, aside, stored, history, counts>>

-----------------------------------------------------------------------------
(* Faults.                                                                 *)

Applying == {"snapshot", "check", "detach", "unlink", "inspect", "putback",
             "place", "placed", "chmod", "gone", "verify", "clear", "unmark"}

(* A file operation fails; those of a move and of a chmod count as races.  *)
Fault(p) ==
  /\ pc[p] \in Applying \ {"snapshot", "clear"}
  /\ faults < MaxFaults
  /\ faults' = faults + 1
  /\ Error(p, IF pc[p] \in {"check", "inspect", "placed", "gone", "verify", "unmark"}
                THEN "other" ELSE "race")
  /\ UNCHANGED <<disk, source, snap, aside, stored, history,
                 changes, edits, crashes>>

(* The removal of the snapshot fails half way.                             *)
ClearFails(p) ==
  /\ pc[p] = "clear"
  /\ faults < MaxFaults
  /\ faults' = faults + 1
  /\ \E left \in SUBSET snap.copies : snap' = [snap EXCEPT !.copies = left]
  /\ aside' = NoAside
  /\ Error(p, "other")
  /\ UNCHANGED <<disk, source, stored, history, changes, edits, crashes>>

(* The process dies; the system frees its lock and nothing else happens.   *)
Crash(p) ==
  /\ pc[p] \in Applying
  /\ crashes < MaxCrashes
  /\ crashes' = crashes + 1
  /\ Finish(p)
  /\ \/ pc[p] = "snapshot" /\ snap' = NoSnap /\ UNCHANGED aside
     \/ pc[p] \notin {"snapshot", "clear"} /\ UNCHANGED <<snap, aside>>
     \/ /\ pc[p] = "clear"
        /\ \E left \in SUBSET snap.copies : snap' = [snap EXCEPT !.copies = left]
        /\ aside' \in {aside, NoAside}
  /\ UNCHANGED <<disk, source, pending, stored, history, changes, edits, faults>>

-----------------------------------------------------------------------------
(* The user and other programs, who take no lock.                          *)

Working(step) == \E p \in Procs : pc[p] = step

(* The two windows in which the code cannot notice a file put in its way.  *)
(* "unlink": another file takes the name after the old one was linked      *)
(* aside and before the unlink.  "removal": the file the rollback is about *)
(* to remove changes after it was looked at, and is moved aside unseen.    *)
InWindow(x, how) ==
  \/ /\ Working("unlink") /\ x = job.at /\ how = "replace"
     /\ "unlink" \notin RaceWindows
  \/ /\ Working("detach") \/ (Working("unlink") /\ how = "inplace")
     /\ x = job.at /\ Removing(x)
     /\ "removal" \notin RaceWindows

(* Another file takes the name, or the file itself is written: then a      *)
(* second link to it shows the same.                                       *)
HandEdit(x, v, how) ==
  /\ edits < MaxEdits
  /\ edits' = edits + 1
  /\ v # disk[x]
  /\ how = "inplace" => v # Absent /\ disk[x] # Absent
  /\ v # Absent => ~InWindow(x, how)
  /\ disk' = [disk EXCEPT ![x] = v]
  /\ aside' = IF how = "inplace" /\ Working("unlink") /\ x = job.at
                 THEN [aside EXCEPT ![job.dir][x] = v] ELSE aside
  /\ touched' = touched \cup {x}
  /\ hand' = IF x = Receipt THEN hand
             ELSE [hand EXCEPT ![x] = IF v # Absent /\ v.data \in HandData
                                        THEN v.data ELSE NoData]
  /\ UNCHANGED <<source, pending, snap, stored, control, changes, faults, crashes>>

(* A new commit is checked out.                                            *)
SourceChange(t) ==
  /\ changes < MaxChanges
  /\ changes' = changes + 1
  /\ want # t
  /\ want' = t
  /\ UNCHANGED <<disk, legacy, record, control, history, edits, faults, crashes>>

(* "move aside install-receipt.json, then rerun the plan"                  *)
MoveLegacyAside ==
  /\ legacy = Damaged
  /\ legacy' = [f \in Files |-> NoData]
  /\ UNCHANGED <<disk, want, record, control, history, counts>>

(* "inspect and clear pending marker before replanning": the user takes    *)
(* responsibility for every path, with the old snapshot still there.       *)
ClearMarker ==
  /\ pending /\ lock = NoProc
  /\ pending' = FALSE
  /\ snap' = NoSnap
  /\ stored' = stored \cup
       UNION {{aside[d][f].data : f \in {g \in Files : aside[d][g] # Absent}} : d \in Dirs}
  /\ aside' = NoAside
  /\ touched' = Paths
  /\ UNCHANGED <<disk, source, control, hand, counts>>

-----------------------------------------------------------------------------
Init ==
  /\ legacy \in Legacies
  /\ want \in Trees
  /\ disk = [x \in Paths |->
               IF x # Receipt /\ legacy # Damaged /\ legacy[x] # NoData
                 THEN [data |-> legacy[x], exec |-> FALSE] ELSE Absent]
  /\ pending = FALSE /\ snap = NoSnap
  /\ aside = NoAside /\ stored = {}
  /\ lock = NoProc /\ job = NoJob
  /\ pc = [p \in Procs |-> "idle"]
  /\ plan = [p \in Procs |-> NoPlan]
  /\ hand = [f \in Files |-> NoData] /\ touched = {}
  /\ changes = 0 /\ edits = 0 /\ faults = 0 /\ crashes = 0

Step(p) ==
  \/ Begin(p) \/ Refuse(p) \/ Snapshot(p) \/ CheckFile(p)
  \/ LinkAside(p) \/ UnlinkPath(p) \/ InspectAside(p) \/ PutBack(p)
  \/ Place(p) \/ Chmod(p) \/ CheckPlaced(p) \/ CheckGone(p)
  \/ Verify(p) \/ ClearSnapshot(p) \/ RemoveMarker(p)

Failure(p) == Fault(p) \/ ClearFails(p) \/ Crash(p)

User ==
  \/ \E x \in Files, v \in HandFiles \cup {Absent}, how \in {"replace", "inplace"} :
        HandEdit(x, v, how)
  \/ \E v \in {Absent, Damaged} : HandEdit(Receipt, v, "replace")
  \/ \E t \in Trees : SourceChange(t)
  \/ MoveLegacyAside \/ ClearMarker

Next == (\E p \in Procs : Preview(p) \/ Step(p) \/ Failure(p)) \/ User

Spec == Init /\ [][Next]_vars

(* An approved apply neither waits nor stalls, and the user keeps asking   *)
(* for the next sync.                                                      *)
FairSpec == Spec /\ \A p \in Procs : WF_vars(Preview(p)) /\ WF_vars(Step(p))

-----------------------------------------------------------------------------
(* Correctness.                                                            *)

Steps == {"idle", "previewed"} \cup Applying

Snap == [old : Disk, new : Disk, changed : SUBSET Files, copies : SUBSET Paths]

Plans == [want : Tree, receipt : Value(Receipt),
          before : UNION {[F -> File \cup {Absent}] : F \in SUBSET Files}]

TypeOK ==
  /\ disk \in Disk
  /\ want \in Tree
  /\ legacy \in [Files -> Data \cup {NoData}] \cup {Damaged}
  /\ pending \in BOOLEAN
  /\ snap \in Snap \cup {NoSnap}
  /\ aside \in [Dirs -> Disk]
  /\ stored \subseteq Data \cup HandData
  /\ lock \in Procs \cup {NoProc}
  /\ pc \in [Procs -> Steps]
  /\ plan \in [Procs -> Plans \cup {NoPlan}]
  /\ job \in [at : Paths, dir : Dirs, err : {"none", "other", "race"}]
  /\ hand \in [Files -> HandData \cup {NoData}]
  /\ touched \subseteq Paths
  /\ changes \in 0 .. MaxChanges /\ edits \in 0 .. MaxEdits
  /\ faults \in 0 .. MaxFaults /\ crashes \in 0 .. MaxCrashes

(* When no apply runs and none was cut off, the receipt tells the truth    *)
(* about every file nobody else has changed: it is there, with the content *)
(* and the mode recorded.  An error at any step of an apply, and one in    *)
(* the rollback or in the clearing up that follows, must not change that.  *)
ReceiptTrue ==
  lock = NoProc /\ ~pending =>
     \A f \in Files \ touched :
        Receipt \notin touched /\ Rows[f] # NoRow => AsInstalled(f)

(* Content the user put under a runtime file's name outside the two        *)
(* windows (see InWindow), before or inside an apply or its rollback, is   *)
(* never lost: it is under that name until the user changes it, or moved   *)
(* aside and kept.  In each of the windows the code loses it.              *)
HandKept ==
  \A f \in Files : hand[f] # NoData =>
     \/ Holds(f, hand[f])
     \/ \E d \in Dirs : aside[d][f] # Absent /\ aside[d][f].data = hand[f]
     \/ hand[f] \in stored

(* A file that an install-receipt/1 vouches for, but that the commit of the *)
(* first sync did not want: the receipt has no row of it, so it is foreign.*)
Orphan(f) == /\ disk[Receipt] \notin {Absent, Damaged} /\ Rows[f] = NoRow
             /\ legacy # Damaged /\ Holds(f, legacy[f])

(* Sync never stands in its own way: when nobody else has changed a file,  *)
(* whatever the commits wanted so far and whichever applies failed, the    *)
(* next plan is ready, unless it wants an orphan to change.                *)
NeverSelfBlocked ==
  lock = NoProc /\ ~pending /\ touched = {} /\ legacy # Damaged =>
     \A t \in Trees : Ready(t) \/ \E f \in Changing(t) : Orphan(f)

(* A sync killed at any moment can be undone or completed by hand: for     *)
(* every file it was to change, the old one is in place or has its copy,   *)
(* or else all of the new ones are in place.                               *)
KilledSyncRecoverable ==
  pending /\ faults = 0 /\ touched = {} =>
     \/ \A x \in snap.changed \cup {Receipt} :
           disk[x] = snap.old[x] \/ snap.old[x] = Absent \/ x \in snap.copies
     \/ \A x \in Paths : disk[x] = snap.new[x]

(* README.md: if an error occurs on the way, the files already written are *)
(* restored.                                                               *)
RollbackRestores ==
  [][\A p \in Procs :
       lock = p /\ job.dir = "back" /\ lock' = NoProc /\ crashes' = crashes =>
          \A x \in snap.changed : disk'[x] = snap.old[x]]_vars

(* All or nothing: seen from outside, an apply changes the runtime files   *)
(* and the receipt together, or not at all, or leaves its marker.          *)
Atomic == INSTANCE AtomicSync
            WITH tree <- IF pending THEN snap.old ELSE disk,
                 goal <- IF pending THEN snap.new ELSE NoSnap,
                 open <- pending,
                 NoGoal <- NoSnap

AtomicSpec == Atomic!ASpec

(* What `doctor` asks of the runtime (doctor_materialization_receipt).     *)
DoctorPasses ==
  /\ ~pending /\ ~NoReceipt /\ ~ReceiptError
  /\ \A f \in Planned(want) : Rows[f] = ActiveRow(want[f]) /\ disk[f] = want[f]
  /\ \A f \in Files \ Planned(want) :
        Rows[f] # NoRow => Rows[f].status = "retained" /\ AsInstalled(f)

(* Whoever keeps running sync gets a runtime that doctor passes, unless a  *)
(* cut-off apply, a file changed by hand or an orphan waits for the user.  *)
EventuallyHealthy ==
  <>[](\/ pending \/ touched # {} \/ legacy = Damaged
       \/ \E f \in Changing(want) : Orphan(f)
       \/ DoctorPasses)

-----------------------------------------------------------------------------
(* The inductive invariant behind TypeOK and HandKept.                     *)

(* Steps at one path.                                                      *)
Placing == {"check", "detach", "unlink", "inspect", "putback", "place",
            "placed", "chmod", "gone"}

(* Exactly the process inside an apply holds the operation lock.           *)
LockOwner == \A p \in Procs : pc[p] \in Applying <=> lock = p

(* What an apply knows at each of its steps.                               *)
ApplyKnows ==
  \A p \in Procs :
    /\ pc[p] \in Applying => snap \in Snap
    /\ pc[p] \in Applying \ {"snapshot"} => pending
    /\ pc[p] \in Placing => job.at \in snap.changed \cup {Receipt}
    /\ pc[p] \in {"detach", "unlink", "inspect", "putback"} => Before(job.at) # Absent
    /\ pc[p] = "chmod" => job.at # Receipt /\ Target(job.at) # Absent

Foreign(v) == v # Absent /\ v.data \in HandData

(* Only own files are changed, and only to what the repository wants.      *)
SnapClean ==
  lock # NoProc =>
     \A f \in snap.changed : /\ ~Foreign(snap.old[f])
                             /\ snap.new[f] # Absent /\ ~Foreign(snap.new[f])

HandHere(f) == hand[f] # NoData /\ Holds(f, hand[f])

HandAside(d, f) == aside[d][f] # Absent /\ aside[d][f].data = hand[f]

(* At the unlink, what is about to lose its name has its other link; what  *)
(* the rollback removes is not foreign.                                    *)
UnlinkSafe ==
  \A p \in Procs : job.at \in Files =>
    /\ pc[p] = "unlink" /\ HandHere(job.at) => HandAside(job.dir, job.at)
    /\ pc[p] \in {"detach", "unlink"} /\ Removing(job.at) => ~HandHere(job.at)

(* Foreign content that is not under its name.                             *)
Missing(f) == hand[f] # NoData /\ ~Holds(f, hand[f]) /\ hand[f] \notin stored

(* It is aside, and the apply that moved it there is still looking at it,  *)
(* or is on a way back that cannot get past it, or has ended.              *)
MissingAside ==
  \A f \in Files : Missing(f) =>
    /\ pending /\ disk[f] = Absent
    /\ \E d \in Dirs : HandAside(d, f)

MissingHeld ==
  \A f \in Files, p \in Procs : Missing(f) /\ lock = p =>
    \/ pc[p] \in {"inspect", "putback"} /\ job.at = f /\ HandAside(job.dir, f)
    \/ /\ pc[p] \in Placing /\ job.dir = "back"
       /\ f \in snap.changed /\ snap.old[f] # Absent
       /\ f < job.at \/ (f = job.at /\ pc[p] = "check")

CInv == TypeOK /\ LockOwner /\ ApplyKnows

IInv == CInv /\ SnapClean /\ UnlinkSafe /\ MissingAside /\ MissingHeld
=============================================================================
