----------------------------- MODULE Installer -----------------------------
(***************************************************************************)
(* `agent-core install` (agent_core/installer.py, with the hook merge of   *)
(* runtime_config.py and the runtime review of materializer.py).           *)
(*                                                                         *)
(* The command is previewed, confirmed, and run under the operation lock.  *)
(* It writes files of several owners: the tool itself and the pin that     *)
(* selects it (owned by the install receipt), the runtime files (owned by  *)
(* the materialization receipt, which `sync` also writes), a group of      *)
(* hooks inside a configuration the user edits too, the state binding, the *)
(* remembered remote and the two receipts.  Before the first write it      *)
(* takes a snapshot and leaves a pending marker; on an error it takes back *)
(* what it wrote, in another order, and on a race with the user it keeps   *)
(* snapshot and marker.  A kill leaves both, and every later installation  *)
(* and sync is refused until the user has looked.  The user edits and      *)
(* moves files at any time: the lock does not hold them back.              *)
(***************************************************************************)
EXTENDS Naturals, Sequences, SequencesExt, FiniteSets

CONSTANTS
  MaxVersion,   \* bound on releases
  MaxEdits,     \* bound on what the user does to the files
  MaxFaults,    \* bound on errors that are nobody's edit
  MaxCrashes,   \* bound on kills
  HandWindows,  \* the windows in which the user may act, see HandFree
  Absent, NoPlan, NoJob, NoSnap

Versions == 1..MaxVersion
Notes    == 0..MaxEdits
Windows  == {"config", "remove", "unlink"}
Objects  == {"tool", "runtime", "pin"}
Mine     == Objects \cup {"hooks"}        \* what an installation places
Paths    == Mine \cup {"config", "binding", "known", "mat", "rec"}

Traces   == Paths \cup {"group"}         \* "group": the owned hook group

(* A file is known by the releases whose bytes it holds, in order (several *)
(* only for hook groups), and the last edit of the user it has (0: none).  *)
(* A binding or a receipt has the edit of the configuration it was made    *)
(* under.                                                                  *)
Content == [own : Seq(Versions), user : Notes]
Disk    == [Paths -> Content \cup {Absent}]
Snaps   == [old : Disk, new : Disk]

(* A running installation: the steps still to do, the direction, the error *)
(* so far; whether it publishes the baseline only or binds the state; what *)
(* was touched before it; and what it has just moved aside.                *)
Jobs == [todo : Seq(Paths \cup {"verify", "host"}), dir : {"fwd", "back"},
         err : {"none", "other", "race"}, only : BOOLEAN, rebind : BOOLEAN,
         was : SUBSET Traces, got : Content \cup {Absent}]

ASSUME BoundsOK ==
  /\ MaxVersion \in Nat \ {0}
  /\ MaxEdits \in Nat /\ MaxFaults \in Nat /\ MaxCrashes \in Nat
  /\ HandWindows \subseteq Windows
  /\ Absent \notin Content /\ NoJob \notin Jobs

VARIABLES
  disk,     \* disk[x]: the content of a path, or Absent
  want,     \* the release and the commit of the repository to install
  pending,  \* install-pending.json
  snap,     \* the snapshot the marker names: preimages and desired images
  aside,    \* the edits of the user that this snapshot holds
  plan,     \* what the hash of the confirmed preview binds
  job,      \* the running installation: what is left to do, direction, error
  pc,       \* its next step
  hand,     \* history: hand[x], the edits at x the user did not take back
  touched,  \* history: paths no installation has settled since they were touched
  torn,     \* history: the release whose first installation was cut off
  stash,    \* history: the edits held by earlier snapshots that were kept
  edits, faults, crashes  \* how many there were

world   == <<disk, want>>
record  == <<pending, snap, aside>>
control == <<plan, job, pc>>
history == <<hand, touched, torn, stash>>
counts  == <<edits, faults, crashes>>
vars    == <<world, record, control, history, counts>>

-----------------------------------------------------------------------------
(* The review.                                                             *)

Of(v)          == [own |-> <<v>>, user |-> 0]
Made(v, n)     == [own |-> <<v>>, user |-> n]
Note           == disk["config"].user
Bound          == [own |-> <<>>, user |-> Note]
BindingPending == disk["binding"] # Bound

(* The release a receipt was written for, as a set of at most one.         *)
Release(x) == IF disk[x] = Absent THEN {} ELSE ToSet(disk[x].own)

(* A file of the tool may be replaced if it is as some receipt says.       *)
BlockedTool(x) ==
  disk[x] \notin {Absent, Of(want)} \cup {Of(v) : v \in Release("rec")}

(* Without a materialization receipt the install receipt stands in, if it  *)
(* was written under the present configuration and state lock.             *)
BlockedRuntime ==
  \/ disk["mat"] # Absent /\ \A v \in Release("mat") : disk["runtime"] # Of(v)
  \/ /\ disk["mat"] = Absent
     /\ \/ disk["rec"] \notin {Absent, Made(want, Note)}
        \/ disk["runtime"] \notin {Absent, Of(want)}

(* The edit of the user that a path holds.                                 *)
Left(x) == IF disk[x] = Absent THEN 0 ELSE disk[x].user

Groups   == IF disk["hooks"] = Absent THEN <<>> ELSE disk["hooks"].own
HasEvent == Groups # <<>> \/ Left("hooks") # 0
At(v)    == {i \in DOMAIN Groups : Groups[i] = v}

(* A mutant: a hook group nobody owns is never adopted.                    *)
BlockedHooksUnowned ==
  \/ HasEvent /\ \E v \in Release("rec") : Cardinality(At(v)) # 1
  \/ disk["rec"] = Absent /\ At(want) # {}

(* An owned group must be there exactly once, an unowned one of the same   *)
(* text is adopted only if it is there exactly once.                       *)
BlockedHooks ==
  \/ HasEvent /\ \E v \in Release("rec") : Cardinality(At(v)) # 1
  \/ disk["rec"] = Absent /\ Cardinality(At(want)) > 1

(* merge_owned_hooks: the owned group is replaced in its place, otherwise  *)
(* one is appended; the groups of the user stay.                           *)
Merged ==
  [own |-> IF \E v \in Release("rec") : At(v) # {}
             THEN [i \in DOMAIN Groups |->
                     IF Groups[i] \in Release("rec") THEN want ELSE Groups[i]]
           ELSE IF disk["rec"] = Absent /\ At(want) # {} THEN Groups
           ELSE Append(Groups, want),
   user |-> Left("hooks")]

Ready ==
  /\ ~pending
  /\ \A x \in {"tool", "pin"} : ~BlockedTool(x)
  /\ ~BlockedRuntime /\ ~BlockedHooks

(* What the installation will make of each path.                           *)
Desired ==
  [x \in Paths |->
     CASE x \in Objects \cup {"known"} -> Of(want)
       [] x = "hooks"                  -> Merged
       [] x \in {"mat", "rec"}         -> Made(want, Note)
       [] x = "binding"                -> Bound
       [] OTHER                        -> disk[x]]

NoChanges ==
  /\ Release("rec") = {want}
  /\ \A x \in Mine \cup {"mat"} : disk[x] = Desired[x]

Plan == [want |-> want, disk |-> disk]

(* For the history: hook groups that no receipt knows as owned (it was     *)
(* moved away, or the installation killed before it was written) and that  *)
(* are not those to be installed.  They stay, and another is added.        *)
Stray == \/ Len(Groups) > 1
         \/ disk["rec"] = Absent /\ Groups \notin {<<>>, <<want>>}

-----------------------------------------------------------------------------
(* Control of an installation.                                             *)

Placing == <<"binding", "known", "tool", "runtime", "hooks",
             "verify", "pin", "verify", "mat", "rec">>
Undoing == <<"hooks", "pin", "runtime", "tool", "rec", "mat", "host", "known">>

Idle == job = NoJob
At1  == Head(job.todo)

Goto(l) == pc' = l /\ UNCHANGED job

(* On to the next path; after the last one the marker is cleared.          *)
Proceed == /\ job' = [job EXCEPT !.todo = Tail(@)]
           /\ pc' = IF Len(job.todo) = 1 THEN "clear" ELSE "check"

(* A mutant: the command ends and keeps the lock.                          *)
EndHolds(keeps) ==
  /\ UNCHANGED <<job, stash, aside, snap>> /\ pc' = "idle"

(* The command ends; the snapshot is kept or thrown away.                  *)
End(keeps) ==
  /\ job' = NoJob /\ pc' = "idle"
  /\ IF keeps THEN stash' = stash \cup aside ELSE UNCHANGED stash
  /\ aside' = {} /\ snap' = IF keeps THEN snap ELSE NoSnap

(* It ends with its marker left for the user.                              *)
GiveUp ==
  /\ End(TRUE)
  /\ touched' = Traces
  /\ UNCHANGED <<pending, torn>>

Onward == UNCHANGED <<pending, snap, aside, touched, torn, stash>>

(* What an error sets off: the whole rollback, or, when only the remote    *)
(* baseline was to be published, that of the baseline.                     *)
Undo == IF job.only THEN <<"known">> ELSE Undoing

TurnBack(e) ==
  /\ job' = [job EXCEPT !.dir = "back", !.err = e, !.todo = Undo]
  /\ pc' = "check"

(* An exception: forward it starts the rollback, in the rollback it ends   *)
(* the command.                                                            *)
Error(e) ==
  \/ job.dir = "fwd" /\ TurnBack(e) /\ Onward
  \/ job.dir = "back" /\ GiveUp

-----------------------------------------------------------------------------
(* The preview and the start.                                              *)

Preview ==
  /\ Idle /\ Ready
  /\ plan' = Plan
  /\ UNCHANGED <<world, record, job, pc, history, counts>>

(* The reviewed facts are looked at again under the lock, after the        *)
(* repository was fetched.  If nothing changed but the remote, only the    *)
(* baseline is published, under a snapshot and marker of its own.          *)
Begin ==
  /\ Idle /\ plan # NoPlan
  /\ plan' = NoPlan
  /\ IF ~Ready \/ plan # Plan \/ (NoChanges /\ disk["known"] = Of(want))
       THEN UNCHANGED <<job, pc, snap, touched>>
       ELSE /\ job' = [todo |-> IF NoChanges THEN <<"known">> ELSE Placing,
                       dir |-> "fwd", err |-> "none", only |-> NoChanges,
                       rebind |-> BindingPending /\ ~NoChanges,
                       was |-> touched, got |-> Absent]
            /\ snap' = [old |-> disk, new |-> IF NoChanges THEN [disk EXCEPT !["known"] = Of(want)]
                                          ELSE Desired]
            /\ touched' = IF Stray THEN {"group"} ELSE {}
            /\ pc' = "snapshot"
  /\ UNCHANGED <<world, pending, aside, hand, torn, stash, counts>>

(* What the snapshot has copies of.                                        *)
Copied == Mine \cup IF job.rebind THEN {"config"} ELSE {}

(* Preimages are copied, then the marker is written.  The installation's   *)
(* own files must still be as reviewed; the configuration and the binding  *)
(* are copied as they are now.                                             *)
Snapshot ==
  /\ pc = "snapshot"
  /\ IF \A x \in Mine \cup (IF job.rebind THEN {} ELSE {"rec"}) : disk[x] = snap.old[x]
       THEN /\ pending' = TRUE
            /\ snap' = [snap EXCEPT !.old["config"] = disk["config"],
                                    !.old["binding"] = disk["binding"]]
            /\ aside' = {Left(x) : x \in Copied} \ {0}
            /\ pc' = "check"
            /\ UNCHANGED <<job, touched, stash>>
       ELSE /\ End(FALSE)
            /\ touched' = touched \cup job.was
            /\ UNCHANGED pending
  /\ UNCHANGED <<world, plan, hand, torn, counts>>

-----------------------------------------------------------------------------
(* Forward: one path after the other.                                      *)

Old(x) == snap.old[x]
New(x) == snap.new[x]

Replace(x) == Goto(IF Old(x) = Absent THEN "place" ELSE "detach") /\ Onward

(* Files, hooks and, at the second time, the pin hold what was to be       *)
(* placed, the tool runs, and the hooks would not be merged again.         *)
Verify ==
  IF \A y \in {"tool", "runtime", "hooks"}
              \cup (IF "pin" \in ToSet(job.todo) THEN {} ELSE {"pin"}) :
       disk[y] = New(y)
    THEN Proceed /\ Onward
    ELSE Error("other")

(* A reviewed path must still be as reviewed, also when nothing is to be   *)
(* done to it; the materialization receipt only when it is to be replaced. *)
CheckPath ==
  LET x == At1 IN
  /\ pc = "check" /\ job.dir = "fwd" /\ x # "binding"
  /\ IF x = "verify" THEN Verify
     ELSE IF disk[x] # Old(x) /\ ~(x = "mat" /\ Old(x) = New(x))
       THEN Error(IF x = "known" /\ Old(x) = New(x) THEN "race" ELSE "other")
     ELSE IF Old(x) = New(x) /\ x # "rec" THEN Proceed /\ Onward
     ELSE Replace(x)
  /\ UNCHANGED <<world, plan, hand, counts>>

(* state attach inside the installation: the configuration must be as      *)
(* reviewed; the binding is overwritten.                                   *)
Attach ==
  /\ pc = "check" /\ job.dir = "fwd" /\ At1 = "binding"
  /\ \/ /\ ~job.rebind \/ Bound = New("binding")
        /\ disk' = IF job.rebind THEN [disk EXCEPT !["binding"] = Bound] ELSE disk
        /\ Proceed /\ Onward
     \/ job.rebind /\ Bound # New("binding") /\ Error("other") /\ UNCHANGED disk
  /\ UNCHANGED <<want, plan, hand, counts>>

(* The path is moved into the snapshot in two steps: what it holds by now  *)
(* gets a second name there, ...                                           *)
Detach ==
  LET x == At1 IN
  /\ pc = "detach"
  /\ IF disk[x] # Absent
       THEN /\ job' = [job EXCEPT !.got = disk[x]]
            /\ aside' = aside \cup ({disk[x].user} \ {0})
            /\ pc' = "unlink"
            /\ UNCHANGED <<pending, snap, touched, torn, stash>>
       ELSE Error("race")
  /\ UNCHANGED <<world, plan, hand, counts>>

(* ... and its name is removed, whatever bears it then.  (A directory is   *)
(* renamed: the runs in which nothing happens between the two steps.)      *)
DropName ==
  LET x == At1 IN
  /\ pc = "unlink"
  /\ IF disk[x] # Absent
       THEN disk' = [disk EXCEPT ![x] = Absent] /\ Goto("inspect") /\ Onward
       ELSE Error("race") /\ UNCHANGED disk
  /\ UNCHANGED <<want, plan, hand, counts>>

(* A mutant: what was moved away is not looked at.                         *)
InspectTrusts ==
  /\ pc = "inspect" /\ Goto("place") /\ Onward
  /\ UNCHANGED <<world, plan, hand, counts>>

(* It is put back, if the path is still free, when it is not what was      *)
(* reviewed.                                                               *)
Inspect ==
  LET x == At1 IN
  /\ pc = "inspect"
  /\ IF job.got = Old(x)
       THEN Goto("place") /\ Onward /\ UNCHANGED disk
       ELSE /\ IF disk[x] = Absent
                 THEN /\ disk' = [disk EXCEPT ![x] = job.got]
                      /\ aside' = (aside \ {job.got.user}) \cup ({Old(x).user} \ {0})
                 ELSE UNCHANGED <<disk, aside>>
            /\ TurnBack("race")
            /\ UNCHANGED <<pending, snap, touched, torn, stash>>
  /\ UNCHANGED <<want, plan, hand, counts>>

(* The placement never replaces: somebody may have made the file meanwhile.*)
(* The install receipt has the configuration as it is now.                 *)
Place ==
  LET x == At1 IN
  /\ pc = "place"
  /\ IF disk[x] = Absent
       THEN /\ snap' = IF x = "rec" THEN [snap EXCEPT !.new["rec"].user = Note] ELSE snap
            /\ disk' = [disk EXCEPT ![x] = snap'.new[x]]
            /\ Proceed
            /\ UNCHANGED <<pending, aside, touched, torn, stash>>
       ELSE Error("race") /\ UNCHANGED disk
  /\ UNCHANGED <<want, plan, hand, counts>>

-----------------------------------------------------------------------------
(* Back.                                                                   *)

(* The race is remembered and the next path restored.                      *)
Raced ==
  /\ job' = [job EXCEPT !.err = "race", !.todo = Tail(@)]
  /\ pc' = IF Len(job.todo) = 1 THEN "clear" ELSE "check"
  /\ Onward

(* Files and hooks: what is as before is skipped, what is neither absent   *)
(* nor as placed is somebody's and is left alone.                          *)
UndoFile ==
  LET x == At1 IN
  /\ pc = "check" /\ job.dir = "back" /\ x \in Mine
  /\ IF Old(x) = New(x) \/ disk[x] = Old(x) THEN Proceed /\ Onward
     ELSE IF disk[x] \notin {Absent, New(x)} THEN Raced
     ELSE Goto(IF disk[x] = Absent THEN "restore" ELSE "remove") /\ Onward
  /\ UNCHANGED <<world, plan, hand, counts>>

(* unlink, or rmtree of a directory: whatever is there by now.             *)
Unlink ==
  LET x == At1 IN
  /\ pc = "remove"
  /\ disk' = [disk EXCEPT ![x] = Absent]
  /\ IF Old(x) = Absent THEN Proceed ELSE Goto("restore")
  /\ Onward
  /\ UNCHANGED <<want, plan, hand, counts>>

(* The race is remembered, the other files are left as they are, and the   *)
(* receipts restored.                                                      *)
LeaveFiles ==
  /\ job' = [job EXCEPT !.err = "race", !.todo = <<"rec", "mat", "host", "known">>]
  /\ pc' = "check"
  /\ Onward

(* The copy is put where the path is free.  A race in the hooks lets the   *)
(* files be restored.  One in the files ends the command when it is seen   *)
(* by the first look at the path, and leaves the files when it is seen by  *)
(* the placement itself.                                                   *)
Restore ==
  LET x == At1 IN
  /\ pc = "restore"
  /\ IF disk[x] = Absent
       THEN disk' = [disk EXCEPT ![x] = Old(x)] /\ Proceed /\ Onward
       ELSE /\ \/ x = "hooks" /\ Raced
               \/ x # "hooks" /\ (GiveUp \/ LeaveFiles)
            /\ UNCHANGED disk
  /\ UNCHANGED <<want, plan, hand, counts>>

(* A mutant: the materialization receipt is not restored.                  *)
UndoReceiptOnlyOne ==
  LET x == At1 IN
  /\ pc = "check" /\ job.dir = "back" /\ x \in {"rec", "mat", "known"}
  /\ disk' = IF x = "mat" THEN disk ELSE [disk EXCEPT ![x] = Old(x)]
  /\ Proceed /\ Onward
  /\ UNCHANGED <<want, plan, hand, counts>>

(* The receipts and the baseline are restored only from exactly what this  *)
(* installation published.                                                 *)
UndoReceipt ==
  LET x == At1 IN
  /\ pc = "check" /\ job.dir = "back" /\ x \in {"rec", "mat", "known"}
  /\ IF disk[x] \in {Old(x), New(x)}
       THEN disk' = [disk EXCEPT ![x] = Old(x)] /\ Proceed /\ Onward
       ELSE (IF x = "known" THEN GiveUp ELSE Raced) /\ UNCHANGED disk
  /\ UNCHANGED <<want, plan, hand, counts>>

(* A mutant: the configuration and the binding stay as attached.           *)
UndoHostNot ==
  /\ pc = "check" /\ job.dir = "back" /\ At1 = "host"
  /\ Proceed /\ Onward
  /\ UNCHANGED <<world, plan, hand, counts>>

(* The configuration and the binding are written back unconditionally.     *)
UndoHost ==
  /\ pc = "check" /\ job.dir = "back" /\ At1 = "host"
  /\ disk' = IF job.rebind
               THEN [disk EXCEPT !["config"] = Old("config"), !["binding"] = Old("binding")]
               ELSE disk
  /\ Proceed /\ Onward
  /\ UNCHANGED <<want, plan, hand, counts>>

-----------------------------------------------------------------------------
(* The end.                                                                *)

(* A mutant: the marker is cleared and the snapshot discarded after a race.*)
ClearAlways ==
  /\ pc = "clear"
  /\ pending' = FALSE
  /\ End(job.dir = "fwd" /\ ~job.only)
  /\ touched' = IF job.dir = "fwd" THEN touched ELSE touched \cup job.was
  /\ torn' = IF job.dir = "fwd" THEN 0 ELSE torn
  /\ UNCHANGED <<world, plan, hand, counts>>

(* Success keeps the snapshot (a baseline has none to keep); a rollback    *)
(* discards it, unless there was a race: then marker and snapshot stay.    *)
Clear ==
  /\ pc = "clear"
  /\ \/ /\ job.err # "race"
        /\ pending' = FALSE
        /\ End(job.dir = "fwd" /\ ~job.only)
        /\ touched' = IF job.dir = "fwd" /\ ~job.only THEN touched
                       ELSE touched \cup job.was
        /\ torn' = IF job.dir = "fwd" THEN 0 ELSE torn
     \/ job.err = "race" /\ GiveUp
  /\ UNCHANGED <<world, plan, hand, counts>>

(* An error of the system, a failing check of the tool, a full disk.  In   *)
(* a move, before its link or between it and the unlink, it counts as a    *)
(* race.                                                                   *)
Fault ==
  /\ faults < MaxFaults /\ faults' = faults + 1
  /\ \/ pc \in {"check", "place", "restore", "clear"} /\ Error("other")
     \/ pc \in {"detach", "unlink", "place"} /\ Error("race")
  /\ UNCHANGED <<world, plan, hand, edits, crashes>>

(* Nothing was installed before, and no receipt is left without its files. *)
First == /\ snap.old["rec"] = Absent /\ snap.old["mat"] = Absent
         /\ job.dir = "fwd" \/ (disk["mat"] = Absent /\ disk["rec"] = Absent)

(* The process is killed.                                                  *)
Crash ==
  /\ ~Idle
  /\ crashes < MaxCrashes /\ crashes' = crashes + 1
  /\ End(pending)
  /\ touched' = IF ~pending \/ First THEN touched \cup job.was ELSE Traces
  /\ torn' = IF pending /\ First THEN Head(New("rec").own) ELSE torn
  /\ UNCHANGED <<world, pending, plan, hand, edits, faults>>

-----------------------------------------------------------------------------
(* The user, and the other command.                                        *)

(* When the user may act at a path: at any time but in the windows of      *)
(* Windows that HandWindows leaves out.  "config": while an installation   *)
(* that binds the state runs.  "remove": at a path the rollback has found  *)
(* as placed and not yet unlinked.  "unlink" (see Save): a file saved      *)
(* under the name of one that has its second name.                         *)
HandFree(x) ==
  /\ x = "config" /\ ~Idle => "config" \in HandWindows \/ ~job.rebind \/ pc = "snapshot"
  /\ pc = "remove" /\ x = At1 => "remove" \in HandWindows

Edited(x, n) ==
  CASE x = "hooks"  -> [own |-> Groups, user |-> n]
    [] OTHER        -> [own |-> <<>>, user |-> n]

(* The path holds what was linked into the snapshot, under both names.     *)
Linked(x) == pc = "unlink" /\ x = At1 /\ disk[x] = job.got

(* The user saves v at a path.  Between the two steps of Detach a save in  *)
(* place changes the file under both its names (and the snapshot has the   *)
(* copy of the reviewed one), a save as a new file only what the path      *)
(* names.                                                                  *)
Save(x, v) ==
  /\ HandFree(x)
  /\ disk' = [disk EXCEPT ![x] = v]
  /\ \/ /\ pc = "unlink" /\ x = At1 => "unlink" \in HandWindows
        /\ UNCHANGED <<aside, job>>
     \/ /\ Linked(x)
        /\ job' = [job EXCEPT !.got = v]
        /\ aside' = (aside \ {job.got.user}) \cup ({Old(x).user, v.user} \ {0})

Edit(x) ==
  /\ edits < MaxEdits /\ edits' = edits + 1
  /\ Save(x, Edited(x, edits'))
  /\ hand' = [hand EXCEPT ![x] = (@ \ {Left(x)}) \cup {edits'}]
  /\ touched' = touched \cup {x}
  /\ UNCHANGED <<want, pending, snap, plan, pc, torn, stash, faults, crashes>>

(* The user takes the owned groups out of the hooks.                       *)
Strip ==
  /\ edits < MaxEdits /\ edits' = edits + 1
  /\ Groups # <<>> /\ Save("hooks", [disk["hooks"] EXCEPT !.own = <<>>])
  /\ touched' = touched \cup {"hooks", "group"}
  /\ UNCHANGED <<want, pending, snap, plan, pc, hand, torn, stash, faults, crashes>>

(* The user moves a file away, as a refused plan advises.                  *)
MoveAside(x) ==
  /\ edits < MaxEdits /\ edits' = edits + 1
  /\ HandFree(x) /\ disk[x] # Absent
  /\ disk' = [disk EXCEPT ![x] = Absent]
  /\ hand' = [hand EXCEPT ![x] = @ \ {Left(x)}]
  /\ touched' = touched \cup {x} \cup (IF x = "hooks" THEN {"group"} ELSE {})
  /\ UNCHANGED <<want, record, control, torn, stash, faults, crashes>>

(* The user looks at the snapshot and removes the marker.                  *)
Inspected ==
  /\ Idle /\ pending
  /\ pending' = FALSE
  /\ snap' = NoSnap
  /\ hand' = [x \in Paths |-> hand[x] \cap {Left(x)}]
  /\ UNCHANGED <<world, aside, control, touched, torn, stash, counts>>

(* The repository moves to the next release.                               *)
Upgrade ==
  /\ Idle /\ want < MaxVersion
  /\ want' = want + 1
  /\ UNCHANGED <<disk, record, control, history, counts>>

(* `sync --apply` (see Sync) brings the runtime files up to date.          *)
SyncRuntime ==
  /\ Idle /\ ~pending /\ ~BindingPending /\ ~BlockedRuntime
  /\ disk' = [disk EXCEPT !["runtime"] = Of(want), !["mat"] = Made(want, Note),
                          !["known"] = Of(want)]
  /\ touched' = touched \ {"runtime", "mat"}
  /\ UNCHANGED <<want, record, control, hand, torn, stash, counts>>

User ==
  \/ \E x \in {"tool", "runtime", "hooks", "config"} : Edit(x)
  \/ \E x \in Paths \ {"config"} : MoveAside(x)
  \/ Strip \/ Inspected \/ Upgrade \/ SyncRuntime

Step ==
  \/ Snapshot \/ CheckPath \/ Attach \/ Detach \/ DropName \/ Inspect \/ Place
  \/ UndoFile \/ Unlink \/ Restore \/ UndoReceipt \/ UndoHost \/ Clear

Init ==
  /\ disk = [x \in Paths |-> IF x = "config" THEN [own |-> <<>>, user |-> 0] ELSE Absent]
  /\ want = 1
  /\ pending = FALSE /\ snap = NoSnap /\ aside = {}
  /\ plan = NoPlan /\ job = NoJob /\ pc = "idle"
  /\ hand = [x \in Paths |-> {}]
  /\ touched = {} /\ torn = 0 /\ stash = {}
  /\ edits = 0 /\ faults = 0 /\ crashes = 0

Next == Preview \/ Begin \/ Step \/ Fault \/ Crash \/ User

Spec == Init /\ [][Next]_vars

-----------------------------------------------------------------------------
(* Properties.                                                             *)

Pcs == {"idle", "snapshot", "check", "detach", "unlink", "inspect", "place",
        "remove", "restore", "clear"}

(* Types.                                                                  *)
TypeOK ==
  /\ disk \in Disk /\ want \in Versions
  /\ pending \in BOOLEAN
  /\ snap \in Snaps \cup {NoSnap}
  /\ aside \subseteq Notes /\ stash \subseteq Notes
  /\ plan \in [want : Versions, disk : Disk] \cup {NoPlan}
  /\ job \in Jobs \cup {NoJob}
  /\ pc \in Pcs /\ (pc = "idle" <=> job = NoJob)
  /\ hand \in [Paths -> SUBSET Notes]
  /\ touched \subseteq Traces
  /\ torn \in 0..MaxVersion
  /\ edits \in 0..MaxEdits /\ faults \in 0..MaxFaults /\ crashes \in 0..MaxCrashes

Settled == Idle /\ ~pending

(* What the user wrote is never lost: it is where the user put it, or in a *)
(* snapshot that is still there, whatever the order of edits, errors and   *)
(* kills, unless it was written in one of the windows (see HandFree): in   *)
(* each of them the code loses it.                                         *)
HandKept ==
  \A x \in Paths : hand[x] \subseteq {Left(x)} \cup aside \cup stash

(* When no installation runs and no marker asks the user to look, what the *)
(* user wrote outside the windows is at its place: only a race or a kill   *)
(* may leave it in a snapshot alone.                                       *)
HandInPlace == Settled => \A x \in Paths : hand[x] \subseteq {Left(x)}

(* When no marker asks the user to look, the receipts say what the files   *)
(* hold: the tool, the pin and exactly one hook group are of the release   *)
(* of the install receipt, the runtime files of that of the                *)
(* materialization receipt, except where the user changed them since.      *)
ReceiptTrue ==
  Settled =>
    /\ \A v \in Release("rec") :
         /\ \A x \in {"tool", "pin"} \ touched : disk[x] = Of(v)
         /\ "group" \notin touched => Groups = <<v>>
    /\ \A v \in Release("mat") : "runtime" \notin touched => disk["runtime"] = Of(v)

(* An installation that ends without a marker, by success, by an error or  *)
(* by a kill, has done all or nothing: the paths the user left alone       *)
(* meanwhile are as before it, or all as it wanted.                        *)
AllOrNothing ==
  [][~Idle /\ job' = NoJob /\ ~pending' =>
       \E image \in {snap.old, snap.new} :
         \A x \in Paths \ touched : disk'[x] = image[x]]_vars

(* Installations, syncs, upgrades, errors and edits of the user's own      *)
(* hooks and configuration never block the next plan; nor does a first     *)
(* installation that was killed at any step, for the same release.         *)
NeverSelfBlocked ==
  Settled /\ touched \subseteq {"config", "binding", "known", "hooks"}
          /\ torn \in {0, want}
    => Ready
=============================================================================
