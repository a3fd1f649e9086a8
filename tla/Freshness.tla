----------------------------- MODULE Freshness -----------------------------
(***************************************************************************)
(* Which commit of the private repository may be used                      *)
(* (agent_core/freshness.py, state.py, and their callers in sync.py,       *)
(* doctor.py and candidates.py).                                           *)
(*                                                                         *)
(* Every command that uses the repository looks at it in several git calls *)
(* one after the other: fetch, origin/main, status, HEAD against           *)
(* origin/main, and whether the commit remembered from last time is an     *)
(* ancestor of what the remote has now; if it is not, the remote was       *)
(* rewound.  `sync --apply` remembers the remote's commit and then         *)
(* installs what the clone holds; `state attach` binds the host to the     *)
(* clone with three files and takes them back when one cannot be written.  *)
(* These two hold the operation lock.  `doctor` and `capture` do not, and  *)
(* neither do the user's git commands in the same clone, nor the pushes of *)
(* other hosts.                                                            *)
(***************************************************************************)
EXTENDS Naturals

CONSTANTS
  Procs,        \* processes that run a command
  Commits,      \* commits of the private repository
  Past,         \* Past[c]: c and its ancestors
  RaceWindows,  \* the windows in which others may act, see Windows
  MaxEvents,    \* bound on moves, git commands, edits, errors and deaths
  Absent, Damaged, NoProc, NoSeen, NoPlan, NoConfig

Before(b, c) == b \in Past[c]     \* git merge-base --is-ancestor b c

Ops     == {"sync", "attach", "doctor", "capture"}
Trees   == {"clean", "inbox", "dirty"}   \* what git status says
Roots   == {"this", "other"}
Notes   == {0, 1}
Config  == [root : Roots, note : Notes]
Binding == [rev : Commits, config : Config]
Memory  == Commits \cup {Absent, Damaged}
Windows == {"ref", "checkout", "config"}
Steps   == {"idle", "migrate", "fetch", "ref", "status", "counts", "known",
            "passed", "review", "validate", "again", "inspect", "config",
            "binding", "remote", "confirm", "undo remote", "undo binding",
            "undo config"}

(* What a command has read.                                                *)
Seen == [op : Ops, issue : BOOLEAN, remote : Commits \cup {Absent}, tree : Trees,
         behind : BOOLEAN, ahead : BOOLEAN, adv : Commits \cup {Absent},
         config : Config \cup {NoConfig}, prev : Memory, prevBinding : Binding \cup {Absent}]

ASSUME ConstantsOK ==
  /\ Past \in [Commits -> SUBSET Commits]
  /\ \A c \in Commits : c \in Past[c]
  /\ \A b, c \in Commits : b \in Past[c] => Past[b] \subseteq Past[c]
  /\ \A b, c \in Commits : b \in Past[c] /\ c \in Past[b] => b = c
  /\ RaceWindows \subseteq Windows
  /\ MaxEvents \in Nat
  /\ Absent \notin Commits /\ Damaged \notin Commits /\ Absent # Damaged
  /\ Absent \notin Binding /\ NoProc \notin Procs
  /\ NoConfig \notin Config /\ NoSeen \notin Seen

VARIABLES
  main,       \* refs/heads/main of the remote
  tracking,   \* origin/main in the clone
  head,       \* HEAD of the clone
  tree,       \* the state of its working tree
  known,      \* txn/remote-state.json: the remembered remote commit
  legacy,     \* remote-state.json beside the default configuration
  config,     \* host.json: its state_root, and the rest of it
  binding,    \* host.json.state-binding.json
  lock,       \* holder of the operation lock
  pc,         \* pc[p]: the next step of process p
  seen,       \* seen[p]: its command and what it has read so far
  plan,       \* plan[p]: the commits of the sync plan p previewed
  since,      \* history: since[p], what main was since p's command began
  past,       \* history: what was remembered whenever the lock was free
  installed,  \* history: the commit last installed by a sync
  note,       \* history: the rest of the configuration as the user left it
  rewound,    \* history: whether main ever moved to no descendant
  alarmed,    \* history: whether a command under the lock said it did
  cut,        \* history: an attach was cut off since one last succeeded
  edited,     \* history: the configuration was edited since then
  events      \* how many of the bounded events there were

repo    == <<main, tracking, head, tree>>
host    == <<known, legacy, config, binding>>
control == <<lock, pc, seen, plan>>
history == <<since, past, installed, note, rewound, alarmed, cut, edited>>
vars    == <<repo, host, control, history, events>>

Event == events < MaxEvents /\ events' = events + 1

Remembered == IF known # Absent THEN known ELSE legacy

-----------------------------------------------------------------------------
(* A command begins and ends.                                              *)

Fresh(o) == [op |-> o, issue |-> FALSE, remote |-> Absent, tree |-> "clean",
             behind |-> FALSE, ahead |-> FALSE, adv |-> Absent,
             config |-> NoConfig, prev |-> Absent, prevBinding |-> Absent]

Locking(p) == seen[p] # NoSeen /\ seen[p].op \in {"sync", "attach"}

GoTo(p, l) == pc' = [pc EXCEPT ![p] = l]

(* preview: sync without --apply.                                          *)
Preview(p) ==
  /\ pc[p] = "idle" /\ plan[p] # [head |-> head, remote |-> tracking]
  /\ known # Damaged
  /\ known # Absent => Before(known, tracking)
  /\ plan' = [plan EXCEPT ![p] = [head |-> head, remote |-> tracking]]
  /\ UNCHANGED <<repo, host, lock, pc, seen, history, events>>

Start(p, o) ==
  /\ pc[p] = "idle"
  /\ o \in {"sync", "attach"} => lock = NoProc
  /\ o = "sync" => plan[p] # NoPlan
  /\ lock' = IF o \in {"sync", "attach"} THEN p ELSE lock
  /\ GoTo(p, CASE o = "sync" -> "migrate" [] o = "attach" -> "validate" [] OTHER -> "fetch")
  /\ seen' = [seen EXCEPT ![p] = Fresh(o)]
  /\ since' = [since EXCEPT ![p] = {main}]
  /\ UNCHANGED <<repo, host, plan, past, installed, note, rewound, alarmed, cut, edited, events>>

(* The command ends, well or not, and lets go of the lock.                 *)
Leave(p) ==
  /\ GoTo(p, "idle")
  /\ seen' = [seen EXCEPT ![p] = NoSeen]
  /\ since' = [since EXCEPT ![p] = {}]
  /\ lock' = IF lock = p THEN NoProc ELSE lock
  /\ plan' = IF seen[p].op = "sync" THEN [plan EXCEPT ![p] = NoPlan] ELSE plan
  /\ past' = IF Locking(p) THEN past \cup ({Remembered'} \cap Commits) ELSE past

Fail(p) ==
  /\ UNCHANGED <<repo, host, installed, note, rewound, alarmed, cut, edited>>
  /\ Leave(p)

-----------------------------------------------------------------------------
(* inspect and require_fresh, one git call at a time.                      *)

(* A mutant: the old baseline is copied whether or not there is a new one. *)
MigratedAgain == IF legacy # Absent THEN legacy ELSE known

(* migrate_legacy_remote_state.                                            *)
Migrated == IF known = Absent THEN legacy ELSE known

Migrate(p) ==
  /\ pc[p] = "migrate"
  /\ \/ /\ Damaged \in {known, Migrated}
        /\ Fail(p)
     \/ /\ Damaged \notin {known, Migrated}
        /\ known' = Migrated
        /\ seen' = [seen EXCEPT ![p].prev = IF seen[p].op = "attach" THEN known ELSE Absent]
        /\ GoTo(p, "fetch")
        /\ UNCHANGED <<repo, legacy, config, binding, lock, plan, history>>
  /\ UNCHANGED events

(* A mutant: a fetch that failed is not looked at.                         *)
NoIssue(p) == seen' = seen

Issue(p) == seen' = [seen EXCEPT ![p].issue = TRUE]

(* git remote get-url origin; git fetch origin.                            *)
Fetch(p) ==
  /\ pc[p] = "fetch"
  /\ \/ /\ tracking' = main
        /\ GoTo(p, IF seen[p].op = "attach" THEN "again" ELSE "ref")
        /\ UNCHANGED <<main, head, tree, host, lock, seen, plan, history, events>>
     \/ /\ Event
        /\ \/ seen[p].op = "attach" /\ Fail(p)
           \/ /\ seen[p].op # "attach"
              /\ Issue(p)
              /\ GoTo(p, "ref")
              /\ UNCHANGED <<repo, host, lock, plan, history>>

(* git rev-parse origin/main, not asked when there was an issue.           *)
ReadRef(p) ==
  /\ pc[p] = "ref"
  /\ seen' = [seen EXCEPT ![p].remote = IF seen[p].issue THEN Absent ELSE tracking]
  /\ GoTo(p, "status")
  /\ UNCHANGED <<repo, host, lock, plan, history, events>>

ReadStatus(p) ==
  /\ pc[p] = "status"
  /\ seen' = [seen EXCEPT ![p].tree = tree]
  /\ GoTo(p, "counts")
  /\ UNCHANGED <<repo, host, lock, plan, history, events>>

(* git rev-list --left-right --count HEAD...origin/main.                   *)
ReadCounts(p) ==
  /\ pc[p] = "counts"
  /\ seen' = [seen EXCEPT ![p].behind = ~seen[p].issue /\ ~Before(tracking, head),
                          ![p].ahead  = ~seen[p].issue /\ ~Before(head, tracking)]
  /\ GoTo(p, "known")
  /\ UNCHANGED <<repo, host, lock, plan, history, events>>

(* What a command compares with.  Capture's control root is ~/.agent-core  *)
(* by default, where only an older version has left a file.                *)
Baseline(o) == IF o = "capture" THEN legacy ELSE known

(* A mutant: the two commits are compared the other way round.             *)
RewindsSwapped(b, r) == b # Absent /\ ~Before(r, b)

(* FAIL_REMOTE_REWIND: what is remembered is no ancestor of r.             *)
Rewinds(b, r) == b # Absent /\ ~Before(b, r)

(* A mutant: a clone that is behind the remote is fresh enough.            *)
RefusedAhead(s) ==
  \/ s.tree = "dirty"
  \/ s.op # "capture" /\ (s.issue \/ s.ahead)

(* require_fresh.  Candidates in the inbox are no dirt.                    *)
Refused(s) ==
  \/ s.tree = "dirty"
  \/ s.op # "capture" /\ (s.issue \/ s.behind \/ s.ahead)

Alarm(p) ==
  /\ alarmed' = (alarmed \/ Locking(p))
  /\ UNCHANGED <<repo, host, installed, note, rewound, cut, edited>>
  /\ Leave(p)

CheckKnown(p) ==
  LET r == seen[p].remote
      b == Baseline(seen[p].op)
      refused == (r # Absent /\ b = Damaged) \/ Refused(seen[p])
      rewinds == r # Absent /\ b # Damaged /\ Rewinds(b, r)
  IN
  /\ pc[p] = "known"
  /\ \/ rewinds /\ Alarm(p)
     \/ ~rewinds /\ refused /\ Fail(p)
     \/ /\ ~rewinds /\ ~refused
        /\ GoTo(p, "passed")
        /\ UNCHANGED <<repo, host, lock, seen, plan, history>>
  /\ UNCHANGED events

(* doctor reports parity; capture writes r into the candidate's            *)
(* base_revision, or HEAD as unverified.                                   *)
Report(p) ==
  /\ pc[p] = "passed" /\ ~Locking(p)
  /\ Fail(p)
  /\ UNCHANGED events

-----------------------------------------------------------------------------
(* sync --apply.                                                           *)

(* record_remote_head.                                                     *)
Record(p) ==
  /\ pc[p] = "passed" /\ seen[p].op = "sync"
  /\ known' = seen[p].remote
  /\ GoTo(p, "review")
  /\ UNCHANGED <<repo, legacy, config, binding, lock, seen, plan, history, events>>

(* The plan under the lock, whose hash must be the previewed one, and the  *)
(* installation of what the clone holds, for which see Sync.               *)
Install(p) ==
  /\ pc[p] = "review"
  /\ \/ Rewinds(known, tracking) /\ Alarm(p)
     \/ ~Rewinds(known, tracking) /\ plan[p] # [head |-> head, remote |-> tracking] /\ Fail(p)
     \/ /\ ~Rewinds(known, tracking) /\ plan[p] = [head |-> head, remote |-> tracking]
        /\ installed' = IF tree \in {"clean", "inbox"} THEN head ELSE Damaged
        /\ UNCHANGED <<repo, host, note, rewound, alarmed, cut, edited>>
        /\ Leave(p)
  /\ UNCHANGED events

-----------------------------------------------------------------------------
(* state attach.                                                           *)

(* _remote_snapshot and _require_clean_snapshot.                           *)
Snapshot == main = tracking /\ head = main /\ tree = "clean"

Validate(p) ==
  /\ pc[p] = "validate"
  /\ \/ ~Snapshot /\ Fail(p)
     \/ /\ Snapshot
        /\ seen' = [seen EXCEPT ![p].adv = main, ![p].config = config]
        /\ GoTo(p, "migrate")
        /\ UNCHANGED <<repo, host, lock, plan, history>>
  /\ UNCHANGED events

(* A mutant: the second look is not compared with the first.               *)
SameAttachRemote(p) == main = seen[p].adv

SameAttach(p) == main = seen[p].adv /\ config = seen[p].config

(* The same again after the fetch, FAIL_REMOTE_RACE.                       *)
ValidateAgain(p) ==
  /\ pc[p] = "again"
  /\ \/ ~(Snapshot /\ SameAttach(p)) /\ Fail(p)
     \/ /\ Snapshot /\ SameAttach(p)
        /\ GoTo(p, "inspect")
        /\ UNCHANGED <<repo, host, lock, seen, plan, history>>
  /\ UNCHANGED events

InspectAttach(p) ==
  /\ pc[p] = "inspect"
  /\ \/ Rewinds(known, tracking) /\ Alarm(p)
     \/ ~Rewinds(known, tracking) /\ tracking # seen[p].adv /\ Fail(p)
     \/ /\ ~Rewinds(known, tracking) /\ tracking = seen[p].adv
        /\ seen' = [seen EXCEPT ![p].remote = seen[p].adv, ![p].prevBinding = binding]
        /\ GoTo(p, "config")
        /\ UNCHANGED <<repo, host, lock, plan, history>>
  /\ UNCHANGED events

Rendered(p) == [root |-> "this", note |-> seen[p].config.note]

WriteConfig(p) ==
  /\ pc[p] = "config"
  /\ config' = Rendered(p)
  /\ GoTo(p, "binding")
  /\ UNCHANGED <<repo, known, legacy, binding, lock, seen, plan, history, events>>

(* A mutant: the receipt names the commit remembered so far.               *)
WriteBindingKnown(p) ==
  /\ pc[p] = "binding"
  /\ binding' = [rev |-> known, config |-> Rendered(p)]
  /\ GoTo(p, "remote")
  /\ UNCHANGED <<repo, known, legacy, config, lock, seen, plan, history, events>>

WriteBinding(p) ==
  /\ pc[p] = "binding"
  /\ binding' = [rev |-> seen[p].adv, config |-> Rendered(p)]
  /\ GoTo(p, "remote")
  /\ UNCHANGED <<repo, known, legacy, config, lock, seen, plan, history, events>>

WriteRemote(p) ==
  /\ pc[p] = "remote"
  /\ known' = seen[p].adv
  /\ GoTo(p, "confirm")
  /\ UNCHANGED <<repo, legacy, config, binding, lock, seen, plan, history, events>>

Attached(p) ==
  /\ pc[p] = "confirm"
  /\ cut' = FALSE /\ edited' = FALSE
  /\ UNCHANGED <<repo, host, installed, note, rewound, alarmed, events>>
  /\ Leave(p)

Writing == {"config", "binding", "remote", "confirm"}
Undoing == {"undo remote", "undo binding", "undo config"}

(* A file cannot be written, or is not an ordinary file afterwards.        *)
WriteFails(p) ==
  /\ pc[p] \in Writing
  /\ Event
  /\ GoTo(p, "undo remote")
  /\ UNCHANGED <<repo, host, lock, seen, plan, history>>

UndoRemote(p) ==
  /\ pc[p] = "undo remote"
  /\ known' = seen[p].prev
  /\ GoTo(p, "undo binding")
  /\ UNCHANGED <<repo, legacy, config, binding, lock, seen, plan, history, events>>

(* A mutant: only a receipt that was there before is put back.             *)
UndoBindingFirst(p) ==
  /\ pc[p] = "undo binding"
  /\ binding' = IF seen[p].prevBinding = Absent THEN binding ELSE seen[p].prevBinding
  /\ GoTo(p, "undo config")
  /\ UNCHANGED <<repo, known, legacy, config, lock, seen, plan, history, events>>

UndoBinding(p) ==
  /\ pc[p] = "undo binding"
  /\ binding' = seen[p].prevBinding
  /\ GoTo(p, "undo config")
  /\ UNCHANGED <<repo, known, legacy, config, lock, seen, plan, history, events>>

UndoConfig(p) ==
  /\ pc[p] = "undo config"
  /\ config' = seen[p].config
  /\ UNCHANGED <<repo, known, legacy, binding, installed, note, rewound, alarmed, cut, edited, events>>
  /\ Leave(p)

(* FAIL_ATTACH_ROLLBACK.                                                   *)
UndoFails(p) ==
  /\ pc[p] \in Undoing
  /\ Event
  /\ cut' = TRUE
  /\ UNCHANGED <<repo, host, installed, note, rewound, alarmed, edited>>
  /\ Leave(p)

(* The process dies; the operating system releases the lock.               *)
Interrupt(p) ==
  /\ pc[p] # "idle"
  /\ Event
  /\ cut' = (cut \/ pc[p] \in Writing \cup Undoing)
  /\ UNCHANGED <<repo, host, installed, note, rewound, alarmed, edited>>
  /\ Leave(p)

-----------------------------------------------------------------------------
(* Other hosts, and the user.                                              *)

(* A window is open while a locked command is between two reads that       *)
(* nothing compares again.                                                 *)
InWindow(w) ==
  \E p \in Procs :
    \/ w = "ref" /\ seen[p] # NoSeen /\ seen[p].op = "sync" /\ pc[p] \in {"status", "counts"}
    \/ /\ w = "checkout" /\ seen[p] # NoSeen /\ seen[p].op = "sync"
       /\ pc[p] \in {"status", "counts", "known", "passed", "review"}
    \/ w = "config" /\ pc[p] \in Writing \cup Undoing \cup {"inspect"}

May(w) == w \in RaceWindows \/ ~InWindow(w)

(* A push to the remote, perhaps a forced one.                             *)
RemoteMoves(c) ==
  /\ Event
  /\ c # main /\ main' = c
  /\ rewound' = (rewound \/ ~Before(main, c))
  /\ since' = [p \in Procs |-> IF pc[p] = "idle" THEN {} ELSE since[p] \cup {c}]
  /\ UNCHANGED <<tracking, head, tree, host, control, past, installed, note, alarmed, cut, edited>>

UserFetch ==
  /\ Event
  /\ May("ref")
  /\ tracking # main /\ tracking' = main
  /\ UNCHANGED <<main, head, tree, host, control, history>>

(* git checkout, reset, commit or merge, and edits of the working tree.    *)
UserGit(c, t) ==
  /\ Event
  /\ May("checkout")
  /\ <<c, t>> # <<head, tree>>
  /\ head' = c /\ tree' = t
  /\ UNCHANGED <<main, tracking, host, control, history>>

EditConfig(r) ==
  /\ Event
  /\ May("config")
  /\ config' = [root |-> r, note |-> 1 - note]
  /\ note' = 1 - note /\ edited' = TRUE
  /\ UNCHANGED <<repo, known, legacy, binding, control, since, past, installed, rewound, alarmed, cut>>

-----------------------------------------------------------------------------
Step(p) ==
  \/ Preview(p)
  \/ \E o \in Ops : Start(p, o)
  \/ Migrate(p) \/ Fetch(p) \/ ReadRef(p) \/ ReadStatus(p) \/ ReadCounts(p)
  \/ CheckKnown(p) \/ Report(p)
  \/ Record(p) \/ Install(p)
  \/ Validate(p) \/ ValidateAgain(p) \/ InspectAttach(p)
  \/ WriteConfig(p) \/ WriteBinding(p) \/ WriteRemote(p) \/ Attached(p)
  \/ WriteFails(p) \/ UndoRemote(p) \/ UndoBinding(p) \/ UndoConfig(p) \/ UndoFails(p)
  \/ Interrupt(p)

Outside ==
  \/ \E c \in Commits : RemoteMoves(c)
  \/ UserFetch
  \/ \E c \in Commits, t \in Trees : UserGit(c, t)
  \/ \E r \in Roots : EditConfig(r)

(* A clone just made; perhaps a baseline from an older version.            *)
Init ==
  /\ main \in Commits /\ tracking = main /\ head = main /\ tree = "clean"
  /\ known \in {Absent, Damaged} /\ legacy \in Memory
  /\ config = [root |-> "other", note |-> 0] /\ binding = Absent
  /\ lock = NoProc
  /\ pc = [p \in Procs |-> "idle"] /\ seen = [p \in Procs |-> NoSeen]
  /\ plan = [p \in Procs |-> NoPlan] /\ since = [p \in Procs |-> {}]
  /\ past = {Remembered} \cap Commits
  /\ installed = Absent /\ note = 0
  /\ rewound = (legacy \in Commits /\ ~Before(legacy, main))
  /\ alarmed = FALSE /\ cut = FALSE /\ edited = FALSE
  /\ events = 0

Next == (\E p \in Procs : Step(p)) \/ Outside

Spec == Init /\ [][Next]_vars

-----------------------------------------------------------------------------
(* What is promised.                                                       *)

(* The variables have their types, and the lock is held by a process that  *)
(* is inside sync or attach.                                               *)
TypeOK ==
  /\ main \in Commits /\ tracking \in Commits /\ head \in Commits /\ tree \in Trees
  /\ known \in Memory /\ legacy \in Memory
  /\ config \in Config /\ binding \in Binding \cup {Absent}
  /\ lock \in Procs \cup {NoProc}
  /\ pc \in [Procs -> Steps]
  /\ seen \in [Procs -> Seen \cup {NoSeen}]
  /\ since \in [Procs -> SUBSET Commits]
  /\ \A p \in Procs : /\ seen[p] = NoSeen <=> pc[p] = "idle"
                      /\ Locking(p) <=> lock = p
  /\ installed \in Memory /\ past \subseteq Commits /\ note \in Notes
  /\ {rewound, alarmed, cut, edited} \subseteq BOOLEAN

(* Whenever the lock is free, what the host remembers of the remote        *)
(* descends from everything it remembered before: a rewind cannot slip in  *)
(* through a migration, a second process, a rollback or a death.           *)
RememberedOnlyForward ==
  lock = NoProc => \A c \in past : Remembered \in Commits /\ Before(c, Remembered)

(* What sync installs is committed, published on the remote's main while   *)
(* the command ran, and descends from what was installed before, unless the*)
(* clone moves in one of the windows "ref" and "checkout" (see May).       *)
InstalledOnlyForward ==
  [][installed' # installed =>
       /\ installed' \in Commits
       /\ \E p \in Procs : installed' \in since[p]
       /\ installed # Absent => Before(installed, installed')]_vars

(* A command that passes with a remote commit has it from the remote, of   *)
(* the time since the command began, not from an older fetch.              *)
FetchedRemote ==
  \A p \in Procs :
    /\ pc[p] \in {"passed", "config", "binding", "remote"} /\ seen[p].remote # Absent
         => seen[p].remote \in since[p]
    /\ pc[p] = "passed" /\ seen[p].remote = Absent => seen[p].op = "capture"

(* When no attach was cut off, the binding receipt is for the present      *)
(* configuration, if that was not edited, and a later sync will notice     *)
(* when the remote loses the commit the receipt accepted.                  *)
BindingTrue ==
  lock = NoProc /\ ~cut /\ binding # Absent =>
    /\ ~edited => binding.config = config
    /\ Remembered \in Commits /\ Before(binding.rev, Remembered)

(* Attach changes where the state is and nothing else of the user's        *)
(* configuration, whether it succeeds, fails, is rolled back or dies,      *)
(* unless that is edited in the window "config" (see May).                 *)
ConfigKept == config.note = note

(* Under the lock, no advance of the remote is mistaken for a rewind.      *)
AlarmTrue == alarmed => rewound
=============================================================================
