# A verification project for agent-capability-ledger

`agent-core` keeps what coding agents have learned ("lessons") and what they
are configured with (skills, entry files, hooks) in a private Git repository,
and installs that into the directories the agents read.  It is a command-line
program: every command is a process of its own, several agent sessions and a
user with an editor and `git` work on the same files at the same time, and any
process may be killed between two file operations.  Its answer is one pattern,
used everywhere: a *preview* reads without a lock and yields a plan bound by a
hash, an *apply* takes a non-blocking lock, plans again, refuses if the plans
differ, and then changes files one at a time in an order chosen so that an
interruption can be recovered from.

This project models that pattern where it carries the most, states what it
promises, checks the models with TLC and proves the main results with TLAPS.

## 1. Inventory

Line numbers are of `src/agent_core/`.

| Component | State it keeps | Operations | Talks to | What is hard | What makes it correct |
|---|---|---|---|---|---|
| Lesson review queue (`local_promote.py`, `candidates.py`, `project_promote.py`, `reject.py`) | `lessons/inbox/`, `inbox/consumed/`, `inbox/rejected/`, ledger files, the Git index | `promote` (new, update, supersede), `reject`, each preview and apply | operation lock, ledgers, `git` | plans that go stale, death between two file steps, retries, edits by hand inside an apply | one fate per candidate, unique lesson numbers, nothing lost, whole commits |
| Operation lock (`lock.py`) | `<control>/locks/<name>.lock` | acquire without waiting, release, freed by the system when its holder dies | every apply | starvation, two control roots | at most one apply at a time |
| Lesson ledgers (`ledger.py`) | Markdown files: active and archive section | parse, find, lint, resolve sources | queue, matching, retire, doctor | number and link consistency | ids unique, supersedes links meet |
| Capture (`capture.py`) | candidate files, Stop-hook request identity | `capture`, automatic capture of a Stop hook | queue, matching, freshness | repeated answers, two hooks at once, interrupted rejects, a lock held by others | a request is kept once, and never dropped in silence |
| Sync and materializer (`sync.py`, `materializer.py`) | runtime files, materialization receipt, snapshot, pending marker | preview, apply, rollback, legacy migration | state repository, freshness, operation lock | foreign edits between any two file steps, failure during rollback, death | receipt tells the truth, foreign bytes survive, errors roll back |
| Freshness (`freshness.py`) | remembered remote head | `inspect`, `require_fresh`, record, migrate | Git remote, sync, attach, capture, doctor | a rewound remote, reads that mix two states, an older head overwriting a newer one | never accept state behind what was seen |
| Installer (`installer.py`, `runtime_config.py`) | install receipt, snapshot, pending marker, host settings with hooks | classify, plan, apply, rollback, upgrade | runtime host files, sync, attach | as sync, several owners, a rollback in another order, files shared with the user | all or nothing, receipts true, the user's edits kept |
| Retire (`retire.py`) | receipts in `evidence-pending/` of the control root | report, verify | ledgers, verifiers' manifest, workspace files, clock | inputs that change between and under the checks, receipts that age, a ledger read once and a manifest read again | a receipt attests what it names; what is called fresh or ready is so |
| State bootstrap and binding (`state.py`, `repository.py`, `project.py`) | private repository, host configuration, binding receipt | bootstrap, attach | Git, freshness, installer | three files written one by one, a rollback that fails | the binding is for the configuration it names |
| Doctor (`doctor.py`) | none | read-only checks | everything | checks that race with applies | reports only what is so |
| Lesson matching (`match.py`) | the hook's heartbeat | match, validate once per change, print, capture | ledgers, capture, doctor | ledgers edited under a running hook, a heartbeat shared by all hooks, truncation | only validated lessons are printed, in order and within the budget; the hook never holds up the runtime |
| Configuration (`config.py`, `cli.py`, `launcher.py`) | host configuration files | parse, dispatch | everything | which control root a command uses | agreement on control root and paths |
| Privacy and provenance (`privacy.py`, `provenance.py`) | none | scan, verify | release scripts | patterns | nothing private is published |
| Scripts, templates, examples (`enforcement/`, `templates/`, `examples/`, `install.*`) | none | wrap the above | | | |

They interact through files: `capture` puts candidates in the inbox, `promote`
turns them into ledger lines and stages both, the user commits, `freshness`
decides whether a repository may be used, `sync` copies the reviewed files of a
commit into the runtime and leaves a receipt, `installer` binds hooks that call
`capture`, and `doctor` and `retire` read what the others left.

`PROJECT.json` lists under "hazards" each place where this can go wrong in a
way a test would hardly reach, with the property that would notice.

## 2. The modules

| Module | Role | Models |
|---|---|---|
| `CandidateLifecycle` | abstract specification | what the queue promises about one candidate: uncaptured, queued, promoted or rejected; promoted only after a ledger held its lesson; both ends final |
| `LessonQueue` | component | the review queue, its lock, the Git index and the user |
| `MCLessonQueue` | instances for TLC | two candidates, up to two processes and two ledgers |
| `LessonQueue_proofs` | proofs | the inductive invariant and four consequences |
| `LifecycleRefinement_proofs` | proofs | `LessonQueue` implements `CandidateLifecycle` |
| `LessonLedger_proofs` | proofs | what the queue keeps in the ledgers and in Git |
| `AtomicSync` | abstract specification | what sync promises about the runtime files and the receipt together: all, nothing, or open |
| `Sync` | component | sync and the materializer, their lock, errors, deaths, and the user |
| `MCSync` | instances for TLC | two runtime files, up to two processes |
| `Sync_proofs` | proofs | types and control of sync, that foreign content is kept, the receipt, the next plan, recovery, and that `Sync` implements `AtomicSync` |
| `Freshness` | component | which commit of the private repository a command accepts, and `state attach` |
| `MCFreshness` | instance for TLC | one process, a history of three commits with a fork |
| `Freshness_proofs` | proofs | types, the memory that only moves forward, fetches, alarms, what attach leaves in the host's files, and what sync installs |
| `Installer` | component | the installation of the tool, its hooks and the runtime files, beside sync and the user |
| `MCInstaller` | instance for TLC | two releases |
| `Installer_proofs` | proofs | types, the user's edits, the receipts, the next plan, all or nothing |
| `Hook` | component | the lesson hook, what it prints, and the capture it makes |
| `Hook_proofs` | proofs | types, what is printed was valid, what is asked for is kept once |
| `MCHook` | instance for TLC | two hooks, two ledgers, seven kinds of event |
| `Retire` | component | the check of lessons for retirement, its receipts, and the user |
| `MCRetire` | instance for TLC | two lessons, one verifier, two definitions of it |
| `Retire_proofs` | proofs | types, what a receipt attests, what is fresh, and what the verdicts rest on |

### 2.1 `LessonQueue`: how it corresponds to the code

State.  `loc[c]` says in which of `inbox/`, `consumed/` and `rejected/` there is
a file of candidate `c`, and `rule[c]` what it holds: the two directories of an
interrupted reject are two links to one file, so they share their content.
`ledger[s]` is the set of lines of a ledger with their number, rule, origin,
`supersedes` and `superseded_by` fields and section.  `index` and `head` are the
Git index and the tree of HEAD.  `lock` is the holder of `promote.lock`;
`pc[p]` and `plan[p]` are the local state of a command.  `recorded` and
`replaced`, and `slipped` (2.2), are history variables: the code has no such
state.

| Action | Code (`local_promote.py`) |
|---|---|
| `PreviewPromote` | `plan_local_promote` 786-907, from the candidate's read to the plan hash |
| `PreviewReject` | `plan_local_reject` 1061-1098 |
| `StartApply`, `RefuseApply` | lock, plan again and compare: `apply_local_promote` 925-955, `apply_local_reject` 1150-1166 |
| `WriteLedger` | `_atomic_replace` of the ledger, 956-960 |
| `CompareCandidate` | the candidate's identity and bytes, and that `consumed/` is free, 966-971 |
| `MoveCandidate` | the rename of whatever bears the name by then, 972-973 |
| `StagePromote` | `git add` of the staged set, 974-981 |
| `LinkRejected`, `UnlinkInbox` | `_move_file_no_replace` of a reject, 1101-1130 |
| `StageReject`, `StageRejectFails` | `_stage_reject` and its check of the staged set |
| `RelinkInbox`, `UnlinkRejected` | the move back after a failed staging, 1185-1197 |
| `Interrupt` | the process dies, or an apply of a promote meets a file error: no step is undone |
| `Capture` | `capture.py`: a file with a fresh UUID appears in the inbox |
| `EditCandidate`, `ArchiveByHand`, `ResolvePair`, `GitAddCandidate`, `GitCommit` | the user |

What is abstracted, and why it does not matter to the properties:

- One repository holds the inbox and the ledgers, and there is one control
  root.  (Two control roots do not exclude each other; that is a listed hazard.)
- A preview, and the planning under the lock, are one atomic read each.  The
  code reads several files one after the other; what it read is bound by the
  hash and compared again.  The CLI's plan before the lock and the one under it
  are one comparison.
- A line's rule stands for all its fields (`trigger`, `cost`, `sink`, `when`).
  The rule's closing full stops are kept apart from its text because the
  renderer of the global and profile ledgers adds one (599) and the duplicate
  check does not know.
- The order of lines is left out; where the code takes the first line made from
  a candidate, the model takes any (`ResultIds`).
- For candidate files the index holds which directory, not which bytes.
- Edits by hand are: change the candidate in the inbox, move a line to the
  archive verbatim, and remove one of the two links of an interrupted reject.

### 2.2 The runs

| Run | Instance | Shows |
|---|---|---|
| `queue_race` | 2 processes, 2 candidates, 1 ledger, 1 death, 1 edit outside of applies | `OneFate`, `LedgerIdsUnique`, `SupersedeLinked`, `NoActiveDuplicate` in every interleaving of promotes (new, update, supersede), rejects, commits and captures; `NoLessonLost`: a stale plan never takes a lesson away |
| `queue_edits` | 1 process, 2 ledgers (one that adds a full stop), 1 death, 1 edit that may fall inside the apply | `TypeOK`, `ConsumedAsRecorded`, `StagedWhole`: a commit never has a consumed candidate without its lesson; `LifecycleSpec`: the queue implements `CandidateLifecycle` |
| `queue_retry` | 1 process, 1 death, fairness | `RetryConverges`: an interrupted promotion can be finished by the same command |
| `queue_toctou` | 1 process, 1 edit inside the apply | violates `ChangedLedgerRefused` (finding 2) |
| `queue_duplicate` | a ledger that adds a full stop | violates `ExactDuplicateBlocks` (finding 1) |

One gap between a look and the act that follows it is left in the code, and in
the model: the candidate is compared at 967-968 and renamed at 973, and an edit
in between is archived as consumed with a rule that no ledger recorded.  The
user makes that edit in `queue_edits` too; `slipped` remembers the candidates it
happened to, and `ConsumedAsRecorded` exempts exactly these.  Without the
exemption TLC finds the property violated.  After a death in the gap a retry
compares again, and the exemption ends.

Bounds.  `MaxId` (lesson numbers), `MaxCrashes`, `MaxEdits` and the finite
`CaptureRules` and `Texts` bound the instances.  Each hazard needs few of each:
a stale plan needs two processes, a number clash two candidates and three
numbers (a seeded line, an interrupted line, a new line), recovery one death,
the races with the editor one or two edits.  With `MaxId = 2` a promotion can
still be new, then update or supersede; with 3 both candidates get a line of
their own.  `PromotePlans` only yields numbers up to `MaxId`, so a promotion
past the bound is refused in the model; nothing else depends on it.
`queue_race` with two spellings of the rule (11 million states) and
`queue_edits` with one ledger and two edits gave the same answers.
`Symmetry` permutes processes and candidates, which the definitions treat
alike; the liveness run does without.  Deadlock is not checked: when all
candidates are promoted or rejected and all is committed, nothing is left to
do, and the program has indeed stopped.

Fairness (only in `queue_retry`).  `ProcessFairness` is weak fairness of the
steps of a running command: commands neither wait for each other (the lock is
non-blocking, `lock.py` 41) nor for input.  `UserRetries` is the user's half of
the recovery that README.md:114 and docs/LESSONS.md:94 ask for: preview again
and apply, committing what was staged in between.  The retry preview and the
retry apply need strong fairness, because the user may do other things with the
same process in between.  With two processes the property fails for a reason
the code does not exclude: another session may hold the lock at each try.  So
the run has one process, and the hazard is listed without a property.  In a
ledger that adds a full stop it fails too, as a consequence of finding 1: while
the promotion is cut off, another candidate with the same rule is accepted, and
the retry then meets that line as an exact duplicate.  So the run has a project
ledger.

### 2.3 What is proved

All for any number of processes, candidates, ledgers, crashes and edits and any
`MaxId`, from `ConstantsOK` alone: the sentinels are not members of the sets they
stand beside, the bounds are natural numbers, and the ledgers start with unique
numbers and lines of their own.

`LessonQueue_proofs`:

- `Invariant`: `Spec => []IInv`.
- `TypeCorrect`, `CandidatesHaveOneFate`, `ConsumedIsRecorded`,
  `LessonNumbersUnique`: `TypeOK`, `OneFate`, `ConsumedAsRecorded` and
  `LedgerIdsUnique` always hold.  Edits may fall at any step of any apply;
  only those in the gap of 2.2 are exempt, by the property's own statement.

`LifecycleRefinement_proofs`:

- `ImplementsLifecycle`: `Spec => LifecycleSpec`; each step of the queue is a
  step of the abstract life cycle of one candidate or leaves it as it is.

Why `IInv` is what it is.  `OneFate` is not inductive: `MoveCandidate` would be
free to break it if the candidate could be anywhere.  What the plan under the
lock has established must be carried from step to step, hence `ApplyWhere`
(where the file is at each program counter), which only survives the other
processes' steps because of `LockOwner`, and only survives captures because of
`Captured` and the user's resolution of a pair because that waits for a free
lock.  `ConsumedAsRecorded` needs, at the move, that the reviewed rule has been
recorded: by this very process's ledger write, or, when the apply converges, by
an earlier one, so every line in a ledger must spell a rule that was recorded
for its candidate (`LinesRecorded`), also the lines about to be written
(`PostRecorded`), which gives `MoveRecorded`; and that the candidate still spells
that rule when it is renamed, unless it was edited after the comparison
(`MoveCompared`).  Here the proof uses that the
renderer is injective on rules.  `LedgerIdsUnique` needs `PostUnique`: the
rendered text was parsed before it is written, and `ArchiveByHand` keeps the
numbers as they are.  `PlanTyped` lets the fields of a plan be used at all.

Each part was first checked by TLC as an invariant of the instances of
`queue_race` and `queue_edits`.

`LessonLedger_proofs`, from the same assumption:

- `LedgerInvariant`: `Spec => []LInv`.
- `SupersededAreLinked`, `NoRuleTwice`, `StagedIsWhole`: `SupersedeLinked`,
  `NoActiveDuplicate` and `StagedWhole` always hold, with edits inside applies.
- `OnlyOvertakenLoses`: with no assumption on edits, the only step that can take
  a lesson away is the ledger write of an apply that an edit made outside the
  lock has overtaken.
- `NothingLost`, `RefusedUnlessOvertaken`: if `EditsRaceApply = FALSE`,
  `NoLessonLost` and `ChangedLedgerRefused` hold.  The assumption is needed:
  `queue_toctou` shows what happens without it (finding 2).

Why `LInv` is what it is.  The invariants of the ledgers (`LedgersSound`) do not
survive a ledger write by themselves: the text written was rendered steps ago.
So a process carries from the lock on what holds of that text (`WriteKnows`: it
is sound, keeps what was there, and has its candidate's line), and after the
write that its candidate's line is there (`WrittenKnows`), unless it was
replaced meanwhile.  An edit by hand never adds or renumbers a line, so the
apply may overwrite it, and lose it, without making the ledger unsound: that is
why only `NoLessonLost` needs the assumption.  `StagedWhole` speaks of the index
and of HEAD, both of which are behind the ledgers; `TreeHeld` says how far: what
a tree has a line of, the ledger still has or has replaced, and a candidate that
a tree has as consumed is consumed for good and came with its line.

### 2.4 What is only model-checked

`RetryConverges` stays with TLC: liveness under fairness and ENABLED are out of
the prover's reach, as is induction over data (what a recursive function
computes for every input) and everything in a module with a RECURSIVE operator,
so the modules have none.

### 2.5 Findings

1. An exact duplicate is accepted in the global and profile ledgers.
   docs/LESSONS.md:88 and docs/DESIGN.md:29 say it blocks a new line.
   `_local_entry` (599) appends a full stop, the duplicate check (646-660)
   compares with the rule as the candidate spells it.
2. README.md:114 says apply refuses if a ledger changed after the preview.  It
   does up to the comparison under the lock (925-935); the write that follows
   replaces the file with text rendered from the copy read there, so an edit by
   a program that takes no lock is overwritten.  `NoLessonLost` is therefore
   checked where edits do not fall inside an apply (`EditsRaceApply = FALSE`).

## 3. Sync

### 3.1 `Sync` and `AtomicSync`: how they correspond to the code

State.  `disk[x]` is the value of a path: path 0 is the materialization receipt,
1 to `N` are the runtime files in the order of the plan.  A file is its content
and its executable bit; a receipt is a row per file (`installed_sha256`,
`executable`, `status`) and the commit it was made for.  `want` is what the
checked-out commit wants of each file.  `pending` is the marker
`txn/materialization-pending.json`; `snap` is the open snapshot: old and new
value of every path, which files change, which copies are there; `aside` is what
its directories `.transaction/detached`, `.rollback/detached` and
`.rollback/rollback-detached` hold.  `lock`, `pc[p]`, `plan[p]` and `job` are the
control of the commands: `job` has the path at hand, the direction, and the
error that turned it round.  `hand` and `touched` are history variables.

| Action | Code |
|---|---|
| `Preview` | `execute` without `--apply`, `sync.py` 755-800: review, plan hash if ready |
| `Begin`, `Refuse` | lock, no marker, plan again, compare the hash, 809-847 |
| `Snapshot` | `_snapshot_materialization` 629-698: copies, manifest, marker |
| `CheckFile` | the look before each change: `materialize_bytes` 925-945 forward, `_rollback_materialization` 711-727 and `restore_file_preimage` 986-990 back |
| `LinkAside`, `UnlinkPath` | `_move_no_replace(path, detached)`, `materializer.py` 873-885 |
| `InspectAside`, `PutBack` | 954-960 |
| `Place`, `Chmod`, `CheckPlaced`, `CheckGone` | 961-967, 939-944, 1007 |
| `Verify` | every active and retained file as planned, then the receipt, `sync.py` 880-896 |
| `ClearSnapshot`, `RemoveMarker` | `_clear_materialization_transaction` 742-744 |
| `Fault`, `ClearFails` | an exception at a step: `Error` starts the rollback, or ends it, 898-917 |
| `Crash` | the process dies; the system frees its lock |
| `HandEdit`, `SourceChange` | an editor or another program; `git` in the private repository |
| `MoveLegacyAside`, `ClearMarker` | what the error texts ask the user to do |

The operators of the review (`Owned`, `Bootstrap`, `Blocked`, `Changing`, `Kept`,
`Ready`, `NextBook`) are `review_materialization` 446-704, with the statuses
folded into the questions asked of them.

`AtomicSync` is what the component promises: a transaction opens with a goal
and closes with every path as it was or every path as the goal has it, or stays
open.  `Sync` implements it with `tree` as the disk while there is no marker
and as the snapshot's old values while there is one.  Paths others have changed
are exempt, and nothing else is.

What is abstracted:

- Contents are members of a small set.  HEAD is identified with the tree it
  holds, and the receipt's generation, which only counts, is left out: a plan
  whose commit, files and receipt are back to what they were is accepted, where
  the code refuses it; its effect is the same.
- The configuration does not change.  An old installation (`legacy`) is what
  its `install-receipt/1` says of each file; a receipt edited by hand is missing
  or unreadable.  A file is absent or ordinary.
- A review is one atomic read of all files.  So is the second review that
  `execute` makes under the lock (830), and the state repository does not move
  between the two.
- Staged temporary files, the backup copies of `_backup` and the directories
  that a process dying before its marker leaves are left out: nothing reads
  them.  The freshness check and the legacy migration at the start of an apply
  succeed.
- The moves are POSIX ones, a link and an unlink; Windows renames in one step.
  The reverse move of `PutBack` is one step, and a fault in it is a fault before
  it.

### 3.2 The runs

| Run | Instance | Shows |
|---|---|---|
| `sync_edits` | 2 processes, 1 new commit, 2 edits, 1 fault, 1 death | `HandKept`: no foreign content is lost; `AtomicSpec`: `Sync` implements `AtomicSync`; `ReceiptTrue`: the receipt tells the truth about every file nobody else has changed |
| `sync_healthy` | 1 process, 2 new commits, 1 fault, 1 death, with and without an old installation of both files, fairness | `TypeOK`; `NeverSelfBlocked`: the next plan is ready whatever failed, but for orphans; `KilledSyncRecoverable`: a killed sync can be undone or completed by hand; `EventuallyHealthy`: whoever keeps syncing gets a runtime that doctor passes |
| `sync_rollback` | 1 new commit, 1 fault | violates `RollbackRestores` (finding 3) |

Bounds.  `N = 2` files give a transaction a first and a last file, so that one
may be written and the other not, in both directions.  The three trees change a
content, a mode, both, drop the second file and bring it back with another
content, so that all actions of the review occur.  One fault and one death are
what the promises are about; two edits allow one before and one inside the
rollback, or a delete and a rewrite.  `MaxChanges`, `MaxEdits`, `MaxFaults`,
`MaxCrashes`, `HandFiles` and `Trees` are the bounds, each in the guard of one
action.  Larger instances (two processes with two new commits, three edits; 6
million states each) gave the same answers.  `Symmetry` permutes the processes.
Deadlock is not checked: with no marker cleared and the bounds used up, the
program has nothing to do.

`RaceWindows` names two windows in which the code cannot notice an edit.
`"unlink"`: `_move_no_replace` links the old file aside and then unlinks the
*name* (881-882), so that a file that took it in between is removed unseen.
`"removal"` is its like in the rollback: to remove a file that the apply
created, `restore_file_preimage` looks at it (986), moves aside whatever is
there by now (1006) and, unlike `materialize_bytes` (954), does not look at what
it moved; the directory is then deleted with the snapshot (`sync.py` 743).  With
`RaceWindows = {"unlink"}` and one edit, or with `{"removal"}`, one edit and one
fault, TLC finds `HandKept` violated.  Both windows are closed in the passing
runs, that is, the user makes every edit but those: the runs do not catch these
two hazards, they show how far `HandKept` reaches.

Fairness (only in `sync_healthy`).  Weak fairness of the steps: an apply does
not wait for anything once it has the lock.  Weak fairness of the preview: the
user, or the session hook, keeps running sync.  There is one process, because
nothing keeps a second session from holding the lock at each try.
`EventuallyHealthy` exempts what waits for the user: a marker, a file changed by
hand, an unreadable legacy receipt, an orphan.

An orphan is a limit of the code that the proof of `NeverSelfBlocked` brought to
light: a file of an old installation that the commit of the first sync does not
want.  The old receipt counts only as long as there is no new one
(`materializer.py` 495-498, 592-605), and the new one carries over only rows of
its predecessor (640-655), so it never has a row for that file.  A later commit
that wants other content there finds the file foreign, and the plan is refused
until the user moves it away.  No documentation says otherwise; the two
properties exempt exactly these files (`Orphan`).

### 3.3 Findings

3. README.md:110 says that an error on the way restores the files already
   written.  If the error falls after the old file was moved aside (953) and
   before the new one is linked in (961), the rollback finds neither under the
   name: `restore_file_preimage` (986-990) raises, the rollback ends there, the
   file stays in the snapshot and the files before it stay written.  The marker
   stays too, so `AtomicSpec` and `KilledSyncRecoverable` hold.
### 3.4 What is proved

`Sync_proofs`, for any number of processes, files, commits, edits, faults and
deaths, from `ConstantsOK` alone (the sentinels are no values, foreign contents
are not the repository's, the bounds are natural numbers):

- `ControlInvariant`, `TypeCorrect`: `CInv`, and with it `TypeOK`, always hold,
  in the race windows as well.
- `Invariant`, `HandContentKept`: if `RaceWindows = {}`, `IInv`, and with it
  `HandKept`, always hold.  The assumption is the one of the run `sync_edits`;
  without it the property is false, as section 3.2 says.

Why `IInv` is what it is.  `HandKept` allows content to be aside, but a later
step removes what is aside (`ClearSnapshot`, `RemoveMarker`), so the proof must
say when content can be aside and nowhere else (`Missing`).  `MissingHeld` has
the answer: only while the apply that moved it there is still looking at it, or
while a rollback is on its way down to that file; and it cannot get past it,
because at a file that is absent, that had an old version and is to have a new
one, `CheckFile` can only give up, which leaves the marker and the directories
(`MissingAside`).  That in turn needs that only files with a new version are
changed and that no foreign file is (`SnapClean`, from `Ready` under the lock),
so that `InspectAside` tells foreign content from what was reviewed.
`UnlinkSafe` is where the windows matter: what the unlink takes away has a
second link, and what the rollback removes is not foreign.  `ApplyKnows` says
where a process in an apply is, and `LockOwner` that it is the only one.

The proof treats the ways of going on once (`OnwardStep`, `ToFileStep`,
`ProceedStep`, `ErrorStep`, `FinishStep` for the control, `OnwardHand`,
`ProceedHand`, `ErrorHand` for foreign content), as the model does, and each
action in a lemma of its own.  Every part of `IInv` was first checked by TLC on
the instance of `sync_edits`.

The second half of `Sync_proofs`, from `ConstantsOK` alone and with both race
windows open:

- `PathsInvariant`: `Spec => []RInv`.
- `ReceiptTellsTruth`, `NotSelfBlocked`, `KilledIsRecoverable`: `ReceiptTrue`,
  `NeverSelfBlocked` and `KilledSyncRecoverable` always hold.
- `ImplementsAtomic`: `Spec => AtomicSpec`, with the refinement mapping of
  section 3.1; each step of `Sync` is a step of `AtomicSync` or a stutter.

Why `RInv` is what it is.  All of it speaks of the paths nobody else has
changed.  `ReceiptTrue` compares files and receipt, which an apply changes one
after the other, so it says nothing while one runs; what makes it true at the
end is that every path is then as one image of the snapshot has it, and that
both images are honest (`SnapKnown`): the old one because the disk was when the
snapshot was taken (`Idle`), the new one because the receipt is made for the
files beside it (lemma `BookHonest`).  That every path is so needs, at each step,
which paths are done with and are as wanted, and which are still as reviewed
(`OthersKnown` over `Done`), in both directions; and of the path at hand what
the steps at it have established so far (`HereKnown`), down to which link of the
file is the last.  `WayKnown` says that the copies are complete until they are
removed, which `KilledSyncRecoverable` needs, and that without a fault and a hand
there is no way back.  A rollback that cannot go on leaves its marker, with which
`tree` is the old image and nothing is asked of the disk; the user who clears the
marker (`ClearMarker`) has put the files right, and exempts every path.
`RInv` was first checked by TLC with
all old installations and both windows open (2.1 million states).

### 3.5 What is only model-checked

`EventuallyHealthy` is liveness under fairness and stays with TLC.

## 4. Freshness and attach

### 4.1 `Freshness`: how it corresponds to the code

State.  `main` is the remote's branch, `tracking` the clone's `origin/main`,
`head` and `tree` what is checked out and what `git status` says.  Commits are
model values, and `Past[c]` is `c` with its ancestors, so that `git merge-base
--is-ancestor` is membership.  `known` is `txn/remote-state.json` and `legacy`
the file an older version left beside the default configuration; either may be
missing or damaged.  `config` is `host.json`: its `state_root`, and a note that
stands for everything else in it.  `binding` is the receipt attach writes.
`seen[p]` is what the running command of `p` has read, `plan[p]` what it
previewed.  The remaining variables are history.

| Action | Code (`freshness.py` unless named) |
|---|---|
| `Preview`, `Start`, `Leave` | `sync.py` 764-845: plan and hash; lock; the end of a command |
| `Migrate` | `migrate_legacy_remote_state` 365-409 |
| `Fetch`, `ReadRef`, `ReadStatus`, `ReadCounts`, `CheckKnown` | `inspect` 446-473 and `require_fresh` 493-519, one git call at a time |
| `Record`, `Install` | `record_remote_head` 412-429; `sync.py` 815-845, whose placing of files is `Sync` |
| `Report` | doctor's parity check, and `capture`'s base revision |
| `Validate`, `ValidateAgain`, `InspectAttach` | `state.py` 525-563 and 584-680 |
| `WriteConfig`, `WriteBinding`, `WriteRemote`, `Attached` | `state.py` 697-705 |
| `WriteFails`, `UndoRemote`, `UndoBinding`, `UndoConfig`, `UndoFails` | `state.py` 706-722 |
| `Interrupt` | the process dies at any step |
| `RemoteMoves`, `UserFetch`, `UserGit`, `EditConfig` | other hosts' pushes, also forced; the user's git commands and editor |

What is abstracted.  A validation of attach is one read (it compares everything
again after the fetch, 656-665).  The separate read of HEAD in `inspect` is left
out, as nothing that follows depends on it.  Dirty and unmerged trees are one
value, since both are refused; a missing origin or a missing `main` is a fetch
that failed.  The files attach writes are replaced in one step each.
`capture`'s baseline is the legacy file, because its control root is
`~/.agent-core` by default (`capture.py` 469), where only an older version has
left one; `sync` and `doctor` use `txn/remote-state.json`.

### 4.2 The run

`freshness` has one process, three commits of which two are siblings, and three
events, an event being a push, a git command, an edit, an error or a death.

- `RememberedOnlyForward`: whenever the lock is free, what the host remembers
  descends from all it ever remembered.
- `InstalledOnlyForward`: sync installs only what is committed, what was the
  remote's main while the command ran, and what descends from the last
  installation.
- `FetchedRemote`: a command never passes on an older fetch.
- `BindingTrue`, `ConfigKept`: the three files of an attach agree, whatever
  failed; the rest of the user's configuration is untouched.
- `AlarmTrue`: an advance is never reported as a rewind by a command that holds
  the lock.  Doctor and capture read without it and may report one falsely when
  a sync records in between; with one process that does not happen, and the
  property does not speak of them.

Bounds.  One rewind needs one push, getting the clone to follow it one or two
git commands; a failing rollback needs two errors.  With four events (7.2
million states) the answers are the same.  A second process would be excluded
by the lock from everything but doctor, capture and fetches, and a fetch is
`UserFetch`.

`RaceWindows` names three windows that the code cannot see into, all closed in
the run, that is, the user does everything but this.  `"checkout"`: another
commit is checked out between the status and the review, which the plan hash
notices only if the preview was not for that commit; then `InstalledOnlyForward`
is violated.  `"ref"`: a fetch of the user's between the reading of `origin/main`
and the counts, so that an older commit is recorded than is installed; with
five events `InstalledOnlyForward` is violated, through a remote that is rewound
twice.  `"config"`: an edit of `host.json` after the second validation is
overwritten; then `ConfigKept` is violated.  Each of the three was found by TLC
with the window opened; closed, the run does not catch them.

The next-state relation has no state without a step (deadlock is checked).  No
fairness: every property is a safety property.

### 4.3 What is proved

All for any number of processes and events and any history of commits, from
`ConstantsOK` alone: `Past` is a partial order, and the sentinels are no members
of the sets they stand beside.  The run has one process; the theorems say that
several make no difference, but for what sync installs (`OnlyForward` below).

In `Freshness_proofs`, with every window open:

- `Invariant`: `Spec => []IInv`.
- `TypeCorrect`, `NeverGoesBack`, `PassesFetched`, `AlarmsTrue`: `TypeOK`,
  `RememberedOnlyForward`, `FetchedRemote` and `AlarmTrue` always hold.

In its second part, if `"config"` is no open window, which is needed:

- `BindingInvariant`: `Spec => []BInv`.
- `ConfigSafe`, `BindingCorrect`: `ConfigKept` and `BindingTrue` always hold.

In its third part, for any number of processes:

- `OnlyForward`: `InstalledOnlyForward` holds of every behaviour that is never
  disturbed (`[][Undisturbed]_vars`): nobody fetches between a sync's reading of
  `origin/main` and its counts, and nobody checks out or edits the clone between
  its status and its review.  Both are needed: 4.2 says what TLC finds when a
  window is open.
- `OnlyForwardAlone`: one process alone, with the two windows closed, is never
  disturbed; this is the assumption of the run, and the theorem extends it to
  any number of events and any history.

Why `IInv` is what it is.  `RememberedOnlyForward` speaks of the times when the
lock is free, but a commit is compared with the memory steps before it is
written, so each process carries what its comparison showed until then
(`Advances`): what it will record or put back descends from everything ever
remembered.  That uses that between comparison and writing the memory is
`known`, not the legacy file, which is what the migration under the lock is for
(`Settles`).  `Timely` ties what was read to the time of the command, and
`Knows` says what each step has established.  For `AlarmTrue`, `Peace` and
`Calm` say that as long as the remote only advanced, what is remembered, what
was read and `origin/main` are each behind the next.  A step is treated by what
it does to the invariant: the command goes on (`OnKeeps`, and `KnownKeeps` if it
writes the memory), it ends (`OffKeeps`), the remote side moves (`RemoteKeeps`)
or nothing that matters changes (`AsideKeeps`).

`BInv` follows attach through its files: what the saved configuration and
receipt are worth once it has compared them (`Holds`), so that a rollback from
any step leads back to a receipt that goes with the configuration (`Agrees`).

`SInv` is for the third part.  A sync passes if the counts say that HEAD is
neither behind nor ahead of `origin/main`, two commits that are each other's
ancestor are the same (`Past` is antisymmetric), and so HEAD is the commit the
sync read, will remember, and installs, if none of them has moved since
(`InLine`).  That it descends from what was installed before needs no memory of
its own: what is installed is by then remembered, and what is remembered only
moves forward, by `IInv`.  With a second process, closed windows are not enough:
a `doctor` fetches without the lock and does what the window `"ref"` lets the
user do.  That is why `OnlyForward` speaks of the fetch and not of who makes it.

## 5. Installer

### 5.1 `Installer`: how it corresponds to the code

State.  `disk[x]` is the content of a path: the tool (its directory, launcher
and wrappers), the runtime files, the pin that selects the tool's version, the
hooks in the runtime's settings, the configuration, the binding, the remembered
remote, the materialization receipt and the install receipt.  A content is the
releases whose bytes it holds, several only for hook groups, and the last edit
of the user in it.  `snap` has the old and the new image, `aside` the edits of
the user that the snapshot's directories hold; `job` is the running
installation with what is left to do, its direction and its error.  `hand`,
`touched`, `torn` and `stash` are history.

| Action | Code (`installer.py`) |
|---|---|
| `Preview` | `_plan_install` 1373-1441, with `_classify_install` 974-1136 and the plan's hash |
| `Begin` | `_apply_install_locked` 2053-2105, the fetch, and the plan again |
| `Snapshot` | `_snapshot` 1461-1563 and the marker 1867-1876 |
| `Attach` | `state attach` without its remote baseline, 2167-2183 |
| `CheckPath` | `_assert_object_preimage` and its like, 1328-1350; `Verify` 1919-2015 |
| `Detach`, `DropName` | `_move_no_replace` 373-398, called by `_detach_owned` 462: the link into the snapshot and the unlink of the name |
| `Inspect`, `Place` | `_detach_owned` 463-470, `_replace_owned_bytes` 479-493 |
| `UndoFile`, `Unlink`, `Restore` | `_restore` 1566-1604, `_restore_hook_bindings` 1618-1656, `_remove_path` 1452; which races end the rollback and which leave the rest of the files and restore the receipts (`LeaveFiles`), 2312-2322 |
| `UndoReceipt`, `UndoHost` | 1679-1762 and 1709-1730 |
| `Clear` | 2385-2400: the marker goes unless there was a race |
| `Fault`, `Crash` | an exception at a step, which counts as a race within a move (394-397); a kill |
| `Edit`, `Strip`, `MoveAside`, `Inspected`, `Upgrade` | the user; `Save` says what a save in place, or as a new file, does to a file with two names |
| `SyncRuntime` | `sync --apply`, whole: for its steps see `Sync` |

`Merged` is `merge_owned_hooks` of `runtime_config.py` (230-325): the owned group
is replaced in place, or one is appended.  `BlockedTool`, `BlockedRuntime`,
`BlockedHooks` and `Ready` are the review.  `Placing` and `Undoing` are the
orders in which paths are written and restored; they differ.

What is abstracted.  The three events of a runtime's hooks are one group, both
runtimes are one.  `Begin` merges the review under the lock, the freshness
check and the assertions that nothing changed since; an edit between them is an
edit before.  A path is moved away as on
Linux: a file by link and unlink, with whatever happens in between; a directory
by a rename, which is the case of nothing happening in between.  The link and
unlink of a placement are one step, since its source is the installation's own
staged file.  The modes of files (mode drift) are in `Sync`, the three files of
attach in `Freshness`.  Releases
only move forward; upgrades, previews and syncs happen while no installation
runs, as the lock and the plan hash enforce.  The rebind of the configuration is
confirmed by the user.  Receipts are as written, missing, or of another release,
never damaged.

### 5.2 The run

`install` has two releases, two edits, one fault and one kill (7 million
states).

- `HandKept`: what the user wrote, outside the three windows below, is at its
  place or in a snapshot that is kept.
- `HandInPlace`: if no marker asks the user to look, it is at its place.
- `ReceiptTrue`: without a marker, the install receipt's release is the one of
  the tool, of the pin and of exactly one hook group, and the materialization
  receipt's that of the runtime files, save what the user touched.
- `AllOrNothing`: an installation that ends without a marker leaves the paths
  nobody else touched all as before or all as planned, the configuration and the
  binding among them.
- `NeverSelfBlocked`: neither upgrades, failures and syncs, nor the user's edits
  of their own hooks and configuration, nor a first installation killed at any
  step and retried make the next plan refuse.

Bounds.  Two releases make each path new, replaced and unchanged; an edit
before and one inside, or two inside, meet a rollback that a fault started; a
kill comes at every step, and after it the user clears the marker and installs
again.  Deadlock is not checked: with the bounds used up and a plan that is
refused until the user moves a file, nothing is left to do.

`HandWindows` names three windows, all closed in the run, that is, the user makes
every edit but those.  `"unlink"`, forward: a new file is put under the name
after the old one was linked into the snapshot and before the name is unlinked
(388-389).  It is removed unseen; what `Inspect` then looks at is the old file,
as reviewed, so that the installation succeeds and leaves no marker.  (A save in
place there is no such edit: it changes the file under both its names, `Inspect`
sees it, and the run makes it.)  `"remove"`, in the rollback: `_remove_path`
unlinks whatever is there by then, after `_restore` looked (1594-1604).
`"config"`, in the rollback: `_rollback_host_records` (1709-1730) writes the
configuration back unconditionally.  With any one of the three opened TLC finds
`HandKept` violated; closed, the run does not catch them.

Two things the model shows that no property forbids.  A plan that finds nothing
to change writes no binding, so that `install --confirm-private-remote` can
pass without attaching (2145; docs/QUICKSTART.md:73 and
tests/test_install.py:1349-1364 have it so).  And when the install receipt is
moved aside, as the refusal's advice has it (1013), or the process is killed
before it is written, and another release follows, the old hook group is
nobody's: it stays, and a second one is added (`Stray`, which `ReceiptTrue`
exempts).

### 5.3 What is proved

`Installer_proofs`, for any number of releases, edits, faults and kills, from
`BoundsOK` alone, whose only assumptions beside the ranges of the bounds are
that the sentinels are no members of the sets they stand beside:

- `ControlInvariant`: `Spec => []CInv`, and `TypeCorrect`: `TypeOK`.
- `PathInvariant`: `Spec => [](CInv /\ PInv)`, with all three windows open, and
  from it `ReceiptsTrue`, `NotBlocked` and `AllOrNone`: `ReceiptTrue`,
  `NeverSelfBlocked` and `AllOrNothing`.
- If `HandWindows` is empty, `EditsKept`: `Spec => [](CInv /\ HInv)`, and from it
  `NothingLost` and `StillInPlace`: `HandKept` and `HandInPlace`.  The run makes
  the same assumption, and 5.2 says why each of the windows has to be closed.

Why the invariants are what they are.

`CInv`: what a command has still to do is the rest of one of three orders
(`Rests`), the placements, the rollback, or the baseline alone; which step goes
with which direction, error and path (`Ctl`); that the marker stands from the
snapshot to the end, and that every receipt is of one release.

`HInv` follows each edit.  `Apart`: no edit is in two paths, so that losing one
cannot be hidden by another.  `HandHere`: an edit is at its path or, from the
moment it is moved away, in `aside`, or in a snapshot kept for good (`stash`);
without a race, one that is not at its path belongs to a path about to be put
back (`Loose`), which is why it is back once the command is over.  `Guarded`:
what a step has looked at is still so when it acts.  This is what the windows
break, and the reason that the theorem needs them closed: the unlink of a move,
`_remove_path` and `_rollback_host_records` act on what was, and nothing on the
disk can make up for it.  `Elsewhere`: no edit of the user is in a path the user does not write.

`PInv` says what is in each path.  Between commands the disk is `Whole`: a
receipt goes with paths of its release, and where there is no receipt there is
nothing, or what the first installation left that was cut off (`torn`), save
what the user touched.  Inside a command both images of the snapshot are known
(`Images`: the old one is whole, the new one is of one release, `Aim`), and each
path is, forward (`Fwd`), as in the old image if it is ahead, as in the new one
if it is done, and empty once it was moved away; on the way back (`Back`) as one
of the three until it is undone, and then as in the old one, unless there was a
race, and then the marker stays.  The rollback has an order of its own and does
not undo the binding and the configuration one by one (`"host"`), so that what
is behind is stated by what is still ahead, not by an index.

The three invariants were checked by TLC, on the instance of the run, before
they were proved; `CInv` and `PInv` with the windows open as well.  No liveness
is stated of the installer, so no property of its run is left to TLC alone.

## 6. The hook

### 6.1 `Hook`: how it corresponds to the code

State.  `ledger[s]` is a version, for the file's time and size, and a text, for
its lessons and whether the checker and the parser accept it (neither implies
the other).  `heartbeat` is the file all hooks share.  `cand[h]` says where the
candidate that hook `h` made is, and whether it is whole.  `lock` is the
operation lock, `run[h]` what a hook has found out.

| Action | Code (`match.py` unless named) |
|---|---|
| `Start` | `main` 719-733, the payload |
| `Sign`, `Compare`, `Validate` | `_hook_source_signature` 235-255, `_validate_hook_sources_if_changed` 269-281 |
| `Load` | 737-753: load, match, render, print |
| `TryLock`, `Scan` | `capture.py` 388-438 and 356-380 |
| `Create`, `Write` | `candidates.py` 59-87 |
| `CaptureFails` | every refusal of `capture.py` 190-265, and `candidates.py` 90-92 |
| `Record` | `_record_hook_heartbeat` 284-333, whose failure is swallowed (332) |
| `Kill` | the runtime kills the hook |
| `Edit`, `TakeLock`, `ReleaseLock`, `Review`, `ByHand` | the user, promotions, rejects |

`Query`, `Matches`, `MatchLessons` and `Render` are the pure part:
`query_from_payload`, `_match_lesson`, the sort key and the truncation.
`PrintedFirst` is their reference definition, by sets: the largest set of the
lessons that match, closed under the order, that fits.

What is abstracted.  Words, globs and commands are tokens, a condition's field
is met by a common token.  Every edit gives the ledger a time or size it did not
have; an edit that keeps both is not noticed by the hook and is excluded.  The
profile ledgers, explain mode and the command line's `lessons match` and `eval`
are left out.  A candidate is written and synced in one step after it is
created.  Explicit captures carry no request and are in `LessonQueue`.

### 6.2 The run

`hook` has two hooks, each running once with any of seven events, three texts
for the global ledger and one for the project's, one edit, and two of: a failure,
a kill, a review, an action by hand.

- `PrintedValid`: no lesson of a ledger the checker refuses is printed, though
  most hooks do not check: the signature in the heartbeat, whoever wrote it,
  stands for a validated ledger.  Exempt are hooks under which a ledger was
  changed between their signature and their reading.
- `PrintedFirst`: see above.
- `OncePerRequest`: two answers that ask to keep the same thing make one
  candidate, unless one was unreadable and was repaired by hand.
- `SilentMeansKept`: a capture that ends without a warning has its request in the
  inbox or among the promoted.
- `EveryHookEnds`: docs/DESIGN.md:47, a hook never holds up the runtime.

Bounds.  Two hooks are what sharing the heartbeat, the lock and a request takes.
The budget of 5 characters fits two of three lessons, or one and the line that
says how many are left out, so that every case of the truncation occurs.  With
two edits (1.3 million states, safety only) the answers are the same.

Fairness.  `WF_vars(HookStep(h))` for each hook: a process that the operating
system runs takes its next step.  Nothing is assumed of the lock's other
holders, of the runtime or of the user; that the hook ends all the same is the
point.  Deadlock is checked.

Not promised, and so not checked: that every run writes a heartbeat
(docs/DESIGN.md:47 says so, but a failure to write is swallowed), and that
`doctor` sees each warning: the heartbeat is that of whichever hook wrote last.

### 6.3 What is proved

`Hook_proofs`, for any number of hooks, events, ledgers, texts, edits, faults,
kills and reviews, from `ConstantsOK` alone:

- `Invariant`: `Spec => []HInv`.
- `TypeCorrect`, `OnlyValidIsPrinted`, `FirstIsPrinted`, `KeptOnce`,
  `NothingLostInSilence`: `TypeOK`, `PrintedValid`, `PrintedFirst`,
  `OncePerRequest` and `SilentMeansKept` always hold.

Why `HInv` is what it is.  `PrintedValid` rests on a file all hooks write: a
signature in the heartbeat must be one of ledgers that were valid, also when the
hook that left it died long ago, and a hook that skips the validation must know
the same of the versions it has signed.  This holds because versions are not
used twice: what was valid at a version stays so.  `OncePerRequest` needs that
between the scan and the new candidate nobody else makes one for the same
request, which is the lock's doing, and that the scan sees what is there: whole
candidates, and a partial one only as a reason to refuse.

`PrintedFirst` is about data of any size and is proved without induction.  A hit
has as its place the number of hits that precede it; places are different, so by
counting they are 1 to the number of hits (`RankOrder`), and the sorting that
`MatchLessons` chooses exists (`MatchesSorted`).  A closed set of hits is a
beginning of it (`ClosedIsFirst`), again by counting, and the greatest number of
lines that fits exists because the last line alone does (`Greatest`,
`RenderedFirst`).  `ConstantsOK` gives what this rests on: the budget holds the
last line (`budget_chars` is at least 32), a line of a ledger holds one lesson,
and the ledger gives its lessons their scope.  Two lessons with the same number
are allowed: the code's sort is stable and the order takes the line last.

`EveryHookEnds` is liveness and stays with TLC.

## 7. Retire

### 7.1 `Retire`: how it corresponds to the code

`agent-core lessons retire` says of each active lesson whether it may go on: from
*pending* to *checklist* when its sink names it, from *checklist* to *enforced*
when its verifier's probes succeed, from *enforced* to the archive when an
earlier success is still good and the probes succeed again.  It changes no
lesson; it leaves receipts, which the user files and names in the ledger.  It
takes no lock, and one command may last minutes, so that everything it reads may
change between two of its steps.

State.  `entry[l]` is the lesson's line, `manifest` is
`enforcement/verifiers.json`, `tree` the files, `filed[l]` the receipts in
`evidence/<l>/`, `pending` those in `evidence-pending/` of the control root.
`run[c]` is what a command has read and said.  `disturbed` and `soiled` are
history: commands whose files were edited during their probes, or their
manifest between its reading and the comparison, and the receipts made so.

| Action | Code (`retire.py`) |
|---|---|
| `Start` | `inspect_lifecycle` 435-451: ledgers, then the clock |
| `LoadVerifiers` | 452-455: the manifest; one that cannot be read has no verifiers |
| `Inspect` | 456-493: sink, status, verifier, evidence |
| `ReadReceipt`, `ReadDefinition`, `Compare` | `verify_receipt` 385-426 and 494-508: the receipt, the manifest once more, then files, runs and age |
| `ReadInputs`, `Probe`, `Judge` | `_generate_receipt` 291-317, one probe a step |
| `Finish` | 517-541 |
| `Kill` | death, or an exception that is not a `ConfigError` |
| `EditFile`, `EditManifest`, `EditEntry`, `FileReceipt`, `LoseReceipt`, `SetClock`, `Tick` | the user, by hand or with git, and the host's clock |

`Start` is with or without `--verify` (which needs `--allow-exec`; `--report` is
without) and `--strict`.  A command that is over or was killed can be started
again.

What is abstracted.

- A definition of a verifier has the files it needs (arguments that look like
  paths, and consumers), those it depends on (these and its scope), and for each
  probe the contents of them with which it exits with 0.  That a probe depends on
  nothing but the files the definition names is assumed: the code cannot see it,
  and a receipt could not mean anything without it.  A
  timeout (exit 124) and a command that cannot be started (127) are failures, as
  in `_run`.
- The files of one verifier are read in one step, and a probe sees them at one
  moment.  An edit during a probe makes the command `disturbed`, whatever the
  probe saw.  An edit between two reads of `_related_inputs` may make the code
  note contents that were never there together; the model does not have this.
- A receipt in `evidence/` that is damaged, or not under the name of its digest,
  is one that is missing; the schema of a receipt is left out, since those with
  the right digest were written by `_write_receipt`.  `verified_revision`,
  `engine_version` and the digests of the output are not read by anyone.
- A lesson's id is in one ledger only.  The order of the lessons is that of the
  ledgers, which may be any.  Other statuses than the four are for `lessons lint`.
- The ledgers and the clock are read in one step, since the clock moves on its
  own.

### 7.2 The run

`retire` has one command, run again and again, two lessons (*checklist* and
*pending* at first), a file with two contents, two definitions of the verifier
that differ in what they accept, four probes, and two edits of any kind.

- `AttestsInputs`: with the files a receipt names, and by the definition it
  names, the probes end as it says.  The files are noted before the first probe
  and not looked at again, so a file that is edited while they run, and perhaps put
  back, makes it false; such receipts (`soiled`) are exempt.  Noting the files
  when the receipt is written instead would not do either: an edit after the last
  probe would be attested unseen.
- `FreshHolds`: a step that finds a receipt fresh does so when the probes of the
  definition now in the manifest would succeed with the files as they are, though
  the receipt may be days old, was carried there by hand, and the ledger, the
  manifest and the clock were read earlier.  Exempt are a manifest edited between
  its reading and the comparison, and soiled receipts.  `.days` rounds down, so
  that a receipt is good until it is a full day older than `--max-age-days`.
- `VerdictsBacked`: each lesson gets one verdict, *ready* was verified by this
  very command and its receipt is kept, *ready to archive* had a fresh receipt
  besides, and a command that verifies and exits with 0 left out no checklist
  lesson, save one with a broken sink if not `--strict`.

Bounds.  One file and one verifier are enough for a receipt to be wrong in either
of what it binds.  Two edits are what filing a receipt and changing one thing
take, or changing a file and putting it back.  Two commands share only the
directory of receipts, to which each adds files named by their content; the run
has one, and the proofs any number.  With `MaxAge = 0`, days of one tick and a
clock of two values, set back as well as forward, a receipt is good, expired or
from the future.

No liveness is stated: a command takes one step after the other without waiting
for anyone, and a probe is a step that ends because it has a timeout of at most
120 seconds (130).  Deadlock is checked.

### 7.3 What is proved

`Retire_proofs`, for any number of commands, lessons, verifiers, files,
definitions, probes, edits and any clock, from `ConstantsOK` alone:

- `TypeCorrect`, `ReceiptsAttest`, `VerdictsHaveReasons`: `TypeOK`,
  `AttestsInputs` and `VerdictsBacked` always hold.
- `FreshIsReal`: `Spec => FreshHolds`.

The invariant is `TypeOK`, `Traced`, `Tells` and `AttestsInputs` together.
`TypeOK` has, with each step of a command, what it relies on there (`RunOK`): a
receipt to be read, a definition, all the runs to be judged.  `Traced` follows
what commands and lines hold back to its origin: a receipt that a line names was
left by a command, and came through the hands of the user unchanged; the runs a
command has so far are the outcome of the probes with the files it has noted, and
these are still what is there unless it is `disturbed`; the definition it read is
the manifest's unless that was edited.  `AttestsInputs` is then what `Judge`
makes of it.  `Tells` is about the verdicts: what was said is about lessons no
longer to do, once each, and with its reason.  `FreshHolds` needs them all at one
step, `Compare`: that receipt and files agree is what the code compares; that the
receipt speaks the truth about these files is `AttestsInputs`, of a step that was
taken long before, perhaps by another command; and that nothing else finds a
receipt fresh is `OnlyCompare`.

## 8. What is not modelled

- The creation of a private repository (`examples/prepare_private.py`, with
  `state.py` 86-108): I/O into a new directory.
- Text formats (Markdown, JSON, YAML frontmatter), paths, symbolic links and
  permission checks of each read; configuration parsing, argument handling and
  the launcher; the regular expressions of privacy and provenance; scripts,
  templates and examples.  They are pure functions of their input or plain I/O,
  with no step of another actor in between.
- Doctor's checks other than those of the materialization receipt and of the
  parity with the remote: they read and print.

## 9. Where it stands

Every safety property that a passing run checks is also proved, for every value
of the constants, from the assumptions named with each theorem.  With TLC alone
remain the liveness properties `RetryConverges`, `EventuallyHealthy` and
`EveryHookEnds`: the prover has no rules for fairness and ENABLED.  The three
findings are runs, not theorems: a counterexample is enough.
