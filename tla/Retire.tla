------------------------------- MODULE Retire -------------------------------
(***************************************************************************)
(* agent-core lessons retire (agent_core/retire.py).                       *)
(*                                                                         *)
(* The command reads the ledgers and the manifest of verifiers once, and   *)
(* then goes through the lessons one by one.  A lesson of status checklist *)
(* is verified: the command notes the contents of the files that the       *)
(* verifier depends on, runs its probes one after the other, and leaves a  *)
(* receipt in the control root if the negative probe fails, the positive   *)
(* one passes and some consumer's passes.  The user files the receipt      *)
(* among the evidence and makes the lesson enforced.  An enforced lesson's *)
(* receipt is checked against the manifest, the files and the clock as     *)
(* they are now; if it is fresh, the lesson is verified once more before   *)
(* it is called ready to archive.  The command changes no lesson itself    *)
(* and takes no lock: the user edits ledgers, files and manifest, and      *)
(* other commands run, at any time.                                        *)
(***************************************************************************)
EXTENDS Integers, Sequences, FiniteSets

CONSTANTS
  Cmds,       \* those who run the command, again and again
  Lessons, Verifiers,
  Files, Contents,   \* the files that verifiers and sinks are about
  Defs,       \* what the manifest may say of a verifier
  Probes,     \* probes of a verifier: the negative one, the positive one,
              \*   then one of each consumer
  Lines,      \* Lines[l]: the lesson's line at first, without evidence
  Naming,     \* Naming[l]: the contents of a sink that name the lesson l
  MaxAge,     \* days for which a receipt is good
  PerDay,     \* ticks of the clock in a day
  MaxTime,    \* bound on the clock
  MaxEdits,   \* bound on what the user does
  Missing,    \* a file that is not there
  None,       \* no verifier, no evidence, no definition
  NoRun

Statuses == {"pending", "checklist", "enforced", "archived"}
Time     == 0..MaxTime
Trees    == [Files -> Contents \cup {Missing}]

(* A definition has files it depends on: those it needs, which are the     *)
(* arguments of its probes and its consumers, and any others in its scope. *)
(* passes[i] are the contents of those that are there with which probe i   *)
(* exits with 0; a probe depends on nothing else, and one that runs out of *)
(* time or cannot be started does not pass.                                *)
Inputs == UNION {[S -> Contents] : S \in SUBSET Files}

ASSUME ConstantsOK ==
  /\ Probes \in Nat /\ Probes >= 3
  /\ \A d \in Defs : /\ d.needs \subseteq d.reads /\ d.reads \subseteq Files
                     /\ d.passes \in [1..Probes -> SUBSET Inputs]
  /\ Lines \in [Lessons -> [status : {"pending", "checklist"}, sink : Files,
                            verifier : Verifiers \cup {None},
                            evidence : {None}, dated : {None}]]
  /\ Naming \in [Lessons -> SUBSET Contents]
  /\ MaxAge \in Nat /\ PerDay \in Nat \ {0}
  /\ MaxTime \in Nat /\ MaxEdits \in Nat
  /\ None \notin Verifiers \cup Defs /\ Missing \notin Contents

VARIABLES
  entry,      \* entry[l]: the lesson's line in its ledger
  manifest,   \* enforcement/verifiers.json: a definition of each verifier
  tree,       \* the files of the workspace
  pending,    \* receipts in evidence-pending of the control root
  filed,      \* filed[l]: intact receipts in evidence/<l> of the workspace
  clock,
  pc,         \* pc[c]: the next step of command c
  run,        \* run[c]: what it has read and found out so far
  edits,      \* counter of what the user does
  disturbed,  \* history: commands that verify, and had a file edited since
              \*   they noted the files; that check a receipt, and had the
              \*   manifest edited since they read it
  soiled      \* history: receipts that were made disturbed

vars == <<entry, manifest, tree, pending, filed, clock, pc, run, edits,
          disturbed, soiled>>

World == <<entry, manifest, tree, filed, clock, edits>>

Day(t)      == t \div PerDay
Age(now, t) == (now - t) \div PerDay

(* The contents of the files that a definition depends on and that are     *)
(* there; it is an error if one it needs is not, or none in its scope.     *)
There       == {f \in Files : tree[f] # Missing}
Related(d)  == [f \in d.reads \cap There |-> tree[f]]
Complete(d) == d.needs \subseteq There /\ d.reads \cap There # {}

(* A sink is a file of the workspace.                                      *)
SinkThere(e)    == e.sink \in There
SinkNames(l, e) == tree[e.sink] \in Naming[l]

(* What runs of the probes are a verification.                             *)
Good(runs) == ~runs[1] /\ runs[2] /\ \E i \in 3..Probes : runs[i]

(* How the probes end with given files.                                    *)
Outcome(d, inputs) == [i \in 1..Probes |-> inputs \in d.passes[i]]

Init ==
  /\ entry = Lines
  /\ manifest \in [Verifiers -> Defs]
  /\ tree \in [Files -> Contents]
  /\ pending = {} /\ filed = [l \in Lessons |-> {}] /\ clock = 0
  /\ pc = [c \in Cmds |-> "idle"] /\ run = [c \in Cmds |-> NoRun]
  /\ edits = 0 /\ disturbed = {} /\ soiled = {}
-----------------------------------------------------------------------------
(* The command, step by step.                                              *)

Goto(c, at) == pc' = [pc EXCEPT ![c] = at]

Keep(c, s) == run' = [run EXCEPT ![c] = s]

(* The verdict of the lesson at hand; s is what the command knows by then. *)
(* What it knows of this lesson alone is of no use from here on.           *)
Told(s, verdict, bad) ==
  [s EXCEPT !.said   = @ \cup {<<s.lesson, verdict>>}, !.failed = @ \/ bad,
            !.lesson = None, !.def = None, !.inputs = <<>>, !.runs = <<>>]

Tell(c, s, verdict, bad) == Keep(c, Told(s, verdict, bad)) /\ Goto(c, "next")

Unmade   == UNCHANGED <<pending, soiled>>
ReadOnly == UNCHANGED World

(* The lines in the active sections.                                       *)
Active(ledger) == {l \in Lessons : ledger[l].status # "archived"}

(* The ledgers are read, and then the clock.  Without active lessons there *)
(* is nothing to do.                                                       *)
Start(c, verify, strict) ==
  LET active == Active(entry) IN
  /\ pc[c] \in {"idle", "done", "killed"}
  /\ Keep(c, [verify |-> verify, strict |-> strict, now |-> clock,
              read |-> entry, todo |-> active,
              table |-> [v \in Verifiers |-> None], lesson |-> None,
              def |-> None, inputs |-> <<>>, runs |-> <<>>,
              fresh |-> {}, made |-> {}, said |-> {},
              failed |-> active = {}])
  /\ Goto(c, IF active = {} THEN "done" ELSE "manifest")
  /\ ReadOnly /\ Unmade /\ UNCHANGED disturbed

(* A manifest that cannot be read has no verifiers.                        *)
LoadVerifiers(c) ==
  /\ pc[c] = "manifest"
  /\ Keep(c, [run[c] EXCEPT !.table = manifest])
  /\ Goto(c, "next")
  /\ ReadOnly /\ Unmade /\ UNCHANGED disturbed

(* The definition that a line names, by the manifest as it was first read. *)
Named(s, e) == IF e.verifier = None THEN None ELSE s.table[e.verifier]

Verify(c, s, d) == Keep(c, [s EXCEPT !.def = d]) /\ Goto(c, "inputs")

(* The next lesson, in the order of the ledgers, which may be any.         *)
Take(s, l) == [s EXCEPT !.lesson = l, !.todo = @ \ {l}]

(* A mutant: a lesson without a verifier is no failure.                    *)
InspectLeniently(c, l) ==
  LET s == Take(run[c], l)
      e == s.read[l]
  IN
  /\ pc[c] = "next" /\ l \in run[c].todo
  /\ IF ~SinkThere(e) THEN Tell(c, s, "broken sink", s.strict) ELSE
       \/ e.status = "pending"
            /\ Tell(c, s, IF SinkNames(l, e) THEN "to checklist"
                                                    ELSE "not ready", FALSE)
       \/ e.status = "checklist"
            /\ IF s.verify /\ Named(s, e) # None
                 THEN Verify(c, s, Named(s, e))
                 ELSE Tell(c, s, "not ready", FALSE)
       \/ e.status = "enforced"
            /\ IF e.evidence = None THEN Tell(c, s, "stale", FALSE)
                                    ELSE Keep(c, s) /\ Goto(c, "receipt")
  /\ ReadOnly /\ Unmade /\ UNCHANGED disturbed

(* What is to be done about a lesson.                                      *)
Inspect(c, l) ==
  LET s == Take(run[c], l)
      e == s.read[l]
  IN
  /\ pc[c] = "next" /\ l \in run[c].todo
  /\ IF ~SinkThere(e) THEN Tell(c, s, "broken sink", s.strict) ELSE
       \/ e.status = "pending"
            /\ Tell(c, s, IF SinkNames(l, e) THEN "to checklist"
                                                    ELSE "not ready", FALSE)
       \/ e.status = "checklist"
            /\ IF s.verify /\ Named(s, e) # None
                 THEN Verify(c, s, Named(s, e))
                 ELSE Tell(c, s, "not ready", s.verify)
       \/ e.status = "enforced"
            /\ IF e.evidence = None THEN Tell(c, s, "stale", FALSE)
                                    ELSE Keep(c, s) /\ Goto(c, "receipt")
  /\ ReadOnly /\ Unmade /\ UNCHANGED disturbed

(* The receipt that the line names.  A file whose content is not that of   *)
(* its name counts as missing.                                             *)
ReadReceipt(c) ==
  LET s == run[c]
      r == s.read[s.lesson].evidence
  IN
  /\ pc[c] = "receipt"
  /\ IF r \in filed[s.lesson] /\ r.lesson = s.lesson
       THEN Goto(c, "definition") /\ UNCHANGED run
       ELSE Tell(c, s, "stale", FALSE)
  /\ ReadOnly /\ Unmade /\ UNCHANGED disturbed

(* A mutant: a verifier that has left the manifest is not noticed.         *)
ReadDefinitionBlindly(c) ==
  LET s == run[c]
      d == manifest[s.read[s.lesson].evidence.verifier]
  IN
  /\ pc[c] = "definition"
  /\ Keep(c, [s EXCEPT !.def = d]) /\ Goto(c, "compare")
  /\ disturbed' = disturbed \ {c}
  /\ ReadOnly /\ Unmade

(* The manifest is read again, for the verifier that the receipt names.    *)
ReadDefinition(c) ==
  LET s == run[c]
      d == manifest[s.read[s.lesson].evidence.verifier]
  IN
  /\ pc[c] = "definition"
  /\ IF d # None THEN Keep(c, [s EXCEPT !.def = d]) /\ Goto(c, "compare")
                 ELSE Tell(c, s, "stale", FALSE)
  /\ disturbed' = disturbed \ {c}
  /\ ReadOnly /\ Unmade

(* A lesson whose receipt was found fresh is reported, or verified again.  *)
Accept(c, s) ==
  LET e == s.read[s.lesson]
      t == [s EXCEPT !.fresh = @ \cup {<<s.lesson, e.evidence>>}]
  IN
  \/ ~s.verify /\ Tell(c, t, "fresh", FALSE)
  \/ s.verify /\ Named(s, e) = None /\ Tell(c, t, "stale", FALSE)
  \/ s.verify /\ Named(s, e) # None /\ Verify(c, t, Named(s, e))

Dated(e, now) ==
  LET age == Age(now, e.evidence.utc)
  IN  0 <= age /\ age <= MaxAge /\ e.dated = Day(e.evidence.utc)

(* A mutant: the contents of the files are not compared.                   *)
CompareDefinition(c) ==
  LET s == run[c]
      e == s.read[s.lesson]
      r == e.evidence
  IN
  /\ pc[c] = "compare"
  /\ IF Complete(s.def) /\ s.def = r.def /\ Good(r.runs) /\ Dated(e, s.now)
       THEN Accept(c, s)
       ELSE Tell(c, s, "stale", FALSE)
  /\ ReadOnly /\ Unmade /\ UNCHANGED disturbed

(* The receipt is fresh if the definition, the files and the runs are what *)
(* they have to be, and neither too old nor from the future.               *)
Compare(c) ==
  LET s == run[c]
      e == s.read[s.lesson]
      r == e.evidence
  IN
  /\ pc[c] = "compare"
  /\ IF /\ Complete(s.def) /\ s.def = r.def /\ Related(s.def) = r.inputs
        /\ Good(r.runs) /\ Dated(e, s.now)
       THEN Accept(c, s)
       ELSE Tell(c, s, "stale", FALSE)
  /\ ReadOnly /\ Unmade /\ UNCHANGED disturbed

(* The contents of the files are noted before the first probe.             *)
ReadInputs(c) ==
  LET s == run[c] IN
  /\ pc[c] = "inputs"
  /\ IF Complete(s.def)
       THEN /\ Keep(c, [s EXCEPT !.inputs = Related(s.def), !.runs = <<>>])
            /\ Goto(c, "probe")
       ELSE Tell(c, s, "not ready", TRUE)
  /\ disturbed' = disturbed \ {c}
  /\ ReadOnly /\ Unmade

Passes(d, i) == Related(d) \in d.passes[i]

(* One probe after the other; none is left out when one ends badly.        *)
Probe(c) ==
  LET s == run[c]
      i == Len(s.runs) + 1
  IN
  /\ pc[c] = "probe"
  /\ Keep(c, [s EXCEPT !.runs = Append(@, Passes(s.def, i))])
  /\ Goto(c, IF i = Probes THEN "judge" ELSE "probe")
  /\ ReadOnly /\ Unmade /\ UNCHANGED disturbed

(* A mutant: the receipt names the files as they are after the probes.     *)
ReceiptAfter(s) ==
  LET e == s.read[s.lesson] IN
  [lesson |-> s.lesson, from |-> e.status, verifier |-> e.verifier,
   def |-> s.def, inputs |-> Related(s.def), runs |-> s.runs,
   utc |-> s.now]

Receipt(s) ==
  LET e == s.read[s.lesson] IN
  [lesson |-> s.lesson, from |-> e.status, verifier |-> e.verifier,
   def |-> s.def, inputs |-> s.inputs, runs |-> s.runs, utc |-> s.now]

(* A verification that succeeds leaves a receipt, complete or not at all.  *)
Judge(c) ==
  LET s == run[c]
      r == Receipt(s)
  IN
  /\ pc[c] = "judge"
  /\ IF Good(s.runs)
       THEN /\ pending' = pending \cup {r}
            /\ soiled' = IF c \in disturbed THEN soiled \cup {r} ELSE soiled
            /\ Tell(c, [s EXCEPT !.made = @ \cup {<<s.lesson, r>>}],
                    IF r.from = "checklist" THEN "to enforced"
                                            ELSE "to archive", FALSE)
       ELSE Tell(c, s, "not ready", TRUE) /\ Unmade
  /\ ReadOnly /\ UNCHANGED disturbed

(* The verdicts are printed when all lessons have theirs.                  *)
Finish(c) ==
  /\ pc[c] = "next" /\ run[c].todo = {}
  /\ Goto(c, "done")
  /\ ReadOnly /\ Unmade /\ UNCHANGED <<run, disturbed>>

(* A command is killed, or something cannot be read or written.            *)
Kill(c) ==
  /\ pc[c] \notin {"idle", "done", "killed"}
  /\ Goto(c, "killed") /\ run' = [run EXCEPT ![c] = NoRun]
  /\ ReadOnly /\ Unmade /\ UNCHANGED disturbed

CmdStep(c) ==
  \/ LoadVerifiers(c) \/ (\E l \in Lessons : Inspect(c, l)) \/ ReadReceipt(c)
  \/ ReadDefinition(c) \/ Compare(c) \/ ReadInputs(c) \/ Probe(c)
  \/ Judge(c) \/ Finish(c)
-----------------------------------------------------------------------------
(* What the user does, by hand or with git.                                *)

Act    == edits < MaxEdits /\ edits' = edits + 1
Unrun  == UNCHANGED <<pending, pc, run, soiled>>

EditFile(f, x) ==
  /\ Act /\ tree' = [tree EXCEPT ![f] = x]
  /\ disturbed' = disturbed \cup {c \in Cmds : pc[c] = "probe"}
  /\ Unrun /\ UNCHANGED <<entry, manifest, filed, clock>>

EditManifest(v, d) ==
  /\ Act /\ manifest' = [manifest EXCEPT ![v] = d]
  /\ disturbed' = disturbed \cup {c \in Cmds : pc[c] = "compare"}
  /\ Unrun /\ UNCHANGED <<entry, tree, filed, clock>>

(* A line is given another status or verifier, or loses its date.          *)
EditEntry(l, e) ==
  /\ Act /\ entry' = [entry EXCEPT ![l] = e]
  /\ Unrun /\ UNCHANGED <<manifest, tree, filed, clock, disturbed>>

(* A receipt is copied to the evidence of a lesson, whose line names it    *)
(* from now on.                                                            *)
FileReceipt(l, r) ==
  /\ Act /\ r \in pending
  /\ filed' = [filed EXCEPT ![l] = @ \cup {r}]
  /\ entry' = [entry EXCEPT ![l].status = "enforced", ![l].evidence = r,
                            ![l].dated = Day(r.utc)]
  /\ Unrun /\ UNCHANGED <<manifest, tree, clock, disturbed>>

LoseReceipt(l, r) ==
  /\ Act /\ r \in filed[l]
  /\ filed' = [filed EXCEPT ![l] = @ \ {r}]
  /\ Unrun /\ UNCHANGED <<entry, manifest, tree, clock, disturbed>>

(* The clock is put right, or the workspace goes on on another host.       *)
SetClock(t) ==
  /\ Act /\ clock' = t
  /\ Unrun /\ UNCHANGED <<entry, manifest, tree, filed, disturbed>>

Tick ==
  /\ clock < MaxTime /\ clock' = clock + 1
  /\ Unrun /\ UNCHANGED <<entry, manifest, tree, filed, edits, disturbed>>

User ==
  \/ \E f \in Files, x \in Contents \cup {Missing} : EditFile(f, x)
  \/ \E v \in Verifiers, d \in Defs \cup {None} : EditManifest(v, d)
  \/ \E l \in Lessons :
       \/ \E s \in Statuses : EditEntry(l, [entry[l] EXCEPT !.status = s])
       \/ \E v \in Verifiers \cup {None} :
            EditEntry(l, [entry[l] EXCEPT !.verifier = v])
       \/ EditEntry(l, [entry[l] EXCEPT !.dated = None])
       \/ \E r \in pending : FileReceipt(l, r)
       \/ \E r \in filed[l] : LoseReceipt(l, r)
  \/ \E t \in Time : SetClock(t)
  \/ Tick

Next ==
  \/ \E c \in Cmds :
       \/ \E verify, strict \in BOOLEAN : Start(c, verify, strict)
       \/ CmdStep(c) \/ Kill(c)
  \/ User

Spec == Init /\ [][Next]_vars
-----------------------------------------------------------------------------
Steps == {"idle", "manifest", "next", "receipt", "definition", "compare",
          "inputs", "probe", "judge", "done", "killed"}

Receipts ==
  [lesson : Lessons, from : {"checklist", "enforced"},
   verifier : Verifiers, def : Defs, inputs : Inputs,
   runs : [1..Probes -> BOOLEAN], utc : Time]

Entries ==
  [status : Statuses, sink : Files, verifier : Verifiers \cup {None},
   evidence : Receipts \cup {None}, dated : {None} \cup {Day(t) : t \in Time}]

Judgements == {"broken sink", "to checklist", "not ready", "stale", "fresh",
               "to enforced", "to archive"}

Runs ==
  [verify : BOOLEAN, strict : BOOLEAN, now : Time, read : [Lessons -> Entries],
   todo : SUBSET Lessons, table : [Verifiers -> Defs \cup {None}],
   lesson : Lessons \cup {None}, def : Defs \cup {None},
   inputs : Inputs \cup {<<>>}, runs : Seq(BOOLEAN),
   fresh : SUBSET (Lessons \X Receipts), made : SUBSET (Lessons \X Receipts),
   said : SUBSET (Lessons \X Judgements), failed : BOOLEAN]

(* What a command knows has its type; at a step about a lesson's receipt   *)
(* there is one, and at a step about probes there is a definition.         *)
RunOK(s, at) ==
  LET e == s.read[s.lesson] IN
  /\ s \in Runs /\ s.todo \subseteq Active(s.read)
  /\ at \notin {"manifest", "next", "done"} => s.lesson \in Active(s.read)
  /\ at \in {"receipt", "definition", "compare"} =>
       e.status = "enforced" /\ e.evidence \in Receipts \ {None}
  /\ at \in {"inputs", "probe", "judge"} =>
       e.status \in {"checklist", "enforced"} /\ e.verifier \in Verifiers
  /\ at \in {"compare", "inputs", "probe", "judge"} => s.def \in Defs
  /\ at \in {"probe", "judge"} => s.inputs \in Inputs
  /\ at = "probe" => Len(s.runs) < Probes
  /\ at = "judge" => Len(s.runs) = Probes

TypeOK ==
  /\ entry \in [Lessons -> Entries]
  /\ manifest \in [Verifiers -> Defs \cup {None}] /\ tree \in Trees
  /\ pending \subseteq Receipts /\ filed \in [Lessons -> SUBSET pending]
  /\ clock \in Time /\ edits \in 0..MaxEdits
  /\ pc \in [Cmds -> Steps] /\ disturbed \subseteq Cmds
  /\ soiled \subseteq pending /\ run \in [Cmds -> Runs \cup {NoRun}]
  /\ \A c \in Cmds : IF pc[c] \in {"idle", "killed"} THEN run[c] = NoRun
                                                     ELSE RunOK(run[c], pc[c])

(* A receipt attests the files it names: with their contents, and by the   *)
(* definition it names, the probes end as it says, which is a              *)
(* verification, unless a file was edited while the probes ran.  Edits of  *)
(* the manifest, edits before and after, and other commands do not matter. *)
AttestsInputs ==
  \A r \in pending \ soiled :
    r.runs = Outcome(r.def, r.inputs) /\ Good(r.runs)

(* A lesson whose receipt is found fresh would pass its verification now:  *)
(* the probes of the definition that the receipt names would succeed with  *)
(* the files as they are, although the receipt may be days old, and that   *)
(* is still the definition in the manifest, unless the manifest was edited *)
(* after it was read.  The receipt is at most MaxAge days and a bit old by *)
(* the command's clock.                                                    *)
FoundFresh(c, l, r) ==
  pc[c] = "compare" /\ pc'[c] # "killed" /\ <<l, r>> \in run'[c].fresh

IsFresh(c, r) ==
  /\ r \in soiled \/ Good([i \in 1..Probes |-> Passes(r.def, i)])
  /\ c \in disturbed \/ manifest[r.verifier] = r.def
  /\ r.utc <= run[c].now /\ run[c].now - r.utc < (MaxAge + 1) * PerDay

FreshStands ==
  \A c \in Cmds :
    LET l == run[c].lesson
        r == run[c].read[l].evidence
    IN  FoundFresh(c, l, r) => IsFresh(c, r)

FreshHolds == [][FreshStands]_vars

(* What a command says at its end has its reasons: each lesson it read has *)
(* one verdict; one that is ready was verified in this run and its receipt *)
(* is kept; one that is ready to archive also had a fresh receipt before;  *)
(* and if all is well, nothing that had to be verified was left out.       *)
Verdicts(s, l) == {v \in Judgements : <<l, v>> \in s.said}

Verified(s, l, from) ==
  \E r \in pending : <<l, r>> \in s.made /\ r.lesson = l /\ r.from = from

VerdictsBacked ==
  \A c \in Cmds : pc[c] = "done" =>
    LET s == run[c] IN
    \A l \in Active(s.read) :
      /\ \E v \in Judgements : Verdicts(s, l) = {v}
      /\ <<l, "to enforced">> \in s.said => Verified(s, l, "checklist")
      /\ <<l, "to archive">> \in s.said =>
           Verified(s, l, "enforced") /\ <<l, s.read[l].evidence>> \in s.fresh
      /\ s.verify /\ ~s.failed /\ s.read[l].status = "checklist" =>
           Verdicts(s, l) \in {{"to enforced"}} \cup
                              (IF s.strict THEN {} ELSE {{"broken sink"}})
=============================================================================
