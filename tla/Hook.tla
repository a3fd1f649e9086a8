------------------------------- MODULE Hook -------------------------------
(***************************************************************************)
(* The lesson hook (agent_core/match.py) and the automatic capture that    *)
(* its completion stage makes (agent_core/capture.py).                     *)
(*                                                                         *)
(* The runtime starts a hook process at every prompt, before every tool    *)
(* call and after every answer, in every session.  A hook looks at the     *)
(* ledgers' times and sizes, validates the ledgers if these differ from    *)
(* the ones in the heartbeat file, reads the ledgers, prints the lessons   *)
(* that match, and writes the heartbeat.  At the end of an answer of       *)
(* Claude Code it also makes a candidate of the lesson the answer asks to  *)
(* keep.  Whatever fails, the hook warns and lets the runtime go on.  The  *)
(* hooks share the heartbeat file, the inbox and the operation lock, and   *)
(* none of them waits for the lock.  The user edits the ledgers at any     *)
(* time, and promotes, rejects, breaks and deletes candidates.             *)
(***************************************************************************)
EXTENDS Naturals, FiniteSets, SequencesExt

CONSTANTS
  Hooks,      \* hook processes, each of which runs once
  Events,     \* what a runtime may tell a hook
  Texts,      \* Texts[s]: what the ledger s may contain
  Budget,     \* characters a hook may print
  Marker,     \* characters of the line that says how many are left out
  MaxEdits,   \* bound on edits of ledgers
  MaxTurns,   \* bound on what is done to candidates, errors and kills
  Absent, NoWhen, NoRequest, NoSig, NoRun, Free, User

Fields   == {"tasks", "paths", "cmds", "text"}
Sources  == {"global", "project"}
Stages   == {"prompt", "pretool", "completion"}
Runtimes == {"claude-code", "codex"}
Places   == {"inbox", "consumed", "rejected"}

(* Which parts of a query each stage has.                                  *)
StageFields == [prompt     |-> {"tasks", "text"},
                pretool    |-> {"paths", "cmds"},
                completion |-> {"text"}]

ScopeOrder  == [project |-> 0, profile |-> 1, global |-> 2]
StatusOrder == [pending |-> 0, checklist |-> 1, enforced |-> 2]

(* A signature gives each ledger that was found a time and size, which     *)
(* stand for its version.                                                  *)
Signatures == UNION {[S -> 0..MaxEdits] : S \in SUBSET Sources}

(* A ledger's lessons are records [id, scope, status, line, trigger, when, *)
(* size].  A line holds one lesson, and the ledger gives it its scope.     *)
(* Their words, globs and commands are tokens; when is NoWhen or gives     *)
(* each field a set of tokens, and a field that it lacks the empty set.    *)
(* A text is valid if the ledger checker accepts it, and parses if the     *)
(* retrieval parser does; neither implies the other, and two lessons of a  *)
(* text that is not valid may have the same number.                        *)
ASSUME ConstantsOK ==
  /\ \A e \in Events :
       /\ e.runtime \in Runtimes /\ e.stage \in Stages
       /\ e.form \in {"ok", "json", "event"}   \* what is wrong with it
       /\ {e.project, e.active} \subseteq BOOLEAN
  /\ \A s \in Sources : \A t \in Texts[s] :
       /\ {t.valid, t.parses} \subseteq BOOLEAN /\ IsFiniteSet(t.lessons)
       /\ \A l \in t.lessons : /\ l.scope = s /\ l.status \in DOMAIN StatusOrder
                              /\ {l.id, l.line, l.size} \subseteq Nat
       /\ \A k, l \in t.lessons : k.line = l.line => k = l
  /\ Budget \in Nat /\ Marker \in 1..Budget
  /\ MaxEdits \in Nat /\ MaxTurns \in Nat
  /\ {Free, User} \cap Hooks = {} /\ Free # User
  /\ NoSig \notin Signatures

VARIABLES
  ledger,     \* ledger[s]: the version and the text of a ledger, or Absent
  heartbeat,  \* .lessons-hook-heartbeat.json: signature and status
  cand,       \* cand[h]: where the candidate of hook h is, and whether it
              \*   can be read
  lock,       \* holder of the operation lock
  pc,         \* pc[h]: the next step of hook h
  run,        \* run[h]: its event and what it has found out so far
  edits, turns,   \* counters of the bounded events
  moved,      \* history: running hooks during which a ledger changed, from
              \*   the signature to the reading
  repaired    \* history: candidates the user made readable again

vars == <<ledger, heartbeat, cand, lock, pc, run, edits, turns, moved,
          repaired>>

Turn == turns < MaxTurns /\ turns' = turns + 1
-----------------------------------------------------------------------------
(* Matching.                                                               *)

(* The query made of the runtime's payload: a part that the stage does not *)
(* have is empty, and is never inferred from the others.                   *)
Query(e) == [f \in Fields |->
               IF f \in StageFields[e.stage] THEN e.query[f] ELSE {}]

(* A lesson without a condition needs two words of its trigger in the      *)
(* text; otherwise one field of its condition must be met.                 *)
Matches(l, q) ==
  IF l.when = NoWhen THEN Cardinality(l.trigger \cap q["text"]) >= 2
                     ELSE \E f \in Fields : l.when[f] \cap q[f] # {}

(* The hits are sorted by scope, status and number, and the sort is        *)
(* stable: those that are equal stay in the order of their lines.          *)
Key(l) == <<ScopeOrder[l.scope], StatusOrder[l.status], l.id, l.line>>

Precedes(k, l) ==
  \E i \in 1..4 : /\ Key(k)[i] < Key(l)[i]
                  /\ \A j \in 1..(i - 1) : Key(k)[j] = Key(l)[j]

Hits(S, q) == {l \in S : Matches(l, q)}

(* A mutant: the hits are sorted by number only.                           *)
MatchLessonsById(S, q) ==
  CHOOSE hits \in [1..Cardinality(Hits(S, q)) -> Hits(S, q)] :
    \A j \in DOMAIN hits : \A i \in 1..(j - 1) : hits[i].id < hits[j].id

MatchLessons(S, q) ==
  CHOOSE hits \in [1..Cardinality(Hits(S, q)) -> Hits(S, q)] :
    \A j \in DOMAIN hits : \A i \in 1..(j - 1) : Precedes(hits[i], hits[j])

(* The characters of the lines that print the lessons P, and how many they *)
(* are.                                                                    *)
Characters(P) == UNION {{l} \X (1..l.size) : l \in P}
SumSizes(P)   == Cardinality(Characters(P))

(* What is printed: the longest beginning of the sorted hits that fits     *)
(* with the line that says how many are left out.                          *)
Fits(hits, n) == SumSizes(ToSet(SubSeq(hits, 1, n)))
                   + (IF n < Len(hits) THEN Marker ELSE 0) <= Budget

Render(hits) ==
  SubSeq(hits, 1, CHOOSE n \in 0..Len(hits) :
                    /\ Fits(hits, n)
                    /\ \A m \in (n + 1)..Len(hits) : ~Fits(hits, m))
-----------------------------------------------------------------------------
(* The ledgers of a workspace.                                             *)

Present  == {s \in Sources : ledger[s] # Absent}
Found(e) == {s \in Present : s = "project" => e.project}

Signature(e) == [s \in Found(e) |-> ledger[s].version]

LessonsOf(e) == UNION {ledger[s].text.lessons : s \in Found(e)}

Valid(S) == \A s \in S : s \in Present /\ ledger[s].text.valid

Readable(e) == /\ "global" \in Found(e)
               /\ \A s \in Found(e) : ledger[s].text.parses

Remembered == IF heartbeat = Absent THEN NoSig ELSE heartbeat.sig

(* Automatic capture: only Claude Code's completion stage does it, unless  *)
(* this answer is itself one that a stop hook caused.                      *)
Captures(e) == e.runtime = "claude-code" /\ e.stage = "completion"
Asks(e)     == Captures(e) /\ ~e.active /\ e.request # NoRequest

(* The candidates that a scan for a repeated request looks at.             *)
Scanned == {h \in Hooks : cand[h].place \cap {"inbox", "consumed"} # {}}
Linked  == {h \in Scanned : Cardinality(cand[h].place) = 2}

KeptBy(r) == {h \in Scanned \ Linked : /\ cand[h].whole
                                       /\ run[h].event.request = r}

Init ==
  /\ \E t \in [Sources -> UNION {Texts[s] : s \in Sources}] :
       /\ \A s \in Sources : t[s] \in Texts[s]
       /\ ledger = [s \in Sources |-> [version |-> 0, text |-> t[s]]]
  /\ heartbeat = Absent
  /\ cand = [h \in Hooks |-> [place |-> {}, whole |-> FALSE]]
  /\ lock = Free
  /\ pc = [h \in Hooks |-> "idle"]
  /\ run = [h \in Hooks |-> NoRun]
  /\ edits = 0 /\ turns = 0 /\ moved = {} /\ repaired = {}
-----------------------------------------------------------------------------
(* A hook, step by step.                                                   *)

Goto(h, at) == pc' = [pc EXCEPT ![h] = at]

(* What the steps of a hook never change.                                  *)
Aside == UNCHANGED <<ledger, edits>>

(* What a hook knows at first, and all that is left of it at the end.      *)
Knowing(e) == [event |-> e, sig |-> NoSig, read |-> {}, sound |-> TRUE,
               printed |-> <<>>, warned |-> FALSE]

End(h) == /\ Goto(h, "done")
          /\ run' = [run EXCEPT ![h] = Knowing(@.event)]
          /\ moved' = moved \ {h}

(* The runtime starts a hook.                                              *)
Start(h, e) ==
  /\ pc[h] = "idle"
  /\ run' = [run EXCEPT ![h] = Knowing(e)]
  /\ Goto(h, IF e.form = "json" THEN "failed" ELSE "sign")
  /\ Aside /\ UNCHANGED <<heartbeat, cand, lock, turns, moved, repaired>>

(* The sources and their times and sizes.  Without the global ledger there *)
(* is no signature.                                                        *)
Sign(h) ==
  LET e == run[h].event IN
  /\ pc[h] = "sign"
  /\ IF "global" \in Found(e)
       THEN /\ run' = [run EXCEPT ![h].sig = Signature(e)]
            /\ Goto(h, "compare")
       ELSE Goto(h, "failed") /\ UNCHANGED run
  /\ Aside /\ UNCHANGED <<heartbeat, cand, lock, turns, moved, repaired>>

(* The ledgers are validated only if the heartbeat has another signature.  *)
Compare(h) ==
  /\ pc[h] = "compare"
  /\ Goto(h, IF run[h].sig = Remembered THEN "load" ELSE "validate")
  /\ Aside
  /\ UNCHANGED <<heartbeat, cand, lock, run, turns, moved, repaired>>

(* A mutant: the signature is kept.                                        *)
ValidateSigned(h) ==
  LET ok == Valid(DOMAIN run[h].sig) IN
  /\ pc[h] = "validate"
  /\ Goto(h, IF ok THEN "load" ELSE "failed")
  /\ Aside
  /\ UNCHANGED <<heartbeat, cand, lock, run, turns, moved, repaired>>

(* A hook whose ledgers are not valid fails without a signature.           *)
Validate(h) ==
  LET ok == Valid(DOMAIN run[h].sig) IN
  /\ pc[h] = "validate"
  /\ Goto(h, IF ok THEN "load" ELSE "failed")
  /\ run' = IF ok THEN run ELSE [run EXCEPT ![h].sig = NoSig]
  /\ Aside /\ UNCHANGED <<heartbeat, cand, lock, turns, moved, repaired>>

(* The ledgers are looked for again, read and matched, and what matches is *)
(* printed, though nothing at the end of an answer.                        *)
Load(h) ==
  LET e    == run[h].event
      hits == MatchLessons(LessonsOf(e), Query(e))
      ok   == Readable(e) /\ e.form # "event"
  IN
  /\ pc[h] = "load"
  /\ IF ok
       THEN run' = [run EXCEPT
              ![h].read    = LessonsOf(e),
              ![h].sound   = Valid(Found(e)),
              ![h].printed = IF e.stage = "completion" THEN <<>>
                                                       ELSE Render(hits)]
       ELSE UNCHANGED run
  /\ Goto(h, CASE ~ok -> "failed"
               [] ok /\ Captures(e) -> "capture"
               [] OTHER -> "record")
  /\ Aside /\ UNCHANGED <<heartbeat, cand, lock, turns, moved, repaired>>

(* Automatic capture.  It ends without a candidate and with a warning,     *)
(* unless there is nothing to keep or it is already there.                 *)
GiveUp(h) == Goto(h, "record") /\ run' = [run EXCEPT ![h].warned = TRUE]
Skip(h)   == Goto(h, "record") /\ UNCHANGED run

(* A mutant: a capture that does not lock.                                 *)
TryLockNot(h) ==
  LET e == run[h].event IN
  /\ pc[h] = "capture"
  /\ \/ e.active /\ GiveUp(h)
     \/ ~e.active /\ e.request = NoRequest /\ Skip(h)
     \/ Asks(e) /\ Goto(h, "scan") /\ UNCHANGED run
  /\ Aside /\ UNCHANGED <<heartbeat, cand, lock, turns, moved, repaired>>

(* A mutant: a capture that waits for the lock.                            *)
TryLockWaiting(h) ==
  LET e == run[h].event IN
  /\ pc[h] = "capture"
  /\ \/ e.active /\ GiveUp(h) /\ UNCHANGED lock
     \/ ~e.active /\ e.request = NoRequest /\ Skip(h) /\ UNCHANGED lock
     \/ Asks(e) /\ lock = Free /\ lock' = h /\ Goto(h, "scan")
                /\ UNCHANGED run
  /\ Aside /\ UNCHANGED <<heartbeat, cand, turns, moved, repaired>>

(* The gates on the payload, and the lock, which is not waited for.        *)
TryLock(h) ==
  LET e == run[h].event IN
  /\ pc[h] = "capture"
  /\ \/ e.active /\ GiveUp(h) /\ UNCHANGED lock
     \/ ~e.active /\ e.request = NoRequest /\ Skip(h) /\ UNCHANGED lock
     \/ Asks(e) /\ lock # Free /\ GiveUp(h) /\ UNCHANGED lock
     \/ Asks(e) /\ lock = Free /\ lock' = h /\ Goto(h, "scan")
                /\ UNCHANGED run
  /\ Aside /\ UNCHANGED <<heartbeat, cand, turns, moved, repaired>>

(* A mutant: a capture that fails does not give the lock back.             *)
UnlockNot(h) == UNCHANGED lock

Unlock(h) == lock' = IF lock = h THEN Free ELSE lock

(* A mutant: a scan that a file stops says nothing.                        *)
ScanSilently(h) ==
  LET kept == KeptBy(run[h].event.request) IN
  /\ pc[h] = "scan"
  /\ \/ Linked \cup kept # {} /\ Skip(h) /\ Unlock(h)
     \/ Linked \cup kept = {} /\ Goto(h, "create") /\ UNCHANGED <<run, lock>>
  /\ Aside /\ UNCHANGED <<heartbeat, cand, turns, moved, repaired>>

(* Is the request already in the inbox, or was it promoted?  The scan      *)
(* stops at the first file with two names, or with the request; one that   *)
(* cannot be read is passed over.  It comes to the inbox first.            *)
Scan(h) ==
  LET kept  == KeptBy(run[h].event.request)
      early == {k \in kept : cand[k].place = {"inbox"}}
  IN
  /\ pc[h] = "scan"
  /\ \/ Linked # {} /\ GiveUp(h) /\ Unlock(h)
     \/ (early # {} \/ (Linked = {} /\ kept # {})) /\ Skip(h) /\ Unlock(h)
     \/ Linked = {} /\ kept = {} /\ Goto(h, "create")
          /\ UNCHANGED <<run, lock>>
  /\ Aside /\ UNCHANGED <<heartbeat, cand, turns, moved, repaired>>

(* A candidate is opened under a new name, then written and read back.     *)
Create(h) ==
  /\ pc[h] = "create"
  /\ cand' = [cand EXCEPT ![h].place = {"inbox"}]
  /\ Goto(h, "write")
  /\ Aside /\ UNCHANGED <<heartbeat, lock, run, turns, moved, repaired>>

Write(h) ==
  /\ pc[h] = "write"
  /\ cand' = [cand EXCEPT ![h].whole = TRUE]
  /\ Goto(h, "record") /\ Unlock(h)
  /\ Aside /\ UNCHANGED <<heartbeat, run, turns, moved, repaired>>

(* A capture fails: the configuration is not the one of this ledger, there *)
(* is no commit, the scan is over its budget, a field is private, or a     *)
(* file cannot be written.  An unfinished candidate is removed.            *)
CaptureFails(h) ==
  /\ pc[h] \in {"capture", "scan", "create", "write"} /\ Asks(run[h].event)
  /\ Turn
  /\ cand' = [cand EXCEPT ![h].place = {}]
  /\ GiveUp(h) /\ Unlock(h)
  /\ Aside /\ UNCHANGED <<heartbeat, moved, repaired>>

(* The heartbeat replaces the one of whichever hook wrote before.  That it *)
(* cannot be written is not reported.                                      *)
Record(h) ==
  /\ pc[h] \in {"record", "failed"}
  /\ \/ /\ heartbeat' = [sig    |-> run[h].sig,
                          status |-> IF pc[h] = "record" THEN "pass"
                                                         ELSE "warning"]
        /\ UNCHANGED turns
     \/ Turn /\ UNCHANGED heartbeat
  /\ End(h)
  /\ Aside /\ UNCHANGED <<cand, lock, repaired>>

(* The runtime kills a hook, or the host goes down.                        *)
Kill(h) ==
  /\ pc[h] \notin {"idle", "done"} /\ Turn
  /\ End(h) /\ Unlock(h)
  /\ Aside /\ UNCHANGED <<heartbeat, cand, repaired>>

HookStep(h) ==
  \/ Sign(h) \/ Compare(h) \/ Validate(h) \/ Load(h) \/ TryLock(h)
  \/ Scan(h) \/ Create(h) \/ Write(h) \/ CaptureFails(h) \/ Record(h)
-----------------------------------------------------------------------------
(* What others do.                                                         *)

Unseen == UNCHANGED <<heartbeat, pc, run>>

(* The user, a promotion or git pull changes a ledger; each change gives   *)
(* it a new time or size.  A ledger may also go.                           *)
Edit(s, t) ==
  /\ edits < MaxEdits /\ edits' = edits + 1
  /\ ledger' = [ledger EXCEPT ![s] = IF t = Absent THEN Absent
                  ELSE [version |-> edits + 1, text |-> t]]
  /\ moved' = moved \cup
       {h \in Hooks : pc[h] \in {"compare", "validate", "load"}}
  /\ Unseen /\ UNCHANGED <<cand, lock, turns, repaired>>

(* Another command takes the lock and gives it back.                       *)
TakeLock ==
  /\ lock = Free /\ lock' = User
  /\ Unseen /\ Aside /\ UNCHANGED <<cand, turns, moved, repaired>>

ReleaseLock ==
  /\ lock = User /\ lock' = Free
  /\ Unseen /\ Aside /\ UNCHANGED <<cand, turns, moved, repaired>>

(* Promote and reject move a candidate while they hold the lock.  A reject *)
(* that is cut off leaves the file with both names.                        *)
Review(h, to) ==
  /\ lock = User /\ Turn
  /\ cand[h].whole /\ cand[h].place = {"inbox"}
  /\ cand' = [cand EXCEPT ![h].place = to]
  /\ lock' = IF Cardinality(to) = 2 THEN Free ELSE User
  /\ Unseen /\ Aside /\ UNCHANGED <<moved, repaired>>

(* By hand: one of two names is removed; a candidate that no hook writes   *)
(* is deleted, broken, or repaired.                                        *)
ByHand(h) ==
  /\ pc[h] = "done" /\ Turn
  /\ \/ /\ cand[h].place # {}
        /\ \E to \in {{}} \cup {{x} : x \in cand[h].place} :
             cand' = [cand EXCEPT ![h].place = to]
        /\ UNCHANGED repaired
     \/ /\ cand[h].place = {"inbox"} /\ cand[h].whole
        /\ cand' = [cand EXCEPT ![h].whole = FALSE]
        /\ UNCHANGED repaired
     \/ /\ cand[h].place = {"inbox"} /\ ~cand[h].whole
        /\ cand' = [cand EXCEPT ![h].whole = TRUE]
        /\ repaired' = repaired \cup {h}
  /\ Unseen /\ Aside /\ UNCHANGED <<lock, moved>>

Next ==
  \/ \E h \in Hooks, e \in Events : Start(h, e)
  \/ \E h \in Hooks : HookStep(h) \/ Kill(h)
  \/ \E s \in Sources : \E t \in Texts[s] \cup {Absent} : Edit(s, t)
  \/ TakeLock \/ ReleaseLock
  \/ \E h \in Hooks :
       \/ \E to \in {{"consumed"}, {"rejected"}, {"inbox", "rejected"}} :
            Review(h, to)
       \/ ByHand(h)

(* A hook's process runs on until it ends.  Nobody has to give the lock    *)
(* back, and the runtime need not start a hook.                            *)
Fairness == \A h \in Hooks : WF_vars(HookStep(h))

Spec == Init /\ [][Next]_vars /\ Fairness
-----------------------------------------------------------------------------
Steps == {"idle", "sign", "compare", "validate", "load", "capture", "scan",
          "create", "write", "record", "failed", "done"}

Ended(h) == pc[h] \in {"record", "failed", "done"}

(* Types; and only a hook that captures holds the lock.                    *)
TypeOK ==
  /\ DOMAIN ledger = Sources
  /\ \A s \in Present : ledger[s] \in [version : 0..MaxEdits, text : Texts[s]]
  /\ Remembered \in Signatures \cup {NoSig}
  /\ cand \in [Hooks -> [place : SUBSET Places, whole : BOOLEAN]]
  /\ pc \in [Hooks -> Steps]
  /\ \A h \in Hooks : IF pc[h] = "idle" THEN run[h] = NoRun ELSE
       /\ run[h].event \in Events
       /\ run[h].sig \in Signatures \cup {NoSig}
       /\ {run[h].sound, run[h].warned} \subseteq BOOLEAN
  /\ lock \in Hooks \cup {Free, User}
  /\ lock \in Hooks => pc[lock] \in {"scan", "create", "write"}
  /\ edits \in 0..MaxEdits /\ turns \in 0..MaxTurns
  /\ moved \subseteq Hooks /\ repaired \subseteq Hooks

(* No hook prints lessons of a ledger that the checker refuses, unless the *)
(* ledger was changed while that hook ran: the signature in the heartbeat, *)
(* whoever wrote it, stands for a ledger that was found valid.             *)
PrintedValid ==
  \A h \in Hooks :
    pc[h] # "idle" /\ run[h].printed # <<>> /\ h \notin moved => run[h].sound

(* What a hook printed is the largest set of the lessons that match, none  *)
(* printed before one that precedes it, that fits into the budget together *)
(* with the line that says how many are left out.                          *)
Closed(P, S) == \A k \in P, l \in S \ P : ~Precedes(l, k)

Size(P, S) == SumSizes(P) + (IF P = S THEN 0 ELSE Marker)

PrintedFirst ==
  \A h \in Hooks :
    pc[h] = "record" /\ run[h].printed # <<>> =>
      LET S == Hits(run[h].read, Query(run[h].event))
          P == ToSet(run[h].printed)
      IN  /\ P \subseteq S /\ Closed(P, S) /\ Size(P, S) <= Budget
          /\ \A Q \in SUBSET S :
               Cardinality(Q) > Cardinality(P) /\ Closed(Q, S)
                 => Size(Q, S) > Budget

(* A request that answers repeat is kept once: two candidates of it are    *)
(* never in the inbox or promoted, unless one could not be read at a time  *)
(* and was repaired.                                                       *)
OncePerRequest ==
  \A g, h \in Scanned \ repaired :
    /\ cand[g].whole /\ cand[h].whole
    /\ run[g].event.request = run[h].event.request
    => g = h

(* A capture that ends without a warning leaves its request in the inbox   *)
(* or among the promoted: nothing an answer asked to keep is lost in       *)
(* silence.                                                                *)
SilentMeansKept ==
  [][\A h \in Hooks :
       /\ pc[h] \in {"capture", "scan", "create", "write"}
       /\ pc'[h] = "record" /\ Asks(run[h].event) /\ ~run'[h].warned
       => KeptBy(run[h].event.request)' # {}]_vars

(* docs/DESIGN.md: a hook lets the runtime go on whatever fails.  Every    *)
(* hook ends, even if another command never gives back the lock.           *)
EveryHookEnds == \A h \in Hooks : (pc[h] # "idle") ~> (pc[h] = "done")
=============================================================================
