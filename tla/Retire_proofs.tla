--------------------------- MODULE Retire_proofs ---------------------------
(***************************************************************************)
(* Proofs about the lessons retire command (Retire): what a command knows  *)
(* has its type, a receipt attests the files it names, a receipt found     *)
(* fresh would be made again, and the verdicts have their reasons.         *)
(***************************************************************************)
EXTENDS Retire, TLAPS

(* A command has a lesson at hand.                                         *)
Mid == {"receipt", "definition", "compare", "inputs", "probe", "judge"}

-----------------------------------------------------------------------------
(* What a command knows has its type.                                      *)

(* The pieces of what a command knows have their types.                    *)
LEMMA RunParts ==
  ASSUME NEW s \in Runs
  PROVE  /\ s.verify \in BOOLEAN /\ s.strict \in BOOLEAN
         /\ s.failed \in BOOLEAN /\ s.now \in Time
         /\ s.read \in [Lessons -> Entries] /\ s.todo \subseteq Lessons
         /\ s.table \in [Verifiers -> Defs \cup {None}]
         /\ s.runs \in Seq(BOOLEAN)
         /\ s.fresh \subseteq Lessons \X Receipts
         /\ s.made \subseteq Lessons \X Receipts
         /\ s.said \subseteq Lessons \X Judgements
         /\ Active(s.read) \subseteq Lessons
BY DEF Runs, Active

(* After a verdict a command knows what it knew of the other lessons.      *)
LEMMA ToldRun ==
  ASSUME NEW s \in Runs, s.lesson \in Lessons,
         NEW v \in Judgements, NEW b \in BOOLEAN
  PROVE  LET t == Told(s, v, b) IN
         /\ t \in Runs /\ t.read = s.read /\ t.todo = s.todo
         /\ t.verify = s.verify /\ t.strict = s.strict /\ t.now = s.now
         /\ t.fresh = s.fresh /\ t.made = s.made
         /\ t.said = s.said \cup {<<s.lesson, v>>}
         /\ (t.failed <=> s.failed \/ b)
<1>1. <<>> \in Seq(BOOLEAN)
  OBVIOUS
<1>2. s.said \cup {<<s.lesson, v>>} \subseteq Lessons \X Judgements
  BY RunParts
<1>3. (s.failed \/ b) \in BOOLEAN
  OBVIOUS
<1> QED
  BY <1>1, <1>2, <1>3 DEF Told, Runs

(* It goes on with the next lesson.                                        *)
LEMMA ToldOK ==
  ASSUME NEW s \in Runs, s.lesson \in Lessons, s.todo \subseteq Active(s.read),
         NEW v \in Judgements, NEW b \in BOOLEAN
  PROVE  RunOK(Told(s, v, b), "next")
BY ToldRun DEF RunOK

(* A lesson is taken.                                                      *)
LEMMA TakeRun ==
  ASSUME NEW s \in Runs, s.todo \subseteq Active(s.read), NEW l \in s.todo
  PROVE  LET t == Take(s, l) IN
         /\ t \in Runs /\ t.read = s.read /\ t.todo = s.todo \ {l}
         /\ t.verify = s.verify /\ t.strict = s.strict /\ t.now = s.now
         /\ t.fresh = s.fresh /\ t.made = s.made /\ t.said = s.said
         /\ t.failed = s.failed /\ t.lesson = l /\ t.table = s.table
         /\ t.todo \subseteq Active(t.read) /\ l \in Active(t.read)
         /\ l \in Lessons /\ l \notin t.todo
<1>1. l \in Lessons /\ s.todo \ {l} \subseteq Lessons
  BY RunParts
<1> QED
  BY <1>1 DEF Take, Runs

(* A definition is kept for the lesson at hand.                            *)
LEMMA DefRun ==
  ASSUME NEW s \in Runs, NEW d \in Defs
  PROVE  LET t == [s EXCEPT !.def = d] IN
         /\ t \in Runs /\ t.read = s.read /\ t.todo = s.todo
         /\ t.verify = s.verify /\ t.strict = s.strict /\ t.now = s.now
         /\ t.fresh = s.fresh /\ t.made = s.made /\ t.said = s.said
         /\ t.failed = s.failed /\ t.lesson = s.lesson /\ t.def = d
BY DEF Runs

(* A receipt is found fresh.                                               *)
LEMMA FreshRun ==
  ASSUME NEW s \in Runs, s.lesson \in Lessons, NEW r \in Receipts
  PROVE  LET t == [s EXCEPT !.fresh = @ \cup {<<s.lesson, r>>}] IN
         /\ t \in Runs /\ t.read = s.read /\ t.todo = s.todo
         /\ t.verify = s.verify /\ t.strict = s.strict /\ t.now = s.now
         /\ t.fresh = s.fresh \cup {<<s.lesson, r>>}
         /\ t.made = s.made /\ t.said = s.said /\ t.table = s.table
         /\ t.failed = s.failed /\ t.lesson = s.lesson
<1>1. s.fresh \cup {<<s.lesson, r>>} \subseteq Lessons \X Receipts
  BY RunParts
<1> QED
  BY <1>1 DEF Runs

(* A line that names a definition names a verifier.                        *)
LEMMA NamedDef ==
  ASSUME NEW s \in Runs, NEW e \in Entries, Named(s, e) # None
  PROVE  Named(s, e) \in Defs /\ e.verifier \in Verifiers
<1>1. e.verifier \in Verifiers \cup {None}
  BY DEF Entries
<1> QED
  BY <1>1, RunParts DEF Named

-----------------------------------------------------------------------------
(* A step of a command that leaves it with the knowledge s.                *)
LEMMA CmdTypes ==
  ASSUME TypeOK, NEW c \in Cmds, NEW s \in Runs \cup {NoRun}, NEW at \in Steps,
         Keep(c, s), Goto(c, at), ReadOnly,
         IF at \in {"idle", "killed"} THEN s = NoRun ELSE RunOK(s, at),
         pending \subseteq pending', pending' \subseteq Receipts,
         soiled' \subseteq pending', disturbed' \subseteq Cmds
  PROVE  TypeOK'
<1>1. /\ entry' = entry /\ manifest' = manifest /\ tree' = tree
      /\ filed' = filed /\ clock' = clock /\ edits' = edits
  BY DEF ReadOnly, World
<1>2. /\ entry' \in [Lessons -> Entries]
      /\ manifest' \in [Verifiers -> Defs \cup {None}] /\ tree' \in Trees
      /\ clock' \in Time /\ edits' \in 0..MaxEdits
  BY <1>1 DEF TypeOK
<1>3. filed' \in [Lessons -> SUBSET pending']
  BY <1>1 DEF TypeOK
<1>4. pc' \in [Cmds -> Steps] /\ run' \in [Cmds -> Runs \cup {NoRun}]
  BY DEF TypeOK, Keep, Goto
<1>5. ASSUME NEW d \in Cmds
      PROVE  IF pc'[d] \in {"idle", "killed"} THEN run'[d] = NoRun
                                              ELSE RunOK(run'[d], pc'[d])
  <2>1. CASE d = c
    <3>1. run'[d] = s /\ pc'[d] = at
      BY <2>1 DEF TypeOK, Keep, Goto
    <3> QED
      BY <3>1
  <2>2. CASE d # c
    <3>1. run'[d] = run[d] /\ pc'[d] = pc[d]
      BY <2>2 DEF TypeOK, Keep, Goto
    <3> QED
      BY <3>1 DEF TypeOK
  <2> QED
    BY <2>1, <2>2
<1> QED
  BY <1>2, <1>3, <1>4, <1>5 DEF TypeOK

(* What a command at a step knows.                                         *)
LEMMA KnownOK ==
  ASSUME TypeOK, NEW c \in Cmds, pc[c] \notin {"idle", "killed"}
  PROVE  run[c] \in Runs /\ RunOK(run[c], pc[c])
BY DEF TypeOK, RunOK

(* Commands start and end.                                                 *)
LEMMA EndsTypes ==
  ASSUME ConstantsOK, TypeOK, NEW c \in Cmds,
         (\E verify, strict \in BOOLEAN : Start(c, verify, strict))
           \/ LoadVerifiers(c) \/ Finish(c) \/ Kill(c)
  PROVE  TypeOK'
<1> USE DEF TypeOK
<1>1. ASSUME NEW verify \in BOOLEAN, NEW strict \in BOOLEAN,
             Start(c, verify, strict)
      PROVE  TypeOK'
  <2> DEFINE active == Active(entry)
             s == [verify |-> verify, strict |-> strict, now |-> clock,
              read |-> entry, todo |-> active,
              table |-> [v \in Verifiers |-> None], lesson |-> None,
              def |-> None, inputs |-> <<>>, runs |-> <<>>,
              fresh |-> {}, made |-> {}, said |-> {},
              failed |-> active = {}]
             at == IF active = {} THEN "done" ELSE "manifest"
  <2>1. Keep(c, s) /\ Goto(c, at) /\ ReadOnly
    BY <1>1 DEF Start
  <2>2. active \subseteq Lessons
    BY DEF Active
  <2>3. s \in Runs
    <3>1. <<>> \in Seq(BOOLEAN) /\ (active = {}) \in BOOLEAN
      OBVIOUS
    <3>2. entry \in [Lessons -> Entries] /\ clock \in Time
      OBVIOUS
    <3> HIDE DEF TypeOK, active
    <3> QED
      BY <2>2, <3>1, <3>2 DEF Runs
  <2>4. s.todo = active /\ s.read = entry /\ at \in {"done", "manifest"}
    OBVIOUS
  <2>5. RunOK(s, at)
    <3> HIDE DEF TypeOK, s, at
    <3> QED
      BY <2>3, <2>4 DEF RunOK
  <2>6. pending' = pending /\ soiled' = soiled /\ disturbed' = disturbed
    BY <1>1 DEF Start, Unmade
  <2>7. at \in Steps /\ at \notin {"idle", "killed"}
    BY DEF Steps
  <2> HIDE DEF s, at
  <2> QED
    BY <2>1, <2>3, <2>5, <2>6, <2>7, CmdTypes
<1>2. CASE LoadVerifiers(c)
  <2> DEFINE s == [run[c] EXCEPT !.table = manifest]
  <2>1. pc[c] = "manifest" /\ Keep(c, s) /\ Goto(c, "next") /\ ReadOnly
    BY <1>2 DEF LoadVerifiers
  <2>2. run[c] \in Runs /\ RunOK(run[c], pc[c])
    BY <2>1, KnownOK
  <2>3. s \in Runs /\ s.todo = run[c].todo /\ s.read = run[c].read
    BY <2>2 DEF Runs
  <2>4. RunOK(s, "next")
    <3> HIDE DEF TypeOK, s
    <3> QED
      BY <2>2, <2>3 DEF RunOK
  <2>5. pending' = pending /\ soiled' = soiled /\ disturbed' = disturbed
    BY <1>2 DEF LoadVerifiers, Unmade
  <2> HIDE DEF s
  <2> QED
    BY <2>1, <2>3, <2>4, <2>5, CmdTypes DEF Steps
<1>3. CASE Finish(c)
  <2>1. pc[c] = "next" /\ Goto(c, "done") /\ ReadOnly /\ run' = run
    BY <1>3 DEF Finish
  <2>2. run[c] \in Runs /\ RunOK(run[c], pc[c])
    BY <2>1, KnownOK
  <2>3. Keep(c, run[c])
    BY <2>1 DEF Keep
  <2>4. RunOK(run[c], "done")
    BY <2>2 DEF RunOK
  <2>5. pending' = pending /\ soiled' = soiled /\ disturbed' = disturbed
    BY <1>3 DEF Finish, Unmade
  <2> QED
    BY <2>1, <2>2, <2>3, <2>4, <2>5, CmdTypes DEF Steps
<1>4. CASE Kill(c)
  <2>1. Keep(c, NoRun) /\ Goto(c, "killed") /\ ReadOnly
    BY <1>4 DEF Kill, Keep
  <2>2. pending' = pending /\ soiled' = soiled /\ disturbed' = disturbed
    BY <1>4 DEF Kill, Unmade
  <2> QED
    BY <2>1, <2>2, CmdTypes DEF Steps
<1> QED
  BY <1>1, <1>2, <1>3, <1>4

(* A verdict is told; no receipt is made.                                  *)
LEMMA TellTypes ==
  ASSUME TypeOK, NEW c \in Cmds, NEW s \in Runs, s.lesson \in Lessons,
         s.todo \subseteq Active(s.read), NEW v \in Judgements, NEW b \in BOOLEAN,
         Tell(c, s, v, b), ReadOnly, Unmade, disturbed' \subseteq Cmds
  PROVE  TypeOK'
<1>1. Keep(c, Told(s, v, b)) /\ Goto(c, "next")
  BY DEF Tell
<1>2. Told(s, v, b) \in Runs /\ RunOK(Told(s, v, b), "next")
  BY ToldRun, ToldOK
<1>3. pending' = pending /\ soiled' = soiled
  BY DEF Unmade
<1>4. pending \subseteq Receipts /\ soiled \subseteq pending
  BY DEF TypeOK
<1> QED
  BY <1>1, <1>2, <1>3, <1>4, CmdTypes DEF Steps

(* The definition to be verified by is kept.                               *)
LEMMA VerifyTypes ==
  ASSUME TypeOK, NEW c \in Cmds, NEW s \in Runs, NEW d \in Defs,
         s.lesson \in Active(s.read), s.todo \subseteq Active(s.read),
         s.read[s.lesson].status \in {"checklist", "enforced"},
         s.read[s.lesson].verifier \in Verifiers,
         Verify(c, s, d), ReadOnly, Unmade, disturbed' \subseteq Cmds
  PROVE  TypeOK'
<1> DEFINE t == [s EXCEPT !.def = d]
<1>1. Keep(c, t) /\ Goto(c, "inputs")
  BY DEF Verify
<1>2. /\ t \in Runs /\ t.read = s.read /\ t.todo = s.todo
      /\ t.lesson = s.lesson /\ t.def = d
  BY DefRun
<1>3. RunOK(t, "inputs")
  <2> HIDE DEF t
  <2> QED
    BY <1>2 DEF RunOK
<1>4. pending' = pending /\ soiled' = soiled
  BY DEF Unmade
<1>5. pending \subseteq Receipts /\ soiled \subseteq pending
  BY DEF TypeOK
<1> HIDE DEF t
<1> QED
  BY <1>1, <1>2, <1>3, <1>4, <1>5, CmdTypes DEF Steps

(* What is found out of a lesson: a verdict, or that it is to be verified, *)
(* or that its receipt is to be read.                                      *)
LEMMA InspectCases ==
  ASSUME NEW c, NEW l, Inspect(c, l)
  PROVE  LET s == Take(run[c], l)
             e == s.read[l]
         IN
         \/ Tell(c, s, "broken sink", s.strict)
         \/ e.status = "pending" /\ Tell(c, s, "to checklist", FALSE)
         \/ e.status = "pending" /\ Tell(c, s, "not ready", FALSE)
         \/ e.status = "checklist" /\ Tell(c, s, "not ready", s.verify)
         \/ /\ e.status = "checklist" /\ s.verify /\ Named(s, e) # None
            /\ Verify(c, s, Named(s, e))
         \/ e.status = "enforced" /\ Tell(c, s, "stale", FALSE)
         \/ /\ e.status = "enforced" /\ e.evidence # None
            /\ Keep(c, s) /\ Goto(c, "receipt")
<1> DEFINE s == Take(run[c], l)
           e == s.read[l]
<1> HIDE DEF s, e
<1>1. CASE ~SinkThere(e)
  BY <1>1 DEF Inspect, s, e
<1>2. CASE SinkThere(e) /\ e.status = "pending"
  <2>1. Tell(c, s, IF SinkNames(l, e) THEN "to checklist"
                                                    ELSE "not ready", FALSE)
    BY <1>2 DEF Inspect, s, e
  <2>2. CASE SinkNames(l, e)
    BY <1>2, <2>1, <2>2 DEF s, e
  <2>3. CASE ~SinkNames(l, e)
    BY <1>2, <2>1, <2>3 DEF s, e
  <2> QED
    BY <2>2, <2>3
<1>3. CASE SinkThere(e) /\ e.status = "checklist"
  BY <1>3 DEF Inspect, s, e
<1>4. CASE SinkThere(e) /\ e.status = "enforced"
  BY <1>4 DEF Inspect, s, e
<1>5. SinkThere(e) => e.status \in {"pending", "checklist", "enforced"}
  BY DEF Inspect, s, e
<1> QED
  BY <1>1, <1>2, <1>3, <1>4, <1>5

(* What a lesson needs is found out.                                       *)
LEMMA InspectTypes ==
  ASSUME ConstantsOK, TypeOK, NEW c \in Cmds, NEW l \in Lessons, Inspect(c, l)
  PROVE  TypeOK'
<1> DEFINE s == Take(run[c], l)
           e == s.read[l]
<1>1. pc[c] = "next" /\ l \in run[c].todo
  BY DEF Inspect
<1>2. /\ ReadOnly /\ Unmade /\ disturbed' = disturbed
      /\ pending \subseteq Receipts /\ soiled \subseteq pending
      /\ disturbed \subseteq Cmds
  BY DEF Inspect, TypeOK
<1>3. /\ run[c] \in Runs /\ RunOK(run[c], pc[c])
      /\ run[c].todo \subseteq Active(run[c].read)
  BY <1>1, KnownOK DEF RunOK
<1>4. /\ s \in Runs /\ s.read = run[c].read /\ s.todo = run[c].todo \ {l}
      /\ s.todo \subseteq Active(s.read) /\ s.lesson = l /\ l \in Active(s.read)
      /\ s.strict = run[c].strict /\ s.verify = run[c].verify
  BY <1>1, <1>3, TakeRun
<1>5. e \in Entries /\ s.strict \in BOOLEAN /\ s.verify \in BOOLEAN
  BY <1>3, <1>4, RunParts
<1>6. s.read[s.lesson] = e
  BY <1>4
<1>7. \/ Tell(c, s, "broken sink", s.strict)
      \/ Tell(c, s, "to checklist", FALSE)
      \/ Tell(c, s, "not ready", FALSE)
      \/ Tell(c, s, "not ready", s.verify)
      \/ /\ e.status = "checklist" /\ Named(s, e) # None
         /\ Verify(c, s, Named(s, e))
      \/ Tell(c, s, "stale", FALSE)
      \/ /\ e.status = "enforced" /\ e.evidence # None
         /\ Keep(c, s) /\ Goto(c, "receipt")
  BY InspectCases
<1> HIDE DEF s, e
<1>8. CASE \E v \in Judgements, b \in BOOLEAN : Tell(c, s, v, b)
  BY <1>2, <1>4, <1>8, TellTypes
<1>9. CASE /\ e.status = "checklist" /\ Named(s, e) # None
           /\ Verify(c, s, Named(s, e))
  <2>1. Named(s, e) \in Defs /\ e.verifier \in Verifiers
    BY <1>4, <1>5, <1>9, NamedDef
  <2> QED
    BY <1>2, <1>4, <1>6, <1>9, <2>1, VerifyTypes
<1>10. CASE /\ e.status = "enforced" /\ e.evidence # None
            /\ Keep(c, s) /\ Goto(c, "receipt")
  <2>1. e.evidence \in Receipts
    BY <1>5, <1>10 DEF Entries
  <2>2. RunOK(s, "receipt")
    BY <1>4, <1>6, <1>10, <2>1 DEF RunOK
  <2>3. pending' = pending /\ soiled' = soiled
    BY <1>2 DEF Unmade
  <2> QED
    BY <1>2, <1>4, <1>10, <2>2, <2>3, CmdTypes DEF Steps
<1>11. {"broken sink", "to checklist", "not ready", "stale"} \subseteq Judgements
  BY DEF Judgements
<1> QED
  BY <1>5, <1>7, <1>8, <1>9, <1>10, <1>11

(* What a command knows that has a lesson at hand.                         *)
LEMMA MidParts ==
  ASSUME TypeOK, NEW c \in Cmds, pc[c] \in Mid
  PROVE  /\ run[c] \in Runs /\ RunOK(run[c], pc[c])
         /\ run[c].todo \subseteq Active(run[c].read)
         /\ run[c].lesson \in Active(run[c].read) /\ run[c].lesson \in Lessons
         /\ run[c].read[run[c].lesson] \in Entries
         /\ pending \subseteq Receipts /\ soiled \subseteq pending
         /\ disturbed \subseteq Cmds
<1>1. run[c] \in Runs /\ RunOK(run[c], pc[c])
  BY KnownOK DEF Mid
<1>2. /\ run[c].todo \subseteq Active(run[c].read)
      /\ run[c].lesson \in Active(run[c].read)
  BY <1>1 DEF RunOK, Mid
<1>3. run[c].lesson \in Lessons /\ run[c].read[run[c].lesson] \in Entries
  BY <1>1, <1>2, RunParts
<1> QED
  BY <1>1, <1>2, <1>3 DEF TypeOK

(* A receipt and the definition it names are read.                         *)
LEMMA ReadTypes ==
  ASSUME TypeOK, NEW c \in Cmds, ReadReceipt(c) \/ ReadDefinition(c)
  PROVE  TypeOK'
<1> DEFINE s == run[c]
           d == manifest[s.read[s.lesson].evidence.verifier]
<1>1. pc[c] \in {"receipt", "definition"} /\ pc[c] \in Mid
  BY DEF ReadReceipt, ReadDefinition, Mid
<1>2. /\ s \in Runs /\ RunOK(s, pc[c]) /\ s.todo \subseteq Active(s.read)
      /\ s.lesson \in Active(s.read) /\ s.lesson \in Lessons
      /\ pending \subseteq Receipts /\ soiled \subseteq pending
      /\ disturbed \subseteq Cmds
  BY <1>1, MidParts
<1>3. /\ s.read[s.lesson].status = "enforced"
      /\ s.read[s.lesson].evidence \in Receipts \ {None}
  BY <1>1, <1>2 DEF RunOK
<1>4. s.read[s.lesson].evidence.verifier \in Verifiers
  BY <1>3 DEF Receipts
<1>5. d \in Defs \cup {None}
  BY <1>4 DEF TypeOK
<1>6. ReadOnly /\ Unmade /\ disturbed' \subseteq Cmds
  BY <1>2 DEF ReadReceipt, ReadDefinition
<1>7. pending' = pending /\ soiled' = soiled
  BY <1>6 DEF Unmade
<1>8. "stale" \in Judgements
  BY DEF Judgements
<1>9. CASE Tell(c, s, "stale", FALSE)
  <2> HIDE DEF s
  <2> QED
    BY <1>2, <1>6, <1>8, <1>9, TellTypes
<1>10. CASE pc[c] = "receipt" /\ Goto(c, "definition") /\ run' = run
  <2>1. Keep(c, s)
    BY <1>10 DEF Keep, TypeOK
  <2>2. RunOK(s, "definition")
    <3> HIDE DEF s
    <3> QED
      BY <1>2, <1>3 DEF RunOK
  <2> HIDE DEF s
  <2> QED
    BY <1>2, <1>6, <1>7, <1>10, <2>1, <2>2, CmdTypes DEF Steps
<1>11. CASE /\ d # None /\ Keep(c, [s EXCEPT !.def = d])
            /\ Goto(c, "compare")
  <2> DEFINE t == [s EXCEPT !.def = d]
  <2>1. d \in Defs
    BY <1>5, <1>11
  <2> HIDE DEF d
  <2>2. /\ t \in Runs /\ t.read = s.read /\ t.todo = s.todo
        /\ t.lesson = s.lesson /\ t.def = d
    BY <1>2, <2>1, DefRun
  <2> HIDE DEF t, s
  <2>3. RunOK(t, "compare")
    BY <1>2, <1>3, <2>1, <2>2 DEF RunOK
  <2>4. Keep(c, t) /\ Goto(c, "compare")
    BY <1>11 DEF t
  <2> QED
    BY <1>2, <1>6, <1>7, <2>2, <2>3, <2>4, CmdTypes DEF Steps
<1> QED
  BY <1>9, <1>10, <1>11 DEF ReadReceipt, ReadDefinition

(* A lesson is reported as fresh, or to be verified again.                 *)
LEMMA CompareTypes ==
  ASSUME TypeOK, NEW c \in Cmds, Compare(c)
  PROVE  TypeOK'
<1> DEFINE s == run[c]
           e == s.read[s.lesson]
           t == [s EXCEPT !.fresh = @ \cup {<<s.lesson, e.evidence>>}]
<1>1. pc[c] = "compare" /\ pc[c] \in Mid
  BY DEF Compare, Mid
<1>2. /\ s \in Runs /\ RunOK(s, pc[c]) /\ s.todo \subseteq Active(s.read)
      /\ s.lesson \in Active(s.read) /\ s.lesson \in Lessons
      /\ disturbed \subseteq Cmds /\ e \in Entries
  BY <1>1, MidParts
<1>3. e.status = "enforced" /\ e.evidence \in Receipts
  BY <1>1, <1>2 DEF RunOK
<1>4. ReadOnly /\ Unmade /\ disturbed' \subseteq Cmds
  BY <1>2 DEF Compare
<1>5. Accept(c, s) \/ Tell(c, s, "stale", FALSE)
  BY DEF Compare
<1>6. {"fresh", "stale"} \subseteq Judgements
  BY DEF Judgements
<1> HIDE DEF s
<1>7. CASE Tell(c, s, "stale", FALSE)
  BY <1>2, <1>4, <1>6, <1>7, TellTypes
<1>8. CASE Accept(c, s)
  <2>1. /\ t \in Runs /\ t.read = s.read /\ t.todo = s.todo
        /\ t.lesson = s.lesson
    BY <1>2, <1>3, FreshRun
  <2>2. \/ Tell(c, t, "fresh", FALSE) \/ Tell(c, t, "stale", FALSE)
        \/ Named(s, e) # None /\ Verify(c, t, Named(s, e))
    BY <1>8 DEF Accept
  <2> HIDE DEF t
  <2>3. CASE Tell(c, t, "fresh", FALSE) \/ Tell(c, t, "stale", FALSE)
    BY <1>2, <1>4, <1>6, <2>1, <2>3, TellTypes
  <2>4. CASE Named(s, e) # None /\ Verify(c, t, Named(s, e))
    <3>1. Named(s, e) \in Defs /\ e.verifier \in Verifiers
      BY <1>2, <2>4, NamedDef
    <3>2. t.read[t.lesson] = e
      BY <2>1
    <3> HIDE DEF e
    <3> QED
      BY <1>2, <1>3, <1>4, <2>1, <2>4, <3>1, <3>2, VerifyTypes
  <2> QED
    BY <2>2, <2>3, <2>4
<1> QED
  BY <1>5, <1>7, <1>8

(* The contents of files are contents of files.                            *)
LEMMA RelatedInputs ==
  ASSUME ConstantsOK, TypeOK, NEW d \in Defs
  PROVE  Related(d) \in Inputs
<1> DEFINE S == d.reads \cap There
<1>1. S \subseteq Files /\ S \in SUBSET Files
  BY DEF There
<1>2. \A f \in S : tree[f] \in Contents
  BY DEF There, TypeOK, Trees
<1>3. Related(d) \in [S -> Contents]
  BY <1>2 DEF Related
<1> QED
  BY <1>1, <1>3 DEF Inputs

(* Files are read, and probes run.                                         *)
LEMMA ProbeTypes ==
  ASSUME ConstantsOK, TypeOK, NEW c \in Cmds, ReadInputs(c) \/ Probe(c)
  PROVE  TypeOK'
<1> DEFINE s == run[c]
<1>1. pc[c] \in {"inputs", "probe"} /\ pc[c] \in Mid
  BY DEF ReadInputs, Probe, Mid
<1>2. /\ s \in Runs /\ RunOK(s, pc[c]) /\ s.todo \subseteq Active(s.read)
      /\ s.lesson \in Active(s.read) /\ s.lesson \in Lessons
      /\ pending \subseteq Receipts /\ soiled \subseteq pending
      /\ disturbed \subseteq Cmds
  BY <1>1, MidParts
<1>3. /\ s.read[s.lesson].status \in {"checklist", "enforced"}
      /\ s.read[s.lesson].verifier \in Verifiers /\ s.def \in Defs
  BY <1>1, <1>2 DEF RunOK
<1>4. ReadOnly /\ Unmade /\ disturbed' \subseteq Cmds
  BY <1>2 DEF ReadInputs, Probe
<1>5. pending' = pending /\ soiled' = soiled
  BY <1>4 DEF Unmade
<1>6. Related(s.def) \in Inputs
  BY <1>3, RelatedInputs
<1>7. CASE Tell(c, s, "not ready", TRUE)
  <2>1. "not ready" \in Judgements
    BY DEF Judgements
  <2> HIDE DEF s
  <2> QED
    BY <1>2, <1>4, <1>7, <2>1, TellTypes
<1>8. CASE /\ Keep(c, [s EXCEPT !.inputs = Related(s.def), !.runs = <<>>])
           /\ Goto(c, "probe")
  <2> DEFINE t == [s EXCEPT !.inputs = Related(s.def), !.runs = <<>>]
  <2>1. <<>> \in Seq(BOOLEAN) /\ Len(<<>>) = 0
    OBVIOUS
  <2>2. 0 < Probes
    BY DEF ConstantsOK
  <2>3. /\ t \in Runs /\ t.read = s.read /\ t.todo = s.todo
        /\ t.lesson = s.lesson /\ t.def = s.def
        /\ t.inputs = Related(s.def) /\ t.runs = <<>>
    BY <1>2, <1>6, <2>1 DEF Runs
  <2>4. Keep(c, t) /\ Goto(c, "probe")
    BY <1>8
  <2> HIDE DEF t, s
  <2>5. RunOK(t, "probe")
    BY <1>2, <1>3, <1>6, <2>1, <2>2, <2>3 DEF RunOK
  <2> QED
    BY <1>2, <1>4, <1>5, <2>3, <2>4, <2>5, CmdTypes DEF Steps
<1>9. CASE Probe(c)
  <2> DEFINE i == Len(s.runs) + 1
             b == Passes(s.def, i)
             t == [s EXCEPT !.runs = Append(@, b)]
             at == IF i = Probes THEN "judge" ELSE "probe"
  <2>1. Keep(c, t) /\ Goto(c, at) /\ pc[c] = "probe"
    BY <1>9 DEF Probe
  <2>2. b \in BOOLEAN
    BY DEF Passes
  <2>3. s.runs \in Seq(BOOLEAN)
    BY <1>2, RunParts
  <2>4. s.inputs \in Inputs /\ Len(s.runs) < Probes
    BY <1>2, <2>1 DEF RunOK
  <2> HIDE DEF b
  <2>5. Append(s.runs, b) \in Seq(BOOLEAN) /\ Len(Append(s.runs, b)) = i
    BY <2>2, <2>3
  <2>6. /\ t \in Runs /\ t.read = s.read /\ t.todo = s.todo
        /\ t.lesson = s.lesson /\ t.def = s.def
        /\ t.inputs = s.inputs /\ t.runs = Append(s.runs, b)
    BY <1>2, <2>5 DEF Runs
  <2>7. Len(s.runs) \in Nat /\ Probes \in Nat
    BY <2>3 DEF ConstantsOK
  <2>8. at \in {"judge", "probe"} /\ (at = "probe" => i < Probes)
        /\ (at = "judge" => i = Probes)
    BY <2>4, <2>7
  <2> HIDE DEF t, s, i, at
  <2>9. RunOK(t, at)
    BY <1>2, <1>3, <2>4, <2>5, <2>6, <2>8 DEF RunOK
  <2> QED
    BY <1>2, <1>4, <1>5, <2>1, <2>6, <2>8, <2>9, CmdTypes DEF Steps
<1> QED
  BY <1>7, <1>8, <1>9 DEF ReadInputs

(* A receipt has its type.                                                 *)
LEMMA ReceiptTypes ==
  ASSUME NEW s \in Runs, RunOK(s, "judge")
  PROVE  /\ Receipt(s) \in Receipts /\ s.lesson \in Lessons
         /\ Receipt(s).lesson = s.lesson /\ Receipt(s).inputs = s.inputs
         /\ Receipt(s).from = s.read[s.lesson].status
         /\ Receipt(s).def = s.def /\ Receipt(s).runs = s.runs
<1>1. /\ s.lesson \in Lessons /\ s.now \in Time /\ s.runs \in Seq(BOOLEAN)
  BY RunParts DEF RunOK, Active
<1>2. /\ s.read[s.lesson].status \in {"checklist", "enforced"}
      /\ s.read[s.lesson].verifier \in Verifiers /\ s.def \in Defs
      /\ s.inputs \in Inputs /\ Len(s.runs) = Probes
  BY DEF RunOK
<1>3. s.runs \in [1..Probes -> BOOLEAN]
  BY <1>1, <1>2
<1> QED
  BY <1>1, <1>2, <1>3 DEF Receipt, Receipts

(* A verification leaves its receipt, or none.                             *)
LEMMA JudgeTypes ==
  ASSUME TypeOK, NEW c \in Cmds, Judge(c)
  PROVE  TypeOK'
<1> DEFINE s == run[c]
           r == Receipt(s)
           t == [s EXCEPT !.made = @ \cup {<<s.lesson, r>>}]
<1>1. pc[c] = "judge" /\ pc[c] \in Mid
  BY DEF Judge, Mid
<1>2. /\ s \in Runs /\ RunOK(s, "judge") /\ s.todo \subseteq Active(s.read)
      /\ s.lesson \in Lessons
      /\ pending \subseteq Receipts /\ soiled \subseteq pending
      /\ disturbed \subseteq Cmds
  BY <1>1, MidParts
<1>3. ReadOnly /\ disturbed' = disturbed
  BY DEF Judge
<1>4. {"not ready", "to enforced", "to archive"} \subseteq Judgements
  BY DEF Judgements
<1>5. CASE Tell(c, s, "not ready", TRUE) /\ Unmade
  <2> HIDE DEF s
  <2> QED
    BY <1>2, <1>3, <1>4, <1>5, TellTypes
<1>6. CASE /\ pending' = pending \cup {r}
           /\ soiled' = IF c \in disturbed THEN soiled \cup {r} ELSE soiled
           /\ Tell(c, t, IF r.from = "checklist" THEN "to enforced"
                                                 ELSE "to archive", FALSE)
  <2> DEFINE v == IF r.from = "checklist" THEN "to enforced" ELSE "to archive"
  <2>1. r \in Receipts
    BY <1>2, ReceiptTypes
  <2>2. s.made \cup {<<s.lesson, r>>} \subseteq Lessons \X Receipts
    BY <1>2, <2>1, RunParts
  <2>3. t \in Runs /\ t.todo = s.todo /\ t.read = s.read /\ t.lesson = s.lesson
    BY <1>2, <2>2 DEF Runs
  <2>4. v \in Judgements
    BY <1>4
  <2>5. Keep(c, Told(t, v, FALSE)) /\ Goto(c, "next")
    BY <1>6 DEF Tell
  <2> HIDE DEF t, v, r, s
  <2>6. Told(t, v, FALSE) \in Runs /\ RunOK(Told(t, v, FALSE), "next")
    BY <1>2, <2>3, <2>4, ToldRun, ToldOK
  <2> QED
    BY <1>2, <1>3, <1>6, <2>1, <2>5, <2>6, CmdTypes DEF Steps
<1> QED
  BY <1>5, <1>6 DEF Judge

(* A line is given another status, verifier, evidence or date.             *)
LEMMA LineTypes ==
  ASSUME NEW e \in Entries
  PROVE  /\ \A s \in Statuses : [e EXCEPT !.status = s] \in Entries
         /\ \A v \in Verifiers \cup {None} : [e EXCEPT !.verifier = v] \in Entries
         /\ [e EXCEPT !.dated = None] \in Entries
         /\ \A r \in Receipts, t \in Time :
              [e EXCEPT !.status = "enforced", !.evidence = r,
                        !.dated = Day(t)] \in Entries
<1> DEFINE Dates == {None} \cup {Day(u) : u \in Time}
<1>1. \A t \in Time : Day(t) \in Dates
  OBVIOUS
<1>2. "enforced" \in Statuses /\ None \in Dates
  BY DEF Statuses
<1>3. Entries = [status : Statuses, sink : Files,
                 verifier : Verifiers \cup {None},
                 evidence : Receipts \cup {None}, dated : Dates]
  BY DEF Entries
<1> HIDE DEF Dates
<1> QED
  BY <1>1, <1>2, <1>3

(* A step of the user.                                                     *)
LEMMA UserTypes ==
  ASSUME ConstantsOK, TypeOK, User
  PROVE  TypeOK'
<1> USE DEF TypeOK
<1>1. pending' = pending /\ pc' = pc /\ run' = run /\ soiled' = soiled
  BY DEF User, Unrun, EditFile, EditManifest, EditEntry, FileReceipt,
     LoseReceipt, SetClock, Tick
<1>2. disturbed' \subseteq Cmds
  BY DEF User, EditFile, EditManifest, EditEntry, FileReceipt, LoseReceipt,
     SetClock, Tick
<1>3. edits' \in 0..MaxEdits
  <2>1. edits' = edits \/ (edits < MaxEdits /\ edits' = edits + 1)
    BY DEF User, Act, EditFile, EditManifest, EditEntry, FileReceipt,
       LoseReceipt, SetClock, Tick
  <2> QED
    BY <2>1 DEF ConstantsOK
<1>4. clock' \in Time
  <2>1. clock' = clock \/ clock' \in Time
          \/ (clock < MaxTime /\ clock' = clock + 1)
    BY DEF User, EditFile, EditManifest, EditEntry, FileReceipt,
       LoseReceipt, SetClock, Tick
  <2> QED
    BY <2>1 DEF ConstantsOK, Time
<1>5. tree' \in Trees
  BY DEF User, EditFile, EditManifest, EditEntry, FileReceipt, LoseReceipt,
     SetClock, Tick, Trees
<1>6. manifest' \in [Verifiers -> Defs \cup {None}]
  BY DEF User, EditFile, EditManifest, EditEntry, FileReceipt, LoseReceipt,
     SetClock, Tick
<1>7. filed' \in [Lessons -> SUBSET pending']
  <2>1. \/ filed' = filed
        \/ \E l \in Lessons : \E r \in pending :
             \/ filed' = [filed EXCEPT ![l] = @ \cup {r}]
             \/ filed' = [filed EXCEPT ![l] = @ \ {r}]
    BY DEF User, EditFile, EditManifest, EditEntry, FileReceipt,
       LoseReceipt, SetClock, Tick
  <2> QED
    BY <1>1, <2>1
<1>8. entry' \in [Lessons -> Entries]
  <2>1. CASE entry' = entry
    BY <2>1
  <2>2. ASSUME NEW l \in Lessons, NEW e \in Entries,
               entry' = [entry EXCEPT ![l] = e]
        PROVE  entry' \in [Lessons -> Entries]
    BY <2>2
  <2>3. ASSUME NEW l \in Lessons, NEW s \in Statuses,
               EditEntry(l, [entry[l] EXCEPT !.status = s])
        PROVE  entry' \in [Lessons -> Entries]
    <3>1. [entry[l] EXCEPT !.status = s] \in Entries
      BY LineTypes
    <3> QED
      BY <2>2, <2>3, <3>1 DEF EditEntry
  <2>4. ASSUME NEW l \in Lessons, NEW v \in Verifiers \cup {None},
               EditEntry(l, [entry[l] EXCEPT !.verifier = v])
        PROVE  entry' \in [Lessons -> Entries]
    <3>1. [entry[l] EXCEPT !.verifier = v] \in Entries
      BY LineTypes
    <3> QED
      BY <2>2, <2>4, <3>1 DEF EditEntry
  <2>5. ASSUME NEW l \in Lessons, EditEntry(l, [entry[l] EXCEPT !.dated = None])
        PROVE  entry' \in [Lessons -> Entries]
    <3>1. [entry[l] EXCEPT !.dated = None] \in Entries
      BY LineTypes
    <3> QED
      BY <2>2, <2>5, <3>1 DEF EditEntry
  <2>6. ASSUME NEW l \in Lessons, NEW r \in pending, FileReceipt(l, r)
        PROVE  entry' \in [Lessons -> Entries]
    <3> DEFINE e == [entry[l] EXCEPT !.status = "enforced", !.evidence = r,
                                     !.dated = Day(r.utc)]
    <3>1. r \in Receipts /\ r.utc \in Time
      BY DEF Receipts
    <3>2. e \in Entries
      BY <3>1, LineTypes
    <3>4. entry' = [entry EXCEPT ![l].status = "enforced", ![l].evidence = r,
                                 ![l].dated = Day(r.utc)]
      BY <2>6 DEF FileReceipt
    <3>5. entry' = [entry EXCEPT ![l] = e]
      BY <3>4
    <3> QED
      BY <2>2, <3>2, <3>4
  <2>7. \/ entry' = entry
        \/ \E l \in Lessons :
             \/ \E s \in Statuses : EditEntry(l, [entry[l] EXCEPT !.status = s])
             \/ \E v \in Verifiers \cup {None} :
                  EditEntry(l, [entry[l] EXCEPT !.verifier = v])
             \/ EditEntry(l, [entry[l] EXCEPT !.dated = None])
             \/ \E r \in pending : FileReceipt(l, r)
    BY DEF User, EditFile, EditManifest, LoseReceipt, SetClock, Tick
  <2> QED
    BY <2>1, <2>3, <2>4, <2>5, <2>6, <2>7
<1>9. \A c \in Cmds : IF pc'[c] \in {"idle", "killed"} THEN run'[c] = NoRun
                                                      ELSE RunOK(run'[c], pc'[c])
  BY <1>1
<1> QED
  BY <1>1, <1>2, <1>3, <1>4, <1>5, <1>6, <1>7, <1>8, <1>9

(* At first nobody runs the command and there are no receipts.             *)
LEMMA InitTypes ==
  ASSUME ConstantsOK, Init
  PROVE  TypeOK
<1>1. entry \in [Lessons -> Entries]
  BY DEF Init, ConstantsOK, Entries, Statuses
<1>2. /\ manifest \in [Verifiers -> Defs \cup {None}] /\ tree \in Trees
      /\ clock \in Time /\ edits \in 0..MaxEdits
  BY DEF Init, ConstantsOK, Trees, Time
<1>3. /\ pending \subseteq Receipts /\ filed \in [Lessons -> SUBSET pending]
      /\ soiled \subseteq pending /\ disturbed \subseteq Cmds
  BY DEF Init
<1>4. pc \in [Cmds -> Steps] /\ run \in [Cmds -> Runs \cup {NoRun}]
  BY DEF Init, Steps
<1>5. \A c \in Cmds : pc[c] = "idle" /\ run[c] = NoRun
  BY DEF Init
<1> QED
  BY <1>1, <1>2, <1>3, <1>4, <1>5 DEF TypeOK

(* What the steps of a command are.                                        *)
LEMMA NextCases ==
  ASSUME Next
  PROVE  \/ User
         \/ \E c \in Cmds :
              \/ (\E verify, strict \in BOOLEAN : Start(c, verify, strict))
                   \/ LoadVerifiers(c) \/ Finish(c) \/ Kill(c)
              \/ \E l \in Lessons : Inspect(c, l)
              \/ ReadReceipt(c) \/ ReadDefinition(c)
              \/ Compare(c)
              \/ ReadInputs(c) \/ Probe(c)
              \/ Judge(c)
BY DEF Next, CmdStep

(* Every step keeps the types.                                             *)
LEMMA StepTypes ==
  ASSUME ConstantsOK, TypeOK, [Next]_vars
  PROVE  TypeOK'
<1>1. CASE UNCHANGED vars
  BY <1>1 DEF vars, TypeOK
<1>2. CASE Next
  BY <1>2, NextCases, UserTypes, EndsTypes, InspectTypes, ReadTypes,
     CompareTypes, ProbeTypes, JudgeTypes
<1> QED
  BY <1>1, <1>2

(* The ledgers, the receipts and what a command knows always have their    *)
(* types; in particular a command that is about a receipt has one at hand, *)
(* and one that runs probes has a definition to run them by.               *)
THEOREM TypeCorrect == Spec => []TypeOK
<1>1. Init => TypeOK
  BY ConstantsOK, InitTypes
<1>2. TypeOK /\ [Next]_vars => TypeOK'
  BY ConstantsOK, StepTypes
<1> QED
  BY <1>1, <1>2, PTL DEF Spec

-----------------------------------------------------------------------------
(* A receipt attests the files it names.                                   *)

(* The contents of the files a definition depends on in a tree.            *)
RelatedIn(t, d) == [f \in d.reads \cap {g \in Files : t[g] # Missing} |-> t[f]]

(* The runs so far ended as they do with the files that were noted.        *)
Ran(s) ==
  \A i \in 1..Len(s.runs) : s.runs[i] <=> s.inputs \in s.def.passes[i]

(* What a command knows s at step at, with the receipts kept, manifest man *)
(* and tree t, where nothing it is about was edited if it is clean: the    *)
(* receipts its lines name exist, the definition read again is still in    *)
(* the manifest, and the files noted for the probes are still the same.    *)
Trace(s, at, kept, man, t, clean) ==
  /\ \A l \in Lessons : s.read[l].evidence \in kept \cup {None}
  /\ at = "compare" /\ clean =>
       man[s.read[s.lesson].evidence.verifier] = s.def
  /\ at = "probe" /\ clean => RelatedIn(t, s.def) = s.inputs
  /\ at \in {"probe", "judge"} /\ clean => Ran(s)

Traced ==
  /\ \A l \in Lessons : entry[l].evidence \in pending \cup {None}
  /\ \A c \in Cmds : pc[c] \notin {"idle", "killed"} =>
       Trace(run[c], pc[c], pending, manifest, tree, c \notin disturbed)

(* What a tree has of the files of a definition.                           *)
LEMMA RelatedIs ==
  ASSUME NEW d
  PROVE  Related(d) = RelatedIn(tree, d)
BY DEF Related, RelatedIn, There

(* A trace holds with more receipts.                                       *)
LEMMA TraceMore ==
  ASSUME NEW s, NEW at, NEW kept, NEW more, kept \subseteq more, NEW man,
         NEW t, NEW clean, Trace(s, at, kept, man, t, clean)
  PROVE  Trace(s, at, more, man, t, clean)
BY DEF Trace

(* A step of a command that leaves it with the knowledge s.                *)
LEMMA CmdTraces ==
  ASSUME TypeOK, Traced, NEW c \in Cmds, NEW s, NEW at, Keep(c, s), Goto(c, at),
         ReadOnly, pending \subseteq pending', disturbed' \ {c} = disturbed \ {c},
         at \notin {"idle", "killed"} =>
           Trace(s, at, pending', manifest, tree, c \notin disturbed')
  PROVE  Traced'
<1>1. entry' = entry /\ manifest' = manifest /\ tree' = tree
  BY DEF ReadOnly, World
<1>2. \A l \in Lessons : entry'[l].evidence \in pending' \cup {None}
  BY <1>1 DEF Traced
<1>3. ASSUME NEW d \in Cmds, pc'[d] \notin {"idle", "killed"}
      PROVE  Trace(run'[d], pc'[d], pending', manifest', tree',
                   d \notin disturbed')
  <2>1. CASE d = c
    <3>1. run'[d] = s /\ pc'[d] = at
      BY <2>1 DEF TypeOK, Keep, Goto
    <3> QED
      BY <1>1, <1>3, <2>1, <3>1
  <2>2. CASE d # c
    <3>1. run'[d] = run[d] /\ pc'[d] = pc[d]
      BY <2>2 DEF TypeOK, Keep, Goto
    <3>2. (d \notin disturbed') = (d \notin disturbed)
      BY <2>2
    <3>3. Trace(run[d], pc[d], pending, manifest, tree, d \notin disturbed)
      BY <1>3, <3>1 DEF Traced
    <3>4. Trace(run[d], pc[d], pending', manifest, tree, d \notin disturbed)
      BY <3>3, TraceMore
    <3> QED
      BY <1>1, <3>1, <3>2, <3>4
  <2> QED
    BY <2>1, <2>2
<1> QED
  BY <1>2, <1>3 DEF Traced

(* A step that leaves the command about neither a definition nor probes,   *)
(* and with the lines that it read.                                        *)
Plain(c) ==
  \E t, at : /\ at \in {"next", "receipt", "definition", "inputs", "done"}
             /\ t.read = run[c].read
             /\ run' = [run EXCEPT ![c] = t] /\ pc' = [pc EXCEPT ![c] = at]

(* A verdict is told of what the command read.                             *)
LEMMA TellPlain ==
  ASSUME NEW c, NEW s \in Runs, s.lesson \in Lessons, NEW v \in Judgements,
         NEW b \in BOOLEAN, Tell(c, s, v, b), s.read = run[c].read
  PROVE  Plain(c)
<1> DEFINE t == Told(s, v, b)
<1>1. t.read = s.read
  BY ToldRun
<1>2. run' = [run EXCEPT ![c] = t] /\ pc' = [pc EXCEPT ![c] = "next"]
  BY DEF Tell, Keep, Goto
<1> HIDE DEF t
<1> QED
  BY <1>1, <1>2 DEF Plain

(* A lesson is to be verified as the command read it.                      *)
LEMMA VerifyPlain ==
  ASSUME NEW c, NEW s \in Runs, NEW d \in Defs, Verify(c, s, d),
         s.read = run[c].read
  PROVE  Plain(c)
<1> DEFINE t == [s EXCEPT !.def = d]
<1>1. t.read = s.read
  BY DefRun
<1>2. run' = [run EXCEPT ![c] = t] /\ pc' = [pc EXCEPT ![c] = "inputs"]
  BY DEF Verify, Keep, Goto
<1> HIDE DEF t
<1> QED
  BY <1>1, <1>2 DEF Plain

(* The command reads, decides and reports.                                 *)
LEMMA PlainStep ==
  ASSUME ConstantsOK, TypeOK, NEW c \in Cmds,
         \/ LoadVerifiers(c) \/ Finish(c) \/ (\E l \in Lessons : Inspect(c, l))
         \/ ReadReceipt(c) \/ Compare(c)
  PROVE  /\ ReadOnly /\ Unmade /\ disturbed' = disturbed
         /\ pc[c] \notin {"idle", "killed"}
         /\ Plain(c)
<1>1. /\ ReadOnly /\ Unmade /\ disturbed' = disturbed
      /\ pc[c] \notin {"idle", "killed"}
  BY DEF LoadVerifiers, Finish, Inspect, ReadReceipt, Compare
<1>2. run[c] \in Runs /\ RunOK(run[c], pc[c])
  BY <1>1, KnownOK
<1>3. ASSUME LoadVerifiers(c)
      PROVE  Plain(c)
  <2> DEFINE t == [run[c] EXCEPT !.table = manifest]
  <2>1. t.read = run[c].read
    BY <1>2 DEF Runs
  <2>2. run' = [run EXCEPT ![c] = t] /\ pc' = [pc EXCEPT ![c] = "next"]
    BY <1>3 DEF LoadVerifiers, Keep, Goto
  <2> HIDE DEF t
  <2> QED
    BY <2>1, <2>2 DEF Plain
<1>4. ASSUME Finish(c)
      PROVE  Plain(c)
  <2>1. run' = [run EXCEPT ![c] = run[c]] /\ pc' = [pc EXCEPT ![c] = "done"]
    BY <1>4 DEF Finish, Goto, TypeOK
  <2> QED
    BY <2>1 DEF Plain
<1>5. ASSUME NEW l \in Lessons, Inspect(c, l)
      PROVE  Plain(c)
  <2> DEFINE s == Take(run[c], l)
             e == s.read[l]
  <2>1. l \in run[c].todo /\ run[c].todo \subseteq Active(run[c].read)
    BY <1>2, <1>5 DEF Inspect, RunOK
  <2>2. /\ s \in Runs /\ s.read = run[c].read /\ s.lesson \in Lessons
        /\ e \in Entries /\ s.strict \in BOOLEAN /\ s.verify \in BOOLEAN
    BY <1>2, <2>1, TakeRun, RunParts
  <2>3. {"broken sink", "to checklist", "not ready", "stale"} \subseteq Judgements
    BY DEF Judgements
  <2>4. \/ \E v \in Judgements, b \in BOOLEAN : Tell(c, s, v, b)
        \/ Named(s, e) # None /\ Verify(c, s, Named(s, e))
        \/ Keep(c, s) /\ Goto(c, "receipt")
    <3>1. s.strict \in BOOLEAN /\ s.verify \in BOOLEAN
      BY <2>2
    <3> QED
      BY <1>5, <2>3, <3>1, InspectCases
  <2>5. CASE \E v \in Judgements, b \in BOOLEAN : Tell(c, s, v, b)
    <3> HIDE DEF s
    <3> QED
      BY <2>2, <2>5, TellPlain
  <2>6. CASE Named(s, e) # None /\ Verify(c, s, Named(s, e))
    <3>1. Named(s, e) \in Defs
      BY <2>2, <2>6, NamedDef
    <3> HIDE DEF s, e
    <3> QED
      BY <2>2, <2>6, <3>1, VerifyPlain
  <2>7. ASSUME Keep(c, s), Goto(c, "receipt")
        PROVE  Plain(c)
    <3>1. run' = [run EXCEPT ![c] = s] /\ pc' = [pc EXCEPT ![c] = "receipt"]
      BY <2>7 DEF Keep, Goto
    <3> HIDE DEF s
    <3> QED
      BY <2>2, <3>1 DEF Plain
  <2> QED
    BY <2>4, <2>5, <2>6, <2>7
<1>6. ASSUME ReadReceipt(c)
      PROVE  Plain(c)
  <2>1. pc[c] \in Mid
    BY <1>6 DEF ReadReceipt, Mid
  <2>2. run[c].lesson \in Lessons /\ "stale" \in Judgements
    BY <2>1, MidParts DEF Judgements
  <2>3. CASE Tell(c, run[c], "stale", FALSE)
    BY <1>2, <2>2, <2>3, TellPlain
  <2>4. CASE Goto(c, "definition") /\ run' = run
    <3>1. /\ run' = [run EXCEPT ![c] = run[c]]
          /\ pc' = [pc EXCEPT ![c] = "definition"]
      BY <2>4 DEF Goto, TypeOK
    <3> QED
      BY <3>1 DEF Plain
  <2> QED
    BY <1>6, <2>3, <2>4 DEF ReadReceipt
<1>7. ASSUME Compare(c)
      PROVE  Plain(c)
  <2> DEFINE s == run[c]
             e == s.read[s.lesson]
             t == [s EXCEPT !.fresh = @ \cup {<<s.lesson, e.evidence>>}]
  <2>1. pc[c] \in Mid /\ pc[c] = "compare"
    BY <1>7 DEF Compare, Mid
  <2>2. s.lesson \in Lessons /\ e \in Entries /\ {"fresh", "stale"} \subseteq Judgements
    BY <2>1, MidParts DEF Judgements
  <2>3. e.evidence \in Receipts
    BY <1>2, <2>1 DEF RunOK
  <2>4. /\ t \in Runs /\ t.read = s.read /\ t.lesson = s.lesson
    BY <1>2, <2>2, <2>3, FreshRun
  <2>5. Accept(c, s) \/ Tell(c, s, "stale", FALSE)
    BY <1>7 DEF Compare
  <2>6. CASE Tell(c, s, "stale", FALSE)
    BY <1>2, <2>2, <2>6, TellPlain
  <2>7. CASE Accept(c, s)
    <3>1. \/ Tell(c, t, "fresh", FALSE) \/ Tell(c, t, "stale", FALSE)
          \/ Named(s, e) # None /\ Verify(c, t, Named(s, e))
      BY <2>7 DEF Accept
    <3> HIDE DEF t
    <3>2. CASE Tell(c, t, "fresh", FALSE) \/ Tell(c, t, "stale", FALSE)
      BY <2>2, <2>4, <3>2, TellPlain
    <3>3. CASE Named(s, e) # None /\ Verify(c, t, Named(s, e))
      <4>1. Named(s, e) \in Defs
        BY <1>2, <2>2, <3>3, NamedDef
      <4> HIDE DEF e
      <4> QED
        BY <2>4, <3>3, <4>1, VerifyPlain
    <3> QED
      BY <3>1, <3>2, <3>3
  <2> QED
    BY <2>5, <2>6, <2>7
<1> QED
  BY <1>1, <1>3, <1>4, <1>5, <1>6, <1>7

(* What a command that has read the ledgers has a trace of.                *)
LEMMA TraceOf ==
  ASSUME Traced, NEW c \in Cmds, pc[c] \notin {"idle", "killed"}
  PROVE  /\ Trace(run[c], pc[c], pending, manifest, tree, c \notin disturbed)
         /\ \A l \in Lessons : run[c].read[l].evidence \in pending \cup {None}
BY DEF Traced, Trace

(* A plain step keeps the traces.                                          *)
LEMMA PlainTraces ==
  ASSUME TypeOK, Traced, NEW c \in Cmds, pc[c] \notin {"idle", "killed"},
         Plain(c), ReadOnly, pending \subseteq pending',
         disturbed' \ {c} = disturbed \ {c}
  PROVE  Traced'
<1>1. PICK t, at : /\ at \in {"next", "receipt", "definition", "inputs", "done"}
                   /\ t.read = run[c].read
                   /\ run' = [run EXCEPT ![c] = t] /\ pc' = [pc EXCEPT ![c] = at]
  BY DEF Plain
<1>2. Trace(t, at, pending', manifest, tree, c \notin disturbed')
  BY <1>1, TraceOf DEF Trace
<1>3. Keep(c, t) /\ Goto(c, at)
  BY <1>1 DEF Keep, Goto
<1> QED
  BY <1>2, <1>3, CmdTraces

(* Commands start and end.                                                 *)
LEMMA EndsTraces ==
  ASSUME TypeOK, Traced, NEW c \in Cmds,
         (\E verify, strict \in BOOLEAN : Start(c, verify, strict)) \/ Kill(c)
  PROVE  Traced'
<1>1. ASSUME NEW verify \in BOOLEAN, NEW strict \in BOOLEAN,
             Start(c, verify, strict)
      PROVE  Traced'
  <2> DEFINE active == Active(entry)
             s == [verify |-> verify, strict |-> strict, now |-> clock,
              read |-> entry, todo |-> active,
              table |-> [v \in Verifiers |-> None], lesson |-> None,
              def |-> None, inputs |-> <<>>, runs |-> <<>>,
              fresh |-> {}, made |-> {}, said |-> {},
              failed |-> active = {}]
             at == IF active = {} THEN "done" ELSE "manifest"
  <2>1. Keep(c, s) /\ Goto(c, at) /\ ReadOnly
    BY <1>1 DEF Start
  <2>2. s.read = entry /\ at \in {"done", "manifest"}
    OBVIOUS
  <2>3. pending' = pending /\ disturbed' = disturbed
    BY <1>1 DEF Start, Unmade
  <2> HIDE DEF s, at
  <2>4. Trace(s, at, pending', manifest, tree, c \notin disturbed')
    BY <2>2, <2>3 DEF Traced, Trace
  <2> QED
    BY <2>1, <2>3, <2>4, CmdTraces
<1>2. CASE Kill(c)
  <2>1. Keep(c, NoRun) /\ Goto(c, "killed") /\ ReadOnly
    BY <1>2 DEF Kill, Keep
  <2>2. pending' = pending /\ disturbed' = disturbed
    BY <1>2 DEF Kill, Unmade
  <2> QED
    BY <2>1, <2>2, CmdTraces
<1> QED
  BY <1>1, <1>2

(* The definition is read again, and is what the manifest says.            *)
LEMMA DefinitionTraces ==
  ASSUME TypeOK, Traced, NEW c \in Cmds, ReadDefinition(c)
  PROVE  Traced'
<1> DEFINE s == run[c]
           d == manifest[s.read[s.lesson].evidence.verifier]
           t == [s EXCEPT !.def = d]
<1>1. pc[c] = "definition" /\ pc[c] \in Mid /\ pc[c] \notin {"idle", "killed"}
  BY DEF ReadDefinition, Mid
<1>2. s \in Runs /\ RunOK(s, pc[c]) /\ s.lesson \in Lessons
  BY <1>1, MidParts
<1>3. s.read[s.lesson].evidence.verifier \in Verifiers
  BY <1>1, <1>2 DEF RunOK, Receipts
<1>4. /\ ReadOnly /\ pending' = pending /\ disturbed' = disturbed \ {c}
  BY DEF ReadDefinition, Unmade
<1>5. CASE Tell(c, s, "stale", FALSE)
  <2>1. Plain(c)
    BY <1>2, <1>5, TellPlain DEF Judgements
  <2> QED
    BY <1>1, <1>4, <2>1, PlainTraces
<1>6. CASE d # None /\ Keep(c, t) /\ Goto(c, "compare")
  <2>1. d \in Defs
    BY <1>3, <1>6 DEF TypeOK
  <2>2. t.read = s.read /\ t.lesson = s.lesson /\ t.def = d
    <3> HIDE DEF d
    <3> QED
      BY <1>2, <2>1, DefRun
  <2>3. \A l \in Lessons : s.read[l].evidence \in pending \cup {None}
    BY <1>1, TraceOf
  <2>4. manifest[t.read[t.lesson].evidence.verifier] = t.def
    BY <2>2
  <2>5. Keep(c, t) /\ Goto(c, "compare")
    BY <1>6
  <2> HIDE DEF t, s
  <2>6. Trace(t, "compare", pending', manifest, tree, c \notin disturbed')
    BY <1>4, <2>2, <2>3, <2>4 DEF Trace
  <2> QED
    BY <1>4, <2>5, <2>6, CmdTraces
<1> QED
  BY <1>5, <1>6 DEF ReadDefinition

(* The files are noted and the probes run.                                 *)
LEMMA ProbeTraces ==
  ASSUME ConstantsOK, TypeOK, Traced, NEW c \in Cmds, ReadInputs(c) \/ Probe(c)
  PROVE  Traced'
<1> DEFINE s == run[c]
<1>1. pc[c] \in {"inputs", "probe"} /\ pc[c] \in Mid
  BY DEF ReadInputs, Probe, Mid
<1>2. s \in Runs /\ RunOK(s, pc[c]) /\ s.lesson \in Lessons /\ s.runs \in Seq(BOOLEAN)
  BY <1>1, MidParts, RunParts
<1>3. ReadOnly /\ pending' = pending /\ disturbed' \ {c} = disturbed \ {c}
  BY DEF ReadInputs, Probe, Unmade
<1>4. /\ \A l \in Lessons : s.read[l].evidence \in pending \cup {None}
      /\ Trace(s, pc[c], pending, manifest, tree, c \notin disturbed)
  BY <1>1, TraceOf
<1>5. Related(s.def) = RelatedIn(tree, s.def)
  BY RelatedIs
<1>6. CASE Tell(c, s, "not ready", TRUE)
  <2>1. Plain(c)
    BY <1>2, <1>6, TellPlain DEF Judgements
  <2> QED
    BY <1>1, <1>3, <2>1, PlainTraces
<1>7. CASE /\ Keep(c, [s EXCEPT !.inputs = Related(s.def), !.runs = <<>>])
           /\ Goto(c, "probe")
  <2> DEFINE t == [s EXCEPT !.inputs = Related(s.def), !.runs = <<>>]
  <2>1. /\ t.read = s.read /\ t.def = s.def
        /\ t.inputs = Related(s.def) /\ t.runs = <<>>
    BY <1>2 DEF Runs
  <2>2. Keep(c, t) /\ Goto(c, "probe")
    BY <1>7
  <2> HIDE DEF t, s
  <2>3. Ran(t)
    BY <2>1 DEF Ran
  <2>4. Trace(t, "probe", pending', manifest, tree, c \notin disturbed')
    BY <1>3, <1>4, <1>5, <2>1, <2>3 DEF Trace
  <2> QED
    BY <1>3, <2>2, <2>4, CmdTraces
<1>8. CASE Probe(c)
  <2> DEFINE i == Len(s.runs) + 1
             b == Passes(s.def, i)
             t == [s EXCEPT !.runs = Append(@, b)]
             at == IF i = Probes THEN "judge" ELSE "probe"
  <2>1. Keep(c, t) /\ Goto(c, at) /\ pc[c] = "probe" /\ disturbed' = disturbed
    BY <1>8 DEF Probe
  <2>2. b \in BOOLEAN /\ (b <=> Related(s.def) \in s.def.passes[i])
    BY DEF Passes
  <2>3. at \in {"judge", "probe"}
    OBVIOUS
  <2> HIDE DEF b, at
  <2>4. /\ t.read = s.read /\ t.def = s.def
        /\ t.inputs = s.inputs /\ t.runs = Append(s.runs, b)
    BY <1>2 DEF Runs
  <2> HIDE DEF t, s
  <2>5. ASSUME c \notin disturbed
        PROVE  Ran(t) /\ RelatedIn(tree, t.def) = t.inputs
    <3>1. RelatedIn(tree, s.def) = s.inputs /\ Ran(s)
      BY <1>4, <2>1, <2>5 DEF Trace
    <3>2. b <=> s.inputs \in s.def.passes[i]
      BY <1>5, <2>2, <3>1
    <3>3. /\ Len(t.runs) = i /\ t.runs[i] = b
          /\ \A k \in 1..Len(s.runs) : t.runs[k] = s.runs[k]
      BY <1>2, <2>2, <2>4
    <3>4. \A k \in 1..Len(t.runs) : k = i \/ k \in 1..Len(s.runs)
      BY <1>2, <3>3
    <3>5. Ran(t)
      BY <2>4, <3>1, <3>2, <3>3, <3>4 DEF Ran
    <3> QED
      BY <2>4, <3>1, <3>5
  <2>6. Trace(t, at, pending', manifest, tree, c \notin disturbed')
    BY <1>3, <1>4, <2>1, <2>3, <2>4, <2>5 DEF Trace
  <2> QED
    BY <1>3, <2>1, <2>6, CmdTraces
<1> QED
  BY <1>6, <1>7, <1>8 DEF ReadInputs

(* A receipt is made.                                                      *)
LEMMA JudgeTraces ==
  ASSUME TypeOK, Traced, NEW c \in Cmds, Judge(c)
  PROVE  Traced'
<1> DEFINE s == run[c]
           r == Receipt(s)
           t == [s EXCEPT !.made = @ \cup {<<s.lesson, r>>}]
           v == IF r.from = "checklist" THEN "to enforced" ELSE "to archive"
<1>1. pc[c] = "judge" /\ pc[c] \in Mid /\ pc[c] \notin {"idle", "killed"}
  BY DEF Judge, Mid
<1>2. s \in Runs /\ RunOK(s, "judge") /\ s.lesson \in Lessons
  BY <1>1, MidParts
<1>3. ReadOnly /\ disturbed' = disturbed /\ pending \subseteq pending'
  BY DEF Judge, Unmade
<1>4. r \in Receipts
  BY <1>2, ReceiptTypes
<1>5. s.made \cup {<<s.lesson, r>>} \subseteq Lessons \X Receipts
  BY <1>2, <1>4, RunParts
<1>6. t \in Runs /\ t.read = s.read /\ t.lesson = s.lesson
  BY <1>2, <1>5 DEF Runs
<1>7. v \in Judgements /\ "not ready" \in Judgements
  BY DEF Judgements
<1>8. Tell(c, t, v, FALSE) \/ Tell(c, s, "not ready", TRUE)
  BY DEF Judge
<1> HIDE DEF t, v, r
<1>9. Plain(c)
  BY <1>2, <1>6, <1>7, <1>8, TellPlain
<1> QED
  BY <1>1, <1>3, <1>9, PlainTraces

(* The user's edits are noticed by the commands that they concern.         *)
LEMMA UserTraces ==
  ASSUME TypeOK, Traced, User
  PROVE  Traced'
<1>1. pending' = pending /\ pc' = pc /\ run' = run
  BY DEF User, Unrun, EditFile, EditManifest, EditEntry, FileReceipt,
     LoseReceipt, SetClock, Tick
<1>2. \A l \in Lessons : entry'[l].evidence \in pending \cup {None}
  <2>1. \/ entry' = entry
        \/ \E l \in Lessons :
             \/ \E s \in Statuses : entry' = [entry EXCEPT ![l].status = s]
             \/ \E v \in Verifiers \cup {None} :
                  entry' = [entry EXCEPT ![l].verifier = v]
             \/ entry' = [entry EXCEPT ![l].dated = None]
             \/ \E r \in pending :
                  entry' = [entry EXCEPT ![l].status = "enforced",
                              ![l].evidence = r, ![l].dated = Day(r.utc)]
    BY DEF User, EditFile, EditManifest, EditEntry, FileReceipt, LoseReceipt,
       SetClock, Tick
  <2>2. \A l \in Lessons : DOMAIN entry[l] = {"status", "sink", "verifier",
                                             "evidence", "dated"}
    BY DEF TypeOK, Entries
  <2>3. entry \in [Lessons -> Entries]
    BY DEF TypeOK
  <2>4. \A l \in Lessons : entry[l].evidence \in pending \cup {None}
    BY DEF Traced
  <2> QED
    BY <2>1, <2>2, <2>3, <2>4
<1>3. ASSUME NEW c \in Cmds, pc[c] \notin {"idle", "killed"}
      PROVE  Trace(run[c], pc[c], pending, manifest', tree', c \notin disturbed')
  <2>1. Trace(run[c], pc[c], pending, manifest, tree, c \notin disturbed)
    BY <1>3, TraceOf
  <2>2. disturbed \subseteq disturbed'
    BY DEF User, EditFile, EditManifest, EditEntry, FileReceipt, LoseReceipt,
       SetClock, Tick
  <2>3. /\ tree' = tree \/ (pc[c] = "probe" => c \in disturbed')
        /\ manifest' = manifest \/ (pc[c] = "compare" => c \in disturbed')
    BY DEF User, EditFile, EditManifest, EditEntry, FileReceipt, LoseReceipt,
       SetClock, Tick
  <2> QED
    BY <2>1, <2>2, <2>3 DEF Trace
<1> QED
  BY <1>1, <1>2, <1>3 DEF Traced

(* Every step keeps the traces.                                            *)
LEMMA StepTraces ==
  ASSUME ConstantsOK, TypeOK, Traced, [Next]_vars
  PROVE  Traced'
<1>1. CASE UNCHANGED vars
  BY <1>1 DEF vars, Traced
<1>2. ASSUME NEW c \in Cmds,
             \/ LoadVerifiers(c) \/ Finish(c) \/ (\E l \in Lessons : Inspect(c, l))
             \/ ReadReceipt(c) \/ Compare(c)
      PROVE  Traced'
  <2>1. /\ ReadOnly /\ Unmade /\ disturbed' = disturbed
        /\ pc[c] \notin {"idle", "killed"} /\ Plain(c)
    BY <1>2, PlainStep
  <2>2. pending' = pending
    BY <2>1 DEF Unmade
  <2> QED
    BY <2>1, <2>2, PlainTraces
<1>3. CASE Next
  BY <1>2, <1>3, NextCases, UserTraces, EndsTraces, DefinitionTraces,
     ProbeTraces, JudgeTraces
<1> QED
  BY <1>1, <1>3

(* The probes run to the end, with the same files: their outcome.          *)
LEMMA RanOutcome ==
  ASSUME ConstantsOK, NEW s \in Runs, RunOK(s, "judge"), Ran(s)
  PROVE  s.runs = Outcome(s.def, s.inputs)
<1>1. s.runs \in [1..Probes -> BOOLEAN] /\ Len(s.runs) = Probes
  <2>1. s.runs \in Seq(BOOLEAN) /\ Len(s.runs) = Probes
    BY RunParts DEF RunOK
  <2> QED
    BY <2>1
<1>2. \A i \in 1..Probes : s.runs[i] = (s.inputs \in s.def.passes[i])
  BY <1>1 DEF Ran
<1>3. s.runs = [i \in 1..Probes |-> s.runs[i]]
  BY <1>1
<1> QED
  BY <1>2, <1>3 DEF Outcome

(* Only a verification makes receipts.                                     *)
LEMMA OnlyJudge ==
  ASSUME [Next]_vars
  PROVE  UNCHANGED <<pending, soiled>> \/ \E c \in Cmds : Judge(c)
<1>1. CASE UNCHANGED vars
  BY <1>1 DEF vars
<1>2. CASE User
  BY <1>2 DEF User, Unrun, EditFile, EditManifest, EditEntry, FileReceipt,
     LoseReceipt, SetClock, Tick
<1>3. ASSUME NEW c \in Cmds,
             \/ (\E verify, strict \in BOOLEAN : Start(c, verify, strict))
                  \/ LoadVerifiers(c) \/ Finish(c) \/ Kill(c)
             \/ \E l \in Lessons : Inspect(c, l)
             \/ ReadReceipt(c) \/ ReadDefinition(c)
             \/ Compare(c)
             \/ ReadInputs(c) \/ Probe(c)
      PROVE  Unmade
  BY <1>3 DEF Start, LoadVerifiers, Finish, Kill, Inspect, ReadReceipt,
     ReadDefinition, Compare, ReadInputs, Probe
<1> QED
  BY <1>1, <1>2, <1>3, NextCases DEF Unmade

(* A receipt that is made attests its files.                               *)
LEMMA StepAttests ==
  ASSUME ConstantsOK, TypeOK, Traced, AttestsInputs, [Next]_vars
  PROVE  AttestsInputs'
<1>1. CASE UNCHANGED <<pending, soiled>>
  BY <1>1 DEF AttestsInputs
<1>2. ASSUME NEW c \in Cmds, Judge(c)
      PROVE  AttestsInputs'
  <2> DEFINE s == run[c]
             r == Receipt(s)
  <2>1. pc[c] = "judge" /\ pc[c] \in Mid /\ pc[c] \notin {"idle", "killed"}
    BY <1>2 DEF Judge, Mid
  <2>2. s \in Runs /\ RunOK(s, "judge")
    BY <2>1, MidParts
  <2>3. /\ r.def = s.def /\ r.inputs = s.inputs /\ r.runs = s.runs
    BY <2>2, ReceiptTypes
  <2>4. \/ UNCHANGED <<pending, soiled>>
        \/ /\ Good(s.runs) /\ pending' = pending \cup {r}
           /\ soiled' = IF c \in disturbed THEN soiled \cup {r} ELSE soiled
    BY <1>2 DEF Judge, Unmade
  <2>5. CASE UNCHANGED <<pending, soiled>>
    BY <2>5 DEF AttestsInputs
  <2>6. CASE /\ Good(s.runs) /\ pending' = pending \cup {r}
             /\ soiled' = IF c \in disturbed THEN soiled \cup {r} ELSE soiled
    <3>1. ASSUME c \notin disturbed
          PROVE  r.runs = Outcome(r.def, r.inputs) /\ Good(r.runs)
      <4>1. Ran(s)
        BY <2>1, <3>1, TraceOf DEF Trace
      <4> QED
        BY <2>2, <2>3, <2>6, <4>1, RanOutcome
    <3> HIDE DEF r, s
    <3>2. \A q \in pending' \ soiled' :
            q \in pending \ soiled \/ (q = r /\ c \notin disturbed)
      BY <2>6
    <3> QED
      BY <3>1, <3>2 DEF AttestsInputs
  <2> QED
    BY <2>4, <2>5, <2>6
<1> QED
  BY <1>1, <1>2, OnlyJudge

(* At first there are no receipts.                                         *)
LEMMA InitTraces ==
  ASSUME ConstantsOK, Init
  PROVE  Traced /\ AttestsInputs
BY DEF Init, ConstantsOK, Traced, AttestsInputs

(* A receipt attests the files it names, whatever the user edits before    *)
(* and after the probes run, in the ledgers and the manifest also while    *)
(* they run, and whoever else runs the command at the time.                *)
THEOREM ReceiptsAttest == Spec => []AttestsInputs
<1>1. Init => TypeOK /\ Traced /\ AttestsInputs
  BY ConstantsOK, InitTypes, InitTraces
<1>2. TypeOK /\ Traced /\ AttestsInputs /\ [Next]_vars
      => (TypeOK /\ Traced /\ AttestsInputs)'
  BY ConstantsOK, StepTypes, StepTraces, StepAttests
<1> QED
  BY <1>1, <1>2, PTL DEF Spec

-----------------------------------------------------------------------------
(* Verdicts have their reasons.                                            *)

(* The lessons that have their verdicts.                                   *)
Heard(s, at) == {l \in Active(s.read) \ s.todo : at \in Mid => l # s.lesson}

VerifiedIn(kept, s, l, from) ==
  \E r \in kept : <<l, r>> \in s.made /\ r.lesson = l /\ r.from = from

(* What a command that knows s at step at has said, with the receipts      *)
(* kept: lessons have one verdict once they had their turn; one that is    *)
(* ready was verified, and one ready to archive had a fresh receipt; a     *)
(* lesson has no fresh receipt before its turn, and one to be verified     *)
(* again has one.                                                          *)
OneEach(s, at) ==
  /\ \A p \in s.said : p[1] \in Heard(s, at)
  /\ \A l \in Heard(s, at) : \E v \in Judgements : Verdicts(s, l) = {v}

Backed(s, kept) ==
  \A l \in Lessons :
    /\ <<l, "to enforced">> \in s.said => VerifiedIn(kept, s, l, "checklist")
    /\ <<l, "to archive">> \in s.said =>
         VerifiedIn(kept, s, l, "enforced") /\ <<l, s.read[l].evidence>> \in s.fresh
    /\ s.verify /\ ~s.failed /\ s.read[l].status = "checklist" =>
         \A v \in Judgements : <<l, v>> \in s.said =>
           v = "to enforced" \/ (v = "broken sink" /\ ~s.strict)

InTurn(s, at) ==
  /\ \A p \in s.fresh : p[1] \notin s.todo
  /\ at \in {"receipt", "definition", "compare"} =>
       \A p \in s.fresh : p[1] # s.lesson
  /\ at \in {"inputs", "probe", "judge"} /\ s.read[s.lesson].status = "enforced"
       => <<s.lesson, s.read[s.lesson].evidence>> \in s.fresh
  /\ at \in Mid => s.lesson \notin s.todo
  /\ at = "done" => s.todo = {}

Telling(s, at, kept) == OneEach(s, at) /\ Backed(s, kept) /\ InTurn(s, at)

Tells ==
  \A c \in Cmds : pc[c] \notin {"idle", "killed"} =>
    Telling(run[c], pc[c], pending)

(* A verdict is told of the lesson at hand, for which there are reasons.   *)
LEMMA ToldTells ==
  ASSUME NEW s \in Runs, s.lesson \in Active(s.read), NEW at \in Mid,
         NEW kept, NEW more, kept \subseteq more, Telling(s, at, kept),
         NEW v \in Judgements, NEW t,
         /\ t.read = s.read /\ t.todo = s.todo
         /\ t.verify = s.verify /\ t.strict = s.strict
         /\ t.fresh = s.fresh /\ t.made = s.made
         /\ t.said = s.said \cup {<<s.lesson, v>>} /\ (~t.failed => ~s.failed),
         v = "to enforced" => VerifiedIn(more, s, s.lesson, "checklist"),
         v = "to archive" =>
           /\ VerifiedIn(more, s, s.lesson, "enforced")
           /\ <<s.lesson, s.read[s.lesson].evidence>> \in s.fresh,
         s.verify /\ ~t.failed /\ s.read[s.lesson].status = "checklist" =>
           v = "to enforced" \/ (v = "broken sink" /\ ~s.strict)
  PROVE  Telling(t, "next", more)
<1> DEFINE here == s.lesson
<1>1. here \in Lessons /\ s.said \subseteq Lessons \X Judgements
  BY RunParts DEF Active
<1>2. /\ t.read = s.read /\ t.todo = s.todo
      /\ t.verify = s.verify /\ t.strict = s.strict
      /\ t.fresh = s.fresh /\ t.made = s.made
      /\ t.said = s.said \cup {<<here, v>>} /\ (~t.failed => ~s.failed)
  OBVIOUS
<1>3. here \notin s.todo
  BY DEF Telling, InTurn
<1>4. Heard(t, "next") = Heard(s, at) \cup {here} /\ here \notin Heard(s, at)
  BY <1>2, <1>3 DEF Heard, Mid
<1>5. \A w \in Judgements : <<here, w>> \notin s.said
  BY <1>4 DEF Telling, OneEach
<1>6. OneEach(t, "next")
  <2>1. \A p \in t.said : p[1] \in Heard(t, "next")
    <3>1. ASSUME NEW p \in s.said
          PROVE  p[1] \in Heard(t, "next")
      BY <1>4 DEF Telling, OneEach
    <3>2. <<here, v>>[1] \in Heard(t, "next")
      BY <1>4
    <3> QED
      BY <1>2, <3>1, <3>2
  <2>2. ASSUME NEW l \in Heard(t, "next")
        PROVE  \E w \in Judgements : Verdicts(t, l) = {w}
    <3>1. CASE l = here
      BY <1>2, <1>5, <3>1 DEF Verdicts
    <3>2. CASE l # here
      <4>1. Verdicts(t, l) = Verdicts(s, l)
        BY <1>2, <3>2 DEF Verdicts
      <4> QED
        BY <1>4, <2>2, <3>2, <4>1 DEF Telling, OneEach
    <3> QED
      BY <3>1, <3>2
  <2> QED
    BY <2>1, <2>2 DEF OneEach
<1>7. Backed(t, more)
  <2> SUFFICES ASSUME NEW l \in Lessons
               PROVE  /\ <<l, "to enforced">> \in t.said =>
                           VerifiedIn(more, t, l, "checklist")
                      /\ <<l, "to archive">> \in t.said =>
                           /\ VerifiedIn(more, t, l, "enforced")
                           /\ <<l, t.read[l].evidence>> \in t.fresh
                      /\ t.verify /\ ~t.failed /\ t.read[l].status = "checklist" =>
                           \A w \in Judgements : <<l, w>> \in t.said =>
                             w = "to enforced" \/ (w = "broken sink" /\ ~t.strict)
    BY DEF Backed
  <2>1. \A from : VerifiedIn(kept, s, l, from) => VerifiedIn(more, t, l, from)
    BY <1>2 DEF VerifiedIn
  <2>2. \A from : VerifiedIn(more, s, l, from) => VerifiedIn(more, t, l, from)
    BY <1>2 DEF VerifiedIn
  <2>3. /\ <<l, "to enforced">> \in s.said => VerifiedIn(kept, s, l, "checklist")
        /\ <<l, "to archive">> \in s.said =>
             VerifiedIn(kept, s, l, "enforced") /\ <<l, s.read[l].evidence>> \in s.fresh
        /\ s.verify /\ ~s.failed /\ s.read[l].status = "checklist" =>
             \A w \in Judgements : <<l, w>> \in s.said =>
               w = "to enforced" \/ (w = "broken sink" /\ ~s.strict)
    BY DEF Telling, Backed
  <2>4. \A w : <<l, w>> \in t.said <=> <<l, w>> \in s.said \/ (l = here /\ w = v)
    BY <1>2
  <2> QED
    BY <1>2, <2>1, <2>2, <2>3, <2>4
<1>8. InTurn(t, "next")
  BY <1>2 DEF Telling, InTurn, Mid
<1> QED
  BY <1>6, <1>7, <1>8 DEF Telling

(* A lesson is taken.                                                      *)
LEMMA TakeTells ==
  ASSUME NEW s \in Runs, s.todo \subseteq Active(s.read), NEW l \in s.todo,
         NEW kept, Telling(s, "next", kept)
  PROVE  Telling(Take(s, l), "receipt", kept)
<1> DEFINE t == Take(s, l)
<1>1. /\ t \in Runs /\ t.read = s.read /\ t.todo = s.todo \ {l}
      /\ t.verify = s.verify /\ t.strict = s.strict
      /\ t.fresh = s.fresh /\ t.made = s.made /\ t.said = s.said
      /\ t.failed = s.failed /\ t.lesson = l
  BY TakeRun
<1> HIDE DEF t
<1>2. Heard(t, "receipt") = Heard(s, "next")
  BY <1>1 DEF Heard, Mid
<1>3. OneEach(t, "receipt")
  BY <1>1, <1>2 DEF Telling, OneEach, Verdicts
<1>4. Backed(t, kept)
  <2>1. \A k, from : VerifiedIn(kept, s, k, from) => VerifiedIn(kept, t, k, from)
    BY <1>1 DEF VerifiedIn
  <2> QED
    BY <1>1, <2>1 DEF Telling, Backed
<1>5. InTurn(t, "receipt")
  BY <1>1 DEF Telling, InTurn
<1> QED
  BY <1>3, <1>4, <1>5 DEF Telling, t

(* The step goes on with the lesson at hand, and nothing is said.          *)
LEMMA MoveTells ==
  ASSUME NEW s, NEW t, NEW at \in Mid, NEW to \in Mid, NEW kept,
         NEW more, kept \subseteq more,
         t.read = s.read, t.todo = s.todo, t.verify = s.verify,
         t.strict = s.strict, t.said = s.said,
         t.failed = s.failed, t.lesson = s.lesson, s.made \subseteq t.made,
         s.fresh \subseteq t.fresh,
         \A p \in t.fresh \ s.fresh : p[1] = s.lesson,
         to \in {"receipt", "definition", "compare"} =>
           at \in {"receipt", "definition", "compare"} /\ t.fresh = s.fresh,
         to \in {"inputs", "probe", "judge"} =>
           \/ at \in {"inputs", "probe", "judge"}
           \/ s.read[s.lesson].status # "enforced"
           \/ <<s.lesson, s.read[s.lesson].evidence>> \in t.fresh,
         Telling(s, at, kept)
  PROVE  Telling(t, to, more)
<1>1. Heard(t, to) = Heard(s, at)
  BY DEF Heard
<1>2. OneEach(t, to)
  BY <1>1 DEF Telling, OneEach, Verdicts
<1>3. Backed(t, more)
  <2>1. \A l, from : VerifiedIn(kept, s, l, from) => VerifiedIn(more, t, l, from)
    BY DEF VerifiedIn
  <2> QED
    BY <2>1 DEF Telling, Backed
<1>4. InTurn(t, to)
  BY DEF Telling, InTurn, Mid
<1> QED
  BY <1>2, <1>3, <1>4 DEF Telling

(* Nothing but the step changes that the lesson's receipt is at, or that   *)
(* its verification is at.                                                 *)
LEMMA NextTells ==
  ASSUME NEW s, NEW t, NEW at, NEW to, NEW kept,
         t.read = s.read, t.todo = s.todo, t.verify = s.verify,
         t.strict = s.strict, t.said = s.said, t.failed = s.failed,
         t.lesson = s.lesson, t.made = s.made, t.fresh = s.fresh,
         \/ {at, to} \subseteq {"receipt", "definition", "compare"}
         \/ {at, to} \subseteq {"inputs", "probe", "judge"},
         Telling(s, at, kept)
  PROVE  Telling(t, to, kept)
<1>1. at \in Mid /\ to \in Mid
  BY DEF Mid
<1>2. /\ to \in {"receipt", "definition", "compare"} =>
           at \in {"receipt", "definition", "compare"}
      /\ to \in {"inputs", "probe", "judge"} => at \in {"inputs", "probe", "judge"}
  OBVIOUS
<1> QED
  BY <1>1, <1>2, MoveTells

(* What is said is still backed with more receipts.                        *)
LEMMA TellsMore ==
  ASSUME NEW s, NEW at, NEW kept, NEW more, kept \subseteq more,
         Telling(s, at, kept)
  PROVE  Telling(s, at, more)
<1>1. \A l, from : VerifiedIn(kept, s, l, from) => VerifiedIn(more, s, l, from)
  BY DEF VerifiedIn
<1> QED
  BY <1>1 DEF Telling, Backed

(* A step of a command that leaves it with the knowledge s.                *)
LEMMA CmdTells ==
  ASSUME TypeOK, Tells, NEW c \in Cmds, NEW s, NEW at, Keep(c, s), Goto(c, at),
         pending \subseteq pending',
         at \notin {"idle", "killed"} => Telling(s, at, pending')
  PROVE  Tells'
<1> SUFFICES ASSUME NEW d \in Cmds, pc'[d] \notin {"idle", "killed"}
             PROVE  Telling(run'[d], pc'[d], pending')
  BY DEF Tells
<1>1. CASE d = c
  <2>1. run'[d] = s /\ pc'[d] = at
    BY <1>1 DEF TypeOK, Keep, Goto
  <2> QED
    BY <2>1
<1>2. CASE d # c
  <2>1. run'[d] = run[d] /\ pc'[d] = pc[d]
    BY <1>2 DEF TypeOK, Keep, Goto
  <2>2. Telling(run[d], pc[d], pending)
    BY <2>1 DEF Tells
  <2>3. Telling(run[d], pc[d], pending')
    BY <2>2, TellsMore
  <2> QED
    BY <2>1, <2>3
<1> QED
  BY <1>1, <1>2

(* A command tells a verdict for which there are reasons.                  *)
LEMMA TellTells ==
  ASSUME TypeOK, Tells, NEW c \in Cmds, NEW s \in Runs,
         s.lesson \in Active(s.read), NEW at \in Mid, Telling(s, at, pending),
         NEW v \in Judgements, NEW b \in BOOLEAN, Tell(c, s, v, b),
         pending \subseteq pending',
         v = "to enforced" => VerifiedIn(pending', s, s.lesson, "checklist"),
         v = "to archive" =>
           /\ VerifiedIn(pending', s, s.lesson, "enforced")
           /\ <<s.lesson, s.read[s.lesson].evidence>> \in s.fresh,
         s.verify /\ ~s.failed /\ ~b /\ s.read[s.lesson].status = "checklist" =>
           v = "to enforced" \/ (v = "broken sink" /\ ~s.strict)
  PROVE  Tells'
<1> DEFINE t == Told(s, v, b)
<1>1. s.lesson \in Lessons
  BY DEF Active
<1>2. /\ t \in Runs /\ t.read = s.read /\ t.todo = s.todo
      /\ t.verify = s.verify /\ t.strict = s.strict
      /\ t.fresh = s.fresh /\ t.made = s.made
      /\ t.said = s.said \cup {<<s.lesson, v>>}
      /\ (t.failed <=> s.failed \/ b)
  <2> HIDE DEF Tells
  <2> QED
    BY ONLY <1>1, s \in Runs, v \in Judgements, b \in BOOLEAN, ToldRun
<1>3. Keep(c, t) /\ Goto(c, "next")
  BY DEF Tell
<1> HIDE DEF t
<1>4. /\ ~t.failed => ~s.failed
      /\ s.verify /\ ~t.failed /\ s.read[s.lesson].status = "checklist" =>
           v = "to enforced" \/ (v = "broken sink" /\ ~s.strict)
  BY <1>2
<1>5. Telling(t, "next", pending')
  BY <1>2, <1>4, ToldTells
<1> QED
  BY <1>3, <1>5, CmdTells

(* What a command has told that has a lesson at hand.                      *)
LEMMA TellingOf ==
  ASSUME TypeOK, Tells, NEW c \in Cmds, pc[c] \in Mid
  PROVE  Telling(run[c], pc[c], pending)
<1>1. pc[c] \notin {"idle", "killed"}
  BY DEF Mid
<1> QED
  BY <1>1 DEF Tells

(* Commands start and end.                                                 *)
LEMMA EndsTells ==
  ASSUME TypeOK, Tells, NEW c \in Cmds,
         (\E verify, strict \in BOOLEAN : Start(c, verify, strict))
           \/ LoadVerifiers(c) \/ Finish(c) \/ Kill(c)
  PROVE  Tells'
<1>1. ASSUME NEW verify \in BOOLEAN, NEW strict \in BOOLEAN,
             Start(c, verify, strict)
      PROVE  Tells'
  <2> DEFINE active == Active(entry)
             s == [verify |-> verify, strict |-> strict, now |-> clock,
              read |-> entry, todo |-> active,
              table |-> [v \in Verifiers |-> None], lesson |-> None,
              def |-> None, inputs |-> <<>>, runs |-> <<>>,
              fresh |-> {}, made |-> {}, said |-> {},
              failed |-> active = {}]
             at == IF active = {} THEN "done" ELSE "manifest"
  <2>1. Keep(c, s) /\ Goto(c, at) /\ pending' = pending
    BY <1>1 DEF Start, Unmade
  <2>2. /\ s.read = entry /\ s.todo = active /\ s.fresh = {} /\ s.said = {}
        /\ at \in {"manifest", "done"} /\ (at = "done" => active = {})
    OBVIOUS
  <2>3. Active(s.read) = active
    OBVIOUS
  <2> HIDE DEF s, at, active
  <2>4. Heard(s, at) = {}
    BY <2>2, <2>3 DEF Heard
  <2>5. Telling(s, at, pending')
    BY <2>2, <2>4 DEF Telling, OneEach, Backed, InTurn, Mid
  <2> QED
    BY <2>1, <2>5, CmdTells
<1>2. CASE LoadVerifiers(c)
  <2> DEFINE s == run[c]
             t == [s EXCEPT !.table = manifest]
  <2>1. pc[c] = "manifest" /\ Keep(c, t) /\ Goto(c, "next") /\ pending' = pending
    BY <1>2 DEF LoadVerifiers, Unmade
  <2>2. s \in Runs /\ Telling(s, "manifest", pending)
    BY <2>1, KnownOK DEF Tells
  <2>3. /\ t.read = s.read /\ t.todo = s.todo /\ t.said = s.said
        /\ t.fresh = s.fresh /\ t.made = s.made /\ t.failed = s.failed
        /\ t.verify = s.verify /\ t.strict = s.strict
    BY <2>2 DEF Runs
  <2> HIDE DEF s, t
  <2>4. Heard(t, "next") = Heard(s, "manifest")
    BY <2>3 DEF Heard, Mid
  <2>5. OneEach(t, "next")
    BY <2>2, <2>3, <2>4 DEF Telling, OneEach, Verdicts
  <2>6. \A l, from : VerifiedIn(pending, s, l, from) => VerifiedIn(pending, t, l, from)
    BY <2>3 DEF VerifiedIn
  <2>7. Backed(t, pending)
    BY <2>2, <2>3, <2>6 DEF Telling, Backed
  <2>8. InTurn(t, "next")
    BY <2>2, <2>3 DEF Telling, InTurn, Mid
  <2>9. Telling(t, "next", pending')
    BY <2>1, <2>5, <2>7, <2>8 DEF Telling
  <2> QED
    BY <2>1, <2>9, CmdTells
<1>3. CASE Finish(c)
  <2> DEFINE s == run[c]
  <2>1. pc[c] = "next" /\ s.todo = {} /\ Goto(c, "done") /\ pending' = pending
    BY <1>3 DEF Finish, Unmade
  <2>2. Keep(c, s)
    BY <1>3 DEF Finish, Keep, TypeOK
  <2>3. Telling(s, "next", pending)
    BY <2>1 DEF Tells
  <2> HIDE DEF s
  <2>4. Heard(s, "done") = Heard(s, "next")
    BY DEF Heard, Mid
  <2>5. Telling(s, "done", pending')
    BY <2>1, <2>3, <2>4 DEF Telling, OneEach, InTurn, Mid
  <2> QED
    BY <2>1, <2>2, <2>5, CmdTells
<1>4. CASE Kill(c)
  <2>1. Keep(c, NoRun) /\ Goto(c, "killed") /\ pending' = pending
    BY <1>4 DEF Kill, Keep, Unmade
  <2> QED
    BY <2>1, CmdTells
<1> QED
  BY <1>1, <1>2, <1>3, <1>4

(* What a lesson needs is found out.                                       *)
LEMMA InspectTells ==
  ASSUME TypeOK, Tells, NEW c \in Cmds, NEW l \in Lessons, Inspect(c, l)
  PROVE  Tells'
<1> DEFINE s == Take(run[c], l)
           e == s.read[l]
<1>1. pc[c] = "next" /\ l \in run[c].todo /\ pending' = pending
  BY DEF Inspect, Unmade
<1>2. /\ run[c] \in Runs /\ run[c].todo \subseteq Active(run[c].read)
      /\ Telling(run[c], "next", pending)
  BY <1>1, KnownOK DEF RunOK, Tells
<1>3. /\ s \in Runs /\ s.lesson = l /\ l \in Active(s.read)
      /\ s.lesson \in Active(s.read)
  BY <1>1, <1>2, TakeRun
<1>4. Telling(s, "receipt", pending)
  BY <1>1, <1>2, TakeTells
<1>5. e \in Entries /\ s.strict \in BOOLEAN /\ s.verify \in BOOLEAN
  BY <1>3, RunParts
<1>6. \/ Tell(c, s, "broken sink", s.strict)
      \/ e.status = "pending" /\ Tell(c, s, "to checklist", FALSE)
      \/ e.status = "pending" /\ Tell(c, s, "not ready", FALSE)
      \/ e.status = "checklist" /\ Tell(c, s, "not ready", s.verify)
      \/ /\ e.status = "checklist" /\ Named(s, e) # None
         /\ Verify(c, s, Named(s, e))
      \/ e.status = "enforced" /\ Tell(c, s, "stale", FALSE)
      \/ Keep(c, s) /\ Goto(c, "receipt")
  BY InspectCases
<1>7. s.read[s.lesson] = e
  BY <1>3
<1> HIDE DEF s, e
<1>8. ASSUME NEW v \in Judgements \ {"to enforced", "to archive"},
             NEW b \in BOOLEAN, Tell(c, s, v, b),
             s.verify /\ ~b /\ e.status = "checklist" =>
               v = "broken sink" /\ ~s.strict
      PROVE  Tells'
  <2>1. "receipt" \in Mid
    BY DEF Mid
  <2> QED
    BY <1>1, <1>3, <1>4, <1>7, <1>8, <2>1, TellTells
<1>9. CASE /\ e.status = "checklist" /\ Named(s, e) # None
           /\ Verify(c, s, Named(s, e))
  <2> DEFINE d == Named(s, e)
             t == [s EXCEPT !.def = d]
  <2>1. d \in Defs
    BY <1>3, <1>5, <1>9, NamedDef
  <2>2. Keep(c, t) /\ Goto(c, "inputs")
    BY <1>9 DEF Verify
  <2> HIDE DEF d
  <2>3. /\ t.read = s.read /\ t.todo = s.todo /\ t.said = s.said
        /\ t.fresh = s.fresh /\ t.made = s.made /\ t.failed = s.failed
        /\ t.verify = s.verify /\ t.strict = s.strict /\ t.lesson = s.lesson
    BY <1>3, <2>1, DefRun
  <2> HIDE DEF t
  <2>4. Telling(t, "inputs", pending')
    BY <1>1, <1>4, <1>7, <1>9, <2>3, MoveTells DEF Mid
  <2> QED
    BY <1>1, <2>2, <2>4, CmdTells
<1>10. CASE Keep(c, s) /\ Goto(c, "receipt")
  BY <1>1, <1>4, <1>10, CmdTells
<1>11. {"broken sink", "to checklist", "not ready", "stale"}
         \subseteq Judgements \ {"to enforced", "to archive"}
  BY DEF Judgements
<1>12. CASE Tell(c, s, "broken sink", s.strict)
  BY <1>5, <1>8, <1>11, <1>12
<1>13. CASE e.status = "pending" /\ (\/ Tell(c, s, "to checklist", FALSE)
                                     \/ Tell(c, s, "not ready", FALSE))
  BY <1>8, <1>11, <1>13
<1>14. CASE e.status = "checklist" /\ Tell(c, s, "not ready", s.verify)
  BY <1>5, <1>8, <1>11, <1>14
<1>15. CASE e.status = "enforced" /\ Tell(c, s, "stale", FALSE)
  BY <1>8, <1>11, <1>15
<1> QED
  BY <1>6, <1>9, <1>10, <1>12, <1>13, <1>14, <1>15

(* A receipt and the definition it names are read.                         *)
LEMMA ReadTells ==
  ASSUME TypeOK, Tells, NEW c \in Cmds, ReadReceipt(c) \/ ReadDefinition(c)
  PROVE  Tells'
<1> DEFINE s == run[c]
           d == manifest[s.read[s.lesson].evidence.verifier]
           t == [s EXCEPT !.def = d]
<1>1. pc[c] \in {"receipt", "definition"} /\ pc[c] \in Mid /\ pending' = pending
  BY DEF ReadReceipt, ReadDefinition, Mid, Unmade
<1>2. /\ s \in Runs /\ RunOK(s, pc[c]) /\ s.lesson \in Active(s.read)
      /\ Telling(s, pc[c], pending)
  BY <1>1, MidParts, TellingOf
<1>3. /\ s.read[s.lesson].status = "enforced"
      /\ s.read[s.lesson].evidence.verifier \in Verifiers
  BY <1>1, <1>2 DEF RunOK, Receipts
<1>4. d \in Defs \cup {None}
  BY <1>3 DEF TypeOK
<1>5. CASE Tell(c, s, "stale", FALSE)
  <2> HIDE DEF s
  <2>1. "stale" \in Judgements
    BY DEF Judgements
  <2> QED
    BY <1>1, <1>2, <1>3, <1>5, <2>1, TellTells
<1>6. CASE Goto(c, "definition") /\ run' = run
  <2>1. Keep(c, s)
    BY <1>6 DEF Keep, TypeOK
  <2> HIDE DEF s
  <2>2. Telling(s, "definition", pending')
    BY <1>1, <1>2, NextTells
  <2> QED
    BY <1>1, <1>6, <2>1, <2>2, CmdTells
<1>7. CASE d # None /\ Keep(c, t) /\ Goto(c, "compare")
  <2>1. d \in Defs
    BY <1>4, <1>7
  <2> HIDE DEF d
  <2>2. /\ t.read = s.read /\ t.todo = s.todo /\ t.said = s.said
        /\ t.fresh = s.fresh /\ t.made = s.made /\ t.failed = s.failed
        /\ t.verify = s.verify /\ t.strict = s.strict /\ t.lesson = s.lesson
    BY <1>2, <2>1, DefRun
  <2> HIDE DEF s, t
  <2>3. Telling(t, "compare", pending')
    BY <1>1, <1>2, <2>2, NextTells
  <2> QED
    BY <1>1, <1>7, <2>3, CmdTells
<1> QED
  BY <1>5, <1>6, <1>7 DEF ReadReceipt, ReadDefinition

(* A lesson is reported as fresh, or to be verified again.                 *)
LEMMA CompareTells ==
  ASSUME TypeOK, Tells, NEW c \in Cmds, Compare(c)
  PROVE  Tells'
<1> DEFINE s == run[c]
           e == s.read[s.lesson]
           t == [s EXCEPT !.fresh = @ \cup {<<s.lesson, e.evidence>>}]
<1>1. pc[c] = "compare" /\ pc[c] \in Mid /\ pending' = pending
  BY DEF Compare, Mid, Unmade
<1>2. /\ s \in Runs /\ s.lesson \in Active(s.read) /\ s.lesson \in Lessons
      /\ RunOK(s, pc[c]) /\ e \in Entries /\ Telling(s, "compare", pending)
  BY <1>1, MidParts, TellingOf
<1>3. e.status = "enforced" /\ e.evidence \in Receipts
  BY <1>1, <1>2 DEF RunOK
<1>4. {"fresh", "stale"} \subseteq Judgements /\ {"compare", "inputs"} \subseteq Mid
  BY DEF Judgements, Mid
<1>5. Accept(c, s) \/ Tell(c, s, "stale", FALSE)
  BY DEF Compare
<1> HIDE DEF s
<1>6. CASE Tell(c, s, "stale", FALSE)
  BY <1>1, <1>2, <1>3, <1>4, <1>6, TellTells
<1>7. CASE Accept(c, s)
  <2>1. /\ t \in Runs /\ t.read = s.read /\ t.todo = s.todo
        /\ t.verify = s.verify /\ t.strict = s.strict
        /\ t.fresh = s.fresh \cup {<<s.lesson, e.evidence>>}
        /\ t.made = s.made /\ t.said = s.said
        /\ t.failed = s.failed /\ t.lesson = s.lesson
    BY <1>2, <1>3, FreshRun
  <2>2. \/ Tell(c, t, "fresh", FALSE) \/ Tell(c, t, "stale", FALSE)
        \/ Named(s, e) # None /\ Verify(c, t, Named(s, e))
    BY <1>7 DEF Accept
  <2> HIDE DEF t
  <2>3. \A p \in t.fresh \ s.fresh : p[1] = s.lesson
    BY <2>1
  <2>4. Telling(t, "inputs", pending)
    BY <1>2, <1>4, <2>1, <2>3, MoveTells
  <2>5. t.read[t.lesson].status = "enforced" /\ t.lesson \in Active(t.read)
    BY <1>2, <1>3, <2>1
  <2>6. CASE Tell(c, t, "fresh", FALSE) \/ Tell(c, t, "stale", FALSE)
    BY <1>1, <1>4, <2>1, <2>4, <2>5, <2>6, TellTells
  <2>7. CASE Named(s, e) # None /\ Verify(c, t, Named(s, e))
    <3> DEFINE d == Named(s, e)
               u == [t EXCEPT !.def = d]
    <3>1. d \in Defs
      BY <1>2, <2>7, NamedDef
    <3>2. Keep(c, u) /\ Goto(c, "inputs")
      BY <2>7 DEF Verify
    <3> HIDE DEF d
    <3>3. /\ u.read = t.read /\ u.todo = t.todo /\ u.said = t.said
          /\ u.fresh = t.fresh /\ u.made = t.made /\ u.failed = t.failed
          /\ u.verify = t.verify /\ u.strict = t.strict /\ u.lesson = t.lesson
      BY <2>1, <3>1, DefRun
    <3> HIDE DEF u
    <3>4. Telling(u, "inputs", pending')
      BY <1>1, <2>4, <3>3, NextTells
    <3> QED
      BY <1>1, <3>2, <3>4, CmdTells
  <2> QED
    BY <2>2, <2>6, <2>7
<1> QED
  BY <1>5, <1>6, <1>7

(* Files are read, and probes run.                                         *)
LEMMA ProbeTells ==
  ASSUME TypeOK, Tells, NEW c \in Cmds, ReadInputs(c) \/ Probe(c)
  PROVE  Tells'
<1> DEFINE s == run[c]
<1>1. pc[c] \in {"inputs", "probe"} /\ pc[c] \in Mid /\ pending' = pending
  BY DEF ReadInputs, Probe, Mid, Unmade
<1>2. /\ s \in Runs /\ s.lesson \in Active(s.read)
      /\ Telling(s, pc[c], pending)
  BY <1>1, MidParts, TellingOf
<1>3. CASE Tell(c, s, "not ready", TRUE)
  <2>1. "not ready" \in Judgements
    BY DEF Judgements
  <2> HIDE DEF s
  <2> QED
    BY <1>1, <1>2, <1>3, <2>1, TellTells
<1>4. ASSUME NEW inputs, NEW runs, NEW to \in {"probe", "judge"},
             Keep(c, [s EXCEPT !.inputs = inputs, !.runs = runs]), Goto(c, to)
      PROVE  Tells'
  <2> DEFINE t == [s EXCEPT !.inputs = inputs, !.runs = runs]
  <2>1. /\ t.read = s.read /\ t.todo = s.todo /\ t.said = s.said
        /\ t.fresh = s.fresh /\ t.made = s.made /\ t.failed = s.failed
        /\ t.verify = s.verify /\ t.strict = s.strict /\ t.lesson = s.lesson
    BY <1>2 DEF Runs
  <2>2. Keep(c, t)
    BY <1>4
  <2> HIDE DEF s, t
  <2>3. Telling(t, to, pending')
    BY <1>1, <1>2, <2>1, NextTells
  <2> QED
    BY <1>1, <1>4, <2>2, <2>3, CmdTells
<1>5. CASE Probe(c)
  <2> DEFINE i == Len(s.runs) + 1
             runs == Append(s.runs, Passes(s.def, i))
             to == IF i = Probes THEN "judge" ELSE "probe"
  <2>1. Keep(c, [s EXCEPT !.runs = runs]) /\ Goto(c, to)
    BY <1>5 DEF Probe
  <2> HIDE DEF runs
  <2>2. [s EXCEPT !.runs = runs] = [s EXCEPT !.inputs = s.inputs, !.runs = runs]
    BY <1>2 DEF Runs
  <2>3. to \in {"probe", "judge"}
    OBVIOUS
  <2>4. Keep(c, [s EXCEPT !.inputs = s.inputs, !.runs = runs])
    BY <2>1, <2>2
  <2> HIDE DEF s, to
  <2> QED
    BY <1>4, <2>1, <2>3, <2>4
<1>6. CASE ReadInputs(c)
  <2>1. \/ Tell(c, s, "not ready", TRUE)
        \/ /\ Keep(c, [s EXCEPT !.inputs = Related(s.def), !.runs = <<>>])
           /\ Goto(c, "probe")
    BY <1>6 DEF ReadInputs
  <2> QED
    BY <1>3, <1>4, <2>1
<1> QED
  BY <1>5, <1>6

(* A receipt is made for the lesson that is found ready.                   *)
LEMMA JudgeTells ==
  ASSUME TypeOK, Tells, NEW c \in Cmds, Judge(c)
  PROVE  Tells'
<1> DEFINE s == run[c]
           e == s.read[s.lesson]
           r == Receipt(s)
           t == [s EXCEPT !.made = @ \cup {<<s.lesson, r>>}]
           v == IF r.from = "checklist" THEN "to enforced" ELSE "to archive"
<1>1. pc[c] = "judge" /\ pc[c] \in Mid /\ pending \subseteq pending'
  BY DEF Judge, Mid, Unmade
<1>2. /\ s \in Runs /\ RunOK(s, "judge") /\ s.lesson \in Active(s.read)
      /\ s.lesson \in Lessons /\ Telling(s, "judge", pending)
  BY <1>1, MidParts, TellingOf
<1>3. {"not ready", "to enforced", "to archive"} \subseteq Judgements
  BY DEF Judgements
<1>4. CASE Tell(c, s, "not ready", TRUE)
  <2> HIDE DEF s
  <2> QED
    BY <1>1, <1>2, <1>3, <1>4, TellTells
<1>5. CASE pending' = pending \cup {r} /\ Tell(c, t, v, FALSE)
  <2>1. /\ r \in Receipts /\ r.lesson = s.lesson /\ r.from = e.status
    BY <1>2, ReceiptTypes
  <2>2. e.status \in {"checklist", "enforced"}
    BY <1>2 DEF RunOK
  <2> HIDE DEF r, e
  <2>3. s.made \cup {<<s.lesson, r>>} \subseteq Lessons \X Receipts
    BY <1>2, <2>1, RunParts
  <2>4. /\ t \in Runs /\ t.read = s.read /\ t.todo = s.todo /\ t.said = s.said
        /\ t.fresh = s.fresh /\ t.failed = s.failed
        /\ t.made = s.made \cup {<<s.lesson, r>>}
        /\ t.verify = s.verify /\ t.strict = s.strict /\ t.lesson = s.lesson
    BY <1>2, <2>3 DEF Runs
  <2>5. t.read[t.lesson] = e
    BY <2>4 DEF e
  <2>6. v \in Judgements /\ (v = "to enforced" => e.status = "checklist")
        /\ (v = "to archive" => e.status = "enforced")
        /\ (e.status = "checklist" => v = "to enforced")
    BY <1>3, <2>1, <2>2
  <2> HIDE DEF s, t, v
  <2>7. Telling(t, "judge", pending)
    BY <1>1, <1>2, <2>4, MoveTells
  <2>8. VerifiedIn(pending', t, t.lesson, e.status)
    BY <1>5, <2>1, <2>4 DEF VerifiedIn
  <2>9. e.status = "enforced" => <<t.lesson, e.evidence>> \in t.fresh
    BY <2>5, <2>7 DEF Telling, InTurn
  <2>10. t.lesson \in Active(t.read) /\ "judge" \in Mid
    BY <1>1, <1>2, <2>4
  <2>11. /\ v = "to enforced" => VerifiedIn(pending', t, t.lesson, "checklist")
         /\ v = "to archive" => VerifiedIn(pending', t, t.lesson, "enforced")
    BY <2>6, <2>8
  <2> QED
    BY <1>1, <1>5, <2>4, <2>5, <2>6, <2>7, <2>9, <2>10, <2>11, TellTells
<1> QED
  BY <1>4, <1>5 DEF Judge

(* Every step keeps what is said backed.                                   *)
LEMMA StepTells ==
  ASSUME TypeOK, Tells, [Next]_vars
  PROVE  Tells'
<1>1. CASE UNCHANGED vars
  BY <1>1 DEF vars, Tells
<1>2. CASE User
  <2>1. pending' = pending /\ pc' = pc /\ run' = run
    BY <1>2 DEF User, Unrun, EditFile, EditManifest, EditEntry, FileReceipt,
       LoseReceipt, SetClock, Tick
  <2> QED
    BY <2>1 DEF Tells
<1>3. CASE Next
  BY <1>2, <1>3, NextCases, EndsTells, InspectTells, ReadTells, CompareTells,
     ProbeTells, JudgeTells
<1> QED
  BY <1>1, <1>3

(* What is said at the end is backed.                                      *)
LEMMA TellsBacked ==
  ASSUME Tells
  PROVE  VerdictsBacked
<1> SUFFICES ASSUME NEW c \in Cmds, pc[c] = "done", NEW l \in Active(run[c].read)
             PROVE  LET s == run[c] IN
      /\ \E v \in Judgements : Verdicts(s, l) = {v}
      /\ <<l, "to enforced">> \in s.said => Verified(s, l, "checklist")
      /\ <<l, "to archive">> \in s.said =>
           Verified(s, l, "enforced") /\ <<l, s.read[l].evidence>> \in s.fresh
      /\ s.verify /\ ~s.failed /\ s.read[l].status = "checklist" =>
           Verdicts(s, l) \in {{"to enforced"}} \cup
                              (IF s.strict THEN {} ELSE {{"broken sink"}})
  BY DEF VerdictsBacked
<1> DEFINE s == run[c]
<1>1. Telling(s, "done", pending)
  BY DEF Tells
<1>2. \A from : VerifiedIn(pending, s, l, from) <=> Verified(s, l, from)
  BY DEF VerifiedIn, Verified
<1>3. l \in Lessons
  BY DEF Active
<1> HIDE DEF s
<1>4. l \in Heard(s, "done")
  BY <1>1 DEF Telling, InTurn, Heard, Mid, s
<1>5. PICK v \in Judgements : Verdicts(s, l) = {v}
  BY <1>1, <1>4 DEF Telling, OneEach
<1>6. <<l, v>> \in s.said
  BY <1>5 DEF Verdicts
<1>7. /\ <<l, "to enforced">> \in s.said => Verified(s, l, "checklist")
      /\ <<l, "to archive">> \in s.said =>
           Verified(s, l, "enforced") /\ <<l, s.read[l].evidence>> \in s.fresh
  BY <1>1, <1>2, <1>3 DEF Telling, Backed
<1>8. s.verify /\ ~s.failed /\ s.read[l].status = "checklist" =>
        v = "to enforced" \/ (v = "broken sink" /\ ~s.strict)
  BY <1>1, <1>3, <1>6 DEF Telling, Backed
<1> QED
  BY <1>5, <1>7, <1>8 DEF s

(* Each lesson that a command read has one verdict at its end; a lesson    *)
(* that it calls ready was verified by it and has a receipt, one to be     *)
(* archived had a fresh receipt besides; and if it reports no failure, no  *)
(* lesson on a checklist was passed over that it had to verify.            *)
THEOREM VerdictsHaveReasons == Spec => []VerdictsBacked
<1>1. Init => TypeOK /\ Tells
  BY ConstantsOK, InitTypes DEF Init, Tells
<1>2. TypeOK /\ Tells /\ [Next]_vars => (TypeOK /\ Tells)'
  BY ConstantsOK, StepTypes, StepTells
<1>3. Tells => VerdictsBacked
  BY TellsBacked
<1> QED
  BY <1>1, <1>2, <1>3, PTL DEF Spec

-----------------------------------------------------------------------------
(* A fresh receipt would be made again.                                    *)

(* A receipt of an age of so many days is that old, and not a day older.   *)
LEMMA AgeBounds ==
  ASSUME NEW n \in Int, NEW day \in Nat \ {0}, NEW most \in Nat,
         0 <= n \div day, n \div day <= most
  PROVE  0 <= n /\ n < (most + 1) * day
<1> DEFINE q == n \div day
           m == n % day
<1>1. q \in Int /\ m \in Int /\ n = day * q + m /\ 0 <= m /\ m < day
  OBVIOUS
<1> HIDE DEF q, m
<1>2. q \in Nat /\ q <= most
  BY <1>1 DEF q
<1>3. day * q >= 0 /\ day * q <= day * most
  BY <1>2
<1>4. (most + 1) * day = day * most + day
  OBVIOUS
<1> QED
  BY <1>1, <1>3, <1>4

(* While a command compares a receipt, it is the only one to change what   *)
(* it knows.                                                               *)
LEMMA OnlyCompare ==
  ASSUME TypeOK, NEW c \in Cmds, pc[c] = "compare", [Next]_vars
  PROVE  run'[c] = run[c] \/ Compare(c) \/ Kill(c)
<1>1. CASE UNCHANGED vars
  BY <1>1 DEF vars
<1>2. CASE User
  BY <1>2 DEF User, Unrun, EditFile, EditManifest, EditEntry, FileReceipt,
     LoseReceipt, SetClock, Tick
<1>3. ASSUME NEW d \in Cmds, d # c,
             \/ \E s : run' = [run EXCEPT ![d] = s]
             \/ run' = run
      PROVE  run'[c] = run[c]
  BY <1>3 DEF TypeOK
<1>4. ASSUME NEW d \in Cmds, d # c,
             \/ (\E verify, strict \in BOOLEAN : Start(d, verify, strict))
                  \/ LoadVerifiers(d) \/ Finish(d) \/ Kill(d)
             \/ \E l \in Lessons : Inspect(d, l)
             \/ ReadReceipt(d) \/ ReadDefinition(d)
             \/ Compare(d)
             \/ ReadInputs(d) \/ Probe(d)
             \/ Judge(d)
      PROVE  run'[c] = run[c]
  <2>1. \/ \E s : run' = [run EXCEPT ![d] = s]
        \/ run' = run
    BY <1>4 DEF Start, LoadVerifiers, Finish, Kill, Inspect, ReadReceipt,
       ReadDefinition, Compare, Accept, ReadInputs, Probe, Judge, Tell,
       Verify, Keep
  <2> QED
    BY <1>3, <1>4, <2>1
<1>5. ~(\E verify, strict \in BOOLEAN : Start(c, verify, strict))
      /\ ~LoadVerifiers(c) /\ ~Finish(c) /\ ~(\E l \in Lessons : Inspect(c, l))
      /\ ~ReadReceipt(c) /\ ~ReadDefinition(c) /\ ~ReadInputs(c) /\ ~Probe(c)
      /\ ~Judge(c)
  BY DEF Start, LoadVerifiers, Finish, Inspect, ReadReceipt, ReadDefinition,
     ReadInputs, Probe, Judge
<1> QED
  BY <1>1, <1>2, <1>4, <1>5, NextCases

(* A receipt that is found fresh stood the comparison.                     *)
LEMMA StepFresh ==
  ASSUME ConstantsOK, TypeOK, Traced, Tells, AttestsInputs, [Next]_vars,
         NEW c \in Cmds,
         FoundFresh(c, run[c].lesson, run[c].read[run[c].lesson].evidence)
  PROVE  IsFresh(c, run[c].read[run[c].lesson].evidence)
<1> DEFINE s == run[c]
           e == s.read[s.lesson]
           r == e.evidence
<1>0. pc[c] = "compare" /\ pc'[c] # "killed" /\ <<s.lesson, r>> \in run'[c].fresh
  BY DEF FoundFresh
<1>1. pc[c] \in Mid /\ pc[c] \notin {"idle", "killed"}
  BY <1>0 DEF Mid
<1>2. /\ s \in Runs /\ RunOK(s, "compare") /\ s.lesson \in Lessons
      /\ Telling(s, "compare", pending)
  BY <1>0, <1>1, MidParts, TellingOf
<1>3. r \in Receipts \ {None} /\ s.def \in Defs /\ s.now \in Time
  BY <1>2, RunParts DEF RunOK
<1>4. <<s.lesson, r>> \notin s.fresh
  BY <1>2 DEF Telling, InTurn
<1>5. Compare(c)
  <2>1. ~Kill(c)
    BY <1>0 DEF Kill, Goto, TypeOK
  <2> QED
    BY <1>0, <1>4, <2>1, OnlyCompare
<1>6. /\ Complete(s.def) /\ s.def = r.def /\ Related(s.def) = r.inputs
      /\ Good(r.runs) /\ Dated(e, s.now)
  <2>1. ASSUME Tell(c, s, "stale", FALSE)
        PROVE  FALSE
    <3>1. run'[c] = Told(s, "stale", FALSE)
      BY <2>1 DEF Tell, Keep, TypeOK
    <3>2. Told(s, "stale", FALSE).fresh = s.fresh
      BY <1>2, ToldRun DEF Judgements
    <3> QED
      BY <1>0, <1>4, <3>1, <3>2
  <2> QED
    BY <1>5, <2>1 DEF Compare
<1>7. r \in soiled \/ Good([i \in 1..Probes |-> Passes(r.def, i)])
  <2>1. r \in pending
    BY <1>1, <1>2, <1>3, TraceOf
  <2>2. r \in soiled \/ (r.runs = Outcome(r.def, r.inputs) /\ Good(r.runs))
    BY <2>1 DEF AttestsInputs
  <2>3. Outcome(r.def, r.inputs) = [i \in 1..Probes |-> Passes(r.def, i)]
    BY <1>6 DEF Outcome, Passes
  <2> QED
    BY <2>2, <2>3
<1>8. c \in disturbed \/ manifest[r.verifier] = r.def
  BY <1>0, <1>1, <1>6, TraceOf DEF Trace
<1>9. r.utc <= s.now /\ s.now - r.utc < (MaxAge + 1) * PerDay
  <2>1. s.now \in Int /\ r.utc \in Int
    BY <1>3 DEF Receipts, Time
  <2>2. MaxAge \in Nat /\ PerDay \in Nat \ {0}
    BY DEF ConstantsOK
  <2> DEFINE n == s.now - r.utc
  <2>3. 0 <= n \div PerDay /\ n \div PerDay <= MaxAge
    BY <1>6 DEF Dated, Age
  <2>4. n \in Int
    BY <2>1
  <2> HIDE DEF n
  <2>5. 0 <= n /\ n < (MaxAge + 1) * PerDay
    BY <2>2, <2>3, <2>4, AgeBounds
  <2> HIDE DEF s, r
  <2>6. 0 <= s.now - r.utc /\ s.now - r.utc < (MaxAge + 1) * PerDay
    BY ONLY <2>5 DEF n
  <2>7. r.utc <= s.now
    BY ONLY <2>1, <2>6
  <2> QED
    BY ONLY <2>6, <2>7
<1> QED
  BY <1>7, <1>8, <1>9 DEF IsFresh

(* A lesson whose receipt is found fresh would pass its verification at    *)
(* that moment, with the definition that is in the manifest and the files  *)
(* as they are, unless a file was edited while the probes ran or the       *)
(* manifest since it was read again; and its receipt is not older, to the  *)
(* day, than it may be.                                                    *)
THEOREM FreshIsReal == Spec => FreshHolds
<1>1. Init => TypeOK /\ Traced /\ Tells /\ AttestsInputs
  BY ConstantsOK, InitTypes, InitTraces DEF Init, Tells
<1>2. TypeOK /\ Traced /\ Tells /\ AttestsInputs /\ [Next]_vars
      => (TypeOK /\ Traced /\ Tells /\ AttestsInputs)'
  BY ConstantsOK, StepTypes, StepTraces, StepTells, StepAttests
<1>3. TypeOK /\ Traced /\ Tells /\ AttestsInputs /\ [Next]_vars => [FreshStands]_vars
  BY ConstantsOK, StepFresh DEF FreshStands
<1> QED
  BY <1>1, <1>2, <1>3, PTL DEF Spec, FreshHolds

=============================================================================
