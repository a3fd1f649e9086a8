-------------------------- MODULE Freshness_proofs --------------------------
(***************************************************************************)
(* Proofs about Freshness, for any number of processes, any history of     *)
(* commits, any number of events and every race window open: the host      *)
(* never goes back behind what it remembered, what passes was fetched, and *)
(* no advance is called a rewind.  The second part proves what             *)
(* `state attach` leaves in the host's files, as long as nobody edits the  *)
(* configuration between attach's comparison of it and the end of attach;  *)
(* the third, that sync installs only what is new, as long as nobody moves *)
(* the clone while a sync relies on what it has read of it.                *)
(***************************************************************************)
EXTENDS Freshness, TLAPS

-----------------------------------------------------------------------------
(* The invariant: what holds of the host, and what holds of a process that *)
(* has read s and is at step l.                                            *)

Looking   == {"status", "counts", "known"}
Attaching == {"validate", "again", "inspect"} \cup Writing \cup Undoing
Migrating == {"fetch", "ref", "passed", "review", "again", "inspect", "undo remote"}
               \cup Looking \cup Writing
Fetched   == Steps \ {"idle", "validate", "migrate", "fetch"}

(* What a command knows by then.                                           *)
Knows(s, l) ==
  /\ l = "migrate" => s.op \in {"sync", "attach"}
  /\ l \in Attaching => s.op = "attach"
  /\ l = "review" => s.op = "sync"
  /\ l \in {"ref", "passed"} \cup Looking => s.op # "attach"
  /\ l \in {"passed"} \cup Looking => (s.remote = Absent => s.issue)
  /\ l = "passed" => (s.op # "capture" => ~s.issue)
  /\ l # "validate" /\ s.op = "attach" => s.adv \in Commits /\ s.config \in Config
  /\ s.op = "attach" => ~s.issue
  /\ l \in Writing => s.remote = s.adv
  /\ l \in {"validate", "migrate", "fetch", "ref", "again"} => s.remote = Absent

(* The old baseline was migrated, and has no say any more.                 *)
Settles(p, l) ==
  lock = p /\ l \in Migrating => known # Damaged /\ (known = Absent => legacy = Absent)

(* All that was ever remembered is behind c.                               *)
Above(c) == \A b \in past : c \in Commits /\ b \in Past[c]

(* What the command will remember, or put back.                            *)
Advances(p, s, l) ==
  /\ l = "passed" /\ s.op = "sync" => Above(s.remote)
  /\ l \in Writing => Above(s.adv)
  /\ lock = p /\ s.op = "attach" /\ l \in Migrating =>
       Above(IF s.prev # Absent THEN s.prev ELSE legacy)

(* What it has seen of the remote is of its own time.                      *)
Timely(p, s, l) ==
  /\ main \in since[p]
  /\ l \in Fetched /\ ~s.issue => tracking \in since[p]
  /\ s.remote # Absent => s.remote \in since[p]

Behind(b, c) == b \in Commits => b \in Past[c]

(* As long as the remote only advanced, what was read is in order.         *)
Calm(p, s, l) ==
  ~rewound =>
    /\ Behind(s.remote, tracking) /\ Behind(s.prev, tracking)
    /\ lock = p /\ l \in Looking /\ s.remote \in Commits => Behind(known, s.remote)

Fine(p, s, l) ==
  Knows(s, l) /\ Settles(p, l) /\ Advances(p, s, l) /\ Timely(p, s, l) /\ Calm(p, s, l)

(* As long as the remote only advanced, what the host knows is in order.   *)
Peace ==
  /\ ~rewound => /\ tracking \in Past[main]
                 /\ Behind(known, tracking) /\ Behind(legacy, tracking)
  /\ alarmed => rewound

IInv ==
  /\ TypeOK
  /\ Above(Remembered)
  /\ Peace
  /\ \A p \in Procs : pc[p] # "idle" => Fine(p, seen[p], pc[p])

-----------------------------------------------------------------------------
(* Constants, and the two ways a command takes a step.                     *)

LEMMA Names ==
  /\ Absent \notin Commits /\ Damaged \notin Commits /\ Absent # Damaged
  /\ Absent \notin Binding /\ NoProc \notin Procs
  /\ NoConfig \notin Config /\ NoSeen \notin Seen
  /\ Past \in [Commits -> SUBSET Commits]
BY ConstantsOK DEF ConstantsOK

LEMMA Ancestors ==
  /\ \A c \in Commits : c \in Past[c]
  /\ \A b, c, d \in Commits : b \in Past[c] /\ c \in Past[d] => b \in Past[d]
BY ConstantsOK DEF ConstantsOK

(* The command goes on: it may have read something.                        *)
On(p, l) ==
  /\ pc[p] # "idle" /\ l \in Steps \ {"idle"}
  /\ pc' \in [Procs -> Steps] /\ pc'[p] = l
  /\ seen' \in [Procs -> Seen \cup {NoSeen}]
  /\ seen'[p] \in Seen /\ seen'[p].op = seen[p].op
  /\ \A q \in Procs : q # p => pc'[q] = pc[q] /\ seen'[q] = seen[q]
  /\ lock' = lock /\ since' = since /\ past' = past

(* The command ends.                                                       *)
Off(p) ==
  /\ pc[p] # "idle"
  /\ pc' \in [Procs -> Steps] /\ pc'[p] = "idle"
  /\ seen' \in [Procs -> Seen \cup {NoSeen}] /\ seen'[p] = NoSeen
  /\ since' \in [Procs -> SUBSET Commits]
  /\ \A q \in Procs : q # p => pc'[q] = pc[q] /\ seen'[q] = seen[q] /\ since'[q] = since[q]
  /\ lock' = IF lock = p THEN NoProc ELSE lock
  /\ past' = IF lock = p THEN past \cup ({Remembered'} \cap Commits) ELSE past

LEMMA OnStep ==
  ASSUME TypeOK, NEW p \in Procs, pc[p] # "idle",
         NEW l \in Steps \ {"idle"}, NEW s \in Seen, s.op = seen[p].op,
         GoTo(p, l), seen' = [seen EXCEPT ![p] = s],
         UNCHANGED <<lock, since, past>>
  PROVE  On(p, l) /\ seen'[p] = s
BY DEF TypeOK, GoTo, On

LEMMA OnUnread ==
  ASSUME TypeOK, NEW p \in Procs, pc[p] # "idle",
         NEW l \in Steps \ {"idle"}, GoTo(p, l),
         UNCHANGED <<seen, lock, since, past>>
  PROVE  On(p, l) /\ seen'[p] = seen[p]
BY DEF TypeOK, GoTo, On

LEMMA OffStep ==
  ASSUME TypeOK, NEW p \in Procs, pc[p] # "idle", Leave(p)
  PROVE  Off(p)
BY DEF TypeOK, Leave, GoTo, Locking, Off, Steps

(* The rest of the types.                                                  *)
HostTyped ==
  /\ main' \in Commits /\ tracking' \in Commits /\ head' \in Commits /\ tree' \in Trees
  /\ known' \in Memory /\ legacy' \in Memory
  /\ config' \in Config /\ binding' \in Binding \cup {Absent}
  /\ installed' \in Memory /\ note' \in Notes
  /\ {rewound', alarmed', cut', edited'} \subseteq BOOLEAN

LEMMA OnTyped ==
  ASSUME TypeOK, NEW p \in Procs, NEW l, On(p, l), HostTyped
  PROVE  TypeOK'
BY Names DEF TypeOK, On, HostTyped, Locking

LEMMA OffTyped ==
  ASSUME TypeOK, NEW p \in Procs, Off(p), HostTyped
  PROVE  TypeOK'
BY Names DEF TypeOK, Off, HostTyped, Locking

-----------------------------------------------------------------------------
(* What the two ways of taking a step leave of the invariant.              *)

(* Only sync and attach hold the lock.                                     *)
LEMMA Unlocked ==
  ASSUME TypeOK, NEW q \in Procs, pc[q] # "idle", lock # q
  PROVE  seen[q].op \notin {"sync", "attach"}
BY DEF TypeOK, Locking

LEMMA OnKeeps ==
  ASSUME IInv, NEW p \in Procs, NEW l, On(p, l), TypeOK',
         UNCHANGED <<main, tracking, known, legacy, rewound, alarmed>>,
         Fine(p, seen'[p], l)
  PROVE  IInv'
<1>1. Above(Remembered)' /\ Peace'
  BY DEF IInv, On, Above, Remembered, Peace, Behind
<1>2. ASSUME NEW q \in Procs, pc'[q] # "idle"
      PROVE  Fine(q, seen[q], pc[q])' <=> Fine(q, seen'[q], pc'[q])
  BY <1>2 DEF On, Fine, Settles, Advances, Above, Timely, Calm, Behind
<1>3. ASSUME NEW q \in Procs, pc'[q] # "idle"
      PROVE  Fine(q, seen'[q], pc'[q])
  BY <1>3 DEF IInv, On
<1> QED
  BY <1>1, <1>2, <1>3 DEF IInv

(* The holder of the lock changes what is remembered.                      *)
LEMMA KnownKeeps ==
  ASSUME IInv, NEW p \in Procs, NEW l, On(p, l), TypeOK', lock = p,
         UNCHANGED <<main, tracking, legacy, rewound, alarmed>>,
         Above(Remembered)', Fine(p, seen[p], pc[p])',
         ~rewound => Behind(known', tracking)
  PROVE  IInv'
<1>1. Peace'
  BY DEF IInv, Peace, Behind
<1>2. ASSUME NEW q \in Procs, q # p, pc'[q] # "idle"
      PROVE  Fine(q, seen[q], pc[q])'
  <2>1. seen'[q] = seen[q] /\ pc'[q] = pc[q] /\ lock # q /\ lock' # q
    BY <1>2 DEF On
  <2>2. Fine(q, seen[q], pc[q]) /\ seen[q].op \notin {"sync", "attach"}
    BY <1>2, <2>1, Unlocked DEF IInv
  <2>3. pc[q] \notin Writing
    BY <2>2 DEF Fine, Knows, Attaching
  <2> QED
    BY <2>1, <2>2, <2>3 DEF On, Fine, Settles, Advances, Timely, Calm, Behind
<1> QED
  BY <1>1, <1>2 DEF IInv

LEMMA OffKeeps ==
  ASSUME IInv, NEW p \in Procs, Off(p), TypeOK',
         UNCHANGED <<main, tracking, legacy, rewound>>,
         known' = known \/ lock = p,
         Above(Remembered'), ~rewound => Behind(known', tracking),
         alarmed' => rewound
  PROVE  IInv'
<1>1. Above(Remembered)'
  BY Ancestors DEF Off, Above
<1>2. Peace'
  BY DEF IInv, Peace, Behind
<1>3. ASSUME NEW q \in Procs, pc'[q] # "idle"
      PROVE  Fine(q, seen[q], pc[q])'
  <2>1. q # p /\ seen'[q] = seen[q] /\ pc'[q] = pc[q] /\ since'[q] = since[q]
    BY <1>3 DEF Off
  <2>2. Fine(q, seen[q], pc[q])
    BY <1>3, <2>1 DEF IInv
  <2>3. CASE lock # p
    <3>1. lock' = lock /\ past' = past /\ known' = known
      BY <2>3 DEF Off
    <3> QED
      BY <2>1, <2>2, <3>1 DEF Fine, Settles, Advances, Above, Timely, Calm, Behind
  <2>4. CASE lock = p
    <3>1. lock # q /\ lock' # q
      BY <2>1, <2>4, Names DEF Off
    <3>2. seen[q].op \notin {"sync", "attach"}
      BY <1>3, <2>1, <3>1, Unlocked DEF IInv
    <3>3. pc[q] \notin Writing
      BY <2>2, <3>2 DEF Fine, Knows, Attaching
    <3> QED
      BY <2>1, <2>2, <3>1, <3>2, <3>3 DEF Fine, Settles, Advances, Timely, Calm, Behind
  <2> QED
    BY <2>3, <2>4
<1> QED
  BY <1>1, <1>2, <1>3 DEF IInv

(* The remote's branch moves, or the clone is brought up to it.            *)
LEMMA RemoteKeeps ==
  ASSUME IInv, TypeOK',
         UNCHANGED <<known, legacy, lock, past, alarmed>>,
         main' \in Commits, tracking' \in {tracking, main'},
         rewound' = (rewound \/ ~Before(main, main')),
         \A q \in Procs : pc'[q] # "idle" =>
           /\ pc[q] # "idle" /\ seen'[q] = seen[q]
           /\ since[q] \subseteq since'[q] /\ main' \in since'[q]
           /\ pc'[q] = pc[q] \/ (pc[q] = "fetch" /\ tracking' = main' /\ Knows(seen[q], pc'[q])
                                  /\ pc'[q] \in {"again", "ref"})
  PROVE  IInv'
<1>1. Above(Remembered)'
  BY DEF IInv, Above, Remembered
<1>2. tracking \in Commits /\ main \in Commits /\ known \in Memory /\ legacy \in Memory
  BY DEF IInv, TypeOK
<1>3. ~rewound' => /\ ~rewound /\ tracking' \in Past[main'] /\ tracking \in Past[tracking']
                   /\ \A b : Behind(b, tracking) => Behind(b, tracking')
  <2>1. SUFFICES ASSUME ~rewound'
                 PROVE  /\ tracking' \in Past[main'] /\ tracking \in Past[tracking']
                        /\ \A b : Behind(b, tracking) => Behind(b, tracking')
    OBVIOUS
  <2>2. main \in Past[main'] /\ tracking \in Past[main]
    BY <2>1 DEF IInv, Peace, Before
  <2>3. tracking \in Past[main']
    BY <1>2, <2>2, Ancestors
  <2>4. tracking' \in Past[main'] /\ tracking \in Past[tracking']
    BY <1>2, <2>3, Ancestors
  <2> QED
    BY <1>2, <2>4, Ancestors DEF Behind
<1>4. Peace'
  BY <1>3 DEF IInv, Peace
<1>5. ASSUME NEW q \in Procs, pc'[q] # "idle"
      PROVE  Fine(q, seen[q], pc[q])'
  <2>1. Fine(q, seen[q], pc[q]) /\ seen'[q] = seen[q]
    BY <1>5 DEF IInv
  <2>2. Knows(seen[q], pc[q])'
    BY <1>5, <2>1 DEF Fine
  <2>3. Settles(q, pc[q])'
    BY <1>5, <2>1 DEF Fine, Settles, Migrating, Looking, Writing
  <2>4. Advances(q, seen[q], pc[q])'
    BY <1>5, <2>1 DEF Fine, Advances, Above, Migrating, Looking, Writing
  <2>5. Timely(q, seen[q], pc[q])'
    BY <1>5, <2>1 DEF Fine, Timely, Fetched
  <2>6. Calm(q, seen[q], pc[q])'
    BY <1>3, <1>5, <2>1 DEF Fine, Calm, Behind, Looking
  <2> QED
    BY <2>2, <2>3, <2>4, <2>5, <2>6 DEF Fine
<1> QED
  BY <1>1, <1>4, <1>5 DEF IInv

(* Nothing that matters to it changes.                                     *)
LEMMA AsideKeeps ==
  ASSUME IInv, TypeOK',
         UNCHANGED <<main, tracking, known, legacy, lock, pc, seen, since, past, rewound, alarmed>>
  PROVE  IInv'
<1>1. Above(Remembered)' /\ Peace'
  BY DEF IInv, Above, Remembered, Peace, Behind
<1>2. ASSUME NEW q \in Procs, pc'[q] # "idle" PROVE Fine(q, seen[q], pc[q])'
  BY <1>2 DEF IInv, Fine, Settles, Advances, Above, Timely, Calm, Behind
<1> QED
  BY <1>1, <1>2 DEF IInv

-----------------------------------------------------------------------------
(* Beginning, and reading.                                                 *)

LEMMA InitInv == Init => IInv
<1> SUFFICES ASSUME Init PROVE IInv
  OBVIOUS
<1>1. TypeOK
  <2>1. config \in Config
    BY DEF Init, Config, Roots, Notes
  <2> QED
    BY <2>1, Names DEF Init, TypeOK, Steps, Trees, Memory, Notes, Locking
<1>2. Above(Remembered)
  BY Ancestors DEF Init, Above
<1>3. Peace
  BY Ancestors, Names DEF Init, Peace, Behind, Before, Memory
<1>4. \A p \in Procs : pc[p] = "idle"
  BY DEF Init
<1> QED
  BY <1>1, <1>2, <1>3, <1>4 DEF IInv

LEMMA PreviewKeeps ==
  ASSUME IInv, NEW p \in Procs, Preview(p)
  PROVE  IInv'
<1>1. UNCHANGED <<main, tracking, head, tree, known, legacy, config, binding, lock, pc, seen,
                  since, past, installed, note, rewound, alarmed, cut, edited>>
  BY DEF Preview, repo, host, history
<1>2. TypeOK'
  BY <1>1 DEF IInv, TypeOK, Locking
<1> QED
  BY <1>1, <1>2, AsideKeeps

LEMMA StartKeeps ==
  ASSUME IInv, NEW p \in Procs, NEW o \in Ops, Start(p, o)
  PROVE  IInv'
<1>1. Fresh(o) \in Seen /\ Fresh(o).op = o /\ ~Fresh(o).issue /\ Fresh(o).remote = Absent
      /\ Fresh(o).adv = Absent /\ Fresh(o).prev = Absent
  BY DEF Fresh, Seen, Trees, Memory
<1>2. UNCHANGED <<main, tracking, head, tree, known, legacy, config, binding,
                  past, installed, note, rewound, alarmed, cut, edited>>
  BY DEF Start, repo, host
<1> DEFINE l == CASE o = "sync" -> "migrate" [] o = "attach" -> "validate" [] OTHER -> "fetch"
<1>3. /\ l \in Steps \ {"idle"}
      /\ o = "sync" => l = "migrate"
      /\ o = "attach" => l = "validate"
      /\ o \notin {"sync", "attach"} => l = "fetch"
  BY DEF Steps
<1>4. /\ pc[p] = "idle" /\ pc'[p] = l /\ seen'[p] = Fresh(o) /\ since'[p] = {main}
      /\ pc' \in [Procs -> Steps] /\ seen' \in [Procs -> Seen \cup {NoSeen}]
      /\ since' \in [Procs -> SUBSET Commits]
      /\ \A q \in Procs : q # p => pc'[q] = pc[q] /\ seen'[q] = seen[q] /\ since'[q] = since[q]
      /\ lock' = IF o \in {"sync", "attach"} THEN p ELSE lock
      /\ o \in {"sync", "attach"} => lock = NoProc
  BY <1>1, <1>3 DEF Start, GoTo, IInv, TypeOK
<1> HIDE DEF l
<1>5. TypeOK'
  BY <1>1, <1>2, <1>3, <1>4, Names DEF IInv, TypeOK, Locking
<1>6. Above(Remembered)' /\ Peace'
  BY <1>2 DEF IInv, Above, Remembered, Peace, Behind
<1>7. Fine(p, seen[p], pc[p])'
  <2>1. lock # p
    BY <1>4, Names DEF IInv, TypeOK, Locking
  <2>2. Knows(seen[p], pc[p])'
    BY <1>1, <1>3, <1>4 DEF Knows, Attaching, Writing, Undoing, Looking
  <2>3. Settles(p, pc[p])' /\ Advances(p, seen[p], pc[p])'
    BY <1>1, <1>3, <1>4, <2>1 DEF Settles, Advances, Migrating, Writing, Looking
  <2>4. Timely(p, seen[p], pc[p])' /\ Calm(p, seen[p], pc[p])'
    BY <1>1, <1>2, <1>3, <1>4, Names DEF Timely, Calm, Fetched, Behind, Looking
  <2> QED
    BY <2>2, <2>3, <2>4 DEF Fine
<1>8. ASSUME NEW q \in Procs, q # p, pc'[q] # "idle" PROVE Fine(q, seen[q], pc[q])'
  <2>1. Fine(q, seen[q], pc[q]) /\ pc[q] # "idle"
    BY <1>4, <1>8 DEF IInv
  <2>2. lock' = q => lock = q
    BY <1>4, <1>8
  <2> QED
    BY <1>2, <1>4, <1>8, <2>1, <2>2 DEF Fine, Settles, Advances, Above, Timely, Calm, Behind
<1> QED
  BY <1>5, <1>6, <1>7, <1>8 DEF IInv

(* The record of a running command, and one with something changed.        *)
Alike(s, t, F) ==
  /\ t \in Seen /\ t.op = s.op
  /\ "issue" \in F \/ t.issue = s.issue
  /\ "remote" \in F \/ t.remote = s.remote
  /\ "prev" \in F \/ t.prev = s.prev
  /\ "adv" \in F \/ (t.adv = s.adv /\ t.config = s.config)
  /\ "binding" \in F \/ t.prevBinding = s.prevBinding

LEMMA SeenAt ==
  ASSUME TypeOK, NEW p \in Procs, pc[p] # "idle"
  PROVE  seen[p] \in Seen /\ p \in DOMAIN seen
BY DEF TypeOK

LEMMA WithRemote ==
  ASSUME NEW s \in Seen, NEW x \in Commits \cup {Absent}
  PROVE  /\ Alike(s, [s EXCEPT !.remote = x], {"remote"})
         /\ [s EXCEPT !.remote = x].remote = x
BY DEF Seen, Alike

LEMMA WithIssue ==
  ASSUME NEW s \in Seen, NEW x \in BOOLEAN
  PROVE  /\ Alike(s, [s EXCEPT !.issue = x], {"issue"})
         /\ [s EXCEPT !.issue = x].issue = x
BY DEF Seen, Alike

LEMMA WithTree ==
  ASSUME NEW s \in Seen, NEW x \in Trees
  PROVE  /\ Alike(s, [s EXCEPT !.tree = x], {})
BY DEF Seen, Alike

LEMMA WithPrev ==
  ASSUME NEW s \in Seen, NEW x \in Memory
  PROVE  /\ Alike(s, [s EXCEPT !.prev = x], {"prev"})
         /\ [s EXCEPT !.prev = x].prev = x
BY DEF Seen, Alike

LEMMA WithCounts ==
  ASSUME NEW s \in Seen, NEW x \in BOOLEAN, NEW y \in BOOLEAN
  PROVE  /\ Alike(s, [s EXCEPT !.behind = x, !.ahead = y], {})
BY DEF Seen, Alike

(* What a command that fails leaves.                                       *)
LEMMA FailKeeps ==
  ASSUME IInv, NEW p \in Procs, pc[p] # "idle", Leave(p),
         UNCHANGED <<repo, host, installed, note, rewound>>,
         {alarmed', cut', edited'} \subseteq BOOLEAN, alarmed' => rewound
  PROVE  IInv'
<1>1. Off(p)
  BY OffStep DEF IInv
<1>2. UNCHANGED <<main, tracking, head, tree, known, legacy, config, binding, installed, note, rewound>>
  BY DEF repo, host
<1>3. TypeOK'
  BY <1>1, <1>2, OffTyped DEF IInv, TypeOK, HostTyped
<1>4. Above(Remembered')
  BY <1>2 DEF IInv, Remembered
<1> QED
  BY <1>1, <1>2, <1>3, <1>4, OffKeeps DEF IInv, Peace, Behind

LEMMA Failing ==
  ASSUME IInv, NEW p \in Procs, pc[p] # "idle", Fail(p)
  PROVE  IInv'
BY FailKeeps DEF Fail, IInv, TypeOK, Peace

(* A command that reads, and goes on.                                      *)
LEMMA ReadKeeps ==
  ASSUME IInv, NEW p \in Procs, NEW l, On(p, l), UNCHANGED <<repo, host>>,
         UNCHANGED <<installed, note, rewound, alarmed, cut, edited>>,
         Fine(p, seen'[p], l)
  PROVE  IInv'
<1>1. UNCHANGED <<main, tracking, head, tree, known, legacy, config, binding>>
  BY DEF repo, host
<1>2. TypeOK'
  BY <1>1, OnTyped DEF IInv, TypeOK, HostTyped
<1> QED
  BY <1>1, <1>2, OnKeeps

(* Under the lock, after the migration, what is remembered is `known`.     *)
LEMMA AboveNext ==
  ASSUME IInv, NEW p \in Procs, lock = p, pc[p] \in Migrating, NEW c \in Commits,
         ~Rewinds(known, c)
  PROVE  Above(c)
<1>1. known # Damaged /\ (known = Absent => legacy = Absent) /\ known \in Memory
  BY DEF IInv, Fine, Settles, TypeOK, Migrating, Looking, Writing
<1>2. Above(Remembered)
  BY DEF IInv
<1>3. CASE known = Absent
  BY <1>1, <1>2, <1>3, Names DEF Above, Remembered
<1>4. CASE known # Absent
  <2>1. known \in Commits /\ known \in Past[c] /\ Remembered = known
    BY <1>1, <1>4 DEF Memory, Rewinds, Before, Remembered
  <2>2. past \subseteq Commits
    BY DEF IInv, TypeOK
  <2> QED
    BY <1>2, <2>1, <2>2, Ancestors DEF Above
<1> QED
  BY <1>3, <1>4

LEMMA MigrateKeeps ==
  ASSUME IInv, NEW p \in Procs, Migrate(p)
  PROVE  IInv'
<1>1. CASE Fail(p) /\ pc[p] = "migrate"
  BY <1>1, Failing
<1>2. CASE pc[p] = "migrate" /\ ~(Damaged \in {known, Migrated} /\ Fail(p))
  <2> DEFINE x == IF seen[p].op = "attach" THEN known ELSE Absent
             s == [seen[p] EXCEPT !.prev = x]
  <2>1. /\ Damaged \notin {known, Migrated} /\ known' = Migrated
        /\ seen' = [seen EXCEPT ![p] = s] /\ GoTo(p, "fetch")
        /\ UNCHANGED <<main, tracking, head, tree, legacy, config, binding, lock, since, past,
                       installed, note, rewound, alarmed, cut, edited>>
    BY <1>2, SeenAt DEF Migrate, IInv, repo, history
  <2>2. known \in Memory /\ legacy \in Memory /\ Migrated \in Memory /\ x \in Memory
    BY DEF IInv, TypeOK, Migrated, Memory
  <2>3. Fine(p, seen[p], "migrate") /\ seen[p] \in Seen
    BY <1>2, SeenAt DEF IInv
  <2>4. Alike(seen[p], s, {"prev"}) /\ s.prev = x
    BY <2>2, <2>3, WithPrev
  <2>5. lock = p
    BY <1>2, <2>3, Names DEF IInv, TypeOK, Locking, Fine, Knows
  <2> HIDE DEF s
  <2>6. On(p, "fetch") /\ seen'[p] = s
    BY <1>2, <2>1, <2>4, OnStep DEF Alike, IInv, Steps
  <2>7. TypeOK'
    BY <2>1, <2>2, <2>6, OnTyped DEF IInv, TypeOK, HostTyped
  <2>8. Remembered' = Remembered
    BY <2>1 DEF Remembered, Migrated
  <2>9. Above(Remembered)'
    BY <2>1, <2>8 DEF IInv, Above
  <2>10. Fine(p, seen[p], pc[p])'
    <3>0. pc'[p] = "fetch"
      BY <2>6 DEF On
    <3>1. Knows(seen[p], "fetch")'
      BY <2>3, <2>4, <2>6 DEF Alike, Fine, Knows, Attaching, Writing, Undoing, Looking
    <3>2. Settles(p, "fetch")'
      BY <2>1 DEF Settles, Migrated
    <3>3. Advances(p, seen[p], "fetch")'
      BY <2>1, <2>4, <2>6 DEF Alike, IInv, Advances, Above, Remembered, Writing
    <3>4. Timely(p, seen[p], "fetch")'
      BY <2>1, <2>3, <2>4, <2>6 DEF Alike, Fine, Timely, Fetched
    <3>5. Calm(p, seen[p], "fetch")'
      BY <2>1, <2>3, <2>4, <2>6, Names DEF Alike, IInv, Peace, Fine, Knows, Calm, Behind, Looking
    <3> QED
      BY <3>0, <3>1, <3>2, <3>3, <3>4, <3>5 DEF Fine
  <2>11. ~rewound => Behind(known', tracking)
    BY <2>1 DEF IInv, Peace, Behind, Migrated
  <2> QED
    BY <2>1, <2>5, <2>6, <2>7, <2>9, <2>10, <2>11, KnownKeeps
<1> QED
  BY <1>1, <1>2 DEF Migrate

LEMMA FetchKeeps ==
  ASSUME IInv, NEW p \in Procs, Fetch(p)
  PROVE  IInv'
<1>0. pc[p] = "fetch" /\ Fine(p, seen[p], "fetch") /\ seen[p] \in Seen
  BY SeenAt DEF Fetch, IInv
<1>1. CASE Fail(p)
  BY <1>0, <1>1, Failing
<1>2. CASE tracking' = main
           /\ GoTo(p, IF seen[p].op = "attach" THEN "again" ELSE "ref")
           /\ UNCHANGED <<main, head, tree, host, lock, seen, plan, history, events>>
  <2> DEFINE l == IF seen[p].op = "attach" THEN "again" ELSE "ref"
  <2>1. /\ UNCHANGED <<main, head, tree, known, legacy, config, binding, lock, seen, since, past,
                       installed, note, rewound, alarmed, cut, edited>>
        /\ GoTo(p, l)
    BY <1>2 DEF host, history
  <2>2. On(p, l)
    BY <1>0, <2>1, OnUnread DEF IInv, Steps
  <2>3. TypeOK'
    BY <1>2, <2>1, <2>2, OnTyped DEF IInv, TypeOK, HostTyped
  <2>4. Knows(seen[p], l)
    BY <1>0 DEF Fine, Knows, Attaching, Writing, Undoing, Looking
  <2>5. rewound' = (rewound \/ ~Before(main, main'))
    BY <2>1, Ancestors DEF IInv, TypeOK, Before
  <2>6. ASSUME NEW q \in Procs, pc'[q] # "idle"
        PROVE  /\ pc[q] # "idle" /\ seen'[q] = seen[q]
               /\ since[q] \subseteq since'[q] /\ main' \in since'[q]
               /\ pc'[q] = pc[q] \/ (pc[q] = "fetch" /\ tracking' = main' /\ Knows(seen[q], pc'[q])
                                      /\ pc'[q] \in {"again", "ref"})
    <3>1. pc[q] # "idle"
      BY <1>0, <2>2, <2>6 DEF On
    <3>2. main \in since[q]
      BY <3>1 DEF IInv, Fine, Timely
    <3> QED
      BY <1>0, <1>2, <2>1, <2>2, <2>4, <3>1, <3>2 DEF Alike, On
  <2>7. main' \in Commits /\ tracking' \in {tracking, main'}
    BY <1>2, <2>1 DEF IInv, TypeOK
  <2> QED
    BY <2>1, <2>3, <2>5, <2>6, <2>7, RemoteKeeps
<1>3. CASE Issue(p) /\ GoTo(p, "ref") /\ seen[p].op # "attach"
           /\ UNCHANGED <<repo, host, lock, plan, history>>
  <2> DEFINE s == [seen[p] EXCEPT !.issue = TRUE]
  <2>1. Alike(seen[p], s, {"issue"}) /\ s.issue = TRUE
    BY <1>0, WithIssue
  <2>2. seen' = [seen EXCEPT ![p] = s]
    BY <1>0, <1>3, SeenAt DEF IInv, Issue
  <2> HIDE DEF s
  <2>3. On(p, "ref") /\ seen'[p] = s
    BY <1>0, <1>3, <2>1, <2>2, OnStep DEF Alike, IInv, Steps, history
  <2>4. Fine(p, s, "ref")
    <3>1. Knows(s, "ref")
      BY <1>0, <1>3, <2>1 DEF Alike, Fine, Knows, Attaching, Writing, Undoing, Looking
    <3>2. Settles(p, "ref") /\ Advances(p, s, "ref")
      BY <1>0, <2>1 DEF Alike, Fine, Settles, Advances, Migrating, Writing
    <3>3. Timely(p, s, "ref") /\ Calm(p, s, "ref")
      BY <1>0, <2>1 DEF Alike, Fine, Timely, Calm, Looking
    <3> QED
      BY <3>1, <3>2, <3>3 DEF Fine
  <2> QED
    BY <1>3, <2>3, <2>4, ReadKeeps DEF history
<1> QED
  BY <1>0, <1>1, <1>2, <1>3 DEF Alike, Fetch

LEMMA ReadRefKeeps ==
  ASSUME IInv, NEW p \in Procs, ReadRef(p)
  PROVE  IInv'
<1> DEFINE x == IF seen[p].issue THEN Absent ELSE tracking
           s == [seen[p] EXCEPT !.remote = x]
<1>0. pc[p] = "ref" /\ Fine(p, seen[p], "ref") /\ seen[p] \in Seen
  BY SeenAt DEF ReadRef, IInv
<1>1. x \in Commits \cup {Absent} /\ tracking \in Commits
  BY DEF IInv, TypeOK
<1>2. Alike(seen[p], s, {"remote"}) /\ s.remote = x
  BY <1>0, <1>1, WithRemote
<1>3. seen' = [seen EXCEPT ![p] = s]
  BY <1>0, SeenAt DEF IInv, ReadRef
<1> HIDE DEF s
<1>4. On(p, "status") /\ seen'[p] = s
  BY <1>0, <1>2, <1>3, OnStep DEF Alike, ReadRef, IInv, Steps, history
<1>5. Fine(p, s, "status")
  <2>1. Knows(s, "status")
    BY <1>0, <1>1, <1>2, Names DEF Alike, Fine, Knows, Attaching, Writing, Undoing, Looking
  <2>2. Settles(p, "status") /\ Advances(p, s, "status")
    BY <1>0, <1>2 DEF Alike, Fine, Settles, Advances, Migrating, Writing
  <2>3. Timely(p, s, "status")
    BY <1>0, <1>2 DEF Alike, Fine, Timely, Fetched, Steps
  <2>4. Calm(p, s, "status")
    BY <1>0, <1>1, <1>2, Names, Ancestors DEF Alike, IInv, Peace, Fine, Calm, Behind
  <2> QED
    BY <2>1, <2>2, <2>3, <2>4 DEF Fine
<1> QED
  BY <1>4, <1>5, ReadKeeps DEF ReadRef, history

LEMMA ReadStatusKeeps ==
  ASSUME IInv, NEW p \in Procs, ReadStatus(p)
  PROVE  IInv'
<1> DEFINE s == [seen[p] EXCEPT !.tree = tree]
<1>0. pc[p] = "status" /\ Fine(p, seen[p], "status") /\ seen[p] \in Seen
  BY SeenAt DEF ReadStatus, IInv
<1>1. Alike(seen[p], s, {})
  BY <1>0, WithTree DEF IInv, TypeOK
<1>2. seen' = [seen EXCEPT ![p] = s]
  BY <1>0, SeenAt DEF IInv, ReadStatus
<1> HIDE DEF s
<1>3. On(p, "counts") /\ seen'[p] = s
  BY <1>0, <1>1, <1>2, OnStep DEF Alike, ReadStatus, IInv, Steps, history
<1>4. Fine(p, s, "counts")
  BY <1>0, <1>1 DEF Alike, Fine, Knows, Settles, Advances, Timely, Calm, Attaching, Writing,
                    Undoing, Looking, Migrating, Fetched, Steps
<1> QED
  BY <1>3, <1>4, ReadKeeps DEF ReadStatus, history

LEMMA ReadCountsKeeps ==
  ASSUME IInv, NEW p \in Procs, ReadCounts(p)
  PROVE  IInv'
<1> DEFINE x == ~seen[p].issue /\ ~Before(tracking, head)
           y == ~seen[p].issue /\ ~Before(head, tracking)
           s == [seen[p] EXCEPT !.behind = x, !.ahead = y]
<1>0. pc[p] = "counts" /\ Fine(p, seen[p], "counts") /\ seen[p] \in Seen
  BY SeenAt DEF ReadCounts, IInv
<1>1. Alike(seen[p], s, {})
  <2>1. x \in BOOLEAN /\ y \in BOOLEAN
    OBVIOUS
  <2> HIDE DEF x, y
  <2> QED
    BY <1>0, <2>1, WithCounts
<1>2. seen' = [seen EXCEPT ![p] = s]
  BY <1>0, SeenAt DEF IInv, ReadCounts
<1> HIDE DEF s
<1>3. On(p, "known") /\ seen'[p] = s
  BY <1>0, <1>1, <1>2, OnStep DEF Alike, ReadCounts, IInv, Steps, history
<1>4. Fine(p, s, "known")
  BY <1>0, <1>1 DEF Alike, Fine, Knows, Settles, Advances, Timely, Calm, Attaching, Writing,
                    Undoing, Looking, Migrating, Fetched, Steps
<1> QED
  BY <1>3, <1>4, ReadKeeps DEF ReadCounts, history

(* A rewind that is announced under the lock is one.                       *)
LEMMA AlarmKeeps ==
  ASSUME IInv, NEW p \in Procs, pc[p] # "idle", Alarm(p),
         lock = p => rewound
  PROVE  IInv'
<1>1. alarmed' => rewound
  BY DEF IInv, TypeOK, Peace, Alarm
<1>2. {alarmed', cut', edited'} \subseteq BOOLEAN
  BY DEF IInv, TypeOK, Alarm, Locking
<1> QED
  BY <1>1, <1>2, FailKeeps DEF Alarm

(* A rewind of what is remembered under the lock is one of the remote.     *)
LEMMA RewindTrue ==
  ASSUME IInv, NEW p \in Procs, lock = p, pc[p] \in Migrating, NEW c \in Commits,
         ~rewound => Behind(known, c), Rewinds(known, c)
  PROVE  rewound
<1>1. pc[p] # "idle" /\ known \in Memory
  BY DEF IInv, TypeOK, Migrating, Looking, Writing
<1>2. known # Damaged /\ known # Absent
  BY <1>1 DEF IInv, Fine, Settles, Rewinds
<1> QED
  BY <1>1, <1>2 DEF Behind, Rewinds, Before, Memory

LEMMA CheckKnownKeeps ==
  ASSUME IInv, NEW p \in Procs, CheckKnown(p)
  PROVE  IInv'
<1> DEFINE r == seen[p].remote
           b == Baseline(seen[p].op)
<1>0. pc[p] = "known" /\ Fine(p, seen[p], "known") /\ seen[p] \in Seen
  BY SeenAt DEF CheckKnown, IInv
<1>1. CASE Fail(p)
  BY <1>0, <1>1, Failing
<1>2. lock = p => seen[p].op = "sync" /\ b = known
  BY <1>0, Names DEF IInv, TypeOK, Locking, Fine, Knows, Looking, Baseline, Seen, Ops
<1>3. CASE r # Absent /\ b # Damaged /\ Rewinds(b, r) /\ Alarm(p)
  <2>1. r \in Commits
    BY <1>0, <1>3 DEF Seen
  <2>2. lock = p => rewound
    BY <1>0, <1>2, <1>3, <2>1, RewindTrue DEF Fine, Calm, Looking, Migrating
  <2> QED
    BY <1>0, <1>3, <2>2, AlarmKeeps
<1>4. CASE /\ ~(r # Absent /\ b # Damaged /\ Rewinds(b, r))
           /\ ~((r # Absent /\ b = Damaged) \/ Refused(seen[p]))
           /\ GoTo(p, "passed")
           /\ UNCHANGED <<repo, host, lock, seen, plan, history>>
  <2>1. On(p, "passed") /\ seen'[p] = seen[p]
    BY <1>0, <1>4, OnUnread DEF IInv, Steps, history
  <2>2. seen[p].op # "capture" => ~seen[p].issue
    BY <1>4 DEF Refused
  <2>3. Knows(seen[p], "passed")
    BY <1>0, <2>2 DEF Fine, Knows, Attaching, Writing, Undoing, Looking
  <2>4. Settles(p, "passed")
    BY <1>0 DEF Fine, Settles, Migrating, Looking
  <2>5. Advances(p, seen[p], "passed")
    <3>1. seen[p].op # "attach"
      BY <2>3 DEF Knows
    <3>2. ASSUME seen[p].op = "sync" PROVE Above(r)
      <4>1. lock = p /\ b = known
        BY <1>0, <1>2, <3>2 DEF IInv, TypeOK, Locking
      <4>2. r \in Commits /\ ~Rewinds(known, r)
        BY <1>0, <1>4, <2>2, <2>3, <3>2, <4>1 DEF Knows, Seen
      <4> QED
        BY <1>0, <4>1, <4>2, AboveNext DEF Migrating, Looking
    <3> QED
      BY <3>1, <3>2 DEF Advances, Writing
  <2>6. Timely(p, seen[p], "passed") /\ Calm(p, seen[p], "passed")
    BY <1>0 DEF Fine, Timely, Calm, Fetched, Looking, Steps
  <2> QED
    BY <1>4, <2>1, <2>3, <2>4, <2>5, <2>6, ReadKeeps DEF Fine, history
<1> QED
  BY <1>1, <1>3, <1>4 DEF CheckKnown

LEMMA ReportKeeps ==
  ASSUME IInv, NEW p \in Procs, Report(p)
  PROVE  IInv'
BY Failing DEF Report

(* sync --apply.                                                           *)
LEMMA RecordKeeps ==
  ASSUME IInv, NEW p \in Procs, Record(p)
  PROVE  IInv'
<1> DEFINE r == seen[p].remote
<1>0. pc[p] = "passed" /\ Fine(p, seen[p], "passed") /\ seen[p] \in Seen /\ seen[p].op = "sync"
  BY SeenAt DEF Record, IInv
<1>1. /\ known' = r /\ GoTo(p, "review")
      /\ UNCHANGED <<main, tracking, head, tree, legacy, config, binding, lock, seen, since, past,
                     installed, note, rewound, alarmed, cut, edited>>
  BY DEF Record, repo, history
<1>2. lock = p
  BY <1>0, Names DEF IInv, TypeOK, Locking
<1>3. r \in Commits
  BY <1>0 DEF Fine, Knows, Seen
<1>4. On(p, "review") /\ seen'[p] = seen[p]
  BY <1>0, <1>1, OnUnread DEF IInv, Steps
<1>5. TypeOK'
  BY <1>1, <1>3, <1>4, OnTyped DEF IInv, TypeOK, HostTyped, Memory
<1>6. Above(Remembered)'
  <2>1. Remembered' = r
    BY <1>1, <1>3, Names DEF Remembered
  <2> QED
    BY <1>0, <1>1, <2>1 DEF Fine, Advances, Above
<1>7. Fine(p, seen[p], pc[p])'
  <2>0. pc'[p] = "review"
    BY <1>4 DEF On
  <2>1. Knows(seen[p], "review")'
    BY <1>0, <1>1 DEF Fine, Knows, Attaching, Writing, Undoing, Looking
  <2>2. Settles(p, "review")'
    BY <1>1, <1>3, Names DEF Settles
  <2>3. Advances(p, seen[p], "review")'
    BY <1>0, <1>1 DEF Advances, Writing
  <2>4. Timely(p, seen[p], "review")' /\ Calm(p, seen[p], "review")'
    BY <1>0, <1>1 DEF Fine, Timely, Calm, Behind, Fetched, Looking, Steps
  <2> QED
    BY <2>0, <2>1, <2>2, <2>3, <2>4 DEF Fine
<1>8. ~rewound => Behind(known', tracking)
  BY <1>0, <1>1 DEF Fine, Calm
<1> QED
  BY <1>1, <1>2, <1>4, <1>5, <1>6, <1>7, <1>8, KnownKeeps

LEMMA InstallKeeps ==
  ASSUME IInv, NEW p \in Procs, Install(p)
  PROVE  IInv'
<1>0. pc[p] = "review"
  BY DEF Install
<1>1. CASE Rewinds(known, tracking) /\ Alarm(p)
  <2>1. tracking \in Commits /\ (~rewound => Behind(known, tracking))
    BY DEF IInv, TypeOK, Peace
  <2>2. lock = p => rewound
    BY <1>0, <1>1, <2>1, RewindTrue DEF Migrating
  <2> QED
    BY <1>0, <1>1, <2>2, AlarmKeeps
<1>2. CASE Fail(p)
  BY <1>0, <1>2, Failing
<1>3. CASE /\ installed' = IF tree \in {"clean", "inbox"} THEN head ELSE Damaged
           /\ UNCHANGED <<repo, host, note, rewound, alarmed, cut, edited>>
           /\ Leave(p)
  <2>1. Off(p)
    BY <1>0, <1>3, OffStep DEF IInv
  <2>2. UNCHANGED <<main, tracking, head, tree, known, legacy, config, binding, note, rewound,
                    alarmed, cut, edited>>
    BY <1>3 DEF repo, host
  <2>3. TypeOK'
    BY <1>3, <2>1, <2>2, OffTyped DEF IInv, TypeOK, HostTyped, Memory
  <2>4. Above(Remembered')
    BY <2>2 DEF IInv, Remembered
  <2> QED
    BY <2>1, <2>2, <2>3, <2>4, OffKeeps DEF IInv, Peace, Behind
<1> QED
  BY <1>1, <1>2, <1>3 DEF Install

-----------------------------------------------------------------------------
(* state attach.                                                           *)

LEMMA ValidateKeeps ==
  ASSUME IInv, NEW p \in Procs, Validate(p)
  PROVE  IInv'
<1> DEFINE s == [seen[p] EXCEPT !.adv = main, !.config = config]
<1>0. pc[p] = "validate" /\ Fine(p, seen[p], "validate") /\ seen[p] \in Seen
  BY SeenAt DEF Validate, IInv
<1>1. CASE Fail(p)
  BY <1>0, <1>1, Failing
<1>2. CASE /\ seen' = [seen EXCEPT ![p].adv = main, ![p].config = config]
           /\ GoTo(p, "migrate")
           /\ UNCHANGED <<repo, host, lock, plan, history>>
  <2>1. main \in Commits /\ config \in Config
    BY DEF IInv, TypeOK
  <2>2. Alike(seen[p], s, {"adv"}) /\ s.adv = main /\ s.config = config
    BY <1>0, <2>1 DEF Seen, Alike
  <2>3. seen' = [seen EXCEPT ![p] = s]
    BY <1>0, <1>2, SeenAt DEF IInv
  <2> HIDE DEF s
  <2>4. On(p, "migrate") /\ seen'[p] = s
    BY <1>0, <1>2, <2>2, <2>3, OnStep DEF Alike, IInv, Steps, history
  <2>5. Fine(p, s, "migrate")
    BY <1>0, <2>1, <2>2 DEF Alike, Fine, Knows, Settles, Advances, Timely, Calm, Attaching, Writing,
                            Undoing, Looking, Migrating, Fetched
  <2> QED
    BY <1>2, <2>4, <2>5, ReadKeeps DEF history
<1> QED
  BY <1>1, <1>2 DEF Validate

LEMMA ValidateAgainKeeps ==
  ASSUME IInv, NEW p \in Procs, ValidateAgain(p)
  PROVE  IInv'
<1>0. pc[p] = "again" /\ Fine(p, seen[p], "again") /\ seen[p] \in Seen
  BY SeenAt DEF ValidateAgain, IInv
<1>1. CASE Fail(p)
  BY <1>0, <1>1, Failing
<1>2. CASE GoTo(p, "inspect") /\ UNCHANGED <<repo, host, lock, seen, plan, history>>
  <2>1. On(p, "inspect") /\ seen'[p] = seen[p]
    BY <1>0, <1>2, OnUnread DEF IInv, Steps, history
  <2>2. Fine(p, seen[p], "inspect")
    BY <1>0 DEF Fine, Knows, Settles, Advances, Timely, Calm, Attaching, Writing, Undoing,
                Looking, Migrating, Fetched, Steps
  <2> QED
    BY <1>2, <2>1, <2>2, ReadKeeps DEF history
<1> QED
  BY <1>1, <1>2 DEF ValidateAgain

(* A process that is attaching holds the lock.                             *)
LEMMA AttachLocked ==
  ASSUME IInv, NEW p \in Procs, pc[p] \in Attaching
  PROVE  lock = p /\ seen[p].op = "attach"
BY Names DEF IInv, TypeOK, Locking, Fine, Knows, Attaching, Writing, Undoing

LEMMA InspectAttachKeeps ==
  ASSUME IInv, NEW p \in Procs, InspectAttach(p)
  PROVE  IInv'
<1> DEFINE s == [seen[p] EXCEPT !.remote = seen[p].adv, !.prevBinding = binding]
<1>0. /\ pc[p] = "inspect" /\ Fine(p, seen[p], "inspect") /\ seen[p] \in Seen
      /\ lock = p /\ seen[p].op = "attach"
  BY SeenAt, AttachLocked DEF InspectAttach, IInv, Attaching
<1>1. tracking \in Commits /\ binding \in Binding \cup {Absent}
  BY DEF IInv, TypeOK
<1>2. CASE Rewinds(known, tracking) /\ Alarm(p)
  <2>1. rewound
    BY <1>0, <1>1, <1>2, RewindTrue DEF IInv, Peace, Migrating
  <2> QED
    BY <1>0, <1>2, <2>1, AlarmKeeps
<1>3. CASE Fail(p)
  BY <1>0, <1>3, Failing
<1>4. CASE /\ ~Rewinds(known, tracking) /\ tracking = seen[p].adv
           /\ seen' = [seen EXCEPT ![p].remote = seen[p].adv, ![p].prevBinding = binding]
           /\ GoTo(p, "config")
           /\ UNCHANGED <<repo, host, lock, plan, history>>
  <2>1. Alike(seen[p], s, {"remote", "binding"}) /\ s.remote = tracking
    BY <1>0, <1>1, <1>4 DEF Seen, Alike
  <2>2. seen' = [seen EXCEPT ![p] = s]
    BY <1>0, <1>4, SeenAt DEF IInv
  <2> HIDE DEF s
  <2>3. On(p, "config") /\ seen'[p] = s
    BY <1>0, <1>4, <2>1, <2>2, OnStep DEF Alike, IInv, Steps, history
  <2>4. Knows(s, "config") /\ Settles(p, "config")
    BY <1>0, <1>4, <2>1 DEF Alike, Fine, Knows, Settles, Attaching, Writing, Undoing, Looking, Migrating
  <2>5. Advances(p, s, "config")
    <3>1. Above(tracking)
      BY <1>0, <1>1, <1>4, AboveNext DEF Migrating
    <3> QED
      BY <1>0, <1>4, <2>1, <3>1 DEF Alike, Fine, Advances, Migrating
  <2>6. Timely(p, s, "config") /\ Calm(p, s, "config")
    BY <1>0, <1>1, <1>4, <2>1, Ancestors
    DEF Alike, Fine, Knows, Timely, Calm, Behind, Fetched, Looking, Steps
  <2> QED
    BY <1>4, <2>3, <2>4, <2>5, <2>6, ReadKeeps DEF Fine, history
<1> QED
  BY <1>2, <1>3, <1>4 DEF InspectAttach

(* The files are written and taken back.  What a writing process knows.    *)
LEMMA WritingKnows ==
  ASSUME IInv, NEW p \in Procs, pc[p] \in Writing \cup Undoing
  PROVE  /\ Fine(p, seen[p], pc[p]) /\ pc[p] # "idle" /\ seen[p] \in Seen
         /\ lock = p /\ seen[p].op = "attach"
         /\ seen[p].adv \in Commits /\ seen[p].config \in Config
BY SeenAt, AttachLocked DEF IInv, Fine, Knows, Attaching, Writing, Undoing

LEMMA WriteConfigKeeps ==
  ASSUME IInv, NEW p \in Procs, WriteConfig(p) \/ WriteBinding(p)
  PROVE  IInv'
<1>1. CASE WriteConfig(p)
  <2>0. pc[p] = "config"
    BY <1>1 DEF WriteConfig
  <2>1. /\ UNCHANGED <<main, tracking, head, tree, known, legacy, binding, lock, seen, since, past,
                       installed, note, rewound, alarmed, cut, edited>>
        /\ GoTo(p, "binding") /\ config' = Rendered(p)
    BY <1>1 DEF WriteConfig, repo, history
  <2>2. On(p, "binding") /\ seen'[p] = seen[p]
    BY <2>0, <2>1, OnUnread DEF IInv, Steps
  <2>3. config' \in Config
    BY <2>0, <2>1, WritingKnows DEF Rendered, Config, Roots, Writing
  <2>4. TypeOK'
    BY <2>1, <2>2, <2>3, OnTyped DEF IInv, TypeOK, HostTyped
  <2>5. Fine(p, seen[p], "binding")
    BY <2>0, WritingKnows DEF Fine, Knows, Settles, Advances, Timely, Calm, Attaching, Writing,
                              Undoing, Looking, Migrating, Fetched, Steps
  <2> QED
    BY <2>1, <2>2, <2>4, <2>5, OnKeeps
<1>2. CASE WriteBinding(p)
  <2>0. pc[p] = "binding"
    BY <1>2 DEF WriteBinding
  <2>1. /\ UNCHANGED <<main, tracking, head, tree, known, legacy, config, lock, seen, since, past,
                       installed, note, rewound, alarmed, cut, edited>>
        /\ GoTo(p, "remote") /\ binding' = [rev |-> seen[p].adv, config |-> Rendered(p)]
    BY <1>2 DEF WriteBinding, repo, history
  <2>2. On(p, "remote") /\ seen'[p] = seen[p]
    BY <2>0, <2>1, OnUnread DEF IInv, Steps
  <2>3. binding' \in Binding
    BY <2>0, <2>1, WritingKnows DEF Rendered, Config, Roots, Writing, Binding
  <2>4. TypeOK'
    BY <2>1, <2>2, <2>3, OnTyped DEF IInv, TypeOK, HostTyped
  <2>5. Fine(p, seen[p], "remote")
    BY <2>0, WritingKnows DEF Fine, Knows, Settles, Advances, Timely, Calm, Attaching, Writing,
                              Undoing, Looking, Migrating, Fetched, Steps
  <2> QED
    BY <2>1, <2>2, <2>4, <2>5, OnKeeps
<1> QED
  BY <1>1, <1>2

LEMMA WriteRemoteKeeps ==
  ASSUME IInv, NEW p \in Procs, WriteRemote(p)
  PROVE  IInv'
<1>0. pc[p] = "remote"
  BY DEF WriteRemote
<1>1. /\ UNCHANGED <<main, tracking, head, tree, legacy, config, binding, lock, seen, since, past,
                     installed, note, rewound, alarmed, cut, edited>>
      /\ GoTo(p, "confirm") /\ known' = seen[p].adv
  BY DEF WriteRemote, repo, history
<1>2. /\ Fine(p, seen[p], "remote") /\ lock = p /\ seen[p].op = "attach"
      /\ seen[p].adv \in Commits /\ seen[p].remote = seen[p].adv
  BY <1>0, WritingKnows DEF Writing, Fine, Knows
<1>3. On(p, "confirm") /\ seen'[p] = seen[p]
  BY <1>0, <1>1, OnUnread DEF IInv, Steps
<1>4. TypeOK'
  BY <1>1, <1>2, <1>3, OnTyped DEF IInv, TypeOK, HostTyped, Memory
<1>5. Above(Remembered)'
  <2>1. Remembered' = seen[p].adv
    BY <1>1, <1>2, Names DEF Remembered
  <2> QED
    BY <1>1, <1>2, <2>1 DEF Fine, Advances, Above, Writing
<1>6. Fine(p, seen[p], pc[p])'
  <2>0. pc'[p] = "confirm"
    BY <1>3 DEF On
  <2>1. Knows(seen[p], "confirm")' /\ Settles(p, "confirm")'
    BY <1>1, <1>2, Names DEF Fine, Knows, Settles, Attaching, Writing, Undoing, Looking
  <2>2. Advances(p, seen[p], "confirm")'
    BY <1>1, <1>2 DEF Fine, Advances, Above, Migrating, Writing
  <2>3. Timely(p, seen[p], "confirm")' /\ Calm(p, seen[p], "confirm")'
    BY <1>1, <1>2 DEF Fine, Timely, Calm, Behind, Fetched, Looking, Steps
  <2> QED
    BY <2>0, <2>1, <2>2, <2>3 DEF Fine
<1>7. ~rewound => Behind(known', tracking)
  BY <1>1, <1>2 DEF Fine, Calm
<1> QED
  BY <1>1, <1>2, <1>3, <1>4, <1>5, <1>6, <1>7, KnownKeeps

LEMMA WriteFailsKeeps ==
  ASSUME IInv, NEW p \in Procs, WriteFails(p)
  PROVE  IInv'
<1>0. pc[p] \in Writing
  BY DEF WriteFails
<1>1. On(p, "undo remote") /\ seen'[p] = seen[p]
  BY <1>0, OnUnread, WritingKnows DEF WriteFails, IInv, Steps, history
<1>2. Fine(p, seen[p], "undo remote")
  BY <1>0, WritingKnows DEF Fine, Knows, Settles, Advances, Timely, Calm, Attaching, Writing,
                            Undoing, Looking, Migrating, Fetched, Steps
<1> QED
  BY <1>1, <1>2, ReadKeeps DEF WriteFails, history

LEMMA UndoRemoteKeeps ==
  ASSUME IInv, NEW p \in Procs, UndoRemote(p)
  PROVE  IInv'
<1>0. pc[p] = "undo remote"
  BY DEF UndoRemote
<1>1. /\ UNCHANGED <<main, tracking, head, tree, legacy, config, binding, lock, seen, since, past,
                     installed, note, rewound, alarmed, cut, edited>>
      /\ GoTo(p, "undo binding") /\ known' = seen[p].prev
  BY DEF UndoRemote, repo, history
<1>2. /\ Fine(p, seen[p], "undo remote") /\ seen[p] \in Seen /\ lock = p /\ seen[p].op = "attach"
  BY <1>0, WritingKnows DEF Undoing
<1>3. On(p, "undo binding") /\ seen'[p] = seen[p]
  BY <1>0, <1>1, OnUnread DEF IInv, Steps
<1>4. TypeOK'
  BY <1>1, <1>2, <1>3, OnTyped DEF IInv, TypeOK, HostTyped, Seen
<1>5. Above(Remembered)'
  BY <1>1, <1>2 DEF Fine, Advances, Above, Remembered, Migrating
<1>6. Fine(p, seen[p], pc[p])'
  <2>0. pc'[p] = "undo binding"
    BY <1>3 DEF On
  <2>1. Knows(seen[p], "undo binding")'
    BY <1>1, <1>2 DEF Fine, Knows, Attaching, Writing, Undoing, Looking
  <2>2. Settles(p, "undo binding")' /\ Advances(p, seen[p], "undo binding")'
    BY DEF Settles, Advances, Migrating, Writing, Looking
  <2>3. Timely(p, seen[p], "undo binding")' /\ Calm(p, seen[p], "undo binding")'
    BY <1>1, <1>2 DEF Fine, Timely, Calm, Behind, Fetched, Looking, Steps
  <2> QED
    BY <2>0, <2>1, <2>2, <2>3 DEF Fine
<1>7. ~rewound => Behind(known', tracking)
  BY <1>1, <1>2 DEF Fine, Calm
<1> QED
  BY <1>1, <1>2, <1>3, <1>4, <1>5, <1>6, <1>7, KnownKeeps

LEMMA UndoBindingKeeps ==
  ASSUME IInv, NEW p \in Procs, UndoBinding(p)
  PROVE  IInv'
<1>0. pc[p] = "undo binding"
  BY DEF UndoBinding
<1>1. /\ UNCHANGED <<main, tracking, head, tree, known, legacy, config, lock, seen, since, past,
                     installed, note, rewound, alarmed, cut, edited>>
      /\ GoTo(p, "undo config") /\ binding' = seen[p].prevBinding
  BY DEF UndoBinding, repo, history
<1>2. On(p, "undo config") /\ seen'[p] = seen[p]
  BY <1>0, <1>1, OnUnread DEF IInv, Steps
<1>3. binding' \in Binding \cup {Absent}
  BY <1>0, <1>1, WritingKnows DEF Undoing, Seen
<1>4. TypeOK'
  BY <1>1, <1>2, <1>3, OnTyped DEF IInv, TypeOK, HostTyped
<1>5. Fine(p, seen[p], "undo config")
  BY <1>0, WritingKnows DEF Fine, Knows, Settles, Advances, Timely, Calm, Attaching, Writing,
                            Undoing, Looking, Migrating, Fetched, Steps
<1> QED
  BY <1>1, <1>2, <1>4, <1>5, OnKeeps

LEMMA UndoConfigKeeps ==
  ASSUME IInv, NEW p \in Procs, UndoConfig(p)
  PROVE  IInv'
<1>0. pc[p] = "undo config"
  BY DEF UndoConfig
<1>1. /\ UNCHANGED <<main, tracking, head, tree, known, legacy, binding, installed, note,
                     rewound, alarmed, cut, edited>>
      /\ Leave(p) /\ config' = seen[p].config
  BY DEF UndoConfig, repo
<1>2. Off(p)
  BY <1>0, <1>1, OffStep DEF IInv
<1>3. config' \in Config
  BY <1>0, <1>1, WritingKnows DEF Undoing
<1>4. TypeOK'
  BY <1>1, <1>2, <1>3, OffTyped DEF IInv, TypeOK, HostTyped
<1>5. Above(Remembered')
  BY <1>1 DEF IInv, Remembered
<1> QED
  BY <1>1, <1>2, <1>4, <1>5, OffKeeps DEF IInv, Peace, Behind

(* It is done, or it is cut off.                                           *)
LEMMA AttachEnds ==
  ASSUME IInv, NEW p \in Procs, Attached(p) \/ UndoFails(p) \/ Interrupt(p)
  PROVE  IInv'
<1>1. pc[p] # "idle" /\ Leave(p) /\ UNCHANGED <<repo, host, installed, note, rewound, alarmed>>
  BY DEF Attached, UndoFails, Interrupt, Undoing
<1>2. {cut', edited'} \subseteq BOOLEAN
  BY DEF IInv, TypeOK, Attached, UndoFails, Interrupt
<1> QED
  BY <1>1, <1>2, FailKeeps DEF IInv, TypeOK, Peace

-----------------------------------------------------------------------------
(* Other hosts, and the user.                                              *)

LEMMA RemoteMovesKeeps ==
  ASSUME IInv, NEW c \in Commits, RemoteMoves(c)
  PROVE  IInv'
<1>1. /\ UNCHANGED <<tracking, head, tree, known, legacy, config, binding, lock, pc, seen, past,
                     installed, note, alarmed, cut, edited>>
      /\ main' = c /\ rewound' = (rewound \/ ~Before(main, c))
      /\ since' = [p \in Procs |-> IF pc[p] = "idle" THEN {} ELSE since[p] \cup {c}]
  BY DEF RemoteMoves, host, control
<1>2. rewound' \in BOOLEAN
  BY <1>1 DEF IInv, TypeOK, Before
<1>3. since' \in [Procs -> SUBSET Commits]
  BY <1>1 DEF IInv, TypeOK
<1>4. TypeOK'
  BY <1>1, <1>2, <1>3 DEF IInv, TypeOK, Locking
<1>5. \A q \in Procs : pc'[q] # "idle" =>
        /\ pc[q] # "idle" /\ seen'[q] = seen[q] /\ pc'[q] = pc[q]
        /\ since[q] \subseteq since'[q] /\ main' \in since'[q]
  BY <1>1
<1> QED
  BY <1>1, <1>4, <1>5, RemoteKeeps

LEMMA UserFetchKeeps ==
  ASSUME IInv, UserFetch
  PROVE  IInv'
<1>1. /\ UNCHANGED <<main, head, tree, known, legacy, config, binding, lock, pc, seen, past, since,
                     installed, note, rewound, alarmed, cut, edited>>
      /\ tracking' = main
  BY DEF UserFetch, host, control, history
<1>2. TypeOK'
  BY <1>1 DEF IInv, TypeOK, Locking
<1>3. rewound' = (rewound \/ ~Before(main, main')) /\ main' \in Commits
  BY <1>1, Ancestors DEF IInv, TypeOK, Before
<1>4. \A q \in Procs : pc'[q] # "idle" =>
        /\ pc[q] # "idle" /\ seen'[q] = seen[q] /\ pc'[q] = pc[q]
        /\ since[q] \subseteq since'[q] /\ main' \in since'[q]
  BY <1>1 DEF IInv, Fine, Timely
<1> QED
  BY <1>1, <1>2, <1>3, <1>4, RemoteKeeps

LEMMA UserGitKeeps ==
  ASSUME IInv, NEW c \in Commits, NEW t \in Trees, UserGit(c, t)
  PROVE  IInv'
<1>1. /\ UNCHANGED <<main, tracking, known, legacy, config, binding, lock, pc, seen, past, since,
                     installed, note, rewound, alarmed, cut, edited>>
      /\ head' = c /\ tree' = t
  BY DEF UserGit, host, control, history
<1>2. TypeOK'
  BY <1>1 DEF IInv, TypeOK, Locking
<1> QED
  BY <1>1, <1>2, AsideKeeps

LEMMA EditConfigKeeps ==
  ASSUME IInv, NEW r \in Roots, EditConfig(r)
  PROVE  IInv'
<1>1. /\ UNCHANGED <<main, tracking, head, tree, known, legacy, binding, lock, pc, seen, past, since,
                     installed, rewound, alarmed, cut>>
      /\ config' = [root |-> r, note |-> 1 - note] /\ note' = 1 - note /\ edited' = TRUE
  BY DEF EditConfig, repo, control
<1>2. note' \in Notes
  BY <1>1 DEF IInv, TypeOK, Notes
<1>3. config' \in Config
  BY <1>1, <1>2 DEF Config
<1>4. TypeOK'
  BY <1>1, <1>2, <1>3 DEF IInv, TypeOK, Locking
<1> QED
  BY <1>1, <1>4, AsideKeeps

-----------------------------------------------------------------------------
(* Every step of a command preserves the invariant.                        *)
LEMMA StepKeeps ==
  ASSUME IInv, NEW p \in Procs, Step(p)
  PROVE  IInv'
<1>1. CASE Preview(p) \/ \E o \in Ops : Start(p, o)
  BY <1>1, PreviewKeeps, StartKeeps
<1>2. CASE Migrate(p) \/ Fetch(p) \/ ReadRef(p) \/ ReadStatus(p) \/ ReadCounts(p)
  BY <1>2, MigrateKeeps, FetchKeeps, ReadRefKeeps, ReadStatusKeeps, ReadCountsKeeps
<1>3. CASE CheckKnown(p) \/ Report(p) \/ Record(p) \/ Install(p)
  BY <1>3, CheckKnownKeeps, ReportKeeps, RecordKeeps, InstallKeeps
<1>4. CASE Validate(p) \/ ValidateAgain(p) \/ InspectAttach(p)
  BY <1>4, ValidateKeeps, ValidateAgainKeeps, InspectAttachKeeps
<1>5. CASE WriteConfig(p) \/ WriteBinding(p) \/ WriteRemote(p) \/ WriteFails(p)
  BY <1>5, WriteConfigKeeps, WriteRemoteKeeps, WriteFailsKeeps
<1>6. CASE UndoRemote(p) \/ UndoBinding(p) \/ UndoConfig(p)
  BY <1>6, UndoRemoteKeeps, UndoBindingKeeps, UndoConfigKeeps
<1>7. CASE Attached(p) \/ UndoFails(p) \/ Interrupt(p)
  BY <1>7, AttachEnds
<1> QED
  BY <1>1, <1>2, <1>3, <1>4, <1>5, <1>6, <1>7 DEF Step

(* So does every step of the system, and a step in which nothing changes.  *)
LEMMA NextKeeps ==
  ASSUME IInv, [Next]_vars
  PROVE  IInv'
<1>1. CASE \E p \in Procs : Step(p)
  BY <1>1, StepKeeps
<1>2. CASE Outside
  BY <1>2, RemoteMovesKeeps, UserFetchKeeps, UserGitKeeps, EditConfigKeeps DEF Outside
<1>3. CASE UNCHANGED vars
  <2>1. UNCHANGED <<main, tracking, head, tree, known, legacy, config, binding, lock, pc, seen, past,
                    since, installed, note, rewound, alarmed, cut, edited>>
    BY <1>3 DEF vars, repo, host, control, history
  <2>2. TypeOK'
    BY <2>1 DEF IInv, TypeOK, Locking
  <2> QED
    BY <2>1, <2>2, AsideKeeps
<1> QED
  BY <1>1, <1>2, <1>3 DEF Next

(* The inductive invariant holds in every state of every behaviour, for    *)
(* any number of processes and with every race window open.                *)
THEOREM Invariant == Spec => []IInv
<1>1. Init => IInv
  BY InitInv
<1>2. IInv /\ [Next]_vars => IInv'
  BY NextKeeps
<1> QED
  BY <1>1, <1>2, PTL DEF Spec

(* The variables have their types, and the lock is held exactly by the     *)
(* process inside sync or attach.                                          *)
THEOREM TypeCorrect == Spec => []TypeOK
<1>1. IInv => TypeOK
  BY DEF IInv
<1> QED
  BY <1>1, Invariant, PTL

(* What the host remembers of the remote only moves forward: migration,    *)
(* record_remote_head, attach, its rollback and a death never lose ground. *)
THEOREM NeverGoesBack == Spec => []RememberedOnlyForward
<1>1. IInv => RememberedOnlyForward
  BY DEF IInv, Above, RememberedOnlyForward, Before
<1> QED
  BY <1>1, Invariant, PTL

(* A command that require_fresh lets pass has its remote commit from a     *)
(* fetch of its own time; only capture passes without one.                 *)
THEOREM PassesFetched == Spec => []FetchedRemote
<1>1. ASSUME IInv PROVE FetchedRemote
  <2>1. SUFFICES ASSUME NEW p \in Procs,
                        pc[p] \in {"passed", "config", "binding", "remote"}
                 PROVE  /\ seen[p].remote # Absent => seen[p].remote \in since[p]
                        /\ pc[p] = "passed" /\ seen[p].remote = Absent => seen[p].op = "capture"
    BY DEF FetchedRemote
  <2>2. Fine(p, seen[p], pc[p])
    BY <1>1, <2>1 DEF IInv
  <2> QED
    BY <2>1, <2>2 DEF Fine, Knows, Timely, Looking
<1> QED
  BY <1>1, Invariant, PTL

(* FAIL_REMOTE_REWIND under the lock means that the remote's branch did    *)
(* move to a commit that does not descend from the one before.             *)
THEOREM AlarmsTrue == Spec => []AlarmTrue
<1>1. IInv => AlarmTrue
  BY DEF IInv, Peace, AlarmTrue
<1> QED
  BY <1>1, Invariant, PTL

-----------------------------------------------------------------------------
(* The second part: what attach leaves in the host's files.                *)

(* The steps at which attach has compared the configuration, and those at  *)
(* which its files are half written.                                       *)
Touching == Writing \cup Undoing
Guarded  == {"inspect"} \cup Touching

(* A receipt b goes with the configuration c.                              *)
Agrees(b, c) == b # Absent => b.rev \in past /\ (~edited => b.config = c)

(* What a process that has compared the configuration can count on.        *)
Holds(p) ==
  /\ seen[p].config.note = note
  /\ pc[p] = "inspect" => config = seen[p].config
  /\ pc[p] \in Touching /\ ~cut => Agrees(seen[p].prevBinding, seen[p].config)
  /\ pc[p] \in {"binding", "remote", "confirm"} => config = Rendered(p)
  /\ pc[p] \in {"remote", "confirm"} => binding = [rev |-> seen[p].adv, config |-> Rendered(p)]
  /\ pc[p] = "confirm" => known = seen[p].adv
  /\ pc[p] = "undo config" => binding = seen[p].prevBinding

BInv ==
  /\ config.note = note
  /\ ~cut /\ (\A p \in Procs : pc[p] \notin Touching) => Agrees(binding, config)
  /\ \A p \in Procs : pc[p] \in Guarded => Holds(p)

-----------------------------------------------------------------------------
(* Only one process is inside attach.                                      *)
LEMMA Alone ==
  ASSUME IInv, NEW p \in Procs, pc[p] \in Attaching, NEW q \in Procs, q # p
  PROVE  pc[q] \notin Attaching
BY AttachLocked

(* A step that leaves the files alone, and begins no writing.              *)
LEMMA FilesKept ==
  ASSUME IInv, BInv, UNCHANGED <<config, binding, note, edited, cut>>,
         past \subseteq past',
         \A q \in Procs : pc[q] \in Touching => pc'[q] = pc[q],
         \A q \in Procs : pc'[q] \in Guarded =>
           pc[q] = pc'[q] /\ seen'[q] = seen[q] /\ (pc[q] = "confirm" => known' = known)
  PROVE  BInv'
<1>1. (~cut /\ (\A p \in Procs : pc[p] \notin Touching) => Agrees(binding, config))'
  BY DEF BInv, Agrees
<1>2. ASSUME NEW q \in Procs, pc'[q] \in Guarded PROVE Holds(q)'
  <2>1. Holds(q) /\ pc'[q] = pc[q] /\ seen'[q] = seen[q] /\ (pc[q] = "confirm" => known' = known)
    BY <1>2 DEF BInv
  <2> QED
    BY <2>1 DEF Holds, Agrees, Rendered
<1> QED
  BY <1>1, <1>2 DEF BInv

(* A command that ends with nothing half written.                          *)
LEMMA FailBinds ==
  ASSUME IInv, BInv, NEW p \in Procs, pc[p] # "idle", pc[p] \notin Touching, Leave(p),
         UNCHANGED <<host, note, edited, cut>>
  PROVE  BInv'
<1>1. Off(p)
  BY OffStep DEF IInv
<1>2. UNCHANGED <<known, config, binding, note, edited, cut>>
  BY DEF host
<1>3. "idle" \notin Guarded
  BY DEF Guarded, Touching, Writing, Undoing
<1> QED
  BY <1>1, <1>2, <1>3, FilesKept DEF Off

(* A command that goes on, before it has compared the configuration.       *)
LEMMA GoBinds ==
  ASSUME IInv, BInv, NEW p \in Procs, pc[p] \notin Touching, NEW l \in Steps \ Guarded, GoTo(p, l),
         \A q \in Procs : q # p => seen'[q] = seen[q],
         known' = known \/ lock = p,
         UNCHANGED <<config, binding, note, edited, cut, past>>
  PROVE  BInv'
<1>1. pc'[p] = l /\ \A q \in Procs : q # p => pc'[q] = pc[q]
  BY DEF GoTo, IInv, TypeOK
<1>2. ASSUME NEW q \in Procs, pc[q] = "confirm" PROVE lock = q
  BY <1>2, AttachLocked DEF Attaching, Writing
<1>3. \A q \in Procs : pc'[q] \in Guarded =>
        pc[q] = pc'[q] /\ seen'[q] = seen[q] /\ (pc[q] = "confirm" => known' = known)
  BY <1>1, <1>2
<1> QED
  BY <1>1, <1>3, FilesKept

LEMMA ReadingBinds ==
  ASSUME IInv, BInv, NEW p \in Procs,
         \/ Preview(p) \/ \E o \in Ops : Start(p, o)
         \/ Migrate(p) \/ Fetch(p) \/ ReadRef(p) \/ ReadStatus(p) \/ ReadCounts(p)
         \/ CheckKnown(p) \/ Report(p) \/ Record(p) \/ Install(p) \/ Validate(p)
  PROVE  BInv'
<1>0. /\ {"idle", "migrate", "fetch", "ref", "status", "counts", "known", "passed", "review",
          "validate", "again"} \subseteq Steps \ Guarded
      /\ Touching \subseteq Guarded
  BY DEF Guarded, Touching, Writing, Undoing, Steps
<1>1. CASE Preview(p)
  BY <1>1, FilesKept DEF Preview, host, history
<1>2. ASSUME NEW o \in Ops, Start(p, o) PROVE BInv'
  <2> DEFINE l == CASE o = "sync" -> "migrate" [] o = "attach" -> "validate" [] OTHER -> "fetch"
  <2>1. pc[p] = "idle" /\ l \in {"migrate", "validate", "fetch"} /\ GoTo(p, l)
    BY <1>2 DEF Start
  <2>2. /\ \A q \in Procs : q # p => seen'[q] = seen[q]
        /\ UNCHANGED <<known, config, binding, note, edited, cut, past>>
    BY <1>2 DEF Start, host, IInv, TypeOK
  <2> HIDE DEF l
  <2> QED
    BY <1>0, <2>1, <2>2, GoBinds
<1>3. CASE Migrate(p)
  <2>1. pc[p] = "migrate"
    BY <1>3 DEF Migrate
  <2>2. CASE Fail(p)
    BY <1>0, <2>1, <2>2, FailBinds DEF Fail
  <2>3. CASE ~Fail(p)
    <3>1. GoTo(p, "fetch") /\ UNCHANGED <<config, binding, note, edited, cut, past>>
      BY <1>3, <2>3 DEF Migrate, history
    <3>2. \A q \in Procs : q # p => seen'[q] = seen[q]
      BY <1>3, <2>3 DEF Migrate, IInv, TypeOK
    <3>3. lock = p
      BY <2>1, Names DEF IInv, TypeOK, Locking, Fine, Knows
    <3> QED
      BY <1>0, <2>1, <3>1, <3>2, <3>3, GoBinds
  <2> QED
    BY <2>2, <2>3
<1>4. CASE Fetch(p)
  <2>1. pc[p] = "fetch"
    BY <1>4 DEF Fetch
  <2>2. CASE Fail(p)
    BY <1>0, <2>1, <2>2, FailBinds DEF Fail
  <2>3. CASE ~Fail(p)
    <3>1. PICK l \in {"again", "ref"} : GoTo(p, l)
      BY <1>4, <2>3 DEF Fetch
    <3>2. /\ UNCHANGED <<known, config, binding, note, edited, cut, past>>
          /\ \A q \in Procs : q # p => seen'[q] = seen[q]
      BY <1>4, <2>3 DEF Fetch, Issue, host, history, IInv, TypeOK
    <3> QED
      BY <1>0, <2>1, <3>1, <3>2, GoBinds
  <2> QED
    BY <2>2, <2>3
<1>5. CASE ReadRef(p) \/ ReadStatus(p) \/ ReadCounts(p)
  <2>1. PICK l \in {"status", "counts", "known"} : GoTo(p, l)
    BY <1>5 DEF ReadRef, ReadStatus, ReadCounts
  <2>2. pc[p] \in {"ref", "status", "counts"}
    BY <1>5 DEF ReadRef, ReadStatus, ReadCounts
  <2>3. /\ UNCHANGED <<known, config, binding, note, edited, cut, past>>
        /\ \A q \in Procs : q # p => seen'[q] = seen[q]
    BY <1>5 DEF ReadRef, ReadStatus, ReadCounts, host, history, IInv, TypeOK
  <2> QED
    BY <1>0, <2>1, <2>2, <2>3, GoBinds
<1>6. CASE CheckKnown(p) \/ Report(p) \/ Install(p)
  <2>1. pc[p] \in {"known", "passed", "review"}
    BY <1>6 DEF CheckKnown, Report, Install
  <2>2. CASE Leave(p) /\ UNCHANGED <<host, note, edited, cut>>
    BY <1>0, <2>1, <2>2, FailBinds
  <2>3. CASE GoTo(p, "passed") /\ UNCHANGED <<host, seen, history>>
    BY <1>0, <2>1, <2>3, GoBinds DEF host, history
  <2> QED
    BY <1>6, <2>2, <2>3 DEF CheckKnown, Report, Install, Alarm, Fail
<1>7. CASE Record(p)
  <2>1. lock = p
    BY <1>7, Names DEF Record, IInv, TypeOK, Locking
  <2> QED
    BY <1>0, <1>7, <2>1, GoBinds DEF Record, history
<1>8. CASE Validate(p)
  <2>1. pc[p] = "validate"
    BY <1>8 DEF Validate
  <2>2. CASE Fail(p)
    BY <1>0, <2>1, <2>2, FailBinds DEF Fail
  <2>3. CASE ~Fail(p)
    <3>1. GoTo(p, "migrate") /\ UNCHANGED <<known, config, binding, note, edited, cut, past>>
      BY <1>8, <2>3 DEF Validate, host, history
    <3>2. \A q \in Procs : q # p => seen'[q] = seen[q]
      BY <1>8, <2>3 DEF Validate, IInv, TypeOK
    <3> QED
      BY <1>0, <2>1, <3>1, <3>2, GoBinds
  <2> QED
    BY <2>2, <2>3
<1> QED
  BY <1>1, <1>2, <1>3, <1>4, <1>5, <1>6, <1>7, <1>8

-----------------------------------------------------------------------------
(* state attach: one step to the next, and the end.                        *)

LEMMA AttachGoes ==
  ASSUME IInv, BInv, NEW p \in Procs, pc[p] \in Attaching, pc'[p] \in Touching,
         \A q \in Procs : q # p => pc'[q] = pc[q],
         config'.note = note', Holds(p)'
  PROVE  BInv'
<1>1. ASSUME NEW q \in Procs, pc'[q] \in Guarded PROVE q = p
  BY <1>1, Alone DEF Attaching, Guarded, Touching
<1> QED
  BY <1>1 DEF BInv

LEMMA AttachLeaves ==
  ASSUME IInv, BInv, NEW p \in Procs, pc[p] \in Attaching, pc'[p] = "idle",
         \A q \in Procs : q # p => pc'[q] = pc[q],
         config'.note = note', ~cut' => Agrees(binding, config)'
  PROVE  BInv'
<1>1. \A q \in Procs : pc'[q] \notin Guarded
  BY Alone DEF Attaching, Guarded, Touching, Writing, Undoing
<1> QED
  BY <1>1 DEF BInv

(* A process that writes or takes back its files: the others are           *)
(* elsewhere, and it has read nothing new.                                 *)
LEMMA TouchingGoes ==
  ASSUME IInv, BInv, NEW p \in Procs, pc[p] \in Touching, NEW l \in Touching, GoTo(p, l),
         UNCHANGED <<seen, note, edited, cut, past>>,
         config'.note = note,
         l \in {"binding", "remote", "confirm"} => config' = Rendered(p),
         l \in {"remote", "confirm"} => binding' = [rev |-> seen[p].adv, config |-> Rendered(p)],
         l = "confirm" => known' = seen[p].adv,
         l = "undo config" => binding' = seen[p].prevBinding
  PROVE  BInv'
<1>1. pc'[p] = l /\ \A q \in Procs : q # p => pc'[q] = pc[q]
  BY DEF GoTo, IInv, TypeOK
<1>2. Holds(p) /\ l # "inspect"
  BY DEF BInv, Guarded, Touching, Writing, Undoing
<1>3. Holds(p)'
  BY <1>1, <1>2 DEF Holds, Agrees, Rendered
<1> QED
  BY <1>1, <1>3, AttachGoes DEF Attaching, Touching

LEMMA ValidateAgainBinds ==
  ASSUME IInv, BInv, NEW p \in Procs, ValidateAgain(p)
  PROVE  BInv'
<1>0. pc[p] = "again" /\ "again" \notin Guarded
  BY DEF ValidateAgain, Guarded, Touching, Writing, Undoing
<1>1. CASE Fail(p)
  BY <1>0, <1>1, FailBinds DEF Fail, Guarded
<1>2. CASE Snapshot /\ SameAttach(p) /\ GoTo(p, "inspect") /\ UNCHANGED <<repo, host, lock, seen, plan, history>>
  <2>1. /\ pc'[p] = "inspect" /\ \A q \in Procs : q # p => pc'[q] = pc[q]
        /\ UNCHANGED <<known, config, binding, note, edited, cut, past, seen>>
        /\ config = seen[p].config
    BY <1>2 DEF GoTo, IInv, TypeOK, host, history, SameAttach
  <2>2. "inspect" \notin Touching
    BY DEF Touching, Writing, Undoing
  <2>3. Holds(p)'
    BY <2>1, <2>2 DEF Holds, BInv
  <2>4. \A q \in Procs : pc'[q] \in Guarded => q = p
    BY <1>0, <2>1, Alone DEF Attaching, Guarded, Touching
  <2>5. ~cut' => Agrees(binding, config)'
    BY <1>0, <2>1, <2>4 DEF BInv, Agrees, Guarded
  <2> QED
    BY <2>1, <2>3, <2>4, <2>5 DEF BInv
<1> QED
  BY <1>1, <1>2 DEF ValidateAgain

LEMMA InspectAttachBinds ==
  ASSUME IInv, BInv, NEW p \in Procs, InspectAttach(p)
  PROVE  BInv'
<1>0. pc[p] = "inspect" /\ "inspect" \notin Touching
  BY DEF InspectAttach, Touching, Writing, Undoing
<1>1. CASE Leave(p) /\ UNCHANGED <<host, note, edited, cut>>
  BY <1>0, <1>1, FailBinds
<1>2. CASE /\ seen' = [seen EXCEPT ![p].remote = seen[p].adv, ![p].prevBinding = binding]
           /\ GoTo(p, "config")
           /\ UNCHANGED <<repo, host, lock, plan, history>>
  <2>1. /\ pc'[p] = "config" /\ \A q \in Procs : q # p => pc'[q] = pc[q]
        /\ UNCHANGED <<known, config, binding, note, edited, cut, past>>
    BY <1>2 DEF GoTo, IInv, TypeOK, host, history
  <2>2. seen'[p].config = seen[p].config /\ seen'[p].prevBinding = binding
    BY <1>0, <1>2, SeenAt DEF Seen, IInv
  <2>3. Holds(p) /\ config = seen[p].config
    BY <1>0 DEF BInv, Guarded, Holds
  <2>4. ~cut => Agrees(binding, config)
    BY <1>0, Alone DEF BInv, Attaching, Touching
  <2>5. Holds(p)'
    BY <2>1, <2>2, <2>3, <2>4 DEF Holds, Agrees
  <2> QED
    BY <1>0, <2>1, <2>5, AttachGoes DEF BInv, Attaching, Touching, Writing
<1> QED
  BY <1>1, <1>2 DEF InspectAttach, Alarm, Fail

LEMMA WritingBinds ==
  ASSUME IInv, BInv, NEW p \in Procs,
         WriteConfig(p) \/ WriteBinding(p) \/ WriteRemote(p) \/ WriteFails(p)
  PROVE  BInv'
<1>0. pc[p] \in Writing /\ pc[p] \in Touching /\ Holds(p)
  BY DEF WriteConfig, WriteBinding, WriteRemote, WriteFails, Writing, Touching, Guarded, BInv
<1>1. {"binding", "remote", "confirm", "undo remote"} \subseteq Touching
  BY DEF Touching, Writing, Undoing
<1>2. CASE WriteConfig(p)
  <2>1. config' = Rendered(p) /\ config'.note = note
    BY <1>0, <1>2 DEF WriteConfig, Rendered, Holds
  <2> QED
    BY <1>0, <1>1, <1>2, <2>1, TouchingGoes DEF WriteConfig, history
<1>3. CASE WriteBinding(p)
  BY <1>0, <1>1, <1>3, TouchingGoes DEF WriteBinding, history, BInv, Holds
<1>4. CASE WriteRemote(p)
  BY <1>0, <1>1, <1>4, TouchingGoes DEF WriteRemote, history, BInv, Holds
<1>5. CASE WriteFails(p)
  BY <1>0, <1>1, <1>5, TouchingGoes DEF WriteFails, host, history, BInv
<1> QED
  BY <1>2, <1>3, <1>4, <1>5

LEMMA UndoingBinds ==
  ASSUME IInv, BInv, NEW p \in Procs, UndoRemote(p) \/ UndoBinding(p) \/ UndoConfig(p)
  PROVE  BInv'
<1>0. pc[p] \in Undoing /\ pc[p] \in Touching /\ Holds(p)
  BY DEF UndoRemote, UndoBinding, UndoConfig, Undoing, Touching, Guarded, BInv
<1>1. {"undo binding", "undo config"} \subseteq Touching
  BY DEF Touching, Undoing
<1>2. CASE UndoRemote(p)
  BY <1>0, <1>1, <1>2, TouchingGoes DEF UndoRemote, history, BInv
<1>3. CASE UndoBinding(p)
  BY <1>0, <1>1, <1>3, TouchingGoes DEF UndoBinding, history, BInv
<1>4. CASE UndoConfig(p)
  <2>1. Off(p)
    BY <1>4, OffStep DEF UndoConfig, IInv
  <2>2. /\ UNCHANGED <<binding, note, cut, edited>> /\ config' = seen[p].config
        /\ binding = seen[p].prevBinding
    BY <1>0, <1>4 DEF UndoConfig, Holds
  <2>3. config'.note = note'
    BY <1>0, <2>2 DEF Holds
  <2>4. ~cut' => Agrees(binding, config)'
    BY <1>0, <2>1, <2>2 DEF Holds, Agrees, Off
  <2> QED
    BY <1>0, <2>1, <2>3, <2>4, AttachLeaves DEF Off, Attaching
<1> QED
  BY <1>2, <1>3, <1>4

(* After a success the receipt's commit is the remembered one.             *)
LEMMA AttachedBinds ==
  ASSUME IInv, BInv, NEW p \in Procs, Attached(p)
  PROVE  BInv'
<1>0. pc[p] = "confirm" /\ pc[p] \in Touching /\ pc[p] \in Attaching /\ Holds(p)
  BY DEF Attached, Writing, Attaching, Touching, Guarded, BInv
<1>1. Off(p)
  BY <1>0, OffStep DEF Attached, IInv
<1>2. UNCHANGED <<known, config, binding, note>>
  BY DEF Attached, host
<1>3. /\ known = seen[p].adv /\ config = Rendered(p)
      /\ binding = [rev |-> seen[p].adv, config |-> Rendered(p)]
  BY <1>0 DEF Holds
<1>4. lock = p /\ seen[p].adv \in Commits
  BY <1>0, WritingKnows DEF Touching
<1>5. seen[p].adv \in past'
  BY <1>1, <1>2, <1>3, <1>4, Names DEF Off, Remembered
<1> QED
  BY <1>0, <1>1, <1>2, <1>3, <1>5, AttachLeaves DEF Off, Agrees, BInv

(* It is cut off, or a command dies elsewhere.                             *)
LEMMA CutOffBinds ==
  ASSUME IInv, BInv, NEW p \in Procs, UndoFails(p) \/ Interrupt(p)
  PROVE  BInv'
<1>0. pc[p] # "idle" /\ Leave(p) /\ UNCHANGED <<host, note, edited>>
  BY DEF UndoFails, Interrupt, Undoing
<1>1. CASE pc[p] \notin Touching
  <2>1. cut' = cut
    BY <1>1 DEF UndoFails, Interrupt, Touching, IInv, TypeOK
  <2> QED
    BY <1>0, <1>1, <2>1, FailBinds
<1>2. CASE pc[p] \in Touching
  <2>1. cut' /\ config' = config
    BY <1>0, <1>2 DEF UndoFails, Interrupt, Touching, host
  <2>2. Off(p)
    BY <1>0, OffStep DEF IInv
  <2> QED
    BY <1>0, <1>2, <2>1, <2>2, AttachLeaves DEF Off, BInv, Attaching, Touching
<1> QED
  BY <1>1, <1>2

-----------------------------------------------------------------------------
(* Other hosts, and the user.                                              *)

LEMMA OutsideBinds ==
  ASSUME IInv, BInv, "config" \notin RaceWindows, Outside
  PROVE  BInv'
<1>1. CASE \E c \in Commits : RemoteMoves(c)
  BY <1>1, FilesKept DEF RemoteMoves, host, control
<1>2. CASE UserFetch
  BY <1>2, FilesKept DEF UserFetch, host, control, history
<1>3. CASE \E c \in Commits, t \in Trees : UserGit(c, t)
  BY <1>3, FilesKept DEF UserGit, host, control, history
<1>4. ASSUME NEW r \in Roots, EditConfig(r) PROVE BInv'
  <2>1. \A q \in Procs : pc[q] \notin Guarded
    BY <1>4 DEF EditConfig, May, InWindow, Guarded, Touching
  <2>2. /\ config'.note = note' /\ edited' = TRUE
        /\ UNCHANGED <<binding, pc, cut, past>>
    BY <1>4 DEF EditConfig, control
  <2> QED
    BY <2>1, <2>2 DEF BInv, Agrees, Guarded
<1> QED
  BY <1>1, <1>2, <1>3, <1>4 DEF Outside

(* Every step of the system preserves it.                                  *)
LEMMA NextBinds ==
  ASSUME IInv, BInv, "config" \notin RaceWindows, [Next]_vars
  PROVE  BInv'
<1>1. CASE UNCHANGED vars
  BY <1>1, FilesKept DEF vars, host, control, history
<1>2. CASE Outside
  BY <1>2, OutsideBinds
<1>3. ASSUME NEW p \in Procs, Step(p) PROVE BInv'
  <2>1. CASE \/ Preview(p) \/ \E o \in Ops : Start(p, o)
             \/ Migrate(p) \/ Fetch(p) \/ ReadRef(p) \/ ReadStatus(p) \/ ReadCounts(p)
             \/ CheckKnown(p) \/ Report(p) \/ Record(p) \/ Install(p) \/ Validate(p)
    BY <2>1, ReadingBinds
  <2>2. CASE ValidateAgain(p) \/ InspectAttach(p)
    BY <2>2, ValidateAgainBinds, InspectAttachBinds
  <2>3. CASE WriteConfig(p) \/ WriteBinding(p) \/ WriteRemote(p) \/ WriteFails(p)
    BY <2>3, WritingBinds
  <2>4. CASE UndoRemote(p) \/ UndoBinding(p) \/ UndoConfig(p)
    BY <2>4, UndoingBinds
  <2>5. CASE Attached(p) \/ UndoFails(p) \/ Interrupt(p)
    BY <2>5, AttachedBinds, CutOffBinds
  <2> QED
    BY <1>3, <2>1, <2>2, <2>3, <2>4, <2>5 DEF Step
<1> QED
  BY <1>1, <1>2, <1>3 DEF Next

LEMMA InitBinds == Init => BInv
BY DEF Init, BInv, Agrees, Guarded, Touching, Writing, Undoing

(* If nobody edits the configuration while attach is between its second    *)
(* look at it and its end, the files always agree in the sense of BInv.    *)
THEOREM BindingInvariant ==
  ASSUME "config" \notin RaceWindows
  PROVE  Spec => []BInv
<1>1. Init => BInv
  BY InitBinds
<1>2. IInv /\ BInv /\ [Next]_vars => BInv'
  BY NextBinds
<1> QED
  BY <1>1, <1>2, Invariant, PTL DEF Spec

(* Then attach changes where the state is and nothing else of the user's   *)
(* configuration, whether it succeeds, fails, is rolled back or dies.      *)
THEOREM ConfigSafe ==
  ASSUME "config" \notin RaceWindows
  PROVE  Spec => []ConfigKept
<1>1. BInv => ConfigKept
  BY DEF BInv, ConfigKept
<1> QED
  BY <1>1, BindingInvariant, PTL

(* Then, when no attach was cut off, the binding receipt is for the        *)
(* present configuration, and what is remembered descends from the commit  *)
(* the receipt accepted.                                                   *)
THEOREM BindingCorrect ==
  ASSUME "config" \notin RaceWindows
  PROVE  Spec => []BindingTrue
<1>1. ASSUME IInv, BInv, lock = NoProc, ~cut, binding # Absent
      PROVE  /\ ~edited => binding.config = config
             /\ Remembered \in Commits /\ Before(binding.rev, Remembered)
  <2>1. \A p \in Procs : pc[p] \notin Touching
    BY <1>1, AttachLocked, Names DEF Attaching, Touching
  <2>2. Agrees(binding, config)
    BY <1>1, <2>1 DEF BInv
  <2> QED
    BY <1>1, <2>2 DEF IInv, Agrees, Above, Before
<1>2. IInv /\ BInv => BindingTrue
  BY <1>1 DEF BindingTrue
<1> QED
  BY <1>2, Invariant, BindingInvariant, PTL

-----------------------------------------------------------------------------
(* The third part: what sync installs.                                     *)

(* What a sync that has read s and is at step l relies on without looking  *)
(* again: what it read is still so, and is what it will install.           *)
InLine(s, l) ==
  /\ l \in {"status", "counts"} => s.issue \/ tracking = s.remote
  /\ l \in {"counts", "known", "passed", "review"} => s.tree = tree
  /\ l \in {"known", "passed", "review"} => s.issue \/ s.behind \/ s.ahead \/ head = s.remote
  /\ l \in {"passed", "review"} => ~Refused(s)
  /\ l = "review" => known = s.remote

Relies(p) == pc[p] # "idle" /\ seen[p].op = "sync" => InLine(seen[p], pc[p])

SInv == /\ installed # Absent => installed \in past
        /\ \A p \in Procs : Relies(p)

(* Nobody fetches between a sync's reading of origin/main and its counts,  *)
(* and nobody checks out or edits between its status and its review.       *)
Undisturbed == /\ InWindow("ref") => tracking' = tracking
               /\ InWindow("checkout") => head' = head /\ tree' = tree

(* A sync that does not take part in a step.                               *)
LEMMA StillRelies ==
  ASSUME IInv, Undisturbed, NEW p \in Procs, Relies(p), pc'[p] = pc[p], seen'[p] = seen[p],
         pc[p] = "review" => known' = known
  PROVE  Relies(p)'
<1> SUFFICES ASSUME pc[p] # "idle", seen[p].op = "sync" PROVE InLine(seen[p], pc[p])'
  BY DEF Relies
<1>1. InLine(seen[p], pc[p])
  BY DEF Relies
<1>2. seen[p] # NoSeen
  BY DEF IInv, TypeOK
<1>3. pc[p] \in {"status", "counts"} => tracking' = tracking
  BY <1>2 DEF Undisturbed, InWindow
<1>4. pc[p] \in {"status", "counts", "known", "passed", "review"} => head' = head /\ tree' = tree
  BY <1>2 DEF Undisturbed, InWindow
<1> QED
  BY <1>1, <1>3, <1>4 DEF InLine, Refused

(* A step in which only p takes part, and after which p can rely on it.    *)
LEMMA OwnStep ==
  ASSUME IInv, SInv, Undisturbed, NEW p \in Procs,
         \A q \in Procs : q # p => pc'[q] = pc[q] /\ seen'[q] = seen[q],
         known' = known \/ lock = p, past \subseteq past',
         installed' = installed \/ installed' \in past', Relies(p)'
  PROVE  SInv'
<1>1. ASSUME NEW q \in Procs, q # p PROVE Relies(q)'
  <2>1. pc[q] = "review" => lock = q
    BY <1>1, Names DEF IInv, TypeOK, Fine, Knows, Locking
  <2> QED
    BY <1>1, <2>1, StillRelies DEF SInv
<1> QED
  BY <1>1 DEF SInv

(* The command goes to a step at which it relies on nothing yet.           *)
LEMMA BlankStep ==
  ASSUME IInv, SInv, Undisturbed, NEW p \in Procs, NEW l, GoTo(p, l),
         l \notin {"status", "counts", "known", "passed", "review"},
         \A q \in Procs : q # p => seen'[q] = seen[q],
         known' = known \/ lock = p, past \subseteq past',
         installed' = installed \/ installed' \in past'
  PROVE  SInv'
<1>1. pc'[p] = l /\ \A q \in Procs : q # p => pc'[q] = pc[q]
  BY DEF GoTo, IInv, TypeOK
<1>2. Relies(p)'
  BY <1>1 DEF Relies, InLine
<1> QED
  BY <1>1, <1>2, OwnStep

(* A command that ends.                                                    *)
LEMMA LeaveStays ==
  ASSUME IInv, SInv, Undisturbed, NEW p \in Procs, pc[p] # "idle", Leave(p), known' = known,
         installed' = installed \/ installed' \in past'
  PROVE  SInv'
<1>1. Off(p)
  BY OffStep DEF IInv
<1>2. Relies(p)'
  BY <1>1 DEF Off, Relies
<1> QED
  BY <1>1, <1>2, OwnStep DEF Off

LEMMA FailStays ==
  ASSUME IInv, SInv, Undisturbed, NEW p \in Procs, pc[p] # "idle", Fail(p) \/ Alarm(p)
  PROVE  SInv'
BY LeaveStays DEF Fail, Alarm, host

LEMMA BeginStays ==
  ASSUME IInv, SInv, Undisturbed, NEW p \in Procs,
         \/ Preview(p) \/ \E o \in Ops : Start(p, o)
         \/ Migrate(p) \/ Fetch(p)
  PROVE  SInv'
<1>0. p \in DOMAIN seen /\ p \in DOMAIN pc
  BY DEF IInv, TypeOK
<1>1. CASE Preview(p)
  <2>1. UNCHANGED <<tracking, head, tree, known, pc, seen, past, installed>>
    BY <1>1 DEF Preview, repo, host, history
  <2> QED
    BY <2>1, StillRelies DEF SInv
<1>2. ASSUME NEW o \in Ops, Start(p, o) PROVE SInv'
  <2>1. PICK l \in {"migrate", "validate", "fetch"} : GoTo(p, l)
    BY <1>2 DEF Start
  <2>2. /\ \A q \in Procs : q # p => seen'[q] = seen[q]
        /\ UNCHANGED <<known, past, installed>>
    BY <1>0, <1>2 DEF Start, host, IInv, TypeOK
  <2> QED
    BY <2>1, <2>2, BlankStep
<1>3. CASE Migrate(p)
  <2>1. CASE Fail(p)
    BY <1>3, <2>1, FailStays DEF Migrate
  <2>2. CASE ~Fail(p)
    <3>1. /\ GoTo(p, "fetch") /\ \A q \in Procs : q # p => seen'[q] = seen[q]
          /\ UNCHANGED <<past, installed>>
      BY <1>0, <1>3, <2>2 DEF Migrate, history, IInv, TypeOK
    <3>2. lock = p
      BY <1>3 DEF Migrate, IInv, TypeOK, Fine, Knows, Locking
    <3> QED
      BY <3>1, <3>2, BlankStep
  <2> QED
    BY <2>1, <2>2
<1>4. CASE Fetch(p)
  <2>1. CASE Fail(p)
    BY <1>4, <2>1, FailStays DEF Fetch
  <2>2. CASE ~Fail(p)
    <3>1. PICK l \in {"again", "ref"} : GoTo(p, l)
      BY <1>4, <2>2 DEF Fetch
    <3>2. /\ \A q \in Procs : q # p => seen'[q] = seen[q]
          /\ UNCHANGED <<known, past, installed>>
      BY <1>0, <1>4, <2>2 DEF Fetch, Issue, history, host, IInv, TypeOK
    <3> QED
      BY <3>1, <3>2, BlankStep
  <2> QED
    BY <2>1, <2>2
<1> QED
  BY <1>1, <1>2, <1>3, <1>4

(* What a sync reads, and that it is in line: only two equal commits are   *)
(* neither behind nor ahead of each other.                                 *)
LEMMA LookStays ==
  ASSUME IInv, SInv, Undisturbed, NEW p \in Procs,
         ReadRef(p) \/ ReadStatus(p) \/ ReadCounts(p) \/ CheckKnown(p)
  PROVE  SInv'
<1>0. /\ seen \in [Procs -> Seen \cup {NoSeen}] /\ pc \in [Procs -> Steps]
      /\ pc[p] # "idle" => seen[p] \in Seen
  BY DEF IInv, TypeOK
<1>1. ASSUME NEW l \in {"status", "counts", "known", "passed"}, GoTo(p, l), pc[p] # "idle",
             \A q \in Procs : q # p => seen'[q] = seen[q],
             UNCHANGED <<known, past, installed>>, InLine(seen[p], l)' \/ seen'[p].op # "sync"
      PROVE  SInv'
  <2>1. pc'[p] = l /\ \A q \in Procs : q # p => pc'[q] = pc[q]
    BY <1>0, <1>1 DEF GoTo
  <2>2. Relies(p)'
    BY <1>1, <2>1 DEF Relies, InLine
  <2> QED
    BY <1>1, <2>1, <2>2, OwnStep
<1>2. CASE ReadRef(p)
  <2>1. pc[p] = "ref" /\ GoTo(p, "status")
        /\ UNCHANGED <<tracking, head, tree, known, past, installed>>
    BY <1>2 DEF ReadRef, repo, host, history
  <2>2. PICK s : s = [seen[p] EXCEPT !.remote = IF seen[p].issue THEN Absent ELSE tracking]
    OBVIOUS
  <2>3. seen' = [seen EXCEPT ![p] = s] /\ (s.issue \/ tracking = s.remote)
    BY <1>0, <1>2, <2>1, <2>2 DEF ReadRef, Seen
  <2>4. seen'[p] = s /\ \A q \in Procs : q # p => seen'[q] = seen[q]
    BY <1>0, <2>3
  <2> QED
    BY <1>1, <2>1, <2>3, <2>4 DEF InLine
<1>3. CASE ReadStatus(p)
  <2>1. pc[p] = "status" /\ GoTo(p, "counts") /\ Relies(p)
        /\ UNCHANGED <<tracking, head, tree, known, past, installed>>
    BY <1>3 DEF ReadStatus, repo, host, history, SInv
  <2>2. PICK s : s = [seen[p] EXCEPT !.tree = tree]
    OBVIOUS
  <2>3. /\ seen' = [seen EXCEPT ![p] = s] /\ s.tree = tree
        /\ s.issue = seen[p].issue /\ s.remote = seen[p].remote /\ s.op = seen[p].op
    BY <1>0, <1>3, <2>1, <2>2 DEF ReadStatus, Seen
  <2>4. seen'[p] = s /\ \A q \in Procs : q # p => seen'[q] = seen[q]
    BY <1>0, <2>3
  <2> QED
    BY <1>1, <2>1, <2>3, <2>4 DEF Relies, InLine
<1>4. CASE ReadCounts(p)
  <2>1. pc[p] = "counts" /\ GoTo(p, "known") /\ Relies(p)
        /\ UNCHANGED <<tracking, head, tree, known, past, installed>>
    BY <1>4 DEF ReadCounts, repo, host, history, SInv
  <2>2. PICK s : s = [seen[p] EXCEPT !.behind = ~seen[p].issue /\ ~Before(tracking, head),
                                     !.ahead  = ~seen[p].issue /\ ~Before(head, tracking)]
    OBVIOUS
  <2>3. /\ seen' = [seen EXCEPT ![p] = s] /\ s.tree = seen[p].tree
        /\ s.issue = seen[p].issue /\ s.remote = seen[p].remote /\ s.op = seen[p].op
        /\ ~s.issue /\ ~s.behind /\ ~s.ahead => Before(tracking, head) /\ Before(head, tracking)
    BY <1>0, <1>4, <2>1, <2>2 DEF ReadCounts, Seen
  <2>4. seen'[p] = s /\ \A q \in Procs : q # p => seen'[q] = seen[q]
    BY <1>0, <2>3
  <2>5. Before(tracking, head) /\ Before(head, tracking) => head = tracking
    BY ConstantsOK DEF ConstantsOK, Before, IInv, TypeOK
  <2> QED
    BY <1>1, <2>1, <2>3, <2>4, <2>5 DEF Relies, InLine
<1>5. CASE CheckKnown(p)
  <2>1. CASE Fail(p) \/ Alarm(p)
    BY <1>5, <2>1, FailStays DEF CheckKnown
  <2>2. CASE ~(Fail(p) \/ Alarm(p))
    <3>1. /\ pc[p] = "known" /\ GoTo(p, "passed") /\ ~Refused(seen[p]) /\ Relies(p)
          /\ UNCHANGED <<tracking, head, tree, known, seen, past, installed>>
      BY <1>5, <2>2 DEF CheckKnown, repo, host, history, SInv
    <3> QED
      BY <1>1, <3>1 DEF Relies, InLine, Refused
  <2> QED
    BY <2>1, <2>2
<1> QED
  BY <1>2, <1>3, <1>4, <1>5

LEMMA RecordStays ==
  ASSUME IInv, SInv, Undisturbed, NEW p \in Procs, Report(p) \/ Record(p)
  PROVE  SInv'
<1>1. CASE Report(p)
  BY <1>1, FailStays DEF Report
<1>2. CASE Record(p)
  <2>1. /\ pc[p] = "passed" /\ known' = seen[p].remote /\ GoTo(p, "review") /\ Relies(p)
        /\ UNCHANGED <<tracking, head, tree, seen, past, installed>>
    BY <1>2 DEF Record, repo, history, SInv
  <2>2. pc'[p] = "review" /\ \A q \in Procs : q # p => pc'[q] = pc[q]
    BY <2>1 DEF GoTo, IInv, TypeOK
  <2>3. Relies(p)'
    BY <2>1, <2>2 DEF Relies, InLine, Refused
  <2>4. lock = p
    BY <1>2, <2>1, Names DEF Record, IInv, TypeOK, Locking
  <2> QED
    BY <2>1, <2>2, <2>3, <2>4, OwnStep
<1> QED
  BY <1>1, <1>2

(* A sync installs the commit it read of the remote, which is remembered   *)
(* by then.                                                                *)
LEMMA Installs ==
  ASSUME IInv, SInv, NEW p \in Procs, Install(p), installed' # installed
  PROVE  /\ pc[p] = "review" /\ lock = p /\ Leave(p) /\ UNCHANGED known
         /\ installed' = known /\ known \in Commits /\ known \in since[p]
<1>1. /\ pc[p] = "review" /\ Leave(p) /\ UNCHANGED known
      /\ installed' = IF tree \in {"clean", "inbox"} THEN head ELSE Damaged
  BY DEF Install, Fail, Alarm, host
<1>2. Fine(p, seen[p], "review") /\ seen[p] \in Seen
  BY <1>1, SeenAt DEF IInv
<1>3. seen[p].op = "sync" /\ lock = p
  BY <1>1, <1>2, Names DEF Fine, Knows, IInv, TypeOK, Locking
<1>4. InLine(seen[p], "review")
  BY <1>1, <1>3 DEF SInv, Relies
<1>5. ~seen[p].issue /\ ~seen[p].behind /\ ~seen[p].ahead /\ seen[p].tree # "dirty"
  BY <1>3, <1>4 DEF InLine, Refused
<1>6. head = known /\ known = seen[p].remote /\ tree \in {"clean", "inbox"}
  BY <1>4, <1>5 DEF InLine, IInv, TypeOK, Trees
<1>7. known \in Commits
  BY <1>6 DEF IInv, TypeOK
<1>8. known \in since[p]
  BY <1>2, <1>6, <1>7, Names DEF Fine, Timely
<1> QED
  BY <1>1, <1>3, <1>6, <1>7, <1>8

LEMMA InstallStays ==
  ASSUME IInv, SInv, Undisturbed, NEW p \in Procs, Install(p)
  PROVE  SInv'
<1>1. pc[p] = "review" /\ Leave(p) /\ known' = known
  BY DEF Install, Fail, Alarm, host
<1>2. ASSUME installed' # installed PROVE installed' \in past'
  <2>1. lock = p /\ installed' = known /\ known \in Commits
    BY <1>2, Installs
  <2>2. Off(p)
    BY <1>1, OffStep DEF IInv
  <2>3. Remembered' = known
    BY <1>1, <2>1, Names DEF Remembered
  <2> QED
    BY <2>1, <2>2, <2>3 DEF Off
<1> QED
  BY <1>1, <1>2, LeaveStays

LEMMA AttachStays ==
  ASSUME IInv, SInv, Undisturbed, NEW p \in Procs,
         \/ Validate(p) \/ ValidateAgain(p) \/ InspectAttach(p)
         \/ WriteConfig(p) \/ WriteBinding(p) \/ WriteRemote(p) \/ WriteFails(p)
         \/ UndoRemote(p) \/ UndoBinding(p) \/ UndoConfig(p)
         \/ Attached(p) \/ UndoFails(p) \/ Interrupt(p)
  PROVE  SInv'
<1>0. p \in DOMAIN seen /\ pc[p] # "idle"
  BY DEF IInv, TypeOK, Validate, ValidateAgain, InspectAttach, WriteConfig, WriteBinding, WriteRemote,
         WriteFails, UndoRemote, UndoBinding, UndoConfig, Attached, UndoFails, Interrupt,
         Writing, Undoing
<1>1. CASE Attached(p) \/ UndoConfig(p) \/ UndoFails(p) \/ Interrupt(p)
  BY <1>0, <1>1, LeaveStays DEF Attached, UndoConfig, UndoFails, Interrupt, host
<1>2. CASE Fail(p) \/ Alarm(p)
  BY <1>0, <1>2, FailStays
<1>3. CASE /\ ~(Fail(p) \/ Alarm(p))
           /\ \/ Validate(p) \/ ValidateAgain(p) \/ InspectAttach(p)
              \/ WriteConfig(p) \/ WriteBinding(p) \/ WriteRemote(p) \/ WriteFails(p)
              \/ UndoRemote(p) \/ UndoBinding(p)
  <2>1. PICK l \in {"migrate", "inspect", "config", "binding", "remote", "confirm",
                    "undo remote", "undo binding", "undo config"} : GoTo(p, l)
    BY <1>3 DEF Validate, ValidateAgain, InspectAttach, WriteConfig, WriteBinding, WriteRemote,
                WriteFails, UndoRemote, UndoBinding
  <2>2. \A q \in Procs : q # p => seen'[q] = seen[q]
    BY <1>0, <1>3 DEF Validate, ValidateAgain, InspectAttach, WriteConfig, WriteBinding, WriteRemote,
                WriteFails, UndoRemote, UndoBinding, IInv, TypeOK
  <2>3. UNCHANGED <<past, installed>>
    BY <1>3 DEF Validate, ValidateAgain, InspectAttach, WriteConfig, WriteBinding, WriteRemote,
                WriteFails, UndoRemote, UndoBinding, history
  <2>4. known' = known \/ lock = p
    <3>1. CASE WriteRemote(p) \/ UndoRemote(p)
      BY <3>1, AttachLocked DEF WriteRemote, UndoRemote, Attaching, Writing, Undoing
    <3>2. CASE ~(WriteRemote(p) \/ UndoRemote(p))
      BY <1>3, <3>2 DEF Validate, ValidateAgain, InspectAttach, WriteConfig, WriteBinding,
                WriteFails, UndoBinding, host
    <3> QED
      BY <3>1, <3>2
  <2> QED
    BY <2>1, <2>2, <2>3, <2>4, BlankStep
<1> QED
  BY <1>1, <1>2, <1>3

LEMMA NextStays ==
  ASSUME IInv, SInv, [Next]_vars, [Undisturbed]_vars
  PROVE  SInv'
<1>1. CASE UNCHANGED vars
  BY <1>1 DEF vars, repo, host, control, history, SInv, Relies, InLine, Refused
<1>2. CASE Undisturbed /\ Outside
  <2>1. UNCHANGED <<known, pc, seen, past, installed>>
    BY <1>2 DEF Outside, RemoteMoves, UserFetch, UserGit, EditConfig, host, control, history
  <2> QED
    BY <1>2, <2>1, StillRelies DEF SInv
<1>3. ASSUME Undisturbed, NEW p \in Procs, Step(p) PROVE SInv'
  BY <1>3, BeginStays, LookStays, RecordStays, InstallStays, AttachStays DEF Step
<1> QED
  BY <1>1, <1>2, <1>3 DEF Next

(* What a step installs, if it installs anything.                          *)
LEMMA ForwardStep ==
  ASSUME IInv, SInv, Next, installed' # installed
  PROVE  /\ installed' \in Commits
         /\ \E p \in Procs : installed' \in since[p]
         /\ installed # Absent => Before(installed, installed')
<1>1. PICK p \in Procs : Install(p)
  BY DEF Next, Step, Outside, RemoteMoves, UserFetch, UserGit, EditConfig, history, Preview, Start,
         Migrate, Fetch, ReadRef, ReadStatus, ReadCounts, CheckKnown, Report, Record, Validate,
         ValidateAgain, InspectAttach, WriteConfig, WriteBinding, WriteRemote, Attached, WriteFails,
         UndoRemote, UndoBinding, UndoConfig, UndoFails, Interrupt, Fail, Alarm
<1>2. installed' = known /\ known \in Commits /\ known \in since[p]
  BY <1>1, Installs
<1>3. Above(known)
  BY <1>2, Names DEF IInv, Remembered
<1>4. installed # Absent => installed \in Past[known]
  BY <1>3 DEF SInv, Above
<1> QED
  BY <1>2, <1>4 DEF Before

LEMMA InitStays == Init => SInv
BY DEF Init, SInv, Relies

(* If nobody fetches or checks out while a sync relies on what it has      *)
(* read, any number of processes of every kind, pushes, forced ones too,   *)
(* errors and deaths never make a sync install anything but a commit that  *)
(* was published while it ran and descends from what was installed before. *)
THEOREM OnlyForward == Spec /\ [][Undisturbed]_vars => InstalledOnlyForward
<1>1. Init => SInv
  BY InitStays
<1>2. IInv /\ SInv /\ [Next]_vars /\ [Undisturbed]_vars => SInv'
  BY NextStays
<1>3. IInv /\ SInv /\ [Next]_vars =>
        [installed' # installed =>
           /\ installed' \in Commits
           /\ \E p \in Procs : installed' \in since[p]
           /\ installed # Absent => Before(installed, installed')]_vars
  BY ForwardStep
<1> QED
  BY <1>1, <1>2, <1>3, Invariant, PTL DEF Spec, InstalledOnlyForward

(* One process alone is not disturbed while the two windows are closed, so *)
(* this is so for any number of events and any history of commits.         *)
THEOREM OnlyForwardAlone ==
  ASSUME "ref" \notin RaceWindows, "checkout" \notin RaceWindows,
         \A p, q \in Procs : p = q
  PROVE  Spec => InstalledOnlyForward
<1>1. ASSUME IInv, Next PROVE Undisturbed
  <2>1. ASSUME NEW p \in Procs, Step(p) PROVE Undisturbed
    <3>1. UNCHANGED <<head, tree>>
      BY <2>1 DEF Step, repo, Preview, Start, Migrate, Fetch, ReadRef, ReadStatus, ReadCounts, CheckKnown,
             Report, Record, Install, Validate, ValidateAgain, InspectAttach, WriteConfig, WriteBinding,
             WriteRemote, Attached, WriteFails, UndoRemote, UndoBinding, UndoConfig, UndoFails,
             Interrupt, Fail, Alarm
    <3>2. tracking' = tracking \/ pc[p] = "fetch"
      BY <2>1 DEF Step, repo, Preview, Start, Migrate, Fetch, ReadRef, ReadStatus, ReadCounts, CheckKnown,
             Report, Record, Install, Validate, ValidateAgain, InspectAttach, WriteConfig, WriteBinding,
             WriteRemote, Attached, WriteFails, UndoRemote, UndoBinding, UndoConfig, UndoFails,
             Interrupt, Fail, Alarm
    <3>3. pc[p] = "fetch" => ~InWindow("ref")
      BY DEF InWindow
    <3> QED
      BY <3>1, <3>2, <3>3 DEF Undisturbed
  <2>2. CASE Outside
    BY <2>2 DEF Outside, RemoteMoves, UserFetch, UserGit, EditConfig, repo, May, Undisturbed
  <2> QED
    BY <1>1, <2>1, <2>2 DEF Next
<1>2. IInv /\ [Next]_vars => [Undisturbed]_vars
  BY <1>1
<1> QED
  BY <1>2, Invariant, OnlyForward, PTL DEF Spec
=============================================================================
