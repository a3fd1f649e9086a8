-------------------------- MODULE Installer_proofs --------------------------
(***************************************************************************)
(* Proofs about the installer, for every number of releases, edits, errors *)
(* and kills.                                                              *)
(*                                                                         *)
(* Control: CInv says where a command may stand, which steps it has still  *)
(* to do (the rest of one of three orders), and the types.                 *)
(* Hands: HInv says where each thing the user wrote is: on the disk, in    *)
(* the snapshot, or set aside.  It needs the three windows between a look  *)
(* and the write or the removal that follows it to be closed               *)
(* (HandWindows = {}).                                                     *)
(* Paths: PInv says what each path holds at each step of an installation,  *)
(* of a rollback and between commands, with the windows open or closed.    *)
(***************************************************************************)
EXTENDS Installer, FiniteSetTheorems, TLAPS

-----------------------------------------------------------------------------
(* The steps still to do are the rest of one of three orders.              *)
Places == Paths \cup {"verify", "host"}

Rest(s, k) == SubSeq(s, k, Len(s))
Rests(s)   == {Rest(s, k) : k \in 1..(Len(s) + 1)}

Order(j) == IF j.only THEN <<"known">> ELSE IF j.dir = "fwd" THEN Placing ELSE Undoing

(* The paths that a job has still to place or to restore.                  *)
Ahead == ToSet(job.todo)

(* The paths that a placement replaces, and those that the user writes.    *)
Placed  == {"known", "tool", "runtime", "hooks", "pin", "mat", "rec"}
Written == {"tool", "runtime", "hooks"}

LEMMA SeqSame ==
  ASSUME NEW S, NEW a \in Seq(S), NEW b \in Seq(S), Len(a) = Len(b),
         \A i \in 1..Len(a) : a[i] = b[i]
  PROVE  a = b
OBVIOUS

LEMMA SeqEmpty ==
  ASSUME NEW S, NEW a \in Seq(S)
  PROVE  Len(a) \in Nat /\ (Len(a) = 0 <=> a = <<>>)
OBVIOUS

LEMMA RestFacts ==
  ASSUME NEW S, NEW s \in Seq(S), NEW k \in 1..(Len(s) + 1)
  PROVE  /\ Rest(s, k) \in Seq(S) /\ Len(Rest(s, k)) = Len(s) + 1 - k
         /\ ToSet(Rest(s, k)) = {s[i] : i \in k..Len(s)}
         /\ k <= Len(s) => Head(Rest(s, k)) = s[k] /\ Tail(Rest(s, k)) = Rest(s, k + 1)
<1>1. /\ Rest(s, k) \in Seq(S) /\ Len(Rest(s, k)) = Len(s) + 1 - k
      /\ \A i \in 1..(Len(s) + 1 - k) : Rest(s, k)[i] = s[k + i - 1]
  BY DEF Rest
<1>2. ToSet(Rest(s, k)) = {s[i] : i \in k..Len(s)}
  <2>1. DOMAIN Rest(s, k) = 1..(Len(s) + 1 - k)
    BY <1>1
  <2>2. ASSUME NEW i \in k..Len(s) PROVE \E j \in 1..(Len(s) + 1 - k) : Rest(s, k)[j] = s[i]
    <3>1. i - k + 1 \in 1..(Len(s) + 1 - k) /\ k + (i - k + 1) - 1 = i
      OBVIOUS
    <3> QED
      BY <1>1, <3>1
  <2>3. ASSUME NEW j \in 1..(Len(s) + 1 - k) PROVE \E i \in k..Len(s) : Rest(s, k)[j] = s[i]
    <3>1. k + j - 1 \in k..Len(s)
      OBVIOUS
    <3> QED
      BY <1>1, <3>1
  <2> QED
    <3>1. ToSet(Rest(s, k)) = {Rest(s, k)[j] : j \in 1..(Len(s) + 1 - k)}
      BY <2>1 DEF ToSet
    <3>2. ASSUME NEW e \in {Rest(s, k)[j] : j \in 1..(Len(s) + 1 - k)}
          PROVE  e \in {s[i] : i \in k..Len(s)}
      <4>1. PICK j \in 1..(Len(s) + 1 - k) : e = Rest(s, k)[j]
        OBVIOUS
      <4>2. PICK i \in k..Len(s) : Rest(s, k)[j] = s[i]
        BY <2>3
      <4> QED
        BY <4>1, <4>2
    <3>3. ASSUME NEW e \in {s[i] : i \in k..Len(s)}
          PROVE  e \in {Rest(s, k)[j] : j \in 1..(Len(s) + 1 - k)}
      <4>1. PICK i \in k..Len(s) : e = s[i]
        OBVIOUS
      <4>2. PICK j \in 1..(Len(s) + 1 - k) : Rest(s, k)[j] = s[i]
        BY <2>2
      <4> QED
        BY <4>1, <4>2
    <3> QED
      BY <3>1, <3>2, <3>3
<1>3. ASSUME k <= Len(s) PROVE Head(Rest(s, k)) = s[k] /\ Tail(Rest(s, k)) = Rest(s, k + 1)
  <2>1. Head(Rest(s, k)) = s[k]
    BY <1>1, <1>3
  <2>2. /\ Rest(s, k + 1) \in Seq(S) /\ Len(Rest(s, k + 1)) = Len(s) - k
        /\ \A i \in 1..(Len(s) - k) : Rest(s, k + 1)[i] = s[k + i]
    BY <1>3 DEF Rest
  <2>3. /\ Tail(Rest(s, k)) \in Seq(S) /\ Len(Tail(Rest(s, k))) = Len(s) - k
        /\ \A i \in 1..(Len(s) - k) : Tail(Rest(s, k))[i] = s[k + i]
    BY <1>1, <1>3
  <2>4. Tail(Rest(s, k)) = Rest(s, k + 1)
    <3>1. PICK t : t = Tail(Rest(s, k))
      OBVIOUS
    <3>2. PICK u : u = Rest(s, k + 1)
      OBVIOUS
    <3>3. t \in Seq(S) /\ u \in Seq(S) /\ Len(t) = Len(u) /\ \A i \in 1..Len(t) : t[i] = u[i]
      BY <2>2, <2>3, <3>1, <3>2
    <3> QED
      BY <3>1, <3>2, <3>3, SeqSame
  <2> QED
    BY <2>1, <2>4
<1> QED
  BY <1>1, <1>2, <1>3

LEMMA RestAll ==
  ASSUME NEW S, NEW s \in Seq(S)
  PROVE  Rest(s, 1) = s
<1>1. PICK t : t = Rest(s, 1)
  OBVIOUS
<1>2. t \in Seq(S) /\ Len(t) = Len(s) /\ \A i \in 1..Len(t) : t[i] = s[i]
  BY <1>1 DEF Rest
<1> QED
  BY <1>1, <1>2, SeqSame

LEMMA PlacingIs ==
  /\ Placing \in Seq(Places) /\ Len(Placing) = 10
  /\ Placing[1] = "binding" /\ Placing[2] = "known" /\ Placing[3] = "tool"
  /\ Placing[4] = "runtime" /\ Placing[5] = "hooks" /\ Placing[6] = "verify"
  /\ Placing[7] = "pin" /\ Placing[8] = "verify" /\ Placing[9] = "mat" /\ Placing[10] = "rec"
BY DEF Placing, Places, Paths, Mine, Objects

LEMMA UndoingIs ==
  /\ Undoing \in Seq(Places) /\ Len(Undoing) = 8
  /\ Undoing[1] = "hooks" /\ Undoing[2] = "pin" /\ Undoing[3] = "runtime"
  /\ Undoing[4] = "tool" /\ Undoing[5] = "rec" /\ Undoing[6] = "mat"
  /\ Undoing[7] = "host" /\ Undoing[8] = "known"
BY DEF Undoing, Places, Paths, Mine, Objects

LEMMA KnownIs == <<"known">> \in Seq(Places) /\ Len(<<"known">>) = 1 /\ <<"known">>[1] = "known"
BY DEF Places, Paths, Mine, Objects

LEMMA PlacingNext ==
  ASSUME NEW k \in 1..10, NEW x \in Paths \cup {"host"}
  PROVE  x \in {Placing[i] : i \in (k+1)..10} <=> x \in {Placing[i] : i \in k..10} /\ x # Placing[k]
<1>1. ASSUME NEW i \in k..10, i # k, Placing[i] = Placing[k] PROVE Placing[k] = "verify"
  <2>1. k \in {1,2,3,4,5,6,7,8,9,10} /\ i \in {1,2,3,4,5,6,7,8,9,10}
    BY <1>1
  <2> QED
  BY <1>1, <2>1, PlacingIs
<1> QED
  BY <1>1 DEF Paths, Mine, Objects

LEMMA UndoingNext ==
  ASSUME NEW k \in 1..8, NEW x \in Paths \cup {"host"}
  PROVE  x \in {Undoing[i] : i \in (k+1)..8} <=> x \in {Undoing[i] : i \in k..8} /\ x # Undoing[k]
<1>1. ASSUME NEW i \in k..8, i # k PROVE Undoing[i] # Undoing[k]
  <2>1. k \in {1,2,3,4,5,6,7,8} /\ i \in {1,2,3,4,5,6,7,8}
    BY <1>1
  <2> QED
    BY <1>1, <2>1, UndoingIs
<1> QED
  BY <1>1

LEMMA KnownNext ==
  ASSUME NEW k \in 1..1, NEW x \in Paths \cup {"host"}
  PROVE  x \in {<<"known">>[i] : i \in (k+1)..1} <=> x \in {<<"known">>[i] : i \in k..1} /\ x # <<"known">>[k]
BY KnownIs

(* What a job that is not through has at hand, and what it has ahead.      *)
Forward(x)  == x \in Placed \cup {"binding", "verify"}
Backward(x) == x \in Mine \cup {"rec", "mat", "host", "known"}

LEMMA Orders ==
  ASSUME NEW j, j.only \in BOOLEAN, j.dir \in {"fwd", "back"}
  PROVE  /\ Order(j) \in Seq(Places) /\ Len(Order(j)) \in 1..10
         /\ \A k \in 1..Len(Order(j)) :
              /\ Order(j)[k] \in Places
              /\ j.only => Order(j)[k] = "known"
              /\ IF j.dir = "fwd" THEN Forward(Order(j)[k]) ELSE Backward(Order(j)[k])
              /\ \A x \in Paths \cup {"host"} :
                   x \in {Order(j)[i] : i \in (k+1)..Len(Order(j))}
                     <=> x \in {Order(j)[i] : i \in k..Len(Order(j))} /\ x # Order(j)[k]
<1>1. CASE j.only
  BY <1>1, KnownIs, KnownNext DEF Order, Forward, Backward, Placed, Places, Paths
<1>2. CASE ~j.only /\ j.dir = "fwd"
  <2>1. Order(j) = Placing
    BY <1>2 DEF Order
  <2>2. ASSUME NEW k \in 1..10 PROVE Forward(Placing[k]) /\ Placing[k] \in Places
    BY PlacingIs DEF Forward, Placed, Places, Paths, Mine, Objects
  <2> QED
    BY <1>2, <2>1, <2>2, PlacingIs, PlacingNext
<1>3. CASE ~j.only /\ j.dir = "back"
  <2>1. Order(j) = Undoing
    BY <1>3 DEF Order
  <2>2. ASSUME NEW k \in 1..8 PROVE Backward(Undoing[k]) /\ Undoing[k] \in Places
    BY UndoingIs DEF Backward, Places, Paths, Mine, Objects
  <2> QED
    BY <1>3, <2>1, <2>2, UndoingIs, UndoingNext
<1> QED
  BY <1>1, <1>2, <1>3

LEMMA Todo ==
  ASSUME NEW j, j.only \in BOOLEAN, j.dir \in {"fwd", "back"},
         j.todo \in Rests(Order(j)), j.todo # <<>>
  PROVE  /\ j.todo \in Seq(Places)
         /\ Head(j.todo) \in Places /\ Head(j.todo) \in ToSet(j.todo)
         /\ Tail(j.todo) \in Rests(Order(j)) /\ (Len(j.todo) = 1 <=> Tail(j.todo) = <<>>)
         /\ j.only => Head(j.todo) = "known"
         /\ IF j.dir = "fwd" THEN Forward(Head(j.todo)) ELSE Backward(Head(j.todo))
         /\ \A x \in Paths \cup {"host"} :
              x \in ToSet(Tail(j.todo)) <=> x \in ToSet(j.todo) /\ x # Head(j.todo)
<1> DEFINE s == Order(j)
<1>1. s \in Seq(Places) /\ Len(s) \in 1..10
  BY Orders
<1>2. PICK k \in 1..(Len(s) + 1) : j.todo = Rest(s, k)
  BY DEF Rests
<1>3. k \in 1..Len(s) /\ k + 1 \in 1..(Len(s) + 1)
  <2>1. k # Len(s) + 1
    BY <1>1, <1>2, RestFacts
  <2> QED
    BY <1>1, <2>1
<1>4. /\ j.todo \in Seq(Places) /\ Len(j.todo) = Len(s) + 1 - k
      /\ Head(j.todo) = s[k] /\ Tail(j.todo) = Rest(s, k + 1)
      /\ ToSet(j.todo) = {s[i] : i \in k..Len(s)}
  BY <1>1, <1>2, <1>3, RestFacts
<1>5. /\ Tail(j.todo) \in Seq(Places) /\ Len(Tail(j.todo)) = Len(s) - k
      /\ ToSet(Tail(j.todo)) = {s[i] : i \in (k+1)..Len(s)}
  <2>1. PICK m \in 1..(Len(s) + 1) : m = k + 1
    BY <1>3
  <2>2. /\ Rest(s, m) \in Seq(Places) /\ Len(Rest(s, m)) = Len(s) + 1 - m
        /\ ToSet(Rest(s, m)) = {s[i] : i \in m..Len(s)}
    BY <1>1, RestFacts
  <2>3. Len(s) + 1 - m = Len(s) - k
    BY <1>1, <2>1
  <2> QED
    BY <1>4, <2>1, <2>2, <2>3
<1>6. Tail(j.todo) \in Rests(s)
  BY <1>3, <1>4 DEF Rests
<1>7. Len(j.todo) = 1 <=> Tail(j.todo) = <<>>
  <2>1. PICK t : t = Tail(j.todo)
    OBVIOUS
  <2>2. PICK n \in 1..10 : n = Len(s)
    BY <1>1
  <2>3. t \in Seq(Places) /\ Len(t) = n - k /\ Len(j.todo) = n + 1 - k
    BY <1>4, <1>5, <2>1, <2>2
  <2>4. Len(t) = 0 <=> t = <<>>
    BY <2>3, SeqEmpty
  <2>5. Len(j.todo) = 1 <=> Len(t) = 0
    BY <2>2, <2>3
  <2> QED
    BY <2>1, <2>4, <2>5
<1>8. s[k] \in {s[i] : i \in k..Len(s)}
  BY <1>1, <1>3
<1>9. \A n \in 1..Len(s) :
        /\ s[n] \in Places
        /\ j.only => s[n] = "known"
        /\ IF j.dir = "fwd" THEN Forward(s[n]) ELSE Backward(s[n])
        /\ \A x \in Paths \cup {"host"} :
             x \in {s[i] : i \in (n+1)..Len(s)} <=> x \in {s[i] : i \in n..Len(s)} /\ x # s[n]
  BY Orders
<1> HIDE DEF s
<1>10. /\ s[k] \in Places
       /\ j.only => s[k] = "known"
       /\ IF j.dir = "fwd" THEN Forward(s[k]) ELSE Backward(s[k])
       /\ \A x \in Paths \cup {"host"} :
            x \in {s[i] : i \in (k+1)..Len(s)} <=> x \in {s[i] : i \in k..Len(s)} /\ x # s[k]
  BY <1>3, <1>9
<1> QED
  BY <1>4, <1>5, <1>6, <1>7, <1>8, <1>10 DEF s

-----------------------------------------------------------------------------
(* The inductive invariant of types and control.                           *)

(* A job j at step l.                                                      *)
Ctl(l, j) ==
  /\ j.todo \in Rests(Order(j)) /\ (j.todo = <<>> <=> l = "clear")
  /\ j.err = "none" <=> j.dir = "fwd"
  /\ l = "snapshot" => j.dir = "fwd" /\ j.todo = Order(j)
  /\ l \in {"detach", "unlink", "inspect", "place"} => j.dir = "fwd" /\ Head(j.todo) \in Placed
  /\ l \in {"remove", "restore"} => j.dir = "back" /\ Head(j.todo) \in Mine
  /\ l \in {"unlink", "inspect"} => j.got # Absent
  /\ j.only => ~j.rebind

Controlled ==
  /\ job \in Jobs \cup {NoJob} /\ pc \in Pcs /\ (pc = "idle" <=> job = NoJob)
  /\ pc # "idle" => Ctl(pc, job)

(* A receipt is written for one release.                                   *)
OneRelease(c) == c # Absent => \E v \in Versions : c.own = <<v>>

World ==
  /\ disk \in Disk /\ disk["config"] # Absent
  /\ OneRelease(disk["mat"]) /\ OneRelease(disk["rec"])
  /\ want \in Versions
  /\ plan \in [want : Versions, disk : Disk] \cup {NoPlan}
  /\ hand \in [Paths -> SUBSET Notes]
  /\ edits \in 0..MaxEdits /\ faults \in 0..MaxFaults /\ crashes \in 0..MaxCrashes

SnapOK ==
  /\ snap \in Snaps /\ snap.old["config"] # Absent /\ snap.new["rec"] # Absent
  /\ \A x \in {"mat", "rec"} : OneRelease(snap.old[x]) /\ OneRelease(snap.new[x])

Record ==
  /\ pending \in BOOLEAN /\ snap \in Snaps \cup {NoSnap}
  /\ aside \subseteq Notes /\ stash \subseteq Notes
  /\ touched \subseteq Traces /\ torn \in 0..MaxVersion
  /\ pc # "idle" => SnapOK /\ (pending <=> pc # "snapshot")
  /\ pc \in {"idle", "snapshot"} => aside = {}
  /\ pc \in {"detach", "unlink", "inspect"} => Old(At1) # Absent
  /\ pc \in {"unlink", "inspect"} /\ At1 \in {"mat", "rec"} => OneRelease(job.got)

CInv == Controlled /\ World /\ Record

-----------------------------------------------------------------------------
(* Contents.                                                               *)

LEMMA Bounds ==
  /\ MaxVersion \in Nat /\ MaxVersion > 0 /\ MaxEdits \in Nat /\ MaxFaults \in Nat
  /\ MaxCrashes \in Nat /\ Absent \notin Content /\ NoJob \notin Jobs /\ 0 \in Notes
BY BoundsOK DEF Notes

LEMMA OfTyped ==
  ASSUME NEW v \in Versions
  PROVE  /\ Of(v) \in Content /\ Of(v).own = <<v>> /\ Of(v).user = 0
         /\ \A n \in Notes : Made(v, n) \in Content /\ Made(v, n).own = <<v>> /\ Made(v, n).user = n
BY Bounds DEF Of, Made, Content

LEMMA NoteTyped ==
  ASSUME World
  PROVE  /\ Note \in Notes /\ Bound \in Content
         /\ \A x \in Paths : Left(x) \in Notes /\ disk[x] \in Content \cup {Absent}
<1>1. disk["config"] \in Content
  BY DEF World, Disk, Paths
<1>2. Note \in Notes /\ Bound \in Content
  BY <1>1 DEF Note, Bound, Content
<1> QED
  BY <1>2, Bounds DEF World, Disk, Left, Content

LEMMA GroupsTyped == ASSUME World PROVE Groups \in Seq(Versions)
<1>1. disk["hooks"] \in Content \cup {Absent} /\ <<>> \in Seq(Versions)
  BY DEF World, Disk, Paths, Mine
<1> QED
  BY <1>1 DEF Groups, Content

LEMMA MergedTyped == ASSUME World PROVE Merged \in Content
<1> DEFINE G == Groups
<1>1. G \in Seq(Versions) /\ want \in Versions /\ Left("hooks") \in Notes
  BY GroupsTyped, NoteTyped DEF World, Paths, Mine
<1>2. [i \in DOMAIN G |-> IF G[i] \in Release("rec") THEN want ELSE G[i]] \in Seq(Versions)
  <2> HIDE DEF G
  <2>1. DOMAIN G = 1..Len(G) /\ Len(G) \in Nat /\ \A i \in 1..Len(G) : G[i] \in Versions
    BY <1>1
  <2> QED
    BY <1>1, <2>1
<1>3. Append(G, want) \in Seq(Versions)
  BY <1>1
<1> QED
  BY <1>1, <1>2, <1>3 DEF Merged, Content

LEMMA ReleaseIn ==
  ASSUME World, NEW x \in {"mat", "rec"}
  PROVE  /\ Release(x) \subseteq Versions
         /\ disk[x] # Absent => \E v \in Versions : disk[x].own = <<v>> /\ Release(x) = {v}
         /\ disk[x] = Absent <=> Release(x) = {}
<1>1. CASE disk[x] = Absent
  BY <1>1 DEF Release
<1>2. CASE disk[x] # Absent
  <2>1. PICK v \in Versions : disk[x].own = <<v>>
    BY <1>2 DEF World, OneRelease
  <2>2. ToSet(<<v>>) = {v}
    <3>1. DOMAIN <<v>> = 1..1 /\ <<v>>[1] = v /\ 1..1 = {1}
      OBVIOUS
    <3> QED
      BY <3>1 DEF ToSet
  <2> QED
    BY <1>2, <2>1, <2>2 DEF Release
<1> QED
  BY <1>1, <1>2

LEMMA RuntimeClean ==
  ASSUME World, ~BlockedRuntime
  PROVE  Left("runtime") = 0
<1>1. want \in Versions
  BY DEF World
<1>2. CASE disk["mat"] = Absent
  BY <1>1, <1>2, OfTyped DEF BlockedRuntime, Left
<1>3. CASE disk["mat"] # Absent
  BY <1>3, ReleaseIn, OfTyped DEF BlockedRuntime, Left
<1> QED
  BY <1>2, <1>3

LEMMA DesiredTyped ==
  ASSUME World
  PROVE  /\ Desired \in Disk
         /\ \A x \in {"mat", "rec"} : Desired[x] # Absent /\ Desired[x] = Made(want, Note)
         /\ Desired["config"] = disk["config"]
<1>1. /\ Of(want) \in Content /\ Made(want, Note) \in Content /\ Merged \in Content
      /\ Bound \in Content /\ \A x \in Paths : disk[x] \in Content \cup {Absent}
  BY OfTyped, NoteTyped, MergedTyped DEF World
<1>2. Desired \in Disk
  BY <1>1 DEF Desired, Disk
<1>3. "mat" \in Paths /\ "rec" \in Paths /\ "config" \in Paths
  BY DEF Paths
<1> QED
  BY <1>1, <1>2, <1>3, Bounds DEF Desired, Objects

LEMMA MadeIsOne == ASSUME NEW v \in Versions, NEW n \in Notes PROVE OneRelease(Made(v, n))
BY OfTyped DEF OneRelease

-----------------------------------------------------------------------------
(* How a job goes on.                                                      *)

LEMMA AtWork ==
  ASSUME Controlled, pc # "idle"
  PROVE  /\ job \in Jobs /\ Ctl(pc, job) /\ pc \in Pcs /\ NoJob \notin Jobs
         /\ job.only \in BOOLEAN /\ job.dir \in {"fwd", "back"} /\ job.rebind \in BOOLEAN
         /\ job.err \in {"none", "other", "race"} /\ job.was \subseteq Traces
         /\ job.got \in Content \cup {Absent} /\ job.todo \in Seq(Places)
BY Bounds DEF Controlled, Jobs, Places

(* What a job that is not through can count on.                            *)
LEMMA Busy ==
  ASSUME Controlled, pc \notin {"idle", "clear"}
  PROVE  /\ job.todo # <<>> /\ At1 \in Places /\ At1 \in Ahead
         /\ Tail(job.todo) \in Rests(Order(job)) /\ Tail(job.todo) \in Seq(Places)
         /\ Len(job.todo) = 1 <=> Tail(job.todo) = <<>>
         /\ job.only => At1 = "known"
         /\ IF job.dir = "fwd" THEN Forward(At1) ELSE Backward(At1)
         /\ \A x \in Paths \cup {"host"} : x \in ToSet(Tail(job.todo)) <=> x \in Ahead /\ x # At1
<1>1. job.todo \in Rests(Order(job)) /\ job.todo # <<>> /\ job.todo \in Seq(Places)
  BY AtWork DEF Ctl
<1>2. Tail(job.todo) \in Seq(Places)
  BY <1>1
<1>3. job.only \in BOOLEAN /\ job.dir \in {"fwd", "back"}
  BY AtWork
<1>4. PICK j : j = job
  OBVIOUS
<1>5. j.only \in BOOLEAN /\ j.dir \in {"fwd", "back"} /\ j.todo \in Rests(Order(j)) /\ j.todo # <<>>
  BY <1>1, <1>3, <1>4
<1>6. /\ Head(j.todo) \in Places /\ Head(j.todo) \in ToSet(j.todo)
      /\ Tail(j.todo) \in Rests(Order(j)) /\ (Len(j.todo) = 1 <=> Tail(j.todo) = <<>>)
      /\ j.only => Head(j.todo) = "known"
      /\ IF j.dir = "fwd" THEN Forward(Head(j.todo)) ELSE Backward(Head(j.todo))
      /\ \A x \in Paths \cup {"host"} :
           x \in ToSet(Tail(j.todo)) <=> x \in ToSet(j.todo) /\ x # Head(j.todo)
  BY <1>5, Todo
<1> QED
  BY <1>1, <1>2, <1>4, <1>6 DEF At1, Ahead

(* What two jobs differ in: the rest is kept.                              *)
SameJob(i, j) == i.only = j.only /\ i.rebind = j.rebind /\ i.was = j.was

(* Jobs that have been changed.                                            *)
LEMMA TodoSet ==
  ASSUME NEW j \in Jobs, NEW t \in Seq(Places), NEW i, i = [j EXCEPT !.todo = t]
  PROVE  i \in Jobs /\ i.todo = t /\ SameJob(i, j) /\ i.dir = j.dir /\ i.err = j.err /\ i.got = j.got
BY DEF Jobs, Places, SameJob

(* On to the next path, with the error e so far.                           *)
LEMMA NextPath ==
  ASSUME Controlled, pc \notin {"idle", "snapshot", "clear"},
         job' \in Jobs, SameJob(job', job), job'.dir = job.dir, job'.todo = Tail(job.todo),
         job'.err = "none" <=> job.err = "none",
         pc' = IF Len(job.todo) = 1 THEN "clear" ELSE "check"
  PROVE  /\ Controlled' /\ pc' \in {"check", "clear"}
         /\ \A x \in Paths \cup {"host"} : x \in Ahead' <=> x \in Ahead /\ x # At1
<1>1. job \in Jobs /\ Ctl(pc, job) /\ NoJob \notin Jobs
  BY AtWork
<1>2. /\ Tail(job.todo) \in Rests(Order(job))
      /\ Len(job.todo) = 1 <=> Tail(job.todo) = <<>>
      /\ \A x \in Paths \cup {"host"} : x \in ToSet(Tail(job.todo)) <=> x \in Ahead /\ x # At1
  BY Busy
<1>3. pc' \in {"check", "clear"} /\ (pc' = "clear" <=> job'.todo = <<>>)
  BY <1>2
<1>4. Order(job') = Order(job)
  BY DEF Order, SameJob
<1>5. Ctl(pc', job')
  BY <1>1, <1>2, <1>3, <1>4 DEF Ctl, SameJob
<1>6. Controlled'
  BY <1>1, <1>3, <1>5 DEF Controlled, Pcs
<1> QED
  BY <1>2, <1>3, <1>6 DEF Ahead

LEMMA ProceedStep ==
  ASSUME Controlled, pc \notin {"idle", "snapshot", "clear"}, Proceed
  PROVE  /\ Controlled' /\ pc' \in {"check", "clear"} /\ job' \in Jobs /\ SameJob(job', job)
         /\ job'.dir = job.dir /\ job'.err = job.err
         /\ \A x \in Paths \cup {"host"} : x \in Ahead' <=> x \in Ahead /\ x # At1
<1>1. /\ job' \in Jobs /\ job'.todo = Tail(job.todo) /\ SameJob(job', job)
      /\ job'.dir = job.dir /\ job'.err = job.err
  <2>1. PICK t \in Seq(Places) : t = Tail(job.todo)
    BY Busy
  <2>2. PICK i : i = [job EXCEPT !.todo = t]
    OBVIOUS
  <2>3. job \in Jobs /\ job' = i
    BY <2>1, <2>2, AtWork DEF Proceed
  <2> QED
    BY <2>1, <2>2, <2>3, TodoSet
<1> QED
  BY <1>1, NextPath DEF Proceed

LEMMA RacedStep ==
  ASSUME Controlled, pc \notin {"idle", "snapshot", "clear"}, job.dir = "back", Raced
  PROVE  /\ Controlled' /\ pc' \in {"check", "clear"} /\ job' \in Jobs /\ SameJob(job', job)
         /\ job'.dir = "back" /\ job'.err = "race"
         /\ \A x \in Paths \cup {"host"} : x \in Ahead' <=> x \in Ahead /\ x # At1
<1>1. /\ job' \in Jobs /\ job'.todo = Tail(job.todo) /\ SameJob(job', job)
      /\ job'.dir = job.dir /\ job'.err = "race"
  <2>1. PICK t \in Seq(Places) : t = Tail(job.todo)
    BY Busy
  <2>2. PICK i : i = [job EXCEPT !.err = "race", !.todo = t]
    OBVIOUS
  <2>3. job \in Jobs /\ job' = i
    BY <2>1, <2>2, AtWork DEF Raced
  <2> QED
    BY <2>1, <2>2, <2>3 DEF Jobs, Places, SameJob
<1>2. job.err # "none"
  BY AtWork DEF Ctl
<1> QED
  BY <1>1, <1>2, NextPath DEF Raced

(* What a rollback has ahead.                                              *)
Undoes(j) == IF j.only THEN {"known"} ELSE Mine \cup {"rec", "mat", "host", "known"}

LEMMA UndoTodo ==
  /\ Undoing \in Rests(Undoing) /\ Undoing # <<>>
  /\ ToSet(Undoing) = Mine \cup {"rec", "mat", "host", "known"}
  /\ <<"known">> \in Rests(<<"known">>) /\ <<"known">> # <<>> /\ ToSet(<<"known">>) = {"known"}
<1>1. Rest(Undoing, 1) = Undoing /\ Rest(<<"known">>, 1) = <<"known">>
  BY UndoingIs, KnownIs, RestAll
<1>2. DOMAIN Undoing = 1..8 /\ DOMAIN <<"known">> = 1..1
  BY UndoingIs, KnownIs
<1>3. ToSet(Undoing) = {Undoing[i] : i \in 1..8} /\ ToSet(<<"known">>) = {"known"}
  BY <1>2 DEF ToSet
<1>4. 1..8 = {1, 2, 3, 4, 5, 6, 7, 8}
  OBVIOUS
<1>5. {Undoing[i] : i \in 1..8} = Mine \cup {"rec", "mat", "host", "known"}
  BY <1>4, UndoingIs DEF Mine, Objects
<1> QED
  BY <1>1, <1>3, <1>5, UndoingIs, KnownIs DEF Rests

LEMMA TurnStep ==
  ASSUME Controlled, pc # "idle", job.dir = "fwd", NEW e \in {"other", "race"}, TurnBack(e)
  PROVE  /\ Controlled' /\ pc' = "check" /\ job' \in Jobs /\ SameJob(job', job)
         /\ job'.dir = "back" /\ job'.err = e /\ Ahead' = Undoes(job)
<1>1. job \in Jobs /\ NoJob \notin Jobs /\ Ctl(pc, job)
  BY AtWork
<1>2. Undo \in Seq(Places) /\ Undo # <<>> /\ ToSet(Undo) = Undoes(job)
  BY UndoTodo, UndoingIs, KnownIs DEF Undo, Undoes
<1>3. /\ job' \in Jobs /\ job'.todo = Undo /\ SameJob(job', job)
      /\ job'.dir = "back" /\ job'.err = e /\ pc' = "check"
  <2>1. PICK t \in Seq(Places) : t = Undo
    BY <1>2
  <2>2. PICK i : i = [job EXCEPT !.dir = "back", !.err = e, !.todo = t]
    OBVIOUS
  <2>3. job' = i /\ pc' = "check"
    BY <2>1, <2>2 DEF TurnBack
  <2> QED
    BY <1>1, <2>1, <2>2, <2>3 DEF Jobs, Places, SameJob
<1>4. Undo \in Rests(Order(job'))
  BY <1>3, UndoTodo DEF Undo, Order, SameJob
<1>5. Ctl(pc', job')
  BY <1>1, <1>2, <1>3, <1>4 DEF Ctl, SameJob
<1> QED
  BY <1>1, <1>2, <1>3, <1>5 DEF Controlled, Pcs, Ahead

LEMMA EndStep ==
  ASSUME NEW k \in BOOLEAN, End(k)
  PROVE  Controlled' /\ pc' = "idle" /\ aside' = {}
BY DEF End, Controlled, Pcs

(* The job stays and goes to another step of the same path.                *)
LEMMA GotoStep ==
  ASSUME Controlled, pc \notin {"idle", "snapshot", "clear"}, NEW l, Goto(l),
         \/ l = "inspect" /\ pc = "unlink"
         \/ l \in {"detach", "place"} /\ job.dir = "fwd" /\ At1 \in Placed
         \/ l \in {"remove", "restore"} /\ job.dir = "back" /\ At1 \in Mine
  PROVE  Controlled' /\ pc' = l /\ job' = job
<1>1. job \in Jobs /\ NoJob \notin Jobs /\ Ctl(pc, job)
  BY AtWork
<1>2. Ctl(l, job)
  BY <1>1 DEF Ctl, At1
<1> QED
  BY <1>1, <1>2 DEF Goto, Controlled, Pcs

-----------------------------------------------------------------------------
(* Types and control, step by step.                                        *)

LEMMA OnwardRecord ==
  ASSUME CInv, pc \notin {"idle", "snapshot"}, Controlled', pc' \notin {"idle", "snapshot", "unlink"},
         Onward, pc' = "detach" => Old(At1)' # Absent, pc' = "inspect" => pc = "unlink" /\ job' = job
  PROVE  Record'
BY DEF CInv, Record, Onward, SnapOK, At1, Old

LEMMA GiveUpCtl ==
  ASSUME CInv, pc \notin {"idle", "snapshot"}, GiveUp
  PROVE  Controlled' /\ Record' /\ pc' = "idle"
<1>1. Controlled' /\ pc' = "idle" /\ aside' = {}
  BY EndStep DEF GiveUp
<1>2. Record'
  BY <1>1 DEF CInv, Record, GiveUp, End
<1> QED
  BY <1>1, <1>2

LEMMA ErrorCtl ==
  ASSUME CInv, pc \notin {"idle", "snapshot"}, NEW e \in {"other", "race"}, Error(e)
  PROVE  Controlled' /\ Record'
<1>1. CASE job.dir = "fwd" /\ TurnBack(e) /\ Onward
  <2>1. Controlled' /\ pc' = "check"
    BY <1>1, TurnStep DEF CInv
  <2> QED
    BY <1>1, <2>1, OnwardRecord
<1>2. CASE job.dir = "back" /\ GiveUp
  BY <1>2, GiveUpCtl
<1> QED
  BY <1>1, <1>2 DEF Error

LEMMA ProceedCtl ==
  ASSUME CInv, pc \notin {"idle", "snapshot", "clear"}, Proceed, Onward
  PROVE  Controlled' /\ Record'
<1>1. Controlled' /\ pc' \in {"check", "clear"}
  BY ProceedStep DEF CInv
<1> QED
  BY <1>1, OnwardRecord

LEMMA RacedCtl ==
  ASSUME CInv, pc \notin {"idle", "snapshot", "clear"}, job.dir = "back", Raced
  PROVE  Controlled' /\ Record'
<1>1. Controlled' /\ pc' \in {"check", "clear"} /\ Onward
  BY RacedStep DEF CInv, Raced
<1> QED
  BY <1>1, OnwardRecord

(* The rest of the rollback, without the files.                            *)
LEMMA LeaveFilesStep ==
  ASSUME Controlled, pc = "restore", LeaveFiles
  PROVE  /\ Controlled' /\ pc' = "check" /\ job' \in Jobs /\ SameJob(job', job)
         /\ job'.dir = "back" /\ job'.err = "race" /\ ~job.only
         /\ Ahead' = {"rec", "mat", "host", "known"}
<1>1. job \in Jobs /\ NoJob \notin Jobs /\ job.dir = "back" /\ ~job.only
  <2>1. job \in Jobs /\ NoJob \notin Jobs /\ job.dir = "back" /\ At1 \in Mine
    BY AtWork DEF Ctl, At1
  <2>2. job.only => At1 = "known"
    BY Busy
  <2> QED
    BY <2>1, <2>2 DEF Mine, Objects
<1>2. /\ <<"rec", "mat", "host", "known">> \in Seq(Places)
      /\ <<"rec", "mat", "host", "known">> # <<>>
      /\ <<"rec", "mat", "host", "known">> = Rest(Undoing, 5)
      /\ ToSet(<<"rec", "mat", "host", "known">>) = {"rec", "mat", "host", "known"}
  <2>1. <<"rec", "mat", "host", "known">> \in Seq(Places)
    BY DEF Places, Paths, Mine, Objects
  <2>2. <<"rec", "mat", "host", "known">> = Rest(Undoing, 5)
    <3>1. /\ Rest(Undoing, 5) \in Seq(Places) /\ Len(Rest(Undoing, 5)) = 4
          /\ \A i \in 1..4 : Rest(Undoing, 5)[i] = Undoing[4 + i]
      <4>1. PICK u \in Seq(Places) : u = Undoing
        BY UndoingIs
      <4>2. Len(u) = 8
        BY <4>1, UndoingIs
      <4>3. PICK k \in 1..(Len(u) + 1) : k = 5
        BY <4>2
      <4>4. Rest(u, k) \in Seq(Places) /\ Len(Rest(u, k)) = Len(u) + 1 - k
        BY RestFacts
      <4>5. \A i \in 1..(Len(u) + 1 - k) : Rest(u, k)[i] = u[k + i - 1]
        BY DEF Rest
      <4>6. ASSUME NEW i \in 1..4 PROVE Rest(u, k)[i] = u[4 + i]
        <5>1. i \in 1..(Len(u) + 1 - k) /\ k + i - 1 = 4 + i
          BY <4>2, <4>3
        <5> QED
          BY <4>5, <5>1
      <4> QED
        BY <4>1, <4>2, <4>3, <4>4, <4>6
    <3>2. PICK t : t = <<"rec", "mat", "host", "known">>
      OBVIOUS
    <3>3. t \in Seq(Places) /\ Len(t) = 4 /\ t[1] = "rec" /\ t[2] = "mat" /\ t[3] = "host" /\ t[4] = "known"
      BY <2>1, <3>2
    <3>4. ASSUME NEW i \in 1..4 PROVE t[i] = Undoing[4 + i]
      <4>1. i \in {1, 2, 3, 4}
        OBVIOUS
      <4> QED
        BY <4>1, <3>3, UndoingIs
    <3> QED
      BY <3>1, <3>2, <3>3, <3>4, SeqSame
  <2>3. ToSet(<<"rec", "mat", "host", "known">>) = {"rec", "mat", "host", "known"}
    <3>1. DOMAIN <<"rec", "mat", "host", "known">> = 1..4 /\ 1..4 = {1, 2, 3, 4}
      OBVIOUS
    <3> QED
      BY <3>1 DEF ToSet
  <2> QED
    BY <2>1, <2>2, <2>3
<1>3. PICK t \in Seq(Places) : t = <<"rec", "mat", "host", "known">>
  BY <1>2
<1>4. /\ job' \in Jobs /\ job'.todo = t /\ SameJob(job', job)
      /\ job'.dir = "back" /\ job'.err = "race" /\ pc' = "check"
  <2>1. PICK i : i = [job EXCEPT !.err = "race", !.todo = t]
    OBVIOUS
  <2>2. job' = i /\ pc' = "check"
    BY <1>3, <2>1 DEF LeaveFiles
  <2> QED
    BY <1>1, <2>1, <2>2 DEF Jobs, Places, SameJob
<1>5. t \in Rests(Order(job')) /\ t # <<>> /\ ToSet(t) = {"rec", "mat", "host", "known"}
  <2>1. Order(job') = Undoing
    BY <1>1, <1>4 DEF Order, SameJob
  <2>2. 5 \in 1..(Len(Undoing) + 1)
    BY UndoingIs
  <2> QED
    BY <1>2, <1>3, <2>1, <2>2 DEF Rests
<1>6. Ctl(pc', job')
  BY <1>1, <1>4, <1>5 DEF Ctl, SameJob
<1> QED
  BY <1>1, <1>4, <1>5, <1>6 DEF Controlled, Pcs, Ahead

LEMMA LeaveFilesCtl ==
  ASSUME CInv, pc = "restore", LeaveFiles
  PROVE  Controlled' /\ Record'
<1>1. Controlled' /\ pc' = "check" /\ Onward
  BY LeaveFilesStep DEF CInv, LeaveFiles
<1> QED
  BY <1>1, OnwardRecord

LEMMA GotoCtl ==
  ASSUME CInv, pc \notin {"idle", "snapshot", "clear"}, NEW l, Goto(l), Onward,
         l = "detach" => Old(At1) # Absent,
         \/ l = "inspect" /\ pc = "unlink"
         \/ l \in {"detach", "place"} /\ job.dir = "fwd" /\ At1 \in Placed
         \/ l \in {"remove", "restore"} /\ job.dir = "back" /\ At1 \in Mine
  PROVE  Controlled' /\ Record'
<1>1. Controlled' /\ pc' = l /\ job' = job /\ Old(At1)' = Old(At1)
  BY GotoStep DEF CInv, Onward, Old, At1
<1> QED
  BY <1>1, OnwardRecord

(* A step that writes at most one path.                                    *)
LEMMA WorldStep ==
  ASSUME World, UNCHANGED <<want, plan, hand, counts>>,
         \/ disk' = disk
         \/ \E x \in Paths, v \in Content \cup {Absent} :
              /\ disk' = [disk EXCEPT ![x] = v]
              /\ x = "config" => v # Absent
              /\ x \in {"mat", "rec"} => OneRelease(v)
  PROVE  World'
<1>1. CASE disk' = disk
  BY <1>1 DEF World, counts
<1>2. ASSUME NEW x \in Paths, NEW v \in Content \cup {Absent},
             disk' = [disk EXCEPT ![x] = v],
             x = "config" => v # Absent,
             x \in {"mat", "rec"} => OneRelease(v)
      PROVE  World'
  <2>1. /\ disk' \in Disk /\ \A y \in Paths : disk'[y] = IF y = x THEN v ELSE disk[y]
        /\ "config" \in Paths /\ "mat" \in Paths /\ "rec" \in Paths
    BY <1>2 DEF World, Disk, Paths
  <2> QED
    BY <1>2, <2>1 DEF World, counts, OneRelease
<1> QED
  BY <1>1, <1>2

(* What the snapshot holds.                                                *)
LEMMA SnapAt ==
  ASSUME CInv, pc # "idle"
  PROVE  /\ SnapOK /\ snap.old \in Disk /\ snap.new \in Disk
         /\ \A x \in Paths : /\ Old(x) \in Content \cup {Absent} /\ New(x) \in Content \cup {Absent}
                             /\ Old(x) = snap.old[x] /\ New(x) = snap.new[x]
         /\ disk \in Disk /\ \A x \in Paths : disk[x] \in Content \cup {Absent}
         /\ Placed \subseteq Paths /\ Mine \subseteq Placed /\ Mine \subseteq Paths
         /\ {"rec", "mat", "known", "hooks", "tool", "runtime", "pin", "config", "binding"} = Paths
BY DEF CInv, Record, SnapOK, Snaps, Disk, Old, New, World, Placed, Paths, Mine, Objects

LEMMA PreviewCtl == ASSUME CInv, Preview PROVE CInv'
<1>1. Plan \in [want : Versions, disk : Disk]
  BY DEF Plan, CInv, World
<1>2. World'
  BY <1>1 DEF Preview, CInv, World, world, history, counts
<1>3. Controlled' /\ Record'
  BY DEF Preview, CInv, Controlled, Record, record, history, SnapOK, At1, Old
<1> QED
  BY <1>2, <1>3 DEF CInv

LEMMA NewSnap ==
  ASSUME CInv, NEW n, n = IF NoChanges THEN [disk EXCEPT !["known"] = Of(want)] ELSE Desired,
         NEW s, s = [old |-> disk, new |-> n]
  PROVE  /\ s \in Snaps /\ s.old = disk /\ s.new = n
         /\ s.old["config"] # Absent /\ s.new["rec"] # Absent
         /\ \A x \in {"mat", "rec"} : OneRelease(s.old[x]) /\ OneRelease(s.new[x])
<1>1. /\ Desired \in Disk
      /\ \A x \in {"mat", "rec"} : Desired[x] # Absent /\ OneRelease(Desired[x])
  BY DesiredTyped, MadeIsOne, NoteTyped DEF CInv, World
<1>2. ASSUME NoChanges
      PROVE  n \in Disk /\ n["rec"] # Absent /\ \A x \in {"mat", "rec"} : OneRelease(n[x])
  <2>1. disk["rec"] # Absent
    BY <1>2 DEF NoChanges, Release
  <2>2. Of(want) \in Content /\ disk \in Disk
    BY OfTyped DEF CInv, World
  <2>3. n \in Disk /\ \A x \in {"mat", "rec"} : n[x] = disk[x]
    BY <1>2, <2>2 DEF Disk, Paths
  <2> QED
    BY <2>1, <2>3 DEF CInv, World
<1> QED
  BY <1>1, <1>2 DEF CInv, World, Snaps

LEMMA BeginCtl == ASSUME CInv, Begin PROVE CInv'
<1>1. World'
  BY DEF Begin, CInv, World, world, history, counts
<1>2. CASE UNCHANGED <<job, pc, snap, touched>>
  BY <1>1, <1>2 DEF Begin, CInv, Controlled, Record, SnapOK, At1, Old, counts
<1>3. CASE ~(~Ready \/ plan # Plan \/ (NoChanges /\ disk["known"] = Of(want)))
  <2> DEFINE t == IF NoChanges THEN <<"known">> ELSE Placing
             j == [todo |-> t, dir |-> "fwd", err |-> "none", only |-> NoChanges,
                   rebind |-> BindingPending /\ ~NoChanges, was |-> touched, got |-> Absent]
             n == IF NoChanges THEN [disk EXCEPT !["known"] = Of(want)] ELSE Desired
  <2>1. job' = j /\ snap' = [old |-> disk, new |-> n] /\ pc' = "snapshot"
    BY <1>3 DEF Begin
  <2>2. touched' \subseteq Traces /\ aside' = {} /\ pending' = FALSE
    BY <1>3 DEF Begin, CInv, Record, Traces, Ready
  <2>3. /\ t \in Seq(Places) /\ t # <<>>
        /\ t \in Rests(t)
    <3>1. t \in Seq(Places) /\ t # <<>> /\ Len(t) \in Nat
      BY PlacingIs, KnownIs
    <3> HIDE DEF t
    <3>2. Rest(t, 1) = t /\ 1 \in 1..(Len(t) + 1)
      BY <3>1, RestAll
    <3> QED
      BY <3>1, <3>2 DEF Rests
  <2>4. NoChanges \in BOOLEAN /\ (BindingPending /\ ~NoChanges) \in BOOLEAN
    BY DEF NoChanges, BindingPending
  <2>5. j \in Jobs
    BY <2>3, <2>4 DEF Jobs, Places, CInv, Record
  <2>6. Ctl("snapshot", j)
    BY <2>3 DEF Ctl, Order
  <2>7. Controlled'
    BY <2>1, <2>5, <2>6, Bounds DEF Controlled, Pcs
  <2>8. Record'
    BY <2>1, <2>2, NewSnap DEF Begin, CInv, Record, SnapOK
  <2> QED
    BY <1>1, <2>7, <2>8 DEF CInv
<1> QED
  BY <1>2, <1>3 DEF Begin

LEMMA SnapshotCtl == ASSUME CInv, Snapshot PROVE CInv'
<1>1. pc = "snapshot" /\ pc # "idle"
  BY DEF Snapshot
<1>2. World'
  BY DEF Snapshot, CInv, World, world, counts
<1>3. job \in Jobs /\ Ctl(pc, job) /\ job.todo # <<>> /\ NoJob \notin Jobs
  BY <1>1, AtWork, Busy DEF CInv
<1>4. CASE /\ pending' = TRUE
           /\ snap' = [snap EXCEPT !.old["config"] = disk["config"],
                                   !.old["binding"] = disk["binding"]]
           /\ aside' = {Left(x) : x \in Copied} \ {0}
           /\ pc' = "check"
           /\ UNCHANGED <<job, touched, stash>>
  <2>1. Ctl(pc', job')
    BY <1>1, <1>3, <1>4 DEF Ctl
  <2>2. Controlled'
    BY <1>3, <1>4, <2>1 DEF Controlled, Pcs
  <2>3. aside' \subseteq Notes
    <3>1. Copied \subseteq Paths
      BY DEF Copied, Paths
    <3> QED
      BY <1>4, <3>1, NoteTyped DEF CInv
  <2>4. /\ disk["config"] \in Content /\ disk["binding"] \in Content \cup {Absent}
        /\ snap.old \in Disk /\ snap.new \in Disk /\ snap \in Snaps
    BY <1>1, SnapAt DEF CInv, World, Disk, Paths, SnapOK
  <2>5. /\ snap' \in Snaps /\ snap'.new = snap.new
        /\ \A x \in Paths : snap'.old[x] = IF x \in {"config", "binding"} THEN disk[x] ELSE snap.old[x]
    BY <1>4, <2>4 DEF Snaps, Disk
  <2>6. SnapOK'
    BY <1>1, <2>4, <2>5, SnapAt, Bounds DEF SnapOK, Paths
  <2>7. Record'
    BY <1>4, <2>3, <2>6, <2>5 DEF Snapshot, CInv, Record
  <2> QED
    BY <1>2, <2>2, <2>7 DEF CInv
<1>5. CASE End(FALSE) /\ touched' = touched \cup job.was /\ UNCHANGED pending
  <2>1. Controlled' /\ pc' = "idle" /\ aside' = {}
    BY <1>5, EndStep
  <2>2. Record'
    BY <1>1, <1>3, <1>5, <2>1, AtWork DEF Snapshot, CInv, Record, End
  <2> QED
    BY <1>2, <2>1, <2>2 DEF CInv
<1> QED
  BY <1>4, <1>5 DEF Snapshot

LEMMA CheckPathCtl == ASSUME CInv, CheckPath PROVE CInv'
<1> DEFINE x == At1
<1>1. pc = "check" /\ job.dir = "fwd" /\ At1 # "binding" /\ pc \notin {"idle", "snapshot", "clear"}
  BY DEF CheckPath
<1>2. World'
  BY WorldStep DEF CheckPath, CInv, world
<1>3. Forward(At1)
  BY <1>1, Busy DEF CInv
<1>4. CASE Proceed /\ Onward
  BY <1>1, <1>2, <1>4, ProceedCtl DEF CInv
<1>5. ASSUME NEW e \in {"other", "race"}, Error(e) PROVE CInv'
  BY <1>1, <1>2, <1>5, ErrorCtl DEF CInv
<1>6. CASE At1 # "verify" /\ Replace(At1)
  <2>1. PICK l \in {"detach", "place"} : Goto(l) /\ Onward /\ (l = "detach" => Old(At1) # Absent)
    BY <1>6 DEF Replace
  <2>2. At1 \in Placed
    BY <1>1, <1>3, <1>6 DEF Forward
  <2>3. Controlled' /\ Record'
    BY <1>1, <2>1, <2>2, GotoCtl
  <2> QED
    BY <1>2, <2>3 DEF CInv
<1> QED
  BY <1>4, <1>5, <1>6 DEF CheckPath, Verify

LEMMA AttachCtl == ASSUME CInv, Attach PROVE CInv'
<1>1. pc = "check" /\ pc \notin {"idle", "snapshot", "clear"} /\ "binding" \in Paths
  BY DEF Attach, Paths
<1>2. World'
  <2>1. Bound \in Content
    BY NoteTyped DEF CInv
  <2> QED
    BY <1>1, <2>1, WorldStep DEF Attach, CInv
<1>3. CASE Proceed /\ Onward
  BY <1>1, <1>2, <1>3, ProceedCtl DEF CInv
<1>4. CASE Error("other")
  BY <1>1, <1>2, <1>4, ErrorCtl DEF CInv
<1> QED
  BY <1>3, <1>4 DEF Attach

LEMMA DetachCtl == ASSUME CInv, Detach PROVE CInv'
<1>1. /\ pc = "detach" /\ pc \notin {"idle", "snapshot", "clear"}
      /\ job \in Jobs /\ Ctl(pc, job) /\ NoJob \notin Jobs
  BY AtWork DEF Detach, CInv
<1>2. At1 \in Paths /\ At1 # "config"
  BY <1>1 DEF Ctl, At1, Placed, Paths, Mine, Objects
<1>3. World'
  BY WorldStep DEF Detach, CInv, world
<1>4. CASE /\ disk[At1] # Absent
           /\ job' = [job EXCEPT !.got = disk[At1]]
           /\ aside' = aside \cup ({disk[At1].user} \ {0})
           /\ pc' = "unlink"
           /\ UNCHANGED <<pending, snap, touched, torn, stash>>
  <2>1. disk[At1] \in Content
    BY <1>2, <1>4 DEF CInv, World, Disk
  <2>2. /\ job' \in Jobs /\ job'.todo = job.todo /\ SameJob(job', job) /\ job'.dir = job.dir
        /\ job'.err = job.err /\ job'.got = disk[At1]
    BY <1>1, <1>4, <2>1 DEF Jobs, SameJob
  <2>3. Order(job') = Order(job)
    BY <2>2 DEF Order, SameJob
  <2>4. Ctl(pc', job')
    BY <1>1, <1>4, <2>2, <2>3 DEF Ctl, SameJob
  <2>5. Controlled'
    BY <1>1, <1>4, <2>2, <2>4 DEF Controlled, Pcs
  <2>6. At1' = At1 /\ aside' \subseteq Notes
    BY <1>4, <2>1, <2>2 DEF At1, Content, CInv, Record
  <2>7. Record'
    BY <1>1, <1>4, <2>2, <2>6 DEF CInv, Record, SnapOK, World, Old
  <2> QED
    BY <1>3, <2>5, <2>7 DEF CInv
<1>5. CASE Error("race")
  BY <1>1, <1>3, <1>5, ErrorCtl DEF CInv
<1> QED
  BY <1>4, <1>5 DEF Detach

LEMMA DropNameCtl == ASSUME CInv, DropName PROVE CInv'
<1>1. /\ pc = "unlink" /\ pc \notin {"idle", "snapshot", "clear"}
      /\ job \in Jobs /\ Ctl(pc, job) /\ NoJob \notin Jobs
  BY AtWork DEF DropName, CInv
<1>2. At1 \in Paths /\ At1 # "config"
  BY <1>1 DEF Ctl, At1, Placed, Paths, Mine, Objects
<1>3. World'
  BY <1>2, WorldStep DEF DropName, CInv, OneRelease
<1>4. CASE Goto("inspect") /\ Onward
  <2>1. Controlled' /\ Record'
    BY <1>1, <1>4, GotoCtl
  <2> QED
    BY <1>3, <2>1 DEF CInv
<1>5. CASE Error("race")
  BY <1>1, <1>3, <1>5, ErrorCtl DEF CInv
<1> QED
  BY <1>4, <1>5 DEF DropName

LEMMA InspectCtl == ASSUME CInv, Inspect PROVE CInv'
<1>1. /\ pc = "inspect" /\ pc \notin {"idle", "snapshot", "clear"}
      /\ job \in Jobs /\ Ctl(pc, job) /\ NoJob \notin Jobs
  BY AtWork DEF Inspect, CInv
<1>2. At1 \in Paths /\ At1 # "config" /\ At1 \in Placed /\ job.dir = "fwd" /\ job.got \in Content
  BY <1>1, AtWork DEF Ctl, At1, Placed, Paths, Mine, Objects, CInv
<1>3. World'
  <2>1. At1 \in {"mat", "rec"} => OneRelease(job.got)
    BY <1>1 DEF CInv, Record
  <2> QED
    BY <1>2, <2>1, WorldStep DEF Inspect, CInv
<1>4. CASE Goto("place") /\ Onward
  BY <1>1, <1>2, <1>3, <1>4, GotoCtl DEF CInv
<1>5. CASE TurnBack("race") /\ UNCHANGED <<pending, snap, touched, torn, stash>>
  <2>1. Controlled' /\ pc' = "check"
    BY <1>1, <1>2, <1>5, TurnStep DEF CInv
  <2>2. aside' \subseteq Notes
    <3>1. Old(At1) # Absent /\ Old(At1).user \in Notes
      BY <1>1, <1>2, SnapAt DEF Content, CInv, Record
    <3> QED
      BY <3>1 DEF Inspect, Onward, CInv, Record
  <2>3. Record'
    BY <1>1, <1>5, <2>1, <2>2 DEF CInv, Record, SnapOK
  <2> QED
    BY <1>3, <2>1, <2>3 DEF CInv
<1> QED
  BY <1>4, <1>5 DEF Inspect

LEMMA PlaceCtl == ASSUME CInv, Place PROVE CInv'
<1>1. /\ pc = "place" /\ pc \notin {"idle", "snapshot", "clear"}
      /\ job \in Jobs /\ Ctl(pc, job) /\ At1 \in Paths /\ At1 # "config"
  BY AtWork DEF Place, CInv, Ctl, At1, Placed, Paths, Mine, Objects
<1>2. CASE /\ disk[At1] = Absent
           /\ snap' = IF At1 = "rec" THEN [snap EXCEPT !.new["rec"].user = Note] ELSE snap
           /\ disk' = [disk EXCEPT ![At1] = snap'.new[At1]]
           /\ Proceed
           /\ UNCHANGED <<pending, aside, touched, torn, stash>>
  <2>1. SnapOK /\ snap.old \in Disk /\ snap.new \in Disk /\ snap.new["rec"] \in Content
    BY <1>1, SnapAt DEF SnapOK
  <2>2. [snap.new["rec"] EXCEPT !.user = Note] \in Content
    BY <2>1, NoteTyped DEF Content, CInv
  <2>3. /\ snap' \in Snaps /\ snap'.old = snap.old
        /\ \A x \in Paths : snap'.new[x] = IF At1 = "rec" /\ x = "rec"
                                          THEN [snap.new["rec"] EXCEPT !.user = Note] ELSE snap.new[x]
    BY <1>2, <2>1, <2>2 DEF Snaps, Disk, SnapOK
  <2>4. [snap.new["rec"] EXCEPT !.user = Note].own = snap.new["rec"].own
    BY <2>1 DEF Content
  <2>5. SnapOK'
    BY <2>1, <2>2, <2>3, <2>4, Bounds DEF SnapOK, OneRelease, Paths
  <2>6. World'
    <3>1. PICK v \in Content \cup {Absent} : v = snap'.new[At1]
      BY <1>1, <2>3 DEF Snaps, Disk
    <3>2. At1 \in {"mat", "rec"} => OneRelease(v)
      BY <2>5, <3>1 DEF SnapOK
    <3> QED
      BY <1>1, <1>2, <3>1, <3>2, WorldStep DEF Place, CInv
  <2>7. Controlled' /\ pc' \in {"check", "clear"}
    BY <1>1, <1>2, ProceedStep DEF CInv
  <2>8. Record'
    BY <1>1, <1>2, <2>3, <2>5, <2>7 DEF CInv, Record
  <2> QED
    BY <2>6, <2>7, <2>8 DEF CInv
<1>3. CASE Error("race") /\ UNCHANGED disk
  <2>1. World'
    BY <1>3, WorldStep DEF Place, CInv
  <2> QED
    BY <1>1, <1>3, <2>1, ErrorCtl DEF CInv
<1> QED
  BY <1>2, <1>3 DEF Place

LEMMA UndoFileCtl == ASSUME CInv, UndoFile PROVE CInv'
<1>1. /\ pc = "check" /\ pc \notin {"idle", "snapshot", "clear"} /\ job.dir = "back" /\ At1 \in Mine
      /\ UNCHANGED <<disk, want, plan, hand, counts>>
  BY DEF UndoFile, world
<1>2. World'
  BY <1>1, WorldStep DEF CInv
<1>3. CASE Proceed /\ Onward
  BY <1>1, <1>2, <1>3, ProceedCtl DEF CInv
<1>4. CASE Raced
  BY <1>1, <1>2, <1>4, RacedCtl DEF CInv
<1>5. ASSUME NEW l \in {"restore", "remove"}, Goto(l), Onward PROVE CInv'
  <2>1. Controlled' /\ Record'
    BY <1>1, <1>5, GotoCtl
  <2> QED
    BY <1>2, <2>1 DEF CInv
<1> QED
  BY <1>3, <1>4, <1>5 DEF UndoFile

LEMMA UnlinkCtl == ASSUME CInv, Unlink PROVE CInv'
<1>1. /\ pc = "remove" /\ pc \notin {"idle", "snapshot", "clear"} /\ job.dir = "back" /\ At1 \in Mine
      /\ At1 \in Paths /\ At1 \notin {"config", "mat", "rec"}
  BY AtWork DEF Unlink, CInv, Ctl, At1, Paths, Mine, Objects
<1>2. World'
  BY <1>1, WorldStep DEF Unlink, CInv
<1>3. CASE Proceed /\ Onward
  BY <1>1, <1>2, <1>3, ProceedCtl DEF CInv
<1>4. CASE Goto("restore") /\ Onward
  <2>1. Controlled' /\ Record'
    BY <1>1, <1>4, GotoCtl
  <2> QED
    BY <1>2, <2>1 DEF CInv
<1> QED
  BY <1>3, <1>4 DEF Unlink

LEMMA RestoreCtl == ASSUME CInv, Restore PROVE CInv'
<1>1. /\ pc = "restore" /\ pc \notin {"idle", "snapshot", "clear"} /\ job.dir = "back"
      /\ At1 \in Paths /\ At1 \notin {"config", "mat", "rec"}
  BY AtWork DEF Restore, CInv, Ctl, At1, Paths, Mine, Objects
<1>2. Old(At1) \in Content \cup {Absent}
  BY <1>1, SnapAt
<1>3. World'
  BY <1>1, <1>2, WorldStep DEF Restore, CInv
<1>4. CASE Proceed /\ Onward
  BY <1>1, <1>3, <1>4, ProceedCtl DEF CInv
<1>5. CASE Raced
  BY <1>1, <1>3, <1>5, RacedCtl DEF CInv
<1>6. CASE GiveUp
  BY <1>1, <1>3, <1>6, GiveUpCtl DEF CInv
<1>7. CASE LeaveFiles
  BY <1>1, <1>3, <1>7, LeaveFilesCtl DEF CInv
<1> QED
  BY <1>4, <1>5, <1>6, <1>7 DEF Restore

LEMMA UndoReceiptCtl == ASSUME CInv, UndoReceipt PROVE CInv'
<1>1. /\ pc = "check" /\ pc \notin {"idle", "snapshot", "clear"} /\ job.dir = "back"
      /\ At1 \in {"rec", "mat", "known"} /\ At1 \in Paths
  BY DEF UndoReceipt, Paths
<1>2. Old(At1) \in Content \cup {Absent} /\ (At1 \in {"mat", "rec"} => OneRelease(Old(At1)))
  BY <1>1, SnapAt DEF SnapOK
<1>3. World'
  BY <1>1, <1>2, WorldStep DEF UndoReceipt, CInv
<1>4. CASE Proceed /\ Onward
  BY <1>1, <1>3, <1>4, ProceedCtl DEF CInv
<1>5. CASE Raced
  BY <1>1, <1>3, <1>5, RacedCtl DEF CInv
<1>6. CASE GiveUp
  BY <1>1, <1>3, <1>6, GiveUpCtl DEF CInv
<1> QED
  BY <1>4, <1>5, <1>6 DEF UndoReceipt

LEMMA UndoHostCtl == ASSUME CInv, UndoHost PROVE CInv'
<1>1. pc = "check" /\ pc \notin {"idle", "snapshot", "clear"} /\ Proceed /\ Onward
  BY DEF UndoHost
<1>2. World'
  <2>1. CASE disk' = disk
    BY <2>1, WorldStep DEF UndoHost, CInv
  <2>2. CASE disk' = [disk EXCEPT !["config"] = Old("config"), !["binding"] = Old("binding")]
    <3>1. /\ Old("config") \in Content /\ Old("binding") \in Content \cup {Absent}
          /\ disk \in Disk
      BY <1>1, SnapAt DEF SnapOK
    <3>2. /\ disk' \in Disk
          /\ \A x \in Paths : disk'[x] = IF x \in {"config", "binding"} THEN Old(x) ELSE disk[x]
      BY <2>2, <3>1 DEF Disk
    <3> QED
      BY <3>1, <3>2, Bounds DEF UndoHost, CInv, World, Paths, counts, OneRelease
  <2> QED
    BY <2>1, <2>2 DEF UndoHost
<1>3. Controlled' /\ Record'
  BY <1>1, ProceedCtl
<1> QED
  BY <1>2, <1>3 DEF CInv

LEMMA ClearCtl == ASSUME CInv, Clear PROVE CInv'
<1>1. pc = "clear" /\ pc \notin {"idle", "snapshot"} /\ job \in Jobs
  BY AtWork DEF Clear, CInv
<1>2. World'
  BY WorldStep DEF Clear, CInv, world
<1>3. CASE /\ pending' = FALSE
           /\ End(job.dir = "fwd" /\ ~job.only)
           /\ touched' = IF job.dir = "fwd" /\ ~job.only THEN touched ELSE touched \cup job.was
           /\ torn' = IF job.dir = "fwd" THEN 0 ELSE torn
  <2>1. Controlled' /\ pc' = "idle" /\ aside' = {}
    BY <1>1, <1>3, EndStep DEF Jobs
  <2>2. /\ snap' \in Snaps \cup {NoSnap} /\ stash' \subseteq Notes
        /\ touched' \subseteq Traces /\ torn' \in 0..MaxVersion
    <3>1. job.was \subseteq Traces /\ 0 \in 0..MaxVersion
      BY <1>1, AtWork, Bounds DEF CInv
    <3>2. /\ snap' \in {snap, NoSnap} /\ stash' \in {stash, stash \cup aside}
          /\ touched' \in {touched, touched \cup job.was} /\ torn' \in {0, torn}
      BY <1>3 DEF End
    <3> QED
      BY <3>1, <3>2 DEF CInv, Record
  <2>3. Record'
    BY <1>3, <2>1, <2>2 DEF Record
  <2> QED
    BY <1>2, <2>1, <2>3 DEF CInv
<1>4. CASE GiveUp
  BY <1>1, <1>2, <1>4, GiveUpCtl DEF CInv
<1> QED
  BY <1>3, <1>4 DEF Clear

LEMMA FaultCtl == ASSUME CInv, Fault PROVE CInv'
<1>1. pc \notin {"idle", "snapshot"} /\ (Error("other") \/ Error("race"))
  BY DEF Fault
<1>2. World'
  BY Bounds DEF Fault, CInv, World, world
<1> QED
  BY <1>1, <1>2, ErrorCtl DEF CInv

LEMMA CrashCtl == ASSUME CInv, Crash PROVE CInv'
<1>1. pc # "idle" /\ pending \in BOOLEAN
  BY DEF Crash, Idle, CInv, Controlled, Record
<1>2. Controlled' /\ pc' = "idle" /\ aside' = {}
  BY <1>1, EndStep DEF Crash
<1>3. World'
  BY Bounds DEF Crash, CInv, World, world
<1>4. torn' \in 0..MaxVersion
  <2>1. PICK v \in Versions : New("rec").own = <<v>>
    BY <1>1, SnapAt DEF SnapOK, OneRelease
  <2>2. Head(New("rec").own) = v
    BY <2>1
  <2> QED
    BY <2>2, Bounds DEF Crash, CInv, Record, Versions
<1>5. Record'
  BY <1>1, <1>2, <1>4, AtWork DEF Crash, CInv, Record, End
<1> QED
  BY <1>2, <1>3, <1>5 DEF CInv

-----------------------------------------------------------------------------
(* The user.                                                               *)

(* What the user does to a path leaves everything else alone.              *)
LEMMA HandsOff ==
  ASSUME CInv, World', UNCHANGED <<record, control, torn, stash>>, touched' \subseteq Traces
  PROVE  CInv'
<1>1. Controlled'
  BY DEF CInv, Controlled, control
<1>2. Record'
  BY DEF CInv, Record, record, control, SnapOK, At1, Old
<1> QED
  BY <1>1, <1>2 DEF CInv

(* A save in place changes what was linked into the snapshot, too.         *)
LEMMA SaveCtl ==
  ASSUME CInv, World', NEW x \in Paths \ {"mat", "rec"}, NEW v \in Content, Save(x, v),
         UNCHANGED <<pending, snap, plan, pc, torn, stash>>, touched' \subseteq Traces
  PROVE  CInv'
<1>1. CASE UNCHANGED <<aside, job>>
  BY <1>1, HandsOff DEF record, control
<1>2. CASE /\ Linked(x)
           /\ job' = [job EXCEPT !.got = v]
           /\ aside' = (aside \ {job.got.user}) \cup ({Old(x).user, v.user} \ {0})
  <2>1. pc = "unlink" /\ x = At1 /\ job \in Jobs /\ Ctl(pc, job) /\ NoJob \notin Jobs
    BY <1>2, AtWork DEF Linked, CInv
  <2>2. /\ job' \in Jobs /\ job'.todo = job.todo /\ SameJob(job', job) /\ job'.dir = job.dir
        /\ job'.err = job.err /\ job'.got = v
    BY <1>2, <2>1 DEF Jobs, SameJob
  <2>3. Order(job') = Order(job)
    BY <2>2 DEF Order, SameJob
  <2>4. Ctl(pc', job')
    BY <2>1, <2>2, <2>3, Bounds DEF Ctl, SameJob
  <2>5. Controlled'
    BY <2>1, <2>2, <2>4 DEF Controlled, Pcs
  <2>6. Old(x) \in Content
    BY <2>1, SnapAt DEF CInv, Record
  <2>7. At1' = At1 /\ aside' \subseteq Notes
    BY <1>2, <2>2, <2>6 DEF At1, Content, CInv, Record
  <2>8. Record'
    BY <2>1, <2>2, <2>7 DEF CInv, Record, SnapOK, Old
  <2> QED
    BY <2>5, <2>8 DEF CInv
<1> QED
  BY <1>1, <1>2 DEF Save

LEMMA UserWorld ==
  ASSUME World, want' \in Versions, UNCHANGED <<plan, faults, crashes>>,
         edits' \in 0..MaxEdits, hand' \in [Paths -> SUBSET Notes],
         disk' \in Disk, disk'["config"] # Absent,
         OneRelease(disk'["mat"]), OneRelease(disk'["rec"])
  PROVE  World'
BY DEF World

LEMMA EditsCount == ASSUME CInv, edits < MaxEdits PROVE edits + 1 \in Notes /\ edits + 1 \in 0..MaxEdits
BY Bounds DEF CInv, World, Notes

LEMMA EditCtl ==
  ASSUME CInv, NEW x \in {"tool", "runtime", "hooks", "config"}, Edit(x)
  PROVE  CInv'
<1>1. edits' = edits + 1 /\ edits' \in Notes /\ edits' \in 0..MaxEdits
  BY EditsCount DEF Edit
<1>2. Edited(x, edits') \in Content
  BY <1>1, GroupsTyped DEF Edited, Content, CInv
<1>3. x \in Paths /\ x \notin {"mat", "rec"} /\ x \in Traces
  BY DEF Paths, Mine, Objects, Traces
<1>4. /\ disk' \in Disk
      /\ \A y \in Paths : disk'[y] = IF y = x THEN Edited(x, edits') ELSE disk[y]
  BY <1>2, <1>3 DEF Edit, Save, CInv, World, Disk
<1>5. hand' \in [Paths -> SUBSET Notes]
  BY <1>1, <1>3 DEF Edit, CInv, World
<1>6. World'
  <2>1. disk'["config"] # Absent /\ disk'["mat"] = disk["mat"] /\ disk'["rec"] = disk["rec"]
    BY <1>2, <1>3, <1>4, Bounds DEF CInv, World, Paths
  <2> QED
    BY <1>1, <1>4, <1>5, <2>1, UserWorld DEF Edit, CInv, World
<1>7. touched' \subseteq Traces
  BY <1>3 DEF Edit, CInv, Record
<1> QED
  BY <1>2, <1>3, <1>6, <1>7, SaveCtl DEF Edit

LEMMA StripCtl == ASSUME CInv, Strip PROVE CInv'
<1>1. edits' = edits + 1 /\ edits' \in 0..MaxEdits
  BY EditsCount DEF Strip
<1>2. "hooks" \in Paths /\ {"hooks", "group"} \subseteq Traces
  BY DEF Paths, Mine, Traces
<1>3. disk["hooks"] \in Content
  BY <1>2, NoteTyped DEF Strip, Groups, CInv
<1>4. [disk["hooks"] EXCEPT !.own = <<>>] \in Content
  <2>1. <<>> \in Seq(Versions)
    OBVIOUS
  <2> QED
    BY <1>3, <2>1 DEF Content
<1>5. /\ disk' \in Disk
      /\ \A y \in Paths : y # "hooks" => disk'[y] = disk[y]
  BY <1>2, <1>4 DEF Strip, Save, CInv, World, Disk
<1>6. World'
  <2>1. /\ disk'["config"] = disk["config"] /\ disk'["mat"] = disk["mat"]
        /\ disk'["rec"] = disk["rec"]
    BY <1>5 DEF Paths
  <2> QED
    BY <1>1, <1>5, <2>1, UserWorld DEF Strip, CInv, World
<1>7. touched' \subseteq Traces
  BY <1>2 DEF Strip, CInv, Record
<1> QED
  BY <1>2, <1>4, <1>6, <1>7, SaveCtl DEF Strip

LEMMA MoveAsideCtl ==
  ASSUME CInv, NEW x \in Paths \ {"config"}, MoveAside(x)
  PROVE  CInv'
<1>1. edits' = edits + 1 /\ edits' \in 0..MaxEdits
  BY EditsCount DEF MoveAside
<1>2. /\ disk' \in Disk
      /\ \A y \in Paths : disk'[y] = IF y = x THEN Absent ELSE disk[y]
  BY DEF MoveAside, CInv, World, Disk
<1>3. hand' \in [Paths -> SUBSET Notes]
  BY DEF MoveAside, CInv, World
<1>4. World'
  <2>1. /\ disk'["config"] = disk["config"] /\ disk'["mat"] \in {Absent, disk["mat"]}
        /\ disk'["rec"] \in {Absent, disk["rec"]}
    BY <1>2 DEF Paths
  <2>2. OneRelease(disk'["mat"]) /\ OneRelease(disk'["rec"])
    BY <2>1 DEF OneRelease, CInv, World
  <2> QED
    BY <1>1, <1>2, <1>3, <2>1, <2>2, UserWorld DEF MoveAside, CInv, World, control
<1>5. touched' \subseteq Traces
  BY DEF MoveAside, CInv, Record, Traces
<1> QED
  BY <1>4, <1>5, HandsOff DEF MoveAside

LEMMA InspectedCtl == ASSUME CInv, Inspected PROVE CInv'
<1>1. World'
  <2>1. hand' \in [Paths -> SUBSET Notes]
    BY DEF Inspected, CInv, World
  <2> QED
    BY <2>1, UserWorld DEF Inspected, CInv, World, world, control, counts
<1>2. Controlled'
  BY DEF Inspected, CInv, Controlled, control
<1>3. Record'
  BY <1>2 DEF Inspected, CInv, Record, Controlled, Idle, control
<1> QED
  BY <1>1, <1>2, <1>3 DEF CInv

LEMMA UpgradeCtl == ASSUME CInv, Upgrade PROVE CInv'
<1>1. want' \in Versions
  BY Bounds DEF Upgrade, CInv, World, Versions
<1>2. World'
  BY <1>1 DEF Upgrade, CInv, World, control, counts, history
<1> QED
  BY <1>2, HandsOff DEF Upgrade, CInv, Record, history

LEMMA SyncRuntimeCtl == ASSUME CInv, SyncRuntime PROVE CInv'
<1>1. /\ Of(want) \in Content /\ Made(want, Note) \in Content /\ OneRelease(Made(want, Note))
  BY OfTyped, NoteTyped, MadeIsOne DEF CInv, World
<1>2. /\ disk' \in Disk
      /\ \A y \in Paths : disk'[y] = IF y = "mat" THEN Made(want, Note)
                                   ELSE IF y \in {"runtime", "known"} THEN Of(want) ELSE disk[y]
  BY <1>1 DEF SyncRuntime, CInv, World, Disk
<1>3. World'
  <2>1. /\ disk'["config"] = disk["config"] /\ disk'["mat"] = Made(want, Note)
        /\ disk'["rec"] = disk["rec"]
    BY <1>2 DEF Paths
  <2> QED
    BY <1>1, <1>2, <2>1, UserWorld DEF SyncRuntime, CInv, World, control, counts
<1>4. touched' \subseteq Traces
  BY DEF SyncRuntime, CInv, Record
<1> QED
  BY <1>3, <1>4, HandsOff DEF SyncRuntime

LEMMA InitCtl == ASSUME Init PROVE CInv
<1>1. [own |-> <<>>, user |-> 0] \in Content
  BY Bounds DEF Content
<1>2. disk \in Disk /\ disk["config"] # Absent /\ disk["mat"] = Absent /\ disk["rec"] = Absent
  BY <1>1, Bounds DEF Init, Disk, Paths
<1>3. World
  BY <1>2, Bounds DEF Init, World, OneRelease, Versions
<1>4. Controlled
  BY DEF Init, Controlled, Pcs
<1>5. Record
  <2>1. 0 \in 0..MaxVersion
    BY Bounds
  <2>2. pc = "idle" /\ pending = FALSE /\ aside = {} /\ stash = {} /\ touched = {} /\ snap = NoSnap
        /\ torn = 0
    BY DEF Init
  <2> QED
    BY <2>1, <2>2 DEF Record
<1> QED
  BY <1>3, <1>4, <1>5 DEF CInv

LEMMA NextCtl == ASSUME CInv, [Next]_vars PROVE CInv'
<1>1. CASE Step
  BY <1>1, SnapshotCtl, CheckPathCtl, AttachCtl, DetachCtl, DropNameCtl, InspectCtl, PlaceCtl, UndoFileCtl,
     UnlinkCtl, RestoreCtl, UndoReceiptCtl, UndoHostCtl, ClearCtl DEF Step
<1>2. CASE User
  BY <1>2, EditCtl, StripCtl, MoveAsideCtl, InspectedCtl, UpgradeCtl, SyncRuntimeCtl DEF User
<1>3. CASE UNCHANGED vars
  <2>1. World'
    BY <1>3 DEF vars, world, control, counts, history, CInv, World
  <2> QED
    BY <1>3, <2>1, HandsOff DEF vars, history, CInv, Record
<1> QED
  BY <1>1, <1>2, <1>3, PreviewCtl, BeginCtl, FaultCtl, CrashCtl DEF Next

(* The control invariant, for every value of the constants.                *)
THEOREM ControlInvariant == Spec => []CInv
<1> QED
  BY InitCtl, NextCtl, PTL DEF Spec

(* The types: the steps to do, the snapshot, the reviewed plan and the     *)
(* disk stay in their ranges, whatever fails or is killed.                 *)
THEOREM TypeCorrect == Spec => []TypeOK
<1>1. CInv => TypeOK
  BY DEF CInv, Controlled, World, Record, TypeOK
<1> QED
  BY ControlInvariant, <1>1, PTL

-----------------------------------------------------------------------------
(* What the user wrote.                                                    *)

LeftOf(c)  == IF c = Absent THEN 0 ELSE c.user
OldLeft(x) == LeftOf(snap.old[x])
NewLeft(x) == LeftOf(snap.new[x])

InPlace(x) == hand[x] \subseteq {Left(x)}

(* The path was linked into the snapshot, and has not been looked at yet.  *)
Taken(x) == pc \in {"unlink", "inspect"} /\ At1 = x

(* The edits that a path has anywhere: no two paths have one in common.    *)
Marks(x) == hand[x] \cup (({Left(x)} \cup (IF pc # "idle" THEN {OldLeft(x)} ELSE {})
              \cup (IF Taken(x) THEN {job.got.user} ELSE {})) \ {0})

Apart == /\ \A x \in Written : Marks(x) \subseteq 1..edits
         /\ \A x, y \in Written : x # y => Marks(x) \cap Marks(y) = {}

(* The path is empty, or may be, until its copy is placed or put back.     *)
Loose(x) == \/ pc = "place" /\ At1 = x
            \/ job.dir = "back" /\ x \in Ahead /\ snap.old[x] # snap.new[x]

(* Where an edit is that no race has sent to the snapshot for good.        *)
Allowed(x) == {Left(x)} \cup (IF Taken(x) THEN {job.got.user} ELSE {})
                \cup (IF Loose(x) THEN {OldLeft(x)} ELSE {})

(* Once the snapshot is taken, it has the edits that were there, and those *)
(* moved away since; without a race each is at its path or about to return.*)
HandAt(x) ==
  IF pc = "snapshot" THEN InPlace(x) ELSE
    /\ {OldLeft(x)} \ {0} \subseteq aside
    /\ Taken(x) => {job.got.user} \ {0} \subseteq aside
    /\ hand[x] \subseteq {Left(x)} \cup aside \cup stash
    /\ job.err # "race" => hand[x] \subseteq Allowed(x)

HandHere(x) ==
  IF pc = "idle" THEN InPlace(x) \/ (pending /\ hand[x] \subseteq {Left(x)} \cup stash)
  ELSE HandAt(x)

(* What the steps have looked at is still so: the windows are closed.      *)
Guarded ==
  pc # "idle" =>
    /\ \A x \in Written : NewLeft(x) = OldLeft(x)
    /\ job.rebind /\ pc # "snapshot" => disk["config"] = snap.old["config"]
    /\ pc = "remove" => disk[At1] = snap.new[At1]
    /\ pc \in {"remove", "restore"} => snap.old[At1] # snap.new[At1]
    /\ pc \in {"detach", "unlink", "inspect", "place"} /\ At1 \in Written =>
         snap.old[At1] # snap.new[At1]
    /\ pc = "detach" /\ At1 \notin Written => disk[At1] \in {snap.old[At1], Absent}
    /\ pc = "unlink" => disk[At1] \in {job.got, Absent}
    /\ pc \in {"unlink", "inspect"} /\ At1 \notin Written => job.got = snap.old[At1]

Elsewhere == /\ InPlace("config")
             /\ \A x \in Paths \ (Written \cup {"config"}) : hand[x] = {}

HInv == Apart /\ (\A x \in Written : HandHere(x)) /\ Guarded /\ Elsewhere

(* A step after which each path has what it should, and no edit is new.    *)
HandStep ==
  /\ \A x \in Written : HandHere(x)' /\ Marks(x)' \subseteq Marks(x)
  /\ Guarded' /\ Elsewhere' /\ edits' = edits

LEMMA HandStepHolds == ASSUME HInv, HandStep PROVE HInv'
BY DEF HInv, HandStep, Apart

LEMMA WrittenIs ==
  ASSUME NEW x \in Written
  PROVE  x \in Paths /\ x \in Mine /\ x \in Placed /\ x \notin {"config", "binding", "known", "mat", "rec", "pin", "host", "verify"}
BY DEF Written, Paths, Mine, Objects, Placed

LEMMA ElsewhereStays ==
  ASSUME HInv, hand' = hand, disk'["config"] = disk["config"]
  PROVE  Elsewhere'
BY DEF HInv, Elsewhere, InPlace, Left

(* A path that a step leaves alone.                                        *)
LEMMA Steady ==
  ASSUME HInv, pc \notin {"idle", "snapshot"}, pc' \notin {"idle", "snapshot"},
         stash' = stash, snap'.old = snap.old,
         NEW x \in Written, hand'[x] = hand[x], disk'[x] = disk[x], ~Taken(x)',
         aside \subseteq aside' \/ ({OldLeft(x)} \ {0} \subseteq aside' /\ hand[x] \cap aside \subseteq aside'),
         job'.err # "race" => hand[x] \subseteq Allowed(x)'
  PROVE  HandHere(x)' /\ Marks(x)' \subseteq Marks(x)
<1>1. HandAt(x)
  BY DEF HInv, HandHere
<1>2. Left(x)' = Left(x) /\ OldLeft(x)' = OldLeft(x)
  BY DEF Left, OldLeft
<1>3. HandAt(x)'
  BY <1>1, <1>2 DEF HandAt
<1>4. Marks(x)' \subseteq Marks(x)
  BY <1>2 DEF Marks
<1> QED
  BY <1>3, <1>4 DEF HandHere

(* Forward and nothing taken away: every edit is in its place.             *)
LEMMA ForwardInPlace ==
  ASSUME CInv, HInv, pc \in {"check", "detach", "clear"}, job.dir = "fwd", NEW x \in Written
  PROVE  hand[x] \subseteq {Left(x)}
<1>1. job.err = "none"
  BY AtWork DEF CInv, Ctl
<1>2. HandAt(x)
  BY DEF HInv, HandHere
<1> QED
  BY <1>1, <1>2 DEF HandAt, Allowed, Taken, Loose

LEMMA GiveUpHand ==
  ASSUME CInv, HInv, pc \notin {"idle", "snapshot"}, GiveUp, UNCHANGED <<disk, hand, edits>>
  PROVE  HandStep
<1>1. pending /\ pending' /\ pc' = "idle" /\ stash' = stash \cup aside
  BY DEF CInv, Record, GiveUp, End
<1>2. ASSUME NEW x \in Written PROVE HandHere(x)' /\ Marks(x)' \subseteq Marks(x)
  <2>1. HandAt(x) /\ Left(x)' = Left(x)
    BY DEF HInv, HandHere, Left
  <2>2. HandHere(x)'
    BY <1>1, <2>1 DEF HandAt, HandHere
  <2> QED
    BY <1>1, <2>1, <2>2 DEF Marks, Taken
<1> QED
  BY <1>1, <1>2, ElsewhereStays DEF HandStep, Guarded

(* The rollback begins: what was about to be placed is to be put back.     *)
LEMMA TurnHand ==
  ASSUME CInv, HInv, pc \notin {"idle", "snapshot"}, job.dir = "fwd", NEW e \in {"other", "race"},
         TurnBack(e), Onward, UNCHANGED <<disk, hand, edits>>,
         e = "race" \/ pc \in {"check", "place", "clear"}
  PROVE  HandStep
<1>1. /\ pc' = "check" /\ SameJob(job', job) /\ job'.dir = "back" /\ job'.err = e
      /\ Ahead' = Undoes(job)
  BY TurnStep DEF CInv
<1>2. UNCHANGED <<pending, snap, aside, stash>>
  BY DEF Onward
<1>3. ASSUME NEW x \in Written PROVE HandHere(x)' /\ Marks(x)' \subseteq Marks(x)
  <2>1. ASSUME e # "race" PROVE hand[x] \subseteq Allowed(x)'
    <3>1. CASE pc = "place" /\ At1 = x
      <4>1. ~job.only
        BY <3>1, Busy, WrittenIs DEF CInv
      <4>2. x \in Ahead' /\ snap.old[x] # snap.new[x]
        BY <1>1, <3>1, <4>1, WrittenIs DEF Undoes, HInv, Guarded
      <4>3. job.err = "none" /\ HandAt(x)
        BY AtWork DEF CInv, Ctl, HInv, HandHere
      <4> QED
        BY <1>1, <1>2, <3>1, <4>2, <4>3 DEF HandAt, Allowed, Taken, Loose, OldLeft, Left
    <3>2. CASE ~(pc = "place" /\ At1 = x)
      <4>1. job.err = "none" /\ HandAt(x)
        BY AtWork DEF CInv, Ctl, HInv, HandHere
      <4> QED
        BY <2>1, <3>2, <4>1 DEF HandAt, Allowed, Taken, Loose, Left
    <3> QED
      BY <3>1, <3>2
  <2> QED
    BY <1>1, <1>2, <2>1, Steady DEF Taken
<1>4. Guarded'
  BY <1>1, <1>2 DEF HInv, Guarded, NewLeft, OldLeft, SameJob
<1> QED
  BY <1>3, <1>4, ElsewhereStays DEF HandStep

LEMMA ErrorHand ==
  ASSUME CInv, HInv, pc \notin {"idle", "snapshot"}, NEW e \in {"other", "race"},
         Error(e), UNCHANGED <<disk, hand, edits>>,
         e = "race" \/ pc \in {"check", "place", "clear", "remove", "restore"}
  PROVE  HandStep
<1>1. job.dir = "fwd" => pc \notin {"remove", "restore"}
  BY AtWork DEF CInv, Ctl
<1> QED
  BY <1>1, TurnHand, GiveUpHand DEF Error

(* Forward to the next path, with the paths of the user left alone.        *)
LEMMA ProceedHand ==
  ASSUME CInv, HInv, pc = "check", job.dir = "fwd", Proceed, Onward, UNCHANGED <<hand, edits>>,
         disk'["config"] = disk["config"], \A x \in Written : disk'[x] = disk[x]
  PROVE  HandStep
<1>1. pc' \in {"check", "clear"} /\ SameJob(job', job)
  BY ProceedStep DEF CInv
<1>2. UNCHANGED <<pending, snap, aside, stash>>
  BY DEF Onward
<1>3. ASSUME NEW x \in Written PROVE HandHere(x)' /\ Marks(x)' \subseteq Marks(x)
  <2>1. hand[x] \subseteq Allowed(x)'
    BY ForwardInPlace DEF Allowed, Left
  <2> QED
    BY <1>1, <1>2, <2>1, Steady DEF Taken
<1>4. Guarded'
  BY <1>1, <1>2 DEF HInv, Guarded, NewLeft, OldLeft, SameJob
<1> QED
  BY <1>3, <1>4, ElsewhereStays DEF HandStep

(* What a review finds ready has nothing of the user in tool and runtime.  *)
LEMMA ReadyClean ==
  ASSUME CInv, Ready
  PROVE  Left("tool") = 0 /\ Left("runtime") = 0
<1>1. want \in Versions /\ Release("rec") \subseteq Versions /\ Release("mat") \subseteq Versions
  BY ReleaseIn DEF CInv, World
<1>2. Left("tool") = 0
  BY <1>1, OfTyped DEF Ready, BlockedTool, Left
<1>3. Left("runtime") = 0
  BY <1>1, RuntimeClean DEF Ready, CInv
<1> QED
  BY <1>2, <1>3

LEMMA BeginHand == ASSUME CInv, HInv, Begin PROVE HandStep
<1>1. pc = "idle" /\ UNCHANGED <<disk, want, pending, aside, hand, stash, edits>>
  BY DEF Begin, Idle, CInv, Controlled, world, counts
<1>2. Elsewhere'
  BY <1>1, ElsewhereStays
<1>3. CASE UNCHANGED <<job, pc, snap, touched>>
  <2>1. \A x \in Written : HandHere(x)' /\ Marks(x)' \subseteq Marks(x)
    BY <1>1, <1>3 DEF HInv, HandHere, InPlace, Left, Marks, Taken
  <2> QED
    BY <1>1, <1>2, <1>3, <2>1 DEF HandStep, Guarded
<1>4. CASE ~(~Ready \/ plan # Plan \/ (NoChanges /\ disk["known"] = Of(want)))
  <2> DEFINE n == IF NoChanges THEN [disk EXCEPT !["known"] = Of(want)] ELSE Desired
  <2>1. snap' = [old |-> disk, new |-> n] /\ pc' = "snapshot" /\ Ready
    BY <1>4 DEF Begin
  <2>2. ~pending
    BY <2>1 DEF Ready
  <2>3. ASSUME NEW x \in Written PROVE HandHere(x)' /\ Marks(x)' \subseteq Marks(x)
    BY <1>1, <2>1, <2>2 DEF HInv, HandHere, HandAt, InPlace, Left, Marks, Taken, OldLeft, LeftOf
  <2>4. ASSUME NEW x \in Written PROVE NewLeft(x)' = OldLeft(x)'
    <3>1. CASE NoChanges
      <4>1. n[x] = disk[x]
        BY <3>1, WrittenIs DEF CInv, World, Disk
      <4> QED
        BY <2>1, <4>1 DEF NewLeft, OldLeft
    <3>2. CASE ~NoChanges
      <4>1. x \in {"tool", "runtime"} => Desired[x] = Of(want) /\ Left(x) = 0
        BY <2>1, ReadyClean, WrittenIs DEF Desired, Objects
      <4>2. x = "hooks" => Desired[x] = Merged
        BY WrittenIs DEF Desired, Objects
      <4>3. LeftOf(Desired[x]) = Left(x)
        BY <4>1, <4>2, OfTyped, MergedTyped, Bounds DEF LeftOf, CInv, World, Written, Merged, Of
      <4> QED
        BY <2>1, <3>2, <4>3 DEF NewLeft, OldLeft, LeftOf, Left
    <3> QED
      BY <3>1, <3>2
  <2>5. Guarded'
    BY <2>1, <2>4 DEF Guarded
  <2> QED
    BY <1>1, <1>2, <2>3, <2>5 DEF HandStep
<1> QED
  BY <1>3, <1>4 DEF Begin

LEMMA SnapshotHand == ASSUME CInv, HInv, Snapshot PROVE HandStep
<1>1. pc = "snapshot" /\ UNCHANGED <<disk, hand, edits>>
  BY DEF Snapshot, world, counts
<1>2. Elsewhere'
  BY <1>1, ElsewhereStays
<1>3. CASE /\ \A x \in Mine : disk[x] = snap.old[x]
           /\ pending' = TRUE
           /\ snap' = [snap EXCEPT !.old["config"] = disk["config"],
                                   !.old["binding"] = disk["binding"]]
           /\ aside' = {Left(x) : x \in Copied} \ {0}
           /\ pc' = "check"
           /\ UNCHANGED <<job, touched, stash>>
  <2>1. /\ snap'.new = snap.new /\ snap'.old["config"] = disk["config"]
        /\ \A x \in Written : snap'.old[x] = snap.old[x]
    BY <1>1, <1>3, SnapAt, WrittenIs DEF Snaps, Disk, SnapOK
  <2>2. ASSUME NEW x \in Written PROVE HandHere(x)' /\ Marks(x)' \subseteq Marks(x)
    <3>1. Left(x)' = Left(x) /\ OldLeft(x)' = OldLeft(x) /\ OldLeft(x) = Left(x)
      BY <1>1, <1>3, <2>1, WrittenIs DEF Left, OldLeft, LeftOf
    <3>2. hand'[x] \subseteq {Left(x)}
      BY <1>1 DEF HInv, HandHere, HandAt, InPlace
    <3>3. {Left(x)} \ {0} \subseteq aside'
      BY <1>3, WrittenIs DEF Copied
    <3> QED
      BY <1>1, <1>3, <3>1, <3>2, <3>3 DEF HandHere, HandAt, Marks, Taken, Allowed
  <2>3. Guarded'
    BY <1>1, <1>3, <2>1 DEF HInv, Guarded, NewLeft, OldLeft
  <2> QED
    BY <1>1, <1>2, <2>2, <2>3 DEF HandStep
<1>4. CASE End(FALSE)
  <2>1. pc' = "idle"
    BY <1>4 DEF End
  <2>2. \A x \in Written : HandHere(x)' /\ Marks(x)' \subseteq Marks(x)
    BY <1>1, <2>1 DEF HInv, HandHere, HandAt, InPlace, Left, Marks, Taken
  <2> QED
    BY <1>1, <1>2, <2>1, <2>2 DEF HandStep, Guarded
<1> QED
  BY <1>3, <1>4 DEF Snapshot

LEMMA CheckPathHand == ASSUME CInv, HInv, CheckPath PROVE HandStep
<1>1. /\ pc = "check" /\ job.dir = "fwd" /\ At1 # "binding" /\ UNCHANGED <<disk, hand, edits>>
      /\ pc \notin {"idle", "snapshot"}
  BY DEF CheckPath, world, counts
<1>2. CASE Proceed /\ Onward
  BY <1>1, <1>2, ProceedHand
<1>3. ASSUME NEW e \in {"other", "race"}, Error(e) PROVE HandStep
  BY <1>1, <1>3, ErrorHand
<1>4. CASE /\ At1 # "verify" /\ Replace(At1) /\ (Old(At1) = New(At1) => At1 = "rec")
           /\ disk[At1] = Old(At1) \/ (At1 = "mat" /\ Old(At1) = New(At1))
  <2>1. PICK l \in {"detach", "place"} : Goto(l) /\ Onward
    BY <1>4 DEF Replace
  <2>2. pc' = l /\ job' = job /\ UNCHANGED <<pending, snap, aside, stash>>
    BY <2>1 DEF Goto, Onward
  <2>3. ASSUME NEW x \in Written PROVE HandHere(x)' /\ Marks(x)' \subseteq Marks(x)
    <3>1. hand[x] \subseteq Allowed(x)'
      BY <1>1, ForwardInPlace DEF Allowed, Left
    <3> QED
      BY <1>1, <2>2, <3>1, Steady DEF Taken
  <2>4. Guarded'
    BY <1>1, <1>4, <2>2, WrittenIs DEF HInv, Guarded, NewLeft, OldLeft, At1, Old, New
  <2> QED
    BY <1>1, <2>3, <2>4, ElsewhereStays DEF HandStep
<1> QED
  BY <1>2, <1>3, <1>4 DEF CheckPath, Verify

LEMMA AttachHand == ASSUME CInv, HInv, Attach PROVE HandStep
<1>1. pc = "check" /\ job.dir = "fwd" /\ UNCHANGED <<hand, edits>> /\ pc \notin {"idle", "snapshot"}
  BY DEF Attach, counts
<1>2. disk'["config"] = disk["config"] /\ \A x \in Written : disk'[x] = disk[x]
  BY WrittenIs DEF Attach, CInv, World, Disk, Paths
<1>3. CASE Proceed /\ Onward
  BY <1>1, <1>2, <1>3, ProceedHand
<1>4. CASE Error("other") /\ UNCHANGED disk
  BY <1>1, <1>4, ErrorHand
<1> QED
  BY <1>3, <1>4 DEF Attach

LEMMA DetachHand == ASSUME CInv, HInv, Detach PROVE HandStep
<1>1. /\ pc = "detach" /\ pc \notin {"idle", "snapshot"} /\ UNCHANGED <<disk, hand, edits>>
      /\ job.dir = "fwd" /\ job.err = "none" /\ At1 \in Placed /\ job \in Jobs
  BY AtWork DEF Detach, counts, world, CInv, Ctl, At1
<1>2. CASE /\ disk[At1] # Absent
           /\ job' = [job EXCEPT !.got = disk[At1]]
           /\ aside' = aside \cup ({disk[At1].user} \ {0})
           /\ pc' = "unlink"
           /\ UNCHANGED <<pending, snap, touched, torn, stash>>
  <2>1. At1' = At1 /\ job'.got = disk[At1] /\ job'.dir = "fwd" /\ job'.err = "none" /\ SameJob(job', job)
    BY <1>1, <1>2 DEF Jobs, At1, SameJob
  <2>2. ASSUME NEW x \in Written, x # At1 PROVE HandHere(x)' /\ Marks(x)' \subseteq Marks(x)
    <3>1. disk'[x] = disk[x] /\ ~Taken(x)'
      BY <1>1, <2>1, <2>2 DEF Taken
    <3>2. hand[x] \subseteq Allowed(x)'
      BY <1>1, <3>1, ForwardInPlace DEF Allowed, Left
    <3> QED
      BY <1>1, <1>2, <3>1, <3>2, Steady
  <2>3. ASSUME NEW x \in Written, x = At1 PROVE HandHere(x)' /\ Marks(x)' \subseteq Marks(x)
    <3>1. Left(x)' = Left(x) /\ job'.got.user = Left(x) /\ OldLeft(x)' = OldLeft(x) /\ Taken(x)'
      BY <1>1, <1>2, <2>1, <2>3 DEF Left, OldLeft, Taken
    <3>2. HandAt(x) /\ hand[x] \subseteq {Left(x)} /\ aside' = aside \cup ({Left(x)} \ {0})
      BY <1>1, <1>2, <2>3, ForwardInPlace DEF HInv, HandHere, Left
    <3> QED
      BY <1>1, <1>2, <2>1, <3>1, <3>2 DEF HandHere, HandAt, Allowed, Marks, Taken
  <2>4. Guarded'
    BY <1>1, <1>2, <2>1 DEF HInv, Guarded, NewLeft, OldLeft, SameJob
  <2> QED
    BY <1>1, <2>2, <2>3, <2>4, ElsewhereStays DEF HandStep
<1>3. CASE Error("race") /\ UNCHANGED disk
  BY <1>1, <1>3, ErrorHand
<1> QED
  BY <1>1, <1>2, <1>3 DEF Detach

LEMMA DropNameHand == ASSUME CInv, HInv, DropName PROVE HandStep
<1>1. /\ pc = "unlink" /\ pc \notin {"idle", "snapshot"} /\ UNCHANGED <<hand, edits>>
      /\ job.dir = "fwd" /\ job.err = "none" /\ At1 \in Placed /\ job \in Jobs
  BY AtWork DEF DropName, counts, CInv, Ctl, At1
<1>2. CASE /\ disk[At1] # Absent
           /\ disk' = [disk EXCEPT ![At1] = Absent]
           /\ Goto("inspect") /\ Onward
  <2>1. /\ \A x \in Paths : disk'[x] = IF x = At1 THEN Absent ELSE disk[x]
        /\ At1 \in Paths /\ At1 # "config" /\ "config" \in Paths
    BY <1>1, <1>2 DEF CInv, World, Disk, Placed, Paths, Mine, Objects
  <2>2. pc' = "inspect" /\ job' = job /\ UNCHANGED <<pending, snap, aside, stash>> /\ At1' = At1
    BY <1>2 DEF Goto, Onward, At1
  <2>3. ASSUME NEW x \in Written, x # At1 PROVE HandHere(x)' /\ Marks(x)' \subseteq Marks(x)
    <3>1. disk'[x] = disk[x] /\ ~Taken(x) /\ ~Taken(x)' /\ HandAt(x)
      BY <1>1, <2>1, <2>2, <2>3, WrittenIs DEF Taken, HInv, HandHere
    <3>2. hand[x] \subseteq {Left(x)}
      BY <1>1, <3>1 DEF HandAt, Allowed, Loose
    <3>3. hand[x] \subseteq Allowed(x)'
      BY <3>1, <3>2 DEF Allowed, Left
    <3> QED
      BY <1>1, <2>2, <3>1, <3>3, Steady
  <2>4. ASSUME NEW x \in Written, x = At1 PROVE HandHere(x)' /\ Marks(x)' \subseteq Marks(x)
    <3>1. /\ Left(x)' = 0 /\ job.got.user = Left(x) /\ OldLeft(x)' = OldLeft(x)
          /\ Taken(x) /\ Taken(x)'
      BY <1>1, <1>2, <2>1, <2>2, <2>4 DEF Left, OldLeft, Taken, HInv, Guarded
    <3>2. HandAt(x) /\ hand[x] \subseteq {job.got.user}
      BY <1>1, <3>1 DEF HInv, HandHere, HandAt, Allowed, Loose
    <3>3. HandAt(x)'
      BY <1>1, <2>2, <3>1, <3>2 DEF HandAt, Allowed
    <3>4. Marks(x)' \subseteq Marks(x)
      BY <1>1, <2>2, <3>1 DEF Marks
    <3> QED
      BY <2>2, <3>3, <3>4 DEF HandHere
  <2>5. Guarded'
    BY <1>1, <1>2, <2>1, <2>2 DEF HInv, Guarded, NewLeft, OldLeft
  <2> QED
    BY <1>1, <2>1, <2>3, <2>4, <2>5, ElsewhereStays DEF HandStep
<1>3. CASE Error("race") /\ UNCHANGED disk
  BY <1>1, <1>3, ErrorHand
<1> QED
  BY <1>2, <1>3 DEF DropName

LEMMA InspectHand == ASSUME CInv, HInv, Inspect PROVE HandStep
<1>1. /\ pc = "inspect" /\ pc \notin {"idle", "snapshot"} /\ UNCHANGED <<hand, edits>>
      /\ job.dir = "fwd" /\ job.err = "none" /\ At1 \in Placed /\ job \in Jobs /\ job.got \in Content
      /\ Old(At1) # Absent
  BY AtWork DEF Inspect, counts, CInv, Ctl, At1, Record
<1>2. CASE job.got = Old(At1) /\ Goto("place") /\ Onward /\ UNCHANGED disk
  <2>1. pc' = "place" /\ job' = job /\ UNCHANGED <<pending, snap, aside, stash>> /\ At1' = At1
    BY <1>2 DEF Goto, Onward, At1
  <2>2. ASSUME NEW x \in Written PROVE HandHere(x)' /\ Marks(x)' \subseteq Marks(x)
    <3>1. hand[x] \subseteq Allowed(x)
      BY <1>1 DEF HInv, HandHere, HandAt
    <3>2. Allowed(x) \subseteq Allowed(x)'
      BY <1>1, <1>2, <2>1, Bounds DEF Allowed, Taken, Loose, Left, OldLeft, LeftOf, Old
    <3> QED
      BY <1>1, <1>2, <2>1, <3>1, <3>2, Steady DEF Taken
  <2>3. Guarded'
    BY <1>1, <1>2, <2>1 DEF HInv, Guarded, NewLeft, OldLeft
  <2> QED
    BY <1>1, <1>2, <2>2, <2>3, ElsewhereStays DEF HandStep
<1>3. CASE /\ job.got # Old(At1) /\ disk[At1] = Absent
           /\ disk' = [disk EXCEPT ![At1] = job.got]
           /\ aside' = (aside \ {job.got.user}) \cup ({Old(At1).user} \ {0})
           /\ TurnBack("race")
           /\ UNCHANGED <<pending, snap, touched, torn, stash>>
  <2>1. pc' = "check" /\ SameJob(job', job) /\ job'.err = "race"
    BY <1>1, <1>3, TurnStep DEF CInv
  <2>2. At1 \in Written
    BY <1>1, <1>3 DEF HInv, Guarded, Old
  <2>3. /\ \A x \in Paths : disk'[x] = IF x = At1 THEN job.got ELSE disk[x]
        /\ At1 \in Paths /\ At1 # "config" /\ "config" \in Paths
    BY <1>1, <1>3 DEF CInv, World, Disk, Placed, Paths, Mine, Objects
  <2>4. ASSUME NEW x \in Written, x # At1 PROVE HandHere(x)' /\ Marks(x)' \subseteq Marks(x)
    <3>1. disk'[x] = disk[x]
      BY <2>3, <2>4, WrittenIs
    <3>2. Marks(x) \cap Marks(At1) = {} /\ Marks(x) \subseteq 1..edits
      BY <2>2, <2>4 DEF HInv, Apart
    <3>3. {job.got.user} \ {0} \subseteq Marks(At1)
      BY <1>1 DEF Marks, Taken
    <3>4. hand[x] \cup ({OldLeft(x)} \ {0}) \subseteq Marks(x)
      BY <1>1 DEF Marks
    <3>5. 0 \notin 1..edits
      OBVIOUS
    <3>6. job.got.user \notin hand[x] \cup ({OldLeft(x)} \ {0})
      BY <3>2, <3>3, <3>4, <3>5
    <3>7. {OldLeft(x)} \ {0} \subseteq aside
      BY <1>1 DEF HInv, HandHere, HandAt
    <3> QED
      BY <1>1, <1>3, <2>1, <3>1, <3>6, <3>7, Steady DEF Taken
  <2>5. ASSUME NEW x \in Written, x = At1 PROVE HandHere(x)' /\ Marks(x)' \subseteq Marks(x)
    <3>1. Left(x)' = job.got.user /\ OldLeft(x)' = OldLeft(x) /\ OldLeft(x) = Old(At1).user /\ Left(x) = 0
      BY <1>1, <1>3, <2>3, <2>5, Bounds DEF Left, OldLeft, LeftOf, Old
    <3>2. HandAt(x) /\ Marks(x) \subseteq 1..edits
      BY <1>1 DEF HInv, HandHere, Apart
    <3>3. 0 \notin hand[x]
      BY <3>2 DEF Marks
    <3>4. {OldLeft(x)} \ {0} \subseteq aside'
      BY <1>3, <3>1
    <3>5. hand'[x] \subseteq {Left(x)'} \cup aside' \cup stash'
      BY <1>1, <1>3, <3>1, <3>2, <3>3 DEF HandAt
    <3> QED
      BY <1>1, <2>1, <2>5, <3>1, <3>4, <3>5 DEF HandHere, HandAt, Marks, Taken
  <2>6. Guarded'
    BY <1>1, <1>3, <2>1, <2>3 DEF HInv, Guarded, NewLeft, OldLeft, SameJob
  <2> QED
    BY <1>1, <2>3, <2>4, <2>5, <2>6, ElsewhereStays DEF HandStep
<1>4. CASE TurnBack("race") /\ UNCHANGED <<pending, snap, touched, torn, stash, disk, aside>>
  BY <1>1, <1>4, TurnHand DEF Onward
<1> QED
  BY <1>2, <1>3, <1>4 DEF Inspect

LEMMA PlaceHand == ASSUME CInv, HInv, Place PROVE HandStep
<1>1. /\ pc = "place" /\ pc \notin {"idle", "snapshot"} /\ UNCHANGED <<hand, edits>>
      /\ job.dir = "fwd" /\ job.err = "none" /\ At1 \in Placed /\ job \in Jobs
  BY AtWork DEF Place, counts, CInv, Ctl, At1
<1>2. CASE /\ disk[At1] = Absent
           /\ snap' = IF At1 = "rec" THEN [snap EXCEPT !.new["rec"].user = Note] ELSE snap
           /\ disk' = [disk EXCEPT ![At1] = snap'.new[At1]]
           /\ Proceed
           /\ UNCHANGED <<pending, aside, touched, torn, stash>>
  <2>1. pc' \in {"check", "clear"} /\ SameJob(job', job) /\ job'.dir = "fwd" /\ job'.err = "none"
    BY <1>1, <1>2, ProceedStep DEF CInv
  <2>2. /\ snap'.old = snap.old
        /\ \A x \in Written : snap'.new[x] = snap.new[x]
    BY <1>1, <1>2, SnapAt, WrittenIs DEF Snaps, Disk, SnapOK
  <2>3. /\ \A x \in Paths : disk'[x] = IF x = At1 THEN snap'.new[At1] ELSE disk[x]
        /\ At1 \in Paths /\ At1 # "config" /\ "config" \in Paths
    BY <1>1, <1>2 DEF CInv, World, Disk, Placed, Paths, Mine, Objects
  <2>4. ASSUME NEW x \in Written, x # At1 PROVE HandHere(x)' /\ Marks(x)' \subseteq Marks(x)
    <3>1. disk'[x] = disk[x] /\ HandAt(x)
      BY <1>1, <2>3, <2>4, WrittenIs DEF HInv, HandHere
    <3>2. hand[x] \subseteq {Left(x)}
      BY <1>1, <2>4, <3>1 DEF HandAt, Allowed, Taken, Loose
    <3>3. hand[x] \subseteq Allowed(x)'
      BY <3>1, <3>2 DEF Allowed, Left
    <3> QED
      BY <1>1, <1>2, <2>1, <2>2, <3>1, <3>3, Steady DEF Taken
  <2>5. ASSUME NEW x \in Written, x = At1 PROVE HandHere(x)' /\ Marks(x)' \subseteq Marks(x)
    <3>1. Left(x)' = OldLeft(x) /\ OldLeft(x)' = OldLeft(x) /\ Left(x) = 0
      <4>1. LeftOf(snap.new[x]) = OldLeft(x)
        BY <1>1 DEF HInv, Guarded, NewLeft
      <4> QED
        BY <1>2, <2>2, <2>3, <2>5, <4>1 DEF Left, OldLeft, LeftOf
    <3>2. HandAt(x) /\ Marks(x) \subseteq 1..edits
      BY <1>1 DEF HInv, HandHere, Apart
    <3>3. 0 \notin hand[x]
      BY <3>2 DEF Marks
    <3>4. hand[x] \subseteq {Left(x), OldLeft(x)}
      BY <1>1, <3>2 DEF HandAt, Allowed, Taken, Loose
    <3>5. hand'[x] \subseteq {Left(x)'}
      BY <1>1, <3>1, <3>3, <3>4
    <3> QED
      BY <1>1, <1>2, <2>1, <2>5, <3>1, <3>2, <3>5 DEF HandHere, HandAt, Marks, Taken, Allowed
  <2>6. Guarded'
    BY <1>1, <1>2, <2>1, <2>2, <2>3 DEF HInv, Guarded, NewLeft, OldLeft, SameJob
  <2> QED
    BY <1>1, <2>3, <2>4, <2>5, <2>6, ElsewhereStays DEF HandStep
<1>3. CASE Error("race") /\ UNCHANGED disk
  BY <1>1, <1>3, ErrorHand
<1> QED
  BY <1>2, <1>3 DEF Place

(* Back, and no race yet: where an edit is that is not loose.              *)
LEMMA BackInPlace ==
  ASSUME CInv, HInv, pc \notin {"idle", "snapshot"}, job.dir = "back", job.err # "race", NEW x \in Written
  PROVE  /\ hand[x] \subseteq {Left(x), OldLeft(x)}
         /\ x \notin Ahead \/ snap.old[x] = snap.new[x] => hand[x] \subseteq {Left(x)}
<1>1. HandAt(x) /\ pc \notin {"unlink", "inspect", "place"}
  BY AtWork DEF HInv, HandHere, CInv, Ctl
<1> QED
  BY <1>1 DEF HandAt, Allowed, Taken, Loose

(* The rollback goes on to the next path; the one at hand is as it was, or *)
(* as before, or its edit is in place.                                     *)
LEMMA BackHand ==
  ASSUME CInv, HInv, pc \notin {"idle", "snapshot", "clear"}, job.dir = "back",
         \/ Proceed /\ Onward /\ (At1 \in Written /\ job.err # "race" => hand[At1] \subseteq {Left(At1)})
         \/ Raced,
         UNCHANGED <<hand, edits>>,
         disk'["config"] = disk["config"], \A x \in Written : disk'[x] = disk[x]
  PROVE  HandStep
<1>1. /\ pc' \in {"check", "clear"} /\ SameJob(job', job) /\ job'.dir = "back"
      /\ \A x \in Paths \cup {"host"} : x \in Ahead' <=> x \in Ahead /\ x # At1
      /\ job'.err # "race" => job.err # "race" /\ ~Raced
  BY ProceedStep, RacedStep DEF CInv
<1>2. UNCHANGED <<pending, snap, aside, stash>>
  BY DEF Onward, Raced
<1>3. ASSUME NEW x \in Written PROVE HandHere(x)' /\ Marks(x)' \subseteq Marks(x)
  <2>1. ASSUME job'.err # "race" PROVE hand[x] \subseteq Allowed(x)'
    <3>1. Left(x)' = Left(x) /\ OldLeft(x)' = OldLeft(x)
      BY <1>2 DEF Left, OldLeft
    <3>2. CASE x \in Ahead' /\ snap.old[x] # snap.new[x]
      BY <1>1, <1>2, <2>1, <3>1, <3>2, BackInPlace DEF Allowed, Loose
    <3>3. CASE ~(x \in Ahead' /\ snap.old[x] # snap.new[x])
      <4>1. hand[x] \subseteq {Left(x)}
        <5>1. CASE x = At1
          BY <1>1, <2>1, <5>1
        <5>2. CASE x # At1
          <6>1. x \notin Ahead \/ snap.old[x] = snap.new[x]
            BY <1>1, <1>2, <3>3, <5>2, WrittenIs
          <6> QED
            BY <1>1, <2>1, <6>1, BackInPlace
        <5> QED
          BY <5>1, <5>2
      <4> QED
        BY <3>1, <4>1 DEF Allowed
    <3> QED
      BY <3>2, <3>3
  <2> QED
    BY <1>1, <1>2, <2>1, Steady DEF Taken
<1>4. Guarded'
  BY <1>1, <1>2 DEF HInv, Guarded, NewLeft, OldLeft, SameJob
<1> QED
  BY <1>3, <1>4, ElsewhereStays DEF HandStep

LEMMA UndoFileHand == ASSUME CInv, HInv, UndoFile PROVE HandStep
<1>1. /\ pc = "check" /\ pc \notin {"idle", "snapshot", "clear"} /\ job.dir = "back" /\ At1 \in Mine
      /\ UNCHANGED <<disk, hand, edits>>
  BY DEF UndoFile, world, counts
<1>2. CASE (Old(At1) = New(At1) \/ disk[At1] = Old(At1)) /\ Proceed /\ Onward
  <2>1. ASSUME At1 \in Written, job.err # "race" PROVE hand[At1] \subseteq {Left(At1)}
    <3>1. PICK x \in Written : x = At1
      BY <2>1
    <3>2. hand[x] \subseteq {Left(x)}
      BY <1>1, <1>2, <2>1, <3>1, BackInPlace DEF Old, New, OldLeft, LeftOf, Left
    <3> QED
      BY <3>1, <3>2
  <2> QED
    BY <1>1, <1>2, <2>1, BackHand
<1>3. CASE Raced
  BY <1>1, <1>3, BackHand
<1>4. ASSUME NEW l \in {"restore", "remove"}, Goto(l), Onward, Old(At1) # New(At1),
             l = "remove" => disk[At1] = New(At1)
      PROVE  HandStep
  <2>1. pc' = l /\ job' = job /\ UNCHANGED <<pending, snap, aside, stash>> /\ At1' = At1
    BY <1>4 DEF Goto, Onward, At1
  <2>2. ASSUME NEW x \in Written PROVE HandHere(x)' /\ Marks(x)' \subseteq Marks(x)
    <3>1. job'.err # "race" => hand[x] \subseteq Allowed(x)'
      BY <1>1, <2>1 DEF HInv, HandHere, HandAt, Allowed, Taken, Loose, Ahead, Left, OldLeft
    <3> QED
      BY <1>1, <1>4, <2>1, <3>1, Steady DEF Taken
  <2>3. Guarded'
    BY <1>1, <1>4, <2>1 DEF HInv, Guarded, NewLeft, OldLeft, Old, New
  <2> QED
    BY <1>1, <2>2, <2>3, ElsewhereStays DEF HandStep
<1> QED
  BY <1>2, <1>3, <1>4 DEF UndoFile

LEMMA UnlinkHand == ASSUME CInv, HInv, Unlink PROVE HandStep
<1>1. /\ pc = "remove" /\ pc \notin {"idle", "snapshot", "clear"} /\ UNCHANGED <<hand, edits>>
      /\ job.dir = "back" /\ At1 \in Mine /\ Onward
  BY AtWork DEF Unlink, counts, CInv, Ctl, At1
<1>2. UNCHANGED <<pending, snap, aside, stash>>
  BY <1>1 DEF Onward
<1>3. /\ \A x \in Paths : disk'[x] = IF x = At1 THEN Absent ELSE disk[x]
      /\ At1 \in Paths /\ At1 # "config" /\ "config" \in Paths
  BY <1>1 DEF Unlink, CInv, World, Disk, Paths, Mine, Objects
<1>4. disk[At1] = snap.new[At1] /\ snap.old[At1] # snap.new[At1]
  BY <1>1 DEF HInv, Guarded
<1>5. \/ Old(At1) = Absent /\ Proceed
      \/ Goto("restore") /\ pc' = "restore" /\ job' = job
  BY DEF Unlink, Goto
<1>6. /\ pc' \in {"check", "clear", "restore"} /\ SameJob(job', job) /\ job'.dir = "back"
      /\ job'.err = job.err
      /\ \A x \in Written : x # At1 => (x \in Ahead' <=> x \in Ahead)
      /\ pc' = "restore" => At1' = At1 /\ Ahead' = Ahead
      /\ pc' # "restore" => Old(At1) = Absent
  <2>1. CASE Old(At1) = Absent /\ Proceed
    BY <1>1, <2>1, ProceedStep, WrittenIs DEF CInv
  <2>2. CASE pc' = "restore" /\ job' = job
    BY <1>1, <2>2 DEF SameJob, At1, Ahead
  <2> QED
    BY <1>5, <2>1, <2>2
<1>7. ASSUME NEW x \in Written, x # At1 PROVE HandHere(x)' /\ Marks(x)' \subseteq Marks(x)
  <2>1. disk'[x] = disk[x]
    BY <1>3, <1>7, WrittenIs
  <2>2. job'.err # "race" => hand[x] \subseteq Allowed(x)'
    <3>1. Left(x)' = Left(x) /\ OldLeft(x)' = OldLeft(x) /\ (Loose(x) => Loose(x)')
      BY <1>1, <1>2, <1>6, <1>7, <2>1 DEF Left, OldLeft, Loose
    <3>2. job.err # "race" => hand[x] \subseteq Allowed(x)
      BY <1>1 DEF HInv, HandHere, HandAt
    <3> QED
      BY <1>1, <1>6, <3>1, <3>2 DEF Allowed, Taken
  <2> QED
    BY <1>1, <1>2, <1>6, <2>1, <2>2, Steady DEF Taken
<1>8. ASSUME NEW x \in Written, x = At1 PROVE HandHere(x)' /\ Marks(x)' \subseteq Marks(x)
  <2>1. Left(x)' = 0 /\ OldLeft(x)' = OldLeft(x) /\ Left(x) = OldLeft(x)
    <3>1. Left(x) = NewLeft(x) /\ NewLeft(x) = OldLeft(x)
      BY <1>1, <1>4, <1>8 DEF Left, NewLeft, LeftOf, HInv, Guarded
    <3> QED
      BY <1>2, <1>3, <1>8, <3>1 DEF Left, OldLeft
  <2>2. HandAt(x) /\ Marks(x) \subseteq 1..edits
    BY <1>1 DEF HInv, HandHere, Apart
  <2>3. 0 \notin hand[x]
    BY <2>2 DEF Marks
  <2>4. job'.err # "race" => hand'[x] \subseteq Allowed(x)'
    <3>1. job.err # "race" => hand[x] \subseteq {OldLeft(x)}
      BY <1>1, <2>1, BackInPlace
    <3>2. pc' # "restore" => OldLeft(x) = 0
      BY <1>6, <1>8 DEF Old, OldLeft, LeftOf
    <3>3. x \in Ahead
      BY <1>1, <1>8, Busy DEF CInv
    <3>4. pc' = "restore" => Loose(x)'
      BY <1>2, <1>4, <1>6, <1>8, <3>3 DEF Loose
    <3> QED
      BY <1>1, <1>6, <2>1, <2>3, <3>1, <3>2, <3>4 DEF Allowed
  <2> QED
    BY <1>1, <1>2, <1>6, <2>1, <2>2, <2>4 DEF HandHere, HandAt, Marks, Taken
<1>9. Guarded'
  BY <1>1, <1>2, <1>3, <1>4, <1>6 DEF HInv, Guarded, NewLeft, OldLeft, SameJob
<1> QED
  BY <1>1, <1>3, <1>7, <1>8, <1>9, ElsewhereStays DEF HandStep

LEMMA RestoreHand == ASSUME CInv, HInv, Restore PROVE HandStep
<1>1. /\ pc = "restore" /\ pc \notin {"idle", "snapshot", "clear"} /\ UNCHANGED <<hand, edits>>
      /\ job.dir = "back" /\ At1 \in Mine
  BY AtWork DEF Restore, counts, CInv, Ctl, At1
<1>2. CASE disk[At1] = Absent /\ disk' = [disk EXCEPT ![At1] = Old(At1)] /\ Proceed /\ Onward
  <2>1. /\ pc' \in {"check", "clear"} /\ SameJob(job', job) /\ job'.dir = "back" /\ job'.err = job.err
        /\ \A x \in Written : x # At1 => (x \in Ahead' <=> x \in Ahead)
    BY <1>1, <1>2, ProceedStep, WrittenIs DEF CInv
  <2>2. UNCHANGED <<pending, snap, aside, stash>>
    BY <1>2 DEF Onward
  <2>3. /\ \A x \in Paths : disk'[x] = IF x = At1 THEN snap.old[At1] ELSE disk[x]
        /\ At1 \in Paths /\ At1 # "config" /\ "config" \in Paths
    BY <1>1, <1>2 DEF CInv, World, Disk, Paths, Mine, Objects, Old
  <2>4. ASSUME NEW x \in Written, x # At1 PROVE HandHere(x)' /\ Marks(x)' \subseteq Marks(x)
    <3>1. disk'[x] = disk[x]
      BY <2>3, <2>4, WrittenIs
    <3>2. job'.err # "race" => hand[x] \subseteq Allowed(x)'
      <4>1. Left(x)' = Left(x) /\ OldLeft(x)' = OldLeft(x) /\ (Loose(x) => Loose(x)')
        BY <1>1, <2>1, <2>2, <2>4, <3>1 DEF Left, OldLeft, Loose
      <4>2. job.err # "race" => hand[x] \subseteq Allowed(x)
        BY <1>1 DEF HInv, HandHere, HandAt
      <4> QED
        BY <1>1, <2>1, <4>1, <4>2 DEF Allowed, Taken
    <3> QED
      BY <1>1, <2>1, <2>2, <3>1, <3>2, Steady DEF Taken
  <2>5. ASSUME NEW x \in Written, x = At1 PROVE HandHere(x)' /\ Marks(x)' \subseteq Marks(x)
    <3>1. Left(x)' = OldLeft(x) /\ OldLeft(x)' = OldLeft(x) /\ Left(x) = 0
      BY <1>2, <2>2, <2>3, <2>5 DEF Left, OldLeft, LeftOf
    <3>2. HandAt(x) /\ Marks(x) \subseteq 1..edits
      BY <1>1 DEF HInv, HandHere, Apart
    <3>3. 0 \notin hand[x]
      BY <3>2 DEF Marks
    <3>4. job'.err # "race" => hand'[x] \subseteq {Left(x)'}
      BY <1>1, <2>1, <3>1, <3>3, BackInPlace
    <3> QED
      BY <1>1, <2>1, <2>2, <3>1, <3>2, <3>3, <3>4 DEF HandHere, HandAt, Marks, Taken, Allowed
  <2>6. Guarded'
    BY <1>1, <2>1, <2>2, <2>3 DEF HInv, Guarded, NewLeft, OldLeft, SameJob
  <2> QED
    BY <1>1, <2>3, <2>4, <2>5, <2>6, ElsewhereStays DEF HandStep
<1>3. CASE Raced /\ UNCHANGED disk
  BY <1>1, <1>3, BackHand
<1>4. CASE GiveUp /\ UNCHANGED disk
  BY <1>1, <1>4, GiveUpHand
<1>5. CASE LeaveFiles /\ UNCHANGED disk
  <2>1. /\ pc' = "check" /\ SameJob(job', job) /\ job'.err = "race"
        /\ UNCHANGED <<pending, snap, aside, stash>>
    BY <1>1, <1>5, LeaveFilesStep DEF CInv, LeaveFiles, Onward
  <2>2. \A x \in Written : HandHere(x)' /\ Marks(x)' \subseteq Marks(x)
    BY <1>1, <1>5, <2>1, Steady DEF Taken
  <2>3. Guarded'
    BY <1>1, <1>5, <2>1 DEF HInv, Guarded, NewLeft, OldLeft, SameJob
  <2> QED
    BY <1>1, <1>5, <2>2, <2>3, ElsewhereStays DEF HandStep
<1> QED
  BY <1>2, <1>3, <1>4, <1>5 DEF Restore

LEMMA UndoReceiptHand == ASSUME CInv, HInv, UndoReceipt PROVE HandStep
<1>1. /\ pc = "check" /\ pc \notin {"idle", "snapshot", "clear"} /\ UNCHANGED <<hand, edits>>
      /\ job.dir = "back" /\ At1 \in {"rec", "mat", "known"} /\ At1 \notin Written
  BY WrittenIs DEF UndoReceipt, counts
<1>2. disk'["config"] = disk["config"] /\ \A x \in Written : disk'[x] = disk[x]
  BY <1>1, WrittenIs DEF UndoReceipt, CInv, World, Disk, Paths
<1>3. CASE Proceed /\ Onward
  BY <1>1, <1>2, <1>3, BackHand
<1>4. CASE Raced
  BY <1>1, <1>2, <1>4, BackHand
<1>5. CASE GiveUp /\ UNCHANGED disk
  BY <1>1, <1>5, GiveUpHand
<1> QED
  BY <1>3, <1>4, <1>5 DEF UndoReceipt

LEMMA UndoHostHand == ASSUME CInv, HInv, UndoHost PROVE HandStep
<1>1. /\ pc = "check" /\ pc \notin {"idle", "snapshot", "clear"} /\ UNCHANGED <<hand, edits>>
      /\ job.dir = "back" /\ At1 = "host" /\ At1 \notin Written /\ Proceed /\ Onward
  BY WrittenIs DEF UndoHost, counts
<1>2. disk'["config"] = disk["config"] /\ \A x \in Written : disk'[x] = disk[x]
  <2>1. job.rebind => disk["config"] = Old("config")
    BY <1>1 DEF HInv, Guarded, Old
  <2> QED
    BY <2>1, WrittenIs DEF UndoHost, CInv, World, Disk, Paths
<1> QED
  BY <1>1, <1>2, BackHand

LEMMA ClearHand == ASSUME CInv, HInv, Clear PROVE HandStep
<1>1. /\ pc = "clear" /\ pc \notin {"idle", "snapshot"} /\ UNCHANGED <<disk, hand, edits>>
      /\ job.todo = <<>>
  BY AtWork DEF Clear, CInv, Ctl, counts, world
<1>2. CASE job.err # "race" /\ End(job.dir = "fwd" /\ ~job.only)
  <2>1. pc' = "idle"
    BY <1>2 DEF End
  <2>2. ASSUME NEW x \in Written PROVE HandHere(x)' /\ Marks(x)' \subseteq Marks(x)
    <3>1. x \notin Ahead
      BY <1>1 DEF Ahead, ToSet
    <3>2. hand[x] \subseteq {Left(x)}
      BY <1>1, <1>2, <3>1 DEF HInv, HandHere, HandAt, Allowed, Taken, Loose
    <3> QED
      BY <1>1, <2>1, <3>2 DEF HandHere, InPlace, Marks, Taken, Left
  <2> QED
    BY <1>1, <2>1, <2>2, ElsewhereStays DEF HandStep, Guarded
<1>3. CASE GiveUp
  BY <1>1, <1>3, GiveUpHand
<1> QED
  BY <1>2, <1>3 DEF Clear

LEMMA FaultHand == ASSUME CInv, HInv, Fault PROVE HandStep
<1>1. /\ pc \notin {"idle", "snapshot"} /\ UNCHANGED <<disk, hand, edits>>
      /\ \/ pc \in {"check", "place", "restore", "clear"} /\ Error("other")
         \/ Error("race")
  BY DEF Fault, world
<1> QED
  BY <1>1, ErrorHand

LEMMA CrashHand == ASSUME CInv, HInv, Crash PROVE HandStep
<1>1. pc # "idle" /\ UNCHANGED <<disk, hand, edits, pending>> /\ End(pending) /\ pc' = "idle"
  BY DEF Crash, Idle, CInv, Controlled, End, world
<1>2. pending \in BOOLEAN /\ (pending <=> pc # "snapshot")
  BY <1>1 DEF CInv, Record
<1>3. ASSUME NEW x \in Written PROVE HandHere(x)' /\ Marks(x)' \subseteq Marks(x)
  <2>1. CASE pc = "snapshot"
    BY <1>1, <2>1 DEF HInv, HandHere, HandAt, InPlace, Marks, Taken, Left
  <2>2. CASE pc # "snapshot"
    <3>1. pending' /\ stash' = stash \cup aside
      BY <1>1, <1>2, <2>2 DEF End
    <3> QED
      BY <1>1, <2>2, <3>1 DEF HInv, HandHere, HandAt, Marks, Taken, Left
  <2> QED
    BY <2>1, <2>2
<1> QED
  BY <1>1, <1>3, ElsewhereStays DEF HandStep, Guarded

(* Steps outside an installation that leave the paths of the user alone.   *)
LEMMA QuietHand ==
  ASSUME HInv, UNCHANGED <<job, pc, hand, snap, aside, stash, edits, pending>>, disk' = disk
  PROVE  HandStep
<1>1. \A x \in Written : HandHere(x)' /\ Marks(x)' \subseteq Marks(x)
  BY DEF HInv, HandHere, HandAt, InPlace, Left, Marks, Taken, OldLeft, Allowed, Loose, At1, Ahead
<1>2. Guarded'
  BY DEF HInv, Guarded, NewLeft, OldLeft, At1
<1> QED
  BY <1>1, <1>2, ElsewhereStays DEF HandStep

LEMMA SyncRuntimeHand == ASSUME CInv, HInv, SyncRuntime PROVE HandStep
<1>1. /\ pc = "idle" /\ UNCHANGED <<job, pc, hand, pending, stash, edits>>
      /\ ~pending /\ ~BlockedRuntime
  BY DEF SyncRuntime, Idle, CInv, Controlled, control, counts, record
<1>2. /\ disk'["runtime"] = Of(want) /\ disk'["config"] = disk["config"]
      /\ \A x \in {"tool", "hooks"} : disk'[x] = disk[x]
  BY DEF SyncRuntime, CInv, World, Disk, Paths, Mine, Objects
<1>3. ASSUME NEW x \in Written PROVE HandHere(x)' /\ Marks(x)' \subseteq Marks(x)
  <2>1. hand[x] \subseteq {Left(x)} /\ Marks(x) \subseteq 1..edits
    BY <1>1 DEF HInv, HandHere, InPlace, Apart
  <2>2. 0 \notin hand[x]
    BY <2>1 DEF Marks
  <2>3. CASE x = "runtime"
    <3>1. Left(x) = 0 /\ Left(x)' = 0
      BY <1>1, <1>2, <2>3, RuntimeClean, OfTyped, Bounds DEF Left, CInv, World, Of
    <3> QED
      BY <1>1, <2>1, <2>2, <3>1 DEF HandHere, InPlace, Marks, Taken
  <2>4. CASE x # "runtime"
    <3>1. disk'[x] = disk[x]
      BY <1>2, <2>4 DEF Written
    <3> QED
      BY <1>1, <2>1, <3>1 DEF HandHere, InPlace, Marks, Taken, Left
  <2> QED
    BY <2>3, <2>4
<1> QED
  BY <1>1, <1>2, <1>3, ElsewhereStays DEF HandStep, Guarded

LEMMA InspectedHand == ASSUME CInv, HInv, Inspected PROVE HandStep
<1>1. /\ pc = "idle" /\ UNCHANGED <<job, pc, disk, edits>>
      /\ hand' = [x \in Paths |-> hand[x] \cap {Left(x)}]
  BY DEF Inspected, Idle, CInv, Controlled, control, counts, world
<1>2. \A x \in Written : HandHere(x)' /\ Marks(x)' \subseteq Marks(x)
  BY <1>1, WrittenIs DEF HandHere, InPlace, Marks, Taken, Left
<1>3. Elsewhere'
  BY <1>1 DEF HInv, Elsewhere, InPlace, Left, Paths
<1> QED
  BY <1>1, <1>2, <1>3 DEF HandStep, Guarded

(* A new edit is at one path only.                                         *)
LEMMA ApartUser ==
  ASSUME CInv, HInv, NEW z, edits' = edits + 1,
         \A x \in Written : x # z => Marks(x)' \subseteq Marks(x),
         z \in Written => Marks(z)' \subseteq Marks(z) \cup {edits + 1}
  PROVE  Apart'
<1>1. edits \in Nat
  BY Bounds DEF CInv, World
<1>2. \A x \in Written : Marks(x) \subseteq 1..edits /\ edits + 1 \notin Marks(x)
  BY <1>1 DEF HInv, Apart
<1>3. \A x \in Written : Marks(x)' \subseteq 1..(edits + 1)
  BY <1>1, <1>2
<1>4. ASSUME NEW x \in Written, NEW y \in Written, x # y PROVE Marks(x)' \cap Marks(y)' = {}
  <2>1. Marks(x) \cap Marks(y) = {}
    BY <1>4 DEF HInv, Apart
  <2>2. CASE x # z /\ y # z
    BY <2>1, <2>2
  <2>3. CASE x = z
    BY <1>2, <1>4, <2>1, <2>3
  <2>4. CASE y = z
    BY <1>2, <1>4, <2>1, <2>4
  <2> QED
    BY <2>2, <2>3, <2>4
<1> QED
  BY <1>3, <1>4 DEF Apart

(* What the user does to a path z while the windows are closed.            *)
LEMMA UserHand ==
  ASSUME CInv, HInv, HandWindows = {}, NEW z \in Paths, HandFree(z),
         UNCHANGED <<pending, snap, aside, job, pc, stash>>, edits' = edits + 1,
         \A y \in Paths : y # z => disk'[y] = disk[y] /\ hand'[y] = hand[y],
         hand'[z] \subseteq (hand[z] \ {Left(z)}) \cup {Left(z)'}, 0 \notin hand'[z],
         Left(z)' \in {0, Left(z), edits + 1},
         pc = "unlink" /\ z = At1 => disk'[z] = Absent,
         z \notin Written \cup {"config"} => disk'[z] = Absent /\ hand'[z] \subseteq hand[z]
  PROVE  HInv'
<1>2. ASSUME NEW x \in Written, x # z
      PROVE  HandHere(x)' /\ Marks(x)' = Marks(x)
  <2>1. /\ Left(x)' = Left(x) /\ OldLeft(x)' = OldLeft(x) /\ hand'[x] = hand[x] /\ At1' = At1
        /\ Ahead' = Ahead
    BY <1>2, WrittenIs DEF Left, OldLeft, At1, Ahead
  <2> QED
    BY <2>1 DEF HInv, HandHere, HandAt, InPlace, Marks, Taken, Allowed, Loose
<1>3. ASSUME z \in Written
      PROVE  HandHere(z)' /\ Marks(z)' \subseteq Marks(z) \cup {edits + 1}
  <2>1. OldLeft(z)' = OldLeft(z) /\ At1' = At1 /\ Ahead' = Ahead /\ Taken(z)' = Taken(z) /\ Loose(z)' = Loose(z)
    BY DEF OldLeft, At1, Ahead, Taken, Loose
  <2>2. HandHere(z) /\ Marks(z) \subseteq 1..edits
    BY <1>3 DEF HInv, Apart
  <2>3. HandHere(z)'
    BY <2>1, <2>2 DEF HandHere, HandAt, InPlace, Allowed
  <2>4. Marks(z)' \subseteq Marks(z) \cup {edits + 1}
    BY <2>1 DEF Marks
  <2> QED
    BY <2>3, <2>4
<1>4. Apart'
  BY <1>2, <1>3, ApartUser
<1>5. Guarded'
  <2>1. z = "config" => pc \in {"idle", "snapshot"} \/ ~job.rebind
    BY DEF HandFree, Idle, CInv, Controlled
  <2>2. pc = "remove" => z # At1
    BY DEF HandFree
  <2>3. At1' = At1 /\ "config" \in Paths
    BY DEF At1, Paths
  <2>4. ASSUME pc \in {"detach", "unlink", "remove"} PROVE At1 \in Paths /\ At1 # "config"
    BY <2>4, AtWork DEF CInv, Ctl, Placed, Mine, Objects, Paths, At1
  <2>5. ASSUME pc # "idle" PROVE Guarded'
    <3>1. \A x \in Written : NewLeft(x)' = OldLeft(x)'
      BY <2>5 DEF HInv, Guarded, NewLeft, OldLeft
    <3>2. job.rebind /\ pc # "snapshot" => disk'["config"] = snap.old["config"]
      BY <2>1, <2>3, <2>5 DEF HInv, Guarded
    <3>3. pc = "remove" => disk'[At1] = snap.new[At1]
      BY <2>2, <2>4, <2>5 DEF HInv, Guarded
    <3>4. pc = "detach" /\ At1 \notin Written => disk'[At1] \in {snap.old[At1], Absent}
      BY <2>4, <2>5 DEF HInv, Guarded
    <3>5. pc = "unlink" => disk'[At1] \in {job.got, Absent}
      BY <2>4, <2>5 DEF HInv, Guarded
    <3> QED
      BY <2>3, <2>5, <3>1, <3>2, <3>3, <3>4, <3>5 DEF HInv, Guarded
  <2> QED
    BY <2>5 DEF Guarded
<1>6. Elsewhere'
  BY WrittenIs DEF HInv, Elsewhere, InPlace, Left, Paths
<1> QED
  BY <1>2, <1>3, <1>4, <1>5, <1>6 DEF HInv

(* A save in place of what was linked into the snapshot: the edit is under *)
(* both names, and the reviewed one is in the copy.                        *)
LEMMA LinkedHand ==
  ASSUME CInv, HInv, NEW z \in Written, NEW v \in Content, Linked(z),
         job' = [job EXCEPT !.got = v],
         aside' = (aside \ {job.got.user}) \cup ({Old(z).user, v.user} \ {0}),
         UNCHANGED <<pending, snap, pc, stash>>, edits' = edits + 1, disk'[z] = v,
         \A y \in Paths : y # z => disk'[y] = disk[y] /\ hand'[y] = hand[y],
         hand'[z] \subseteq (hand[z] \ {Left(z)}) \cup {v.user}, 0 \notin hand'[z],
         v.user \in {0, Left(z), edits + 1}
  PROVE  HInv'
<1>1. /\ pc = "unlink" /\ pc \notin {"idle", "snapshot"} /\ z = At1 /\ disk[z] = job.got
      /\ job.dir = "fwd" /\ job.err = "none" /\ job \in Jobs /\ job.got # Absent
      /\ z \in Paths /\ z # "config" /\ "config" \in Paths
  BY AtWork, WrittenIs DEF Linked, CInv, Ctl, At1, Paths
<1>2. /\ At1' = At1 /\ job'.got = v /\ job'.dir = "fwd" /\ job'.err = "none" /\ SameJob(job', job)
  BY <1>1 DEF Jobs, At1, SameJob
<1>3. Left(z)' = v.user /\ job.got.user = Left(z) /\ Taken(z) /\ Taken(z)'
  BY <1>1, <1>2, Bounds DEF Left, Taken
<1>4. ASSUME NEW x \in Written, x # z
      PROVE  HandHere(x)' /\ Marks(x)' \subseteq Marks(x)
  <2>1. disk'[x] = disk[x] /\ hand'[x] = hand[x] /\ ~Taken(x) /\ ~Taken(x)' /\ HandAt(x)
    BY <1>1, <1>2, <1>4, WrittenIs DEF Taken, HInv, HandHere
  <2>2. Marks(x) \cap Marks(z) = {} /\ Marks(x) \subseteq 1..edits
    BY <1>4 DEF HInv, Apart
  <2>3. {job.got.user} \ {0} \subseteq Marks(z)
    BY <1>3 DEF Marks
  <2>4. hand[x] \cup ({OldLeft(x)} \ {0}) \subseteq Marks(x)
    BY <1>1 DEF Marks
  <2>5. 0 \notin 1..edits
    OBVIOUS
  <2>6. job.got.user \notin hand[x] \cup ({OldLeft(x)} \ {0})
    BY <2>2, <2>3, <2>4, <2>5
  <2>7. {OldLeft(x)} \ {0} \subseteq aside'
    <3>1. {OldLeft(x)} \ {0} \subseteq aside
      BY <1>1, <2>1 DEF HandAt
    <3> QED
      BY <2>6, <3>1
  <2>8. hand[x] \cap aside \subseteq aside'
    BY <2>6
  <2>9. hand[x] \subseteq Allowed(x)'
    <3>1. hand[x] \subseteq {Left(x)}
      BY <1>1, <2>1 DEF HandAt, Allowed, Loose
    <3> QED
      BY <2>1, <3>1 DEF Allowed, Left
  <2> QED
    BY <1>1, <2>1, <2>7, <2>8, <2>9, Steady
<1>5. HandHere(z)' /\ Marks(z)' \subseteq Marks(z) \cup {edits + 1}
  <2>1. HandAt(z) /\ OldLeft(z)' = OldLeft(z)
    BY <1>1 DEF HInv, HandHere, OldLeft
  <2>2. hand[z] \subseteq {Left(z)}
    BY <1>1, <1>3, <2>1 DEF HandAt, Allowed, Loose
  <2>3. hand'[z] \subseteq {Left(z)'}
    BY <1>3, <2>2
  <2>4. {OldLeft(z)} \ {0} \subseteq aside' /\ {job'.got.user} \ {0} \subseteq aside'
    <3>1. OldLeft(z) = Old(z).user
      BY <1>1 DEF CInv, Record, OldLeft, LeftOf, Old
    <3> QED
      BY <1>2, <3>1
  <2>5. HandAt(z)'
    BY <1>1, <1>2, <2>1, <2>3, <2>4 DEF HandAt, Allowed
  <2>6. Marks(z)' \subseteq Marks(z) \cup {edits + 1}
    <3>1. hand'[z] \subseteq {Left(z), edits + 1}
      BY <1>3, <2>3
    <3> QED
      BY <1>1, <1>2, <1>3, <2>1, <3>1 DEF Marks
  <2> QED
    BY <1>1, <2>5, <2>6 DEF HandHere
<1>6. Apart'
  BY <1>4, <1>5, ApartUser
<1>7. Guarded'
  BY <1>1, <1>2 DEF HInv, Guarded, NewLeft, OldLeft, SameJob
<1>8. Elsewhere'
  BY <1>1, WrittenIs DEF HInv, Elsewhere, InPlace, Left, Paths
<1> QED
  BY <1>4, <1>5, <1>6, <1>7, <1>8 DEF HInv

LEMMA SaveHand ==
  ASSUME CInv, HInv, HandWindows = {}, NEW z \in Written \cup {"config"}, NEW v \in Content,
         Save(z, v), UNCHANGED <<pending, snap, pc, stash>>, edits' = edits + 1,
         \A y \in Paths : y # z => hand'[y] = hand[y],
         hand'[z] \subseteq (hand[z] \ {Left(z)}) \cup {v.user}, 0 \notin hand'[z],
         v.user \in {0, Left(z), edits + 1}
  PROVE  HInv'
<1>1. z \in Paths
  BY DEF Paths, Mine, Objects, Written
<1>2. disk'[z] = v /\ \A y \in Paths : y # z => disk'[y] = disk[y]
  BY <1>1 DEF Save, CInv, World, Disk
<1>3. Left(z)' = v.user
  BY <1>2, Bounds DEF Left
<1>4. CASE UNCHANGED <<aside, job>> /\ (pc = "unlink" /\ z = At1 => "unlink" \in HandWindows)
  <2>1. ~(pc = "unlink" /\ z = At1) /\ HandFree(z)
    BY <1>4 DEF Save
  <2> QED
    BY <1>1, <1>2, <1>3, <1>4, <2>1, UserHand
<1>5. CASE /\ Linked(z)
           /\ job' = [job EXCEPT !.got = v]
           /\ aside' = (aside \ {job.got.user}) \cup ({Old(z).user, v.user} \ {0})
  <2>1. z # "config"
    BY <1>5, AtWork DEF Linked, CInv, Ctl, At1, Placed
  <2> QED
    BY <1>2, <1>5, <2>1, LinkedHand
<1> QED
  BY <1>4, <1>5 DEF Save

LEMMA EditHand ==
  ASSUME CInv, HInv, HandWindows = {}, NEW x \in {"tool", "runtime", "hooks", "config"}, Edit(x)
  PROVE  HInv'
<1>1. edits' = edits + 1 /\ edits' \in Notes /\ edits' # 0
  BY EditsCount, Bounds DEF Edit, CInv, World
<1>2. x \in Paths /\ x \in Written \cup {"config"}
  BY DEF Paths, Mine, Objects, Written
<1>3. Edited(x, edits') \in Content /\ Edited(x, edits').user = edits'
  BY <1>1, GroupsTyped DEF Edited, Content, CInv
<1>4. /\ hand'[x] = (hand[x] \ {Left(x)}) \cup {edits'}
      /\ \A y \in Paths : y # x => hand'[y] = hand[y]
  BY <1>2 DEF Edit, Save, CInv, World, Disk
<1>6. 0 \notin hand[x] \ {Left(x)}
  <2>1. CASE x \in Written
    BY <2>1 DEF HInv, Apart, Marks
  <2>2. CASE x = "config"
    BY <2>2 DEF HInv, Elsewhere, InPlace
  <2> QED
    BY <1>2, <2>1, <2>2
<1> QED
  BY <1>1, <1>2, <1>3, <1>4, <1>6, SaveHand DEF Edit

LEMMA StripHand == ASSUME CInv, HInv, HandWindows = {}, Strip PROVE HInv'
<1>1. edits' = edits + 1 /\ UNCHANGED hand
  BY DEF Strip
<1>2. "hooks" \in Paths /\ "hooks" \in Written /\ disk["hooks"] \in Content
  BY NoteTyped DEF Strip, Groups, CInv, Paths, Mine, Written
<1>3. /\ [disk["hooks"] EXCEPT !.own = <<>>] \in Content
      /\ [disk["hooks"] EXCEPT !.own = <<>>].user = Left("hooks")
  <2>1. <<>> \in Seq(Versions)
    OBVIOUS
  <2> QED
    BY <1>2, <2>1, Bounds DEF Content, Left
<1>4. 0 \notin hand["hooks"]
  BY <1>2 DEF HInv, Apart, Marks
<1>5. hand["hooks"] \subseteq (hand["hooks"] \ {Left("hooks")}) \cup {Left("hooks")}
  OBVIOUS
<1> QED
  BY <1>1, <1>2, <1>3, <1>4, <1>5, SaveHand DEF Strip

LEMMA MoveAsideHand ==
  ASSUME CInv, HInv, HandWindows = {}, NEW x \in Paths \ {"config"}, MoveAside(x)
  PROVE  HInv'
<1>1. edits' = edits + 1
  BY DEF MoveAside
<1>2. /\ disk'[x] = Absent /\ \A y \in Paths : y # x => disk'[y] = disk[y]
      /\ hand'[x] = hand[x] \ {Left(x)}
      /\ \A y \in Paths : y # x => hand'[y] = hand[y]
  BY DEF MoveAside, CInv, World, Disk
<1>3. Left(x)' = 0
  BY <1>2 DEF Left
<1>4. 0 \notin hand[x]
  <2>1. CASE x \in Written
    BY <2>1 DEF HInv, Apart, Marks
  <2>2. CASE x \notin Written
    BY <2>2 DEF HInv, Elsewhere
  <2> QED
    BY <2>1, <2>2
<1> QED
  BY <1>1, <1>2, <1>3, <1>4, UserHand DEF MoveAside, record, control

LEMMA InitHand == ASSUME Init PROVE HInv
<1>1. pc = "idle" /\ edits = 0 /\ \A x \in Paths : hand[x] = {} /\ Left(x) = 0
  BY Bounds DEF Init, Left, Paths
<1>2. \A x \in Written : Marks(x) = {}
  BY <1>1, WrittenIs DEF Marks, Taken
<1> QED
  BY <1>1, <1>2, WrittenIs DEF HInv, Apart, HandHere, InPlace, Guarded, Elsewhere, Paths

LEMMA NextHand == ASSUME CInv, HInv, HandWindows = {}, [Next]_vars PROVE HInv'
<1>1. CASE Step
  BY <1>1, SnapshotHand, CheckPathHand, AttachHand, DetachHand, DropNameHand, InspectHand, PlaceHand, UndoFileHand,
     UnlinkHand, RestoreHand, UndoReceiptHand, UndoHostHand, ClearHand, HandStepHolds DEF Step
<1>2. CASE Upgrade
  BY <1>2, QuietHand, HandStepHolds DEF Upgrade, record, control, history, counts
<1>3. CASE User /\ ~Upgrade
  BY <1>3, EditHand, StripHand, MoveAsideHand, InspectedHand, SyncRuntimeHand, HandStepHolds DEF User
<1>4. CASE Preview
  BY <1>4, QuietHand, HandStepHolds DEF Preview, world, record, history, counts
<1>5. CASE UNCHANGED vars
  BY <1>5, QuietHand, HandStepHolds DEF vars, world, record, control, history, counts
<1> QED
  BY <1>1, <1>2, <1>3, <1>4, <1>5, BeginHand, FaultHand, CrashHand, HandStepHolds DEF Next

(* Where each edit is, for any number of releases, edits, errors and       *)
(* kills, as long as none falls into one of the three windows: the         *)
(* configuration while it is bound, a path about to be unlinked by the     *)
(* rollback, and a file saved anew between the link and the unlink that    *)
(* move it into the snapshot.                                              *)
THEOREM EditsKept == ASSUME HandWindows = {} PROVE Spec => [](CInv /\ HInv)
<1>1. Init => CInv /\ HInv
  BY InitCtl, InitHand
<1>2. CInv /\ HInv /\ [Next]_vars => (CInv /\ HInv)'
  BY NextCtl, NextHand
<1> QED
  BY <1>1, <1>2, PTL DEF Spec

(* What the user wrote outside the three windows is never lost: it is at   *)
(* its place, or in a snapshot that is still there.                        *)
THEOREM NothingLost == ASSUME HandWindows = {} PROVE Spec => []HandKept
<1>1. CInv /\ HInv => HandKept
  <2> SUFFICES ASSUME CInv, HInv, NEW x \in Paths
               PROVE  hand[x] \subseteq {Left(x)} \cup aside \cup stash
    BY DEF HandKept
  <2>1. CASE x \in Written
    BY <2>1 DEF HInv, HandHere, HandAt, InPlace
  <2>2. CASE x \notin Written
    BY <2>2 DEF HInv, Elsewhere, InPlace
  <2> QED
    BY <2>1, <2>2
<1> QED
  BY <1>1, EditsKept, PTL

(* Once a command is over and no marker asks the user to look, what the    *)
(* user wrote outside the three windows is at its place: only a race or a  *)
(* kill leaves it in a snapshot alone.                                     *)
THEOREM StillInPlace == ASSUME HandWindows = {} PROVE Spec => []HandInPlace
<1>1. CInv /\ HInv => HandInPlace
  <2> SUFFICES ASSUME CInv, HInv, Settled, NEW x \in Paths
               PROVE  hand[x] \subseteq {Left(x)}
    BY DEF HandInPlace
  <2>1. pc = "idle" /\ ~pending
    BY DEF Settled, Idle, CInv, Controlled
  <2>2. CASE x \in Written
    BY <2>1, <2>2 DEF HInv, HandHere, InPlace
  <2>3. CASE x \notin Written
    BY <2>3 DEF HInv, Elsewhere, InPlace
  <2> QED
    BY <2>2, <2>3
<1> QED
  BY <1>1, EditsKept, PTL

-----------------------------------------------------------------------------
(* What the paths hold.                                                    *)

OwnOf(c) == IF c = Absent THEN <<>> ELSE c.own

(* A path holds v, or the user has changed it or moved it away.            *)
Known(x, v) == \/ disk[x] = v
               \/ x \in touched /\ (x \in Written \cup {"config"} \/ disk[x] = Absent)
GroupIs(g)  == "group" \in touched \/ Groups = g

(* An image d, of which the user changed the paths T, is of one whole      *)
(* installation, or of the first one, of the release t, cut off.           *)
RecWhole(d, T, t) ==
  IF d["rec"] # Absent
    THEN \E v \in Versions :
           /\ d["rec"].own = <<v>>
           /\ \A x \in {"tool", "pin"} \ T : d[x] = Of(v)
           /\ "group" \notin T => OwnOf(d["hooks"]) = <<v>>
    ELSE \/ "rec" \in T
         \/ /\ \A x \in {"tool", "pin"} \ T : d[x] \in {Absent, Of(t)}
            /\ "group" \notin T => OwnOf(d["hooks"]) \in {<<>>, <<t>>}

MatWhole(d, T, t) ==
  IF d["mat"] # Absent
    THEN \E v \in Versions :
           d["mat"].own = <<v>> /\ ("runtime" \notin T => d["runtime"] = Of(v))
    ELSE \/ "mat" \in T
         \/ /\ "rec" \in T \/ d["rec"] = Absent
            /\ "runtime" \notin T => d["runtime"] \in {Absent, Of(t)}

Whole(d, T, t) == RecWhole(d, T, t) /\ MatWhole(d, T, t)

(* The snapshot says what to place of the release w, and, where no receipt *)
(* was, that nothing of another release was there before.                  *)
Aim(w) ==
  /\ snap.new["tool"] = Of(w) /\ snap.new["pin"] = Of(w) /\ snap.new["runtime"] = Of(w)
  /\ \A x \in {"mat", "rec"} : snap.new[x] # Absent /\ snap.new[x].own = <<w>>
  /\ "group" \in touched \/ OwnOf(snap.new["hooks"]) = <<w>>
  /\ snap.old["rec"] = Absent /\ snap.old["mat"] = Absent =>
       /\ \A x \in {"tool", "pin", "runtime"} : snap.old[x] \in {Absent, Of(w)}
       /\ "group" \in touched \/ OwnOf(snap.old["hooks"]) \in {<<>>, <<w>>}

HostKept ==
  /\ ~job.rebind => Known("binding", snap.old["binding"]) /\ Known("binding", snap.new["binding"])
  /\ Known("config", snap.old["config"]) /\ Known("config", snap.new["config"])

OnlyKnown ==
  /\ \A x \in Paths \ {"known", "config", "binding"} : snap.new[x] = snap.old[x]
  /\ snap.old["rec"] # Absent /\ snap.old["mat"] # Absent

Images ==
  /\ Whole(snap.old, job.was, torn)
  /\ ~job.only => \E w \in Versions : Aim(w)
  /\ job.only => OnlyKnown
  /\ HostKept

(* Forward: what is done is as desired, what is ahead as before, and the   *)
(* path at hand empty once it was moved away.                              *)
Amid(x) == pc \in {"inspect", "place"} /\ At1 = x

FwdAt(x) ==
  /\ x \in Ahead /\ ~Amid(x) => Known(x, snap.old[x])
  /\ x \notin Ahead => Known(x, snap.new[x])
  /\ Amid(x) => Known(x, Absent)
  /\ pc \in {"detach", "unlink", "inspect", "place"} /\ At1 = x =>
       snap.old[x] # snap.new[x] \/ x = "rec"
  /\ pc \in {"unlink", "inspect"} /\ At1 = x => job.got = snap.old[x] \/ x \in Written \cap touched

FwdGroup ==
  /\ "hooks" \in Ahead /\ ~Amid("hooks") => GroupIs(OwnOf(snap.old["hooks"]))
  /\ "hooks" \notin Ahead => GroupIs(OwnOf(snap.new["hooks"]))
  /\ Amid("hooks") => GroupIs(<<>>)
  /\ pc \in {"unlink", "inspect"} /\ At1 = "hooks" =>
       "group" \in touched \/ job.got.own = OwnOf(snap.old["hooks"])

Fwd == (\A x \in Paths : FwdAt(x)) /\ FwdGroup

(* Back: nothing foreign, and what is undone is as before, without a race. *)
Undone(x) == x \notin Ahead /\ (x \in {"config", "binding"} => "host" \notin Ahead)

BackAt(x) ==
  /\ x \in {"tool", "pin", "runtime"} \ touched => disk[x] \in {Absent, snap.old[x], snap.new[x]}
  /\ job.err # "race" /\ (Undone(x) \/ (x \in Mine /\ snap.old[x] = snap.new[x])) =>
       Known(x, snap.old[x])

BackGroup ==
  /\ "group" \in touched
       \/ Groups \in {<<>>, OwnOf(snap.old["hooks"]), OwnOf(snap.new["hooks"])}
  /\ job.err # "race" /\ ("hooks" \notin Ahead \/ snap.old["hooks"] = snap.new["hooks"]) =>
       GroupIs(OwnOf(snap.old["hooks"]))

Back == /\ (\A x \in Paths : BackAt(x)) /\ BackGroup
        /\ pc \in {"remove", "restore"} => snap.old[At1] # snap.new[At1]

PInv ==
  IF pc = "idle" THEN Whole(disk, touched, torn)
  ELSE Images /\ (IF job.dir = "fwd" THEN Fwd ELSE Back)

LEMMA PathsAre ==
  /\ {"rec", "mat", "known", "hooks", "tool", "runtime", "pin", "config", "binding"} = Paths
  /\ Mine = {"tool", "runtime", "pin", "hooks"} /\ "host" \notin Paths /\ "verify" \notin Paths
  /\ "group" \notin Paths /\ Traces = Paths \cup {"group"}
BY DEF Paths, Mine, Objects, Traces

(* An image that the disk still has, but for the hands of the user.        *)
LEMMA WholeKept ==
  ASSUME NEW d, NEW T, NEW t, Whole(d, T, t),
         \A x \in {"rec", "mat", "tool", "pin", "runtime"} : Known(x, d[x]),
         GroupIs(OwnOf(d["hooks"]))
  PROVE  Whole(disk, touched \cup T, t)
<1>1. /\ \A x \in {"rec", "mat"} : disk[x] = d[x] \/ (x \in touched /\ disk[x] = Absent)
      /\ \A x \in {"tool", "pin", "runtime"} \ touched : disk[x] = d[x]
      /\ "group" \notin touched => OwnOf(disk["hooks"]) = OwnOf(d["hooks"])
  BY DEF Known, Written, GroupIs, Groups, OwnOf
<1>2. RecWhole(disk, touched \cup T, t)
  BY <1>1 DEF Whole, RecWhole
<1>3. MatWhole(disk, touched \cup T, t)
  BY <1>1 DEF Whole, MatWhole
<1> QED
  BY <1>2, <1>3 DEF Whole

LEMMA WholeUnknown ==
  ASSUME World', NEW t
  PROVE  Whole(disk', Traces, t)
BY PathsAre DEF World, OneRelease, Whole, RecWhole, MatWhole

LEMMA GiveUpPaths == ASSUME CInv', GiveUp PROVE PInv'
<1>1. pc' = "idle" /\ touched' = Traces
  BY DEF GiveUp, End
<1>2. Whole(disk', Traces, torn')
  BY WholeUnknown DEF CInv
<1> QED
  BY <1>1, <1>2 DEF PInv

(* What the orders say of what is ahead.                                   *)
LEMMA AheadOf ==
  ASSUME Controlled, pc # "idle"
  PROVE  /\ job.only => Ahead \subseteq {"known"}
         /\ job.dir = "fwd" /\ ~job.only =>
              /\ "rec" \notin Ahead => Ahead = {}
              /\ "mat" \notin Ahead => Ahead \subseteq {"rec"}
         /\ pc = "snapshot" => /\ job.only => Ahead = {"known"}
                               /\ ~job.only => \A x \in Paths : x \in Ahead <=> x # "config"
         /\ job.todo = <<>> => Ahead = {}
<1>1. /\ job.todo \in Rests(Order(job)) /\ job.dir \in {"fwd", "back"} /\ job.only \in BOOLEAN
      /\ pc = "snapshot" => job.dir = "fwd" /\ job.todo = Order(job)
  BY AtWork DEF Ctl
<1>2. job.todo = <<>> => Ahead = {}
  BY DEF Ahead, ToSet
<1> DEFINE s == Order(job)
<1>3. s \in Seq(Places) /\ Len(s) \in 1..10
  BY <1>1, Orders
<1>4. PICK k \in 1..(Len(s) + 1) : job.todo = Rest(s, k)
  BY <1>1 DEF Rests
<1>5. Ahead = {s[i] : i \in k..Len(s)}
  <2> HIDE DEF s
  <2> QED
    BY <1>3, <1>4, RestFacts DEF Ahead
<1>6. CASE job.only
  <2>1. s = <<"known">> /\ Len(s) = 1
    BY <1>6, KnownIs DEF Order
  <2>2. Ahead = {<<"known">>[i] : i \in k..1}
    BY <2>1, <1>5
  <2>3. Ahead \subseteq {"known"}
    BY <2>2
  <2>4. pc = "snapshot" => Ahead = {"known"}
    BY <1>1, <1>6, UndoTodo DEF Order, Ahead
  <2> QED
    BY <1>2, <1>6, <2>3, <2>4
<1>7. CASE ~job.only /\ job.dir = "fwd"
  <2>1. s = Placing
    BY <1>7 DEF Order
  <2>2. Len(s) = 10
    BY <2>1, PlacingIs
  <2>3. k \in 1..11
    BY <2>2
  <2>4. Ahead = {Placing[i] : i \in k..10}
    BY <2>1, <2>2, <1>5
  <2>5. "rec" \notin Ahead => Ahead = {}
    <3>1. k <= 10 => "rec" \in Ahead
      BY <2>4, PlacingIs
    <3>2. k = 11 => Ahead = {}
      BY <2>4
    <3> QED
      BY <2>3, <3>1, <3>2
  <2>6. "mat" \notin Ahead => Ahead \subseteq {"rec"}
    <3>1. k <= 9 => "mat" \in Ahead
      BY <2>4, PlacingIs
    <3>2. k >= 10 => Ahead \subseteq {"rec"}
      BY <2>4, PlacingIs
    <3> QED
      BY <2>3, <3>1, <3>2
  <2>7. ASSUME pc = "snapshot" PROVE \A x \in Paths : x \in Ahead <=> x # "config"
    <3>1. job.todo = Placing /\ DOMAIN Placing = 1..10 /\ 1..10 = {1,2,3,4,5,6,7,8,9,10}
      BY <1>1, <1>7, <2>7, PlacingIs DEF Order
    <3>2. Ahead = {Placing[i] : i \in {1,2,3,4,5,6,7,8,9,10}}
      BY <3>1 DEF Ahead, ToSet
    <3>3. Ahead = {"binding", "known", "tool", "runtime", "hooks", "verify", "pin", "mat", "rec"}
      BY <3>2, PlacingIs
    <3> QED
      BY <3>3, PathsAre
  <2> QED
    BY <1>2, <1>7, <2>5, <2>6, <2>7
<1> QED
  BY <1>1, <1>2, <1>6, <1>7

LEMMA PlacingAll == \A x \in Paths : x \in ToSet(Placing) <=> x # "config"
<1>1. DOMAIN Placing = 1..10 /\ 1..10 = {1, 2, 3, 4, 5, 6, 7, 8, 9, 10}
  BY PlacingIs
<1>2. ToSet(Placing) = {Placing[i] : i \in {1, 2, 3, 4, 5, 6, 7, 8, 9, 10}}
  BY <1>1 DEF ToSet
<1>3. ToSet(Placing) = {"binding", "known", "tool", "runtime", "hooks", "verify", "pin", "mat", "rec"}
  BY <1>2, PlacingIs
<1> QED
  BY <1>3, PathsAre

(* Forward, every object is as before, as desired, or away.                *)
LEMMA FwdRange ==
  ASSUME Fwd
  PROVE  /\ \A x \in {"tool", "pin", "runtime"} \ touched : disk[x] \in {Absent, snap.old[x], snap.new[x]}
         /\ "group" \in touched
              \/ Groups \in {<<>>, OwnOf(snap.old["hooks"]), OwnOf(snap.new["hooks"])}
BY PathsAre DEF Fwd, FwdAt, FwdGroup, Known, GroupIs

(* What a rollback and the end of a job need of the images.                *)
LEMMA OldAtFirst ==
  ASSUME CInv, PInv, pc # "idle", job.dir = "fwd", pc = "snapshot" \/ job.only, NEW x \in Paths,
         pc = "snapshot" \/ x # "known"
  PROVE  Known(x, snap.old[x])
<1>1. FwdAt(x) /\ Images
  BY DEF PInv, Fwd
<1>2. CASE x \in Ahead
  <2>1. pc = "snapshot"
    BY <1>2, AheadOf DEF CInv
  <2> QED
    BY <1>1, <1>2, <2>1 DEF FwdAt, Amid
<1>3. CASE x \notin Ahead
  <2>1. CASE x = "config"
    BY <1>1, <2>1 DEF Images, HostKept
  <2>2. CASE x # "config"
    <3>1. job.only /\ x # "known" /\ ~job.rebind
      BY <1>3, <2>2, AheadOf, AtWork DEF CInv, Ctl
    <3> QED
      BY <1>1, <1>3, <2>2, <3>1 DEF FwdAt, Images, OnlyKnown, HostKept
  <2> QED
    BY <2>1, <2>2
<1> QED
  BY <1>2, <1>3

LEMMA OldGroupAtFirst ==
  ASSUME CInv, PInv, pc # "idle", job.dir = "fwd", pc = "snapshot" \/ job.only
  PROVE  GroupIs(OwnOf(snap.old["hooks"]))
<1>1. FwdGroup /\ Images
  BY DEF PInv, Fwd
<1>2. CASE job.only
  <2>1. "hooks" \notin Ahead /\ snap.new["hooks"] = snap.old["hooks"]
    BY <1>1, <1>2, AheadOf, PathsAre DEF CInv, Images, OnlyKnown
  <2> QED
    BY <1>1, <2>1 DEF FwdGroup
<1>3. CASE ~job.only
  BY <1>1, <1>3, AheadOf, PathsAre DEF CInv, FwdGroup, Amid
<1> QED
  BY <1>2, <1>3

(* The images stay while the host does.                                    *)
LEMMA ImagesStay ==
  ASSUME Images, HostKept', SameJob(job', job), torn' = torn, touched \subseteq touched',
         snap' = snap
  PROVE  Images'
<1>1. ASSUME NEW w \in Versions, Aim(w) PROVE Aim(w)'
  BY <1>1 DEF Aim
<1> QED
  BY <1>1 DEF Images, SameJob, OnlyKnown

LEMMA HostStays ==
  ASSUME Images, SameJob(job', job), touched \subseteq touched', snap' = snap,
         disk'["config"] = disk["config"], disk'["binding"] = disk["binding"]
  PROVE  HostKept'
BY DEF Images, HostKept, Known, SameJob

LEMMA TurnPaths ==
  ASSUME CInv, PInv, pc \notin {"idle", "snapshot"}, job.dir = "fwd", NEW e \in {"other", "race"},
         TurnBack(e), Onward, UNCHANGED disk
  PROVE  PInv'
<1>1. /\ pc' = "check" /\ SameJob(job', job) /\ job'.dir = "back" /\ job'.err = e
      /\ Ahead' = Undoes(job)
  BY TurnStep DEF CInv
<1>2. UNCHANGED <<disk, snap, touched, torn>> /\ Images /\ Fwd
  BY DEF Onward, PInv
<1>3. Images'
  <2>1. HostKept'
    BY <1>1, <1>2 DEF Images, HostKept, Known, SameJob
  <2> QED
    BY <1>1, <1>2, <2>1, ImagesStay
<1>4. ASSUME NEW x \in Paths PROVE BackAt(x)'
  <2>1. ASSUME Undone(x)' \/ (x \in Mine /\ snap.old[x] = snap.new[x])
        PROVE  Known(x, snap.old[x])
    <3>1. CASE job.only
      <4>1. x # "known"
        BY <1>1, <2>1, <3>1, PathsAre DEF Undone, Undoes
      <4> QED
        BY <3>1, <4>1, OldAtFirst
    <3>2. CASE ~job.only
      <4>1. x \in Mine /\ snap.old[x] = snap.new[x] /\ x # "rec"
        BY <1>1, <2>1, <3>2, PathsAre DEF Undone, Undoes
      <4>2. FwdAt(x) /\ ~Amid(x)
        BY <1>2, <4>1 DEF Fwd, FwdAt, Amid
      <4> QED
        BY <4>1, <4>2 DEF FwdAt
    <3> QED
      BY <3>1, <3>2
  <2>2. x \in {"tool", "pin", "runtime"} \ touched => disk[x] \in {Absent, snap.old[x], snap.new[x]}
    BY <1>2, FwdRange
  <2>3. Known(x, snap.old[x])' <=> Known(x, snap.old[x])
    BY <1>2 DEF Known
  <2> QED
    BY <1>2, <2>1, <2>2, <2>3 DEF BackAt
<1>5. BackGroup'
  <2>1. ASSUME "hooks" \notin Ahead' \/ snap.old["hooks"] = snap.new["hooks"]
        PROVE  GroupIs(OwnOf(snap.old["hooks"]))
    <3>1. CASE job.only
      BY <3>1, OldGroupAtFirst
    <3>2. CASE ~job.only
      <4>1. snap.old["hooks"] = snap.new["hooks"]
        BY <1>1, <2>1, <3>2, PathsAre DEF Undoes
      <4>2. FwdAt("hooks") /\ FwdGroup /\ ~Amid("hooks")
        BY <1>2, <4>1, PathsAre DEF Fwd, FwdAt, Amid
      <4> QED
        BY <4>1, <4>2 DEF FwdGroup
    <3> QED
      BY <3>1, <3>2
  <2>2. Groups' = Groups
    BY <1>2 DEF Groups
  <2> QED
    BY <1>2, <2>1, <2>2, FwdRange DEF BackGroup, GroupIs
<1> QED
  BY <1>1, <1>3, <1>4, <1>5 DEF PInv, Back

LEMMA ErrorPaths ==
  ASSUME CInv, CInv', PInv, pc \notin {"idle", "snapshot"}, NEW e \in {"other", "race"},
         Error(e), UNCHANGED disk
  PROVE  PInv'
BY TurnPaths, GiveUpPaths DEF Error

(* A path that a forward step leaves alone.                                *)
LEMMA FwdSame ==
  ASSUME NEW x \in Paths, FwdAt(x), snap'.old[x] = snap.old[x], snap'.new[x] = snap.new[x],
         disk'[x] = disk[x], touched \subseteq touched', x \in Ahead' <=> x \in Ahead,
         ~(pc \in {"inspect", "place"} /\ At1 = x),
         ~(pc' \in {"detach", "unlink", "inspect", "place"} /\ At1' = x)
  PROVE  FwdAt(x)'
BY DEF FwdAt, Amid, Known

LEMMA FwdGroupSame ==
  ASSUME FwdGroup, snap'.old["hooks"] = snap.old["hooks"], snap'.new["hooks"] = snap.new["hooks"],
         disk'["hooks"] = disk["hooks"], touched \subseteq touched',
         "hooks" \in Ahead' <=> "hooks" \in Ahead,
         ~(pc \in {"inspect", "place"} /\ At1 = "hooks"),
         ~(pc' \in {"unlink", "inspect", "place"} /\ At1' = "hooks")
  PROVE  FwdGroup'
BY DEF FwdGroup, Amid, GroupIs, Groups

(* The path at hand is done.                                               *)
LEMMA FwdProceed ==
  ASSUME CInv, PInv, pc \notin {"idle", "snapshot", "clear"}, job.dir = "fwd", Proceed,
         Images', touched' = touched, snap'.old = snap.old,
         \A x \in Paths : x # At1 => snap'.new[x] = snap.new[x] /\ disk'[x] = disk[x],
         \A x \in Paths : x = At1 => Known(x, snap.new[x])',
         At1 = "hooks" => GroupIs(OwnOf(snap.new["hooks"]))'
  PROVE  PInv'
<1>1. /\ pc' \in {"check", "clear"} /\ job'.dir = "fwd"
      /\ \A x \in Paths \cup {"host"} : x \in Ahead' <=> x \in Ahead /\ x # At1
  BY ProceedStep DEF CInv
<1>2. Fwd
  BY DEF PInv
<1>3. ASSUME NEW x \in Paths PROVE FwdAt(x)'
  <2>1. CASE x = At1
    BY <1>1, <2>1 DEF FwdAt, Amid, Known
  <2>2. CASE x # At1
    <3>1. FwdAt(x)
      BY <1>2 DEF Fwd
    <3> QED
      BY <1>1, <2>2, <3>1, FwdSame
  <2> QED
    BY <2>1, <2>2
<1>4. FwdGroup'
  <2>1. CASE At1 = "hooks"
    BY <1>1, <2>1, PathsAre DEF FwdGroup, Amid, GroupIs, Groups
  <2>2. CASE At1 # "hooks"
    <3>1. FwdGroup
      BY <1>2 DEF Fwd
    <3> QED
      BY <1>1, <2>2, <3>1, FwdGroupSame, PathsAre
  <2> QED
    BY <2>1, <2>2
<1> QED
  BY <1>1, <1>3, <1>4 DEF PInv, Fwd

LEMMA CheckPathPaths == ASSUME CInv, CInv', PInv, CheckPath PROVE PInv'
<1>1. /\ pc = "check" /\ pc \notin {"idle", "snapshot", "clear"} /\ job.dir = "fwd" /\ UNCHANGED disk
      /\ Images /\ Fwd /\ At1 # "binding"
  BY DEF CheckPath, world, PInv
<1>2. At1 \in Placed \cup {"verify"}
  BY <1>1, Busy DEF CInv, Forward
<1>3. CASE (At1 = "verify" \/ Old(At1) = New(At1)) /\ Proceed /\ Onward
  <2>1. UNCHANGED <<snap, touched, torn>> /\ SameJob(job', job)
    BY <1>1, <1>3, ProceedStep DEF Onward, CInv
  <2>2. Images'
    <3>1. HostKept'
      BY <1>1, <2>1 DEF Images, HostKept, Known, SameJob
    <3> QED
      BY <1>1, <2>1, <3>1, ImagesStay
  <2>3. ASSUME NEW x \in Paths, x = At1 PROVE Known(x, snap.new[x])'
    <3>1. FwdAt(x) /\ x \in Ahead /\ snap.old[x] = snap.new[x]
      BY <1>1, <1>3, <2>3, Busy, PathsAre DEF CInv, Fwd, Old, New
    <3> QED
      BY <1>1, <2>1, <3>1 DEF FwdAt, Amid, Known
  <2>4. ASSUME At1 = "hooks" PROVE GroupIs(OwnOf(snap.new["hooks"]))'
    <3>1. FwdGroup /\ "hooks" \in Ahead /\ snap.old["hooks"] = snap.new["hooks"]
      BY <1>1, <1>3, <2>4, Busy DEF CInv, Fwd, Old, New
    <3> QED
      BY <1>1, <2>1, <3>1 DEF FwdGroup, Amid, GroupIs, Groups
  <2> QED
    BY <1>1, <1>3, <2>1, <2>2, <2>3, <2>4, FwdProceed
<1>4. ASSUME NEW e \in {"other", "race"}, Error(e) PROVE PInv'
  BY <1>1, <1>4, ErrorPaths
<1>5. CASE /\ At1 # "verify" /\ Replace(At1) /\ (Old(At1) = New(At1) => At1 = "rec")
           /\ disk[At1] = Old(At1) \/ (At1 = "mat" /\ Old(At1) = New(At1))
  <2>1. PICK l \in {"detach", "place"} : Goto(l) /\ Onward /\ (l = "place" => Old(At1) = Absent)
    BY <1>5 DEF Replace
  <2>2. pc' = l /\ job' = job /\ UNCHANGED <<snap, touched, torn>> /\ At1' = At1 /\ Ahead' = Ahead
    BY <2>1 DEF Goto, Onward, At1, Ahead
  <2>3. Images'
    <3>1. HostKept'
      BY <1>1, <2>2 DEF Images, HostKept, Known
    <3> QED
      BY <1>1, <2>2, <3>1, ImagesStay DEF SameJob
  <2>4. At1 \in Ahead /\ At1 \in Paths
    BY <1>1, <1>2, <1>5, Busy, PathsAre DEF CInv, Placed
  <2>5. l = "place" => disk[At1] = Absent
    BY <1>5, <2>1
  <2>6. ASSUME NEW x \in Paths PROVE FwdAt(x)'
    <3>1. FwdAt(x)
      BY <1>1 DEF Fwd
    <3>2. CASE x = At1
      BY <1>1, <1>5, <2>2, <2>4, <2>5, <3>1, <3>2 DEF FwdAt, Amid, Known, Old, New
    <3>3. CASE x # At1
      BY <1>1, <2>2, <3>1, <3>3, FwdSame
    <3> QED
      BY <3>2, <3>3
  <2>7. FwdGroup'
    BY <1>1, <2>2, <2>4, <2>5 DEF Fwd, FwdGroup, Amid, GroupIs, Groups
  <2> QED
    BY <1>1, <2>2, <2>3, <2>6, <2>7 DEF PInv, Fwd
<1> QED
  BY <1>3, <1>4, <1>5 DEF CheckPath, Verify

LEMMA AttachPaths == ASSUME CInv, CInv', PInv, Attach PROVE PInv'
<1>1. /\ pc = "check" /\ pc \notin {"idle", "snapshot", "clear"} /\ job.dir = "fwd"
      /\ Images /\ Fwd /\ At1 = "binding"
  BY DEF Attach, PInv
<1>2. CASE /\ ~job.rebind \/ Bound = New("binding")
           /\ disk' = IF job.rebind THEN [disk EXCEPT !["binding"] = Bound] ELSE disk
           /\ Proceed /\ Onward
  <2>1. UNCHANGED <<snap, touched, torn>> /\ SameJob(job', job)
    BY <1>1, <1>2, ProceedStep DEF Onward, CInv
  <2>2. /\ \A x \in Paths : x # "binding" => disk'[x] = disk[x]
        /\ job.rebind => disk'["binding"] = snap.new["binding"]
        /\ ~job.rebind => disk' = disk
    BY <1>2, PathsAre DEF CInv, World, Disk, New
  <2>3. HostKept'
    <3>1. disk'["config"] = disk["config"]
      BY <2>2, PathsAre
    <3> QED
      BY <1>1, <2>1, <2>2, <3>1 DEF Images, HostKept, Known, SameJob
  <2>4. Images'
    BY <1>1, <2>1, <2>3, ImagesStay
  <2>5. Known("binding", snap.new["binding"])'
    BY <1>1, <2>1, <2>2 DEF Images, HostKept, Known
  <2>6. \A x \in Paths : x = At1 => Known(x, snap.new[x])'
    BY <1>1, <2>5
  <2> QED
    BY <1>1, <1>2, <2>1, <2>2, <2>4, <2>6, FwdProceed
<1>3. CASE Error("other") /\ UNCHANGED disk
  BY <1>1, <1>3, ErrorPaths
<1> QED
  BY <1>2, <1>3 DEF Attach

LEMMA DetachPaths == ASSUME CInv, CInv', PInv, Detach PROVE PInv'
<1>1. /\ pc = "detach" /\ pc \notin {"idle", "snapshot", "clear"} /\ Images /\ Fwd
      /\ job.dir = "fwd" /\ At1 \in Placed /\ At1 \in Paths /\ At1 \notin {"config", "binding"}
      /\ job \in Jobs /\ At1 \in Ahead /\ disk' = disk
  BY AtWork, Busy DEF Detach, CInv, Ctl, At1, PInv, Placed, Paths, Mine, Objects, world
<1>2. CASE /\ disk[At1] # Absent
           /\ job' = [job EXCEPT !.got = disk[At1]]
           /\ pc' = "unlink"
           /\ UNCHANGED <<pending, snap, touched, torn, stash>>
  <2>1. /\ At1' = At1 /\ job'.got = disk[At1] /\ job'.dir = "fwd" /\ SameJob(job', job)
        /\ Ahead' = Ahead
    BY <1>1, <1>2 DEF Jobs, At1, SameJob, Ahead
  <2>2. Images'
    BY <1>1, <1>2, <2>1, HostStays, ImagesStay
  <2>3. ASSUME NEW x \in Paths PROVE FwdAt(x)'
    <3>1. FwdAt(x)
      BY <1>1 DEF Fwd
    <3>2. CASE x = At1
      <4>1. Known(x, snap.old[x])
        BY <1>1, <3>1, <3>2 DEF FwdAt, Amid
      <4> QED
        BY <1>1, <1>2, <2>1, <3>1, <3>2, <4>1 DEF FwdAt, Amid, Known, Placed
    <3>3. CASE x # At1
      BY <1>1, <1>2, <2>1, <3>1, <3>3, FwdSame
    <3> QED
      BY <3>2, <3>3
  <2>4. FwdGroup'
    <3>1. FwdGroup
      BY <1>1 DEF Fwd
    <3>2. CASE At1 = "hooks"
      <4>1. GroupIs(OwnOf(snap.old["hooks"]))
        BY <1>1, <3>1, <3>2 DEF FwdGroup, Amid
      <4>2. "group" \in touched \/ disk["hooks"].own = OwnOf(snap.old["hooks"])
        BY <1>2, <3>2, <4>1 DEF GroupIs, Groups
      <4> QED
        BY <1>1, <1>2, <2>1, <3>1, <3>2, <4>1, <4>2 DEF FwdGroup, Amid, GroupIs, Groups
    <3>3. CASE At1 # "hooks"
      BY <1>1, <1>2, <2>1, <3>1, <3>3, FwdGroupSame, PathsAre
    <3> QED
      BY <3>2, <3>3
  <2> QED
    BY <1>1, <1>2, <2>1, <2>2, <2>3, <2>4 DEF PInv, Fwd
<1>3. CASE Error("race") /\ UNCHANGED disk
  BY <1>1, <1>3, ErrorPaths
<1> QED
  BY <1>1, <1>2, <1>3 DEF Detach

LEMMA DropNamePaths == ASSUME CInv, CInv', PInv, DropName PROVE PInv'
<1>1. /\ pc = "unlink" /\ pc \notin {"idle", "snapshot", "clear"} /\ Images /\ Fwd
      /\ job.dir = "fwd" /\ At1 \in Placed /\ At1 \in Paths /\ At1 \notin {"config", "binding"}
      /\ job \in Jobs /\ At1 \in Ahead
  BY AtWork, Busy DEF DropName, CInv, Ctl, At1, PInv, Placed, Paths, Mine, Objects
<1>2. CASE /\ disk' = [disk EXCEPT ![At1] = Absent]
           /\ Goto("inspect") /\ Onward
  <2>1. \A x \in Paths : disk'[x] = IF x = At1 THEN Absent ELSE disk[x]
    BY <1>1, <1>2 DEF CInv, World, Disk
  <2>2. pc' = "inspect" /\ job' = job /\ UNCHANGED <<snap, touched, torn>> /\ At1' = At1 /\ Ahead' = Ahead
    BY <1>2 DEF Goto, Onward, At1, Ahead
  <2>3. Images'
    <3>1. disk'["config"] = disk["config"] /\ disk'["binding"] = disk["binding"]
      BY <1>1, <2>1, PathsAre
    <3> QED
      BY <1>1, <2>2, <3>1, HostStays, ImagesStay DEF SameJob
  <2>4. ASSUME NEW x \in Paths PROVE FwdAt(x)'
    <3>1. FwdAt(x)
      BY <1>1 DEF Fwd
    <3>2. CASE x = At1
      BY <1>1, <2>1, <2>2, <3>1, <3>2 DEF FwdAt, Amid, Known
    <3>3. CASE x # At1
      BY <1>1, <2>1, <2>2, <3>1, <3>3, FwdSame
    <3> QED
      BY <3>2, <3>3
  <2>5. FwdGroup'
    <3>1. FwdGroup
      BY <1>1 DEF Fwd
    <3>2. CASE At1 = "hooks"
      <4>1. Groups' = <<>>
        BY <1>1, <2>1, <3>2 DEF Groups
      <4> QED
        BY <1>1, <2>2, <3>1, <3>2, <4>1 DEF FwdGroup, Amid, GroupIs
    <3>3. CASE At1 # "hooks"
      BY <1>1, <2>1, <2>2, <3>1, <3>3, FwdGroupSame, PathsAre
    <3> QED
      BY <3>2, <3>3
  <2> QED
    BY <1>1, <2>2, <2>3, <2>4, <2>5 DEF PInv, Fwd
<1>3. CASE Error("race") /\ UNCHANGED disk
  BY <1>1, <1>3, ErrorPaths
<1> QED
  BY <1>2, <1>3 DEF DropName

LEMMA InspectPaths == ASSUME CInv, CInv', PInv, Inspect PROVE PInv'
<1>1. /\ pc = "inspect" /\ pc \notin {"idle", "snapshot", "clear"} /\ Images /\ Fwd
      /\ job.dir = "fwd" /\ At1 \in Placed /\ At1 \in Paths /\ At1 \notin {"config", "binding"}
      /\ job \in Jobs /\ At1 \in Ahead /\ job.got \in Content
  BY AtWork, Busy DEF Inspect, CInv, Ctl, At1, PInv, Placed, Paths, Mine, Objects
<1>2. CASE Goto("place") /\ Onward /\ UNCHANGED disk
  <2>1. pc' = "place" /\ job' = job /\ UNCHANGED <<snap, touched, torn>> /\ At1' = At1 /\ Ahead' = Ahead
    BY <1>2 DEF Goto, Onward, At1, Ahead
  <2>2. Images'
    <3>1. HostKept'
      BY <1>1, <1>2, <2>1 DEF Images, HostKept, Known
    <3> QED
      BY <1>1, <2>1, <3>1, ImagesStay DEF SameJob
  <2>3. ASSUME NEW x \in Paths PROVE FwdAt(x)'
    BY <1>1, <1>2, <2>1 DEF Fwd, FwdAt, Amid, Known
  <2>4. FwdGroup'
    BY <1>1, <1>2, <2>1 DEF Fwd, FwdGroup, Amid, GroupIs, Groups
  <2> QED
    BY <1>1, <2>1, <2>2, <2>3, <2>4 DEF PInv, Fwd
<1>3. CASE /\ job.got # Old(At1) /\ disk[At1] = Absent
           /\ disk' = [disk EXCEPT ![At1] = job.got]
           /\ TurnBack("race")
           /\ UNCHANGED <<pending, snap, touched, torn, stash>>
  <2>1. pc' = "check" /\ SameJob(job', job) /\ job'.dir = "back" /\ job'.err = "race"
    BY <1>1, <1>3, TurnStep DEF CInv
  <2>2. \A x \in Paths : disk'[x] = IF x = At1 THEN job.got ELSE disk[x]
    BY <1>1, <1>3 DEF CInv, World, Disk
  <2>3. Images'
    <3>1. disk'["config"] = disk["config"] /\ disk'["binding"] = disk["binding"]
      BY <1>1, <2>2, PathsAre
    <3>2. HostKept'
      BY <1>1, <1>3, <2>1, <3>1 DEF Images, HostKept, Known, SameJob
    <3> QED
      BY <1>1, <1>3, <2>1, <3>2, ImagesStay
  <2>4. At1 \in touched
    <3>1. PICK x \in Paths : x = At1
      BY <1>1
    <3>2. FwdAt(x)
      BY <1>1 DEF Fwd
    <3> QED
      BY <1>1, <1>3, <3>1, <3>2 DEF FwdAt, Old
  <2>5. ASSUME NEW x \in Paths PROVE BackAt(x)'
    BY <1>1, <1>3, <2>1, <2>2, <2>4, FwdRange DEF BackAt
  <2>6. BackGroup'
    <3>1. CASE At1 = "hooks"
      <4>1. "group" \in touched \/ job.got.own = OwnOf(snap.old["hooks"])
        BY <1>1, <3>1 DEF Fwd, FwdGroup
      <4>2. Groups' = job.got.own
        BY <1>1, <2>2, <3>1, Bounds DEF Groups
      <4> QED
        BY <1>3, <2>1, <4>1, <4>2 DEF BackGroup
    <3>2. CASE At1 # "hooks"
      <4>1. Groups' = Groups
        BY <2>2, <3>2, PathsAre DEF Groups
      <4> QED
        BY <1>1, <1>3, <2>1, <4>1, FwdRange DEF BackGroup
    <3> QED
      BY <3>1, <3>2
  <2> QED
    BY <2>1, <2>3, <2>5, <2>6 DEF PInv, Back
<1>4. CASE TurnBack("race") /\ UNCHANGED <<pending, snap, touched, torn, stash, disk, aside>>
  BY <1>1, <1>4, TurnPaths DEF Onward
<1> QED
  BY <1>2, <1>3, <1>4 DEF Inspect

LEMMA PlacePaths == ASSUME CInv, CInv', PInv, Place PROVE PInv'
<1>1. /\ pc = "place" /\ pc \notin {"idle", "snapshot", "clear"} /\ Images /\ Fwd
      /\ job.dir = "fwd" /\ At1 \in Placed /\ At1 \in Paths /\ At1 \notin {"config", "binding"}
      /\ job \in Jobs /\ At1 \in Ahead
  BY AtWork, Busy DEF Place, CInv, Ctl, At1, PInv, Placed, Paths, Mine, Objects
<1>2. CASE /\ disk[At1] = Absent
           /\ snap' = IF At1 = "rec" THEN [snap EXCEPT !.new["rec"].user = Note] ELSE snap
           /\ disk' = [disk EXCEPT ![At1] = snap'.new[At1]]
           /\ Proceed
           /\ UNCHANGED <<pending, aside, touched, torn, stash>>
  <2>1. SameJob(job', job)
    BY <1>1, <1>2, ProceedStep DEF CInv
  <2>2. snap.new["rec"] \in Content /\ snap \in Snaps /\ snap.new \in Disk
    BY <1>1, SnapAt, PathsAre DEF SnapOK
  <2>3. /\ snap'.old = snap.old
        /\ \A x \in Paths : x # "rec" \/ At1 # "rec" => snap'.new[x] = snap.new[x]
        /\ snap'.new["rec"].own = snap.new["rec"].own /\ snap'.new["rec"] # Absent
    <3>1. /\ [snap.new["rec"] EXCEPT !.user = Note] \in Content
          /\ [snap.new["rec"] EXCEPT !.user = Note].own = snap.new["rec"].own
      BY <2>2, NoteTyped DEF Content, CInv
    <3> QED
      BY <1>2, <2>2, <3>1, Bounds, PathsAre DEF Snaps, Disk
  <2>4. \A x \in Paths : disk'[x] = IF x = At1 THEN snap'.new[x] ELSE disk[x]
    BY <1>1, <1>2 DEF CInv, World, Disk
  <2>5. HostKept'
    <3>1. /\ disk'["config"] = disk["config"] /\ disk'["binding"] = disk["binding"]
          /\ snap'.new["config"] = snap.new["config"] /\ snap'.new["binding"] = snap.new["binding"]
      BY <1>1, <2>3, <2>4, PathsAre
    <3> QED
      BY <1>1, <1>2, <2>1, <2>3, <3>1 DEF Images, HostKept, Known, SameJob
  <2>6. Images'
    <3>1. ASSUME NEW w \in Versions, Aim(w) PROVE Aim(w)'
      BY <1>2, <2>3, <3>1, PathsAre DEF Aim
    <3>2. ASSUME job.only PROVE OnlyKnown'
      <4>1. At1 = "known" /\ snap' = snap
        BY <1>1, <1>2, <3>2, Busy DEF CInv
      <4> QED
        BY <1>1, <3>2, <4>1 DEF Images, OnlyKnown
    <3> QED
      BY <1>1, <1>2, <2>1, <2>3, <2>5, <3>1, <3>2 DEF Images, SameJob
  <2>7. \A x \in Paths : x # At1 => snap'.new[x] = snap.new[x] /\ disk'[x] = disk[x]
    BY <2>3, <2>4
  <2>8. \A x \in Paths : x = At1 => Known(x, snap.new[x])'
    BY <2>4 DEF Known
  <2>9. At1 = "hooks" => GroupIs(OwnOf(snap.new["hooks"]))'
    BY <1>1, <2>4 DEF GroupIs, Groups, OwnOf
  <2> QED
    BY <1>1, <1>2, <2>3, <2>6, <2>7, <2>8, <2>9, FwdProceed
<1>3. CASE Error("race") /\ UNCHANGED disk
  BY <1>1, <1>3, ErrorPaths
<1> QED
  BY <1>2, <1>3 DEF Place

(* The rollback is done with the path at hand.                             *)
LEMMA BackNext ==
  ASSUME CInv, PInv, pc \notin {"idle", "snapshot", "clear"}, job.dir = "back", Proceed \/ Raced, Onward,
         HostKept',
         \A x \in Paths : x = At1 \/ (At1 = "host" /\ x \in {"config", "binding"}) \/ disk'[x] = disk[x],
         \A x \in Paths : x = At1 => disk'[x] \in {disk[x], Absent, snap.old[x]},
         At1 = "hooks" => Groups' \in {Groups, <<>>, OwnOf(snap.old["hooks"])},
         ~Raced /\ job.err # "race" =>
           /\ \A x \in Paths : x = At1 => Known(x, snap.old[x])'
           /\ At1 = "hooks" => GroupIs(OwnOf(snap.old["hooks"]))'
           /\ At1 = "host" => Known("config", snap.old["config"])' /\ Known("binding", snap.old["binding"])'
  PROVE  PInv'
<1>1. /\ pc' \in {"check", "clear"} /\ SameJob(job', job) /\ job'.dir = "back"
      /\ \A x \in Paths \cup {"host"} : x \in Ahead' <=> x \in Ahead /\ x # At1
      /\ job'.err # "race" => job.err # "race" /\ ~Raced
  BY ProceedStep, RacedStep DEF CInv
<1>2. UNCHANGED <<snap, touched, torn>> /\ Images /\ Back
  BY DEF Onward, PInv
<1>3. Images'
  BY <1>1, <1>2, ImagesStay
<1>4. ASSUME NEW x \in Paths PROVE BackAt(x)'
  <2>1. BackAt(x)
    BY <1>2 DEF Back
  <2>2. x \in {"tool", "pin", "runtime"} \ touched => disk'[x] \in {Absent, snap.old[x], snap.new[x]}
    BY <2>1 DEF BackAt
  <2>3. ASSUME job'.err # "race", Undone(x)' \/ (x \in Mine /\ snap.old[x] = snap.new[x])
        PROVE  Known(x, snap.old[x])'
    <3>1. CASE x = At1
      BY <1>1, <2>3, <3>1
    <3>2. CASE At1 = "host" /\ x \in {"config", "binding"}
      BY <1>1, <2>3, <3>2
    <3>3. CASE x # At1 /\ ~(At1 = "host" /\ x \in {"config", "binding"})
      <4>1. disk'[x] = disk[x]
        BY <3>3
      <4>2. Undone(x)' => Undone(x)
        BY <1>1, <3>3, PathsAre DEF Undone
      <4> QED
        BY <1>1, <1>2, <2>1, <2>3, <4>1, <4>2 DEF BackAt, Known
    <3> QED
      BY <3>1, <3>2, <3>3
  <2> QED
    BY <1>2, <2>2, <2>3 DEF BackAt
<1>5. BackGroup'
  <2>1. BackGroup
    BY <1>2 DEF Back
  <2>2. CASE At1 = "hooks"
    BY <1>1, <1>2, <2>1, <2>2 DEF BackGroup
  <2>3. CASE At1 # "hooks"
    <3>1. Groups' = Groups /\ ("hooks" \in Ahead' <=> "hooks" \in Ahead)
      BY <1>1, <2>3, PathsAre DEF Groups
    <3> QED
      BY <1>1, <1>2, <2>1, <3>1 DEF BackGroup, GroupIs
  <2> QED
    BY <2>2, <2>3
<1> QED
  BY <1>1, <1>3, <1>4, <1>5 DEF PInv, Back

LEMMA UndoFilePaths == ASSUME CInv, CInv', PInv, UndoFile PROVE PInv'
<1>1. /\ pc = "check" /\ pc \notin {"idle", "snapshot", "clear"} /\ job.dir = "back"
      /\ At1 \in Mine /\ At1 \in Paths /\ UNCHANGED disk /\ Images /\ Back
  BY PathsAre DEF UndoFile, world, PInv
<1>2. ASSUME Proceed \/ Raced, Onward PROVE HostKept' /\ Groups' = Groups
  <2>1. SameJob(job', job)
    BY <1>1, <1>2, ProceedStep, RacedStep DEF CInv
  <2> QED
    BY <1>1, <1>2, <2>1, HostStays DEF Onward, Groups
<1>3. CASE (Old(At1) = New(At1) \/ disk[At1] = Old(At1)) /\ Proceed /\ Onward
  <2>1. UNCHANGED <<disk, snap, touched>>
    BY <1>1, <1>3 DEF Onward
  <2>2. ASSUME job.err # "race", NEW x \in Paths, x = At1 PROVE Known(x, snap.old[x])'
    <3>1. BackAt(x)
      BY <1>1 DEF Back
    <3>2. Known(x, snap.old[x])
      BY <1>1, <1>3, <2>2, <3>1 DEF BackAt, Known, Old, New
    <3> QED
      BY <2>1, <3>2 DEF Known
  <2>3. ASSUME job.err # "race", At1 = "hooks" PROVE GroupIs(OwnOf(snap.old["hooks"]))'
    <3>1. GroupIs(OwnOf(snap.old["hooks"]))
      BY <1>1, <1>3, <2>3 DEF Back, BackGroup, GroupIs, Groups, OwnOf, Old, New
    <3> QED
      BY <2>1, <3>1 DEF GroupIs, Groups
  <2> QED
    BY <1>1, <1>2, <1>3, <2>2, <2>3, BackNext, PathsAre
<1>4. CASE Raced
  BY <1>1, <1>2, <1>4, BackNext DEF Raced
<1>5. ASSUME NEW l \in {"restore", "remove"}, Goto(l), Onward, Old(At1) # New(At1)
      PROVE  PInv'
  <2>1. pc' = l /\ job' = job /\ UNCHANGED <<snap, touched, torn>> /\ At1' = At1 /\ Ahead' = Ahead
    BY <1>5 DEF Goto, Onward, At1, Ahead
  <2>2. Images'
    BY <1>1, <2>1, HostStays, ImagesStay DEF SameJob
  <2>3. \A x \in Paths : BackAt(x)'
    BY <1>1, <2>1 DEF Back, BackAt, Known, Undone
  <2>4. BackGroup'
    BY <1>1, <2>1 DEF Back, BackGroup, GroupIs, Groups
  <2> QED
    BY <1>1, <1>5, <2>1, <2>2, <2>3, <2>4 DEF PInv, Back, Old, New
<1> QED
  BY <1>3, <1>4, <1>5 DEF UndoFile

LEMMA UnlinkPaths == ASSUME CInv, CInv', PInv, Unlink PROVE PInv'
<1>1. /\ pc = "remove" /\ pc \notin {"idle", "snapshot", "clear"} /\ job.dir = "back" /\ Onward
      /\ At1 \in Mine /\ At1 \in Paths /\ Images /\ Back /\ At1 \notin {"config", "binding", "host"}
      /\ snap.old[At1] # snap.new[At1] /\ At1 \in Ahead
  BY AtWork, Busy, PathsAre DEF Unlink, CInv, Ctl, At1, PInv, Back
<1>2. \A x \in Paths : disk'[x] = IF x = At1 THEN Absent ELSE disk[x]
  BY <1>1 DEF Unlink, CInv, World, Disk
<1>3. UNCHANGED <<snap, touched, torn>> /\ disk'["config"] = disk["config"] /\ disk'["binding"] = disk["binding"]
  BY <1>1, <1>2, PathsAre DEF Onward
<1>4. At1 = "hooks" => Groups' = <<>>
  BY <1>1, <1>2 DEF Groups
<1>5. CASE Old(At1) = Absent /\ Proceed
  <2>1. SameJob(job', job)
    BY <1>1, <1>5, ProceedStep DEF CInv
  <2>2. HostKept'
    BY <1>1, <1>3, <2>1, HostStays
  <2>3. ASSUME NEW x \in Paths, x = At1 PROVE Known(x, snap.old[x])'
    BY <1>2, <1>3, <1>5, <2>3 DEF Known, Old
  <2>4. ASSUME At1 = "hooks" PROVE GroupIs(OwnOf(snap.old["hooks"]))'
    BY <1>3, <1>4, <1>5, <2>4 DEF GroupIs, OwnOf, Old
  <2> QED
    BY <1>1, <1>2, <1>3, <1>4, <1>5, <2>2, <2>3, <2>4, BackNext
<1>6. CASE Goto("restore")
  <2>1. pc' = "restore" /\ job' = job /\ At1' = At1 /\ Ahead' = Ahead
    BY <1>6 DEF Goto, At1, Ahead
  <2>2. Images'
    BY <1>1, <1>3, <2>1, HostStays, ImagesStay DEF SameJob
  <2>3. ASSUME NEW x \in Paths PROVE BackAt(x)'
    <3>1. BackAt(x)
      BY <1>1 DEF Back
    <3>2. CASE x = At1
      BY <1>1, <1>2, <1>3, <2>1, <3>2, PathsAre DEF BackAt, Undone
    <3>3. CASE x # At1
      BY <1>2, <1>3, <2>1, <3>1, <3>3 DEF BackAt, Known, Undone
    <3> QED
      BY <3>2, <3>3
  <2>4. BackGroup'
    <3>1. BackGroup
      BY <1>1 DEF Back
    <3>2. CASE At1 = "hooks"
      BY <1>1, <1>3, <1>4, <2>1, <3>2 DEF BackGroup
    <3>3. CASE At1 # "hooks"
      <4>1. Groups' = Groups
        BY <1>2, <3>3, PathsAre DEF Groups
      <4> QED
        BY <1>3, <2>1, <3>1, <4>1 DEF BackGroup, GroupIs
    <3> QED
      BY <3>2, <3>3
  <2> QED
    BY <1>1, <1>3, <2>1, <2>2, <2>3, <2>4 DEF PInv, Back
<1> QED
  BY <1>5, <1>6 DEF Unlink

LEMMA RestorePaths == ASSUME CInv, CInv', PInv, Restore PROVE PInv'
<1>1. /\ pc = "restore" /\ pc \notin {"idle", "snapshot", "clear"} /\ job.dir = "back"
      /\ At1 \in Mine /\ At1 \in Paths /\ Images /\ Back /\ At1 \notin {"config", "binding", "host"}
  BY AtWork, PathsAre DEF Restore, CInv, Ctl, At1, PInv
<1>2. CASE disk' = [disk EXCEPT ![At1] = Old(At1)] /\ Proceed /\ Onward
  <2>1. \A x \in Paths : disk'[x] = IF x = At1 THEN snap.old[x] ELSE disk[x]
    BY <1>1, <1>2 DEF CInv, World, Disk, Old
  <2>2. /\ UNCHANGED <<snap, touched, torn>> /\ SameJob(job', job)
        /\ disk'["config"] = disk["config"] /\ disk'["binding"] = disk["binding"]
    BY <1>1, <1>2, <2>1, PathsAre, ProceedStep DEF Onward, CInv
  <2>3. HostKept'
    BY <1>1, <2>2, HostStays
  <2>4. \A x \in Paths : x = At1 => Known(x, snap.old[x])'
    BY <2>1, <2>2 DEF Known
  <2>5. At1 = "hooks" => Groups' = OwnOf(snap.old["hooks"])
    BY <1>1, <2>1 DEF Groups, OwnOf
  <2>6. At1 = "hooks" => GroupIs(OwnOf(snap.old["hooks"]))'
    BY <2>2, <2>5 DEF GroupIs
  <2> QED
    BY <1>1, <1>2, <2>1, <2>3, <2>4, <2>5, <2>6, BackNext
<1>3. CASE Raced /\ UNCHANGED disk
  <2>1. HostKept' /\ Groups' = Groups
    BY <1>1, <1>3, RacedStep, HostStays DEF CInv, Raced, Onward, Groups
  <2> QED
    BY <1>1, <1>3, <2>1, BackNext DEF Raced
<1>4. CASE GiveUp
  BY <1>4, GiveUpPaths
<1>5. CASE LeaveFiles /\ UNCHANGED disk
  <2>1. /\ pc' = "check" /\ SameJob(job', job) /\ job'.dir = "back" /\ job'.err = "race"
        /\ UNCHANGED <<snap, touched, torn>>
    BY <1>1, <1>5, LeaveFilesStep DEF CInv, LeaveFiles, Onward
  <2>2. Images'
    BY <1>1, <1>5, <2>1, HostStays, ImagesStay
  <2>3. \A x \in Paths : BackAt(x)'
    BY <1>1, <1>5, <2>1 DEF Back, BackAt
  <2>4. BackGroup'
    BY <1>1, <1>5, <2>1 DEF Back, BackGroup, Groups
  <2> QED
    BY <2>1, <2>2, <2>3, <2>4 DEF PInv, Back
<1> QED
  BY <1>2, <1>3, <1>4, <1>5 DEF Restore

LEMMA UndoReceiptPaths == ASSUME CInv, CInv', PInv, UndoReceipt PROVE PInv'
<1>1. /\ pc = "check" /\ pc \notin {"idle", "snapshot", "clear"} /\ job.dir = "back"
      /\ At1 \in {"rec", "mat", "known"} /\ At1 \in Paths /\ Images /\ Back
  BY PathsAre DEF UndoReceipt, PInv
<1>2. CASE disk' = [disk EXCEPT ![At1] = Old(At1)] /\ Proceed /\ Onward
  <2>1. \A x \in Paths : disk'[x] = IF x = At1 THEN snap.old[x] ELSE disk[x]
    BY <1>1, <1>2 DEF CInv, World, Disk, Old
  <2>2. /\ UNCHANGED <<snap, touched, torn>> /\ SameJob(job', job)
        /\ disk'["config"] = disk["config"] /\ disk'["binding"] = disk["binding"]
    BY <1>1, <1>2, <2>1, PathsAre, ProceedStep DEF Onward, CInv
  <2>3. HostKept'
    BY <1>1, <2>2, HostStays
  <2>4. \A x \in Paths : x = At1 => Known(x, snap.old[x])'
    BY <2>1, <2>2 DEF Known
  <2> QED
    BY <1>1, <1>2, <2>1, <2>3, <2>4, BackNext
<1>3. CASE Raced /\ UNCHANGED disk
  <2>1. HostKept'
    BY <1>1, <1>3, RacedStep, HostStays DEF CInv, Raced, Onward
  <2> QED
    BY <1>1, <1>3, <2>1, BackNext DEF Raced
<1>4. CASE GiveUp
  BY <1>4, GiveUpPaths
<1> QED
  BY <1>2, <1>3, <1>4 DEF UndoReceipt

LEMMA UndoHostPaths == ASSUME CInv, CInv', PInv, UndoHost PROVE PInv'
<1>1. /\ pc = "check" /\ pc \notin {"idle", "snapshot", "clear"} /\ job.dir = "back"
      /\ At1 = "host" /\ At1 \notin Paths /\ Images /\ Back /\ Proceed /\ Onward
  BY PathsAre DEF UndoHost, PInv
<1>2. /\ \A x \in Paths \ {"config", "binding"} : disk'[x] = disk[x]
      /\ job.rebind => disk'["config"] = snap.old["config"] /\ disk'["binding"] = snap.old["binding"]
      /\ ~job.rebind => disk' = disk
  BY PathsAre DEF UndoHost, CInv, World, Disk, Old
<1>3. UNCHANGED <<snap, touched, torn>> /\ SameJob(job', job)
  BY <1>1, ProceedStep DEF Onward, CInv
<1>4. /\ Known("config", snap.old["config"])' /\ Known("binding", snap.old["binding"])'
      /\ Known("config", snap.new["config"])'
  BY <1>1, <1>2, <1>3 DEF Images, HostKept, Known
<1>5. HostKept'
  BY <1>1, <1>2, <1>3, <1>4 DEF Images, HostKept, Known, SameJob
<1> QED
  BY <1>1, <1>2, <1>4, <1>5, BackNext

LEMMA ClearPaths == ASSUME CInv, CInv', PInv, Clear PROVE PInv'
<1>1. /\ pc = "clear" /\ pc \notin {"idle", "snapshot"} /\ Ahead = {} /\ UNCHANGED disk
      /\ Images /\ (IF job.dir = "fwd" THEN Fwd ELSE Back) /\ job.dir \in {"fwd", "back"}
  BY AheadOf, AtWork DEF Clear, world, PInv, CInv, Ctl
<1>2. CASE /\ job.err # "race" /\ End(job.dir = "fwd" /\ ~job.only)
           /\ touched' = IF job.dir = "fwd" /\ ~job.only THEN touched ELSE touched \cup job.was
           /\ torn' = IF job.dir = "fwd" THEN 0 ELSE torn
  <2>1. pc' = "idle"
    BY <1>2 DEF End
  <2>2. CASE job.dir = "fwd" /\ ~job.only
    <3>1. PICK w \in Versions : Aim(w)
      BY <1>1, <2>2 DEF Images
    <3>2. /\ \A x \in Paths : Known(x, snap.new[x])
          /\ GroupIs(OwnOf(snap.new["hooks"]))
      BY <1>1, <2>2 DEF Fwd, FwdAt, FwdGroup
    <3>3. Whole(snap.new, touched, 0)
      BY <3>1 DEF Aim, Whole, RecWhole, MatWhole
    <3>4. Whole(disk, touched \cup touched, 0)
      BY <3>2, <3>3, PathsAre, WholeKept
    <3>5. touched \cup touched = touched
      OBVIOUS
    <3> QED
      BY <1>1, <1>2, <2>1, <2>2, <3>4, <3>5 DEF PInv
  <2>3. CASE job.dir = "fwd" /\ job.only
    <3>1. \A x \in Paths \ {"known"} : Known(x, snap.old[x])
      BY <1>1, <2>3, OldAtFirst
    <3>2. GroupIs(OwnOf(snap.old["hooks"]))
      BY <1>1, <2>3, OldGroupAtFirst
    <3>3. Whole(snap.old, job.was, 0)
      BY <1>1, <2>3 DEF Images, OnlyKnown, Whole, RecWhole, MatWhole
    <3>4. Whole(disk, touched \cup job.was, 0)
      BY <3>1, <3>2, <3>3, PathsAre, WholeKept
    <3> QED
      BY <1>1, <1>2, <2>1, <2>3, <3>4 DEF PInv
  <2>4. CASE job.dir = "back"
    <3>1. \A x \in Paths : Known(x, snap.old[x])
      BY <1>1, <1>2, <2>4 DEF Back, BackAt, Undone
    <3>2. GroupIs(OwnOf(snap.old["hooks"]))
      BY <1>1, <1>2, <2>4 DEF Back, BackGroup
    <3>3. Whole(disk, touched \cup job.was, torn)
      BY <1>1, <3>1, <3>2, PathsAre, WholeKept DEF Images
    <3> QED
      BY <1>1, <1>2, <2>1, <2>4, <3>3 DEF PInv
  <2> QED
    BY <1>1, <2>2, <2>3, <2>4
<1>3. CASE GiveUp
  BY <1>3, GiveUpPaths
<1> QED
  BY <1>2, <1>3 DEF Clear

LEMMA FaultPaths == ASSUME CInv, CInv', PInv, Fault PROVE PInv'
<1>1. /\ pc \notin {"idle", "snapshot"} /\ UNCHANGED disk
      /\ Error("other") \/ Error("race")
  BY DEF Fault, world
<1> QED
  BY <1>1, ErrorPaths

(* A plan that changes something makes exactly one group of the release    *)
(* when no stray one is there.                                             *)
LEMMA OneGroup ==
  ASSUME World, Ready, ~Stray
  PROVE  /\ Merged.own = <<want>>
         /\ disk["rec"] = Absent => Groups \in {<<>>, <<want>>}
<1> DEFINE G == Groups
<1>1. G \in Seq(Versions) /\ want \in Versions /\ Len(G) \in Nat /\ Len(G) <= 1
  BY GroupsTyped DEF Stray, World
<1>2. disk["rec"] = Absent => G \in {<<>>, <<want>>}
  BY DEF Stray
<1>3. CASE G = <<>>
  <2>1. \A v : At(v) = {}
    BY <1>3 DEF At
  <2>2. Append(<<>>, want) = <<want>>
    BY <1>1
  <2> QED
    BY <1>2, <1>3, <2>1, <2>2 DEF Merged
<1>4. CASE G # <<>>
  <2>1. Len(G) = 1 /\ DOMAIN G = 1..1 /\ 1..1 = {1} /\ G[1] \in Versions
    <3> HIDE DEF G
    <3>1. Len(G) # 0
      BY <1>1, <1>4, SeqEmpty
    <3>2. Len(G) = 1
      BY <1>1, <3>1
    <3>3. DOMAIN G = 1..1 /\ G[1] \in Versions
      BY <1>1, <3>2
    <3> QED
      BY <3>2, <3>3
  <2>2. CASE disk["rec"] = Absent
    <3>1. Groups = <<want>> /\ Release("rec") = {}
      BY <1>2, <1>4, <2>2 DEF Release
    <3>2. 1 \in At(want)
      BY <2>1, <3>1 DEF At
    <3> QED
      BY <1>2, <2>2, <3>1, <3>2 DEF Merged
  <2>3. CASE disk["rec"] # Absent
    <3>1. PICK v \in Versions : Release("rec") = {v}
      BY <2>3, ReleaseIn
    <3>2. Cardinality(At(v)) = 1
      BY <1>4, <3>1 DEF Ready, BlockedHooks, HasEvent
    <3>3. At(v) # {}
      BY <3>2, FS_EmptySet
    <3>4. At(v) = {1} /\ G[1] = v
      BY <2>1, <3>3 DEF At
    <3>5. Merged.own = [i \in DOMAIN Groups |-> IF Groups[i] \in Release("rec") THEN want ELSE Groups[i]]
      BY <3>1, <3>3 DEF Merged
    <3>6. [i \in {1} |-> want] = <<want>>
      OBVIOUS
    <3>7. Merged.own = [i \in {1} |-> want]
      BY <2>1, <3>1, <3>4, <3>5
    <3> QED
      BY <2>3, <3>6, <3>7
  <2> QED
    BY <2>2, <2>3
<1> QED
  BY <1>3, <1>4

(* What a review finds ready, where no receipt is, is of no other release. *)
LEMMA ReadyFirst ==
  ASSUME World, Ready, disk["rec"] = Absent, disk["mat"] = Absent
  PROVE  \A x \in {"tool", "pin", "runtime"} : disk[x] \in {Absent, Of(want)}
<1>1. Release("rec") = {}
  BY DEF Release
<1> QED
  BY <1>1 DEF Ready, BlockedTool, BlockedRuntime

LEMMA BeginPaths == ASSUME CInv, CInv', PInv, Begin PROVE PInv'
<1>1. pc = "idle" /\ UNCHANGED <<disk, want, torn>> /\ Whole(disk, touched, torn)
  BY DEF Begin, Idle, CInv, Controlled, world, PInv
<1>2. CASE UNCHANGED <<job, pc, snap, touched>>
  BY <1>1, <1>2 DEF PInv
<1>3. CASE ~(~Ready \/ plan # Plan \/ (NoChanges /\ disk["known"] = Of(want)))
  <2> DEFINE n == IF NoChanges THEN [disk EXCEPT !["known"] = Of(want)] ELSE Desired
  <2>1. /\ snap' = [old |-> disk, new |-> n] /\ pc' = "snapshot" /\ Ready
        /\ job'.was = touched /\ job'.only = NoChanges /\ job'.rebind = (BindingPending /\ ~NoChanges)
        /\ job'.dir = "fwd" /\ touched' = IF Stray THEN {"group"} ELSE {}
        /\ job'.todo = IF NoChanges THEN <<"known">> ELSE Placing
    BY <1>3 DEF Begin
  <2>2. snap'.old = disk /\ snap'.new = n
    BY <2>1
  <2>3. /\ NoChanges => \A x \in Paths \ {"known"} : n[x] = disk[x]
        /\ ~NoChanges => n = Desired
    BY DEF CInv, World, Disk
  <2>4. /\ \A x \in {"tool", "pin", "runtime"} : Desired[x] = Of(want)
        /\ Desired["hooks"] = Merged /\ Desired["binding"] = Bound /\ Desired["config"] = disk["config"]
        /\ \A x \in {"mat", "rec"} : Desired[x] = Made(want, Note)
    BY PathsAre DEF Desired, Objects
  <2>5. Merged \in Content /\ Made(want, Note) \in Content /\ Made(want, Note).own = <<want>> /\ want \in Versions
    BY MergedTyped, OfTyped, NoteTyped DEF CInv, World
  <2>6. HostKept'
    <3>1. n["config"] = disk["config"]
      BY <2>3, <2>4, PathsAre
    <3>2. ~(BindingPending /\ ~NoChanges) => n["binding"] = disk["binding"]
      BY <2>3, <2>4, PathsAre DEF BindingPending
    <3> QED
      BY <1>1, <2>1, <2>2, <3>1, <3>2 DEF HostKept, Known
  <2>7. ASSUME ~NoChanges, NEW w \in Versions, w = want PROVE Aim(w)'
    <3>1. snap'.new = Desired
      BY <2>2, <2>3, <2>7
    <3>2. "group" \notin touched' => ~Stray
      BY <2>1
    <3>3. OwnOf(Merged) = Merged.own /\ OwnOf(disk["hooks"]) = Groups
      BY <2>5, Bounds DEF OwnOf, Groups
    <3>4. ~Stray => Merged.own = <<want>> /\ (disk["rec"] = Absent => Groups \in {<<>>, <<want>>})
      BY <2>1, OneGroup DEF CInv
    <3>5. disk["rec"] = Absent /\ disk["mat"] = Absent =>
            \A x \in {"tool", "pin", "runtime"} : disk[x] \in {Absent, Of(want)}
      BY <2>1, ReadyFirst DEF CInv
    <3>6. /\ \A x \in {"tool", "pin", "runtime"} : snap'.new[x] = Of(w)
          /\ \A x \in {"mat", "rec"} : snap'.new[x] # Absent /\ snap'.new[x].own = <<w>>
      BY <2>4, <2>5, <2>7, <3>1, Bounds
    <3>7. "group" \in touched' \/ OwnOf(snap'.new["hooks"]) = <<w>>
      BY <2>4, <2>7, <3>1, <3>2, <3>3, <3>4
    <3>8. "group" \in touched' \/ (snap'.old["rec"] = Absent => OwnOf(snap'.old["hooks"]) \in {<<>>, <<w>>})
      BY <2>2, <2>7, <3>2, <3>3, <3>4
    <3>9. snap'.old["rec"] = Absent /\ snap'.old["mat"] = Absent =>
            \A x \in {"tool", "pin", "runtime"} : snap'.old[x] \in {Absent, Of(w)}
      BY <2>2, <2>7, <3>5
    <3> QED
      BY <3>6, <3>7, <3>8, <3>9 DEF Aim
  <2>8. ASSUME NoChanges PROVE OnlyKnown'
    <3>1. disk["rec"] # Absent
      BY <2>8 DEF NoChanges, Release
    <3>2. disk["mat"] # Absent
      BY <2>4, <2>5, <2>8, Bounds DEF NoChanges
    <3> QED
      BY <2>2, <2>3, <2>8, <3>1, <3>2 DEF OnlyKnown
  <2>9. Images'
    <3>1. want' \in Versions /\ want' = want
      BY <1>1, <2>5
    <3>2. Whole(disk, touched, torn)
      BY <1>1
    <3>3. ~NoChanges => \E w \in Versions : Aim(w)'
      BY <2>5, <2>7
    <3>4. Whole(snap'.old, job'.was, torn')
      BY <1>1, <2>1, <2>2
    <3> QED
      BY <2>1, <2>6, <2>8, <3>3, <3>4 DEF Images
  <2>10. /\ NoChanges => Ahead' = {"known"}
         /\ ~NoChanges => \A x \in Paths : x \in Ahead' <=> x # "config"
    <3>1. Controlled' /\ pc' = "snapshot" /\ pc' # "idle"
      BY <2>1 DEF CInv
    <3>2. NoChanges => Ahead' = {"known"}
      BY <2>1, UndoTodo DEF Ahead
    <3>3. ASSUME ~NoChanges PROVE \A x \in Paths : x \in Ahead' <=> x # "config"
      <4>1. Ahead' = ToSet(Placing)
        BY <2>1, <3>3 DEF Ahead
      <4> QED
        BY <4>1, PlacingAll
    <3> QED
      BY <3>2, <3>3
  <2>11. ASSUME NEW x \in Paths PROVE FwdAt(x)'
    <3>1. x \notin Ahead' => n[x] = disk[x]
      BY <2>3, <2>4, <2>10
    <3> QED
      BY <1>1, <2>1, <2>2, <3>1 DEF FwdAt, Amid, Known
  <2>12. FwdGroup'
    <3>1. "hooks" \notin Ahead' => n["hooks"] = disk["hooks"]
      BY <2>3, <2>10, PathsAre
    <3> QED
      BY <1>1, <2>1, <2>2, <3>1 DEF FwdGroup, Amid, GroupIs, Groups, OwnOf
  <2> QED
    BY <2>1, <2>9, <2>11, <2>12 DEF PInv, Fwd
<1> QED
  BY <1>2, <1>3 DEF Begin

(* An installation that has not begun to write leaves all as it was.       *)
LEMMA NotBegun ==
  ASSUME CInv, PInv, pc = "snapshot"
  PROVE  Whole(disk, touched \cup job.was, torn)
<1>1. job.dir = "fwd" /\ Images
  BY AtWork DEF CInv, Ctl, PInv
<1>2. \A x \in Paths : Known(x, snap.old[x])
  BY <1>1, OldAtFirst
<1>3. GroupIs(OwnOf(snap.old["hooks"]))
  BY <1>1, OldGroupAtFirst
<1> QED
  BY <1>1, <1>2, <1>3, PathsAre, WholeKept DEF Images

LEMMA SnapshotPaths == ASSUME CInv, CInv', PInv, Snapshot PROVE PInv'
<1>1. pc = "snapshot" /\ UNCHANGED <<disk, torn>> /\ Images /\ Fwd /\ job.dir = "fwd"
  BY AtWork DEF Snapshot, world, PInv, CInv, Ctl
<1>2. CASE /\ snap' = [snap EXCEPT !.old["config"] = disk["config"],
                                   !.old["binding"] = disk["binding"]]
           /\ pc' = "check"
           /\ UNCHANGED <<job, touched, stash>>
  <2>1. /\ snap'.new = snap.new
        /\ \A x \in Paths : snap'.old[x] = IF x \in {"config", "binding"} THEN disk[x] ELSE snap.old[x]
    BY <1>1, <1>2, SnapAt DEF Snaps, Disk, SnapOK
  <2>2. Whole(snap'.old, job'.was, torn')
    <3>1. \A x \in {"rec", "mat", "tool", "pin", "runtime", "hooks"} : snap'.old[x] = snap.old[x]
      BY <2>1, PathsAre
    <3> QED
      BY <1>1, <1>2, <3>1 DEF Images, Whole, RecWhole, MatWhole
  <2>3. ASSUME NEW w \in Versions, Aim(w) PROVE Aim(w)'
    BY <1>2, <2>1, <2>3, PathsAre DEF Aim
  <2>4. OnlyKnown => OnlyKnown'
    BY <2>1, PathsAre DEF OnlyKnown
  <2>5. HostKept'
    BY <1>1, <1>2, <2>1, PathsAre DEF Images, HostKept, Known
  <2>6. Images'
    BY <1>1, <1>2, <2>2, <2>3, <2>4, <2>5 DEF Images
  <2>7. ASSUME NEW x \in Paths PROVE FwdAt(x)'
    BY <1>1, <1>2, <2>1 DEF Fwd, FwdAt, Amid, Known, Ahead
  <2>8. FwdGroup'
    BY <1>1, <1>2, <2>1, PathsAre DEF Fwd, FwdGroup, Amid, GroupIs, Groups, Ahead
  <2> QED
    BY <1>1, <1>2, <2>6, <2>7, <2>8 DEF PInv, Fwd
<1>3. CASE End(FALSE) /\ touched' = touched \cup job.was
  <2>1. pc' = "idle" /\ Whole(disk, touched \cup job.was, torn)
    BY <1>1, <1>3, NotBegun DEF End
  <2> QED
    BY <1>1, <1>3, <2>1 DEF PInv
<1> QED
  BY <1>2, <1>3 DEF Snapshot

(* A first installation cut off on the way leaves files of its release     *)
(* only, and a receipt only where the files it stands for are.             *)
LEMMA CutOffFirst ==
  ASSUME CInv, PInv, pc \notin {"idle", "snapshot"}, First, NEW w \in Versions, Aim(w)
  PROVE  Whole(disk, touched \cup job.was, w)
<1>1. /\ snap.old["rec"] = Absent /\ snap.old["mat"] = Absent
      /\ job.dir = "fwd" \/ (disk["mat"] = Absent /\ disk["rec"] = Absent)
      /\ Images /\ (IF job.dir = "fwd" THEN Fwd ELSE Back)
  BY DEF First, PInv
<1>2. ~job.only
  BY <1>1 DEF Images, OnlyKnown
<1>3. /\ \A x \in {"tool", "pin", "runtime"} \ touched : disk[x] \in {Absent, Of(w)}
      /\ "group" \notin touched => OwnOf(disk["hooks"]) \in {<<>>, <<w>>}
  <2>1. /\ \A x \in {"tool", "pin", "runtime"} \ touched : disk[x] \in {Absent, snap.old[x], snap.new[x]}
        /\ "group" \in touched
             \/ Groups \in {<<>>, OwnOf(snap.old["hooks"]), OwnOf(snap.new["hooks"])}
    BY <1>1, FwdRange, PathsAre DEF Back, BackAt, BackGroup
  <2> QED
    BY <1>1, <2>1 DEF Aim, Groups, OwnOf
<1>4. CASE job.dir = "back"
  BY <1>1, <1>3, <1>4 DEF Whole, RecWhole, MatWhole
<1>5. CASE job.dir = "fwd"
  <2>1. ASSUME NEW x \in {"rec", "mat"}, disk[x] # Absent
        PROVE  x \notin Ahead /\ disk[x] = snap.new[x]
    <3>1. FwdAt(x) /\ snap.old[x] = Absent /\ x \notin Written \cup {"config"}
      BY <1>1, <1>5, PathsAre DEF Fwd, Written
    <3> QED
      BY <2>1, <3>1 DEF FwdAt, Known
  <2>2. disk["rec"] # Absent => Ahead = {}
    BY <1>2, <1>5, <2>1, AheadOf DEF CInv
  <2>3. disk["mat"] # Absent => Ahead \subseteq {"rec"}
    BY <1>2, <1>5, <2>1, AheadOf DEF CInv
  <2>4. \A x \in {"tool", "pin", "runtime"} \ touched : x \notin Ahead => disk[x] = Of(w)
    BY <1>1, <1>5, PathsAre DEF Fwd, FwdAt, Known, Aim
  <2>5. "hooks" \notin Ahead /\ "group" \notin touched => OwnOf(disk["hooks"]) = <<w>>
    BY <1>1, <1>5 DEF Fwd, FwdGroup, GroupIs, Groups, OwnOf, Aim
  <2>6. RecWhole(disk, touched \cup job.was, w)
    <3>1. CASE disk["rec"] # Absent
      <4>1. disk["rec"].own = <<w>>
        BY <2>1, <3>1 DEF Aim
      <4> QED
        BY <2>2, <2>4, <2>5, <3>1, <4>1 DEF RecWhole
    <3>2. CASE disk["rec"] = Absent
      BY <1>3, <3>2 DEF RecWhole
    <3> QED
      BY <3>1, <3>2
  <2>7. MatWhole(disk, touched \cup job.was, w)
    <3>1. CASE disk["mat"] # Absent
      <4>1. disk["mat"].own = <<w>>
        BY <2>1, <3>1 DEF Aim
      <4> QED
        BY <2>3, <2>4, <3>1, <4>1 DEF MatWhole
    <3>2. CASE disk["mat"] = Absent
      <4>1. disk["rec"] # Absent => "mat" \in touched
        <5>1. ASSUME disk["rec"] # Absent PROVE "mat" \in touched
          <6>1. "mat" \notin Ahead /\ snap.new["mat"] # Absent
            BY <2>2, <5>1 DEF Aim
          <6>2. FwdAt("mat")
            BY <1>1, <1>5, PathsAre DEF Fwd
          <6> QED
            BY <3>2, <6>1, <6>2 DEF FwdAt, Known
        <5> QED
          BY <5>1
      <4> QED
        BY <1>3, <3>2, <4>1 DEF MatWhole
    <3> QED
      BY <3>1, <3>2
  <2> QED
    BY <2>6, <2>7 DEF Whole
<1> QED
  BY <1>4, <1>5, AtWork DEF CInv

LEMMA CrashPaths == ASSUME CInv, CInv', PInv, Crash PROVE PInv'
<1>1. /\ pc # "idle" /\ pc' = "idle" /\ UNCHANGED disk /\ (pending <=> pc # "snapshot")
      /\ touched' = IF ~pending \/ First THEN touched \cup job.was ELSE Traces
      /\ torn' = IF pending /\ First THEN Head(New("rec").own) ELSE torn
  BY DEF Crash, Idle, CInv, Controlled, Record, End, world
<1>2. CASE ~pending
  BY <1>1, <1>2, NotBegun DEF PInv
<1>3. CASE pending /\ ~First
  BY <1>1, <1>3, WholeUnknown DEF PInv, CInv
<1>4. CASE pending /\ First
  <2>1. ~job.only
    BY <1>1, <1>4 DEF First, PInv, Images, OnlyKnown
  <2>2. PICK w \in Versions : Aim(w)
    BY <1>1, <2>1 DEF PInv, Images
  <2>3. torn' = w
    BY <1>1, <1>4, <2>2 DEF Aim, New
  <2> QED
    BY <1>1, <1>4, <2>2, <2>3, CutOffFirst DEF PInv
<1> QED
  BY <1>2, <1>3, <1>4

(* What Known says of a path x, of a disk d and the touched paths T.        *)
KnownIn(d, T, x, v) == \/ d[x] = v
                       \/ x \in T /\ (x \in Written \cup {"config"} \/ d[x] = Absent)

(* What the user does to a path z.                                         *)
(* A hand at z leaves the job alone, but for what it had just linked.      *)
JobKept(z) ==
  \/ job' = job
  \/ /\ pc = "unlink" /\ At1 = z /\ z \in Written
     /\ SameJob(job', job) /\ job'.todo = job.todo /\ job'.dir = job.dir /\ job'.err = job.err
     /\ z = "hooks" => "group" \in touched' \/ job'.got.own = job.got.own

LEMMA SaveJob ==
  ASSUME CInv, NEW x \in Written \cup {"config"}, NEW v \in Content, Save(x, v),
         x = "hooks" => "group" \in touched' \/ v.own = Groups
  PROVE  JobKept(x)
<1>1. CASE /\ Linked(x)
           /\ job' = [job EXCEPT !.got = v]
  <2>1. /\ pc = "unlink" /\ At1 = x /\ disk[x] = job.got /\ job \in Jobs /\ job.got # Absent
        /\ x # "config"
    BY <1>1, AtWork DEF Linked, CInv, Ctl, At1, Placed
  <2>2. /\ SameJob(job', job) /\ job'.todo = job.todo /\ job'.dir = job.dir /\ job'.err = job.err
        /\ job'.got = v
    BY <1>1, <2>1 DEF Jobs, SameJob
  <2>3. x = "hooks" => Groups = job.got.own
    BY <2>1 DEF Groups
  <2> QED
    BY <2>1, <2>2, <2>3 DEF JobKept
<1>2. CASE UNCHANGED <<aside, job>>
  BY <1>2 DEF JobKept
<1> QED
  BY <1>1, <1>2 DEF Save

LEMMA UserPaths ==
  ASSUME CInv, PInv, NEW z \in Paths, UNCHANGED <<snap, pc, torn>>, JobKept(z),
         touched \subseteq touched', z \in touched',
         \A y \in Paths : y # z => disk'[y] = disk[y],
         z \in Written \cup {"config"} \/ disk'[z] = Absent,
         z = "hooks" => "group" \in touched' \/ Groups' = Groups
  PROVE  PInv'
<1>1. ASSUME NEW x \in Paths, NEW v, KnownIn(disk, touched, x, v) PROVE KnownIn(disk', touched', x, v)
  BY <1>1 DEF KnownIn
<1>2. "group" \in touched' \/ Groups' = Groups
  BY PathsAre DEF Groups
<1>3. CASE pc = "idle"
  <2>1. Whole(disk, touched, torn)
    BY <1>3 DEF PInv
  <2>2. OwnOf(disk["hooks"]) = Groups /\ OwnOf(disk'["hooks"]) = Groups'
    BY DEF OwnOf, Groups
  <2>3. RecWhole(disk', touched', torn)
    <3>1. CASE z = "rec"
      BY <3>1 DEF RecWhole, Written
    <3>2. CASE z # "rec"
      <4>1. disk'["rec"] = disk["rec"] /\ \A x \in {"tool", "pin"} \ touched' : disk'[x] = disk[x]
        BY <3>2, PathsAre
      <4> QED
        BY <1>2, <2>1, <2>2, <4>1 DEF Whole, RecWhole
    <3> QED
      BY <3>1, <3>2
  <2>4. MatWhole(disk', touched', torn)
    <3>1. CASE z = "mat"
      BY <3>1 DEF MatWhole, Written
    <3>2. CASE z # "mat"
      <4>1. /\ disk'["mat"] = disk["mat"] /\ ("rec" \in touched' \/ disk'["rec"] = disk["rec"])
            /\ "runtime" \notin touched' => disk'["runtime"] = disk["runtime"]
        BY <3>2, PathsAre
      <4> QED
        BY <2>1, <4>1 DEF Whole, MatWhole
    <3> QED
      BY <3>1, <3>2
  <2> QED
    BY <1>3, <2>3, <2>4 DEF PInv, Whole
<1>4. CASE pc # "idle"
  <2>1. /\ At1' = At1 /\ Ahead' = Ahead /\ SameJob(job', job) /\ job'.dir = job.dir
        /\ job'.err = job.err /\ \A x \in Paths : Amid(x)' = Amid(x)
    BY DEF At1, Ahead, Amid, JobKept, SameJob
  <2>2. ASSUME NEW x \in Paths, NEW v, Known(x, v) PROVE Known(x, v)'
    BY <1>1, <2>2 DEF Known, KnownIn
  <2>3. ASSUME NEW g, GroupIs(g) PROVE GroupIs(g)'
    BY <1>2, <2>3 DEF GroupIs
  <2>4. Images'
    <3>1. HostKept'
      BY <1>1, <1>4, <2>1, PathsAre DEF PInv, Images, HostKept, Known, KnownIn, SameJob
    <3> QED
      BY <1>4, <2>1, <3>1, ImagesStay DEF PInv
  <2>5. CASE job.dir = "fwd"
    <3>1. ASSUME NEW x \in Paths PROVE FwdAt(x)'
      <4>1. FwdAt(x)
        BY <1>4, <2>5 DEF PInv, Fwd
      <4>2. job' = job \/ (At1 = z /\ z \in Written)
        BY DEF JobKept
      <4> QED
        BY <1>1, <2>1, <4>1, <4>2 DEF FwdAt, Known, KnownIn
    <3>2. FwdGroup'
      <4>1. FwdGroup
        BY <1>4, <2>5 DEF PInv, Fwd
      <4>2. At1 = "hooks" => job' = job \/ "group" \in touched' \/ job'.got.own = job.got.own
        BY DEF JobKept
      <4> QED
        BY <1>2, <2>1, <4>1, <4>2, PathsAre DEF FwdGroup, GroupIs
    <3> QED
      BY <1>4, <2>1, <2>4, <2>5, <3>1, <3>2 DEF PInv, Fwd
  <2>6. CASE job.dir # "fwd"
    <3>1. ASSUME NEW x \in Paths PROVE BackAt(x)'
      <4>1. BackAt(x)
        BY <1>4, <2>6 DEF PInv, Back
      <4>2. Undone(x)' = Undone(x)
        BY <2>1 DEF Undone
      <4>3. x \notin touched' => disk'[x] = disk[x]
        OBVIOUS
      <4> QED
        BY <1>1, <2>1, <4>1, <4>2, <4>3 DEF BackAt, Known, KnownIn
    <3>2. BackGroup'
      BY <1>2, <1>4, <2>1, <2>6 DEF PInv, Back, BackGroup, GroupIs
    <3> QED
      BY <1>4, <2>1, <2>4, <2>6, <3>1, <3>2 DEF PInv, Back
  <2> QED
    BY <2>5, <2>6
<1> QED
  BY <1>3, <1>4

LEMMA EditPaths ==
  ASSUME CInv, PInv, NEW x \in {"tool", "runtime", "hooks", "config"}, Edit(x)
  PROVE  PInv'
<1>1. x \in Paths /\ x \in Written \cup {"config"}
  BY PathsAre DEF Written
<1>2. /\ disk'[x] = Edited(x, edits') /\ \A y \in Paths : y # x => disk'[y] = disk[y]
      /\ touched' = touched \cup {x}
  BY <1>1 DEF Edit, Save, CInv, World, Disk
<1>3. x = "hooks" => Groups' = Groups
  <2>1. ASSUME x = "hooks" PROVE Groups' = Groups
    <3>1. disk'["hooks"] = [own |-> Groups, user |-> edits'] /\ disk'["hooks"] \in Content
      <4>1. edits' \in Notes /\ Groups \in Seq(Versions)
        BY EditsCount, GroupsTyped DEF Edit, CInv
      <4> QED
        BY <1>2, <2>1, <4>1 DEF Edited, Content
    <3> QED
      BY <3>1, Bounds DEF Groups
  <2> QED
    BY <2>1
<1>4. Edited(x, edits') \in Content /\ (x = "hooks" => Edited(x, edits').own = Groups)
  BY EditsCount, GroupsTyped DEF Edit, Edited, Content, CInv
<1>5. JobKept(x)
  BY <1>1, <1>4, SaveJob DEF Edit
<1> QED
  BY <1>1, <1>2, <1>3, <1>5, UserPaths DEF Edit

LEMMA StripPaths == ASSUME CInv, PInv, Strip PROVE PInv'
<1>1. /\ \A y \in Paths : y # "hooks" => disk'[y] = disk[y]
      /\ touched' = touched \cup {"hooks", "group"} /\ "hooks" \in Written /\ "hooks" \in Paths
  BY PathsAre DEF Strip, Save, CInv, World, Disk, Written
<1>2. [disk["hooks"] EXCEPT !.own = <<>>] \in Content
  <2>1. <<>> \in Seq(Versions) /\ disk["hooks"] \in Content
    BY <1>1, NoteTyped DEF Strip, Groups, CInv
  <2> QED
    BY <2>1 DEF Content
<1>3. JobKept("hooks")
  BY <1>1, <1>2, SaveJob DEF Strip
<1> QED
  BY <1>1, <1>3, UserPaths DEF Strip

LEMMA MoveAsidePaths ==
  ASSUME CInv, PInv, NEW x \in Paths \ {"config"}, MoveAside(x)
  PROVE  PInv'
<1>1. /\ disk'[x] = Absent /\ \A y \in Paths : y # x => disk'[y] = disk[y]
      /\ touched' = touched \cup {x} \cup (IF x = "hooks" THEN {"group"} ELSE {})
  BY DEF MoveAside, CInv, World, Disk
<1> QED
  BY <1>1, UserPaths DEF MoveAside, record, control, JobKept

LEMMA SyncRuntimePaths == ASSUME CInv, PInv, SyncRuntime PROVE PInv'
<1>1. /\ pc = "idle" /\ pc' = "idle" /\ torn' = torn /\ want \in Versions
      /\ touched' = touched \ {"runtime", "mat"} /\ Whole(disk, touched, torn)
  BY DEF SyncRuntime, Idle, CInv, Controlled, control, World, PInv
<1>2. /\ disk'["mat"] = Made(want, Note) /\ disk'["runtime"] = Of(want)
      /\ \A x \in {"rec", "tool", "pin", "hooks"} : disk'[x] = disk[x]
  BY PathsAre DEF SyncRuntime, CInv, World, Disk
<1>3. Made(want, Note) # Absent /\ Made(want, Note).own = <<want>>
  BY <1>1, OfTyped, NoteTyped, Bounds DEF CInv
<1>4. RecWhole(disk', touched', torn')
  BY <1>1, <1>2 DEF Whole, RecWhole
<1>5. MatWhole(disk', touched', torn')
  BY <1>1, <1>2, <1>3 DEF MatWhole
<1> QED
  BY <1>1, <1>4, <1>5 DEF PInv, Whole

(* A step that leaves the paths, the job and its images alone.             *)
LEMMA QuietPaths ==
  ASSUME PInv, UNCHANGED <<disk, touched, torn, job, pc>>, pc = "idle" \/ UNCHANGED snap
  PROVE  PInv'
<1>1. CASE pc = "idle"
  BY <1>1 DEF PInv
<1>2. CASE pc # "idle"
  <2>1. Images'
    <3>1. HostKept'
      BY <1>2 DEF PInv, Images, HostKept, Known
    <3> QED
      BY <1>2, <3>1, ImagesStay DEF PInv, SameJob
  <2>2. CASE job.dir = "fwd"
    BY <1>2, <2>1, <2>2 DEF PInv, Fwd, FwdAt, FwdGroup, Amid, Known, GroupIs, Groups, Ahead, At1
  <2>3. CASE job.dir # "fwd"
    BY <1>2, <2>1, <2>3 DEF PInv, Back, BackAt, BackGroup, Undone, Known, GroupIs, Groups, Ahead, At1
  <2> QED
    BY <2>2, <2>3
<1> QED
  BY <1>1, <1>2

LEMMA InitPaths == ASSUME Init PROVE PInv
<1>1. /\ pc = "idle" /\ touched = {} /\ torn = 0
      /\ \A x \in Paths : x # "config" => disk[x] = Absent
  BY DEF Init
<1> QED
  BY <1>1, PathsAre DEF PInv, Whole, RecWhole, MatWhole, OwnOf

LEMMA NextPaths == ASSUME CInv, CInv', PInv, [Next]_vars PROVE PInv'
<1>1. CASE Step
  BY <1>1, SnapshotPaths, CheckPathPaths, AttachPaths, DetachPaths, DropNamePaths, InspectPaths, PlacePaths,
     UndoFilePaths, UnlinkPaths, RestorePaths, UndoReceiptPaths, UndoHostPaths, ClearPaths DEF Step
<1>2. CASE Upgrade \/ Preview \/ UNCHANGED vars
  BY <1>2, QuietPaths DEF Upgrade, Preview, vars, world, record, control, history, counts
<1>3. CASE Inspected
  <2>1. pc = "idle"
    BY <1>3 DEF Inspected, Idle, CInv, Controlled
  <2> QED
    BY <1>3, <2>1, QuietPaths DEF Inspected, world, control
<1>4. CASE User /\ ~Upgrade /\ ~Inspected
  BY <1>4, EditPaths, StripPaths, MoveAsidePaths, SyncRuntimePaths DEF User
<1> QED
  BY <1>1, <1>2, <1>3, <1>4, BeginPaths, FaultPaths, CrashPaths DEF Next

LEMMA OfZero == ASSUME 0 \notin Versions PROVE Of(0) \notin Content
<1>1. <<0>> \notin Seq(Versions)
  <2>1. <<0>>[1] = 0 /\ Len(<<0>>) = 1
    OBVIOUS
  <2>2. ASSUME NEW s \in Seq(Versions), Len(s) = 1 PROVE s[1] \in Versions
    BY <2>2
  <2> QED
    BY <2>1, <2>2
<1> QED
  BY <1>1 DEF Of, Content

LEMMA AtOne == ASSUME NEW v, Groups = <<v>> PROVE Cardinality(At(v)) = 1
<1>1. At(v) = {1}
  BY DEF At
<1> QED
  BY <1>1, FS_Singleton

(* What each path holds, at each step and between commands: an             *)
(* installation changes the paths in its order, a rollback puts them back. *)
THEOREM PathInvariant == Spec => [](CInv /\ PInv)
<1>1. Init => CInv /\ PInv
  BY InitCtl, InitPaths
<1>2. CInv /\ PInv /\ [Next]_vars => (CInv /\ PInv)'
  BY NextCtl, NextPaths
<1> QED
  BY <1>1, <1>2, PTL DEF Spec

(* When no installation runs and no marker asks the user to look, the      *)
(* receipts say what the files hold, except where the user changed them,   *)
(* whatever the order of installations, syncs, errors, kills and edits.    *)
THEOREM ReceiptsTrue == Spec => []ReceiptTrue
<1>1. CInv /\ PInv => ReceiptTrue
  <2> SUFFICES ASSUME CInv, PInv, Settled PROVE ReceiptTrue
    BY DEF ReceiptTrue
  <2>1. Whole(disk, touched, torn)
    BY DEF Settled, Idle, CInv, Controlled, PInv
  <2>2. ASSUME NEW v \in Release("rec")
        PROVE  /\ \A x \in {"tool", "pin"} \ touched : disk[x] = Of(v)
               /\ "group" \notin touched => Groups = <<v>>
    <3>1. disk["rec"] # Absent
      BY <2>2 DEF Release
    <3>2. PICK u \in Versions :
            /\ disk["rec"].own = <<u>>
            /\ \A x \in {"tool", "pin"} \ touched : disk[x] = Of(u)
            /\ "group" \notin touched => OwnOf(disk["hooks"]) = <<u>>
      BY <2>1, <3>1 DEF Whole, RecWhole
    <3>3. v = u
      BY <2>2, <3>1, <3>2, ReleaseIn DEF CInv
    <3> QED
      BY <3>2, <3>3 DEF Groups, OwnOf
  <2>3. ASSUME NEW v \in Release("mat"), "runtime" \notin touched PROVE disk["runtime"] = Of(v)
    <3>1. disk["mat"] # Absent
      BY <2>3 DEF Release
    <3>2. PICK u \in Versions : disk["mat"].own = <<u>> /\ disk["runtime"] = Of(u)
      BY <2>1, <2>3, <3>1 DEF Whole, MatWhole
    <3>3. v = u
      BY <2>3, <3>1, <3>2, ReleaseIn DEF CInv
    <3> QED
      BY <3>2, <3>3
  <2> QED
    BY <2>2, <2>3 DEF ReceiptTrue
<1> QED
  BY <1>1, PathInvariant, PTL

(* Installations, syncs, upgrades and errors never block the next plan,    *)
(* nor does the first installation cut off at any step, for its release.   *)
THEOREM NotBlocked == Spec => []NeverSelfBlocked
<1>1. CInv /\ PInv => NeverSelfBlocked
  <2> SUFFICES ASSUME CInv, PInv, Settled, touched \subseteq {"config", "binding", "known", "hooks"},
                      torn \in {0, want}
               PROVE  Ready
    BY DEF NeverSelfBlocked
  <2>1. Whole(disk, touched, torn) /\ ~pending
    BY DEF Settled, Idle, CInv, Controlled, PInv
  <2>2. touched \cap {"tool", "pin", "runtime", "group", "mat", "rec"} = {}
    OBVIOUS
  <2>3. World /\ want \in Versions /\ 0 \notin Versions
    BY DEF CInv, World, Versions
  <2>4. ASSUME NEW x \in Paths, disk[x] \in {Absent, Of(torn)} PROVE disk[x] \in {Absent, Of(want)}
    <3>1. CASE torn = want
      BY <2>4, <3>1
    <3>2. CASE torn = 0
      BY <2>3, <2>4, <3>2, NoteTyped, OfZero
    <3> QED
      BY <3>1, <3>2
  <2>5. ASSUME NEW x \in {"tool", "pin"} PROVE ~BlockedTool(x)
    <3>1. CASE disk["rec"] # Absent
      <4>1. PICK v \in Versions : disk["rec"].own = <<v>> /\ disk[x] = Of(v)
        BY <2>1, <2>2, <3>1 DEF Whole, RecWhole
      <4>2. v \in Release("rec")
        BY <2>3, <3>1, <4>1, ReleaseIn
      <4> QED
        BY <4>1, <4>2 DEF BlockedTool
    <3>2. CASE disk["rec"] = Absent
      <4>1. x \in Paths /\ disk[x] \in {Absent, Of(torn)}
        BY <2>1, <2>2, <3>2, PathsAre DEF Whole, RecWhole
      <4> QED
        BY <2>4, <3>2, <4>1 DEF BlockedTool, Release
    <3> QED
      BY <3>1, <3>2
  <2>6. ~BlockedRuntime
    <3>1. CASE disk["mat"] # Absent
      <4>1. PICK v \in Versions : disk["mat"].own = <<v>> /\ disk["runtime"] = Of(v)
        BY <2>1, <2>2, <3>1 DEF Whole, MatWhole
      <4>2. v \in Release("mat")
        BY <2>3, <3>1, <4>1, ReleaseIn
      <4> QED
        BY <3>1, <4>1, <4>2 DEF BlockedRuntime
    <3>2. CASE disk["mat"] = Absent
      <4>1. disk["rec"] = Absent /\ disk["runtime"] \in {Absent, Of(torn)}
        BY <2>1, <2>2, <3>2 DEF Whole, MatWhole
      <4> QED
        BY <2>4, <3>2, <4>1, PathsAre DEF BlockedRuntime
    <3> QED
      BY <3>1, <3>2
  <2>7. ~BlockedHooks
    <3>1. OwnOf(disk["hooks"]) = Groups
      BY DEF OwnOf, Groups
    <3>2. ASSUME NEW v \in Release("rec") PROVE Cardinality(At(v)) = 1
      <4>1. disk["rec"] # Absent
        BY <3>2 DEF Release
      <4>2. PICK u \in Versions : disk["rec"].own = <<u>> /\ Groups = <<u>>
        BY <2>1, <2>2, <3>1, <4>1 DEF Whole, RecWhole
      <4>3. v = u
        BY <2>3, <3>2, <4>1, <4>2, ReleaseIn
      <4> QED
        BY <4>2, <4>3, AtOne
    <3>3. ASSUME disk["rec"] = Absent PROVE ~(Cardinality(At(want)) > 1)
      <4>1. Groups \in {<<>>, <<torn>>}
        BY <2>1, <2>2, <3>1, <3>3 DEF Whole, RecWhole
      <4>2. At(want) \subseteq {1}
        <5>1. \A i \in DOMAIN Groups : i = 1
          BY <4>1
        <5> QED
          BY <5>1 DEF At
      <4>3. At(want) = {} \/ At(want) = {1}
        BY <4>2
      <4> QED
        BY <4>3, FS_EmptySet, FS_Singleton
    <3> QED
      BY <3>2, <3>3 DEF BlockedHooks
  <2> QED
    BY <2>1, <2>5, <2>6, <2>7 DEF Ready
<1> QED
  BY <1>1, PathInvariant, PTL

(* An installation that ends without a marker, by success, by an error or  *)
(* by a kill, has done all or nothing on the paths the user left alone.    *)
THEOREM AllOrNone == Spec => AllOrNothing
<1>1. ASSUME CInv, PInv, [Next]_vars, ~Idle, job' = NoJob, ~pending'
      PROVE  \E image \in {snap.old, snap.new} : \A x \in Paths \ touched : disk'[x] = image[x]
  <2>1. pc # "idle" /\ job # NoJob /\ (pending <=> pc # "snapshot") /\ pending \in BOOLEAN
    BY <1>1 DEF Idle, CInv, Controlled, Record
  <2>2. ASSUME pc = "snapshot", disk' = disk PROVE \A x \in Paths \ touched : disk'[x] = snap.old[x]
    <3>1. job.dir = "fwd"
      BY <1>1, <2>1, <2>2, AtWork DEF CInv, Ctl
    <3> QED
      BY <1>1, <2>1, <2>2, <3>1, OldAtFirst DEF Known
  <2>3. CASE Snapshot
    BY <2>2, <2>3 DEF Snapshot, world
  <2>4. CASE Crash
    BY <1>1, <2>1, <2>2, <2>4 DEF Crash, world
  <2>5. CASE Clear
    <3>1. /\ Ahead = {} /\ disk' = disk /\ job.dir \in {"fwd", "back"} /\ job.err # "race"
          /\ IF job.dir = "fwd" THEN Fwd ELSE Back
      BY <1>1, <2>1, <2>5, AheadOf, AtWork DEF Clear, GiveUp, world, CInv, Ctl, PInv
    <3>2. CASE job.dir = "fwd"
      BY <3>1, <3>2 DEF Fwd, FwdAt, Known
    <3>3. CASE job.dir = "back"
      BY <3>1, <3>3 DEF Back, BackAt, Undone, Known
    <3> QED
      BY <3>1, <3>2, <3>3
  <2>6. CASE Step /\ ~Snapshot /\ ~Clear
    <3>1. pc # "snapshot" /\ pending
      BY <2>1, <2>6 DEF Step, CheckPath, Attach, Detach, DropName, Inspect, Place, UndoFile, Unlink,
         Restore, UndoReceipt, UndoHost
    <3>2. UNCHANGED pending
      BY <2>6 DEF Step, CheckPath, Verify, Replace, Attach, Detach, DropName, Inspect, Place, UndoFile,
         Unlink, Restore, UndoReceipt, UndoHost, Onward, Error, GiveUp, Raced, LeaveFiles
    <3> QED
      BY <1>1, <3>1, <3>2
  <2>7. CASE Fault
    <3>1. pc # "snapshot" /\ pending
      BY <2>1, <2>7 DEF Fault
    <3>2. UNCHANGED pending
      BY <2>7 DEF Fault, Error, Onward, GiveUp
    <3> QED
      BY <1>1, <3>1, <3>2
  <2>8. ASSUME NEW x \in Paths, Edit(x) \/ Strip PROVE FALSE
    <3>1. pc' = pc /\ CInv'
      BY <1>1, <2>8, NextCtl DEF Edit, Strip
    <3> QED
      BY <1>1, <2>1, <3>1 DEF CInv, Controlled
  <2>9. CASE Preview \/ Begin \/ (User /\ ~Strip /\ \A x \in Paths : ~Edit(x)) \/ UNCHANGED vars
    BY <1>1, <2>1, <2>9, PathsAre DEF Preview, Begin, User, MoveAside, Inspected, Upgrade, SyncRuntime,
       Idle, control, vars
  <2>10. ASSUME Strip \/ \E x \in Paths : Edit(x) PROVE FALSE
    BY <2>8, <2>10, PathsAre
  <2> QED
    BY <1>1, <2>3, <2>4, <2>5, <2>6, <2>7, <2>9, <2>10 DEF Next
<1>2. CInv /\ PInv /\ [Next]_vars =>
        [~Idle /\ job' = NoJob /\ ~pending' =>
           \E image \in {snap.old, snap.new} : \A x \in Paths \ touched : disk'[x] = image[x]]_vars
  BY <1>1
<1> QED
  BY <1>2, PathInvariant, PTL DEF Spec, AllOrNothing
=============================================================================
