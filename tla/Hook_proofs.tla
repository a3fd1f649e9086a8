----------------------------- MODULE Hook_proofs -----------------------------
(***************************************************************************)
(* Proofs about the lesson hook and automatic capture, for any number of   *)
(* hooks, any events and ledger texts, any bounds, kills at any step and   *)
(* any edits of ledgers and candidates.  That every hook ends is left to   *)
(* model checking.                                                         *)
(***************************************************************************)
EXTENDS Hook, FiniteSetTheorems, SequenceTheorems, WellFoundedInduction,
        TLAPS

(* Lessons that can be sorted: no two of them are equal to the order.      *)
Keyed(l) == /\ l.scope \in DOMAIN ScopeOrder /\ l.status \in DOMAIN StatusOrder
            /\ l.id \in Nat /\ l.line \in Nat /\ l.size \in Nat

Orderly(S) == /\ IsFiniteSet(S) /\ \A l \in S : Keyed(l)
              /\ \A k, l \in S : k = l \/ Precedes(k, l) \/ Precedes(l, k)

(* What a run has printed was made of the lessons it read.                 *)
Shown(r) ==
  /\ Orderly(r.read)
  /\ r.printed # <<>> => r.printed = Render(MatchLessons(r.read, Query(r.event)))

(* A hook's run has these fields and no others.                            *)
Shaped(r) == r = [event |-> r.event, sig |-> r.sig, read |-> r.read, sound |-> r.sound,
                  printed |-> r.printed, warned |-> r.warned]

(* A signature stands for ledgers that are valid: one that still has the   *)
(* version it names is.  And no signature is from the future.              *)
Stands(sig) ==
  \A s \in DOMAIN sig : s \in Present /\ ledger[s].version = sig[s] => ledger[s].text.valid

Dated(sig) == \A s \in DOMAIN sig : sig[s] <= edits

LedgersDated == \A s \in Present : ledger[s].version <= edits

Vouched == Remembered # NoSig => Stands(Remembered) /\ Dated(Remembered)

(* What a hook at a step knows, when m says whether a ledger moved.        *)
KnowsOf(at, r, m) ==
  /\ Shaped(r) /\ r.event \in Events
  /\ r.sig \in Signatures \cup {NoSig} /\ r.sound \in BOOLEAN /\ r.warned \in BOOLEAN
  /\ r.sig # NoSig => Dated(r.sig)
  /\ at \in {"compare", "validate", "load"} =>
       r.sig # NoSig /\ (~m => r.sig = Signature(r.event))
  /\ r.sig # NoSig /\ at \notin {"compare", "validate"} => Stands(r.sig)
  /\ ~m => r.sound
  /\ Shown(r)

RunsKnow ==
  /\ DOMAIN run = Hooks
  /\ \A h \in Hooks : IF pc[h] = "idle" THEN run[h] = NoRun
                                        ELSE KnowsOf(pc[h], run[h], h \in moved)

Early      == {"idle", "sign", "compare", "validate", "load", "capture", "scan", "create"}
Capturing  == {"scan", "create", "write"}

(* The lock is held exactly while a hook captures, and what a hook that    *)
(* has not written its candidate has made so far.                          *)
LockOwner == \A h \in Hooks : lock = h <=> pc[h] \in Capturing

CandWhere ==
  \A h \in Hooks : /\ pc[h] \in Early => cand[h].place = {} /\ ~cand[h].whole
                   /\ pc[h] = "write" => cand[h].place = {"inbox"} /\ ~cand[h].whole

Repeats(g, h) == cand[g].whole /\ run[g].event.request = run[h].event.request

(* A hook that is about to make a candidate is alone with its request.     *)
Alone ==
  \A h \in Hooks : pc[h] \in {"create", "write"} =>
     \A g \in Scanned \ repaired : g # h => ~Repeats(g, h)

HInv == /\ TypeOK /\ LedgersDated /\ Vouched /\ RunsKnow
        /\ LockOwner /\ CandWhere /\ Alone /\ OncePerRequest

-----------------------------------------------------------------------------
(* The order of the hits, and what it is to print the first of them.       *)

LEMMA KeyTyped ==
  ASSUME NEW l, Keyed(l)
  PROVE  \A i \in 1..4 : Key(l)[i] \in Nat
<1>1. ScopeOrder[l.scope] \in Nat /\ StatusOrder[l.status] \in Nat
  BY DEF Keyed, ScopeOrder, StatusOrder
<1>2. /\ Key(l)[1] = ScopeOrder[l.scope] /\ Key(l)[2] = StatusOrder[l.status]
      /\ Key(l)[3] = l.id /\ Key(l)[4] = l.line
  BY DEF Key
<1> QED
  BY <1>1, <1>2 DEF Keyed

(* Lessons are ordered strictly.                                           *)
LEMMA PrecedesOrder ==
  ASSUME NEW k, NEW l, NEW m, Keyed(k), Keyed(l), Keyed(m)
  PROVE  /\ ~Precedes(k, k)
         /\ Precedes(k, l) /\ Precedes(l, m) => Precedes(k, m)
<1>1. /\ \A i \in 1..4 : Key(k)[i] \in Nat
      /\ \A i \in 1..4 : Key(l)[i] \in Nat
      /\ \A i \in 1..4 : Key(m)[i] \in Nat
  BY KeyTyped
<1>2. ~Precedes(k, k)
  BY <1>1 DEF Precedes
<1>3. ASSUME Precedes(k, l), Precedes(l, m)
      PROVE  Precedes(k, m)
  <2>1. PICK i \in 1..4 : Key(k)[i] < Key(l)[i] /\ \A j \in 1..(i - 1) : Key(k)[j] = Key(l)[j]
    BY <1>3 DEF Precedes
  <2>2. PICK n \in 1..4 : Key(l)[n] < Key(m)[n] /\ \A j \in 1..(n - 1) : Key(l)[j] = Key(m)[j]
    BY <1>3 DEF Precedes
  <2>3. CASE i <= n
    <3>1. Key(k)[i] < Key(m)[i] /\ \A j \in 1..(i - 1) : Key(k)[j] = Key(m)[j]
      BY <1>1, <2>1, <2>2, <2>3
    <3> QED
      BY <3>1 DEF Precedes
  <2>4. CASE n < i
    <3>1. Key(k)[n] < Key(m)[n] /\ \A j \in 1..(n - 1) : Key(k)[j] = Key(m)[j]
      BY <1>1, <2>1, <2>2, <2>4
    <3> QED
      BY <3>1 DEF Precedes
  <2> QED
    BY <2>3, <2>4
<1> QED
  BY <1>2, <1>3

(* The hits that come before a hit; their number is its place.             *)
Before(l, H) == {k \in H : Precedes(k, l)}

Rank(H) == [l \in H |-> Cardinality(Before(l, H)) + 1]

(* Counting what comes before gives each hit a place of its own.           *)
LEMMA RankOrder ==
  ASSUME NEW H, Orderly(H)
  PROVE  /\ Rank(H) \in Bijection(H, 1..Cardinality(H))
         /\ \A k, l \in H : Precedes(k, l) => Rank(H)[k] < Rank(H)[l]
<1> DEFINE rank == Rank(H)
<1>1. IsFiniteSet(H) /\ Cardinality(H) \in Nat
  BY FS_CardinalityType DEF Orderly
<1>2. \A l \in H : /\ IsFiniteSet(Before(l, H)) /\ Cardinality(Before(l, H)) \in Nat
                   /\ Cardinality(Before(l, H)) < Cardinality(H)
  <2> TAKE l \in H
  <2>1. Before(l, H) \subseteq H /\ l \notin Before(l, H)
    BY PrecedesOrder DEF Before, Orderly
  <2>2. IsFiniteSet(Before(l, H)) /\ Cardinality(Before(l, H)) <= Cardinality(H)
        /\ Cardinality(Before(l, H)) # Cardinality(H)
    BY <1>1, <2>1, FS_Subset
  <2> QED
    BY <1>1, <2>2, FS_CardinalityType
<1>3. \A k, l \in H : Precedes(k, l) => rank[k] < rank[l]
  <2> SUFFICES ASSUME NEW k \in H, NEW l \in H, Precedes(k, l)
               PROVE  rank[k] < rank[l]
    OBVIOUS
  <2>1. Before(k, H) \subseteq Before(l, H) /\ k \in Before(l, H) /\ k \notin Before(k, H)
    BY PrecedesOrder DEF Before, Orderly
  <2>2. /\ Cardinality(Before(k, H)) <= Cardinality(Before(l, H))
        /\ Cardinality(Before(k, H)) # Cardinality(Before(l, H))
    BY <1>2, <2>1, FS_Subset
  <2> QED
    BY <1>2, <2>2 DEF Rank
<1>4. rank \in [H -> 1..Cardinality(H)]
  BY <1>1, <1>2 DEF Rank
<1> HIDE DEF rank
<1>5. \A k, l \in H : rank[k] = rank[l] => k = l
  <2>1. \A k \in H : rank[k] \in Int
    BY <1>4
  <2> QED
    BY <1>3, <2>1 DEF Orderly
<1>6. rank \in Injection(H, 1..Cardinality(H))
  BY <1>4, <1>5 DEF Injection, IsInjective
<1>7. IsFiniteSet(1..Cardinality(H)) /\ Cardinality(1..Cardinality(H)) = Cardinality(H)
  BY <1>1, FS_Interval
<1>8. rank \in Surjection(H, 1..Cardinality(H))
  BY <1>6, <1>7, FS_Injection
<1> QED
  BY <1>3, <1>6, <1>8 DEF Bijection, rank

Sorted(s, H) == /\ s \in [1..Cardinality(H) -> H]
                /\ \A j \in DOMAIN s : \A i \in 1..(j - 1) : Precedes(s[i], s[j])

(* There is a sorting of the hits, so match_lessons finds it.              *)
LEMMA MatchesSorted ==
  ASSUME NEW S, Orderly(S), NEW q
  PROVE  /\ Orderly(Hits(S, q)) /\ Sorted(MatchLessons(S, q), Hits(S, q))
<1> DEFINE H == Hits(S, q)
           rank == Rank(H)
           n == Cardinality(H)
<1>1. Orderly(H)
  <2>1. H \subseteq S
    BY DEF Hits
  <2> QED
    BY <2>1, FS_Subset DEF Orderly
<1> DEFINE s == [i \in 1..n |-> CHOOSE l \in H : rank[l] = i]
<1> HIDE DEF H
<1>2. rank \in Bijection(H, 1..n) /\ \A k, l \in H : Precedes(k, l) => rank[k] < rank[l]
  BY <1>1, RankOrder
<1> HIDE DEF rank
<1>3. \A i \in 1..n : \E l \in H : rank[l] = i
  BY <1>2 DEF Bijection, Surjection
<1>4. \A i \in 1..n : s[i] \in H /\ rank[s[i]] = i
  BY <1>3
<1>5. s \in [1..n -> H]
  BY <1>3
<1> HIDE DEF s
<1>6. n \in Nat
  BY <1>1, FS_CardinalityType DEF Orderly
<1>7. \A j \in 1..n : \A i \in 1..(j - 1) : Precedes(s[i], s[j])
  <2> SUFFICES ASSUME NEW j \in 1..n, NEW i \in 1..(j - 1), ~Precedes(s[i], s[j])
               PROVE  FALSE
    OBVIOUS
  <2>1. i \in 1..n /\ i < j
    BY <1>6
  <2>2. s[i] \in H /\ s[j] \in H /\ rank[s[i]] = i /\ rank[s[j]] = j
    BY <1>4, <2>1
  <2>3. s[i] # s[j]
    BY <2>1, <2>2
  <2>4. Precedes(s[j], s[i])
    BY <1>1, <2>2, <2>3 DEF Orderly
  <2> QED
    BY <1>2, <1>6, <2>1, <2>2, <2>4
<1>8. s \in [1..n -> H] /\ \A j \in DOMAIN s : \A i \in 1..(j - 1) : Precedes(s[i], s[j])
  BY <1>5, <1>7
<1> QED
  BY <1>1, <1>8 DEF MatchLessons, Sorted, H

(* The first n of the sorted hits.                                         *)
First(s, n) == {s[i] : i \in 1..n}

(* It has each hit once.                                                   *)
LEMMA SortedBijective ==
  ASSUME NEW H, Orderly(H), NEW s, Sorted(s, H)
  PROVE  /\ Cardinality(H) \in Nat
         /\ \A i, j \in 1..Cardinality(H) : s[i] = s[j] => i = j
         /\ H = First(s, Cardinality(H))
<1> DEFINE n == Cardinality(H)
<1>1. n \in Nat /\ IsFiniteSet(H) /\ s \in [1..n -> H]
  BY FS_CardinalityType DEF Orderly, Sorted
<1>2. \A i, j \in 1..n : i < j => s[i] # s[j]
  <2> SUFFICES ASSUME NEW i \in 1..n, NEW j \in 1..n, i < j
               PROVE  s[i] # s[j]
    OBVIOUS
  <2>1. Precedes(s[i], s[j]) /\ Keyed(s[i])
    BY <1>1 DEF Sorted, Orderly
  <2> QED
    BY <2>1, PrecedesOrder
<1>3. \A i, j \in 1..n : s[i] = s[j] => i = j
  BY <1>1, <1>2
<1>4. IsFiniteSet(1..n) /\ Cardinality(1..n) = n
  BY <1>1, FS_Interval
<1>5. s \in Injection(1..n, H)
  BY <1>1, <1>3 DEF Injection, IsInjective
<1>6. s \in Surjection(1..n, H)
  BY <1>1, <1>4, <1>5, FS_Injection
<1> QED
  BY <1>1, <1>3, <1>6 DEF First, Surjection

(* Its beginnings are closed, and there is one of each size.               *)
LEMMA FirstCounted ==
  ASSUME NEW H, Orderly(H), NEW s, Sorted(s, H), NEW n \in 0..Cardinality(H)
  PROVE  /\ First(s, n) \subseteq H /\ Cardinality(First(s, n)) = n
         /\ Closed(First(s, n), H)
<1> DEFINE N == Cardinality(H)
<1>1. /\ N \in Nat /\ H = First(s, N)
      /\ \A i, j \in 1..N : s[i] = s[j] => i = j
  BY SortedBijective
<1>2. First(s, n) \subseteq H
  BY <1>1 DEF First
<1> DEFINE f == [i \in 1..n |-> s[i]]
<1>3. f \in Bijection(1..n, First(s, n))
  <2>1. f \in [1..n -> First(s, n)]
    BY DEF First
  <2>2. \A i, j \in 1..n : f[i] = f[j] => i = j
    BY <1>1
  <2>3. \A l \in First(s, n) : \E i \in 1..n : f[i] = l
    BY DEF First
  <2> QED
    BY <2>1, <2>2, <2>3 DEF Bijection, Injection, Surjection, IsInjective
<1>4. Cardinality(First(s, n)) = n
  <2>1. IsFiniteSet(1..n) /\ Cardinality(1..n) = n
    BY <1>1, FS_Interval
  <2>2. ExistsBijection(1..n, First(s, n))
    BY <1>3 DEF ExistsBijection
  <2> QED
    BY <2>1, <2>2, FS_Bijection
<1>5. Closed(First(s, n), H)
  <2> SUFFICES ASSUME NEW k \in First(s, n), NEW l \in H \ First(s, n), Precedes(l, k)
               PROVE  FALSE
    BY DEF Closed
  <2>1. PICK i \in 1..n : k = s[i]
    BY DEF First
  <2>2. PICK j \in 1..N : l = s[j]
    BY <1>1 DEF First
  <2>3. i < j
    BY <1>1, <2>2 DEF First
  <2>4. Precedes(k, l)
    BY <2>1, <2>2, <2>3 DEF Sorted
  <2> QED
    BY <1>2, <2>4, PrecedesOrder DEF Orderly
<1> QED
  BY <1>2, <1>4, <1>5

(* A set of hits none of which comes before one left out is a beginning.   *)
LEMMA ClosedIsFirst ==
  ASSUME NEW H, Orderly(H), NEW s, Sorted(s, H), NEW Q \in SUBSET H, Closed(Q, H)
  PROVE  Cardinality(Q) \in 0..Cardinality(H) /\ Q = First(s, Cardinality(Q))
<1> DEFINE N == Cardinality(H)
           n == Cardinality(Q)
<1>1. /\ N \in Nat /\ H = First(s, N)
      /\ \A i, j \in 1..N : s[i] = s[j] => i = j
  BY SortedBijective
<1>2. IsFiniteSet(H) /\ IsFiniteSet(Q) /\ n \in Nat /\ n <= N
  BY <1>1, FS_Subset, FS_CardinalityType DEF Orderly
<1>3. \A m \in 0..N : First(s, m) \subseteq H /\ Cardinality(First(s, m)) = m
  BY FirstCounted
<1>4. \A i \in 1..N : s[i] \in Q => First(s, i) \subseteq Q
  <2> SUFFICES ASSUME NEW i \in 1..N, s[i] \in Q, NEW j \in 1..i, s[j] \notin Q
               PROVE  FALSE
    BY DEF First
  <2>1. j \in 1..(i - 1) /\ s[j] \in H /\ i \in DOMAIN s
    BY <1>1 DEF Sorted
  <2>2. Precedes(s[j], s[i])
    BY <2>1 DEF Sorted
  <2> QED
    BY <2>1, <2>2 DEF Closed
<1>5. \A i \in 1..N : s[i] \in Q => i <= n
  BY <1>2, <1>3, <1>4, FS_Subset
<1>6. Q \subseteq First(s, n)
  BY <1>1, <1>2, <1>5 DEF First
<1>7. IsFiniteSet(First(s, n)) /\ Cardinality(First(s, n)) = n
  BY <1>2, <1>3, FS_Subset
<1>8. Q = First(s, n)
  BY <1>6, <1>7, FS_Subset
<1> QED
  BY <1>2, <1>8

(* A set of numbers that is bounded has a greatest.                        *)
LEMMA Greatest ==
  ASSUME NEW N \in Nat, NEW T \in SUBSET (0..N), T # {}
  PROVE  \E n \in T : \A m \in T : m <= n
<1> DEFINE U == {i \in Nat : N - i \in T}
<1>1. PICK n \in 0..N : n \in T
  OBVIOUS
<1>2. N - n \in U
  BY <1>1
<1>3. \A R : IsWellFoundedOn(R, Nat) => \E i \in U : \A j \in U : ~(<<j, i>> \in R)
  BY <1>2, WFMin
<1>4. PICK i \in U : \A j \in U : ~(<<j, i>> \in OpToRel(<, Nat))
  BY <1>3, NatLessThanWellFounded
<1>5. \A j \in U : j >= i
  <2> SUFFICES ASSUME NEW j \in U, ~(j >= i)
               PROVE  FALSE
    OBVIOUS
  <2>1. <<j, i>> \in Nat \X Nat /\ j < i
    OBVIOUS
  <2>2. <<j, i>> \in OpToRel(<, Nat)
    BY <2>1 DEF OpToRel
  <2> QED
    BY <1>4, <2>2
<1>6. ASSUME NEW m \in T
      PROVE  m <= N - i
  <2>1. N - m \in U
    OBVIOUS
  <2> QED
    BY <1>5, <2>1
<1> QED
  BY <1>6

(* What lessons print has a length.                                        *)
LEMMA SizeTyped ==
  ASSUME NEW P, IsFiniteSet(P), \A l \in P : l.size \in Nat
  PROVE  SumSizes(P) \in Nat
<1> DEFINE Line(l) == {l} \X (1..l.size)
           lines   == {Line(l) : l \in P}
<1>1. IsFiniteSet(lines)
  <2> DEFINE f == [l \in P |-> Line(l)]
  <2>1. f \in Surjection(P, lines)
    BY DEF Surjection
  <2> QED
    BY <2>1, FS_Surjection
<1>2. \A l \in P : IsFiniteSet(Line(l))
  <2> TAKE l \in P
  <2>1. IsFiniteSet(1..l.size)
    BY FS_Interval
  <2>2. IsFiniteSet({l})
    BY FS_Singleton
  <2> QED
    BY <2>1, <2>2, FS_Product
<1>3. IsFiniteSet(UNION lines)
  BY <1>1, <1>2, FS_UNION
<1> QED
  BY <1>3, FS_CardinalityType DEF SumSizes, Characters

(* The beginning of a sequence is that of the sorting.                     *)
LEMMA Beginning ==
  ASSUME NEW H, Orderly(H), NEW s, Sorted(s, H), NEW n \in 0..Cardinality(H)
  PROVE  /\ Len(s) = Cardinality(H)
         /\ ToSet(SubSeq(s, 1, n)) = First(s, n)
         /\ SumSizes(First(s, n)) \in Nat
<1>1. Cardinality(H) \in Nat /\ s \in [1..Cardinality(H) -> H]
  BY SortedBijective DEF Sorted
<1>2. Len(s) = Cardinality(H)
  BY <1>1
<1>3. /\ SubSeq(s, 1, n) \in Seq(H)
      /\ Len(SubSeq(s, 1, n)) = n
      /\ \A i \in 1..n : SubSeq(s, 1, n)[i] = s[i]
  BY <1>1, SubSeqProperties
<1>4. ToSet(SubSeq(s, 1, n)) = First(s, n)
  BY <1>3 DEF ToSet, First
<1>5. First(s, n) \subseteq H
  BY FirstCounted
<1>6. IsFiniteSet(First(s, n)) /\ \A l \in First(s, n) : l.size \in Nat
  BY <1>5, FS_Subset DEF Orderly, Keyed
<1> QED
  BY <1>2, <1>4, <1>6, SizeTyped

(* What is printed of sorted hits: the longest beginning that fits, hence  *)
(* the largest closed set that does.                                       *)
LEMMA RenderedFirst ==
  ASSUME NEW H, Orderly(H), NEW s, Sorted(s, H)
  PROVE  LET P == ToSet(Render(s)) IN
         /\ P \subseteq H /\ Closed(P, H) /\ Size(P, H) <= Budget
         /\ \A Q \in SUBSET H :
              Cardinality(Q) > Cardinality(P) /\ Closed(Q, H) => Size(Q, H) > Budget
<1> DEFINE N == Cardinality(H)
           fit == {n \in 0..N : Fits(s, n)}
<1>1. N \in Nat /\ H = First(s, N)
  BY SortedBijective
<1>2. Len(s) = N
  BY <1>1, Beginning
<1>3. \A n \in 0..N : /\ First(s, n) \subseteq H /\ Cardinality(First(s, n)) = n
                       /\ Closed(First(s, n), H)
  BY FirstCounted
<1>4. \A n \in 0..N : ToSet(SubSeq(s, 1, n)) = First(s, n) /\ SumSizes(First(s, n)) \in Nat
  BY Beginning
<1>5. \A n \in 0..N : First(s, n) = H <=> n = N
  BY <1>1, <1>3
<1>6. \A n \in 0..N : /\ Size(First(s, n), H) \in Nat
                      /\ Fits(s, n) <=> Size(First(s, n), H) <= Budget
  BY <1>1, <1>2, <1>4, <1>5, ConstantsOK DEF Size, Fits
<1>7. Fits(s, 0)
  <2>1. First(s, 0) = {}
    BY DEF First
  <2>2. SumSizes({}) = 0
    BY FS_EmptySet DEF SumSizes, Characters
  <2>3. Size(First(s, 0), H) <= Budget
    BY <2>1, <2>2, ConstantsOK DEF Size
  <2> QED
    BY <1>1, <1>6, <2>3
<1>8. \E n \in fit : \A m \in fit : m <= n
  <2>1. fit \subseteq 0..N /\ fit # {}
    BY <1>1, <1>7
  <2> QED
    BY <1>1, <2>1, Greatest
<1>9. PICK n \in 0..N : /\ Render(s) = SubSeq(s, 1, n) /\ Fits(s, n)
                        /\ \A m \in (n + 1)..N : ~Fits(s, m)
  <2> DEFINE n == CHOOSE x \in 0..N : Fits(s, x) /\ \A m \in (x + 1)..N : ~Fits(s, m)
  <2>1. \E x \in 0..N : Fits(s, x) /\ \A m \in (x + 1)..N : ~Fits(s, m)
    BY <1>1, <1>8
  <2>2. n \in 0..N /\ Fits(s, n) /\ \A m \in (n + 1)..N : ~Fits(s, m)
    BY <2>1
  <2>3. Render(s) = SubSeq(s, 1, n)
    BY <1>2 DEF Render
  <2> QED
    BY <2>2, <2>3
<1>10. ToSet(Render(s)) = First(s, n)
  BY <1>4, <1>9
<1>11. ASSUME NEW Q \in SUBSET H, Cardinality(Q) > n, Closed(Q, H)
       PROVE  Size(Q, H) > Budget
  <2>1. Cardinality(Q) \in 0..N /\ Q = First(s, Cardinality(Q))
    BY <1>11, ClosedIsFirst
  <2> DEFINE m == Cardinality(Q)
  <2>2. m \in (n + 1)..N
    BY <1>1, <1>11, <2>1
  <2> HIDE DEF m
  <2>3. ~Fits(s, m) /\ m \in 0..N
    BY <1>1, <1>9, <2>2
  <2>4. ~(Size(First(s, m), H) <= Budget) /\ Size(First(s, m), H) \in Nat
    BY <1>6, <2>3
  <2> QED
    BY <2>1, <2>4, ConstantsOK DEF m
<1>12. /\ First(s, n) \subseteq H /\ Closed(First(s, n), H)
       /\ Cardinality(First(s, n)) = n /\ Size(First(s, n), H) <= Budget
  BY <1>3, <1>6, <1>9
<1> HIDE DEF fit
<1> QED
  BY <1>10, <1>11, <1>12

(* Two lessons with different keys are ordered.                            *)
LEMMA KeysOrdered ==
  ASSUME NEW k, NEW l, Keyed(k), Keyed(l), Key(k) # Key(l)
  PROVE  Precedes(k, l) \/ Precedes(l, k)
<1>1. \A i \in 1..4 : Key(k)[i] \in Nat /\ Key(l)[i] \in Nat
  BY KeyTyped
<1>2. \E i \in 1..4 : Key(k)[i] # Key(l)[i]
  BY DEF Key
<1>3. \E i \in 1..4 : /\ Key(k)[i] # Key(l)[i]
                     /\ \A j \in 1..(i - 1) : Key(k)[j] = Key(l)[j]
  BY <1>2
<1> QED
  BY <1>1, <1>3 DEF Precedes

(* The lessons of a workspace can be sorted: a ledger has one lesson to a  *)
(* line, and two ledgers have different scopes.                            *)
LEMMA LessonsOrderly ==
  ASSUME TypeOK, NEW e
  PROVE  Orderly(LessonsOf(e))
<1> DEFINE of == [s \in Found(e) |-> ledger[s].text.lessons]
           lots == {of[s] : s \in Found(e)}
<1>1. Found(e) \subseteq Sources /\ \A s \in Found(e) : ledger[s].text \in Texts[s]
  BY DEF TypeOK, Found, Present
<1>2. \A s \in Found(e) :
        /\ IsFiniteSet(of[s])
        /\ \A l \in of[s] : /\ l.scope = s /\ l.status \in DOMAIN StatusOrder
                            /\ l.id \in Nat /\ l.line \in Nat /\ l.size \in Nat
        /\ \A k, l \in of[s] : k.line = l.line => k = l
  BY <1>1, ConstantsOK
<1>3. LessonsOf(e) = UNION lots
  BY DEF LessonsOf
<1>4. IsFiniteSet(LessonsOf(e))
  <2>1. IsFiniteSet(Sources)
    <3>1. IsFiniteSet({"global"}) /\ Sources = {"global"} \cup {"project"}
      BY FS_Singleton DEF Sources
    <3> QED
      BY <3>1, FS_Singleton, FS_AddElement
  <2>2. IsFiniteSet(Found(e))
    BY <1>1, <2>1, FS_Subset
  <2>3. of \in Surjection(Found(e), lots)
    BY DEF Surjection
  <2>4. IsFiniteSet(lots)
    BY <2>2, <2>3, FS_Surjection
  <2>5. \A L \in lots : IsFiniteSet(L)
    BY <1>2
  <2> HIDE DEF lots
  <2> QED
    BY <1>3, <2>4, <2>5, FS_UNION
<1> HIDE DEF of
<1>5. \A l \in LessonsOf(e) : Keyed(l)
  BY <1>1, <1>2, <1>3 DEF Keyed, Sources, ScopeOrder
<1>6. ASSUME NEW k \in LessonsOf(e), NEW l \in LessonsOf(e), k # l
      PROVE  Key(k) # Key(l)
  <2>1. PICK r \in Found(e) : k \in of[r]
    BY <1>3
  <2>2. PICK s \in Found(e) : l \in of[s]
    BY <1>3
  <2>3. CASE r = s
    <3>1. k.line # l.line
      BY <1>2, <1>6, <2>1, <2>2, <2>3
    <3> QED
      BY <3>1 DEF Key
  <2>4. CASE r # s
    <3>1. ScopeOrder[k.scope] # ScopeOrder[l.scope]
      BY <1>1, <1>2, <2>1, <2>2, <2>4 DEF Sources, ScopeOrder
    <3> QED
      BY <3>1 DEF Key
  <2> QED
    BY <2>3, <2>4
<1> QED
  BY <1>4, <1>5, <1>6, KeysOrdered DEF Orderly

-----------------------------------------------------------------------------
(* What a run has printed stays what it is.                                *)

LEMMA NothingShown ==
  ASSUME NEW e
  PROVE  Shown(Knowing(e))
BY FS_EmptySet DEF Shown, Knowing, Orderly

LEMMA ShownAlike ==
  ASSUME NEW q, NEW r, Shown(q),
         r.read = q.read, r.printed = q.printed, r.event = q.event
  PROVE  Shown(r)
BY DEF Shown

-----------------------------------------------------------------------------
(* Signatures and what they stand for.                                     *)

LEMMA SignatureTyped ==
  ASSUME TypeOK, LedgersDated, NEW e \in Events
  PROVE  /\ Signature(e) \in Signatures /\ Dated(Signature(e))
         /\ Signature(e) # NoSig /\ DOMAIN Signature(e) = Found(e)
<1>1. Found(e) \in SUBSET Sources /\ Found(e) \subseteq Present
  BY DEF Found, Present
<1>2. \A s \in Found(e) : ledger[s].version \in 0 .. MaxEdits
  BY <1>1 DEF TypeOK
<1>3. Signature(e) \in [Found(e) -> 0 .. MaxEdits]
  BY <1>2 DEF Signature
<1>4. Signature(e) \in Signatures
  BY <1>1, <1>3 DEF Signatures
<1>5. Dated(Signature(e))
  BY <1>1 DEF Dated, LedgersDated, Signature
<1> QED
  BY <1>3, <1>4, <1>5, ConstantsOK

(* A change gives a ledger a version that no signature names.              *)
LEMMA EditStands ==
  ASSUME TypeOK, NEW s \in Sources, NEW t \in Texts[s] \cup {Absent}, Edit(s, t),
         NEW sig \in Signatures, Stands(sig), Dated(sig)
  PROVE  Stands(sig)' /\ Dated(sig)'
<1>1. edits \in Nat /\ edits' = edits + 1
  BY ConstantsOK DEF TypeOK, Edit
<1>2. ledger' = [ledger EXCEPT ![s] = IF t = Absent THEN Absent
                                    ELSE [version |-> edits + 1, text |-> t]]
  BY DEF Edit
<1>3. PICK S \in SUBSET Sources : sig \in [S -> 0 .. MaxEdits]
  BY DEF Signatures
<1>4. \A u \in S : sig[u] \in Nat /\ sig[u] <= edits
  BY <1>3, ConstantsOK DEF Dated
<1>5. Dated(sig)'
  BY <1>1, <1>3, <1>4 DEF Dated
<1>6. ASSUME NEW u \in S, u \in Present', ledger'[u].version = sig[u]
      PROVE  ledger'[u].text.valid
  <2>1. CASE u = s
    BY <1>1, <1>2, <1>4, <1>6, <2>1 DEF TypeOK, Present
  <2>2. CASE u # s
    <3>1. ledger'[u] = ledger[u] /\ u \in Present
      BY <1>2, <1>6, <2>2 DEF TypeOK, Present
    <3> QED
      BY <1>3, <1>6, <3>1 DEF Stands
  <2> QED
    BY <2>1, <2>2
<1> QED
  BY <1>3, <1>5, <1>6 DEF Stands

-----------------------------------------------------------------------------
(* One hook moves; the ledgers stay.                                       *)

(* What the others know stays known.                                       *)
LEMMA RunStep ==
  ASSUME HInv, NEW h \in Hooks, NEW at \in Steps \ {"idle"}, NEW r,
         UNCHANGED <<ledger, edits>>,
         pc' = [pc EXCEPT ![h] = at],
         DOMAIN run' = Hooks, run'[h] = r,
         \A g \in Hooks : g # h => run'[g] = run[g] /\ (g \in moved' <=> g \in moved),
         KnowsOf(at, r, h \in moved')
  PROVE  RunsKnow' /\ LedgersDated' /\ pc' \in [Hooks -> Steps]
<1>1. pc' \in [Hooks -> Steps] /\ pc'[h] = at
  BY DEF HInv, TypeOK
<1>2. \A g \in Hooks : g # h => pc'[g] = pc[g]
  BY DEF HInv, TypeOK
<1>3. LedgersDated'
  BY DEF HInv, LedgersDated, Present
<1>4. \A a, q, m : KnowsOf(a, q, m) => KnowsOf(a, q, m)'
  BY DEF KnowsOf, Stands, Dated, Present, Signature, Found
<1> QED
  BY <1>1, <1>2, <1>3, <1>4 DEF HInv, RunsKnow

(* Nothing new is kept.                                                    *)
LEMMA NothingKept ==
  ASSUME HInv, repaired \subseteq repaired',
         \A g \in Hooks : g \in Scanned' \ repaired' /\ cand'[g].whole
                          => g \in Scanned /\ cand[g].whole,
         \A g \in Hooks : pc[g] # "idle" => run'[g].event = run[g].event,
         \A h \in Hooks : pc'[h] \in {"create", "write"} => pc[h] \in {"create", "write"}
  PROVE  Alone' /\ OncePerRequest'
<1>1. \A g \in Scanned : g \in Hooks /\ pc[g] # "idle"
  BY DEF HInv, CandWhere, Early, Scanned
<1>2. \A g \in Scanned' : g \in Hooks
  BY DEF Scanned
<1>3. \A g \in Scanned' \ repaired' :
        cand'[g].whole => /\ g \in Scanned \ repaired /\ cand[g].whole
                          /\ run'[g].event = run[g].event
  BY <1>1, <1>2
<1>4. \A h \in Hooks : pc'[h] \in {"create", "write"} =>
        pc[h] \in {"create", "write"} /\ run'[h].event = run[h].event
  OBVIOUS
<1>5. Alone'
  BY <1>3, <1>4 DEF HInv, Alone, Repeats
<1>6. OncePerRequest'
  BY <1>3 DEF HInv, OncePerRequest
<1> QED
  BY <1>5, <1>6

(* A hook that neither captures nor starts to.                             *)
LEMMA QuietHook ==
  ASSUME HInv, NEW h \in Hooks, NEW at \in Steps \ Capturing,
         pc[h] \notin Capturing, at \in Early => pc[h] \in Early,
         pc' = [pc EXCEPT ![h] = at],
         UNCHANGED <<cand, lock, repaired>>,
         \A g \in Hooks : pc[g] # "idle" => run'[g].event = run[g].event
  PROVE  LockOwner' /\ CandWhere' /\ Alone' /\ OncePerRequest'
<1>1. /\ pc'[h] = at /\ \A g \in Hooks : g # h => pc'[g] = pc[g]
  BY DEF HInv, TypeOK
<1>2. LockOwner' /\ CandWhere'
  BY <1>1 DEF HInv, LockOwner, CandWhere, Capturing
<1>3. Scanned' = Scanned
  BY DEF Scanned
<1>4. \A g \in Hooks : pc'[g] \in {"create", "write"} => pc[g] \in {"create", "write"}
  BY <1>1 DEF Capturing
<1> QED
  BY <1>2, <1>3, <1>4, NothingKept

(* What RunsKnow adds to make the type invariant whole.                    *)
LEMMA TypesKept ==
  ASSUME HInv, RunsKnow', LockOwner', UNCHANGED ledger,
         pc' \in [Hooks -> Steps],
         cand' \in [Hooks -> [place : SUBSET Places, whole : BOOLEAN]],
         lock' \in Hooks \cup {Free, User},
         Remembered' \in Signatures \cup {NoSig},
         edits' \in 0 .. MaxEdits, turns' \in 0 .. MaxTurns,
         moved' \subseteq Hooks, repaired' \subseteq Hooks
  PROVE  TypeOK'
<1>1. \A h \in Hooks : IF pc'[h] = "idle" THEN run'[h] = NoRun ELSE
        /\ run'[h].event \in Events
        /\ run'[h].sig \in Signatures \cup {NoSig}
        /\ {run'[h].sound, run'[h].warned} \subseteq BOOLEAN
  BY DEF RunsKnow, KnowsOf
<1>2. /\ DOMAIN ledger' = Sources
      /\ \A s \in Present' : ledger'[s] \in [version : 0 .. MaxEdits, text : Texts[s]]
  BY DEF HInv, TypeOK, Present
<1>3. lock' \in Hooks => pc'[lock'] \in {"scan", "create", "write"}
  BY DEF LockOwner, Capturing
<1> QED
  BY <1>1, <1>2, <1>3 DEF TypeOK

LEMMA VouchedKept ==
  ASSUME HInv, UNCHANGED <<ledger, heartbeat, edits>>
  PROVE  Vouched' /\ Remembered' \in Signatures \cup {NoSig}
<1>1. Remembered' = Remembered
  BY DEF Remembered
<1> QED
  BY <1>1 DEF HInv, TypeOK, Vouched, Stands, Dated, Present

LEMMA RunSet ==
  ASSUME RunsKnow, NEW h \in Hooks, NEW r, run' = [run EXCEPT ![h] = r]
  PROVE  /\ DOMAIN run' = Hooks /\ run'[h] = r
         /\ \A g \in Hooks : g # h => run'[g] = run[g]
BY DEF RunsKnow

(* A step of a hook that leaves the heartbeat, the candidates and the lock *)
(* alone, and what it then knows.                                          *)
LEMMA QuietStep ==
  ASSUME HInv, NEW h \in Hooks, NEW at \in Steps \ (Capturing \cup {"idle"}),
         pc[h] \notin Capturing, at \in Early => pc[h] \in Early,
         pc' = [pc EXCEPT ![h] = at],
         NEW r, DOMAIN run' = Hooks, run'[h] = r,
         \A g \in Hooks : g # h => run'[g] = run[g],
         KnowsOf(at, r, h \in moved),
         pc[h] # "idle" => r.event = run[h].event,
         UNCHANGED <<ledger, heartbeat, cand, lock, edits, moved, repaired>>,
         turns' \in 0 .. MaxTurns
  PROVE  HInv'
<1>1. \A g \in Hooks : pc[g] # "idle" => run'[g].event = run[g].event
  OBVIOUS
<1>2. RunsKnow' /\ LedgersDated' /\ pc' \in [Hooks -> Steps]
  BY RunStep
<1>3. LockOwner' /\ CandWhere' /\ Alone' /\ OncePerRequest'
  BY <1>1, QuietHook
<1>4. Vouched' /\ Remembered' \in Signatures \cup {NoSig}
  BY VouchedKept
<1>5. TypeOK'
  BY <1>2, <1>3, <1>4, TypesKept DEF HInv, TypeOK
<1> QED
  BY <1>2, <1>3, <1>4, <1>5 DEF HInv

LEMMA StartStep ==
  ASSUME HInv, NEW h \in Hooks, NEW e \in Events, Start(h, e)
  PROVE  HInv'
<1> DEFINE at == IF e.form = "json" THEN "failed" ELSE "sign"
<1>1. /\ pc[h] = "idle" /\ pc' = [pc EXCEPT ![h] = at]
      /\ run' = [run EXCEPT ![h] = Knowing(e)]
      /\ UNCHANGED <<ledger, heartbeat, cand, lock, edits, moved, repaired, turns>>
  BY DEF Start, Goto, Aside
<1>2. KnowsOf(at, Knowing(e), h \in moved)
  BY NothingShown DEF KnowsOf, Knowing, Shaped
<1>3. at \in {"failed", "sign"} /\ turns' \in 0 .. MaxTurns
  BY <1>1 DEF HInv, TypeOK
<1> HIDE DEF at
<1> QED
  BY <1>1, <1>2, <1>3, RunSet, QuietStep DEF HInv, Steps, Capturing, Early

(* A hook that only moves on.                                              *)
LEMMA GoOn ==
  ASSUME HInv, NEW h \in Hooks, NEW at \in Steps \ (Capturing \cup {"idle"}),
         pc[h] \notin Capturing \cup {"idle"}, at \in Early => pc[h] \in Early,
         pc' = [pc EXCEPT ![h] = at], run' = run,
         KnowsOf(at, run[h], h \in moved),
         UNCHANGED <<ledger, heartbeat, cand, lock, edits, moved, repaired>>,
         turns' \in 0 .. MaxTurns
  PROVE  HInv'
<1>1. RunsKnow' /\ LedgersDated' /\ pc' \in [Hooks -> Steps]
  BY RunStep DEF HInv, RunsKnow
<1>2. LockOwner' /\ CandWhere' /\ Alone' /\ OncePerRequest'
  BY QuietHook
<1>3. Vouched' /\ Remembered' \in Signatures \cup {NoSig}
  BY VouchedKept
<1>4. TypeOK'
  BY <1>1, <1>2, <1>3, TypesKept DEF HInv, TypeOK
<1> QED
  BY <1>1, <1>2, <1>3, <1>4 DEF HInv

LEMMA SignStep ==
  ASSUME HInv, NEW h \in Hooks, Sign(h)
  PROVE  HInv'
<1> DEFINE e == run[h].event
<1>1. /\ pc[h] = "sign"
      /\ UNCHANGED <<ledger, heartbeat, cand, lock, edits, moved, repaired, turns>>
  BY DEF Sign, Aside
<1>2. KnowsOf("sign", run[h], h \in moved) /\ turns' \in 0 .. MaxTurns
  BY <1>1 DEF HInv, RunsKnow, TypeOK
<1>3. CASE "global" \in Found(e)
  <2> DEFINE r == [run[h] EXCEPT !.sig = Signature(e)]
  <2>1. pc' = [pc EXCEPT ![h] = "compare"] /\ run' = [run EXCEPT ![h] = r]
    BY <1>3 DEF Sign, Goto
  <2>2. /\ Signature(e) \in Signatures /\ Dated(Signature(e)) /\ Signature(e) # NoSig
    BY <1>2, SignatureTyped DEF HInv, KnowsOf
  <2>3. Shown(r)
    BY <1>2, ShownAlike DEF KnowsOf, Shaped
  <2>4. r.event = e /\ KnowsOf("compare", r, h \in moved)
    BY <1>2, <2>2, <2>3 DEF KnowsOf, Shaped
  <2> HIDE DEF r
  <2> QED
    BY <1>1, <1>2, <2>1, <2>4, RunSet, QuietStep DEF HInv, Steps, Capturing, Early
<1>4. CASE "global" \notin Found(e)
  <2>1. pc' = [pc EXCEPT ![h] = "failed"] /\ run' = run
    BY <1>4 DEF Sign, Goto
  <2>2. KnowsOf("failed", run[h], h \in moved)
    BY <1>2 DEF KnowsOf
  <2> QED
    BY <1>1, <1>2, <2>1, <2>2, GoOn DEF Steps, Capturing, Early
<1> QED
  BY <1>3, <1>4

(* A signature that the heartbeat has too stands for valid ledgers.        *)
LEMMA CompareStep ==
  ASSUME HInv, NEW h \in Hooks, Compare(h)
  PROVE  HInv'
<1>1. /\ pc[h] = "compare" /\ run' = run
      /\ pc' = [pc EXCEPT ![h] = IF run[h].sig = Remembered THEN "load" ELSE "validate"]
      /\ UNCHANGED <<ledger, heartbeat, cand, lock, edits, moved, repaired, turns>>
  BY DEF Compare, Aside, Goto
<1>2. KnowsOf("compare", run[h], h \in moved) /\ turns' \in 0 .. MaxTurns
  BY <1>1 DEF HInv, RunsKnow, TypeOK
<1>3. CASE run[h].sig = Remembered
  <2>1. KnowsOf("load", run[h], h \in moved)
    BY <1>2, <1>3 DEF HInv, Vouched, KnowsOf
  <2> QED
    BY <1>1, <1>2, <1>3, <2>1, GoOn DEF Steps, Capturing, Early
<1>4. CASE run[h].sig # Remembered
  <2>1. KnowsOf("validate", run[h], h \in moved)
    BY <1>2 DEF KnowsOf
  <2> QED
    BY <1>1, <1>2, <1>4, <2>1, GoOn DEF Steps, Capturing, Early
<1> QED
  BY <1>3, <1>4

LEMMA ValidateStep ==
  ASSUME HInv, NEW h \in Hooks, Validate(h)
  PROVE  HInv'
<1>1. /\ pc[h] = "validate"
      /\ UNCHANGED <<ledger, heartbeat, cand, lock, edits, moved, repaired, turns>>
  BY DEF Validate, Aside
<1>2. KnowsOf("validate", run[h], h \in moved) /\ turns' \in 0 .. MaxTurns
  BY <1>1 DEF HInv, RunsKnow, TypeOK
<1>3. CASE Valid(DOMAIN run[h].sig)
  <2>1. pc' = [pc EXCEPT ![h] = "load"] /\ run' = run
    BY <1>3 DEF Validate, Goto
  <2>2. KnowsOf("load", run[h], h \in moved)
    BY <1>2, <1>3 DEF KnowsOf, Stands, Valid
  <2> QED
    BY <1>1, <1>2, <2>1, <2>2, GoOn DEF Steps, Capturing, Early
<1>4. CASE ~Valid(DOMAIN run[h].sig)
  <2> DEFINE r == [run[h] EXCEPT !.sig = NoSig]
  <2>1. pc' = [pc EXCEPT ![h] = "failed"] /\ run' = [run EXCEPT ![h] = r]
    BY <1>4 DEF Validate, Goto
  <2>2. Shown(r)
    BY <1>2, ShownAlike DEF KnowsOf, Shaped
  <2>3. r.event = run[h].event /\ KnowsOf("failed", r, h \in moved)
    BY <1>2, <2>2 DEF KnowsOf, Shaped
  <2> HIDE DEF r
  <2> QED
    BY <1>1, <1>2, <2>1, <2>3, RunSet, QuietStep DEF HInv, Steps, Capturing, Early
<1> QED
  BY <1>3, <1>4

(* A hook during which no ledger moved reads what its signature stands     *)
(* for.                                                                    *)
LEMMA LoadStep ==
  ASSUME HInv, NEW h \in Hooks, Load(h)
  PROVE  HInv'
<1> DEFINE e == run[h].event
           at == IF Captures(e) THEN "capture" ELSE "record"
<1>1. /\ pc[h] = "load"
      /\ UNCHANGED <<ledger, heartbeat, cand, lock, edits, moved, repaired, turns>>
  BY DEF Load, Aside
<1>2. KnowsOf("load", run[h], h \in moved) /\ turns' \in 0 .. MaxTurns
  BY <1>1 DEF HInv, RunsKnow, TypeOK
<1>3. CASE Readable(e) /\ e.form # "event"
  <2>1. PICK seen : /\ run' = [run EXCEPT ![h].read = LessonsOf(e),
                                         ![h].sound = Valid(Found(e)),
                                         ![h].printed = seen]
                   /\ seen \in {<<>>, Render(MatchLessons(LessonsOf(e), Query(e)))}
    BY <1>3 DEF Load
  <2>2. pc' = [pc EXCEPT ![h] = at]
    BY <1>3 DEF Load, Goto
  <2> DEFINE r == [event |-> e, sig |-> run[h].sig, read |-> LessonsOf(e),
                   sound |-> Valid(Found(e)), printed |-> seen, warned |-> run[h].warned]
  <2>3. /\ DOMAIN run' = Hooks /\ run'[h] = r
        /\ \A g \in Hooks : g # h => run'[g] = run[g]
    BY <1>2, <2>1 DEF KnowsOf, Shaped, HInv, RunsKnow
  <2>4. Found(e) \subseteq Present /\ DOMAIN Signature(e) = Found(e)
    BY <1>2, SignatureTyped DEF HInv, KnowsOf, Found
  <2>5. h \notin moved => Valid(Found(e))
    BY <1>2, <2>4 DEF KnowsOf, Stands, Valid, Signature
  <2>6. Orderly(LessonsOf(e))
    BY LessonsOrderly DEF HInv
  <2>7. Shown(r)
    BY <2>1, <2>6 DEF Shown
  <2>8. KnowsOf(at, r, h \in moved)
    BY <1>2, <2>5, <2>7 DEF KnowsOf, Shaped, Valid
  <2>9. at \in {"capture", "record"} /\ r.event = run[h].event
    OBVIOUS
  <2> HIDE DEF r, at
  <2> QED
    BY <1>1, <1>2, <2>2, <2>3, <2>8, <2>9, QuietStep DEF Steps, Capturing, Early
<1>4. CASE ~(Readable(e) /\ e.form # "event")
  <2>1. pc' = [pc EXCEPT ![h] = "failed"] /\ run' = run
    BY <1>4 DEF Load, Goto
  <2>2. KnowsOf("failed", run[h], h \in moved)
    BY <1>2 DEF KnowsOf
  <2> QED
    BY <1>1, <1>2, <2>1, <2>2, GoOn DEF Steps, Capturing, Early
<1> QED
  BY <1>3, <1>4

-----------------------------------------------------------------------------
(* Automatic capture.                                                      *)

(* A warning changes one field.                                            *)
LEMMA WarnedShape ==
  ASSUME NEW q, NEW w, Shaped(q)
  PROVE  LET r == [q EXCEPT !.warned = w] IN
         /\ Shaped(r) /\ r.event = q.event /\ r.sig = q.sig
         /\ r.sound = q.sound /\ r.warned = w
         /\ r.read = q.read /\ r.printed = q.printed
<1>1. q \in [event : {q.event}, sig : {q.sig}, read : {q.read}, sound : {q.sound},
            printed : {q.printed}, warned : {q.warned}]
  BY DEF Shaped
<1>2. [q EXCEPT !.warned = w]
         \in [event : {q.event}, sig : {q.sig}, read : {q.read}, sound : {q.sound},
              printed : {q.printed}, warned : {w}]
  BY <1>1
<1> DEFINE r == [q EXCEPT !.warned = w]
<1> HIDE DEF r
<1>3. r = [event |-> r.event, sig |-> r.sig, read |-> r.read, sound |-> r.sound,
           printed |-> r.printed, warned |-> r.warned]
  BY <1>2 DEF r
<1>4. /\ r.event = q.event /\ r.sig = q.sig /\ r.sound = q.sound /\ r.warned = w
      /\ r.read = q.read /\ r.printed = q.printed
  BY <1>2 DEF r
<1> QED
  BY <1>3, <1>4 DEF Shaped, r

(* A capture finds nothing out but that it must warn.                      *)
MayWarn(h) == run' = run \/ run' = [run EXCEPT ![h].warned = TRUE]

(* The steps of a capture: what the hook knows does not grow, and nobody   *)
(* else moves.                                                             *)
LEMMA CaptureRuns ==
  ASSUME HInv, NEW h \in Hooks, pc[h] \in {"capture", "scan", "create", "write"},
         NEW at \in Capturing \cup {"record"}, Goto(h, at),
         MayWarn(h),
         UNCHANGED <<ledger, heartbeat, edits, moved>>
  PROVE  /\ RunsKnow' /\ LedgersDated' /\ pc' \in [Hooks -> Steps]
         /\ Vouched' /\ Remembered' \in Signatures \cup {NoSig}
         /\ \A g \in Hooks : run'[g].event = run[g].event
         /\ pc'[h] = at /\ \A g \in Hooks : g # h => pc'[g] = pc[g] /\ run'[g] = run[g]
<1>1. KnowsOf(pc[h], run[h], h \in moved) /\ pc' = [pc EXCEPT ![h] = at]
  BY DEF HInv, RunsKnow, Goto
<1>2. /\ KnowsOf(at, run[h], h \in moved) /\ at \in Steps \ {"idle"}
      /\ at \notin {"compare", "validate", "load"}
  BY <1>1 DEF KnowsOf, Capturing, Steps
<1> DEFINE r == [run[h] EXCEPT !.warned = TRUE]
<1>3. r.event = run[h].event /\ KnowsOf(at, r, h \in moved)
  <2>1. Shaped(run[h])
    BY <1>2 DEF KnowsOf
  <2>2. /\ Shaped(r) /\ r.event = run[h].event /\ r.sig = run[h].sig
        /\ r.sound = run[h].sound /\ r.warned = TRUE
        /\ r.read = run[h].read /\ r.printed = run[h].printed
    BY <2>1, WarnedShape
  <2> HIDE DEF r
  <2>3. Shown(r)
    BY <1>2, <2>2, ShownAlike DEF KnowsOf
  <2> QED
    BY <1>2, <2>2, <2>3 DEF KnowsOf
<1>4. run' = run \/ run' = [run EXCEPT ![h] = r]
  BY DEF MayWarn
<1> HIDE DEF r
<1>5. /\ DOMAIN run' = Hooks /\ run'[h] \in {run[h], r}
      /\ \A g \in Hooks : g # h => run'[g] = run[g]
  BY <1>4 DEF HInv, RunsKnow
<1>6. KnowsOf(at, run'[h], h \in moved')
  BY <1>2, <1>3, <1>5
<1>7. RunsKnow' /\ LedgersDated' /\ pc' \in [Hooks -> Steps]
  BY <1>1, <1>2, <1>5, <1>6, RunStep
<1>8. Vouched' /\ Remembered' \in Signatures \cup {NoSig}
  BY VouchedKept
<1>9. pc'[h] = at /\ \A g \in Hooks : g # h => pc'[g] = pc[g]
  BY <1>1 DEF HInv, TypeOK
<1> QED
  BY <1>3, <1>5, <1>7, <1>8, <1>9

LEMMA TryLockStep ==
  ASSUME HInv, NEW h \in Hooks, TryLock(h)
  PROVE  HInv'
<1>1. /\ pc[h] = "capture"
      /\ UNCHANGED <<ledger, heartbeat, cand, edits, moved, repaired, turns>>
      /\ \/ /\ Goto(h, "record") /\ lock' = lock
            /\ MayWarn(h)
         \/ Goto(h, "scan") /\ lock = Free /\ lock' = h /\ MayWarn(h)
  BY DEF MayWarn, TryLock, GiveUp, Skip, Aside
<1>2. PICK at \in {"scan", "record"} :
         /\ Goto(h, at) /\ MayWarn(h)
         /\ \/ at = "record" /\ lock' = lock
            \/ at = "scan" /\ lock = Free /\ lock' = h
  BY <1>1
<1>3. at \in Capturing \cup {"record"}
  BY DEF Capturing
<1>4. /\ RunsKnow' /\ LedgersDated' /\ pc' \in [Hooks -> Steps]
      /\ Vouched' /\ Remembered' \in Signatures \cup {NoSig}
      /\ \A g \in Hooks : run'[g].event = run[g].event
      /\ pc'[h] = at /\ \A g \in Hooks : g # h => pc'[g] = pc[g] /\ run'[g] = run[g]
  BY <1>1, <1>2, <1>3, CaptureRuns
<1>5. LockOwner'
  BY <1>1, <1>2, <1>4, ConstantsOK DEF HInv, LockOwner, Capturing
<1>6. CandWhere'
  BY <1>1, <1>2, <1>4 DEF HInv, CandWhere, Early
<1>7. Alone' /\ OncePerRequest'
  <2>1. Scanned' = Scanned
    BY <1>1 DEF Scanned
  <2>2. \A g \in Hooks : pc'[g] \in {"create", "write"} => pc[g] \in {"create", "write"}
    BY <1>2, <1>4
  <2> QED
    BY <1>1, <1>4, <2>1, <2>2, NothingKept
<1>8. TypeOK'
  BY <1>1, <1>2, <1>4, <1>5, TypesKept DEF HInv, TypeOK
<1> QED
  BY <1>4, <1>5, <1>6, <1>7, <1>8 DEF HInv

(* A scan that finds neither the request nor a file with two names looked  *)
(* at every candidate there is.                                            *)
LEMMA ScanStep ==
  ASSUME HInv, NEW h \in Hooks, Scan(h)
  PROVE  HInv'
<1>1. /\ pc[h] = "scan" /\ lock = h
      /\ UNCHANGED <<ledger, heartbeat, cand, edits, moved, repaired, turns>>
  BY DEF Scan, Aside, HInv, LockOwner, Capturing
<1>2. PICK at \in {"create", "record"} :
         /\ Goto(h, at) /\ MayWarn(h)
         /\ \/ at = "record" /\ lock' = Free
            \/ /\ at = "create" /\ lock' = lock
               /\ Linked = {} /\ KeptBy(run[h].event.request) = {}
  BY <1>1 DEF MayWarn, Scan, GiveUp, Skip, Unlock
<1>3. at \in Capturing \cup {"record"}
  BY DEF Capturing
<1>4. /\ RunsKnow' /\ LedgersDated' /\ pc' \in [Hooks -> Steps]
      /\ Vouched' /\ Remembered' \in Signatures \cup {NoSig}
      /\ \A g \in Hooks : run'[g].event = run[g].event
      /\ pc'[h] = at /\ \A g \in Hooks : g # h => pc'[g] = pc[g] /\ run'[g] = run[g]
  BY <1>1, <1>2, <1>3, CaptureRuns
<1>5. LockOwner'
  BY <1>1, <1>2, <1>4, ConstantsOK DEF HInv, LockOwner, Capturing
<1>6. CandWhere'
  BY <1>1, <1>2, <1>4 DEF HInv, CandWhere, Early
<1>7. Scanned' = Scanned /\ \A g \in Scanned : g \in Hooks
  BY <1>1 DEF Scanned
<1>8. Alone'
  <2>1. ASSUME at = "create", NEW g \in Scanned
        PROVE  ~Repeats(g, h)
    BY <1>2, <2>1 DEF KeptBy, Repeats
  <2>2. ASSUME NEW k \in Hooks, pc'[k] \in {"create", "write"}, NEW g \in Scanned \ repaired,
               g # k
        PROVE  ~Repeats(g, k)
    <3>1. CASE k = h
      BY <1>4, <2>1, <2>2, <3>1
    <3>2. CASE k # h
      BY <1>4, <2>2, <3>2 DEF HInv, Alone
    <3> QED
      BY <3>1, <3>2
  <2> QED
    BY <1>1, <1>4, <1>7, <2>2 DEF Alone, Repeats
<1>9. OncePerRequest'
  BY <1>1, <1>4, <1>7 DEF HInv, OncePerRequest
<1>10. TypeOK'
  BY <1>1, <1>2, <1>4, <1>5, TypesKept DEF HInv, TypeOK
<1> QED
  BY <1>4, <1>5, <1>6, <1>8, <1>9, <1>10 DEF HInv

LEMMA CreateStep ==
  ASSUME HInv, NEW h \in Hooks, Create(h)
  PROVE  HInv'
<1>1. /\ pc[h] = "create" /\ lock = h /\ Goto(h, "write") /\ run' = run
      /\ cand' = [cand EXCEPT ![h].place = {"inbox"}]
      /\ UNCHANGED <<ledger, heartbeat, lock, edits, moved, repaired, turns>>
  BY DEF Create, Aside, HInv, LockOwner, Capturing
<1>2. /\ RunsKnow' /\ LedgersDated' /\ pc' \in [Hooks -> Steps]
      /\ Vouched' /\ Remembered' \in Signatures \cup {NoSig}
      /\ pc'[h] = "write" /\ \A g \in Hooks : g # h => pc'[g] = pc[g] /\ run'[g] = run[g]
  BY <1>1, CaptureRuns DEF Capturing, MayWarn
<1>3. /\ cand' \in [Hooks -> [place : SUBSET Places, whole : BOOLEAN]]
      /\ cand'[h].place = {"inbox"} /\ ~cand'[h].whole
      /\ \A g \in Hooks : g # h => cand'[g] = cand[g]
  BY <1>1 DEF HInv, TypeOK, CandWhere, Early, Places
<1>4. LockOwner'
  BY <1>1, <1>2 DEF HInv, LockOwner, Capturing
<1>5. CandWhere'
  BY <1>2, <1>3 DEF HInv, CandWhere, Early
<1>6. Alone' /\ OncePerRequest'
  <2>1. \A g \in Hooks : g \in Scanned' /\ cand'[g].whole => g \in Scanned /\ cand[g].whole
    BY <1>3 DEF Scanned
  <2>2. \A g \in Hooks : pc'[g] \in {"create", "write"} => pc[g] \in {"create", "write"}
    BY <1>1, <1>2
  <2> QED
    BY <1>1, <2>1, <2>2, NothingKept
<1>7. TypeOK'
  BY <1>1, <1>2, <1>3, <1>4, TypesKept DEF HInv, TypeOK
<1> QED
  BY <1>2, <1>4, <1>5, <1>6, <1>7 DEF HInv

(* The one step that keeps a request.                                      *)
LEMMA WriteStep ==
  ASSUME HInv, NEW h \in Hooks, Write(h)
  PROVE  HInv'
<1>1. /\ pc[h] = "write" /\ lock = h /\ lock' = Free /\ Goto(h, "record") /\ run' = run
      /\ cand' = [cand EXCEPT ![h].whole = TRUE]
      /\ UNCHANGED <<ledger, heartbeat, edits, moved, repaired, turns>>
  BY DEF Write, Unlock, Aside, HInv, LockOwner, Capturing
<1>2. /\ RunsKnow' /\ LedgersDated' /\ pc' \in [Hooks -> Steps]
      /\ Vouched' /\ Remembered' \in Signatures \cup {NoSig}
      /\ pc'[h] = "record" /\ \A g \in Hooks : g # h => pc'[g] = pc[g] /\ run'[g] = run[g]
  BY <1>1, CaptureRuns DEF MayWarn
<1>3. /\ cand' \in [Hooks -> [place : SUBSET Places, whole : BOOLEAN]]
      /\ \A g \in Hooks : g # h => cand'[g] = cand[g]
      /\ \A g \in Hooks : cand'[g].place = cand[g].place
  BY <1>1 DEF HInv, TypeOK
<1>4. \A g \in Hooks : g # h => pc[g] \notin Capturing
  BY <1>1 DEF HInv, LockOwner
<1>5. LockOwner'
  BY <1>1, <1>2, <1>4, ConstantsOK DEF LockOwner, Capturing
<1>6. CandWhere'
  BY <1>2, <1>3 DEF HInv, CandWhere, Early
<1>7. Scanned' = Scanned /\ \A g \in Scanned : g \in Hooks
  BY <1>3 DEF Scanned
<1>8. Alone'
  BY <1>2, <1>4 DEF Alone, Capturing
<1>9. OncePerRequest'
  <2>1. \A g \in Scanned \ repaired : g # h => ~Repeats(g, h)
    BY <1>1 DEF HInv, Alone
  <2> QED
    BY <1>1, <1>3, <1>7, <2>1 DEF HInv, OncePerRequest, Repeats
<1>10. TypeOK'
  BY <1>1, <1>2, <1>3, <1>5, TypesKept DEF HInv, TypeOK
<1> QED
  BY <1>2, <1>5, <1>6, <1>8, <1>9, <1>10 DEF HInv

LEMMA CaptureFailsStep ==
  ASSUME HInv, NEW h \in Hooks, CaptureFails(h)
  PROVE  HInv'
<1>1. /\ pc[h] \in {"capture", "scan", "create", "write"}
      /\ lock' = (IF lock = h THEN Free ELSE lock) /\ Goto(h, "record") /\ MayWarn(h)
      /\ cand' = [cand EXCEPT ![h].place = {}]
      /\ UNCHANGED <<ledger, heartbeat, edits, moved, repaired>>
  BY DEF CaptureFails, GiveUp, Unlock, Aside, MayWarn
<1>2. /\ RunsKnow' /\ LedgersDated' /\ pc' \in [Hooks -> Steps]
      /\ Vouched' /\ Remembered' \in Signatures \cup {NoSig}
      /\ \A g \in Hooks : run'[g].event = run[g].event
      /\ pc'[h] = "record" /\ \A g \in Hooks : g # h => pc'[g] = pc[g] /\ run'[g] = run[g]
  BY <1>1, CaptureRuns
<1>3. /\ cand' \in [Hooks -> [place : SUBSET Places, whole : BOOLEAN]]
      /\ cand'[h].place = {}
      /\ \A g \in Hooks : g # h => cand'[g] = cand[g]
  BY <1>1 DEF HInv, TypeOK
<1>4. LockOwner'
  BY <1>1, <1>2, ConstantsOK DEF HInv, LockOwner, Capturing
<1>5. CandWhere'
  BY <1>2, <1>3 DEF HInv, CandWhere, Early
<1>6. Alone' /\ OncePerRequest'
  <2>1. \A g \in Hooks : g \in Scanned' /\ cand'[g].whole => g \in Scanned /\ cand[g].whole
    BY <1>3 DEF Scanned
  <2>2. \A g \in Hooks : pc'[g] \in {"create", "write"} => pc[g] \in {"create", "write"}
    BY <1>2
  <2> QED
    BY <1>1, <1>2, <2>1, <2>2, NothingKept
<1>7. turns' \in 0 .. MaxTurns /\ lock' \in Hooks \cup {Free, User}
  BY <1>1, ConstantsOK DEF CaptureFails, Turn, HInv, TypeOK
<1>8. TypeOK'
  BY <1>1, <1>2, <1>3, <1>4, <1>7, TypesKept DEF HInv, TypeOK
<1> QED
  BY <1>2, <1>4, <1>5, <1>6, <1>8 DEF HInv

-----------------------------------------------------------------------------
(* The end of a hook.                                                      *)
LEMMA EndRuns ==
  ASSUME HInv, NEW h \in Hooks, pc[h] # "idle", End(h), UNCHANGED <<ledger, edits>>
  PROVE  /\ RunsKnow' /\ LedgersDated' /\ pc' \in [Hooks -> Steps]
         /\ \A g \in Hooks : pc[g] # "idle" => run'[g].event = run[g].event
         /\ pc'[h] = "done" /\ \A g \in Hooks : g # h => pc'[g] = pc[g]
         /\ moved' \subseteq Hooks
<1>1. /\ pc' = [pc EXCEPT ![h] = "done"] /\ moved' = moved \ {h}
      /\ run' = [run EXCEPT ![h] = Knowing(run[h].event)]
  BY DEF End, Goto, HInv, RunsKnow
<1>2. KnowsOf(pc[h], run[h], h \in moved)
  BY DEF HInv, RunsKnow
<1> DEFINE r == Knowing(run[h].event)
<1>3. r.event = run[h].event /\ KnowsOf("done", r, h \in moved')
  BY <1>2, NothingShown DEF KnowsOf, Knowing, Shaped
<1> HIDE DEF r
<1>4. /\ DOMAIN run' = Hooks /\ run'[h] = r
      /\ \A g \in Hooks : g # h => run'[g] = run[g]
  BY <1>1, RunSet DEF HInv, r
<1>5. \A g \in Hooks : g # h => (g \in moved' <=> g \in moved)
  BY <1>1
<1>6. RunsKnow' /\ LedgersDated' /\ pc' \in [Hooks -> Steps]
  BY <1>1, <1>3, <1>4, <1>5, RunStep DEF Steps
<1>7. pc'[h] = "done" /\ \A g \in Hooks : g # h => pc'[g] = pc[g]
  BY <1>1 DEF HInv, TypeOK
<1> QED
  BY <1>1, <1>3, <1>4, <1>6, <1>7 DEF HInv, TypeOK

(* The heartbeat gets a signature that stands for valid ledgers, or none.  *)
LEMMA RecordStep ==
  ASSUME HInv, NEW h \in Hooks, Record(h)
  PROVE  HInv'
<1>1. /\ pc[h] \in {"record", "failed"} /\ End(h)
      /\ UNCHANGED <<ledger, edits, cand, lock, repaired>>
  BY DEF Record, Aside
<1>2. /\ RunsKnow' /\ LedgersDated' /\ pc' \in [Hooks -> Steps]
      /\ \A g \in Hooks : pc[g] # "idle" => run'[g].event = run[g].event
      /\ pc'[h] = "done" /\ \A g \in Hooks : g # h => pc'[g] = pc[g]
      /\ moved' \subseteq Hooks
  BY <1>1, EndRuns
<1>3. pc' = [pc EXCEPT ![h] = "done"]
  BY <1>1 DEF End, Goto
<1>4. LockOwner' /\ CandWhere' /\ Alone' /\ OncePerRequest'
  BY <1>1, <1>2, <1>3, QuietHook DEF Steps, Capturing, Early
<1>5. KnowsOf(pc[h], run[h], h \in moved)
  BY <1>1 DEF HInv, RunsKnow
<1>6. Vouched' /\ Remembered' \in Signatures \cup {NoSig}
  <2>1. CASE UNCHANGED heartbeat
    BY <1>1, <2>1, VouchedKept
  <2>2. CASE heartbeat' = [sig |-> run[h].sig,
                           status |-> IF pc[h] = "record" THEN "pass" ELSE "warning"]
    <3>1. Remembered' \in {NoSig, run[h].sig}
      BY <2>2 DEF Remembered
    <3>2. run[h].sig # NoSig => Stands(run[h].sig) /\ Dated(run[h].sig)
      BY <1>1, <1>5 DEF KnowsOf
    <3>3. \A sig : (Stands(sig) /\ Dated(sig)) => (Stands(sig) /\ Dated(sig))'
      BY <1>1 DEF Stands, Dated, Present
    <3> QED
      BY <1>5, <3>1, <3>2, <3>3 DEF KnowsOf, Vouched, Stands, Dated
  <2> QED
    BY <2>1, <2>2 DEF Record
<1>7. turns' \in 0 .. MaxTurns
  BY ConstantsOK DEF Record, Turn, HInv, TypeOK
<1>8. TypeOK'
  BY <1>1, <1>2, <1>4, <1>6, <1>7, TypesKept DEF HInv, TypeOK
<1> QED
  BY <1>2, <1>4, <1>6, <1>8 DEF HInv

LEMMA KillStep ==
  ASSUME HInv, NEW h \in Hooks, Kill(h)
  PROVE  HInv'
<1>1. /\ pc[h] # "idle" /\ End(h) /\ lock' = (IF lock = h THEN Free ELSE lock)
      /\ UNCHANGED <<ledger, edits, heartbeat, cand, repaired>>
  BY DEF Kill, Unlock, Aside
<1>2. /\ RunsKnow' /\ LedgersDated' /\ pc' \in [Hooks -> Steps]
      /\ \A g \in Hooks : pc[g] # "idle" => run'[g].event = run[g].event
      /\ pc'[h] = "done" /\ \A g \in Hooks : g # h => pc'[g] = pc[g]
      /\ moved' \subseteq Hooks
  BY <1>1, EndRuns
<1>3. LockOwner'
  BY <1>1, <1>2, ConstantsOK DEF HInv, LockOwner, Capturing
<1>4. CandWhere'
  BY <1>1, <1>2 DEF HInv, CandWhere, Early
<1>5. Alone' /\ OncePerRequest'
  <2>1. Scanned' = Scanned
    BY <1>1 DEF Scanned
  <2>2. \A g \in Hooks : pc'[g] \in {"create", "write"} => pc[g] \in {"create", "write"}
    BY <1>2
  <2> QED
    BY <1>1, <1>2, <2>1, <2>2, NothingKept
<1>6. Vouched' /\ Remembered' \in Signatures \cup {NoSig}
  BY <1>1, VouchedKept
<1>7. turns' \in 0 .. MaxTurns /\ lock' \in Hooks \cup {Free, User}
  BY <1>1, ConstantsOK DEF Kill, Turn, HInv, TypeOK
<1>8. TypeOK'
  BY <1>1, <1>2, <1>3, <1>6, <1>7, TypesKept DEF HInv, TypeOK
<1> QED
  BY <1>2, <1>3, <1>4, <1>5, <1>6, <1>8 DEF HInv

-----------------------------------------------------------------------------
(* What others do.                                                         *)

(* A ledger that changes while a hook runs shows in its version, or after  *)
(* the hook has read it.                                                   *)
LEMMA EditStep ==
  ASSUME HInv, NEW s \in Sources, NEW t \in Texts[s] \cup {Absent}, Edit(s, t)
  PROVE  HInv'
<1>1. /\ edits < MaxEdits /\ edits' = edits + 1
      /\ ledger' = [ledger EXCEPT ![s] = IF t = Absent THEN Absent
                                        ELSE [version |-> edits + 1, text |-> t]]
      /\ moved' = moved \cup {h \in Hooks : pc[h] \in {"compare", "validate", "load"}}
      /\ UNCHANGED <<heartbeat, pc, run, cand, lock, turns, repaired>>
  BY DEF Edit, Unseen
<1>2. edits \in Nat /\ edits' \in 0 .. MaxEdits
  BY <1>1, ConstantsOK DEF HInv, TypeOK
<1>3. \A sig \in Signatures : Stands(sig) /\ Dated(sig) => Stands(sig)' /\ Dated(sig)'
  BY EditStands DEF HInv
<1>4. \A sig \in Signatures : Dated(sig) => Dated(sig)'
  <2> SUFFICES ASSUME NEW sig \in Signatures, Dated(sig), NEW u \in DOMAIN sig
               PROVE  sig[u] <= edits'
    BY DEF Dated
  <2>1. sig[u] \in Nat /\ sig[u] <= edits
    BY ConstantsOK DEF Signatures, Dated
  <2> QED
    BY <1>1, <1>2, <2>1
<1>5. DOMAIN ledger' = Sources
      /\ \A u \in Present' : ledger'[u] \in [version : 0 .. MaxEdits, text : Texts[u]]
  <2>1. ASSUME NEW u \in Present', u # s
        PROVE  ledger'[u] = ledger[u] /\ u \in Present
    BY <1>1, <2>1 DEF HInv, TypeOK, Present
  <2>2. s \in Present' => ledger'[s] = [version |-> edits + 1, text |-> t] /\ t \in Texts[s]
    BY <1>1 DEF HInv, TypeOK, Present
  <2> QED
    BY <1>1, <1>2, <2>1, <2>2 DEF HInv, TypeOK
<1>6. LedgersDated'
  <2>1. ASSUME NEW u \in Present', u # s
        PROVE  ledger'[u].version <= edits'
    <3>1. ledger'[u] = ledger[u] /\ u \in Present
      BY <1>1, <2>1 DEF HInv, TypeOK, Present
    <3>2. ledger[u].version \in Nat /\ ledger[u].version <= edits
      BY <3>1, ConstantsOK DEF HInv, TypeOK, LedgersDated
    <3> QED
      BY <1>1, <1>2, <3>1, <3>2
  <2>2. s \in Present' => ledger'[s].version = edits + 1
    BY <1>1 DEF HInv, TypeOK, Present
  <2> QED
    BY <1>1, <1>2, <2>1, <2>2 DEF LedgersDated
<1>7. Vouched'
  <2>1. Remembered' = Remembered
    BY <1>1 DEF Remembered
  <2>2. Remembered # NoSig => Remembered \in Signatures /\ Stands(Remembered) /\ Dated(Remembered)
    BY DEF HInv, TypeOK, Vouched
  <2> HIDE DEF Remembered
  <2> QED
    BY <1>3, <2>1, <2>2 DEF Vouched, Stands, Dated
<1>8. RunsKnow'
  <2> SUFFICES ASSUME NEW h \in Hooks, pc[h] # "idle"
               PROVE  KnowsOf(pc[h], run[h], h \in moved)'
    BY <1>1 DEF HInv, RunsKnow
  <2>1. KnowsOf(pc[h], run[h], h \in moved)
    BY DEF HInv, RunsKnow
  <2>2. PICK r : r = run[h] /\ r = run'[h]
    BY <1>1
  <2>3. /\ Shaped(r) /\ r.event \in Events
        /\ r.sig \in Signatures \cup {NoSig} /\ r.sound \in BOOLEAN /\ r.warned \in BOOLEAN
        /\ r.sig # NoSig => Dated(r.sig)
        /\ pc[h] \in {"compare", "validate", "load"} => r.sig # NoSig
        /\ r.sig # NoSig /\ pc[h] \notin {"compare", "validate"} => Stands(r.sig)
        /\ h \notin moved => r.sound
        /\ Shown(r)
    BY <2>1, <2>2 DEF KnowsOf
  <2>4. /\ pc' = pc
        /\ h \notin moved' => h \notin moved /\ pc[h] \notin {"compare", "validate", "load"}
    BY <1>1
  <2>5. r.sig # NoSig => Dated(r.sig)'
    BY <1>4, <2>3
  <2>6. r.sig # NoSig /\ pc[h] \notin {"compare", "validate"} => Stands(r.sig)'
    BY <1>3, <2>3
  <2> QED
    BY <2>2, <2>3, <2>4, <2>5, <2>6 DEF KnowsOf
<1>9. LockOwner' /\ CandWhere' /\ Alone' /\ OncePerRequest'
  BY <1>1 DEF HInv, LockOwner, CandWhere, Alone, Repeats, OncePerRequest, Scanned
<1>10. TypeOK'
  <2>1. Remembered' \in Signatures \cup {NoSig}
    BY <1>1 DEF HInv, TypeOK, Remembered
  <2> QED
    BY <1>1, <1>2, <1>5, <2>1 DEF HInv, TypeOK
<1> QED
  BY <1>6, <1>7, <1>8, <1>9, <1>10 DEF HInv

(* The lock in other hands, and what is done to candidates.                *)
LEMMA OutsideStep ==
  ASSUME HInv, UNCHANGED <<ledger, heartbeat, pc, run, edits, moved>>,
         cand' \in [Hooks -> [place : SUBSET Places, whole : BOOLEAN]],
         lock' \in Hooks \cup {Free, User}, turns' \in 0 .. MaxTurns,
         repaired \subseteq repaired', repaired' \subseteq Hooks,
         LockOwner', CandWhere',
         \A g \in Hooks : g \in Scanned' \ repaired' /\ cand'[g].whole
                          => g \in Scanned /\ cand[g].whole
  PROVE  HInv'
<1>1. RunsKnow' /\ LedgersDated'
  BY DEF HInv, RunsKnow, KnowsOf, Stands, Dated, LedgersDated, Present, Signature, Found
<1>2. Vouched' /\ Remembered' \in Signatures \cup {NoSig}
  BY VouchedKept
<1>3. Alone' /\ OncePerRequest'
  BY NothingKept
<1>4. TypeOK'
  BY <1>1, <1>2, TypesKept DEF HInv, TypeOK
<1> QED
  BY <1>1, <1>2, <1>3, <1>4 DEF HInv

LEMMA LockStep ==
  ASSUME HInv, TakeLock \/ ReleaseLock
  PROVE  HInv'
<1>1. /\ UNCHANGED <<ledger, heartbeat, pc, run, edits, moved, cand, turns, repaired>>
      /\ lock \in {Free, User} /\ lock' \in {Free, User}
  BY DEF TakeLock, ReleaseLock, Unseen, Aside
<1>2. LockOwner' /\ CandWhere'
  BY <1>1, ConstantsOK DEF HInv, LockOwner, CandWhere
<1>3. /\ cand' \in [Hooks -> [place : SUBSET Places, whole : BOOLEAN]]
      /\ lock' \in Hooks \cup {Free, User} /\ turns' \in 0 .. MaxTurns
      /\ repaired' \subseteq Hooks /\ Scanned' = Scanned
  BY <1>1 DEF HInv, TypeOK, Scanned
<1> QED
  BY <1>1, <1>2, <1>3, OutsideStep

(* A candidate that a review moves was in the inbox.                       *)
LEMMA ReviewStep ==
  ASSUME HInv, NEW h \in Hooks,
         NEW to \in {{"consumed"}, {"rejected"}, {"inbox", "rejected"}}, Review(h, to)
  PROVE  HInv'
<1>1. /\ UNCHANGED <<ledger, heartbeat, pc, run, edits, moved, repaired>>
      /\ cand[h].whole /\ cand[h].place = {"inbox"}
      /\ cand' = [cand EXCEPT ![h].place = to]
      /\ lock = User /\ lock' \in {Free, User}
  BY DEF Review, Unseen, Aside
<1>2. pc[h] \notin Early \cup {"write"}
  BY <1>1 DEF HInv, CandWhere
<1>3. /\ cand' \in [Hooks -> [place : SUBSET Places, whole : BOOLEAN]]
      /\ \A g \in Hooks : g # h => cand'[g] = cand[g]
      /\ cand'[h].whole = cand[h].whole
  BY <1>1 DEF HInv, TypeOK, Places
<1>4. LockOwner' /\ CandWhere'
  BY <1>1, <1>2, <1>3, ConstantsOK DEF HInv, LockOwner, CandWhere
<1>5. \A g \in Hooks : g \in Scanned' /\ cand'[g].whole => g \in Scanned /\ cand[g].whole
  BY <1>1, <1>3 DEF Scanned
<1>6. turns' \in 0 .. MaxTurns /\ lock' \in Hooks \cup {Free, User} /\ repaired' \subseteq Hooks
  BY <1>1, ConstantsOK DEF Review, Turn, HInv, TypeOK
<1> QED
  BY <1>1, <1>3, <1>4, <1>5, <1>6, OutsideStep

(* By hand, a candidate that was not kept is only kept when repaired.      *)
LEMMA ByHandStep ==
  ASSUME HInv, NEW h \in Hooks, ByHand(h)
  PROVE  HInv'
<1>1. /\ UNCHANGED <<ledger, heartbeat, pc, run, edits, moved, lock>>
      /\ pc[h] = "done"
  BY DEF ByHand, Unseen, Aside
<1>2. turns' \in 0 .. MaxTurns
  BY ConstantsOK DEF ByHand, Turn, HInv, TypeOK
<1>3. /\ cand' \in [Hooks -> [place : SUBSET Places, whole : BOOLEAN]]
      /\ \A g \in Hooks : g # h => cand'[g] = cand[g]
      /\ repaired \subseteq repaired' /\ repaired' \subseteq Hooks
      /\ h \in repaired' \/ /\ cand'[h].whole => cand[h].whole
                            /\ cand'[h].place \subseteq cand[h].place
  <2>1. cand[h].place \in SUBSET Places
    BY DEF HInv, TypeOK
  <2>2. CASE /\ \E to \in {{}} \cup {{x} : x \in cand[h].place} :
                   cand' = [cand EXCEPT ![h].place = to]
             /\ UNCHANGED repaired
    <3>1. PICK to \in {{}} \cup {{x} : x \in cand[h].place} :
             cand' = [cand EXCEPT ![h].place = to]
      BY <2>2
    <3>2. to \in SUBSET Places /\ to \subseteq cand[h].place
      BY <2>1, <3>1
    <3> QED
      BY <2>2, <3>1, <3>2 DEF HInv, TypeOK
  <2>3. CASE cand' = [cand EXCEPT ![h].whole = FALSE] /\ UNCHANGED repaired
    BY <2>3 DEF HInv, TypeOK
  <2>4. CASE cand' = [cand EXCEPT ![h].whole = TRUE] /\ repaired' = repaired \cup {h}
    BY <2>4 DEF HInv, TypeOK
  <2> QED
    BY <2>2, <2>3, <2>4 DEF ByHand
<1>4. LockOwner' /\ CandWhere'
  BY <1>1, <1>3 DEF HInv, LockOwner, CandWhere, Early
<1>5. \A g \in Hooks : g \in Scanned' \ repaired' /\ cand'[g].whole
                       => g \in Scanned /\ cand[g].whole
  BY <1>3 DEF Scanned
<1>6. lock' \in Hooks \cup {Free, User}
  BY <1>1 DEF HInv, TypeOK
<1> QED
  BY <1>1, <1>2, <1>3, <1>4, <1>5, <1>6, OutsideStep

-----------------------------------------------------------------------------
(* The inductive invariant holds for ever.                                 *)
LEMMA InitInvariant == Init => HInv
<1> SUFFICES ASSUME Init PROVE HInv
  OBVIOUS
<1>1. PICK t \in [Sources -> UNION {Texts[s] : s \in Sources}] :
         /\ \A s \in Sources : t[s] \in Texts[s]
         /\ ledger = [s \in Sources |-> [version |-> 0, text |-> t[s]]]
  BY DEF Init
<1>2. Remembered = NoSig
  BY DEF Init, Remembered
<1>3. TypeOK
  <2>1. DOMAIN ledger = Sources
        /\ \A s \in Present : ledger[s] \in [version : 0 .. MaxEdits, text : Texts[s]]
    BY <1>1, ConstantsOK DEF Present
  <2>2. edits \in 0 .. MaxEdits /\ turns \in 0 .. MaxTurns
    BY ConstantsOK DEF Init
  <2> QED
    BY <1>2, <2>1, <2>2, ConstantsOK DEF Init, TypeOK, Steps
<1>4. LedgersDated
  BY <1>1 DEF LedgersDated, Present, Init
<1>5. Vouched /\ RunsKnow
  BY <1>2 DEF Init, Vouched, RunsKnow
<1>6. LockOwner /\ CandWhere /\ Alone /\ OncePerRequest
  BY ConstantsOK DEF Init, LockOwner, Capturing, CandWhere, Alone, OncePerRequest, Scanned
<1> QED
  BY <1>3, <1>4, <1>5, <1>6 DEF HInv

LEMMA NextInvariant == HInv /\ [Next]_vars => HInv'
<1> SUFFICES ASSUME HInv, [Next]_vars PROVE HInv'
  OBVIOUS
<1>1. CASE \E h \in Hooks, e \in Events : Start(h, e)
  BY <1>1, StartStep
<1>2. CASE \E h \in Hooks : HookStep(h) \/ Kill(h)
  BY <1>2, SignStep, CompareStep, ValidateStep, LoadStep, TryLockStep, ScanStep, CreateStep,
     WriteStep, CaptureFailsStep, RecordStep, KillStep
  DEF HookStep
<1>3. CASE \E s \in Sources : \E t \in Texts[s] \cup {Absent} : Edit(s, t)
  BY <1>3, EditStep
<1>4. CASE TakeLock \/ ReleaseLock
  BY <1>4, LockStep
<1>5. CASE \E h \in Hooks :
             \/ \E to \in {{"consumed"}, {"rejected"}, {"inbox", "rejected"}} : Review(h, to)
             \/ ByHand(h)
  BY <1>5, ReviewStep, ByHandStep
<1>6. CASE UNCHANGED vars
  BY <1>6, OutsideStep DEF vars, HInv, TypeOK, LockOwner, CandWhere, Scanned
<1> QED
  BY <1>1, <1>2, <1>3, <1>4, <1>5, <1>6 DEF Next

THEOREM Invariant == Spec => []HInv
<1> QED
  BY InitInvariant, NextInvariant, PTL DEF Spec

(* Every variable keeps its type, and only a hook that captures holds the  *)
(* lock.                                                                   *)
THEOREM TypeCorrect == Spec => []TypeOK
<1>1. HInv => TypeOK
  BY DEF HInv
<1> QED
  BY Invariant, <1>1, PTL

(* No hook prints lessons of a ledger that the checker refuses, unless the *)
(* ledger was changed while that hook ran: for any number of hooks that    *)
(* share one heartbeat, killed at any step, and any edits of the ledgers.  *)
THEOREM OnlyValidIsPrinted == Spec => []PrintedValid
<1>1. HInv => PrintedValid
  BY DEF HInv, RunsKnow, KnowsOf, PrintedValid
<1> QED
  BY Invariant, <1>1, PTL

(* What a hook printed is the largest set of the lessons that match, none  *)
(* printed before one that precedes it, that fits into the budget with its *)
(* last line: for any ledgers, valid or not, and any budget that holds     *)
(* that line.                                                              *)
THEOREM FirstIsPrinted == Spec => []PrintedFirst
<1>1. ASSUME HInv, NEW h \in Hooks, pc[h] = "record", run[h].printed # <<>>
      PROVE  LET S == Hits(run[h].read, Query(run[h].event))
                 P == ToSet(run[h].printed)
             IN  /\ P \subseteq S /\ Closed(P, S) /\ Size(P, S) <= Budget
                 /\ \A Q \in SUBSET S :
                      Cardinality(Q) > Cardinality(P) /\ Closed(Q, S)
                        => Size(Q, S) > Budget
  <2> DEFINE S == Hits(run[h].read, Query(run[h].event))
             sorted == MatchLessons(run[h].read, Query(run[h].event))
  <2>1. Shown(run[h])
    BY <1>1 DEF HInv, RunsKnow, KnowsOf
  <2>2. Orderly(S) /\ Sorted(sorted, S) /\ run[h].printed = Render(sorted)
    BY <1>1, <2>1, MatchesSorted DEF Shown
  <2> HIDE DEF S, sorted
  <2>3. LET P == ToSet(Render(sorted)) IN
        /\ P \subseteq S /\ Closed(P, S) /\ Size(P, S) <= Budget
        /\ \A Q \in SUBSET S :
             Cardinality(Q) > Cardinality(P) /\ Closed(Q, S) => Size(Q, S) > Budget
    BY <2>2, RenderedFirst
  <2> QED
    BY <2>2, <2>3 DEF S
<1>2. HInv => PrintedFirst
  BY <1>1 DEF PrintedFirst
<1> QED
  BY Invariant, <1>2, PTL

(* A request that answers repeat, in any number of sessions at once, is    *)
(* kept once.                                                              *)
THEOREM KeptOnce == Spec => []OncePerRequest
<1>1. HInv => OncePerRequest
  BY DEF HInv
<1> QED
  BY Invariant, <1>1, PTL

-----------------------------------------------------------------------------
(* What ends a capture.                                                    *)

LEMMA EndsKept ==
  ASSUME HInv, [Next]_vars, NEW h \in Hooks,
         pc[h] \in {"capture", "scan", "create", "write"},
         pc'[h] = "record", Asks(run[h].event), ~run'[h].warned
  PROVE  KeptBy(run[h].event.request)' # {}
<1>1. \A g \in Hooks : /\ pc[g] # "idle"  => Shaped(run[g])
                      /\ DOMAIN run = Hooks
  BY DEF HInv, RunsKnow, KnowsOf
<1>2. ~GiveUp(h)
  <2>1. PICK q : q = run[h] /\ Shaped(q)
    BY <1>1
  <2>2. [q EXCEPT !.warned = TRUE].warned = TRUE
    BY <2>1, WarnedShape
  <2> QED
    BY <1>1, <2>1, <2>2 DEF GiveUp
<1>3. \/ Write(h)
      \/ /\ run' = run /\ cand' = cand /\ KeptBy(run[h].event.request) # {}
  <2>1. ASSUME NEW g \in Hooks, pc' = [pc EXCEPT ![g] = pc'[g]] PROVE g = h
    BY <2>1 DEF HInv, TypeOK
  <2>2. ASSUME pc' = pc PROVE FALSE
    BY <2>2
  <2>3. TryLock(h) => FALSE
    BY <1>2 DEF TryLock, Asks, Goto, HInv, TypeOK, Skip
  <2>4. Scan(h) => run' = run /\ cand' = cand /\ KeptBy(run[h].event.request) # {}
    BY <1>2 DEF Scan, Goto, HInv, TypeOK, Skip
  <2>5. ~CaptureFails(h)
    BY <1>2 DEF CaptureFails
  <2>6. ~Sign(h) /\ ~Compare(h) /\ ~Validate(h) /\ ~Load(h) /\ ~Create(h) /\ ~Record(h)
    BY DEF Sign, Compare, Validate, Load, Create, Record, Goto, HInv, TypeOK
  <2>7. ~Kill(h) /\ \A e \in Events : ~Start(h, e)
    BY DEF Kill, Start, End, Goto, HInv, TypeOK
  <2>8. CASE \E g \in Hooks, e \in Events : Start(g, e)
    BY <2>7, <2>8 DEF Start, Goto, HInv, TypeOK
  <2>9. ASSUME NEW g \in Hooks, g # h, HookStep(g) \/ Kill(g) PROVE pc'[h] = pc[h]
    BY <2>9 DEF HookStep, Sign, Compare, Validate, Load, TryLock, Scan, Create, Write,
                CaptureFails, Record, Kill, End, GiveUp, Skip, Goto, HInv, TypeOK
  <2>10. CASE \E g \in Hooks : HookStep(g) \/ Kill(g)
    BY <2>3, <2>4, <2>5, <2>6, <2>7, <2>9, <2>10 DEF HookStep
  <2>11. CASE \E s \in Sources : \E t \in Texts[s] \cup {Absent} : Edit(s, t)
    BY <2>2, <2>11 DEF Edit, Unseen
  <2>12. CASE TakeLock \/ ReleaseLock
    BY <2>2, <2>12 DEF TakeLock, ReleaseLock, Unseen
  <2>13. CASE \E g \in Hooks :
               \/ \E to \in {{"consumed"}, {"rejected"}, {"inbox", "rejected"}} : Review(g, to)
               \/ ByHand(g)
    BY <2>2, <2>13 DEF Review, ByHand, Unseen
  <2>14. CASE UNCHANGED vars
    BY <2>2, <2>14 DEF vars
  <2> QED
    BY <2>8, <2>10, <2>11, <2>12, <2>13, <2>14 DEF Next
<1>4. CASE Write(h)
  <2>1. cand' = [cand EXCEPT ![h].whole = TRUE] /\ run' = run /\ pc[h] = "write"
    BY <1>4 DEF Write
  <2>2. cand'[h].whole /\ cand'[h].place = {"inbox"}
    BY <2>1 DEF HInv, TypeOK, CandWhere
  <2>3. Cardinality({"inbox"}) = 1
    BY FS_Singleton
  <2>4. h \in Scanned' /\ h \notin Linked'
    BY <2>2, <2>3 DEF Scanned, Linked
  <2> QED
    BY <2>1, <2>2, <2>4 DEF KeptBy
<1>5. CASE run' = run /\ cand' = cand /\ KeptBy(run[h].event.request) # {}
  BY <1>5 DEF KeptBy, Scanned, Linked
<1> QED
  BY <1>3, <1>4, <1>5

(* A capture that ends without a warning has left its request in the inbox *)
(* or found it kept there or among the promoted.                           *)
THEOREM NothingLostInSilence == Spec => SilentMeansKept
<1>1. HInv /\ [Next]_vars =>
        [\A h \in Hooks :
           /\ pc[h] \in {"capture", "scan", "create", "write"}
           /\ pc'[h] = "record" /\ Asks(run[h].event) /\ ~run'[h].warned
           => KeptBy(run[h].event.request)' # {}]_vars
  BY EndsKept
<1> QED
  BY Invariant, <1>1, PTL DEF Spec, SilentMeansKept
=============================================================================
