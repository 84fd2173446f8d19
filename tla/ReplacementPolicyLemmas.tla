----------------------- MODULE ReplacementPolicyLemmas -----------------------
(***************************************************************************)
(* What the operations of the four replacement policies do, for any sets P *)
(* of pages and F of frames: the state each keeps has the shape it relies  *)
(* on (no page and no frame tracked twice, LRU's maps equal to its list,   *)
(* Clock's hand inside its vector), the tracked pairs follow the calls,    *)
(* and a choice names a tracked frame whenever there is one.  A queue that *)
(* is in the order of some relation stays in it when the calls renew the   *)
(* relation as they renew the queue (Ordered, Renews).                     *)
(*                                                                         *)
(* Two operators are loops: Clock's scan and Optimal's comparison of the   *)
(* resident pages, the one a recursive function and the other a fold.      *)
(* What they compute is proved by taking the least number of steps at      *)
(* which it would go wrong (LeastNatural).                                 *)
(***************************************************************************)
EXTENDS ReplacementPolicy, SequencesExt, SequenceTheorems, WellFoundedInduction, TLAPS

(* A set of natural numbers has a least element, and Min returns it. *)
LEMMA LeastNatural ==
  ASSUME NEW S \in SUBSET Nat, S # {}
  PROVE  Min(S) \in S /\ \A m \in S : Min(S) <= m
<1>1. PICK x \in S : \A y \in S : ~(<<y, x>> \in OpToRel(<, Nat))
  BY NatLessThanWellFounded, WFMin
<1>2. \A y \in S : ~(y < x)
  BY <1>1 DEF OpToRel
<1>3. \A y \in S : x <= y
  BY <1>2
<1> QED
  BY <1>3 DEF Min

(* Removing the k-th element moves the later ones up. *)
LEMMA RemoveAtEffect ==
  ASSUME NEW S, NEW s \in Seq(S), NEW k \in 1 .. Len(s)
  PROVE  /\ RemoveAt(s, k) \in Seq(S)
         /\ Len(RemoveAt(s, k)) = Len(s) - 1
         /\ \A i \in 1 .. Len(s) - 1 :
              RemoveAt(s, k)[i] = IF i < k THEN s[i] ELSE s[i + 1]
<1> DEFINE before == SubSeq(s, 1, k - 1)
           after  == SubSeq(s, k + 1, Len(s))
<1>1. Len(s) \in Nat /\ \A i \in 1 .. Len(s) : s[i] \in S
  BY LenProperties
<1>2. /\ before \in Seq(S) /\ Len(before) = k - 1
      /\ \A i \in 1 .. k - 1 : before[i] = s[i]
  BY <1>1, SubSeqProperties
<1>3. /\ after \in Seq(S) /\ Len(after) = Len(s) - k
      /\ \A i \in 1 .. Len(s) - k : after[i] = s[k + i]
  BY <1>1, SubSeqProperties
<1> HIDE DEF before, after
<1>4. /\ before \o after \in Seq(S)
      /\ Len(before \o after) = Len(before) + Len(after)
      /\ \A i \in 1 .. Len(before) + Len(after) :
           (before \o after)[i] =
             IF i <= Len(before) THEN before[i] ELSE after[i - Len(before)]
  BY <1>2, <1>3, ConcatProperties
<1>. Len(before) + Len(after) = Len(s) - 1
  BY <1>1, <1>2, <1>3
<1>5. \A i \in 1 .. Len(s) - 1 : (before \o after)[i] = IF i < k THEN s[i] ELSE s[i + 1]
  <2> TAKE i \in 1 .. Len(s) - 1
  <2>1. CASE i < k
    BY <1>1, <1>2, <1>4, <2>1
  <2>2. CASE ~(i < k)
    <3>1. i - (k - 1) \in 1 .. Len(s) - k /\ k + (i - (k - 1)) = i + 1
      BY <1>1, <2>2
    <3>2. after[i - (k - 1)] = s[i + 1]
      BY <1>3, <3>1
    <3>3. (before \o after)[i] = after[i - (k - 1)]
      BY <1>1, <1>2, <1>4, <2>2
    <3> QED
      BY <2>2, <3>2, <3>3
  <2> QED
    BY <2>1, <2>2
<1> QED
  BY <1>4, <1>5 DEF RemoveAt, before, after

(* RemoveFirst removes at some position that holds the element. *)
LEMMA RemoveFirstPosition ==
  ASSUME NEW S, NEW s \in Seq(S), NEW e, NEW i \in 1 .. Len(s), s[i] = e
  PROVE  \E k \in 1 .. Len(s) : s[k] = e /\ RemoveFirst(s, e) = RemoveAt(s, k)
<1> DEFINE I == {j \in 1 .. Len(s) : s[j] = e}
<1>1. I \in SUBSET Nat /\ I # {}
  OBVIOUS
<1>2. Min(I) \in I
  BY <1>1, LeastNatural
<1>3. RemoveFirst(s, e) = RemoveAt(s, Min(I))
  BY <1>1 DEF RemoveFirst, SelectInSeq
<1> QED
  BY <1>2, <1>3

(* A page and the frame it is in. *)
Pair(p, f) == [page |-> p, frame |-> f]

Pairs(P, F) == [page : P, frame : F]

(* A load that contradicts what is tracked. *)
Conflicts(tracked, p, f) == \E e \in tracked : e.page = p \/ e.frame = f

(* No page and no frame twice. *)
Distinct(q) ==
  \A i, j \in 1 .. Len(q) : q[i].page = q[j].page \/ q[i].frame = q[j].frame => i = j

(* A sequence of pairs as FIFO, LRU and Optimal keep one. *)
IsQueue(q, P, F) == q \in Seq(Pairs(P, F)) /\ Distinct(q)

(* The elements of a queue of pairs, none of them twice. *)
LEMMA QueueElements ==
  ASSUME NEW P, NEW F, NEW q, IsQueue(q, P, F)
  PROVE  /\ Len(q) \in Nat
         /\ q = <<>> <=> Len(q) = 0
         /\ \A i \in 1 .. Len(q) : /\ q[i] \in Pairs(P, F)
                                   /\ q[i].page \in P /\ q[i].frame \in F
                                   /\ q[i] = Pair(q[i].page, q[i].frame)
         /\ ToSet(q) = {q[i] : i \in 1 .. Len(q)}
         /\ ToSet(q) \subseteq Pairs(P, F)
         /\ ToSet(q) = {} <=> q = <<>>
         /\ \A i, j \in 1 .. Len(q) : q[i] = q[j] => i = j
<1>1. q \in Seq(Pairs(P, F))
  BY DEF IsQueue
<1>2. /\ Len(q) \in Nat /\ DOMAIN q = 1 .. Len(q)
      /\ \A i \in 1 .. Len(q) : q[i] \in Pairs(P, F)
  BY <1>1, LenProperties, ElementOfSeq
<1>3. q = <<>> <=> Len(q) = 0
  BY <1>1, EmptySeq
<1>4. \A i \in 1 .. Len(q) : /\ q[i].page \in P /\ q[i].frame \in F
                             /\ q[i] = Pair(q[i].page, q[i].frame)
  BY <1>2 DEF Pairs, Pair
<1>5. ToSet(q) = {q[i] : i \in 1 .. Len(q)}
  BY <1>2 DEF ToSet
<1>6. ToSet(q) = {} <=> Len(q) = 0
  <2>1. Len(q) # 0 => q[1] \in ToSet(q)
    BY <1>2, <1>5
  <2> QED
    BY <1>2, <1>5, <2>1
<1> QED
  BY <1>2, <1>3, <1>4, <1>5, <1>6 DEF IsQueue, Distinct

(* The empty queue. *)
LEMMA EmptyQueue ==
  ASSUME NEW P, NEW F
  PROVE  IsQueue(<<>>, P, F) /\ ToSet(<<>>) = {}
BY EmptySeq, LenProperties DEF IsQueue, Distinct, ToSet

(* A pair that conflicts with none joins at the end. *)
LEMMA QueueAppend ==
  ASSUME NEW P, NEW F, NEW q, IsQueue(q, P, F),
         NEW p \in P, NEW f \in F, ~Conflicts(ToSet(q), p, f)
  PROVE  LET n == Append(q, Pair(p, f))
         IN  /\ IsQueue(n, P, F)
             /\ ToSet(n) = ToSet(q) \cup {Pair(p, f)}
             /\ Len(n) = Len(q) + 1
             /\ \A i \in 1 .. Len(q) : n[i] = q[i]
             /\ n[Len(q) + 1] = Pair(p, f)
<1> DEFINE n == Append(q, Pair(p, f))
<1>1. q \in Seq(Pairs(P, F)) /\ Pair(p, f) \in Pairs(P, F)
  BY DEF IsQueue, Pair, Pairs
<1>2. /\ n \in Seq(Pairs(P, F))
      /\ Len(n) = Len(q) + 1
      /\ \A i \in 1 .. Len(q) : n[i] = q[i]
      /\ n[Len(q) + 1] = Pair(p, f)
  BY <1>1, AppendProperties
<1> HIDE DEF n
<1>3. Len(q) \in Nat /\ ToSet(q) = {q[i] : i \in 1 .. Len(q)}
  BY QueueElements
<1>4. \A i \in 1 .. Len(q) : q[i].page # p /\ q[i].frame # f
  BY <1>3 DEF Conflicts
<1>5. Distinct(n)
  <2> SUFFICES ASSUME NEW i \in 1 .. Len(n), NEW j \in 1 .. Len(n),
                      n[i].page = n[j].page \/ n[i].frame = n[j].frame
               PROVE  i = j
    BY DEF Distinct
  <2>1. CASE i \in 1 .. Len(q) /\ j \in 1 .. Len(q)
    BY <1>2, <2>1 DEF IsQueue, Distinct
  <2>2. Pair(p, f).page = p /\ Pair(p, f).frame = f
    BY DEF Pair
  <2> QED
    BY <1>2, <1>3, <1>4, <2>1, <2>2
<1>6. ToSet(n) = {n[i] : i \in 1 .. Len(n)}
  BY <1>2, LenProperties DEF ToSet
<1>7. ToSet(n) = ToSet(q) \cup {Pair(p, f)}
  BY <1>2, <1>3, <1>6
<1> QED
  BY <1>2, <1>5, <1>7 DEF IsQueue, n

(* Removing at a position takes exactly its pair out. *)
LEMMA QueueRemoveAt ==
  ASSUME NEW P, NEW F, NEW q, IsQueue(q, P, F), NEW k \in 1 .. Len(q)
  PROVE  LET n == RemoveAt(q, k)
         IN  /\ IsQueue(n, P, F)
             /\ ToSet(n) = ToSet(q) \ {q[k]}
             /\ Len(n) = Len(q) - 1
             /\ \A i \in 1 .. Len(q) - 1 : n[i] = IF i < k THEN q[i] ELSE q[i + 1]
<1> DEFINE n == RemoveAt(q, k)
<1>1. /\ n \in Seq(Pairs(P, F)) /\ Len(n) = Len(q) - 1
      /\ \A i \in 1 .. Len(q) - 1 : n[i] = IF i < k THEN q[i] ELSE q[i + 1]
  BY RemoveAtEffect DEF IsQueue
<1> HIDE DEF n
<1>2. /\ Len(q) \in Nat /\ ToSet(q) = {q[i] : i \in 1 .. Len(q)}
      /\ \A i, j \in 1 .. Len(q) : q[i] = q[j] => i = j
  BY QueueElements
<1>3. ToSet(n) = {n[i] : i \in 1 .. Len(q) - 1}
  BY <1>1, LenProperties DEF ToSet
<1>4. Distinct(n)
  <2> DEFINE at(i) == IF i < k THEN i ELSE i + 1
  <2>1. \A i \in 1 .. Len(n) : at(i) \in 1 .. Len(q) /\ n[i] = q[at(i)]
    BY <1>1, <1>2
  <2>2. \A i, j \in 1 .. Len(n) : at(i) = at(j) => i = j
    BY <1>1, <1>2
  <2> HIDE DEF at
  <2>3. Distinct(q)
    BY DEF IsQueue
  <2> QED
    BY <2>1, <2>2, <2>3 DEF Distinct
<1>5. ASSUME NEW i \in 1 .. Len(q), i # k
      PROVE  q[i] \in ToSet(n)
  <2>1. CASE i < k
    BY <1>1, <1>2, <1>3, <2>1
  <2>2. CASE i > k
    <3>1. i - 1 \in 1 .. Len(q) - 1 /\ ~(i - 1 < k) /\ (i - 1) + 1 = i
      BY <1>2, <2>2
    <3> QED
      BY <1>1, <1>3, <3>1
  <2> QED
    BY <1>5, <2>1, <2>2
<1>6. ASSUME NEW i \in 1 .. Len(q) - 1
      PROVE  n[i] \in ToSet(q) \ {q[k]}
  BY <1>1, <1>2
<1>7. ToSet(n) = ToSet(q) \ {q[k]}
  <2>1. ToSet(n) \subseteq ToSet(q) \ {q[k]}
    BY <1>3, <1>6
  <2>2. ASSUME NEW e \in ToSet(q), e # q[k] PROVE e \in ToSet(n)
    <3>1. PICK i \in 1 .. Len(q) : q[i] = e
      BY <1>2
    <3> QED
      BY <1>5, <2>2, <3>1
  <2> QED
    BY <2>1, <2>2
<1> QED
  BY <1>1, <1>4, <1>7 DEF IsQueue, n

(* Removing a pair takes it out, and nothing when it is not there. *)
LEMMA QueueRemoveFirst ==
  ASSUME NEW P, NEW F, NEW q, IsQueue(q, P, F), NEW e
  PROVE  /\ IsQueue(RemoveFirst(q, e), P, F)
         /\ ToSet(RemoveFirst(q, e)) = ToSet(q) \ {e}
         /\ e \in ToSet(q) =>
              \E k \in 1 .. Len(q) : q[k] = e /\ RemoveFirst(q, e) = RemoveAt(q, k)
         /\ e \notin ToSet(q) => RemoveFirst(q, e) = q
<1>1. ToSet(q) = {q[i] : i \in 1 .. Len(q)}
  BY QueueElements
<1>2. CASE e \in ToSet(q)
  <2>1. PICK k \in 1 .. Len(q) : q[k] = e /\ RemoveFirst(q, e) = RemoveAt(q, k)
    BY <1>1, <1>2, RemoveFirstPosition DEF IsQueue
  <2> QED
    BY <1>2, <2>1, QueueRemoveAt
<1>3. CASE e \notin ToSet(q)
  BY <1>1, <1>3 DEF RemoveFirst
<1> QED
  BY <1>2, <1>3

(* The instances of the policies use the same removal, *)
LEMMA SameRemoveFirst ==
  ASSUME NEW s, NEW e
  PROVE  /\ Fifo!RemoveFirst(s, e) = RemoveFirst(s, e)
         /\ Lru!RemoveFirst(s, e) = RemoveFirst(s, e)
         /\ Optimal!RemoveFirst(s, e) = RemoveFirst(s, e)
         /\ \A k : Clock!RemoveAt(s, k) = RemoveAt(s, k)
BY DEF RemoveFirst, RemoveAt, SelectInSeq, Min,
       Fifo!RemoveFirst, Fifo!RemoveAt, Fifo!SelectInSeq, Fifo!Min,
       Lru!RemoveFirst, Lru!RemoveAt, Lru!SelectInSeq, Lru!Min,
       Optimal!RemoveFirst, Optimal!RemoveAt, Optimal!SelectInSeq, Optimal!Min,
       Clock!RemoveAt

(* and the same set of elements. *)
LEMMA SameToSet ==
  ASSUME NEW s
  PROVE  Fifo!ToSet(s) = ToSet(s) /\ Lru!ToSet(s) = ToSet(s) /\ Optimal!ToSet(s) = ToSet(s)
BY DEF ToSet, Fifo!ToSet, Lru!ToSet, Optimal!ToSet

-----------------------------------------------------------------------------
(* FIFO *)

(* What every operation of FIFO does to the queue and to the tracked pairs. *)
LEMMA FifoContract ==
  ASSUME NEW P, NEW F, NEW s, IsQueue(s, P, F), NEW p \in P, NEW f \in F
  PROVE  /\ Fifo!Tracked(s) = ToSet(s)
         /\ IsQueue(Fifo!PageLoaded(s, p, f), P, F)
         /\ ToSet(Fifo!PageLoaded(s, p, f)) =
              IF Conflicts(ToSet(s), p, f) THEN ToSet(s) ELSE ToSet(s) \cup {Pair(p, f)}
         /\ Fifo!PageAccessed(s, p, f) = s
         /\ IsQueue(Fifo!PageRemoved(s, p, f), P, F)
         /\ ToSet(Fifo!PageRemoved(s, p, f)) = ToSet(s) \ {Pair(p, f)}
         /\ Fifo!HasVictim(s) <=> ToSet(s) # {}
         /\ Fifo!HasVictim(s) => \E e \in ToSet(s) : Fifo!Victim(s) = e.frame
         /\ Fifo!AfterChoice(s) = s
<1>1. ToSet(s) = {s[i] : i \in 1 .. Len(s)} /\ (s = <<>> <=> Len(s) = 0) /\ Len(s) \in Nat
  BY QueueElements
<1>2. Fifo!Tracks(s, p, f) <=> Conflicts(ToSet(s), p, f)
  BY <1>1 DEF Fifo!Tracks, Conflicts
<1>3. Fifo!Entry(p, f) = Pair(p, f)
  BY DEF Fifo!Entry, Pair
<1>4. Fifo!PageLoaded(s, p, f) =
        IF Conflicts(ToSet(s), p, f) THEN s ELSE Append(s, Pair(p, f))
  BY <1>2, <1>3 DEF Fifo!PageLoaded
<1>5. Fifo!PageRemoved(s, p, f) = RemoveFirst(s, Pair(p, f))
  BY <1>3, SameRemoveFirst DEF Fifo!PageRemoved
<1>6. s # <<>> => s[1] \in ToSet(s) /\ Fifo!Victim(s) = s[1].frame
  BY <1>1 DEF Fifo!Victim
<1>7. Fifo!HasVictim(s) <=> ToSet(s) # {}
  BY <1>1, <1>6 DEF Fifo!HasVictim
<1>8. /\ IsQueue(Fifo!PageLoaded(s, p, f), P, F)
      /\ ToSet(Fifo!PageLoaded(s, p, f)) =
           IF Conflicts(ToSet(s), p, f) THEN ToSet(s) ELSE ToSet(s) \cup {Pair(p, f)}
  <2>1. CASE Conflicts(ToSet(s), p, f)
    BY <1>4, <2>1
  <2>2. CASE ~Conflicts(ToSet(s), p, f)
    BY <1>4, <2>2, QueueAppend
  <2> QED
    BY <2>1, <2>2
<1>9. /\ IsQueue(Fifo!PageRemoved(s, p, f), P, F)
      /\ ToSet(Fifo!PageRemoved(s, p, f)) = ToSet(s) \ {Pair(p, f)}
  BY <1>5, QueueRemoveFirst
<1>10. Fifo!HasVictim(s) => \E e \in ToSet(s) : Fifo!Victim(s) = e.frame
  BY <1>6 DEF Fifo!HasVictim
<1>11. Fifo!Tracked(s) = ToSet(s) /\ Fifo!PageAccessed(s, p, f) = s /\ Fifo!AfterChoice(s) = s
  BY SameToSet DEF Fifo!Tracked, Fifo!PageAccessed, Fifo!AfterChoice
<1> QED
  BY <1>7, <1>8, <1>9, <1>10, <1>11

(* FIFO chooses the frame at the head of the queue. *)
LEMMA FifoChoice ==
  ASSUME NEW P, NEW F, NEW s, IsQueue(s, P, F)
  PROVE  /\ Fifo!HasVictim(s) <=> ToSet(s) # {}
         /\ Fifo!HasVictim(s) => \E e \in ToSet(s) : Fifo!Victim(s) = e.frame
         /\ Fifo!HasVictim(s) => 1 \in 1 .. Len(s) /\ Fifo!Victim(s) = s[1].frame
<1>1. ToSet(s) = {s[i] : i \in 1 .. Len(s)} /\ (s = <<>> <=> Len(s) = 0) /\ Len(s) \in Nat
  BY QueueElements
<1>2. s # <<>> => s[1] \in ToSet(s) /\ Fifo!Victim(s) = s[1].frame /\ 1 \in 1 .. Len(s)
  BY <1>1 DEF Fifo!Victim
<1>3. Fifo!HasVictim(s) <=> ToSet(s) # {}
  BY <1>1, <1>2 DEF Fifo!HasVictim
<1> QED
  BY <1>2, <1>3 DEF Fifo!HasVictim

-----------------------------------------------------------------------------
(* LRU *)

(* The maps hold what the list holds. *)
IsLru(s, P, F) ==
  /\ s = [list |-> s.list, byPage |-> s.byPage, byFrame |-> s.byFrame]
  /\ IsQueue(s.list, P, F)
  /\ s.byPage = ToSet(s.list)
  /\ s.byFrame = ToSet(s.list)

(* The empty state of LRU. *)
LEMMA LruEmpty ==
  ASSUME NEW P, NEW F
  PROVE  IsLru(Lru!Empty, P, F) /\ ToSet(Lru!Empty.list) = {}
BY EmptyQueue DEF IsLru, Lru!Empty

(* LRU finds a pair just when it is in the list. *)
LEMMA LruHolds ==
  ASSUME NEW P, NEW F, NEW s, IsLru(s, P, F), NEW p \in P, NEW f \in F
  PROVE  /\ Lru!Entry(p, f) = Pair(p, f)
         /\ Lru!Holds(s, p, f) <=> Pair(p, f) \in ToSet(s.list)
<1>1. \A e \in ToSet(s.list) : e = Pair(e.page, e.frame)
  BY QueueElements DEF IsLru, Pairs, Pair
<1>2. Pair(p, f).page = p /\ Pair(p, f).frame = f
  BY DEF Pair
<1> QED
  BY <1>1, <1>2 DEF IsLru, Lru!Holds, Lru!Entry, Pair

(* A pair that conflicts with none is loaded as the most recent, in list and maps. *)
LEMMA LruPageLoaded ==
  ASSUME NEW P, NEW F, NEW s, IsLru(s, P, F), NEW p \in P, NEW f \in F
  PROVE  LET n == Lru!PageLoaded(s, p, f)
         IN  /\ IsLru(n, P, F)
             /\ n.list = IF Conflicts(ToSet(s.list), p, f) THEN s.list
                         ELSE Append(s.list, Pair(p, f))
             /\ ToSet(n.list) = IF Conflicts(ToSet(s.list), p, f) THEN ToSet(s.list)
                                ELSE ToSet(s.list) \cup {Pair(p, f)}
<1>1. Lru!PageLoaded(s, p, f) =
        IF Conflicts(ToSet(s.list), p, f) THEN s
        ELSE [list    |-> Append(s.list, Pair(p, f)),
              byPage  |-> ToSet(s.list) \cup {Pair(p, f)},
              byFrame |-> ToSet(s.list) \cup {Pair(p, f)}]
  BY DEF Lru!PageLoaded, IsLru, Conflicts, Lru!Entry, Pair
<1>2. CASE Conflicts(ToSet(s.list), p, f)
  BY <1>1, <1>2
<1>3. CASE ~Conflicts(ToSet(s.list), p, f)
  BY <1>1, <1>3, QueueAppend DEF IsLru
<1> QED
  BY <1>2, <1>3

(* An access to a tracked pair moves it to the end of the list. *)
LEMMA LruPageAccessed ==
  ASSUME NEW P, NEW F, NEW s, IsLru(s, P, F), NEW p \in P, NEW f \in F
  PROVE  LET n == Lru!PageAccessed(s, p, f)
         IN  /\ IsLru(n, P, F)
             /\ n.list = IF Pair(p, f) \in ToSet(s.list)
                         THEN Append(RemoveFirst(s.list, Pair(p, f)), Pair(p, f))
                         ELSE s.list
             /\ ToSet(n.list) = ToSet(s.list)
<1> DEFINE e == Pair(p, f)
           r == RemoveFirst(s.list, e)
<1>1. Lru!PageAccessed(s, p, f) =
        IF e \in ToSet(s.list)
        THEN [list |-> Append(r, e), byPage |-> s.byPage, byFrame |-> s.byFrame]
        ELSE s
  <2>1. /\ Lru!Entry(p, f) = e
        /\ Lru!Holds(s, p, f) <=> e \in ToSet(s.list)
    BY LruHolds
  <2>2. Lru!RemoveFirst(s.list, e) = r
    BY SameRemoveFirst
  <2>3. \A l : [s EXCEPT !.list = l] = [list |-> l, byPage |-> s.byPage, byFrame |-> s.byFrame]
    BY DEF IsLru
  <2> HIDE DEF e, r
  <2> QED
    BY <2>1, <2>2, <2>3 DEF Lru!PageAccessed
<1>2. CASE e \notin ToSet(s.list)
  BY <1>1, <1>2
<1>3. CASE e \in ToSet(s.list)
  <2>1. IsQueue(r, P, F) /\ ToSet(r) = ToSet(s.list) \ {e}
    BY QueueRemoveFirst DEF IsLru
  <2>2. ~Conflicts(ToSet(r), p, f)
    <3>1. \A i, j \in 1 .. Len(s.list) :
             s.list[i].page = s.list[j].page \/ s.list[i].frame = s.list[j].frame => i = j
      BY DEF IsLru, IsQueue, Distinct
    <3>2. ToSet(s.list) = {s.list[i] : i \in 1 .. Len(s.list)}
      BY QueueElements DEF IsLru
    <3>3. e.page = p /\ e.frame = f
      BY DEF Pair
    <3> HIDE DEF e
    <3>4. ASSUME NEW d \in ToSet(s.list), d.page = p \/ d.frame = f PROVE d = e
      BY <1>3, <3>1, <3>2, <3>3, <3>4
    <3> QED
      BY <2>1, <3>4 DEF Conflicts
  <2>3. IsQueue(Append(r, e), P, F) /\ ToSet(Append(r, e)) = ToSet(r) \cup {e}
    BY <2>1, <2>2, QueueAppend
  <2>4. ToSet(Append(r, e)) = ToSet(s.list)
    BY <1>3, <2>1, <2>3
  <2> HIDE DEF e, r
  <2> QED
    BY <1>1, <1>3, <2>3, <2>4 DEF IsLru, e, r
<1> QED
  BY <1>2, <1>3

(* A removal takes the pair out of list and maps alike. *)
LEMMA LruPageRemoved ==
  ASSUME NEW P, NEW F, NEW s, IsLru(s, P, F), NEW p \in P, NEW f \in F
  PROVE  LET n == Lru!PageRemoved(s, p, f)
         IN  /\ IsLru(n, P, F)
             /\ n.list = RemoveFirst(s.list, Pair(p, f))
             /\ ToSet(n.list) = ToSet(s.list) \ {Pair(p, f)}
<1> DEFINE e == Pair(p, f)
           r == RemoveFirst(s.list, e)
<1>1. /\ IsQueue(r, P, F) /\ ToSet(r) = ToSet(s.list) \ {e}
      /\ e \notin ToSet(s.list) => r = s.list
  BY QueueRemoveFirst DEF IsLru
<1>2. Lru!PageRemoved(s, p, f) =
        IF e \in ToSet(s.list)
        THEN [list    |-> r,
              byPage  |-> {d \in ToSet(s.list) : d.page # p},
              byFrame |-> {d \in ToSet(s.list) : d.frame # f}]
        ELSE s
  <2>1. /\ s.byPage = ToSet(s.list) /\ s.byFrame = ToSet(s.list)
        /\ Lru!Holds(s, p, f) <=> e \in ToSet(s.list)
        /\ Lru!RemoveFirst(s.list, Lru!Entry(p, f)) = r
    <3>1. s.byPage = ToSet(s.list) /\ s.byFrame = ToSet(s.list)
      BY DEF IsLru
    <3>2. Lru!Entry(p, f) = e /\ (Lru!Holds(s, p, f) <=> e \in ToSet(s.list))
      BY LruHolds
    <3> QED
      BY <3>1, <3>2, SameRemoveFirst
  <2> HIDE DEF e, r
  <2> QED
    BY <2>1 DEF Lru!PageRemoved
<1>3. CASE e \notin ToSet(s.list)
  BY <1>1, <1>2, <1>3
<1>4. CASE e \in ToSet(s.list)
  <2>1. \A i, j \in 1 .. Len(s.list) :
          s.list[i].page = s.list[j].page \/ s.list[i].frame = s.list[j].frame => i = j
    BY DEF IsLru, IsQueue, Distinct
  <2>2. ToSet(s.list) = {s.list[i] : i \in 1 .. Len(s.list)}
    BY QueueElements DEF IsLru
  <2>3. e.page = p /\ e.frame = f
    BY DEF Pair
  <2> HIDE DEF e
  <2>4. \A d \in ToSet(s.list) : (d.page = p \/ d.frame = f) <=> d = e
    BY <1>4, <2>1, <2>2, <2>3
  <2>5. /\ {d \in ToSet(s.list) : d.page # p} = ToSet(s.list) \ {e}
        /\ {d \in ToSet(s.list) : d.frame # f} = ToSet(s.list) \ {e}
    BY <1>4, <2>3, <2>4
  <2> HIDE DEF r
  <2> QED
    BY <1>1, <1>2, <1>4, <2>5 DEF IsLru, e, r
<1> QED
  BY <1>3, <1>4

(* LRU chooses the frame at the head of the list. *)
LEMMA LruChoice ==
  ASSUME NEW P, NEW F, NEW s, IsLru(s, P, F)
  PROVE  /\ Lru!Tracked(s) = ToSet(s.list)
         /\ Lru!HasVictim(s) <=> ToSet(s.list) # {}
         /\ Lru!HasVictim(s) => \E e \in ToSet(s.list) : Lru!Victim(s) = e.frame
         /\ Lru!HasVictim(s) => 1 \in 1 .. Len(s.list) /\ Lru!Victim(s) = s.list[1].frame
         /\ Lru!AfterChoice(s) = s
<1>1. /\ ToSet(s.list) = {s.list[i] : i \in 1 .. Len(s.list)}
      /\ s.list = <<>> <=> Len(s.list) = 0
      /\ Len(s.list) \in Nat
  BY QueueElements DEF IsLru
<1>2. Lru!Tracked(s) = ToSet(s.list) /\ Lru!AfterChoice(s) = s
  BY SameToSet DEF Lru!Tracked, Lru!AfterChoice
<1>3. s.list # <<>> =>
        /\ 1 \in 1 .. Len(s.list) /\ s.list[1] \in ToSet(s.list)
        /\ Lru!Victim(s) = s.list[1].frame
  BY <1>1 DEF Lru!Victim
<1>4. Lru!HasVictim(s) <=> s.list # <<>>
  BY DEF Lru!HasVictim
<1>5. s.list = <<>> <=> ToSet(s.list) = {}
  BY QueueElements DEF IsLru
<1> QED
  BY <1>2, <1>3, <1>4, <1>5

-----------------------------------------------------------------------------
(* Clock *)

(* The entries of the ring. *)
RingEntries(P, F) == [page : P, frame : F, bit : BOOLEAN]

(* The hand is inside the ring, or 0. *)
IsClock(s, P, F) ==
  /\ s = [ring |-> s.ring, hand |-> s.hand]
  /\ s.ring \in Seq(RingEntries(P, F))
  /\ Distinct(s.ring)
  /\ s.hand \in Nat
  /\ IF s.ring = <<>> THEN s.hand = 0 ELSE s.hand < Len(s.ring)

(* The scan *)
IsScan(g, s, k) ==
  g = [n \in 0 .. k |-> IF n = 0 THEN s ELSE Clock!Inspect(g[n - 1])]

(* The function that records the inspections of a scan exists for any number of them, *)
LEMMA ScanExists ==
  ASSUME NEW s, NEW N \in Nat
  PROVE  \E g : IsScan(g, s, N)
<1> DEFINE K == {k \in 0 .. N : ~\E g : IsScan(g, s, k)}
<1>1. SUFFICES ASSUME K # {} PROVE FALSE
  <2>1. N \in 0 .. N
    OBVIOUS
  <2> QED
    BY <2>1
<1>2. K \in SUBSET Nat
  OBVIOUS
<1> DEFINE m == Min(K)
<1>3. m \in K /\ \A k \in K : m <= k
  BY <1>1, <1>2, LeastNatural
<1> HIDE DEF m
<1>4. m \in 0 .. N /\ ~\E g : IsScan(g, s, m)
  BY <1>3
<1>5. CASE m = 0
  <2> DEFINE g == [n \in 0 .. 0 |-> s]
  <2>1. IsScan(g, s, 0)
    BY DEF IsScan
  <2> QED
    BY <1>4, <1>5, <2>1
<1>6. CASE m # 0
  <2>1. m - 1 \in 0 .. N /\ m - 1 \notin K
    BY <1>3, <1>4, <1>6
  <2>2. PICK g : IsScan(g, s, m - 1)
    BY <2>1
  <2> DEFINE h == [n \in 0 .. m |-> IF n = 0 THEN s ELSE Clock!Inspect(g[n - 1])]
  <2>3. \A n \in 0 .. m - 1 : g[n] = IF n = 0 THEN s ELSE Clock!Inspect(g[n - 1])
    BY <2>2 DEF IsScan
  <2>4. \A n \in 0 .. m : n # 0 => h[n - 1] = g[n - 1]
    BY <1>4, <2>3
  <2>5. h = [n \in 0 .. m |-> IF n = 0 THEN s ELSE Clock!Inspect(h[n - 1])]
    BY <2>4
  <2>6. IsScan(h, s, m)
    BY <2>5 DEF IsScan
  <2> QED
    BY <1>4, <2>6
<1> QED
  BY <1>5, <1>6

(* so the state in which a scan ends is reached by inspecting one entry after the other. *)
LEMMA ScanSteps ==
  ASSUME NEW s, Len(s.ring) \in Nat \ {0}
  PROVE  \E g : /\ g[0] = s
                /\ \A n \in 1 .. 2 * Len(s.ring) : g[n] = Clock!Inspect(g[n - 1])
                /\ Clock!ScanEnd(s) = g[2 * Len(s.ring) - 1]
<1> DEFINE N == 2 * Len(s.ring)
           g == CHOOSE g : IsScan(g, s, N)
<1>1. N \in Nat /\ N - 1 \in 0 .. N
  OBVIOUS
<1>2. IsScan(g, s, N)
  BY <1>1, ScanExists
<1>3. Clock!ScanEnd(s) = g[N - 1]
  BY DEF Clock!ScanEnd, IsScan
<1> HIDE DEF g
<1>4. \A n \in 0 .. N : g[n] = IF n = 0 THEN s ELSE Clock!Inspect(g[n - 1])
  BY <1>2 DEF IsScan
<1> HIDE DEF N
<1>5. g[0] = s /\ \A n \in 1 .. N : g[n] = Clock!Inspect(g[n - 1])
  BY <1>1, <1>4
<1> QED
  BY <1>3, <1>5 DEF N

(* The k-th position the hand comes to. *)
Wrap(a, n) == IF a < n THEN a ELSE a - n

PositionAt(s, k) == Wrap(s.hand + k, Len(s.ring)) + 1

(* The state after n entries with their bit set have been passed over. *)
PassedOver(s, n) ==
  [ring |-> [i \in 1 .. Len(s.ring) |->
               [s.ring[i] EXCEPT !.bit = @ /\ \A k \in 0 .. n - 1 : PositionAt(s, k) # i]],
   hand |-> Wrap(s.hand + n, Len(s.ring))]

(* The entries of a ring and the hand among them. *)
LEMMA ClockFields ==
  ASSUME NEW P, NEW F, NEW s, IsClock(s, P, F)
  PROVE  /\ Len(s.ring) \in Nat
         /\ DOMAIN s.ring = 1 .. Len(s.ring)
         /\ s.ring = <<>> <=> Len(s.ring) = 0
         /\ s.ring \in [1 .. Len(s.ring) -> RingEntries(P, F)]
         /\ \A i \in 1 .. Len(s.ring) :
              /\ s.ring[i] \in RingEntries(P, F)
              /\ s.ring[i].page \in P /\ s.ring[i].frame \in F /\ s.ring[i].bit \in BOOLEAN
              /\ s.ring[i] = [page |-> s.ring[i].page, frame |-> s.ring[i].frame,
                              bit |-> s.ring[i].bit]
         /\ s.ring # <<>> => s.hand + 1 \in 1 .. Len(s.ring)
<1>1. s.ring \in Seq(RingEntries(P, F))
  BY DEF IsClock
<1>2. /\ Len(s.ring) \in Nat /\ DOMAIN s.ring = 1 .. Len(s.ring)
      /\ s.ring \in [1 .. Len(s.ring) -> RingEntries(P, F)]
      /\ \A i \in 1 .. Len(s.ring) : s.ring[i] \in RingEntries(P, F)
      /\ s.ring = <<>> <=> Len(s.ring) = 0
  BY <1>1, LenProperties, ElementOfSeq, EmptySeq
<1>3. \A i \in 1 .. Len(s.ring) :
        /\ s.ring[i].page \in P /\ s.ring[i].frame \in F /\ s.ring[i].bit \in BOOLEAN
        /\ s.ring[i] = [page |-> s.ring[i].page, frame |-> s.ring[i].frame,
                        bit |-> s.ring[i].bit]
  BY <1>2 DEF RingEntries
<1>4. s.ring # <<>> => s.hand + 1 \in 1 .. Len(s.ring)
  BY <1>2 DEF IsClock
<1> QED
  BY <1>2, <1>3, <1>4

(* The first n positions the hand comes to are different ones; then it is back. *)
LEMMA Positions ==
  ASSUME NEW P, NEW F, NEW s, IsClock(s, P, F), s.ring # <<>>
  PROVE  /\ \A k \in 0 .. Len(s.ring) : PositionAt(s, k) \in 1 .. Len(s.ring)
         /\ \A k \in 0 .. Len(s.ring) - 1 : \A j \in 0 .. Len(s.ring) - 1 :
              PositionAt(s, k) = PositionAt(s, j) => k = j
         /\ PositionAt(s, Len(s.ring)) = PositionAt(s, 0)
         /\ PositionAt(s, 0) = s.hand + 1
<1> DEFINE L == Len(s.ring)
           h == s.hand
<1>1. L \in Nat /\ L # 0 /\ h \in Nat /\ h < L
  BY ClockFields DEF IsClock
<1>2. \A k \in Nat : PositionAt(s, k) = IF h + k < L THEN h + k + 1 ELSE h + k - L + 1
  BY <1>1 DEF PositionAt, Wrap
<1> HIDE DEF L, h
<1>3. \A k \in 0 .. L : PositionAt(s, k) \in 1 .. L
  BY <1>1, <1>2
<1>4. \A k \in 0 .. L - 1 : \A j \in 0 .. L - 1 :
        PositionAt(s, k) = PositionAt(s, j) => k = j
  BY <1>1, <1>2
<1>5. PositionAt(s, L) = PositionAt(s, 0) /\ PositionAt(s, 0) = h + 1
  BY <1>1, <1>2
<1> QED
  BY <1>3, <1>4, <1>5 DEF L, h

(* An entry whose bit is assigned. *)
LEMMA EntryWithBit ==
  ASSUME NEW e, e = [page |-> e.page, frame |-> e.frame, bit |-> e.bit], NEW b \in BOOLEAN
  PROVE  [e EXCEPT !.bit = b] = [page |-> e.page, frame |-> e.frame, bit |-> b]
OBVIOUS

(* Passing over entries clears their bits and moves the hand. *)
LEMMA PassedOverFields ==
  ASSUME NEW P, NEW F, NEW s, IsClock(s, P, F), s.ring # <<>>,
         NEW n \in 0 .. Len(s.ring)
  PROVE  LET t == PassedOver(s, n)
         IN  /\ IsClock(t, P, F)
             /\ Len(t.ring) = Len(s.ring)
             /\ t.hand = Wrap(s.hand + n, Len(s.ring))
             /\ t.hand + 1 = PositionAt(s, n)
             /\ \A i \in 1 .. Len(s.ring) :
                  /\ t.ring[i].page = s.ring[i].page
                  /\ t.ring[i].frame = s.ring[i].frame
                  /\ t.ring[i].bit = (s.ring[i].bit /\ \A k \in 0 .. n - 1 : PositionAt(s, k) # i)
<1> DEFINE t == PassedOver(s, n)
           L == Len(s.ring)
           Kept(i) == s.ring[i].bit /\ \A k \in 0 .. n - 1 : PositionAt(s, k) # i
           e(i) == [page |-> s.ring[i].page, frame |-> s.ring[i].frame, bit |-> Kept(i)]
<1>1. /\ L \in Nat \ {0} /\ s.hand \in Nat /\ s.hand < L
      /\ \A i \in 1 .. L :
           /\ s.ring[i].page \in P /\ s.ring[i].frame \in F /\ s.ring[i].bit \in BOOLEAN
           /\ s.ring[i] = [page |-> s.ring[i].page, frame |-> s.ring[i].frame,
                           bit |-> s.ring[i].bit]
  BY ClockFields DEF IsClock
<1>2. \A i \in 1 .. L : [s.ring[i] EXCEPT !.bit = Kept(i)] = e(i)
  <2> TAKE i \in 1 .. L
  <2>1. Kept(i) \in BOOLEAN
    OBVIOUS
  <2> HIDE DEF Kept
  <2> QED
    BY <1>1, <2>1, EntryWithBit
<1>3. t.ring = [i \in 1 .. L |-> e(i)] /\ t.hand = Wrap(s.hand + n, L)
      /\ t = [ring |-> t.ring, hand |-> t.hand]
  BY <1>2 DEF PassedOver
<1>4. \A i \in 1 .. L : e(i) \in RingEntries(P, F)
  BY <1>1 DEF RingEntries
<1>5. t.ring \in Seq(RingEntries(P, F)) /\ Len(t.ring) = L
  <2> HIDE DEF e
  <2>1. [i \in 1 .. L |-> e(i)] \in [1 .. L -> RingEntries(P, F)]
    BY <1>4
  <2> QED
    BY <1>1, <1>3, <2>1
<1>6. t.hand \in Nat /\ t.hand < L /\ t.hand + 1 = PositionAt(s, n)
  BY <1>1, <1>3 DEF Wrap, PositionAt
<1>7. \A i \in 1 .. L : /\ t.ring[i].page = s.ring[i].page
                        /\ t.ring[i].frame = s.ring[i].frame
                        /\ t.ring[i].bit = Kept(i)
  BY <1>3
<1>8. Distinct(t.ring)
  BY <1>5, <1>7 DEF IsClock, Distinct
<1>9. t.ring # <<>>
  BY <1>1, <1>5
<1>10. IsClock(t, P, F)
  BY <1>3, <1>5, <1>6, <1>8, <1>9 DEF IsClock
<1> QED
  BY <1>3, <1>5, <1>6, <1>7, <1>10

(* Two states that agree in every field are the same. *)
LEMMA SameClock ==
  ASSUME NEW P, NEW F, NEW s, NEW t, IsClock(s, P, F), IsClock(t, P, F),
         Len(s.ring) = Len(t.ring), s.hand = t.hand,
         \A i \in 1 .. Len(s.ring) : /\ s.ring[i].page = t.ring[i].page
                                    /\ s.ring[i].frame = t.ring[i].frame
                                    /\ s.ring[i].bit = t.ring[i].bit
  PROVE  s = t
<1> DEFINE L == Len(s.ring)
<1>1. /\ s.ring \in [1 .. L -> RingEntries(P, F)]
      /\ \A i \in 1 .. L : s.ring[i] = [page |-> s.ring[i].page, frame |-> s.ring[i].frame,
                                       bit |-> s.ring[i].bit]
  BY ClockFields
<1>2. /\ t.ring \in [1 .. L -> RingEntries(P, F)]
      /\ \A i \in 1 .. L : t.ring[i] = [page |-> t.ring[i].page, frame |-> t.ring[i].frame,
                                       bit |-> t.ring[i].bit]
  BY ClockFields
<1> HIDE DEF L
<1>3. \A i \in 1 .. L : s.ring[i] = t.ring[i]
  BY <1>1, <1>2 DEF L
<1>4. s.ring = t.ring
  <2> DEFINE f == s.ring
             g == t.ring
  <2>1. f \in [1 .. L -> RingEntries(P, F)] /\ g \in [1 .. L -> RingEntries(P, F)]
    BY <1>1, <1>2
  <2>2. \A i \in 1 .. L : f[i] = g[i]
    BY <1>3
  <2> HIDE DEF f, g
  <2>3. f = [i \in 1 .. L |-> f[i]] /\ g = [i \in 1 .. L |-> g[i]]
    BY <2>1
  <2>4. f = g
    BY <2>2, <2>3, Zenon
  <2> QED
    BY <2>4 DEF f, g
<1>5. s = [ring |-> s.ring, hand |-> s.hand] /\ t = [ring |-> t.ring, hand |-> t.hand]
  BY DEF IsClock
<1> QED
  BY <1>4, <1>5

(* n is s with one bit assigned. *)
BitChange(n, s, i, b) == n = [s EXCEPT !.ring[i].bit = b]

(* Assigning one bit changes nothing else. *)
LEMMA SetBit ==
  ASSUME NEW P, NEW F, NEW s, IsClock(s, P, F), NEW i \in 1 .. Len(s.ring), NEW b \in BOOLEAN,
         NEW n, BitChange(n, s, i, b)
  PROVE  /\ IsClock(n, P, F)
         /\ Len(n.ring) = Len(s.ring)
         /\ n.hand = s.hand
         /\ \A j \in 1 .. Len(s.ring) :
              /\ n.ring[j].page = s.ring[j].page
              /\ n.ring[j].frame = s.ring[j].frame
              /\ n.ring[j].bit = IF j = i THEN b ELSE s.ring[j].bit
<1> DEFINE L == Len(s.ring)
           c == [page |-> s.ring[i].page, frame |-> s.ring[i].frame, bit |-> b]
           r == [s.ring EXCEPT ![i] = c]
<1>1. /\ L \in Nat
      /\ s.ring \in [1 .. L -> RingEntries(P, F)]
      /\ s.ring[i] = [page |-> s.ring[i].page, frame |-> s.ring[i].frame, bit |-> s.ring[i].bit]
      /\ s.ring[i].page \in P /\ s.ring[i].frame \in F
  BY ClockFields
<1>2. c \in RingEntries(P, F) /\ c.page = s.ring[i].page /\ c.frame = s.ring[i].frame /\ c.bit = b
  BY <1>1 DEF RingEntries
<1>3. [s.ring[i] EXCEPT !.bit = b] = c
  BY <1>1, EntryWithBit
<1> HIDE DEF c
<1>4. s = [ring |-> s.ring, hand |-> s.hand]
  BY DEF IsClock
<1>5. n = [ring |-> r, hand |-> s.hand]
  <2>1. n = [ring |-> [s.ring EXCEPT ![i] = [s.ring[i] EXCEPT !.bit = b]], hand |-> s.hand]
    BY <1>4 DEF BitChange
  <2> QED
    BY <1>3, <2>1
<1>6. r \in [1 .. L -> RingEntries(P, F)] /\ \A j \in 1 .. L : r[j] = IF j = i THEN c ELSE s.ring[j]
  BY <1>1, <1>2
<1> HIDE DEF r
<1>7. r \in Seq(RingEntries(P, F)) /\ Len(r) = L
  BY <1>1, <1>6
<1>8. \A j \in 1 .. L : /\ r[j].page = s.ring[j].page
                        /\ r[j].frame = s.ring[j].frame
                        /\ r[j].bit = IF j = i THEN b ELSE s.ring[j].bit
  BY <1>2, <1>6
<1>9. Distinct(r)
  BY <1>7, <1>8 DEF IsClock, Distinct
<1>10. n.ring = r /\ n.hand = s.hand
  BY <1>5
<1>11. r # <<>> /\ s.ring # <<>>
  BY <1>1, <1>7
<1>12. IsClock(n, P, F)
  BY <1>5, <1>7, <1>9, <1>10, <1>11 DEF IsClock
<1> QED
  BY <1>7, <1>8, <1>10, <1>12

(* Advancing moves the hand to the next position. *)
LEMMA HandMoved ==
  ASSUME NEW P, NEW F, NEW s, IsClock(s, P, F), s.ring # <<>>
  PROVE  LET n == Clock!AdvanceHand(s)
         IN  /\ IsClock(n, P, F)
             /\ n.ring = s.ring
             /\ n.hand = Wrap(s.hand + 1, Len(s.ring))
<1> DEFINE n == Clock!AdvanceHand(s)
           L == Len(s.ring)
<1>1. L \in Nat /\ L # 0 /\ s.hand \in Nat /\ s.hand < L
  BY ClockFields DEF IsClock
<1>2. n = [ring |-> s.ring, hand |-> IF s.hand + 1 >= L THEN 0 ELSE s.hand + 1]
  BY DEF Clock!AdvanceHand, IsClock
<1> HIDE DEF n, L
<1>3. n.ring = s.ring /\ n.hand = IF s.hand + 1 >= L THEN 0 ELSE s.hand + 1
  BY <1>2
<1>4. n.hand = Wrap(s.hand + 1, L) /\ n.hand \in Nat /\ n.hand < L
  BY <1>1, <1>3 DEF Wrap
<1>5. n = [ring |-> n.ring, hand |-> n.hand]
  BY <1>2, <1>3
<1>6. IsClock(n, P, F)
  BY <1>3, <1>4, <1>5 DEF IsClock, L
<1> QED
  BY <1>3, <1>4, <1>6 DEF n, L

(* An inspection passes over one more entry if its bit is set, and stays if not. *)
LEMMA InspectPassedOver ==
  ASSUME NEW P, NEW F, NEW s, IsClock(s, P, F), s.ring # <<>>,
         NEW n \in 0 .. Len(s.ring) - 1
  PROVE  /\ Clock!BitAtHand(PassedOver(s, n)) = s.ring[PositionAt(s, n)].bit
         /\ Clock!Inspect(PassedOver(s, n)) =
              IF s.ring[PositionAt(s, n)].bit THEN PassedOver(s, n + 1) ELSE PassedOver(s, n)
<1> DEFINE t == PassedOver(s, n)
           v == PassedOver(s, n + 1)
           L == Len(s.ring)
           i == PositionAt(s, n)
<1>1. L \in Nat /\ L # 0 /\ s.hand \in Nat /\ s.hand < L /\ n \in 0 .. L /\ n + 1 \in 0 .. L
  BY ClockFields DEF IsClock
<1>2. /\ IsClock(t, P, F) /\ Len(t.ring) = L /\ t.hand + 1 = i
      /\ t.hand = Wrap(s.hand + n, L)
      /\ \A j \in 1 .. L :
           /\ t.ring[j].page = s.ring[j].page /\ t.ring[j].frame = s.ring[j].frame
           /\ t.ring[j].bit = (s.ring[j].bit /\ \A k \in 0 .. n - 1 : PositionAt(s, k) # j)
  BY <1>1, PassedOverFields
<1>3. /\ IsClock(v, P, F) /\ Len(v.ring) = L
      /\ v.hand = Wrap(s.hand + (n + 1), L)
      /\ \A j \in 1 .. L :
           /\ v.ring[j].page = s.ring[j].page /\ v.ring[j].frame = s.ring[j].frame
           /\ v.ring[j].bit = (s.ring[j].bit /\ \A k \in 0 .. n : PositionAt(s, k) # j)
  <2>1. (n + 1) - 1 = n
    BY <1>1
  <2>2. /\ IsClock(v, P, F) /\ Len(v.ring) = L
        /\ v.hand = Wrap(s.hand + (n + 1), L)
        /\ \A j \in 1 .. L :
             /\ v.ring[j].page = s.ring[j].page /\ v.ring[j].frame = s.ring[j].frame
             /\ v.ring[j].bit =
                  (s.ring[j].bit /\ \A k \in 0 .. (n + 1) - 1 : PositionAt(s, k) # j)
    BY <1>1, PassedOverFields
  <2> HIDE DEF v
  <2> QED
    BY <2>1, <2>2
<1> HIDE DEF t, v
<1>4. i \in 1 .. L /\ \A k \in 0 .. n - 1 : PositionAt(s, k) # i
  BY <1>1, Positions
<1> HIDE DEF L
<1>5. t.ring[i].bit = s.ring[i].bit
  <2>1. s.ring[i].bit \in BOOLEAN /\ t.ring[i].bit \in BOOLEAN
    BY <1>2, <1>4, ClockFields DEF L
  <2> HIDE DEF i
  <2> QED
    BY <1>2, <1>4, <2>1
<1>6. Clock!BitAtHand(t) = s.ring[i].bit
  BY <1>2, <1>5 DEF Clock!BitAtHand
<1>7. ASSUME ~s.ring[i].bit PROVE Clock!Inspect(t) = t
  BY <1>6, <1>7 DEF Clock!Inspect
<1>8. ASSUME s.ring[i].bit PROVE Clock!Inspect(t) = v
  <2> DEFINE u == [t EXCEPT !.ring[i].bit = FALSE]
             w == Clock!AdvanceHand(u)
  <2>1. /\ IsClock(u, P, F) /\ Len(u.ring) = L /\ u.hand = t.hand
        /\ \A j \in 1 .. L :
             /\ u.ring[j].page = t.ring[j].page /\ u.ring[j].frame = t.ring[j].frame
             /\ u.ring[j].bit = IF j = i THEN FALSE ELSE t.ring[j].bit
    <3> HIDE DEF i
    <3>1. i \in 1 .. Len(t.ring) /\ FALSE \in BOOLEAN /\ IsClock(t, P, F)
      BY <1>2, <1>4
    <3>2. BitChange(u, t, i, FALSE)
      BY DEF BitChange
    <3> HIDE DEF u
    <3>3. \A b \in BOOLEAN : BitChange(u, t, i, b) =>
            /\ IsClock(u, P, F)
            /\ Len(u.ring) = Len(t.ring)
            /\ u.hand = t.hand
            /\ \A j \in 1 .. Len(t.ring) :
                 /\ u.ring[j].page = t.ring[j].page
                 /\ u.ring[j].frame = t.ring[j].frame
                 /\ u.ring[j].bit = IF j = i THEN b ELSE t.ring[j].bit
      BY <3>1, SetBit
    <3> QED
      BY <1>2, <3>2, <3>3
  <2>2. Clock!Inspect(t) = w
    BY <1>2, <1>6, <1>8 DEF Clock!Inspect
  <2> HIDE DEF u
  <2>3. u.ring # <<>>
    BY <1>1, <2>1
  <2>4. IsClock(w, P, F) /\ w.ring = u.ring /\ w.hand = Wrap(u.hand + 1, L)
    BY <2>1, <2>3, HandMoved
  <2> HIDE DEF w
  <2>5. w.hand = v.hand
    <3>1. w.hand = Wrap(Wrap(s.hand + n, L) + 1, L)
      BY <1>2, <2>1, <2>4
    <3> DEFINE h == s.hand
    <3>2. h \in Nat /\ h < L /\ n \in Nat /\ n < L /\ L \in Nat
      BY <1>1
    <3> HIDE DEF h
    <3>3. Wrap(Wrap(h + n, L) + 1, L) = Wrap(h + (n + 1), L)
      BY <3>2 DEF Wrap
    <3> QED
      BY <1>3, <3>1, <3>3 DEF h
  <2>6. \A j \in 1 .. L : v.ring[j].bit = IF j = i THEN FALSE ELSE t.ring[j].bit
    <3> TAKE j \in 1 .. L
    <3>1. /\ v.ring[j].bit = (s.ring[j].bit /\ \A k \in 0 .. n : PositionAt(s, k) # j)
          /\ t.ring[j].bit = (s.ring[j].bit /\ \A k \in 0 .. n - 1 : PositionAt(s, k) # j)
      BY <1>2, <1>3
    <3>2. v.ring[j].bit \in BOOLEAN /\ t.ring[j].bit \in BOOLEAN
      BY <1>2, <1>3, ClockFields
    <3>3. 0 .. n = (0 .. n - 1) \cup {n}
      BY <1>1
    <3> QED
      BY <3>1, <3>2, <3>3
  <2>7. \A j \in 1 .. L : /\ w.ring[j].page = v.ring[j].page
                          /\ w.ring[j].frame = v.ring[j].frame
                          /\ w.ring[j].bit = v.ring[j].bit
    <3> TAKE j \in 1 .. L
    <3> HIDE DEF i
    <3>1. /\ w.ring[j].page = t.ring[j].page /\ w.ring[j].frame = t.ring[j].frame
          /\ w.ring[j].bit = IF j = i THEN FALSE ELSE t.ring[j].bit
      BY <2>1, <2>4
    <3> QED
      BY <1>2, <1>3, <2>6, <3>1
  <2>8. w = v
    BY <1>3, <2>1, <2>4, <2>5, <2>7, SameClock
  <2> QED
    BY <2>2, <2>8
<1> QED
  BY <1>6, <1>7, <1>8 DEF t, v

(* Before the first inspection nothing has been passed over. *)
LEMMA NothingPassed ==
  ASSUME NEW P, NEW F, NEW s, IsClock(s, P, F), s.ring # <<>>
  PROVE  PassedOver(s, 0) = s
<1> DEFINE t == PassedOver(s, 0)
           L == Len(s.ring)
<1>1. L \in Nat /\ L # 0 /\ s.hand \in Nat /\ s.hand < L /\ 0 \in 0 .. L
  BY ClockFields DEF IsClock
<1>2. /\ IsClock(t, P, F) /\ Len(t.ring) = L
      /\ t.hand = Wrap(s.hand + 0, L)
      /\ \A j \in 1 .. L :
           /\ t.ring[j].page = s.ring[j].page /\ t.ring[j].frame = s.ring[j].frame
           /\ t.ring[j].bit = (s.ring[j].bit /\ \A k \in 0 .. 0 - 1 : PositionAt(s, k) # j)
  BY <1>1, PassedOverFields
<1> HIDE DEF t
<1>3. \A j \in 1 .. L : t.ring[j].bit = s.ring[j].bit
  <2> TAKE j \in 1 .. L
  <2>1. s.ring[j].bit \in BOOLEAN
    BY ClockFields
  <2>2. t.ring[j].bit = (s.ring[j].bit /\ \A k \in 0 .. 0 - 1 : PositionAt(s, k) # j)
    BY <1>2
  <2>3. 0 .. 0 - 1 = {}
    OBVIOUS
  <2> QED
    BY <2>1, <2>2, <2>3
<1>4. t.hand = s.hand
  BY <1>1, <1>2 DEF Wrap
<1> QED
  BY <1>2, <1>3, <1>4, SameClock DEF t

(* The hand comes to every position. *)
LEMMA EveryPositionReached ==
  ASSUME NEW P, NEW F, NEW s, IsClock(s, P, F), s.ring # <<>>, NEW j \in 1 .. Len(s.ring)
  PROVE  \E k \in 0 .. Len(s.ring) - 1 : PositionAt(s, k) = j
<1> DEFINE L == Len(s.ring)
           h == s.hand
<1>1. L \in Nat /\ L # 0 /\ h \in Nat /\ h < L
  BY ClockFields DEF IsClock
<1>2. \A k \in Nat : PositionAt(s, k) = IF h + k < L THEN h + k + 1 ELSE h + k - L + 1
  BY <1>1 DEF PositionAt, Wrap
<1> HIDE DEF L, h
<1>3. j \in 1 .. L
  BY DEF L
<1>4. CASE j > h
  <2>1. j - 1 - h \in 0 .. L - 1 /\ h + (j - 1 - h) < L /\ h + (j - 1 - h) + 1 = j
    BY <1>1, <1>3, <1>4
  <2> QED
    BY <1>2, <2>1 DEF L
<1>5. CASE j <= h
  <2>1. /\ j - 1 - h + L \in 0 .. L - 1
        /\ ~(h + (j - 1 - h + L) < L)
        /\ h + (j - 1 - h + L) - L + 1 = j
    BY <1>1, <1>3, <1>5
  <2> QED
    BY <1>2, <2>1 DEF L
<1> QED
  BY <1>1, <1>3, <1>4, <1>5

(* After a full pass no bit is set. *)
LEMMA AllPassed ==
  ASSUME NEW P, NEW F, NEW s, IsClock(s, P, F), s.ring # <<>>
  PROVE  ~Clock!BitAtHand(PassedOver(s, Len(s.ring)))
<1> DEFINE L == Len(s.ring)
           t == PassedOver(s, L)
           i == PositionAt(s, L)
<1>1. L \in Nat /\ L # 0 /\ L \in 0 .. L
  BY ClockFields
<1>2. /\ t.hand + 1 = i
      /\ \A j \in 1 .. L :
           t.ring[j].bit = (s.ring[j].bit /\ \A k \in 0 .. L - 1 : PositionAt(s, k) # j)
  BY <1>1, PassedOverFields
<1> HIDE DEF t
<1>3. i \in 1 .. L
  BY <1>1, Positions
<1>4. \E k \in 0 .. L - 1 : PositionAt(s, k) = i
  BY <1>3, EveryPositionReached
<1> HIDE DEF i, L
<1>5. ~t.ring[i].bit
  BY <1>2, <1>3, <1>4
<1> QED
  BY <1>2, <1>5 DEF Clock!BitAtHand, t, L

(* The first entry from the hand on whose bit is clear stops the scan. *)
StopsAt(s, m) ==
  /\ m \in 0 .. Len(s.ring)
  /\ \A k \in 0 .. m - 1 : s.ring[PositionAt(s, k)].bit
  /\ m < Len(s.ring) => ~s.ring[PositionAt(s, m)].bit

(* There is an entry at which the scan stops. *)
LEMMA ScanStops ==
  ASSUME NEW P, NEW F, NEW s, IsClock(s, P, F), s.ring # <<>>
  PROVE  \E m : StopsAt(s, m)
<1> DEFINE L == Len(s.ring)
           K == {k \in 0 .. L - 1 : ~s.ring[PositionAt(s, k)].bit}
<1>1. L \in Nat
  BY ClockFields
<1>2. CASE K = {}
  <2>1. StopsAt(s, L)
    BY <1>1, <1>2 DEF StopsAt
  <2> QED
    BY <2>1
<1>3. CASE K # {}
  <2> DEFINE m == Min(K)
  <2>1. m \in K /\ \A k \in K : m <= k
    <3>1. K \in SUBSET Nat
      BY <1>1
    <3> QED
      BY <1>3, <3>1, LeastNatural
  <2> HIDE DEF m
  <2>2. \A k \in 0 .. m - 1 : k \in 0 .. L - 1 /\ ~(m <= k)
    BY <1>1, <2>1
  <2>3. \A k \in 0 .. m - 1 : s.ring[PositionAt(s, k)].bit
    BY <2>1, <2>2
  <2>4. StopsAt(s, m)
    BY <1>1, <2>1, <2>3 DEF StopsAt
  <2> QED
    BY <2>4
<1> QED
  BY <1>2, <1>3

(* The scan stops there, long before it would give up, and finds the bit clear. *)
LEMMA ScanOutcome ==
  ASSUME NEW P, NEW F, NEW s, IsClock(s, P, F), s.ring # <<>>, NEW m, StopsAt(s, m)
  PROVE  /\ Clock!ScanEnd(s) = PassedOver(s, m)
         /\ ~Clock!BitAtHand(PassedOver(s, m))
<1> DEFINE L == Len(s.ring)
<1>1. L \in Nat /\ L # 0 /\ m \in 0 .. L /\ Len(s.ring) \in Nat \ {0}
  BY ClockFields DEF StopsAt
<1>2. PICK g : /\ g[0] = s
               /\ \A n \in 1 .. 2 * Len(s.ring) : g[n] = Clock!Inspect(g[n - 1])
               /\ Clock!ScanEnd(s) = g[2 * Len(s.ring) - 1]
  BY <1>1, ScanSteps
<1>3. ~Clock!BitAtHand(PassedOver(s, m))
  <2>1. CASE m = L
    BY <2>1, AllPassed
  <2>2. CASE m # L
    <3>1. m \in 0 .. L - 1 /\ ~s.ring[PositionAt(s, m)].bit
      BY <1>1, <2>2 DEF StopsAt
    <3> QED
      BY <3>1, InspectPassedOver
  <2> QED
    BY <2>1, <2>2
<1>4. Clock!Inspect(PassedOver(s, m)) = PassedOver(s, m)
  BY <1>3 DEF Clock!Inspect
<1>5. \A n \in 0 .. m - 1 : Clock!Inspect(PassedOver(s, n)) = PassedOver(s, n + 1)
  <2> TAKE n \in 0 .. m - 1
  <2>1. n \in 0 .. L - 1 /\ s.ring[PositionAt(s, n)].bit
    BY <1>1 DEF StopsAt
  <2> QED
    BY <2>1, InspectPassedOver
<1> DEFINE At(n) == PassedOver(s, IF n <= m THEN n ELSE m)
           N == 2 * L
           K == {n \in 0 .. N : g[n] # At(n)}
<1> HIDE DEF L
<1>6. K = {}
  <2>1. SUFFICES ASSUME K # {} PROVE FALSE
    OBVIOUS
  <2> DEFINE k == Min(K)
  <2>2. k \in K /\ \A j \in K : k <= j
    <3>1. K \in SUBSET Nat
      BY <1>1
    <3> QED
      BY <2>1, <3>1, LeastNatural
  <2> HIDE DEF k
  <2>3. k # 0
    <3>1. At(0) = s
      BY <1>1, NothingPassed
    <3> QED
      BY <1>2, <2>2, <3>1
  <2>4. k - 1 \in 0 .. N /\ k \in 1 .. N /\ k - 1 \notin K
    BY <1>1, <2>2, <2>3
  <2>5. g[k] = Clock!Inspect(At(k - 1))
    BY <1>2, <2>4 DEF L
  <2>6. CASE k <= m
    <3>1. k - 1 \in 0 .. m - 1 /\ (k - 1) + 1 = k /\ k - 1 <= m
      BY <1>1, <2>4, <2>6
    <3>2. g[k] = At(k)
      BY <1>5, <2>5, <2>6, <3>1
    <3> QED
      BY <2>2, <3>2
  <2>7. CASE ~(k <= m)
    <3>1. At(k - 1) = PassedOver(s, m)
      <4>1. k - 1 <= m => k - 1 = m
        BY <1>1, <2>4, <2>7
      <4> QED
        BY <4>1
    <3>2. g[k] = At(k)
      BY <1>4, <2>5, <2>7, <3>1
    <3> QED
      BY <2>2, <3>2
  <2> QED
    BY <2>6, <2>7
<1>7. N - 1 \in 0 .. N /\ (N - 1 <= m => N - 1 = m)
  BY <1>1
<1>8. g[N - 1] = PassedOver(s, m)
  BY <1>6, <1>7
<1> QED
  BY <1>2, <1>3, <1>8 DEF L

(* The pairs of the ring. *)
LEMMA ClockTracked ==
  ASSUME NEW P, NEW F, NEW s, IsClock(s, P, F)
  PROVE  \A e : e \in Clock!Tracked(s) <=>
           \E i \in 1 .. Len(s.ring) : e = Pair(s.ring[i].page, s.ring[i].frame)
BY DEF Clock!Tracked, Clock!Entry, Pair

(* They are pairs of a page and a frame, none only of the empty ring. *)
LEMMA ClockTrackedPairs ==
  ASSUME NEW P, NEW F, NEW s, IsClock(s, P, F)
  PROVE  /\ Clock!Tracked(s) \subseteq Pairs(P, F)
         /\ Clock!Tracked(s) = {} <=> s.ring = <<>>
         /\ \A i \in 1 .. Len(s.ring) : Pair(s.ring[i].page, s.ring[i].frame) \in Clock!Tracked(s)
<1>1. \A e : e \in Clock!Tracked(s) <=>
        \E i \in 1 .. Len(s.ring) : e = Pair(s.ring[i].page, s.ring[i].frame)
  BY ClockTracked
<1>2. /\ Len(s.ring) \in Nat /\ (s.ring = <<>> <=> Len(s.ring) = 0)
      /\ \A i \in 1 .. Len(s.ring) : s.ring[i].page \in P /\ s.ring[i].frame \in F
  BY ClockFields
<1>3. Clock!Tracked(s) \subseteq Pairs(P, F)
  BY <1>1, <1>2 DEF Pair, Pairs
<1>4. \A i \in 1 .. Len(s.ring) : Pair(s.ring[i].page, s.ring[i].frame) \in Clock!Tracked(s)
  BY <1>1
<1>5. Clock!Tracked(s) = {} <=> s.ring = <<>>
  <2>1. Len(s.ring) # 0 => 1 \in 1 .. Len(s.ring)
    BY <1>2
  <2> QED
    BY <1>1, <1>2, <1>4, <2>1
<1> QED
  BY <1>3, <1>4, <1>5

(* A pair, and a conflict with a pair, is found in the ring. *)
LEMMA ClockPairTracked ==
  ASSUME NEW P, NEW F, NEW s, IsClock(s, P, F), NEW p, NEW f
  PROVE  /\ Pair(p, f) \in Clock!Tracked(s) <=>
              \E i \in 1 .. Len(s.ring) : s.ring[i].page = p /\ s.ring[i].frame = f
         /\ Conflicts(Clock!Tracked(s), p, f) <=>
              \E i \in 1 .. Len(s.ring) : s.ring[i].page = p \/ s.ring[i].frame = f
<1>1. \A e : e \in Clock!Tracked(s) <=>
        \E i \in 1 .. Len(s.ring) : e = Pair(s.ring[i].page, s.ring[i].frame)
  BY ClockTracked
<1>2. \A q, g : Pair(p, f) = Pair(q, g) <=> p = q /\ f = g
  BY DEF Pair
<1>3. \A q, g : Pair(q, g).page = q /\ Pair(q, g).frame = g
  BY DEF Pair
<1>4. Pair(p, f) \in Clock!Tracked(s) <=>
         \E i \in 1 .. Len(s.ring) : s.ring[i].page = p /\ s.ring[i].frame = f
  BY <1>1, <1>2
<1>5. Conflicts(Clock!Tracked(s), p, f) <=>
         \E i \in 1 .. Len(s.ring) : s.ring[i].page = p \/ s.ring[i].frame = f
  BY <1>1, <1>3 DEF Conflicts
<1> QED
  BY <1>4, <1>5

(* The empty state of Clock. *)
LEMMA ClockEmpty ==
  ASSUME NEW P, NEW F
  PROVE  IsClock(Clock!Empty, P, F) /\ Clock!Tracked(Clock!Empty) = {}
<1>1. IsClock(Clock!Empty, P, F)
  BY EmptySeq, LenProperties DEF IsClock, Clock!Empty, Distinct
<1>2. Clock!Empty.ring = <<>>
  BY DEF Clock!Empty
<1> QED
  BY <1>1, <1>2, ClockTrackedPairs

(* A pair that conflicts with none joins the ring, behind the others. *)
LEMMA ClockPageLoaded ==
  ASSUME NEW P, NEW F, NEW s, IsClock(s, P, F), NEW p \in P, NEW f \in F
  PROVE  LET n == Clock!PageLoaded(s, p, f)
         IN  /\ IsClock(n, P, F)
             /\ Clock!Tracked(n) =
                  IF Conflicts(Clock!Tracked(s), p, f) THEN Clock!Tracked(s)
                  ELSE Clock!Tracked(s) \cup {Pair(p, f)}
<1> DEFINE n == Clock!PageLoaded(s, p, f)
           e == [page |-> p, frame |-> f, bit |-> TRUE]
           r == Append(s.ring, e)
           h == IF s.ring = <<>> THEN 0 ELSE s.hand
           L == Len(s.ring)
<1>1. n = IF Conflicts(Clock!Tracked(s), p, f) THEN s ELSE [ring |-> r, hand |-> h]
  <2>1. Clock!TracksPageOrFrame(s, p, f) <=> Conflicts(Clock!Tracked(s), p, f)
    BY ClockPairTracked DEF Clock!TracksPageOrFrame
  <2> QED
    BY <2>1 DEF Clock!PageLoaded
<1>2. CASE Conflicts(Clock!Tracked(s), p, f)
  BY <1>1, <1>2
<1>3. CASE ~Conflicts(Clock!Tracked(s), p, f)
  <2>1. \A i \in 1 .. L : s.ring[i].page # p /\ s.ring[i].frame # f
    BY <1>3, ClockPairTracked
  <2>2. /\ s.ring \in Seq(RingEntries(P, F)) /\ Distinct(s.ring) /\ s.hand \in Nat
        /\ IF s.ring = <<>> THEN s.hand = 0 ELSE s.hand < L
        /\ L \in Nat /\ (s.ring = <<>> <=> L = 0)
    BY ClockFields DEF IsClock
  <2>3. e \in RingEntries(P, F) /\ e.page = p /\ e.frame = f
    BY DEF RingEntries
  <2> HIDE DEF e, L
  <2>4. /\ r \in Seq(RingEntries(P, F)) /\ Len(r) = L + 1 /\ r # <<>>
        /\ \A i \in 1 .. L : r[i] = s.ring[i]
        /\ r[L + 1] = e
    BY <2>2, <2>3, AppendProperties DEF L
  <2> HIDE DEF r
  <2>5. \A i \in 1 .. Len(r) : i \in 1 .. L \/ i = L + 1
    BY <2>2, <2>4
  <2>6. Distinct(r)
    <3> SUFFICES ASSUME NEW i \in 1 .. Len(r), NEW j \in 1 .. Len(r),
                        r[i].page = r[j].page \/ r[i].frame = r[j].frame
                 PROVE  i = j
      BY DEF Distinct
    <3>1. CASE i \in 1 .. L /\ j \in 1 .. L
      BY <2>2, <2>4, <3>1 DEF Distinct, L
    <3>2. CASE i \in 1 .. L /\ j = L + 1
      BY <2>1, <2>3, <2>4, <3>2
    <3>3. CASE i = L + 1 /\ j \in 1 .. L
      BY <2>1, <2>3, <2>4, <3>3
    <3> QED
      BY <2>5, <3>1, <3>2, <3>3
  <2>7. h \in Nat /\ h < Len(r)
    BY <2>2, <2>4
  <2> HIDE DEF n, h
  <2>8. n = [ring |-> r, hand |-> h] /\ n.ring = r /\ n.hand = h
    BY <1>1, <1>3
  <2>9. IsClock(n, P, F)
    BY <2>4, <2>6, <2>7, <2>8 DEF IsClock
  <2>10. \A d : d \in Clock!Tracked(n) <=>
           \E i \in 1 .. Len(r) : d = Pair(r[i].page, r[i].frame)
    <3>1. \A d : d \in Clock!Tracked(n) <=>
            \E i \in 1 .. Len(n.ring) : d = Pair(n.ring[i].page, n.ring[i].frame)
      BY <2>9, ClockTracked
    <3> QED
      BY <2>8, <3>1
  <2>11. \A d : d \in Clock!Tracked(s) <=>
           \E i \in 1 .. L : d = Pair(s.ring[i].page, s.ring[i].frame)
    BY ClockTracked DEF L
  <2>12. Clock!Tracked(n) = Clock!Tracked(s) \cup {Pair(p, f)}
    <3>1. \A i \in 1 .. L : i \in 1 .. Len(r)
      BY <2>2, <2>4
    <3>2. L + 1 \in 1 .. Len(r)
      BY <2>2, <2>4
    <3>3. Clock!Tracked(n) \subseteq Clock!Tracked(s) \cup {Pair(p, f)}
      BY <2>3, <2>4, <2>5, <2>10, <2>11
    <3>4. Clock!Tracked(s) \subseteq Clock!Tracked(n)
      BY <2>4, <2>10, <2>11, <3>1
    <3>5. Pair(p, f) \in Clock!Tracked(n)
      BY <2>3, <2>4, <2>10, <3>2
    <3> QED
      BY <3>3, <3>4, <3>5
  <2> QED
    BY <1>3, <2>9, <2>12 DEF n
<1> QED
  BY <1>2, <1>3

(* Bits and hand do not matter to what is tracked. *)
LEMMA SameRingPairs ==
  ASSUME NEW P, NEW F, NEW s, IsClock(s, P, F), NEW n, IsClock(n, P, F),
         Len(n.ring) = Len(s.ring),
         \A i \in 1 .. Len(s.ring) : n.ring[i].page = s.ring[i].page
                                   /\ n.ring[i].frame = s.ring[i].frame
  PROVE  Clock!Tracked(n) = Clock!Tracked(s)
<1>1. \A e : e \in Clock!Tracked(s) <=>
        \E i \in 1 .. Len(s.ring) : e = Pair(s.ring[i].page, s.ring[i].frame)
  BY ClockTracked
<1>2. \A e : e \in Clock!Tracked(n) <=>
        \E i \in 1 .. Len(n.ring) : e = Pair(n.ring[i].page, n.ring[i].frame)
  BY ClockTracked
<1>3. \A e : e \in Clock!Tracked(n) <=> e \in Clock!Tracked(s)
  BY <1>1, <1>2
<1> QED
  BY <1>3

(* The position at which a pair is found. *)
LEMMA ClockPosition ==
  ASSUME NEW P, NEW F, NEW s, IsClock(s, P, F), NEW p, NEW f
  PROVE  /\ Clock!PositionsOf(s, p, f) = {} <=> Pair(p, f) \notin Clock!Tracked(s)
         /\ Pair(p, f) \in Clock!Tracked(s) =>
              LET i == Clock!Min(Clock!PositionsOf(s, p, f))
              IN  /\ i \in 1 .. Len(s.ring)
                  /\ s.ring[i].page = p /\ s.ring[i].frame = f
                  /\ \A j \in 1 .. Len(s.ring) :
                       s.ring[j].page = p \/ s.ring[j].frame = f => j = i
<1> DEFINE I == Clock!PositionsOf(s, p, f)
<1>1. I = {i \in 1 .. Len(s.ring) : s.ring[i].page = p /\ s.ring[i].frame = f}
  BY DEF Clock!PositionsOf
<1>2. I = {} <=> Pair(p, f) \notin Clock!Tracked(s)
  <2>1. Pair(p, f) \in Clock!Tracked(s) <=>
          \E i \in 1 .. Len(s.ring) : s.ring[i].page = p /\ s.ring[i].frame = f
    BY ClockPairTracked
  <2> QED
    BY <1>1, <2>1
<1>3. I \in SUBSET Nat
  BY <1>1
<1>4. ASSUME I # {} PROVE Clock!Min(I) \in I
  <2> HIDE DEF I
  <2>1. Clock!Min(I) = Min(I)
    BY DEF Clock!Min, Min
  <2> QED
    BY <1>3, <1>4, <2>1, LeastNatural
<1>5. \A i, j \in 1 .. Len(s.ring) :
        s.ring[i].page = s.ring[j].page \/ s.ring[i].frame = s.ring[j].frame => i = j
  BY DEF IsClock, Distinct
<1> QED
  BY <1>1, <1>2, <1>4, <1>5

(* An access assigns a bit. *)
LEMMA ClockPageAccessed ==
  ASSUME NEW P, NEW F, NEW s, IsClock(s, P, F), NEW p \in P, NEW f \in F
  PROVE  LET n == Clock!PageAccessed(s, p, f)
         IN  IsClock(n, P, F) /\ Clock!Tracked(n) = Clock!Tracked(s)
<1> DEFINE n == Clock!PageAccessed(s, p, f)
           i == Clock!Min(Clock!PositionsOf(s, p, f))
<1>1. CASE Pair(p, f) \notin Clock!Tracked(s)
  BY <1>1, ClockPosition DEF Clock!PageAccessed
<1>2. CASE Pair(p, f) \in Clock!Tracked(s)
  <2>1. i \in 1 .. Len(s.ring) /\ Clock!PositionsOf(s, p, f) # {}
    BY <1>2, ClockPosition
  <2>2. BitChange(n, s, i, TRUE)
    BY <2>1 DEF BitChange, Clock!PageAccessed
  <2> HIDE DEF n, i
  <2>3. \A b \in BOOLEAN : BitChange(n, s, i, b) =>
          /\ IsClock(n, P, F)
          /\ Len(n.ring) = Len(s.ring)
          /\ \A j \in 1 .. Len(s.ring) :
               /\ n.ring[j].page = s.ring[j].page
               /\ n.ring[j].frame = s.ring[j].frame
    BY <2>1, SetBit
  <2> QED
    BY <2>2, <2>3, SameRingPairs DEF n
<1> QED
  BY <1>1, <1>2

(* Removing the pair at position i. *)
ClockWithout(s, i) ==
  [ring |-> RemoveAt(s.ring, i),
   hand |-> Clock!HandAfterRemoval(s.hand, i - 1, Len(s.ring) - 1)]

(* Removing an entry moves the later ones up and leaves the hand in the ring. *)
LEMMA ClockRemoval ==
  ASSUME NEW P, NEW F, NEW s, IsClock(s, P, F), NEW i \in 1 .. Len(s.ring)
  PROVE  LET n == ClockWithout(s, i)
         IN  /\ IsClock(n, P, F)
             /\ Len(n.ring) = Len(s.ring) - 1
             /\ n.hand = Clock!HandAfterRemoval(s.hand, i - 1, Len(s.ring) - 1)
             /\ \A j \in 1 .. Len(s.ring) - 1 :
                  n.ring[j] = IF j < i THEN s.ring[j] ELSE s.ring[j + 1]
             /\ Clock!Tracked(n) =
                  Clock!Tracked(s) \ {Pair(s.ring[i].page, s.ring[i].frame)}
<1> DEFINE n == ClockWithout(s, i)
           L == Len(s.ring)
           r == RemoveAt(s.ring, i)
           h == Clock!HandAfterRemoval(s.hand, i - 1, L - 1)
<1>1. /\ s.ring \in Seq(RingEntries(P, F)) /\ Distinct(s.ring) /\ s.hand \in Nat
      /\ s.hand < L /\ L \in Nat /\ i \in 1 .. L
  BY ClockFields DEF IsClock
<1>2. /\ r \in Seq(RingEntries(P, F)) /\ Len(r) = L - 1
      /\ \A j \in 1 .. L - 1 : r[j] = IF j < i THEN s.ring[j] ELSE s.ring[j + 1]
  BY <1>1, RemoveAtEffect
<1>3. n = [ring |-> r, hand |-> h] /\ n.ring = r /\ n.hand = h
  BY DEF ClockWithout
<1> HIDE DEF n, r, L
<1>4. Distinct(r)
  <2>1. \A j, k \in 1 .. L :
          s.ring[j].page = s.ring[k].page \/ s.ring[j].frame = s.ring[k].frame => j = k
    BY <1>1 DEF Distinct, L
  <2> SUFFICES ASSUME NEW j \in 1 .. Len(r), NEW k \in 1 .. Len(r),
                      r[j].page = r[k].page \/ r[j].frame = r[k].frame
               PROVE  j = k
    BY DEF Distinct
  <2>2. j \in 1 .. L - 1 /\ k \in 1 .. L - 1
    BY <1>2
  <2>3. j \in 1 .. L /\ j + 1 \in 1 .. L /\ k \in 1 .. L /\ k + 1 \in 1 .. L
    BY <1>1, <2>2
  <2> DEFINE J == IF j < i THEN j ELSE j + 1
             K == IF k < i THEN k ELSE k + 1
  <2>4. r[j] = s.ring[J] /\ r[k] = s.ring[K] /\ J \in 1 .. L /\ K \in 1 .. L
    BY <1>2, <2>2, <2>3
  <2>5. J = K
    BY <2>1, <2>4
  <2> QED
    BY <1>1, <2>2, <2>5
<1>5. h \in Nat /\ (IF L - 1 = 0 THEN h = 0 ELSE h < L - 1)
  <2>1. s.hand \in Nat /\ s.hand < L /\ L \in Nat /\ i \in 1 .. L
    BY <1>1
  <2> QED
    BY <2>1 DEF Clock!HandAfterRemoval
<1> HIDE DEF h
<1>6. r = <<>> <=> L - 1 = 0
  BY <1>2, EmptySeq
<1>7. IsClock(n, P, F)
  BY <1>2, <1>3, <1>4, <1>5, <1>6 DEF IsClock
<1>8. \A d : d \in Clock!Tracked(n) <=>
        \E j \in 1 .. L - 1 : d = Pair(r[j].page, r[j].frame)
  <2>1. \A d : d \in Clock!Tracked(n) <=>
          \E j \in 1 .. Len(n.ring) : d = Pair(n.ring[j].page, n.ring[j].frame)
    BY <1>7, ClockTracked
  <2> QED
    BY <1>2, <1>3, <2>1
<1>9. \A d : d \in Clock!Tracked(s) <=>
        \E j \in 1 .. L : d = Pair(s.ring[j].page, s.ring[j].frame)
  BY ClockTracked DEF L
<1>10. \A j \in 1 .. L : Pair(s.ring[j].page, s.ring[j].frame)
                             = Pair(s.ring[i].page, s.ring[i].frame) => j = i
  <2>1. \A j, k \in 1 .. L : s.ring[j].page = s.ring[k].page => j = k
    BY <1>1 DEF Distinct, L
  <2>2. \A p, f : Pair(p, f).page = p
    BY DEF Pair
  <2> QED
    BY <1>1, <2>1, <2>2
<1>11. ASSUME NEW j \in 1 .. L - 1
       PROVE  Pair(r[j].page, r[j].frame) \in
                Clock!Tracked(s) \ {Pair(s.ring[i].page, s.ring[i].frame)}
  <2> DEFINE J == IF j < i THEN j ELSE j + 1
  <2>1. J \in 1 .. L /\ J # i
    BY <1>1
  <2>2. r[j] = s.ring[J]
    BY <1>2
  <2> QED
    BY <1>9, <1>10, <2>1, <2>2
<1>12. ASSUME NEW j \in 1 .. L, j # i
       PROVE  Pair(s.ring[j].page, s.ring[j].frame) \in Clock!Tracked(n)
  <2> DEFINE J == IF j < i THEN j ELSE j - 1
  <2>1. J \in 1 .. L - 1 /\ (IF J < i THEN J = j ELSE J + 1 = j)
    BY <1>1, <1>12
  <2>2. r[J] = s.ring[j]
    BY <1>2, <2>1
  <2> QED
    BY <1>8, <2>1, <2>2
<1>13. Clock!Tracked(n) = Clock!Tracked(s) \ {Pair(s.ring[i].page, s.ring[i].frame)}
  <2>1. Clock!Tracked(n) \subseteq Clock!Tracked(s) \ {Pair(s.ring[i].page, s.ring[i].frame)}
    BY <1>8, <1>11
  <2>2. ASSUME NEW d \in Clock!Tracked(s), d # Pair(s.ring[i].page, s.ring[i].frame)
        PROVE  d \in Clock!Tracked(n)
    <3>1. PICK j \in 1 .. L : d = Pair(s.ring[j].page, s.ring[j].frame)
      BY <1>9
    <3> QED
      BY <1>12, <2>2, <3>1
  <2> QED
    BY <2>1, <2>2
<1> QED
  BY <1>2, <1>3, <1>7, <1>13 DEF n, L, h

(* A removal removes the entry of the pair, if there is one. *)
LEMMA ClockPageRemoved ==
  ASSUME NEW P, NEW F, NEW s, IsClock(s, P, F), NEW p \in P, NEW f \in F
  PROVE  LET n == Clock!PageRemoved(s, p, f)
         IN  /\ IsClock(n, P, F)
             /\ Clock!Tracked(n) = Clock!Tracked(s) \ {Pair(p, f)}
             /\ Pair(p, f) \in Clock!Tracked(s) =>
                  \E i \in 1 .. Len(s.ring) : /\ s.ring[i].page = p /\ s.ring[i].frame = f
                                             /\ n = ClockWithout(s, i)
             /\ Pair(p, f) \notin Clock!Tracked(s) => n = s
<1> DEFINE n == Clock!PageRemoved(s, p, f)
           i == Clock!Min(Clock!PositionsOf(s, p, f))
<1>1. CASE Pair(p, f) \notin Clock!Tracked(s)
  BY <1>1, ClockPosition DEF Clock!PageRemoved
<1>2. CASE Pair(p, f) \in Clock!Tracked(s)
  <2>1. /\ i \in 1 .. Len(s.ring) /\ s.ring[i].page = p /\ s.ring[i].frame = f
        /\ Clock!PositionsOf(s, p, f) # {}
    BY <1>2, ClockPosition
  <2>2. n = ClockWithout(s, i)
    BY <2>1, SameRemoveFirst DEF Clock!PageRemoved, ClockWithout
  <2> HIDE DEF n, i
  <2>3. /\ IsClock(n, P, F)
        /\ Clock!Tracked(n) = Clock!Tracked(s) \ {Pair(s.ring[i].page, s.ring[i].frame)}
    BY <2>1, <2>2, ClockRemoval
  <2> QED
    BY <1>2, <2>1, <2>2, <2>3 DEF n
<1> QED
  BY <1>1, <1>2

(* The frame of an entry. *)
FrameAt(s, i) == s.ring[i].frame

(* There is always a choice; it clears the bits passed over and moves the hand past the victim. *)
LEMMA ClockChoice ==
  ASSUME NEW P, NEW F, NEW s, IsClock(s, P, F), s.ring # <<>>, NEW m, StopsAt(s, m)
  PROVE  /\ Clock!HasVictim(s)
         /\ Clock!AfterChoice(s).ring = PassedOver(s, m).ring
         /\ Clock!AfterChoice(s).hand = Wrap(Wrap(s.hand + m, Len(s.ring)) + 1, Len(s.ring))
         /\ IsClock(Clock!AfterChoice(s), P, F)
         /\ Clock!Tracked(Clock!AfterChoice(s)) = Clock!Tracked(s)
<1> DEFINE t == PassedOver(s, m)
           L == Len(s.ring)
           i == PositionAt(s, m)
           n == Clock!AfterChoice(s)
<1>1. m \in 0 .. L
  BY DEF StopsAt
<1>2. Clock!ScanEnd(s) = t /\ ~Clock!BitAtHand(t)
  BY ScanOutcome
<1>3. i \in 1 .. L
  BY <1>1, Positions
<1>4. /\ IsClock(t, P, F) /\ Len(t.ring) = L /\ t.hand = Wrap(s.hand + m, L) /\ t.hand + 1 = i
      /\ \A j \in 1 .. L : t.ring[j].page = s.ring[j].page /\ t.ring[j].frame = s.ring[j].frame
  BY <1>1, PassedOverFields
<1> HIDE DEF t, i
<1>5. Clock!HasVictim(s)
  BY <1>2 DEF Clock!HasVictim
<1>7. n = Clock!AdvanceHand(t)
  BY <1>2, <1>5 DEF Clock!AfterChoice
<1> HIDE DEF n
<1>8. t.ring # <<>>
  BY <1>4, ClockFields
<1>9. IsClock(n, P, F) /\ n.ring = t.ring /\ n.hand = Wrap(t.hand + 1, L)
  BY <1>4, <1>7, <1>8, HandMoved
<1>10. Clock!Tracked(n) = Clock!Tracked(s)
  BY <1>4, <1>9, SameRingPairs
<1> QED
  BY <1>4, <1>5, <1>9, <1>10 DEF t, n

(* The victim is the entry at which the scan stops. *)
LEMMA ClockVictim ==
  ASSUME NEW P, NEW F, NEW s, IsClock(s, P, F), s.ring # <<>>, NEW m, StopsAt(s, m)
  PROVE  /\ PositionAt(s, m) \in 1 .. Len(s.ring)
         /\ Clock!Victim(s) = FrameAt(s, PositionAt(s, m))
<1>1. Clock!ScanEnd(s) = PassedOver(s, m)
  BY ScanOutcome
<1>2. m \in 0 .. Len(s.ring)
  BY DEF StopsAt
<1>3. PositionAt(s, m) \in 1 .. Len(s.ring)
  BY <1>2, Positions
<1>4. /\ PassedOver(s, m).hand + 1 = PositionAt(s, m)
      /\ \A j \in 1 .. Len(s.ring) : PassedOver(s, m).ring[j].frame = s.ring[j].frame
  BY <1>2, PassedOverFields
<1>5. Clock!Victim(s) = PassedOver(s, m).ring[PassedOver(s, m).hand + 1].frame
  BY <1>1 DEF Clock!Victim
<1> QED
  BY <1>3, <1>4, <1>5 DEF FrameAt

(* Clock chooses a tracked frame whenever there is one, and tracks what it did. *)
LEMMA ClockContract ==
  ASSUME NEW P, NEW F, NEW s, IsClock(s, P, F)
  PROVE  /\ Clock!HasVictim(s) <=> Clock!Tracked(s) # {}
         /\ Clock!HasVictim(s) => \E e \in Clock!Tracked(s) : Clock!Victim(s) = e.frame
         /\ IsClock(Clock!AfterChoice(s), P, F)
         /\ Clock!Tracked(Clock!AfterChoice(s)) = Clock!Tracked(s)
<1>1. Clock!Tracked(s) = {} <=> s.ring = <<>>
  BY ClockTrackedPairs
<1>2. CASE s.ring = <<>>
  BY <1>1, <1>2 DEF Clock!HasVictim, Clock!AfterChoice
<1>3. CASE s.ring # <<>>
  <2>1. PICK m : StopsAt(s, m)
    BY <1>3, ScanStops
  <2>2. /\ Clock!HasVictim(s)
        /\ PositionAt(s, m) \in 1 .. Len(s.ring)
        /\ Clock!Victim(s) = s.ring[PositionAt(s, m)].frame
        /\ IsClock(Clock!AfterChoice(s), P, F)
        /\ Clock!Tracked(Clock!AfterChoice(s)) = Clock!Tracked(s)
    <3>1. Clock!HasVictim(s) /\ PositionAt(s, m) \in 1 .. Len(s.ring)
      BY <1>3, <2>1, ClockChoice, ClockVictim
    <3>2. Clock!Victim(s) = s.ring[PositionAt(s, m)].frame
      <4>1. Clock!Victim(s) = FrameAt(s, PositionAt(s, m))
        BY <1>3, <2>1, ClockVictim
      <4> QED
        BY <4>1 DEF FrameAt
    <3>3. IsClock(Clock!AfterChoice(s), P, F)
      BY <1>3, <2>1, ClockChoice
    <3>4. Clock!Tracked(Clock!AfterChoice(s)) = Clock!Tracked(s)
      BY <1>3, <2>1, ClockChoice
    <3> QED
      BY <3>1, <3>2, <3>3, <3>4
  <2> DEFINE e == Pair(s.ring[PositionAt(s, m)].page, s.ring[PositionAt(s, m)].frame)
  <2>3. e \in Clock!Tracked(s)
    BY <2>2, ClockTrackedPairs
  <2>4. e.frame = s.ring[PositionAt(s, m)].frame
    BY DEF Pair
  <2> QED
    BY <1>1, <1>3, <2>2, <2>3, <2>4
<1> QED
  BY <1>2, <1>3

-----------------------------------------------------------------------------
(* Optimal *)

(* The state of Optimal. *)
IsOptimal(s, P, F) ==
  /\ s = [resident |-> s.resident, references |-> s.references, position |-> s.position]
  /\ IsQueue(s.resident, P, F)
  /\ Len(s.references) \in Nat
  /\ s.position \in Nat

(* The empty state of Optimal. *)
LEMMA OptimalEmpty ==
  ASSUME NEW P, NEW F
  PROVE  IsOptimal(Optimal!Empty, P, F) /\ ToSet(Optimal!Empty.resident) = {}
BY EmptyQueue DEF IsOptimal, Optimal!Empty

(* The fields of a state of the optimal policy. *)
LEMMA OptimalFields ==
  ASSUME NEW P, NEW F, NEW s, IsOptimal(s, P, F), NEW p, NEW f
  PROVE  /\ s = [resident |-> s.resident, references |-> s.references, position |-> s.position]
         /\ IsQueue(s.resident, P, F)
         /\ s.position \in Nat /\ Len(s.references) \in Nat
         /\ Optimal!Entry(p, f) = Pair(p, f)
         /\ Optimal!Tracks(s, p, f) <=> Conflicts(ToSet(s.resident), p, f)
<1>1. /\ s = [resident |-> s.resident, references |-> s.references, position |-> s.position]
      /\ IsQueue(s.resident, P, F)
      /\ s.position \in Nat /\ Len(s.references) \in Nat
  BY DEF IsOptimal
<1>2. ToSet(s.resident) = {s.resident[i] : i \in 1 .. Len(s.resident)}
  BY <1>1, QueueElements
<1>3. Optimal!Tracks(s, p, f) <=> Conflicts(ToSet(s.resident), p, f)
  BY <1>2 DEF Optimal!Tracks, Conflicts
<1>4. Optimal!Entry(p, f) = Pair(p, f)
  BY DEF Optimal!Entry, Pair
<1> QED
  BY <1>1, <1>3, <1>4

(* A pair that conflicts with none is loaded behind the others. *)
LEMMA OptimalPageLoaded ==
  ASSUME NEW P, NEW F, NEW s, IsOptimal(s, P, F), NEW p \in P, NEW f \in F
  PROVE  LET n == Optimal!PageLoaded(s, p, f)
         IN  /\ IsOptimal(n, P, F)
             /\ n.resident = IF Conflicts(ToSet(s.resident), p, f) THEN s.resident
                             ELSE Append(s.resident, Pair(p, f))
             /\ ToSet(n.resident) = IF Conflicts(ToSet(s.resident), p, f) THEN ToSet(s.resident)
                                    ELSE ToSet(s.resident) \cup {Pair(p, f)}
<1> DEFINE q == s.resident
           r == Append(q, Pair(p, f))
           n == Optimal!PageLoaded(s, p, f)
<1>1. /\ s = [resident |-> q, references |-> s.references, position |-> s.position]
      /\ IsQueue(q, P, F)
      /\ s.position \in Nat /\ Len(s.references) \in Nat
      /\ Optimal!Entry(p, f) = Pair(p, f)
      /\ Optimal!Tracks(s, p, f) <=> Conflicts(ToSet(q), p, f)
  BY OptimalFields
<1>2. CASE Conflicts(ToSet(q), p, f)
  BY <1>1, <1>2 DEF Optimal!PageLoaded
<1>3. CASE ~Conflicts(ToSet(q), p, f)
  <2>1. IsQueue(r, P, F) /\ ToSet(r) = ToSet(q) \cup {Pair(p, f)}
    BY <1>1, <1>3, QueueAppend
  <2>2. n = [resident |-> r, references |-> s.references, position |-> s.position]
    <3>1. n = [s EXCEPT !.resident = r]
      BY <1>1, <1>3 DEF Optimal!PageLoaded
    <3> HIDE DEF q, r, n
    <3> QED
      BY <1>1, <3>1
  <2> HIDE DEF r, n
  <2>3. n.resident = r /\ IsOptimal(n, P, F)
    BY <1>1, <2>1, <2>2 DEF IsOptimal
  <2> QED
    BY <1>3, <2>1, <2>3 DEF q, n, r
<1> QED
  BY <1>2, <1>3

(* An access may move the position and nothing else. *)
LEMMA OptimalPageAccessed ==
  ASSUME NEW P, NEW F, NEW s, IsOptimal(s, P, F), NEW p, NEW f
  PROVE  LET n == Optimal!PageAccessed(s, p, f)
         IN  /\ IsOptimal(n, P, F)
             /\ n.resident = s.resident /\ ToSet(n.resident) = ToSet(s.resident)
<1> DEFINE n == Optimal!PageAccessed(s, p, f)
<1>1. /\ s = [resident |-> s.resident, references |-> s.references, position |-> s.position]
      /\ IsQueue(s.resident, P, F)
      /\ s.position \in Nat /\ Len(s.references) \in Nat
  BY OptimalFields
<1>2. n = s \/ n = [resident |-> s.resident, references |-> s.references,
                    position |-> s.position + 1]
  BY <1>1 DEF Optimal!PageAccessed
<1> HIDE DEF n
<1>3. IsOptimal(n, P, F) /\ n.resident = s.resident
  BY <1>1, <1>2 DEF IsOptimal
<1> QED
  BY <1>3 DEF n

(* A removal takes the pair out. *)
LEMMA OptimalPageRemoved ==
  ASSUME NEW P, NEW F, NEW s, IsOptimal(s, P, F), NEW p, NEW f
  PROVE  LET n == Optimal!PageRemoved(s, p, f)
         IN  /\ IsOptimal(n, P, F)
             /\ n.resident = RemoveFirst(s.resident, Pair(p, f))
             /\ ToSet(n.resident) = ToSet(s.resident) \ {Pair(p, f)}
<1> DEFINE n == Optimal!PageRemoved(s, p, f)
           q == s.resident
           r == RemoveFirst(q, Pair(p, f))
<1>1. /\ s = [resident |-> q, references |-> s.references, position |-> s.position]
      /\ IsQueue(q, P, F)
      /\ s.position \in Nat /\ Len(s.references) \in Nat
      /\ Optimal!Entry(p, f) = Pair(p, f)
  BY OptimalFields
<1> HIDE DEF q
<1>2. IsQueue(r, P, F) /\ ToSet(r) = ToSet(q) \ {Pair(p, f)}
  BY <1>1, QueueRemoveFirst
<1>3. n = [resident |-> r, references |-> s.references, position |-> s.position]
  <2>1. Optimal!RemoveFirst(q, Pair(p, f)) = r
    BY SameRemoveFirst
  <2> QED
    BY <1>1, <2>1 DEF Optimal!PageRemoved
<1> HIDE DEF r, n
<1>4. n.resident = r /\ IsOptimal(n, P, F)
  BY <1>1, <1>2, <1>3 DEF IsOptimal
<1> QED
  BY <1>2, <1>4 DEF n, q, r

(* The next use of a page is the least of its future positions, or one past the end. *)
LEMMA NextUseNatural ==
  ASSUME NEW P, NEW F, NEW s, IsOptimal(s, P, F), NEW p
  PROVE  LET future == {i \in s.position + 1 .. Len(s.references) : s.references[i] = p}
             n      == Optimal!NextUse(s, p)
         IN  /\ n \in Nat
             /\ n \in future \cup {Len(s.references) + 1}
             /\ \A i \in future : n <= i
             /\ n <= Len(s.references) + 1
<1> DEFINE future == {i \in s.position + 1 .. Len(s.references) : s.references[i] = p}
           S == future \cup {Len(s.references) + 1}
<1>1. s.position \in Nat /\ Len(s.references) \in Nat
  BY DEF IsOptimal
<1>2. S \in SUBSET Nat /\ S # {}
  BY <1>1
<1>3. Optimal!NextUse(s, p) = Min(S)
  BY DEF Optimal!NextUse, Optimal!Min, Min
<1> HIDE DEF S
<1>4. Min(S) \in S /\ \A m \in S : Min(S) <= m
  BY <1>2, LeastNatural
<1> QED
  BY <1>2, <1>3, <1>4 DEF S

(* One comparison of the scan. *)
FartherOf(s, kept, candidate) ==
  IF Optimal!NextUse(s, candidate.page) > Optimal!NextUse(s, kept.page) THEN candidate ELSE kept

(* The scan over the entries of r after e. *)
IsFold(g, s, e, r, D) ==
  g = [T \in SUBSET D |->
         IF T = {} THEN e
         ELSE FartherOf(s, g[T \ {Optimal!Max(T)}], r[Optimal!Max(T)])]

(* The largest element of a set of indices up to k that has k. *)
LEMMA LastIndex ==
  ASSUME NEW k \in Nat, NEW T \in SUBSET (1 .. k), k \in T
  PROVE  Optimal!Max(T) = k
<1>1. \A x \in T : (\A y \in T : x >= y) <=> x = k
  OBVIOUS
<1> QED
  BY <1>1 DEF Optimal!Max

(* The function that records the comparisons of the scan exists for any number of them, *)
LEMMA FoldExists ==
  ASSUME NEW s, NEW e, NEW r, NEW N \in Nat
  PROVE  \E g : IsFold(g, s, e, r, 1 .. N)
<1> DEFINE K == {k \in 0 .. N : ~\E g : IsFold(g, s, e, r, 1 .. k)}
<1>1. SUFFICES ASSUME K # {} PROVE FALSE
  <2>1. N \in 0 .. N
    OBVIOUS
  <2> QED
    BY <2>1
<1>2. K \in SUBSET Nat
  OBVIOUS
<1> DEFINE m == Min(K)
<1>3. m \in K /\ \A k \in K : m <= k
  BY <1>1, <1>2, LeastNatural
<1> HIDE DEF m
<1>4. m \in 0 .. N /\ ~\E g : IsFold(g, s, e, r, 1 .. m)
  BY <1>3
<1>5. CASE m = 0
  <2> DEFINE g == [T \in SUBSET {} |-> e]
  <2>1. 1 .. 0 = {}
    OBVIOUS
  <2>2. \A T \in SUBSET {} : T = {}
    OBVIOUS
  <2>3. IsFold(g, s, e, r, 1 .. 0)
    BY <2>1, <2>2 DEF IsFold
  <2> QED
    BY <1>4, <1>5, <2>3
<1>6. CASE m # 0
  <2>1. m - 1 \in 0 .. N /\ m - 1 \notin K /\ m \in Nat
    BY <1>3, <1>4, <1>6
  <2>2. PICK g : IsFold(g, s, e, r, 1 .. m - 1)
    BY <2>1
  <2>3. \A T \in SUBSET (1 .. m - 1) :
          g[T] = IF T = {} THEN e
                 ELSE FartherOf(s, g[T \ {Optimal!Max(T)}], r[Optimal!Max(T)])
    BY <2>2 DEF IsFold
  <2> DEFINE h == [T \in SUBSET (1 .. m) |->
                     IF m \in T THEN FartherOf(s, g[T \ {m}], r[m]) ELSE g[T]]
  <2>4. \A T \in SUBSET (1 .. m) : m \notin T => T \in SUBSET (1 .. m - 1)
    BY <2>1
  <2>5. \A T \in SUBSET (1 .. m) : T \ {m} \in SUBSET (1 .. m - 1) /\ T \ {m} \in SUBSET (1 .. m)
    BY <2>1
  <2>6. \A T \in SUBSET (1 .. m) : m \notin T => h[T] = g[T]
    OBVIOUS
  <2>7. ASSUME NEW T \in SUBSET (1 .. m)
        PROVE  h[T] = IF T = {} THEN e
                      ELSE FartherOf(s, h[T \ {Optimal!Max(T)}], r[Optimal!Max(T)])
    <3>1. CASE m \in T
      <4>1. Optimal!Max(T) = m /\ T # {}
        BY <2>1, <3>1, LastIndex
      <4>2. h[T \ {m}] = g[T \ {m}]
        BY <2>5, <2>6
      <4>3. h[T] = FartherOf(s, g[T \ {m}], r[m])
        BY <3>1
      <4> HIDE DEF h
      <4> QED
        BY <4>1, <4>2, <4>3
    <3>2. CASE m \notin T
      <4>1. T \in SUBSET (1 .. m - 1) /\ T \ {Optimal!Max(T)} \in SUBSET (1 .. m)
            /\ m \notin T \ {Optimal!Max(T)}
        BY <2>4, <3>2
      <4>2. h[T] = g[T] /\ h[T \ {Optimal!Max(T)}] = g[T \ {Optimal!Max(T)}]
        BY <2>6, <3>2, <4>1
      <4> HIDE DEF h
      <4> QED
        BY <2>3, <4>1, <4>2
    <3> QED
      BY <3>1, <3>2
  <2>8. h = [T \in SUBSET (1 .. m) |->
               IF T = {} THEN e
               ELSE FartherOf(s, h[T \ {Optimal!Max(T)}], r[Optimal!Max(T)])]
    <3>1. h = [T \in SUBSET (1 .. m) |-> h[T]]
      OBVIOUS
    <3> HIDE DEF h
    <3> QED
      BY <2>7, <3>1, Zenon
  <2> HIDE DEF h
  <2>9. IsFold(h, s, e, r, 1 .. m)
    BY <2>8 DEF IsFold
  <2> QED
    BY <1>4, <2>9
<1> QED
  BY <1>5, <1>6

(* so the victim is found by comparing one entry after the other. *)
LEMMA VictimSteps ==
  ASSUME NEW s, NEW N \in Nat, DOMAIN Tail(s.resident) = 1 .. N
  PROVE  \E w : /\ w[0] = Head(s.resident)
                /\ \A k \in 1 .. N : w[k] = FartherOf(s, w[k - 1], Tail(s.resident)[k])
                /\ Optimal!Victim(s) = w[N].frame
<1> DEFINE e == Head(s.resident)
           r == Tail(s.resident)
           g == CHOOSE g : IsFold(g, s, e, r, 1 .. N)
<1>1. IsFold(g, s, e, r, 1 .. N)
  BY FoldExists
<1>2. Optimal!Victim(s) = g[1 .. N].frame
  BY DEF Optimal!Victim, Optimal!FoldLeft, Optimal!MapThenFoldSet, IsFold, FartherOf
<1> HIDE DEF g
<1>3. \A T \in SUBSET (1 .. N) :
        g[T] = IF T = {} THEN e
               ELSE FartherOf(s, g[T \ {Optimal!Max(T)}], r[Optimal!Max(T)])
  BY <1>1 DEF IsFold
<1> HIDE DEF e, r
<1> DEFINE w == [k \in 0 .. N |-> g[1 .. k]]
<1>4. w[0] = e
  <2>1. 1 .. 0 = {} /\ {} \in SUBSET (1 .. N)
    OBVIOUS
  <2> QED
    BY <1>3, <2>1
<1>5. ASSUME NEW k \in 1 .. N PROVE w[k] = FartherOf(s, w[k - 1], r[k])
  <2>1. /\ 1 .. k \in SUBSET (1 .. N) /\ k \in 1 .. k /\ k \in Nat /\ 1 .. k # {}
        /\ (1 .. k) \ {k} = 1 .. k - 1 /\ k - 1 \in 0 .. N
    <3>1. k \in Nat /\ k \in 1 .. k /\ k - 1 \in 0 .. N
      OBVIOUS
    <3>2. \A i : i \in (1 .. k) \ {k} <=> i \in 1 .. k - 1
      OBVIOUS
    <3>3. 1 .. k \in SUBSET (1 .. N)
      OBVIOUS
    <3> QED
      BY <3>1, <3>2, <3>3
  <2>2. Optimal!Max(1 .. k) = k
    BY <2>1, LastIndex
  <2>3. g[1 .. k] = FartherOf(s, g[1 .. k - 1], r[k])
    BY <1>3, <2>1, <2>2
  <2> QED
    BY <2>1, <2>3
<1>6. w[N] = g[1 .. N]
  OBVIOUS
<1> HIDE DEF w
<1> QED
  BY <1>2, <1>4, <1>5, <1>6 DEF e, r

(* The entries after the first. *)
LEMMA TailElements ==
  ASSUME NEW S, NEW q \in Seq(S), q # <<>>
  PROVE  /\ Len(q) - 1 \in Nat
         /\ Head(q) = q[1]
         /\ DOMAIN Tail(q) = 1 .. Len(q) - 1
         /\ \A k \in 1 .. Len(q) - 1 : Tail(q)[k] = q[k + 1]
BY HeadTailProperties, EmptySeq, LenProperties

(* The entry the scan ends with: used farthest in the future, the first of those. *)
FarthestAmong(s, j, n) ==
  /\ j \in 1 .. n
  /\ \A i \in 1 .. n :
       LET mine == Optimal!NextUse(s, s.resident[j].page)
           its  == Optimal!NextUse(s, s.resident[i].page)
       IN  its <= mine /\ (i < j => its < mine)

(* The victim of Optimal is used farthest in the future, the first loaded among equals. *)
LEMMA OptimalVictim ==
  ASSUME NEW P, NEW F, NEW s, IsOptimal(s, P, F), s.resident # <<>>
  PROVE  \E j : /\ FarthestAmong(s, j, Len(s.resident))
               /\ Optimal!Victim(s) = s.resident[j].frame
<1> DEFINE q == s.resident
           N == Len(q) - 1
           Use(i) == Optimal!NextUse(s, q[i].page)
<1>1. /\ N \in Nat /\ Len(q) \in Nat /\ Head(q) = q[1] /\ DOMAIN Tail(q) = 1 .. N
      /\ \A k \in 1 .. N : Tail(q)[k] = q[k + 1]
  <2>1. q \in Seq(Pairs(P, F)) /\ Len(q) \in Nat
    BY QueueElements DEF IsOptimal, IsQueue
  <2> QED
    BY <2>1, TailElements
<1>2. PICK w : /\ w[0] = Head(q)
               /\ \A k \in 1 .. N : w[k] = FartherOf(s, w[k - 1], Tail(q)[k])
               /\ Optimal!Victim(s) = w[N].frame
  BY <1>1, VictimSteps
<1>3. \A i : Use(i) \in Nat
  BY NextUseNatural
<1> DEFINE Good(k) == \E j : FarthestAmong(s, j, k + 1) /\ w[k] = q[j]
           K == {k \in 0 .. N : ~Good(k)}
<1>4. Good(0)
  <2>1. FarthestAmong(s, 1, 0 + 1)
    BY <1>3 DEF FarthestAmong
  <2> QED
    BY <1>1, <1>2, <2>1
<1>5. ASSUME NEW k \in 1 .. N, Good(k - 1) PROVE Good(k)
  <2>1. PICK j : FarthestAmong(s, j, k) /\ w[k - 1] = q[j]
    <3>1. (k - 1) + 1 = k
      OBVIOUS
    <3> QED
      BY <1>5, <3>1
  <2>2. w[k] = FartherOf(s, q[j], q[k + 1])
    BY <1>1, <1>2, <2>1
  <2>3. w[k] = IF Use(k + 1) > Use(j) THEN q[k + 1] ELSE q[j]
    BY <2>2 DEF FartherOf
  <2>4. /\ j \in 1 .. k
        /\ \A i \in 1 .. k : Use(i) <= Use(j) /\ (i < j => Use(i) < Use(j))
    BY <2>1 DEF FarthestAmong
  <2> HIDE DEF Use
  <2>5. \A i \in 1 .. k + 1 : i \in 1 .. k \/ i = k + 1
    BY <1>1
  <2>6. CASE Use(k + 1) > Use(j)
    <3>1. \A i \in 1 .. k + 1 : Use(i) <= Use(k + 1) /\ (i < k + 1 => Use(i) < Use(k + 1))
      BY <1>3, <2>4, <2>5, <2>6
    <3>2. FarthestAmong(s, k + 1, k + 1)
      BY <1>1, <3>1 DEF FarthestAmong, Use
    <3> QED
      BY <2>3, <2>6, <3>2
  <2>7. CASE ~(Use(k + 1) > Use(j))
    <3>1. \A i \in 1 .. k + 1 : Use(i) <= Use(j) /\ (i < j => Use(i) < Use(j))
      BY <1>1, <1>3, <2>4, <2>5, <2>7
    <3>2. FarthestAmong(s, j, k + 1)
      BY <1>1, <2>4, <3>1 DEF FarthestAmong, Use
    <3> QED
      BY <2>3, <2>7, <3>2
  <2> QED
    BY <2>6, <2>7
<1> HIDE DEF Good
<1>6. K = {}
  <2>1. SUFFICES ASSUME K # {} PROVE FALSE
    OBVIOUS
  <2>2. K \in SUBSET Nat
    BY <1>1
  <2> DEFINE m == Min(K)
  <2>3. m \in K /\ \A k \in K : m <= k
    BY <2>1, <2>2, LeastNatural
  <2> HIDE DEF m
  <2>4. m # 0
    BY <1>4, <2>3
  <2>5. m \in 1 .. N /\ m - 1 \in 0 .. N /\ ~(m <= m - 1)
    BY <1>1, <2>3, <2>4
  <2>6. Good(m - 1)
    BY <2>3, <2>5
  <2> QED
    BY <1>5, <2>3, <2>5, <2>6
<1>7. Good(N)
  BY <1>1, <1>6
<1>8. PICK j : FarthestAmong(s, j, N + 1) /\ w[N] = q[j]
  BY <1>7 DEF Good
<1>9. N + 1 = Len(q)
  BY <1>1
<1> QED
  BY <1>2, <1>8, <1>9

(* Optimal chooses a tracked frame whenever there is one. *)
LEMMA OptimalChoice ==
  ASSUME NEW P, NEW F, NEW s, IsOptimal(s, P, F)
  PROVE  /\ Optimal!HasVictim(s) <=> ToSet(s.resident) # {}
         /\ Optimal!HasVictim(s) => \E e \in ToSet(s.resident) : Optimal!Victim(s) = e.frame
<1>1. /\ ToSet(s.resident) = {s.resident[i] : i \in 1 .. Len(s.resident)}
      /\ ToSet(s.resident) = {} <=> s.resident = <<>>
  BY QueueElements DEF IsOptimal
<1>2. s.resident # <<>> => \E j \in 1 .. Len(s.resident) : Optimal!Victim(s) = s.resident[j].frame
  BY OptimalVictim DEF FarthestAmong
<1> QED
  BY <1>1, <1>2 DEF Optimal!HasVictim

-----------------------------------------------------------------------------
(* Every policy *)

(* The state of a policy of a kind, and the pairs it tracks. *)
IsStateOf(kind, state, P, F) ==
  /\ kind \in PolicyKinds
  /\ kind = "FIFO" => IsQueue(state, P, F)
  /\ kind = "LRU" => IsLru(state, P, F)
  /\ kind = "CLOCK" => IsClock(state, P, F)
  /\ kind = "OPTIMAL" => IsOptimal(state, P, F)

TrackedBy(kind, state) ==
  IF kind = "FIFO" THEN ToSet(state)
  ELSE IF kind = "LRU" THEN ToSet(state.list)
  ELSE IF kind = "CLOCK" THEN Clock!Tracked(state)
  ELSE ToSet(state.resident)

(* A policy object. *)
IsPolicy(pol, P, F) ==
  /\ pol = [kind |-> pol.kind, state |-> pol.state, replacements |-> pol.replacements,
            dirtyEvictions |-> pol.dirtyEvictions]
  /\ pol.replacements \in Nat
  /\ pol.dirtyEvictions \in Nat
  /\ IsStateOf(pol.kind, pol.state, P, F)

(* There are four kinds. *)
LEMMA KindCases ==
  ASSUME NEW P, NEW F, NEW kind, NEW state, IsStateOf(kind, state, P, F)
  PROVE  \/ kind = "FIFO" /\ IsQueue(state, P, F)
         \/ kind = "LRU" /\ IsLru(state, P, F)
         \/ kind = "CLOCK" /\ IsClock(state, P, F)
         \/ kind = "OPTIMAL" /\ IsOptimal(state, P, F)
BY DEF IsStateOf, PolicyKinds

(* What is tracked are pairs of a page and a frame. *)
LEMMA StateTracked ==
  ASSUME NEW P, NEW F, NEW kind, NEW state, IsStateOf(kind, state, P, F)
  PROVE  TrackedBy(kind, state) \subseteq Pairs(P, F)
<1>1. CASE kind = "FIFO" /\ IsQueue(state, P, F)
  BY <1>1, QueueElements DEF TrackedBy
<1>2. CASE kind = "LRU" /\ IsLru(state, P, F)
  BY <1>2, QueueElements DEF TrackedBy, IsLru
<1>3. CASE kind = "CLOCK" /\ IsClock(state, P, F)
  BY <1>3, ClockTrackedPairs DEF TrackedBy
<1>4. CASE kind = "OPTIMAL" /\ IsOptimal(state, P, F)
  BY <1>4, QueueElements DEF TrackedBy, IsOptimal
<1> QED
  BY <1>1, <1>2, <1>3, <1>4, KindCases

(* What a policy tracks is what its state holds. *)
LEMMA PolicyTracked ==
  ASSUME NEW P, NEW F, NEW pol, IsPolicy(pol, P, F)
  PROVE  Tracked(pol) = TrackedBy(pol.kind, pol.state) /\ Tracked(pol) \subseteq Pairs(P, F)
<1>1. IsStateOf(pol.kind, pol.state, P, F)
  BY DEF IsPolicy
<1>2. Tracked(pol) = TrackedBy(pol.kind, pol.state)
  <2>1. CASE pol.kind = "FIFO"
    BY <2>1, SameToSet DEF Tracked, TrackedBy, Fifo!Tracked
  <2>2. CASE pol.kind = "LRU"
    BY <2>2, SameToSet DEF Tracked, TrackedBy, Lru!Tracked
  <2>3. CASE pol.kind = "CLOCK"
    BY <2>3 DEF Tracked, TrackedBy
  <2>4. CASE pol.kind = "OPTIMAL"
    BY <2>4, SameToSet DEF Tracked, TrackedBy, Optimal!Tracked
  <2> QED
    BY <1>1, <2>1, <2>2, <2>3, <2>4 DEF IsStateOf, PolicyKinds
<1> QED
  BY <1>1, <1>2, StateTracked

(* A policy put together from its fields. *)
LEMMA PolicyWith ==
  ASSUME NEW P, NEW F, NEW kind, NEW state, NEW n \in Nat, NEW d \in Nat,
         IsStateOf(kind, state, P, F),
         NEW pol, pol = [kind |-> kind, state |-> state, replacements |-> n,
                         dirtyEvictions |-> d]
  PROVE  /\ IsPolicy(pol, P, F)
         /\ Tracked(pol) = TrackedBy(kind, state)
         /\ pol.kind = kind /\ pol.state = state
         /\ pol.replacements = n /\ pol.dirtyEvictions = d
<1>1. /\ pol.kind = kind /\ pol.state = state
      /\ pol.replacements = n /\ pol.dirtyEvictions = d
  OBVIOUS
<1>2. IsPolicy(pol, P, F)
  BY <1>1 DEF IsPolicy
<1> QED
  BY <1>1, <1>2, PolicyTracked

(* A new policy tracks nothing and has counted nothing. *)
LEMMA PolicyNew ==
  ASSUME NEW P, NEW F, NEW kind \in PolicyKinds
  PROVE  LET n == NewPolicy(kind)
         IN  /\ IsPolicy(n, P, F)
             /\ Tracked(n) = {}
             /\ n.kind = kind /\ n.replacements = 0 /\ n.dirtyEvictions = 0
<1> DEFINE n == NewPolicy(kind)
<1>1. n = [kind |-> kind, state |-> n.state, replacements |-> 0, dirtyEvictions |-> 0]
  <2> DEFINE x == CASE kind = "FIFO"    -> Fifo!Empty
                    [] kind = "LRU"     -> Lru!Empty
                    [] kind = "CLOCK"   -> Clock!Empty
                    [] kind = "OPTIMAL" -> Optimal!Empty
  <2>1. n = [kind |-> kind, state |-> x, replacements |-> 0, dirtyEvictions |-> 0]
    BY DEF NewPolicy
  <2> HIDE DEF x, n
  <2> QED
    BY <2>1
<1>2. IsStateOf(kind, n.state, P, F) /\ TrackedBy(kind, n.state) = {}
  <2>1. CASE kind = "FIFO"
    <3>1. n.state = <<>>
      BY <2>1 DEF NewPolicy, Fifo!Empty
    <3> HIDE DEF n
    <3> QED
      BY <2>1, <3>1, EmptyQueue DEF IsStateOf, PolicyKinds, TrackedBy
  <2>2. CASE kind = "LRU"
    <3>1. n.state = Lru!Empty
      BY <2>2 DEF NewPolicy
    <3> HIDE DEF n
    <3> QED
      BY <2>2, <3>1, LruEmpty DEF IsStateOf, PolicyKinds, TrackedBy
  <2>3. CASE kind = "CLOCK"
    <3>1. n.state = Clock!Empty
      BY <2>3 DEF NewPolicy
    <3> HIDE DEF n
    <3> QED
      BY <2>3, <3>1, ClockEmpty DEF IsStateOf, PolicyKinds, TrackedBy
  <2>4. CASE kind = "OPTIMAL"
    <3>1. n.state = Optimal!Empty
      BY <2>4 DEF NewPolicy
    <3> HIDE DEF n
    <3> QED
      BY <2>4, <3>1, OptimalEmpty DEF IsStateOf, PolicyKinds, TrackedBy
  <2> QED
    BY <2>1, <2>2, <2>3, <2>4 DEF PolicyKinds
<1> HIDE DEF n
<1> QED
  BY <1>1, <1>2, PolicyWith DEF n

(* Loading a page, in any policy. *)
LEMMA StateLoaded ==
  ASSUME NEW P, NEW F, NEW kind, NEW s, IsStateOf(kind, s, P, F),
         NEW p \in P, NEW f \in F, NEW t,
         kind = "FIFO" => t = Fifo!PageLoaded(s, p, f),
         kind = "LRU" => t = Lru!PageLoaded(s, p, f),
         kind = "CLOCK" => t = Clock!PageLoaded(s, p, f),
         kind = "OPTIMAL" => t = Optimal!PageLoaded(s, p, f)
  PROVE  /\ IsStateOf(kind, t, P, F)
         /\ TrackedBy(kind, t) = IF Conflicts(TrackedBy(kind, s), p, f) THEN TrackedBy(kind, s)
                           ELSE TrackedBy(kind, s) \cup {Pair(p, f)}
<1>1. CASE kind = "FIFO" /\ IsQueue(s, P, F)
  BY <1>1, FifoContract DEF IsStateOf, TrackedBy, PolicyKinds
<1>2. CASE kind = "LRU" /\ IsLru(s, P, F)
  BY <1>2, LruPageLoaded DEF IsStateOf, TrackedBy, PolicyKinds
<1>3. CASE kind = "CLOCK" /\ IsClock(s, P, F)
  BY <1>3, ClockPageLoaded DEF IsStateOf, TrackedBy, PolicyKinds
<1>4. CASE kind = "OPTIMAL" /\ IsOptimal(s, P, F)
  <2>1. t = Optimal!PageLoaded(s, p, f)
    BY <1>4
  <2> DEFINE u == Optimal!PageLoaded(s, p, f)
  <2>2. /\ IsOptimal(u, P, F)
        /\ ToSet(u.resident) = IF Conflicts(ToSet(s.resident), p, f) THEN ToSet(s.resident)
                           ELSE ToSet(s.resident) \cup {Pair(p, f)}
    BY <1>4, OptimalPageLoaded
  <2> HIDE DEF u
  <2> QED
    BY <1>4, <2>1, <2>2 DEF u, IsStateOf, TrackedBy, PolicyKinds
<1> QED
  BY <1>1, <1>2, <1>3, <1>4, KindCases

(* The same of the policy object. *)
LEMMA PolicyPageLoaded ==
  ASSUME NEW P, NEW F, NEW pol, IsPolicy(pol, P, F), NEW p \in P, NEW f \in F
  PROVE  LET n == PageLoaded(pol, p, f)
         IN  /\ IsPolicy(n, P, F)
             /\ Tracked(n) = IF Conflicts(Tracked(pol), p, f) THEN Tracked(pol)
                           ELSE Tracked(pol) \cup {Pair(p, f)}
             /\ n.kind = pol.kind
             /\ n.replacements = pol.replacements /\ n.dirtyEvictions = pol.dirtyEvictions
<1> DEFINE n == PageLoaded(pol, p, f)
           s == pol.state
           t == n.state
<1>1. /\ IsStateOf(pol.kind, s, P, F) /\ Tracked(pol) = TrackedBy(pol.kind, s)
      /\ pol.replacements \in Nat /\ pol.dirtyEvictions \in Nat
  BY PolicyTracked DEF IsPolicy
<1>2. n = [kind |-> pol.kind, state |-> t, replacements |-> pol.replacements,
           dirtyEvictions |-> pol.dirtyEvictions]
  <2> DEFINE x == CASE pol.kind = "FIFO"    -> Fifo!PageLoaded(s, p, f)
                    [] pol.kind = "LRU"     -> Lru!PageLoaded(s, p, f)
                    [] pol.kind = "CLOCK"   -> Clock!PageLoaded(s, p, f)
                    [] pol.kind = "OPTIMAL" -> Optimal!PageLoaded(s, p, f)
  <2>1. n = [pol EXCEPT !.state = x]
    BY DEF PageLoaded
  <2> HIDE DEF x, n
  <2>2. n = [kind |-> pol.kind, state |-> x, replacements |-> pol.replacements,
             dirtyEvictions |-> pol.dirtyEvictions]
    BY <2>1 DEF IsPolicy
  <2> QED
    BY <2>2
<1>3. /\ pol.kind = "FIFO" => t = Fifo!PageLoaded(s, p, f)
      /\ pol.kind = "LRU" => t = Lru!PageLoaded(s, p, f)
      /\ pol.kind = "CLOCK" => t = Clock!PageLoaded(s, p, f)
      /\ pol.kind = "OPTIMAL" => t = Optimal!PageLoaded(s, p, f)
  <2>1. pol.kind = "FIFO" => t = Fifo!PageLoaded(s, p, f)
    BY DEF PageLoaded, IsPolicy
  <2>2. pol.kind = "LRU" => t = Lru!PageLoaded(s, p, f)
    BY DEF PageLoaded, IsPolicy
  <2>3. pol.kind = "CLOCK" => t = Clock!PageLoaded(s, p, f)
    BY DEF PageLoaded, IsPolicy
  <2>4. pol.kind = "OPTIMAL" => t = Optimal!PageLoaded(s, p, f)
    BY DEF PageLoaded, IsPolicy
  <2> QED
    BY <2>1, <2>2, <2>3, <2>4
<1> HIDE DEF n, s, t
<1>4. /\ IsStateOf(pol.kind, t, P, F)
      /\ TrackedBy(pol.kind, t) =
           IF Conflicts(TrackedBy(pol.kind, s), p, f) THEN TrackedBy(pol.kind, s)
           ELSE TrackedBy(pol.kind, s) \cup {Pair(p, f)}
  BY <1>1, <1>3, StateLoaded
<1> QED
  BY <1>1, <1>2, <1>4, PolicyWith DEF n

(* Accessing a page, in any policy. *)
LEMMA StateAccessed ==
  ASSUME NEW P, NEW F, NEW kind, NEW s, IsStateOf(kind, s, P, F),
         NEW p \in P, NEW f \in F, NEW t,
         kind = "FIFO" => t = Fifo!PageAccessed(s, p, f),
         kind = "LRU" => t = Lru!PageAccessed(s, p, f),
         kind = "CLOCK" => t = Clock!PageAccessed(s, p, f),
         kind = "OPTIMAL" => t = Optimal!PageAccessed(s, p, f)
  PROVE  /\ IsStateOf(kind, t, P, F)
         /\ TrackedBy(kind, t) = TrackedBy(kind, s)
<1>1. CASE kind = "FIFO" /\ IsQueue(s, P, F)
  BY <1>1, FifoContract DEF IsStateOf, TrackedBy, PolicyKinds
<1>2. CASE kind = "LRU" /\ IsLru(s, P, F)
  BY <1>2, LruPageAccessed DEF IsStateOf, TrackedBy, PolicyKinds
<1>3. CASE kind = "CLOCK" /\ IsClock(s, P, F)
  BY <1>3, ClockPageAccessed DEF IsStateOf, TrackedBy, PolicyKinds
<1>4. CASE kind = "OPTIMAL" /\ IsOptimal(s, P, F)
  <2>1. t = Optimal!PageAccessed(s, p, f)
    BY <1>4
  <2> DEFINE u == Optimal!PageAccessed(s, p, f)
  <2>2. /\ IsOptimal(u, P, F)
        /\ ToSet(u.resident) = ToSet(s.resident)
    BY <1>4, OptimalPageAccessed
  <2> HIDE DEF u
  <2> QED
    BY <1>4, <2>1, <2>2 DEF u, IsStateOf, TrackedBy, PolicyKinds
<1> QED
  BY <1>1, <1>2, <1>3, <1>4, KindCases

(* The same of the policy object. *)
LEMMA PolicyPageAccessed ==
  ASSUME NEW P, NEW F, NEW pol, IsPolicy(pol, P, F), NEW p \in P, NEW f \in F
  PROVE  LET n == PageAccessed(pol, p, f)
         IN  /\ IsPolicy(n, P, F)
             /\ Tracked(n) = Tracked(pol)
             /\ n.kind = pol.kind
             /\ n.replacements = pol.replacements /\ n.dirtyEvictions = pol.dirtyEvictions
<1> DEFINE n == PageAccessed(pol, p, f)
           s == pol.state
           t == n.state
<1>1. /\ IsStateOf(pol.kind, s, P, F) /\ Tracked(pol) = TrackedBy(pol.kind, s)
      /\ pol.replacements \in Nat /\ pol.dirtyEvictions \in Nat
  BY PolicyTracked DEF IsPolicy
<1>2. n = [kind |-> pol.kind, state |-> t, replacements |-> pol.replacements,
           dirtyEvictions |-> pol.dirtyEvictions]
  <2> DEFINE x == CASE pol.kind = "FIFO"    -> Fifo!PageAccessed(s, p, f)
                    [] pol.kind = "LRU"     -> Lru!PageAccessed(s, p, f)
                    [] pol.kind = "CLOCK"   -> Clock!PageAccessed(s, p, f)
                    [] pol.kind = "OPTIMAL" -> Optimal!PageAccessed(s, p, f)
  <2>1. n = [pol EXCEPT !.state = x]
    BY DEF PageAccessed
  <2> HIDE DEF x, n
  <2>2. n = [kind |-> pol.kind, state |-> x, replacements |-> pol.replacements,
             dirtyEvictions |-> pol.dirtyEvictions]
    BY <2>1 DEF IsPolicy
  <2> QED
    BY <2>2
<1>3. /\ pol.kind = "FIFO" => t = Fifo!PageAccessed(s, p, f)
      /\ pol.kind = "LRU" => t = Lru!PageAccessed(s, p, f)
      /\ pol.kind = "CLOCK" => t = Clock!PageAccessed(s, p, f)
      /\ pol.kind = "OPTIMAL" => t = Optimal!PageAccessed(s, p, f)
  <2>1. pol.kind = "FIFO" => t = Fifo!PageAccessed(s, p, f)
    BY DEF PageAccessed, IsPolicy
  <2>2. pol.kind = "LRU" => t = Lru!PageAccessed(s, p, f)
    BY DEF PageAccessed, IsPolicy
  <2>3. pol.kind = "CLOCK" => t = Clock!PageAccessed(s, p, f)
    BY DEF PageAccessed, IsPolicy
  <2>4. pol.kind = "OPTIMAL" => t = Optimal!PageAccessed(s, p, f)
    BY DEF PageAccessed, IsPolicy
  <2> QED
    BY <2>1, <2>2, <2>3, <2>4
<1> HIDE DEF n, s, t
<1>4. /\ IsStateOf(pol.kind, t, P, F)
      /\ TrackedBy(pol.kind, t) = TrackedBy(pol.kind, s)
  BY <1>1, <1>3, StateAccessed
<1> QED
  BY <1>1, <1>2, <1>4, PolicyWith DEF n

(* Removing a page, in any policy. *)
LEMMA StateRemoved ==
  ASSUME NEW P, NEW F, NEW kind, NEW s, IsStateOf(kind, s, P, F),
         NEW p \in P, NEW f \in F, NEW t,
         kind = "FIFO" => t = Fifo!PageRemoved(s, p, f),
         kind = "LRU" => t = Lru!PageRemoved(s, p, f),
         kind = "CLOCK" => t = Clock!PageRemoved(s, p, f),
         kind = "OPTIMAL" => t = Optimal!PageRemoved(s, p, f)
  PROVE  /\ IsStateOf(kind, t, P, F)
         /\ TrackedBy(kind, t) = TrackedBy(kind, s) \ {Pair(p, f)}
<1>1. CASE kind = "FIFO" /\ IsQueue(s, P, F)
  BY <1>1, FifoContract DEF IsStateOf, TrackedBy, PolicyKinds
<1>2. CASE kind = "LRU" /\ IsLru(s, P, F)
  BY <1>2, LruPageRemoved DEF IsStateOf, TrackedBy, PolicyKinds
<1>3. CASE kind = "CLOCK" /\ IsClock(s, P, F)
  BY <1>3, ClockPageRemoved DEF IsStateOf, TrackedBy, PolicyKinds
<1>4. CASE kind = "OPTIMAL" /\ IsOptimal(s, P, F)
  <2>1. t = Optimal!PageRemoved(s, p, f)
    BY <1>4
  <2> DEFINE u == Optimal!PageRemoved(s, p, f)
  <2>2. /\ IsOptimal(u, P, F)
        /\ ToSet(u.resident) = ToSet(s.resident) \ {Pair(p, f)}
    BY <1>4, OptimalPageRemoved
  <2>3. t = u
    BY <2>1
  <2> HIDE DEF u
  <2>4. IsOptimal(t, P, F) /\ ToSet(t.resident) = ToSet(s.resident) \ {Pair(p, f)}
    BY <2>2, <2>3
  <2> QED
    BY <1>4, <2>4 DEF IsStateOf, TrackedBy, PolicyKinds
<1> QED
  BY <1>1, <1>2, <1>3, <1>4, KindCases

(* The same of the policy object. *)
LEMMA PolicyPageRemoved ==
  ASSUME NEW P, NEW F, NEW pol, IsPolicy(pol, P, F), NEW p \in P, NEW f \in F
  PROVE  LET n == PageRemoved(pol, p, f)
         IN  /\ IsPolicy(n, P, F)
             /\ Tracked(n) = Tracked(pol) \ {Pair(p, f)}
             /\ n.kind = pol.kind
             /\ n.replacements = pol.replacements /\ n.dirtyEvictions = pol.dirtyEvictions
<1> DEFINE n == PageRemoved(pol, p, f)
           s == pol.state
           t == n.state
<1>1. /\ IsStateOf(pol.kind, s, P, F) /\ Tracked(pol) = TrackedBy(pol.kind, s)
      /\ pol.replacements \in Nat /\ pol.dirtyEvictions \in Nat
  BY PolicyTracked DEF IsPolicy
<1>2. n = [kind |-> pol.kind, state |-> t, replacements |-> pol.replacements,
           dirtyEvictions |-> pol.dirtyEvictions]
  <2> DEFINE x == CASE pol.kind = "FIFO"    -> Fifo!PageRemoved(s, p, f)
                    [] pol.kind = "LRU"     -> Lru!PageRemoved(s, p, f)
                    [] pol.kind = "CLOCK"   -> Clock!PageRemoved(s, p, f)
                    [] pol.kind = "OPTIMAL" -> Optimal!PageRemoved(s, p, f)
  <2>1. n = [pol EXCEPT !.state = x]
    BY DEF PageRemoved
  <2> HIDE DEF x, n
  <2>2. n = [kind |-> pol.kind, state |-> x, replacements |-> pol.replacements,
             dirtyEvictions |-> pol.dirtyEvictions]
    BY <2>1 DEF IsPolicy
  <2> QED
    BY <2>2
<1>3. /\ pol.kind = "FIFO" => t = Fifo!PageRemoved(s, p, f)
      /\ pol.kind = "LRU" => t = Lru!PageRemoved(s, p, f)
      /\ pol.kind = "CLOCK" => t = Clock!PageRemoved(s, p, f)
      /\ pol.kind = "OPTIMAL" => t = Optimal!PageRemoved(s, p, f)
  <2>1. pol.kind = "FIFO" => t = Fifo!PageRemoved(s, p, f)
    BY DEF PageRemoved, IsPolicy
  <2>2. pol.kind = "LRU" => t = Lru!PageRemoved(s, p, f)
    BY DEF PageRemoved, IsPolicy
  <2>3. pol.kind = "CLOCK" => t = Clock!PageRemoved(s, p, f)
    BY DEF PageRemoved, IsPolicy
  <2>4. pol.kind = "OPTIMAL" => t = Optimal!PageRemoved(s, p, f)
    BY DEF PageRemoved, IsPolicy
  <2> QED
    BY <2>1, <2>2, <2>3, <2>4
<1> HIDE DEF n, s, t
<1>4. /\ IsStateOf(pol.kind, t, P, F)
      /\ TrackedBy(pol.kind, t) = TrackedBy(pol.kind, s) \ {Pair(p, f)}
  BY <1>1, <1>3, StateRemoved
<1> QED
  BY <1>1, <1>2, <1>4, PolicyWith DEF n

(* Choosing, in any policy. *)
LEMMA PolicyVictim ==
  ASSUME NEW P, NEW F, NEW pol, IsPolicy(pol, P, F)
  PROVE  /\ HasVictim(pol) <=> Tracked(pol) # {}
         /\ HasVictim(pol) => \E e \in Tracked(pol) : Victim(pol) = e.frame
<1> DEFINE s == pol.state
<1>1. IsStateOf(pol.kind, s, P, F) /\ Tracked(pol) = TrackedBy(pol.kind, s)
  BY PolicyTracked DEF IsPolicy
<1> HIDE DEF s
<1>2. CASE pol.kind = "FIFO" /\ IsQueue(s, P, F)
  <2>1. /\ HasVictim(pol) <=> Fifo!HasVictim(s)
        /\ Victim(pol) = Fifo!Victim(s)
        /\ Tracked(pol) = ToSet(s)
    BY <1>1, <1>2 DEF HasVictim, Victim, TrackedBy, s
  <2> QED
    BY <1>2, <2>1, FifoChoice
<1>3. CASE pol.kind = "LRU" /\ IsLru(s, P, F)
  <2>1. /\ HasVictim(pol) <=> Lru!HasVictim(s)
        /\ Victim(pol) = Lru!Victim(s)
        /\ Tracked(pol) = ToSet(s.list)
    BY <1>1, <1>3 DEF HasVictim, Victim, TrackedBy, s
  <2> QED
    BY <1>3, <2>1, LruChoice
<1>4. CASE pol.kind = "CLOCK" /\ IsClock(s, P, F)
  <2>1. /\ HasVictim(pol) <=> Clock!HasVictim(s)
        /\ Victim(pol) = Clock!Victim(s)
        /\ Tracked(pol) = Clock!Tracked(s)
    BY <1>1, <1>4 DEF HasVictim, Victim, TrackedBy, s
  <2> QED
    BY <1>4, <2>1, ClockContract
<1>5. CASE pol.kind = "OPTIMAL" /\ IsOptimal(s, P, F)
  <2>1. /\ HasVictim(pol) <=> Optimal!HasVictim(s)
        /\ Victim(pol) = Optimal!Victim(s)
        /\ Tracked(pol) = ToSet(s.resident)
    BY <1>1, <1>5 DEF HasVictim, Victim, TrackedBy, s
  <2> QED
    BY <1>5, <2>1, OptimalChoice
<1> QED
  BY <1>1, <1>2, <1>3, <1>4, <1>5, KindCases

(* Choosing leaves what is tracked and counts a decision that names a frame. *)
LEMMA PolicyAfterChoice ==
  ASSUME NEW P, NEW F, NEW pol, IsPolicy(pol, P, F)
  PROVE  LET n == AfterChoice(pol)
         IN  /\ IsPolicy(n, P, F)
             /\ Tracked(n) = Tracked(pol)
             /\ n.kind = pol.kind
             /\ n.replacements = pol.replacements + IF HasVictim(pol) THEN 1 ELSE 0
             /\ n.dirtyEvictions = pol.dirtyEvictions
<1> DEFINE n == AfterChoice(pol)
           s == pol.state
           t == n.state
           k == pol.replacements + IF HasVictim(pol) THEN 1 ELSE 0
<1>1. /\ IsStateOf(pol.kind, s, P, F) /\ Tracked(pol) = TrackedBy(pol.kind, s)
      /\ pol.replacements \in Nat /\ pol.dirtyEvictions \in Nat
  BY PolicyTracked DEF IsPolicy
<1>2. n = [kind |-> pol.kind, state |-> t, replacements |-> k,
           dirtyEvictions |-> pol.dirtyEvictions]
  <2> DEFINE x == CASE pol.kind = "FIFO"    -> Fifo!AfterChoice(s)
                    [] pol.kind = "LRU"     -> Lru!AfterChoice(s)
                    [] pol.kind = "CLOCK"   -> Clock!AfterChoice(s)
                    [] pol.kind = "OPTIMAL" -> Optimal!AfterChoice(s)
             y == IF HasVictim(pol) THEN pol.replacements + 1 ELSE pol.replacements
  <2>1. n = [pol EXCEPT !.state = x, !.replacements = y]
    BY DEF AfterChoice
  <2>2. y = k
    BY <1>1
  <2> HIDE DEF x, y, n, k
  <2>3. n = [kind |-> pol.kind, state |-> x, replacements |-> y,
             dirtyEvictions |-> pol.dirtyEvictions]
    BY <2>1 DEF IsPolicy
  <2> QED
    BY <2>2, <2>3
<1>3. IsStateOf(pol.kind, t, P, F) /\ TrackedBy(pol.kind, t) = TrackedBy(pol.kind, s)
  <2>1. CASE pol.kind = "FIFO" /\ IsQueue(s, P, F)
    <3>1. t = s
      BY <2>1 DEF AfterChoice, Fifo!AfterChoice, IsPolicy
    <3> HIDE DEF t, s
    <3> QED
      BY <1>1, <3>1
  <2>2. CASE pol.kind = "LRU" /\ IsLru(s, P, F)
    <3>1. t = s
      BY <2>2 DEF AfterChoice, Lru!AfterChoice, IsPolicy
    <3> HIDE DEF t, s
    <3> QED
      BY <1>1, <3>1
  <2>3. CASE pol.kind = "CLOCK" /\ IsClock(s, P, F)
    <3>1. t = Clock!AfterChoice(s)
      BY <2>3 DEF AfterChoice, IsPolicy
    <3> HIDE DEF t, s
    <3> QED
      BY <2>3, <3>1, ClockContract DEF IsStateOf, TrackedBy, PolicyKinds
  <2>4. CASE pol.kind = "OPTIMAL" /\ IsOptimal(s, P, F)
    <3>1. t = s
      BY <2>4 DEF AfterChoice, Optimal!AfterChoice, IsPolicy
    <3> HIDE DEF t, s
    <3> QED
      BY <1>1, <3>1
  <2> QED
    BY <1>1, <2>1, <2>2, <2>3, <2>4, KindCases
<1>4. k \in Nat
  BY <1>1
<1> HIDE DEF n, s, t, k
<1> QED
  BY <1>1, <1>2, <1>3, <1>4, PolicyWith DEF n, k

(* Recording a dirty eviction counts it and changes nothing else. *)
LEMMA PolicyRecordDirtyEviction ==
  ASSUME NEW P, NEW F, NEW pol, IsPolicy(pol, P, F)
  PROVE  LET n == RecordDirtyEviction(pol)
         IN  /\ IsPolicy(n, P, F)
             /\ Tracked(n) = Tracked(pol)
             /\ n.kind = pol.kind /\ n.state = pol.state
             /\ n.replacements = pol.replacements
             /\ n.dirtyEvictions = pol.dirtyEvictions + 1
<1> DEFINE n == RecordDirtyEviction(pol)
<1>1. /\ IsStateOf(pol.kind, pol.state, P, F) /\ Tracked(pol) = TrackedBy(pol.kind, pol.state)
      /\ pol.replacements \in Nat /\ pol.dirtyEvictions + 1 \in Nat
  <2>1. /\ pol.dirtyEvictions \in Nat /\ pol.replacements \in Nat
        /\ IsStateOf(pol.kind, pol.state, P, F)
    BY DEF IsPolicy
  <2>2. Tracked(pol) = TrackedBy(pol.kind, pol.state)
    BY PolicyTracked
  <2> QED
    BY <2>1, <2>2
<1>2. n = [kind |-> pol.kind, state |-> pol.state, replacements |-> pol.replacements,
           dirtyEvictions |-> pol.dirtyEvictions + 1]
  BY <1>1 DEF RecordDirtyEviction, IsPolicy
<1> HIDE DEF n
<1> QED
  BY <1>1, <1>2, PolicyWith DEF n

(* A new reference sequence is read from its start. *)
LEMMA ReferencesReplaced ==
  ASSUME NEW q, NEW old, NEW k, NEW references,
         NEW s, s = [resident |-> q, references |-> old, position |-> k]
  PROVE  Optimal!SetReferenceSequence(s, references) =
           [resident |-> q, references |-> references, position |-> 0]
<1> DEFINE u == [s EXCEPT !.references = references]
           v == [u EXCEPT !.position = 0]
<1>1. u = [resident |-> q, references |-> references, position |-> k]
  OBVIOUS
<1>2. v = [resident |-> q, references |-> references, position |-> 0]
  <2> HIDE DEF u
  <2> QED
    BY <1>1
<1> QED
  BY <1>2 DEF Optimal!SetReferenceSequence

(* A new reference sequence leaves what is tracked. *)
LEMMA PolicySetReferences ==
  ASSUME NEW P, NEW F, NEW pol, IsPolicy(pol, P, F), pol.kind = "OPTIMAL",
         NEW references, Len(references) \in Nat
  PROVE  LET n == SetReferenceSequence(pol, references)
         IN  /\ IsPolicy(n, P, F)
             /\ Tracked(n) = Tracked(pol)
             /\ n.kind = pol.kind /\ n.state.resident = pol.state.resident
             /\ n.replacements = pol.replacements
             /\ n.dirtyEvictions = pol.dirtyEvictions
<1> DEFINE n == SetReferenceSequence(pol, references)
           s == pol.state
           t == [resident |-> s.resident, references |-> references, position |-> 0]
<1>1. /\ IsStateOf(pol.kind, s, P, F) /\ Tracked(pol) = TrackedBy(pol.kind, s)
      /\ pol.replacements \in Nat /\ pol.dirtyEvictions \in Nat /\ IsOptimal(s, P, F)
  BY PolicyTracked DEF IsPolicy, IsStateOf
<1>2. Optimal!SetReferenceSequence(s, references) = t
  <2>1. s = [resident |-> s.resident, references |-> s.references, position |-> s.position]
    BY <1>1 DEF IsOptimal
  <2> HIDE DEF s
  <2> QED
    BY <2>1, ReferencesReplaced
<1>3. n = [kind |-> pol.kind, state |-> t, replacements |-> pol.replacements,
           dirtyEvictions |-> pol.dirtyEvictions]
  BY <1>2 DEF SetReferenceSequence, IsPolicy
<1>4. t.resident = s.resident /\ t.references = references /\ t.position = 0
  OBVIOUS
<1>5. t = [resident |-> t.resident, references |-> t.references, position |-> t.position]
  OBVIOUS
<1> HIDE DEF n, s, t
<1>6. IsStateOf(pol.kind, t, P, F) /\ TrackedBy(pol.kind, t) = TrackedBy(pol.kind, s)
  BY <1>1, <1>4, <1>5 DEF IsStateOf, TrackedBy, IsOptimal
<1> QED
  BY <1>1, <1>3, <1>4, <1>6, PolicyWith DEF n, s

-----------------------------------------------------------------------------
(***************************************************************************)
(* The order of a queue against a relation kept from the calls alone:      *)
(* whoever stands further back is the later one.                           *)
(***************************************************************************)
Ordered(q, R) ==
  \A i, j \in 1 .. Len(q) : i < j => <<q[j].page, q[i].page>> \in R

(* S is R after p has become the most recent of all. *)
Renews(S, R, p, P) ==
  /\ \A pair \in R : pair[1] # p /\ pair[2] # p => pair \in S
  /\ \A q \in P \ {p} : <<p, q>> \in S

(* A page that joins at the end of the queue is the most recent of all. *)
LEMMA OrderAppend ==
  ASSUME NEW P, NEW F, NEW q, IsQueue(q, P, F), NEW R, Ordered(q, R),
         NEW p \in P, NEW f \in F, NEW S, Renews(S, R, p, P), ~Conflicts(ToSet(q), p, f)
  PROVE  Ordered(Append(q, Pair(p, f)), S)
<1> DEFINE n == Append(q, Pair(p, f))
<1>1. /\ Len(n) = Len(q) + 1 /\ Len(q) \in Nat
      /\ \A i \in 1 .. Len(q) : n[i] = q[i]
      /\ n[Len(q) + 1] = Pair(p, f)
  BY QueueAppend, QueueElements
<1>2. \A i \in 1 .. Len(q) : q[i].page \in P \ {p}
  <2> SUFFICES ASSUME NEW i \in 1 .. Len(q) PROVE q[i].page \in P \ {p}
    OBVIOUS
  <2>1. q[i] \in ToSet(q) /\ q[i].page \in P
    BY QueueElements
  <2> QED
    BY <2>1 DEF Conflicts
<1>3. Pair(p, f).page = p
  BY DEF Pair
<1> HIDE DEF n
<1> SUFFICES ASSUME NEW i \in 1 .. Len(n), NEW j \in 1 .. Len(n), i < j
             PROVE  <<n[j].page, n[i].page>> \in S
  BY DEF Ordered, n
<1>4. i \in 1 .. Len(q) /\ n[i].page = q[i].page /\ q[i].page \in P \ {p}
  BY <1>1, <1>2
<1>5. CASE j \in 1 .. Len(q)
  <2>1. n[j].page = q[j].page /\ q[j].page \in P \ {p}
    BY <1>1, <1>2, <1>5
  <2>2. <<q[j].page, q[i].page>> \in R
    BY <1>4, <1>5 DEF Ordered
  <2> DEFINE pair == <<q[j].page, q[i].page>>
  <2>3. pair \in R /\ pair[2] # p /\ pair[1] # p
    BY <2>1, <2>2, <1>4
  <2>4. pair \in S
    BY <2>3 DEF Renews
  <2> QED
    BY <2>1, <2>4, <1>4
<1>6. CASE j = Len(q) + 1
  <2>1. n[j].page = p
    BY <1>1, <1>3, <1>6
  <2>2. <<p, q[i].page>> \in S
    BY <1>4 DEF Renews
  <2> QED
    BY <2>1, <2>2, <1>4
<1> QED
  BY <1>1, <1>5, <1>6

(* A page that leaves the queue leaves the others in their order. *)
LEMMA OrderRemove ==
  ASSUME NEW P, NEW F, NEW q, IsQueue(q, P, F), NEW R, Ordered(q, R), NEW e
  PROVE  Ordered(RemoveFirst(q, e), R)
<1>1. CASE e \notin ToSet(q)
  BY <1>1, QueueRemoveFirst
<1>2. CASE e \in ToSet(q)
  <2>1. PICK k \in 1 .. Len(q) : RemoveFirst(q, e) = RemoveAt(q, k)
    BY <1>2, QueueRemoveFirst
  <2> DEFINE n == RemoveAt(q, k)
  <2>2. /\ Len(n) = Len(q) - 1 /\ Len(q) \in Nat
        /\ \A i \in 1 .. Len(q) - 1 : n[i] = IF i < k THEN q[i] ELSE q[i + 1]
    BY QueueRemoveAt, QueueElements
  <2> HIDE DEF n
  <2> SUFFICES ASSUME NEW i \in 1 .. Len(n), NEW j \in 1 .. Len(n), i < j
               PROVE  <<n[j].page, n[i].page>> \in R
    BY <2>1 DEF Ordered, n
  <2> DEFINE a == IF i < k THEN i ELSE i + 1
             b == IF j < k THEN j ELSE j + 1
  <2>3. a \in 1 .. Len(q) /\ b \in 1 .. Len(q) /\ a < b
    BY <2>2
  <2>4. n[i] = q[a] /\ n[j] = q[b]
    BY <2>2
  <2> HIDE DEF a, b
  <2> QED
    BY <2>3, <2>4 DEF Ordered
<1> QED
  BY <1>1, <1>2

(* A page that is moved to the end of the queue becomes the most recent. *)
LEMMA OrderMoveToEnd ==
  ASSUME NEW P, NEW F, NEW q, IsQueue(q, P, F), NEW R, Ordered(q, R),
         NEW p \in P, NEW f \in F, NEW S, Renews(S, R, p, P), Pair(p, f) \in ToSet(q)
  PROVE  Ordered(Append(RemoveFirst(q, Pair(p, f)), Pair(p, f)), S)
<1> DEFINE n == RemoveFirst(q, Pair(p, f))
<1>1. IsQueue(n, P, F) /\ ToSet(n) = ToSet(q) \ {Pair(p, f)} /\ Ordered(n, R)
  BY QueueRemoveFirst, OrderRemove
<1>2. ~Conflicts(ToSet(n), p, f)
  <2> SUFFICES ASSUME NEW e \in ToSet(q), e # Pair(p, f), e.page = p \/ e.frame = f
               PROVE  FALSE
    BY <1>1 DEF Conflicts
  <2>1. PICK i \in 1 .. Len(q) : e = q[i]
    BY QueueElements
  <2>2. PICK j \in 1 .. Len(q) : Pair(p, f) = q[j]
    BY QueueElements
  <2>3. q[j].page = p /\ q[j].frame = f
    BY <2>2 DEF Pair
  <2>4. i = j
    BY <2>1, <2>3 DEF IsQueue, Distinct
  <2> QED
    BY <2>1, <2>2, <2>4
<1> HIDE DEF n
<1>3. Ordered(Append(n, Pair(p, f)), S)
  BY <1>1, <1>2, OrderAppend
<1> QED
  BY <1>3 DEF n

-----------------------------------------------------------------------------
(* The state of the policy, and the pairs it tracks, by its kind. *)
LEMMA StateByKind ==
  ASSUME NEW P, NEW F, NEW pol, IsPolicy(pol, P, F)
  PROVE  /\ pol.kind = "FIFO" =>
              IsQueue(pol.state, P, F) /\ Tracked(pol) = ToSet(pol.state)
         /\ pol.kind = "LRU" =>
              IsLru(pol.state, P, F) /\ Tracked(pol) = ToSet(pol.state.list)
         /\ pol.kind = "CLOCK" =>
              IsClock(pol.state, P, F) /\ Tracked(pol) = Clock!Tracked(pol.state)
         /\ pol.kind = "OPTIMAL" =>
              IsOptimal(pol.state, P, F) /\ Tracked(pol) = ToSet(pol.state.resident)
<1>1. IsStateOf(pol.kind, pol.state, P, F)
  BY DEF IsPolicy
<1>2. Tracked(pol) = TrackedBy(pol.kind, pol.state)
  BY PolicyTracked
<1>3. /\ pol.kind = "FIFO" => IsQueue(pol.state, P, F)
      /\ pol.kind = "LRU" => IsLru(pol.state, P, F)
      /\ pol.kind = "CLOCK" => IsClock(pol.state, P, F)
      /\ pol.kind = "OPTIMAL" => IsOptimal(pol.state, P, F)
  BY <1>1 DEF IsStateOf
<1>4. /\ pol.kind = "FIFO" => Tracked(pol) = ToSet(pol.state)
      /\ pol.kind = "LRU" => Tracked(pol) = ToSet(pol.state.list)
      /\ pol.kind = "CLOCK" => Tracked(pol) = Clock!Tracked(pol.state)
      /\ pol.kind = "OPTIMAL" => Tracked(pol) = ToSet(pol.state.resident)
  BY <1>2 DEF TrackedBy
<1> QED
  BY <1>3, <1>4

(* The state a call leaves behind, by the kind of the policy. *)
LEMMA QueueAfterLoad ==
  ASSUME NEW P, NEW F, NEW pol, IsPolicy(pol, P, F), NEW p \in P, NEW f \in F
  PROVE  LET n       == PageLoaded(pol, p, f).state
             ignored == Conflicts(Tracked(pol), p, f)
         IN  /\ pol.kind = "FIFO" =>
                  n = IF ignored THEN pol.state ELSE Append(pol.state, Pair(p, f))
             /\ pol.kind = "LRU" =>
                  n.list = IF ignored THEN pol.state.list
                           ELSE Append(pol.state.list, Pair(p, f))
             /\ pol.kind = "OPTIMAL" =>
                  n.resident = IF ignored THEN pol.state.resident
                               ELSE Append(pol.state.resident, Pair(p, f))
<1> DEFINE n == PageLoaded(pol, p, f).state
<1>1. CASE pol.kind = "FIFO"
  <2>1. n = Fifo!PageLoaded(pol.state, p, f)
    BY <1>1 DEF PageLoaded, IsPolicy
  <2>2. IsQueue(pol.state, P, F) /\ Tracked(pol) = ToSet(pol.state)
    BY <1>1, StateByKind
  <2>3. Fifo!Tracks(pol.state, p, f) <=> Conflicts(ToSet(pol.state), p, f)
    <3>1. ToSet(pol.state) = {pol.state[i] : i \in 1 .. Len(pol.state)}
      BY <2>2, QueueElements
    <3> QED
      BY <3>1 DEF Fifo!Tracks, Conflicts
  <2>4. Fifo!Entry(p, f) = Pair(p, f)
    BY DEF Fifo!Entry, Pair
  <2>5. n = IF Conflicts(Tracked(pol), p, f) THEN pol.state ELSE Append(pol.state, Pair(p, f))
    BY <2>1, <2>2, <2>3, <2>4 DEF Fifo!PageLoaded
  <2> HIDE DEF n
  <2> QED
    BY <1>1, <2>5 DEF n
<1>2. CASE pol.kind = "LRU"
  <2>1. n = Lru!PageLoaded(pol.state, p, f)
    BY <1>2 DEF PageLoaded, IsPolicy
  <2>2. IsLru(pol.state, P, F) /\ Tracked(pol) = ToSet(pol.state.list)
    BY <1>2, StateByKind
  <2>3. n.list = IF Conflicts(Tracked(pol), p, f) THEN pol.state.list
                 ELSE Append(pol.state.list, Pair(p, f))
    <3>1. Lru!PageLoaded(pol.state, p, f).list =
            IF Conflicts(ToSet(pol.state.list), p, f) THEN pol.state.list
            ELSE Append(pol.state.list, Pair(p, f))
      <4>1. LET m == Lru!PageLoaded(pol.state, p, f)
            IN  /\ IsLru(m, P, F)
                /\ m.list = IF Conflicts(ToSet(pol.state.list), p, f) THEN pol.state.list
                            ELSE Append(pol.state.list, Pair(p, f))
                /\ ToSet(m.list) =
                     IF Conflicts(ToSet(pol.state.list), p, f) THEN ToSet(pol.state.list)
                     ELSE ToSet(pol.state.list) \cup {Pair(p, f)}
        BY <2>2, LruPageLoaded
      <4> QED
        BY <4>1
    <3> HIDE DEF n
    <3> QED
      BY <2>1, <2>2, <3>1
  <2> HIDE DEF n
  <2> QED
    BY <1>2, <2>3 DEF n
<1>3. CASE pol.kind = "OPTIMAL"
  <2>1. n = Optimal!PageLoaded(pol.state, p, f)
    BY <1>3 DEF PageLoaded, IsPolicy
  <2>2. IsOptimal(pol.state, P, F) /\ Tracked(pol) = ToSet(pol.state.resident)
    BY <1>3, StateByKind
  <2>3. n.resident = IF Conflicts(Tracked(pol), p, f) THEN pol.state.resident
                     ELSE Append(pol.state.resident, Pair(p, f))
    <3>1. Optimal!PageLoaded(pol.state, p, f).resident =
            IF Conflicts(ToSet(pol.state.resident), p, f) THEN pol.state.resident
            ELSE Append(pol.state.resident, Pair(p, f))
      <4> DEFINE s == pol.state
      <4>0. IsOptimal(s, P, F)
        BY <2>2
      <4> HIDE DEF s
      <4>1. LET m == Optimal!PageLoaded(s, p, f)
            IN  /\ IsOptimal(m, P, F)
                /\ m.resident = IF Conflicts(ToSet(s.resident), p, f) THEN s.resident
                                ELSE Append(s.resident, Pair(p, f))
                /\ ToSet(m.resident) =
                     IF Conflicts(ToSet(s.resident), p, f) THEN ToSet(s.resident)
                     ELSE ToSet(s.resident) \cup {Pair(p, f)}
        BY <4>0, OptimalPageLoaded
      <4> QED
        BY <4>1 DEF s
    <3> HIDE DEF n
    <3> QED
      BY <2>1, <2>2, <3>1
  <2> HIDE DEF n
  <2> QED
    BY <1>3, <2>3 DEF n
<1> QED
  BY <1>1, <1>2, <1>3

(* What pageAccessed() does to the order a policy keeps: FIFO and Optimal
   leave it, LRU moves the entry to the back. *)
LEMMA QueueAfterAccess ==
  ASSUME NEW P, NEW F, NEW pol, IsPolicy(pol, P, F), NEW p \in P, NEW f \in F
  PROVE  LET n == PageAccessed(pol, p, f).state
         IN  /\ pol.kind = "FIFO" => n = pol.state
             /\ pol.kind = "LRU" =>
                  n.list = IF Pair(p, f) \in Tracked(pol)
                           THEN Append(RemoveFirst(pol.state.list, Pair(p, f)), Pair(p, f))
                           ELSE pol.state.list
             /\ pol.kind = "OPTIMAL" => n.resident = pol.state.resident
<1> DEFINE n == PageAccessed(pol, p, f).state
<1>1. CASE pol.kind = "FIFO"
  <2>1. n = Fifo!PageAccessed(pol.state, p, f)
    BY <1>1 DEF PageAccessed, IsPolicy
  <2> HIDE DEF n
  <2> QED
    BY <1>1, <2>1 DEF Fifo!PageAccessed, n
<1>2. CASE pol.kind = "LRU"
  <2>1. n = Lru!PageAccessed(pol.state, p, f)
    BY <1>2 DEF PageAccessed, IsPolicy
  <2>2. IsLru(pol.state, P, F) /\ Tracked(pol) = ToSet(pol.state.list)
    BY <1>2, StateByKind
  <2>3. Pair(p, f) \in Tracked(pol) <=> Pair(p, f) \in ToSet(pol.state.list)
    BY <2>2
  <2>4. n.list = IF Pair(p, f) \in Tracked(pol)
                 THEN Append(RemoveFirst(pol.state.list, Pair(p, f)), Pair(p, f))
                 ELSE pol.state.list
    BY <2>1, <2>2, <2>3, LruPageAccessed
  <2> HIDE DEF n
  <2> QED
    BY <1>2, <2>4 DEF n
<1>3. CASE pol.kind = "OPTIMAL"
  <2>1. n = Optimal!PageAccessed(pol.state, p, f)
    BY <1>3 DEF PageAccessed, IsPolicy
  <2>2. IsOptimal(pol.state, P, F)
    BY <1>3, StateByKind
  <2>3. n.resident = pol.state.resident
    BY <2>1, <2>2, OptimalPageAccessed
  <2> HIDE DEF n
  <2> QED
    BY <1>3, <2>3 DEF n
<1> QED
  BY <1>1, <1>2, <1>3

(* What pageRemoved() does to that order: the entry leaves it and the
   others keep their places. *)
LEMMA QueueAfterRemoval ==
  ASSUME NEW P, NEW F, NEW pol, IsPolicy(pol, P, F), NEW p \in P, NEW f \in F
  PROVE  LET n == PageRemoved(pol, p, f).state
         IN  /\ pol.kind = "FIFO" => n = RemoveFirst(pol.state, Pair(p, f))
             /\ pol.kind = "LRU" => n.list = RemoveFirst(pol.state.list, Pair(p, f))
             /\ pol.kind = "OPTIMAL" =>
                  n.resident = RemoveFirst(pol.state.resident, Pair(p, f))
<1> DEFINE n == PageRemoved(pol, p, f).state
<1>1. CASE pol.kind = "FIFO"
  <2>1. n = Fifo!PageRemoved(pol.state, p, f)
    BY <1>1 DEF PageRemoved, IsPolicy
  <2>2. n = RemoveFirst(pol.state, Pair(p, f))
    BY <2>1, SameRemoveFirst DEF Fifo!PageRemoved, Fifo!Entry, Pair
  <2> HIDE DEF n
  <2> QED
    BY <1>1, <2>2 DEF n
<1>2. CASE pol.kind = "LRU"
  <2>1. n = Lru!PageRemoved(pol.state, p, f)
    BY <1>2 DEF PageRemoved, IsPolicy
  <2>2. IsLru(pol.state, P, F)
    BY <1>2, StateByKind
  <2>3. n.list = RemoveFirst(pol.state.list, Pair(p, f))
    BY <2>1, <2>2, LruPageRemoved
  <2> HIDE DEF n
  <2> QED
    BY <1>2, <2>3 DEF n
<1>3. CASE pol.kind = "OPTIMAL"
  <2>1. n = Optimal!PageRemoved(pol.state, p, f)
    BY <1>3 DEF PageRemoved, IsPolicy
  <2>2. IsOptimal(pol.state, P, F)
    BY <1>3, StateByKind
  <2>3. n.resident = RemoveFirst(pol.state.resident, Pair(p, f))
    BY <2>1, <2>2, OptimalPageRemoved
  <2> HIDE DEF n
  <2> QED
    BY <1>3, <2>3 DEF n
<1> QED
  BY <1>1, <1>2, <1>3

(* A choice changes no queue. *)
LEMMA QueueAfterChoice ==
  ASSUME NEW P, NEW F, NEW pol, IsPolicy(pol, P, F), pol.kind # "CLOCK"
  PROVE  AfterChoice(pol).state = pol.state
<1> DEFINE n == AfterChoice(pol).state
<1>1. CASE pol.kind = "FIFO"
  <2>1. n = Fifo!AfterChoice(pol.state)
    BY <1>1 DEF AfterChoice, IsPolicy
  <2> QED
    BY <2>1 DEF Fifo!AfterChoice
<1>2. CASE pol.kind = "LRU"
  <2>1. n = Lru!AfterChoice(pol.state)
    BY <1>2 DEF AfterChoice, IsPolicy
  <2> QED
    BY <2>1 DEF Lru!AfterChoice
<1>3. CASE pol.kind = "OPTIMAL"
  <2>1. n = Optimal!AfterChoice(pol.state)
    BY <1>3 DEF AfterChoice, IsPolicy
  <2> QED
    BY <2>1 DEF Optimal!AfterChoice
<1> QED
  BY <1>1, <1>2, <1>3 DEF IsPolicy, IsStateOf, PolicyKinds
=============================================================================
