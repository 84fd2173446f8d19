------------------------------ MODULE RunProofs ------------------------------
(***************************************************************************)
(* What runs show of each other, and of the parts they are made of.        *)
(*                                                                         *)
(* Optimal, which nobody tells the references, makes the faults of FIFO,   *)
(* for every set of benchmarks.  A comparison runs simulations one after   *)
(* the other and keeps no more of each than a row, so two rows are related *)
(* by a twin: the run that takes the same steps under the other policy.    *)
(* Of the twins every step is alike, because the policies hold the same    *)
(* pages in the same order and choose the same victim; and a row tells of  *)
(* the run it was made from wherever the ranking has put it.               *)
(*                                                                         *)
(* The results proved of the unit alone hold of the unit of a simulation,  *)
(* as long as the progress callback leaves the physical memory alone.  No  *)
(* access of such a run fails, and the executor, the unit, its per-process *)
(* statistics and the policy, which count independently, agree about it.   *)
(* The same follows of the simulations of a comparison, which have no      *)
(* callback, so that its rows are true and, once ranked, can be compared.  *)
(***************************************************************************)
EXTENDS Comparison, SimulationProofs

-----------------------------------------------------------------------------
(* Optimal without references *)

(* What FIFO and Optimal hold of the same pages, loaded in the order of q, *)
(* when Optimal was never told what comes next.                            *)
FifoHolding(q, r, d) ==
  [kind |-> "FIFO", state |-> q, replacements |-> r, dirtyEvictions |-> d]

OptimalHolding(q, r, d) ==
  [kind |-> "OPTIMAL", state |-> [resident |-> q, references |-> <<>>, position |-> 0],
   replacements |-> r, dirtyEvictions |-> d]

(* A policy that does as FIFO does, with or without having been told. *)
Twins(fifo, optimal) ==
  \E S, q, r, d : /\ q \in Seq(S)
                  /\ fifo = FifoHolding(q, r, d)
                  /\ optimal = OptimalHolding(q, r, d)

(* Without references no use is ahead. *)
LEMMA NextUseUnknown ==
  ASSUME NEW q, NEW p
  PROVE  Mmu!Optimal!NextUse([resident |-> q, references |-> <<>>, position |-> 0], p) = 1
<1> DEFINE s == [resident |-> q, references |-> <<>>, position |-> 0]
           I == {i \in s.position + 1 .. Len(s.references) : s.references[i] = p}
                  \cup {Len(s.references) + 1}
<1>1. I = {1}
  <2>1. s.position = 0 /\ s.references = <<>>
    OBVIOUS
  <2> HIDE DEF s
  <2> QED
    BY <2>1
<1>2. Mmu!Optimal!Min(I) = 1
  <2> HIDE DEF I
  <2> QED
    BY <1>1 DEF Mmu!Optimal!Min
<1> QED
  BY <1>2 DEF Mmu!Optimal!NextUse

(* So that the page loaded first is the victim. *)
LEMMA UntoldVictim ==
  ASSUME NEW S, NEW q \in Seq(S), q # <<>>
  PROVE  Mmu!Optimal!Victim([resident |-> q, references |-> <<>>, position |-> 0]) = Head(q).frame
<1> DEFINE s == [resident |-> q, references |-> <<>>, position |-> 0]
           base == Head(q)
           rest == Tail(q)
           N == Len(rest)
           IsFolding(g) ==
             g = [T \in SUBSET (1 .. N) |->
                   IF T = {} THEN base
                   ELSE IF Mmu!Optimal!NextUse(s, rest[Mmu!Optimal!Max(T)].page)
                             > Mmu!Optimal!NextUse(s, g[T \ {Mmu!Optimal!Max(T)}].page)
                        THEN rest[Mmu!Optimal!Max(T)] ELSE g[T \ {Mmu!Optimal!Max(T)}]]
<1>1. N \in Nat /\ DOMAIN rest = 1 .. N
  OBVIOUS
<1>2. Mmu!Optimal!Victim(s) = (CHOOSE g : IsFolding(g))[1 .. N].frame
  <2>1. s.resident = q
    OBVIOUS
  <2> QED
    BY <1>1, <2>1 DEF Mmu!Optimal!Victim, Mmu!Optimal!FoldLeft, Mmu!Optimal!MapThenFoldSet
<1>3. \A p : Mmu!Optimal!NextUse(s, p) = 1
  BY NextUseUnknown
<1> HIDE DEF s, base, rest, N
<1>4. IsFolding([T \in SUBSET (1 .. N) |-> base])
  BY <1>3
<1>5. PICK g : IsFolding(g) /\ (CHOOSE h : IsFolding(h)) = g
  BY <1>4
<1>6. g[{}] = base
  BY <1>5
<1>7. ASSUME NEW T \in SUBSET (1 .. N), T # {}
      PROVE  g[T] = g[T \ {Max(T)}]
  <2>1. Mmu!Optimal!Max(T) = Max(T)
    BY DEF Mmu!Optimal!Max, Max
  <2>2. g[T] = IF Mmu!Optimal!NextUse(s, rest[Mmu!Optimal!Max(T)].page)
                    > Mmu!Optimal!NextUse(s, g[T \ {Mmu!Optimal!Max(T)}].page)
               THEN rest[Mmu!Optimal!Max(T)] ELSE g[T \ {Mmu!Optimal!Max(T)}]
    BY <1>5, <1>7
  <2>3. ~(1 > 1)
    OBVIOUS
  <2> QED
    BY <1>3, <2>1, <2>2, <2>3
<1> DEFINE A == {base}
<1>8. g[{}] \in A /\ \A T \in SUBSET (1 .. N) : T # {} /\ g[T \ {Max(T)}] \in A => g[T] \in A
  BY <1>6, <1>7
<1> HIDE DEF A
<1>9. g[1 .. N] \in A
  BY <1>1, <1>8, FoldStays
<1> QED
  BY <1>2, <1>5, <1>9 DEF s, base, A

(* What is left of a sequence is a sequence, the same for both. *)
LEMMA RemainderSame ==
  ASSUME NEW S, NEW q \in Seq(S), NEW e
  PROVE  /\ Mmu!Fifo!RemoveFirst(q, e) \in Seq(S)
         /\ Mmu!Optimal!RemoveFirst(q, e) = Mmu!Fifo!RemoveFirst(q, e)
<1> DEFINE I == {i \in 1 .. Len(q) : q[i] = e}
           k == Mmu!Fifo!Min(I)
<1>1. Mmu!Optimal!RemoveFirst(q, e) = Mmu!Fifo!RemoveFirst(q, e)
  BY Zenon
     DEF Mmu!Fifo!RemoveFirst, Mmu!Fifo!RemoveAt, Mmu!Fifo!SelectInSeq, Mmu!Fifo!Min,
         Mmu!Optimal!RemoveFirst, Mmu!Optimal!RemoveAt, Mmu!Optimal!SelectInSeq, Mmu!Optimal!Min
<1>2. CASE I = {}
  BY <1>1, <1>2 DEF Mmu!Fifo!RemoveFirst
<1>3. CASE I # {}
  <2>1. I \in SUBSET Nat
    OBVIOUS
  <2>2. \E m \in I : \A j \in I : m <= j
    BY <1>3, <2>1, LeastNatural
  <2>3. k \in I
    BY <2>2 DEF Mmu!Fifo!Min
  <2>4. Mmu!Fifo!RemoveFirst(q, e) = SubSeq(q, 1, k - 1) \o SubSeq(q, k + 1, Len(q))
    BY <1>3 DEF Mmu!Fifo!RemoveFirst, Mmu!Fifo!RemoveAt, Mmu!Fifo!SelectInSeq
  <2>5. k \in 1 .. Len(q) /\ Len(q) \in Nat /\ \A i \in 1 .. Len(q) : q[i] \in S
    BY <2>3, LenProperties, ElementOfSeq
  <2> HIDE DEF k
  <2>6. SubSeq(q, 1, k - 1) \in Seq(S) /\ SubSeq(q, k + 1, Len(q)) \in Seq(S)
    BY <2>5, SubSeqProperties
  <2> QED
    BY <1>1, <2>4, <2>6, ConcatProperties
<1> QED
  BY <1>2, <1>3

(* A new FIFO and a new Optimal. *)
LEMMA TwinsNew == Twins(Mmu!NewPolicy("FIFO"), Mmu!NewPolicy("OPTIMAL"))
<1>1. <<>> \in Seq({})
  OBVIOUS
<1>2. /\ Mmu!NewPolicy("FIFO") = FifoHolding(<<>>, 0, 0)
      /\ Mmu!NewPolicy("OPTIMAL") = OptimalHolding(<<>>, 0, 0)
  BY DEF Mmu!NewPolicy, Mmu!Fifo!Empty, Mmu!Optimal!Empty, FifoHolding, OptimalHolding
<1> QED
  BY <1>1, <1>2, Zenon DEF Twins

(* Neither takes notice of a use, and both append a page that is loaded. *)
LEMMA TwinsAfterLoad ==
  ASSUME NEW fifo, NEW optimal, Twins(fifo, optimal), NEW p, NEW f
  PROVE  /\ Twins(Mmu!PageAccessed(fifo, p, f), Mmu!PageAccessed(optimal, p, f))
         /\ Twins(Mmu!AfterLoad(fifo, p, f), Mmu!AfterLoad(optimal, p, f))
<1>1. PICK S, q, r, d : /\ q \in Seq(S)
                        /\ fifo = FifoHolding(q, r, d)
                        /\ optimal = OptimalHolding(q, r, d)
  BY DEF Twins
<1>2. Mmu!PageAccessed(fifo, p, f) = fifo /\ Mmu!PageAccessed(optimal, p, f) = optimal
  <2>1. Mmu!Optimal!PageAccessed(optimal.state, p, f) = optimal.state
    BY <1>1 DEF OptimalHolding, Mmu!Optimal!PageAccessed
  <2> QED
    BY <1>1, <2>1 DEF Mmu!PageAccessed, Mmu!Fifo!PageAccessed, FifoHolding, OptimalHolding
<1> DEFINE e == [page |-> p, frame |-> f]
           tracked == \E i \in 1 .. Len(q) : q[i].page = p \/ q[i].frame = f
           after == IF tracked THEN q ELSE Append(q, e)
<1>3. Mmu!PageLoaded(fifo, p, f) = FifoHolding(after, r, d)
  <2>1. Mmu!Fifo!PageLoaded(q, p, f) = after
    BY DEF Mmu!Fifo!PageLoaded, Mmu!Fifo!Tracks, Mmu!Fifo!Entry
  <2> HIDE DEF after
  <2> QED
    BY <1>1, <2>1 DEF Mmu!PageLoaded, FifoHolding
<1>4. Mmu!PageLoaded(optimal, p, f) = OptimalHolding(after, r, d)
  <2> DEFINE s == [resident |-> q, references |-> <<>>, position |-> 0]
  <2>1. Mmu!Optimal!PageLoaded(s, p, f)
          = [resident |-> after, references |-> <<>>, position |-> 0]
    <3>1. s.resident = q
      OBVIOUS
    <3>2. Mmu!Optimal!PageLoaded(s, p, f) = IF tracked THEN s ELSE [s EXCEPT !.resident = Append(q, e)]
      <4> HIDE DEF s
      <4> QED
        BY <3>1 DEF Mmu!Optimal!PageLoaded, Mmu!Optimal!Tracks, Mmu!Optimal!Entry
    <3>3. ASSUME NEW x
          PROVE  [s EXCEPT !.resident = x] = [resident |-> x, references |-> <<>>, position |-> 0]
      OBVIOUS
    <3> HIDE DEF e, tracked
    <3> QED
      BY <3>2, <3>3
  <2> HIDE DEF after
  <2> QED
    BY <1>1, <2>1 DEF Mmu!PageLoaded, OptimalHolding
<1>5. after \in Seq(S \cup {e})
  <2> HIDE DEF e, tracked
  <2>1. q \in Seq(S \cup {e})
    BY <1>1
  <2> QED
    BY <2>1
<1> HIDE DEF after
<1> QED
  BY <1>1, <1>2, <1>3, <1>4, <1>5 DEF Twins, Mmu!AfterLoad

(* Both name the page loaded first as the victim, *)
LEMMA TwinsVictim ==
  ASSUME NEW fifo, NEW optimal, Twins(fifo, optimal)
  PROVE  /\ Mmu!HasVictim(fifo) <=> Mmu!HasVictim(optimal)
         /\ Mmu!HasVictim(fifo) => Mmu!Victim(fifo) = Mmu!Victim(optimal)
         /\ Twins(Mmu!AfterChoice(fifo), Mmu!AfterChoice(optimal))
<1>1. PICK S, q, r, d : /\ q \in Seq(S)
                        /\ fifo = FifoHolding(q, r, d)
                        /\ optimal = OptimalHolding(q, r, d)
  BY DEF Twins
<1> DEFINE s == [resident |-> q, references |-> <<>>, position |-> 0]
           chosen == IF q # <<>> THEN r + 1 ELSE r
<1>2. (Mmu!HasVictim(fifo) <=> q # <<>>) /\ (Mmu!HasVictim(optimal) <=> q # <<>>)
  BY <1>1 DEF Mmu!HasVictim, Mmu!Fifo!HasVictim, Mmu!Optimal!HasVictim, FifoHolding, OptimalHolding
<1>3. Mmu!Victim(fifo) = Head(q).frame
  BY <1>1 DEF Mmu!Victim, Mmu!Fifo!Victim, FifoHolding
<1>4. q # <<>> => Mmu!Victim(optimal) = Head(q).frame
  <2>1. Mmu!Victim(optimal) = Mmu!Optimal!Victim(s)
    BY <1>1 DEF Mmu!Victim, OptimalHolding
  <2> QED
    BY <1>1, <2>1, UntoldVictim
<1>5. Mmu!AfterChoice(fifo) = FifoHolding(q, chosen, d)
  <2>1. Mmu!AfterChoice(fifo) = [fifo EXCEPT !.state = q, !.replacements = chosen]
    BY <1>1, <1>2 DEF Mmu!AfterChoice, Mmu!Fifo!AfterChoice, FifoHolding
  <2> HIDE DEF chosen
  <2> QED
    BY <1>1, <2>1 DEF FifoHolding
<1>6. Mmu!AfterChoice(optimal) = OptimalHolding(q, chosen, d)
  <2>1. Mmu!AfterChoice(optimal) = [optimal EXCEPT !.state = s, !.replacements = chosen]
    BY <1>1, <1>2 DEF Mmu!AfterChoice, Mmu!Optimal!AfterChoice, OptimalHolding
  <2> HIDE DEF chosen
  <2> QED
    BY <1>1, <2>1 DEF OptimalHolding
<1> HIDE DEF chosen
<1> QED
  BY <1>1, <1>2, <1>3, <1>4, <1>5, <1>6 DEF Twins

(* and forget it as they are told. *)
LEMMA TwinsRemoved ==
  ASSUME NEW fifo, NEW optimal, Twins(fifo, optimal), NEW p, NEW f
  PROVE  /\ Twins(Mmu!PageRemoved(fifo, p, f), Mmu!PageRemoved(optimal, p, f))
         /\ Twins(Mmu!RecordDirtyEviction(fifo), Mmu!RecordDirtyEviction(optimal))
<1>1. PICK S, q, r, d : /\ q \in Seq(S)
                        /\ fifo = FifoHolding(q, r, d)
                        /\ optimal = OptimalHolding(q, r, d)
  BY DEF Twins
<1> DEFINE e == [page |-> p, frame |-> f]
           after == Mmu!Fifo!RemoveFirst(q, e)
<1>2. after \in Seq(S) /\ Mmu!Optimal!RemoveFirst(q, e) = after
  <2> HIDE DEF e
  <2> QED
    BY <1>1, RemainderSame
<1> HIDE DEF after
<1>3. Mmu!PageRemoved(fifo, p, f) = FifoHolding(after, r, d)
  BY <1>1 DEF Mmu!PageRemoved, Mmu!Fifo!PageRemoved, Mmu!Fifo!Entry, FifoHolding, after
<1>4. Mmu!PageRemoved(optimal, p, f) = OptimalHolding(after, r, d)
  <2>1. Mmu!Optimal!PageRemoved([resident |-> q, references |-> <<>>, position |-> 0], p, f)
          = [resident |-> after, references |-> <<>>, position |-> 0]
    BY <1>2 DEF Mmu!Optimal!PageRemoved, Mmu!Optimal!Entry
  <2> QED
    BY <1>1, <2>1 DEF Mmu!PageRemoved, OptimalHolding
<1>5. /\ Mmu!RecordDirtyEviction(fifo) = FifoHolding(q, r, d + 1)
      /\ Mmu!RecordDirtyEviction(optimal) = OptimalHolding(q, r, d + 1)
  BY <1>1 DEF Mmu!RecordDirtyEviction, FifoHolding, OptimalHolding
<1> QED
  BY <1>1, <1>2, <1>3, <1>4, <1>5 DEF Twins

(* Two units that differ in no more than which of the two policies decides. *)
TwinUnits(u, w) ==
  /\ w.mem = u.mem
  /\ w.pages = u.pages
  /\ w.counts = u.counts
  /\ w.procStats = u.procStats
  /\ w.log = u.log
  /\ Twins(u.pol, w.pol)

(* They do the same with an access that finds its page, *)
LEMMA TwinsHit ==
  ASSUME NEW u, NEW w, TwinUnits(u, w), NEW pid, NEW p, NEW a, NEW f
  PROVE  /\ TwinUnits(AfterHit(u, pid, p, a), AfterHit(w, pid, p, a))
         /\ TwinUnits(AfterRefusal(u, pid, p, f), AfterRefusal(w, pid, p, f))
<1>1. /\ w.mem = u.mem /\ w.pages = u.pages /\ w.counts = u.counts
      /\ w.procStats = u.procStats /\ w.log = u.log /\ Twins(u.pol, w.pol)
  BY DEF TwinUnits
<1>2. Twins(Mmu!PageAccessed(u.pol, p, u.mem.table[p]), Mmu!PageAccessed(w.pol, p, u.mem.table[p]))
  BY <1>1, TwinsAfterLoad
<1> QED
  BY <1>1, <1>2 DEF TwinUnits, AfterHit, AfterRefusal, LogAfter

(* takes a free frame, *)
LEMMA TwinsFreeFrame ==
  ASSUME NEW u, NEW w, TwinUnits(u, w), NEW pid, NEW p, NEW a
  PROVE  TwinUnits(AfterFreeFrame(u, pid, p, a), AfterFreeFrame(w, pid, p, a))
<1>1. /\ w.mem = u.mem /\ w.pages = u.pages /\ w.counts = u.counts
      /\ w.procStats = u.procStats /\ w.log = u.log /\ Twins(u.pol, w.pol)
  BY DEF TwinUnits
<1> DEFINE f == Mmu!MapPage(u.mem, p).table[p]
<1>2. Twins(Mmu!AfterLoad(u.pol, p, f), Mmu!AfterLoad(w.pol, p, f))
  BY <1>1, TwinsAfterLoad
<1> QED
  BY <1>1, <1>2 DEF TwinUnits, AfterFreeFrame, LogAfter

(* loses the fault, *)
LEMMA TwinsLostFault ==
  ASSUME NEW u, NEW w, TwinUnits(u, w), NEW pid, NEW p, NEW r
  PROVE  TwinUnits(AfterLostFault(u, pid, p, r), AfterLostFault(w, pid, p, r))
<1>1. /\ w.mem = u.mem /\ w.pages = u.pages /\ w.counts = u.counts
      /\ w.procStats = u.procStats /\ w.log = u.log /\ Twins(u.pol, w.pol)
  BY DEF TwinUnits
<1>2. Twins(Mmu!AfterChoice(u.pol), Mmu!AfterChoice(w.pol))
  BY <1>1, TwinsVictim
<1> QED
  BY <1>1, <1>2 DEF TwinUnits, AfterLostFault, LogAfter

(* or replaces a page. *)
LEMMA TwinsReplacement ==
  ASSUME NEW u, NEW w, TwinUnits(u, w), Mmu!HasVictim(u.pol), NEW pid, NEW p, NEW a
  PROVE  TwinUnits(AfterVictim(u, pid, p, a), AfterVictim(w, pid, p, a))
<1>1. /\ w.mem = u.mem /\ w.pages = u.pages /\ w.counts = u.counts
      /\ w.procStats = u.procStats /\ w.log = u.log /\ Twins(u.pol, w.pol)
  BY DEF TwinUnits
<1> DEFINE f == Mmu!Victim(u.pol)
           v == u.mem.frames[f]
           d == u.pages[v].dirty
           c == Mmu!AfterLoad(Mmu!PageRemoved(Mmu!AfterChoice(u.pol), v, f), p, f)
           e == Mmu!AfterLoad(Mmu!PageRemoved(Mmu!AfterChoice(w.pol), v, f), p, f)
<1>2. Mmu!Victim(w.pol) = f /\ Twins(Mmu!AfterChoice(u.pol), Mmu!AfterChoice(w.pol))
  BY <1>1, TwinsVictim
<1>3. Twins(c, e)
  <2> HIDE DEF f, v
  <2> QED
    BY <1>2, TwinsRemoved, TwinsAfterLoad
<1>4. Twins(Mmu!RecordDirtyEviction(c), Mmu!RecordDirtyEviction(e))
  <2> HIDE DEF c, e
  <2> QED
    BY <1>3, TwinsRemoved
<1> DEFINE x == IF d THEN Mmu!RecordDirtyEviction(c) ELSE c
           y == IF d THEN Mmu!RecordDirtyEviction(e) ELSE e
<1>5. Twins(x, y)
  <2> HIDE DEF c, e, d
  <2> QED
    BY <1>3, <1>4
<1>6. AfterVictim(u, pid, p, a).pol = x /\ AfterVictim(w, pid, p, a).pol = y
  BY <1>1, <1>2 DEF AfterVictim
<1>7. /\ AfterVictim(w, pid, p, a).mem = AfterVictim(u, pid, p, a).mem
      /\ AfterVictim(w, pid, p, a).pages = AfterVictim(u, pid, p, a).pages
      /\ AfterVictim(w, pid, p, a).counts = AfterVictim(u, pid, p, a).counts
      /\ AfterVictim(w, pid, p, a).procStats = AfterVictim(u, pid, p, a).procStats
      /\ AfterVictim(w, pid, p, a).log = AfterVictim(u, pid, p, a).log
  BY <1>1, <1>2 DEF AfterVictim, LogAfter
<1> HIDE DEF x, y
<1> QED
  BY <1>5, <1>6, <1>7 DEF TwinUnits

(* They stay alike whatever the access. *)
LEMMA TwinsAccess ==
  ASSUME NEW u, NEW w, TwinUnits(u, w), NEW pid, NEW p, NEW a
  PROVE  TwinUnits(AfterAccess(u, pid, p, a), AfterAccess(w, pid, p, a))
<1>1. w.mem = u.mem /\ w.pages = u.pages
  BY DEF TwinUnits
<1>2. /\ Mmu!HasVictim(u.pol) <=> Mmu!HasVictim(w.pol)
      /\ Mmu!HasVictim(u.pol) => Mmu!Victim(u.pol) = Mmu!Victim(w.pol)
  BY TwinsVictim DEF TwinUnits
<1>3. /\ IsHit(w, p) <=> IsHit(u, p)
      /\ IsHeld(w, p) <=> IsHeld(u, p)
      /\ Mmu!HasVictim(u.pol) => (IsReplaceable(w, a) <=> IsReplaceable(u, a))
  BY <1>1, <1>2 DEF IsHit, IsHeld, IsReplaceable
<1> QED
  BY <1>1, <1>2, <1>3, TwinsHit, TwinsFreeFrame, TwinsLostFault, TwinsReplacement DEF AfterAccess

(* The runs of two configurations that differ in the policy are alike. *)
LEMMA TwinsRun ==
  ASSUME NEW w, NEW x, NEW c, NEW d, NEW accesses, NEW n \in Nat,
         IsRun(w, c, accesses, n), IsRun(x, d, accesses, n),
         c.policy = "FIFO", d.policy = "OPTIMAL"
  PROVE  TwinUnits(w[n].unit, x[n].unit)
<1> DEFINE S == {k \in 0 .. n : ~TwinUnits(w[k].unit, x[k].unit)}
<1>1. SUFFICES ASSUME S # {} PROVE FALSE
  OBVIOUS
<1>2. S \in SUBSET Nat
  OBVIOUS
<1>3. PICK k \in S : \A j \in S : k <= j
  BY <1>1, <1>2, LeastNatural
<1>4. CASE k = 0
  <2>1. w[0] = FirstState(c) /\ x[0] = FirstState(d)
    BY DEF IsRun
  <2>2. TwinUnits(FirstState(c).unit, FirstState(d).unit)
    BY TwinsNew DEF FirstState, TwinUnits
  <2> QED
    BY <1>3, <1>4, <2>1, <2>2
<1>5. CASE k # 0
  <2>1. k \in 1 .. n /\ k - 1 \in 0 .. n /\ ~(k <= k - 1)
    BY <1>3, <1>5
  <2>2. TwinUnits(w[k - 1].unit, x[k - 1].unit)
    BY <1>3, <2>1
  <2>3. w[k] = NextState(w[k - 1], accesses[k]) /\ x[k] = NextState(x[k - 1], accesses[k])
    BY <2>1 DEF IsRun
  <2>4. TwinUnits(w[k].unit, x[k].unit)
    BY <2>2, <2>3, TwinsAccess DEF NextState
  <2> QED
    BY <1>3, <2>4
<1> QED
  BY <1>4, <1>5

-----------------------------------------------------------------------------
(* The rows of a comparison *)

(* Sequence t is s with e as its k-th element, the later ones moved down. *)
IsInsertion(t, s, k, e) ==
  /\ Len(t) = Len(s) + 1
  /\ \A i \in 1 .. Len(s) + 1 :
       t[i] = IF i < k THEN s[i] ELSE IF i = k THEN e ELSE s[i - 1]

(* InsertAt inserts. *)
LEMMA InsertAtEffect ==
  ASSUME NEW S, NEW s \in Seq(S), NEW k \in 1 .. Len(s) + 1, NEW e
  PROVE  /\ InsertAt(s, k, e) \in Seq(S \cup {e})
         /\ IsInsertion(InsertAt(s, k, e), s, k, e)
<1> DEFINE T == S \cup {e}
           before == SubSeq(s, 1, k - 1)
           after  == SubSeq(s, k, Len(s))
<1>1. s \in Seq(T) /\ Len(s) \in Nat /\ \A i \in 1 .. Len(s) : s[i] \in T
  BY LenProperties, ElementOfSeq
<1>2. /\ before \in Seq(T) /\ Len(before) = k - 1
      /\ \A i \in 1 .. k - 1 : before[i] = s[i]
  BY <1>1, SubSeqProperties
<1>3. /\ after \in Seq(T) /\ Len(after) = Len(s) + 1 - k
      /\ \A i \in 1 .. Len(s) + 1 - k : after[i] = s[k + i - 1]
  BY <1>1, SubSeqProperties
<1>4. <<e>> \in Seq(T) /\ Len(<<e>>) = 1 /\ <<e>>[1] = e
  OBVIOUS
<1> HIDE DEF before, after, T
<1>5. /\ before \o <<e>> \in Seq(T) /\ Len(before \o <<e>>) = k
      /\ \A i \in 1 .. k : (before \o <<e>>)[i] = IF i < k THEN s[i] ELSE e
  BY <1>2, <1>4, ConcatProperties
<1> DEFINE first == before \o <<e>>
<1>. /\ first \in Seq(T) /\ Len(first) = k
     /\ \A i \in 1 .. k : first[i] = IF i < k THEN s[i] ELSE e
  BY <1>5
<1> HIDE DEF first
<1>6. /\ first \o after \in Seq(T) /\ Len(first \o after) = Len(first) + Len(after)
      /\ \A i \in 1 .. Len(first) + Len(after) :
           (first \o after)[i] = IF i <= Len(first) THEN first[i] ELSE after[i - Len(first)]
  BY <1>3, ConcatProperties
<1>7. \A i \in 1 .. Len(s) + 1 :
        (first \o after)[i] = IF i < k THEN s[i] ELSE IF i = k THEN e ELSE s[i - 1]
  <2> TAKE i \in 1 .. Len(s) + 1
  <2>1. CASE i <= k
    BY <1>1, <1>3, <1>6, <2>1
  <2>2. CASE ~(i <= k)
    <3>1. i - k \in 1 .. Len(s) + 1 - k /\ k + (i - k) - 1 = i - 1
      BY <1>1, <2>2
    <3>2. after[i - k] = s[i - 1]
      BY <1>3, <3>1
    <3> QED
      BY <1>1, <1>3, <1>6, <2>2, <3>2
  <2> QED
    BY <2>1, <2>2
<1>8. InsertAt(s, k, e) = first \o after
  BY DEF InsertAt, first, before, after
<1>9. Len(first \o after) = Len(s) + 1
  BY <1>1, <1>3, <1>6
<1> QED
  BY <1>6, <1>7, <1>8, <1>9 DEF T, IsInsertion

(* A new row takes a place among the others, which all stay. *)
LEMMA RankedRows ==
  ASSUME NEW S, NEW rows \in Seq(S), NEW row
  PROVE  /\ Ranked(rows, row) \in Seq(S \cup {row})
         /\ \E k \in 1 .. Len(rows) + 1 : IsInsertion(Ranked(rows, row), rows, k, row)
<1> DEFINE ahead == {i \in 1 .. Len(rows) : ComesBefore(rows[i], row)}
           k == Cardinality(ahead) + 1
<1>1. Len(rows) \in Nat
  BY LenProperties
<1>2. IsFiniteSet(1 .. Len(rows)) /\ Cardinality(1 .. Len(rows)) = Len(rows)
  BY <1>1, FS_Interval, SMTT(20)
<1>3. Cardinality(ahead) \in Nat /\ Cardinality(ahead) <= Len(rows)
  <2>1. ahead \subseteq 1 .. Len(rows)
    OBVIOUS
  <2> HIDE DEF ahead
  <2> QED
    BY <1>2, <2>1, FS_Subset, FS_CardinalityType, Zenon
<1>4. k \in 1 .. Len(rows) + 1
  BY <1>1, <1>3
<1>5. Ranked(rows, row) = InsertAt(rows, k, row)
  BY DEF Ranked
<1> HIDE DEF k
<1>6. InsertAt(rows, k, row) \in Seq(S \cup {row})
      /\ IsInsertion(InsertAt(rows, k, row), rows, k, row)
  BY <1>4, InsertAtEffect
<1> QED
  BY <1>4, <1>5, <1>6

(* What the rows of a comparison say: what some run did. *)
FaultsOf(stats) == FoldFunction(LAMBDA row, sum : row["faults"] + sum, 0, stats)

IsRowOf(row, b, accesses) ==
  \E w : /\ IsRun(w, ConfigurationFor(b, row.policy), accesses, Len(accesses))
         /\ row.faults = FaultsOf(w[Len(accesses)].unit.procStats)

(* The rows of the first policies. *)
AreRowsOf(rows, b, accesses) ==
  /\ \E S : rows \in Seq(S)
  /\ Len(rows) <= Len(SupportedPolicies)
  /\ \A i \in 1 .. Len(rows) : IsRowOf(rows[i], b, accesses)
  /\ \A i \in 1 .. Len(rows) : \E j \in 1 .. Len(rows) : rows[j].policy = SupportedPolicies[i]

(* One more run adds the row of one more policy. *)
LEMMA RowAdded ==
  ASSUME NEW rows, NEW row, NEW b, NEW accesses, AreRowsOf(rows, b, accesses),
         Len(rows) < Len(SupportedPolicies), IsRowOf(row, b, accesses),
         row.policy = SupportedPolicies[Len(rows) + 1]
  PROVE  AreRowsOf(Ranked(rows, row), b, accesses)
<1> DEFINE new == Ranked(rows, row)
           n == Len(rows)
<1>1. PICK S : rows \in Seq(S)
  BY DEF AreRowsOf
<1>2. n \in Nat /\ n + 1 <= Len(SupportedPolicies)
  BY <1>1, LenProperties DEF SupportedPolicies
<1>3. new \in Seq(S \cup {row}) /\ \E k \in 1 .. n + 1 : IsInsertion(new, rows, k, row)
  BY <1>1, RankedRows
<1> HIDE DEF new
<1>4. PICK k \in 1 .. n + 1 : IsInsertion(new, rows, k, row)
  BY <1>3
<1>. /\ Len(new) = n + 1
     /\ \A i \in 1 .. n + 1 :
          new[i] = IF i < k THEN rows[i] ELSE IF i = k THEN row ELSE rows[i - 1]
  BY <1>4 DEF IsInsertion
<1>. /\ \A i \in 1 .. n : IsRowOf(rows[i], b, accesses)
     /\ \A i \in 1 .. n : \E j \in 1 .. n : rows[j].policy = SupportedPolicies[i]
     /\ row.policy = SupportedPolicies[n + 1]
  BY DEF AreRowsOf
<1> HIDE DEF n
<1>5. ASSUME NEW i \in 1 .. n + 1 PROVE IsRowOf(new[i], b, accesses)
  <2>1. CASE i < k
    <3>1. i \in 1 .. n /\ new[i] = rows[i]
      BY <1>2, <1>4, <2>1
    <3> QED
      BY <3>1
  <2>2. CASE i = k
    BY <1>4, <2>2
  <2>3. CASE i > k
    <3>1. i - 1 \in 1 .. n /\ ~(i < k) /\ i # k
      BY <1>2, <2>3
    <3>2. new[i] = rows[i - 1]
      BY <3>1
    <3> QED
      BY <3>1, <3>2
  <2> QED
    BY <1>2, <2>1, <2>2, <2>3
<1>6. ASSUME NEW i \in 1 .. n + 1
      PROVE  \E j \in 1 .. n + 1 : new[j].policy = SupportedPolicies[i]
  <2>1. CASE i = n + 1
    <3>1. new[k] = row
      BY <1>2, <1>4
    <3> QED
      BY <2>1, <3>1
  <2>2. CASE i # n + 1
    <3>1. i \in 1 .. n
      BY <1>2, <2>2
    <3>2. PICK j \in 1 .. n : rows[j].policy = SupportedPolicies[i]
      BY <3>1
    <3>3. CASE j < k
      <4>1. j \in 1 .. n + 1
        BY <1>2
      <4>2. new[j].policy = SupportedPolicies[i]
        BY <3>2, <3>3, <4>1
      <4> QED
        BY <4>1, <4>2
    <3>4. CASE ~(j < k)
      <4>1. j + 1 \in 1 .. n + 1 /\ ~(j + 1 < k) /\ j + 1 # k /\ (j + 1) - 1 = j
        BY <1>2, <3>4
      <4>2. new[j + 1] = rows[j]
        BY <1>4, <4>1
      <4>3. new[j + 1].policy = SupportedPolicies[i] /\ j + 1 \in 1 .. n + 1
        BY <3>2, <4>1, <4>2
      <4> QED
        BY <4>3
    <3> QED
      BY <1>2, <3>3, <3>4
  <2> QED
    BY <2>1, <2>2
<1> QED
  BY <1>2, <1>3, <1>5, <1>6 DEF AreRowsOf, new

(* With a row for every policy, Optimal's shows the faults of FIFO's. *)
LEMMA RowsAlike ==
  ASSUME NEW rows, NEW b, NEW accesses, Len(accesses) \in Nat,
         AreRowsOf(rows, b, accesses), Len(rows) = Len(SupportedPolicies)
  PROVE  rows[CHOOSE i \in 1 .. Len(rows) : rows[i].policy = "OPTIMAL"].faults
           = rows[CHOOSE i \in 1 .. Len(rows) : rows[i].policy = "FIFO"].faults
<1> DEFINE Of(policy) == CHOOSE i \in 1 .. Len(rows) : rows[i].policy = policy
           n == Len(accesses)
<1>1. /\ Of("FIFO") \in 1 .. Len(rows) /\ rows[Of("FIFO")].policy = "FIFO"
      /\ Of("OPTIMAL") \in 1 .. Len(rows) /\ rows[Of("OPTIMAL")].policy = "OPTIMAL"
  <2>1. Len(SupportedPolicies) = 4 /\ SupportedPolicies[1] = "FIFO"
        /\ SupportedPolicies[4] = "OPTIMAL"
    BY DEF SupportedPolicies
  <2>2. /\ \E i \in 1 .. Len(rows) : rows[i].policy = "FIFO"
        /\ \E i \in 1 .. Len(rows) : rows[i].policy = "OPTIMAL"
    BY <2>1 DEF AreRowsOf
  <2> QED
    BY <2>2
<1> DEFINE fifo == rows[Of("FIFO")]
           optimal == rows[Of("OPTIMAL")]
<1>2. IsRowOf(fifo, b, accesses) /\ IsRowOf(optimal, b, accesses)
  BY <1>1 DEF AreRowsOf
<1> SUFFICES optimal.faults = fifo.faults
  OBVIOUS
<1>3. fifo.policy = "FIFO" /\ optimal.policy = "OPTIMAL"
  BY <1>1
<1> HIDE DEF fifo, optimal
<1>4. PICK w : /\ IsRun(w, ConfigurationFor(b, "FIFO"), accesses, n)
               /\ fifo.faults = FaultsOf(w[n].unit.procStats)
  BY <1>2, <1>3 DEF IsRowOf
<1>5. PICK x : /\ IsRun(x, ConfigurationFor(b, "OPTIMAL"), accesses, n)
               /\ optimal.faults = FaultsOf(x[n].unit.procStats)
  BY <1>2, <1>3 DEF IsRowOf
<1>6. ConfigurationFor(b, "FIFO").policy = "FIFO" /\ ConfigurationFor(b, "OPTIMAL").policy = "OPTIMAL"
  BY DEF ConfigurationFor
<1>7. TwinUnits(w[n].unit, x[n].unit)
  BY <1>4, <1>5, <1>6, TwinsRun
<1> QED
  BY <1>4, <1>5, <1>7 DEF TwinUnits

-----------------------------------------------------------------------------
(* The simulations of a comparison *)

(***************************************************************************)
(* The invariant: the comparison has a row for every policy before the one *)
(* it is at, each from a run of the benchmark under its policy, and the    *)
(* simulation it is at is new, running such a run, or at the end of one.   *)
(***************************************************************************)
Comparing ==
  /\ benchmark \in Benchmarks
  /\ reaches = 0
  /\ AreRowsOf(results, benchmark, program)
  /\ phase \in {"idle", "running", "completed"} =>
       /\ Len(results) < Len(SupportedPolicies)
       /\ config = ConfigurationFor(benchmark, SupportedPolicies[Len(results) + 1])
  /\ phase = "idle" => mem = Mmu!EmptyMemory /\ log = Activity!NewLog
  /\ phase = "completed" =>
       \E w : /\ IsRun(w, config, program, Len(program))
              /\ w[Len(program)].unit.procStats = procStats

ComparisonInv == Registered /\ RunTyped /\ Repeating /\ Comparing

(* A benchmark configures a simulation for each policy. *)
LEMMA BenchmarkConfigures ==
  ASSUME NEW b \in Benchmarks, NEW i \in 1 .. Len(SupportedPolicies)
  PROVE  ConfigurationFor(b, SupportedPolicies[i]) \in Configurations
BY BenchmarksAssumption DEF ToSet

(* A comparison begins with no rows, and a program its benchmark yields. *)
LEMMA InitComparing == ComparisonInit => ComparisonInv
<1> SUFFICES ASSUME ComparisonInit PROVE ComparisonInv
  OBVIOUS
<1>1. benchmark \in Benchmarks /\ config = ConfigurationFor(benchmark, SupportedPolicies[1])
  BY DEF ComparisonInit, SupportedPolicies
<1>2. config \in Configurations
  BY <1>1, BenchmarkConfigures DEF SupportedPolicies
<1>3. program \in Seq(ProgramSteps)
  <2>1. CASE IsRunnable(config)
    BY <1>2, <2>1, ProgramsTyped DEF ComparisonInit, IsRunnable, IsAccepted
  <2>2. CASE ~IsRunnable(config)
    BY <2>2 DEF ComparisonInit
  <2> QED
    BY <2>1, <2>2
<1>4. <<>> \in Seq({}) /\ Len(<<>>) = 0
  OBVIOUS
<1>5. Registered /\ RunTyped /\ Repeating
  BY <1>3, <1>4 DEF ComparisonInit, NewSimulation, Registered, RunTyped, Repeating,
     Mmu!EmptyMemory
<1>6. AreRowsOf(results, benchmark, program)
  BY <1>4 DEF ComparisonInit, AreRowsOf, SupportedPolicies
<1> QED
  BY <1>1, <1>5, <1>6 DEF ComparisonInv, Comparing, ComparisonInit, NewSimulation

(* The next simulation is a new one. *)
LEMMA ConstructCompares == ComparisonInv /\ Construct => ComparisonInv'
<1> SUFFICES ASSUME ComparisonInv, Construct PROVE ComparisonInv'
  OBVIOUS
<1>1. phase' \in {"idle", "refused"} /\ program' = program /\ benchmark' = benchmark
      /\ results' = results /\ reaches' = 0 /\ records' = <<>> /\ outcomes' = {}
  BY DEF Construct, Constructed
<1>2. Registered'
  BY <1>1 DEF Construct, Registered, Mmu!EmptyMemory
<1>3. <<>> \in Seq({})
  OBVIOUS
<1>4. RunTyped' /\ Repeating'
  BY <1>1, <1>3 DEF ComparisonInv, RunTyped, Repeating
<1>5. /\ Len(results) < Len(SupportedPolicies)
      /\ config' = ConfigurationFor(benchmark, SupportedPolicies[Len(results) + 1])
      /\ mem' = Mmu!EmptyMemory /\ log' = Activity!NewLog
  BY DEF Construct
<1>6. Comparing'
  BY <1>1, <1>5 DEF ComparisonInv, Comparing, AreRowsOf, IsRowOf, IsRun, Mmu!EmptyMemory,
     Activity!NewLog
<1> QED
  BY <1>2, <1>4, <1>6 DEF ComparisonInv

(* It finds an empty unit when it starts. *)
LEMMA StartCompares ==
  ASSUME ComparisonInv, phase = "idle", StartRun
  PROVE  Repeating'
<1>1. config' = config /\ program' = program /\ outcomes' = outcomes /\ records' = <<>>
      /\ statistics' = NoStatistics
  BY DEF StartRun
<1>2. \A o \in outcomes' :
        \E w : IsRun(w, config', program', Len(program')) /\ o = OutcomeOf(w[Len(program')])
  BY <1>1 DEF ComparisonInv, Repeating
<1>3. config \in Configurations
  <2>1. Len(results) \in Nat /\ Len(results) < Len(SupportedPolicies) /\ benchmark \in Benchmarks
        /\ config = ConfigurationFor(benchmark, SupportedPolicies[Len(results) + 1])
    BY LenProperties DEF ComparisonInv, Comparing, AreRowsOf
  <2>2. Len(results) + 1 \in 1 .. Len(SupportedPolicies)
    BY <2>1 DEF SupportedPolicies
  <2> QED
    BY <2>1, <2>2, BenchmarkConfigures
<1>4. pol' = Mmu!NewPolicy(config.policy)
  BY <1>3, PolicyCreated DEF StartRun
<1>5. mem' = Mmu!EmptyMemory
  <2> DEFINE n == Mmu!ClearPageTable(mem)
  <2>1. mem = Mmu!EmptyMemory
    BY DEF ComparisonInv, Comparing
  <2>2. /\ n.frames = [f \in Mmu!Frames |-> NoPage] /\ n.allocated = 0
        /\ n.table = [p \in Pages |-> NoFrame]
    BY <2>1 DEF Mmu!EmptyMemory, Mmu!ClearPageTable
  <2> HIDE DEF n
  <2>3. Mmu!OccupiedFrames(n) = {}
    BY <2>2 DEF Mmu!OccupiedFrames, Mmu!IsOccupied
  <2>4. Mmu!Cardinality({}) = 0
    BY FS_EmptySet DEF Mmu!Cardinality, Cardinality
  <2>5. Mmu!ClearPhysicalMemory(n) = Mmu!EmptyMemory
    BY <2>2, <2>3, <2>4 DEF Mmu!ClearPhysicalMemory, Mmu!EmptyMemory
  <2> QED
    BY <2>5 DEF StartRun, Cleared, n
<1>6. log' = Activity!NewLog
  <2>1. log = Activity!NewLog /\ log' = Activity!Clear(log)
    BY DEF ComparisonInv, Comparing, StartRun
  <2>2. IsLog(Activity!NewLog)
    <3>1. <<>> \in Seq({}) /\ Len(<<>>) = 0
      OBVIOUS
    <3> QED
      BY <3>1 DEF IsLog, Activity!NewLog
  <2> QED
    BY <2>1, <2>2, ClearedLog DEF Activity!NewLog
<1>7. UnitState' = FirstState(config').unit
  BY <1>1, <1>4, <1>5, <1>6 DEF StartRun, FirstState, UnitState
<1>8. RunState' = FirstState(config')
  BY <1>1, <1>7 DEF RunState, FirstState
<1> DEFINE w == [k \in {0} |-> FirstState(config')]
<1>9. IsRun(w, config', program', 0) /\ w[0] = RunState' /\ Len(records') = 0
  BY <1>1, <1>8 DEF IsRun
<1> HIDE DEF w
<1> QED
  BY <1>2, <1>9 DEF Repeating

(* The rows are those of the same comparison. *)
LEMMA RowsStay ==
  ASSUME UNCHANGED <<results, benchmark, program>>, AreRowsOf(results, benchmark, program)
  PROVE  AreRowsOf(results, benchmark, program)'
BY DEF AreRowsOf, IsRowOf, IsRun

(* What the simulation does it does with the benchmark's accesses. *)
LEMMA SimulateCompares == ComparisonInv /\ Simulate => ComparisonInv'
<1> SUFFICES ASSUME ComparisonInv, Simulate PROVE ComparisonInv'
  OBVIOUS
<1>1. Next /\ UNCHANGED <<benchmark, results>>
  BY DEF Simulate, Next
<1>2. Registered' /\ RunTyped'
  BY <1>1, NextRegistered, NextRunTyped DEF ComparisonInv
<1>3. UNCHANGED <<config, program>> /\ reaches' = 0
  BY DEF Simulate, StartRun, ExecuteAccess, FinishRun, ComparisonInv, Comparing
<1>4. AreRowsOf(results, benchmark, program)'
  BY <1>1, <1>3, RowsStay DEF ComparisonInv, Comparing
<1>5. CASE phase = "idle" /\ StartRun
  <2>1. Repeating'
    BY <1>5, StartCompares
  <2>2. phase' \notin {"idle", "completed"}
    BY <1>5 DEF StartRun
  <2> QED
    BY <1>1, <1>2, <1>3, <1>4, <1>5, <2>1, <2>2
       DEF ComparisonInv, Comparing, ConfigurationFor, SupportedPolicies
<1>6. CASE ExecuteAccess
  <2>1. Repeating'
    BY <1>6, AccessRepeats DEF ComparisonInv
  <2>2. phase' = "running" /\ phase = "running"
    BY <1>6 DEF ExecuteAccess
  <2> QED
    BY <1>1, <1>2, <1>3, <1>4, <2>1, <2>2
       DEF ComparisonInv, Comparing, ConfigurationFor, SupportedPolicies
<1>7. CASE FinishRun
  <2>1. Repeating'
    BY <1>7, FinishRepeats DEF ComparisonInv
  <2>2. /\ phase' = "completed" /\ phase = "running" /\ Len(records) = Len(program)
        /\ procStats' = procStats
    BY <1>7 DEF FinishRun, mmuVars
  <2>3. PICK w : IsRun(w, config, program, Len(records)) /\ w[Len(records)] = RunState
    BY <2>2 DEF ComparisonInv, Comparing, Repeating
  <2>4. w[Len(program)].unit.procStats = procStats
    BY <2>2, <2>3 DEF RunState, UnitState
  <2> QED
    BY <1>1, <1>2, <1>3, <1>4, <2>1, <2>2, <2>3, <2>4
       DEF ComparisonInv, Comparing, ConfigurationFor, SupportedPolicies
<1> QED
  BY <1>5, <1>6, <1>7 DEF Simulate

(* What it recorded is what the run did. *)
LEMMA RecordCompares == ComparisonInv /\ Record => ComparisonInv'
<1> SUFFICES ASSUME ComparisonInv, Record PROVE ComparisonInv'
  OBVIOUS
<1> DEFINE row == [policy |-> config.policy, accesses |-> Total("accesses"),
                   faults |-> Total("faults")]
<1>1. /\ phase = "completed" /\ phase' = "none" /\ results' = Ranked(results, row)
      /\ UNCHANGED <<mmuVars, config, program, runVars, outcomes, reaches, benchmark>>
  BY DEF Record
<1>2. Registered' /\ RunTyped' /\ Repeating'
  BY <1>1 DEF ComparisonInv, Registered, RunTyped, Repeating, mmuVars, runVars
<1>3. Total("faults") = FaultsOf(procStats)
  BY DEF Total, FaultsOf
<1>4. config.policy = SupportedPolicies[Len(results) + 1] /\ Len(results) < Len(SupportedPolicies)
      /\ config = ConfigurationFor(benchmark, config.policy)
  BY <1>1 DEF ComparisonInv, Comparing, ConfigurationFor
<1>5. row.policy = config.policy /\ row.faults = FaultsOf(procStats)
  BY <1>3
<1> HIDE DEF row
<1>6. IsRowOf(row, benchmark, program)
  <2>1. PICK w : /\ IsRun(w, config, program, Len(program))
                 /\ w[Len(program)].unit.procStats = procStats
    BY <1>1 DEF ComparisonInv, Comparing
  <2>2. IsRun(w, ConfigurationFor(benchmark, row.policy), program, Len(program))
    BY <1>4, <1>5, <2>1
  <2>3. row.faults = FaultsOf(w[Len(program)].unit.procStats)
    BY <1>5, <2>1
  <2> QED
    BY <2>2, <2>3 DEF IsRowOf
<1>7. AreRowsOf(results', benchmark, program)
  BY <1>1, <1>4, <1>5, <1>6, RowAdded DEF ComparisonInv, Comparing
<1>8. AreRowsOf(results, benchmark, program)'
  BY <1>1, <1>7 DEF AreRowsOf, IsRowOf, IsRun
<1> QED
  BY <1>1, <1>2, <1>8 DEF ComparisonInv, Comparing

(* So it goes on. *)
LEMMA NextComparing == ComparisonInv /\ [Compare]_comparisonVars => ComparisonInv'
<1> SUFFICES ASSUME ComparisonInv, [Compare]_comparisonVars PROVE ComparisonInv'
  OBVIOUS
<1>1. CASE UNCHANGED comparisonVars
  <2>1. UNCHANGED vars /\ UNCHANGED <<results, benchmark, program, config, phase, reaches, mem, log,
                                      procStats, outcomes, records, statistics>>
    BY <1>1 DEF comparisonVars, vars, mmuVars, runVars
  <2>2. Registered' /\ RunTyped'
    BY <2>1, NextRegistered, NextRunTyped DEF ComparisonInv
  <2>3. RunState' = RunState
    BY <2>1 DEF RunState, UnitState, vars, mmuVars
  <2>4. Repeating'
    BY <2>1, <2>3 DEF ComparisonInv, Repeating
  <2>5. AreRowsOf(results, benchmark, program)'
    BY <2>1, RowsStay DEF ComparisonInv, Comparing
  <2>6. Comparing'
    BY <2>1, <2>5 DEF ComparisonInv, Comparing, ConfigurationFor, SupportedPolicies,
       Mmu!EmptyMemory, Activity!NewLog
  <2> QED
    BY <2>2, <2>4, <2>6 DEF ComparisonInv
<1>2. CASE Compare
  BY <1>2, ConstructCompares, SimulateCompares, RecordCompares DEF Compare
<1> QED
  BY <1>1, <1>2

(***************************************************************************)
(* In every comparison that returns, Optimal has the faults of FIFO: it is *)
(* never given the references to come, and without them it takes the page  *)
(* that was loaded first, at every replacement of every run.               *)
(***************************************************************************)
THEOREM UninformedTheorem == ComparisonSpec => []UninformedOptimalIsFifo
<1>1. ComparisonInv => UninformedOptimalIsFifo
  <2> SUFFICES ASSUME ComparisonInv, Returned PROVE FaultsUnder("OPTIMAL") = FaultsUnder("FIFO")
    BY DEF UninformedOptimalIsFifo
  <2>1. Len(program) \in Nat /\ AreRowsOf(results, benchmark, program)
        /\ Len(results) = Len(SupportedPolicies)
    BY LenProperties DEF ComparisonInv, RunTyped, Comparing, Returned
  <2> QED
    BY <2>1, RowsAlike DEF FaultsUnder
<1> QED
  BY <1>1, InitComparing, NextComparing, PTL DEF ComparisonSpec

-----------------------------------------------------------------------------
(* The ranking of a comparison *)

(* What a result says of a run of the accesses. *)
IsTrueRow(row) ==
  /\ row.accesses = Len(program)
  /\ row.faults \in Nat
  /\ row.faults \in Cardinality(Referenced) .. Len(program)
  /\ Cardinality(Referenced) <= NumFrames => row.faults = Cardinality(Referenced)

(* The rows of the first policies, the one that comes before first. *)
IsRanking(rows) ==
  /\ \A i \in 1 .. Len(rows) : IsTrueRow(rows[i])
  /\ \A i \in 1 .. Len(rows) :
       \E m \in 1 .. Len(rows) : rows[i].policy = SupportedPolicies[m]
  /\ \A i, j \in 1 .. Len(rows) : i < j => ComesBefore(rows[i], rows[j])

(* The place of a policy is what it is ranked by. *)
LEMMA RankIsPlace ==
  ASSUME NEW m \in 1 .. Len(SupportedPolicies)
  PROVE  Rank(SupportedPolicies[m]) = m
<1>1. Len(SupportedPolicies) = 4
  BY DEF SupportedPolicies
<1>2. \A i, j \in 1 .. 4 : SupportedPolicies[i] = SupportedPolicies[j] => i = j
  BY DEF SupportedPolicies
<1>3. Rank(SupportedPolicies[m]) \in 1 .. Len(SupportedPolicies)
      /\ SupportedPolicies[Rank(SupportedPolicies[m])] = SupportedPolicies[m]
  BY DEF Rank
<1> QED
  BY <1>1, <1>2, <1>3

(* Of numbers up to n, those that lie below others of theirs are the first *)
(* ones.                                                                   *)
LEMMA FirstOnes ==
  ASSUME NEW n \in Nat, NEW D \in SUBSET (1 .. n),
         \A i, j \in 1 .. n : i < j /\ j \in D => i \in D
  PROVE  /\ Cardinality(D) \in 0 .. n
         /\ D = 1 .. Cardinality(D)
<1> DEFINE K == {k \in 1 .. n : k \notin D}
<1>1. CASE K = {}
  <2>1. D = 1 .. n
    BY <1>1
  <2>2. Cardinality(1 .. n) = n
    BY FS_Interval
  <2> QED
    BY <2>1, <2>2
<1>2. CASE K # {}
  <2>1. K \in SUBSET Nat
    OBVIOUS
  <2>2. PICK k \in K : \A l \in K : k <= l
    BY <1>2, <2>1, LeastNatural
  <2>3. D = 1 .. k - 1
    <3>1. ASSUME NEW i \in D PROVE i \in 1 .. k - 1
      BY <2>2
    <3>2. ASSUME NEW i \in 1 .. k - 1 PROVE i \in D
      BY <2>2
    <3> QED
      BY <3>1, <3>2
  <2>4. Cardinality(1 .. k - 1) = k - 1
    BY <2>2, FS_Interval
  <2> QED
    BY <2>3, <2>4
<1> QED
  BY <1>1, <1>2

(* A ranking with the row of the next policy is a ranking. *)
LEMMA RankedInOrder ==
  ASSUME NEW S, NEW rows \in Seq(S), NEW row, Len(rows) < Len(SupportedPolicies),
         IsRanking(rows), IsTrueRow(row), row.policy = SupportedPolicies[Len(rows) + 1]
  PROVE  IsRanking(Ranked(rows, row))
<1> DEFINE new   == Ranked(rows, row)
           n     == Len(rows)
           ahead == {i \in 1 .. n : ComesBefore(rows[i], row)}
           k     == Cardinality(ahead) + 1
<1>1. n \in Nat /\ n + 1 \in 1 .. Len(SupportedPolicies)
  BY LenProperties DEF SupportedPolicies
<1>2. \A i \in 1 .. n : /\ ComesBefore(rows[i], row) \/ ComesBefore(row, rows[i])
                        /\ rows[i].faults <= row.faults => ComesBefore(rows[i], row)
                        /\ row.faults < rows[i].faults => /\ ComesBefore(row, rows[i])
                                                          /\ ~ComesBefore(rows[i], row)
  <2> TAKE i \in 1 .. n
  <2>1. PICK m \in 1 .. n : rows[i].policy = SupportedPolicies[m]
    BY DEF IsRanking
  <2>2. m \in 1 .. Len(SupportedPolicies)
    BY <1>1
  <2>3. Rank(rows[i].policy) = m /\ Rank(row.policy) = n + 1
    BY <1>1, <2>1, <2>2, RankIsPlace
  <2>4. IsTrueRow(rows[i])
    BY DEF IsRanking
  <2>5. rows[i].faults \in Nat /\ row.faults \in Nat /\ m < n + 1
    BY <1>1, <2>4 DEF IsTrueRow
  <2> QED
    BY <2>3, <2>5 DEF ComesBefore
<1>3. ASSUME NEW i \in 1 .. n, NEW j \in 1 .. n, i < j, j \in ahead
      PROVE  i \in ahead
  <2>1. ComesBefore(rows[i], rows[j])
    BY <1>3 DEF IsRanking
  <2>2. rows[i].faults \in Nat /\ rows[j].faults \in Nat /\ row.faults \in Nat
    BY DEF IsRanking, IsTrueRow
  <2>3. rows[i].faults <= rows[j].faults
    BY <2>1, <2>2 DEF ComesBefore
  <2>4. rows[j].faults <= row.faults
    BY <1>2, <1>3, <2>2
  <2> QED
    BY <1>2, <2>2, <2>3, <2>4
<1>4. ahead = 1 .. k - 1 /\ k \in 1 .. n + 1
  <2>1. ahead \in SUBSET (1 .. n)
    OBVIOUS
  <2> HIDE DEF ahead, n
  <2>2. Cardinality(ahead) \in 0 .. n /\ ahead = 1 .. Cardinality(ahead)
    BY <1>1, <1>3, <2>1, FirstOnes
  <2> QED
    BY <1>1, <2>2
<1>5. IsInsertion(new, rows, k, row)
  BY <1>4, InsertAtEffect DEF Ranked
<1>6. /\ \A i \in 1 .. n : i < k => ComesBefore(rows[i], row)
      /\ \A i \in 1 .. n : ~(i < k) => ComesBefore(row, rows[i])
  <2>1. \A i \in 1 .. n : i \in ahead <=> ComesBefore(rows[i], row)
    OBVIOUS
  <2> HIDE DEF ahead, k, n
  <2>2. \A i \in 1 .. n : i \in ahead <=> i < k
    BY <1>1, <1>4
  <2> QED
    BY <1>2, <2>1, <2>2
<1> HIDE DEF ahead, k, new
<1>7. /\ Len(new) = n + 1
      /\ \A i \in 1 .. n + 1 :
           new[i] = IF i < k THEN rows[i] ELSE IF i = k THEN row ELSE rows[i - 1]
  BY <1>5 DEF IsInsertion
<1> HIDE DEF n
<1>8. ASSUME NEW i \in 1 .. n + 1
      PROVE  /\ IsTrueRow(new[i])
             /\ \E m \in 1 .. n + 1 : new[i].policy = SupportedPolicies[m]
  <2>1. CASE new[i] = row
    <3>1. n + 1 \in 1 .. n + 1
      BY <1>1
    <3> QED
      BY <2>1, <3>1 DEF n
  <2>2. CASE new[i] # row
    <3>1. PICK j \in 1 .. n : new[i] = rows[j]
      <4>1. i < k \/ (~(i < k) /\ i # k)
        BY <1>7, <2>2
      <4>2. i < k => i \in 1 .. n
        BY <1>1, <1>4
      <4>3. ~(i < k) /\ i # k => i - 1 \in 1 .. n
        BY <1>1, <1>4
      <4> QED
        BY <1>7, <4>1, <4>2, <4>3
    <3>2. IsTrueRow(rows[j]) /\ \E m \in 1 .. n : rows[j].policy = SupportedPolicies[m]
      BY DEF IsRanking, n
    <3>3. 1 .. n \subseteq 1 .. n + 1
      BY <1>1
    <3> QED
      BY <3>1, <3>2, <3>3
  <2> QED
    BY <2>1, <2>2
<1>9. ASSUME NEW i \in 1 .. n + 1, NEW j \in 1 .. n + 1, i < j
      PROVE  ComesBefore(new[i], new[j])
  <2>1. \A x, y \in 1 .. n : x < y => ComesBefore(rows[x], rows[y])
    BY DEF IsRanking, n
  <2>2. CASE j < k
    <3>1. i \in 1 .. n /\ j \in 1 .. n /\ i < k
      BY <1>1, <1>4, <1>9, <2>2
    <3> QED
      BY <1>7, <1>9, <2>1, <2>2, <3>1
  <2>3. CASE j = k
    <3>1. i \in 1 .. n /\ i < k
      BY <1>1, <1>4, <1>9, <2>3
    <3> QED
      BY <1>6, <1>7, <2>3, <3>1
  <2>4. CASE j > k
    <3>1. j - 1 \in 1 .. n /\ ~(j < k) /\ j # k /\ ~(j - 1 < k)
      BY <1>1, <1>4, <2>4
    <3>2. new[j] = rows[j - 1]
      BY <1>7, <3>1
    <3>3. CASE i < k
      <4>1. i \in 1 .. n /\ i < j - 1 /\ new[i] = rows[i]
        BY <1>1, <1>4, <1>7, <2>4, <3>3
      <4> QED
        BY <2>1, <3>1, <3>2, <4>1
    <3>4. CASE i = k
      BY <1>6, <1>7, <3>1, <3>2, <3>4
    <3>5. CASE i > k
      <4>1. i - 1 \in 1 .. n /\ ~(i < k) /\ i # k /\ i - 1 < j - 1
        BY <1>1, <1>4, <1>9, <3>5
      <4>2. new[i] = rows[i - 1]
        BY <1>7, <4>1
      <4> QED
        BY <2>1, <3>1, <3>2, <4>1, <4>2
    <3> QED
      BY <1>1, <1>4, <3>3, <3>4, <3>5
  <2> QED
    BY <1>1, <1>4, <2>2, <2>3, <2>4
<1> QED
  BY <1>7, <1>8, <1>9 DEF IsRanking, new

(* A ranking with a row for every policy can be compared. *)
LEMMA RankingCompared ==
  ASSUME NEW S, results \in Seq(S), IsRanking(results), NEW b, AreRowsOf(results, b, program)
  PROVE  ResultsComparable
<1> SUFFICES ASSUME Len(results) = Len(SupportedPolicies)
             PROVE  /\ {results[i].policy : i \in 1 .. Len(results)} = ToSet(SupportedPolicies)
                    /\ \A i, j \in 1 .. Len(results) :
                         i < j => \/ results[i].faults < results[j].faults
                                  \/ /\ results[i].faults = results[j].faults
                                     /\ Rank(results[i].policy) < Rank(results[j].policy)
                    /\ \A row \in ToSet(results) : IsTrueRow(row)
  BY DEF ResultsComparable, IsTrueRow, Returned
<1>1. {results[i].policy : i \in 1 .. Len(results)} = ToSet(SupportedPolicies)
  <2>1. ToSet(SupportedPolicies) = {SupportedPolicies[m] : m \in 1 .. Len(SupportedPolicies)}
    BY DEF ToSet, SupportedPolicies
  <2>2. /\ \A i \in 1 .. Len(results) :
             \E m \in 1 .. Len(results) : results[i].policy = SupportedPolicies[m]
        /\ \A m \in 1 .. Len(results) :
             \E i \in 1 .. Len(results) : results[i].policy = SupportedPolicies[m]
    BY Zenon DEF IsRanking, AreRowsOf
  <2>3. {results[i].policy : i \in 1 .. Len(results)}
          = {SupportedPolicies[m] : m \in 1 .. Len(results)}
    <3> DEFINE named == {results[i].policy : i \in 1 .. Len(results)}
               all   == {SupportedPolicies[m] : m \in 1 .. Len(results)}
    <3>1. ASSUME NEW x \in named PROVE x \in all
      BY <2>2
    <3>2. ASSUME NEW x \in all PROVE x \in named
      BY <2>2
    <3> QED
      BY <3>1, <3>2
  <2> QED
    BY <2>1, <2>3
<1>2. \A i, j \in 1 .. Len(results) : i < j => ComesBefore(results[i], results[j])
  BY DEF IsRanking
<1>3. \A row \in ToSet(results) : IsTrueRow(row)
  BY DEF IsRanking, ToSet
<1> QED
  BY <1>1, <1>2, <1>3 DEF ComesBefore

-----------------------------------------------------------------------------
(* The pages of a run *)

(* The pages that the first n accesses of a run reference. *)
Seen(n) == {PageOf(program[i].process, program[i].page) : i \in 1 .. n}

(* One more access references one more of the pages of the run. *)
LEMMA SeenMore ==
  ASSUME RunTyped, NEW n \in Nat, n < Len(program)
  PROVE  LET p == PageOf(program[n + 1].process, program[n + 1].page)
         IN  /\ Seen(n + 1) = Seen(n) \cup {p}
             /\ p \in Referenced
             /\ Seen(n) \subseteq Referenced
<1>1. Len(program) \in Nat
  BY DEF RunTyped
<1>2. 1 .. n + 1 = (1 .. n) \cup {n + 1} /\ 1 .. n \subseteq 1 .. Len(program)
      /\ n + 1 \in 1 .. Len(program)
  BY <1>1
<1> QED
  BY <1>2, Zenon DEF Seen, Referenced

(* They are pages, so they can be counted. *)
LEMMA ReferencedFinite == RunTyped => IsFiniteSet(Referenced)
<1> SUFFICES ASSUME RunTyped PROVE IsFiniteSet(Referenced)
  OBVIOUS
<1>1. ASSUME NEW i \in 1 .. Len(program)
      PROVE  PageOf(program[i].process, program[i].page) \in Pages
  <2>1. program[i] \in ProgramSteps
    BY ElementOfSeq DEF RunTyped
  <2>2. program[i].process \in Processes /\ program[i].page \in VirtualPages
    BY <2>1 DEF ProgramSteps
  <2> QED
    BY <2>2, PagesReached
<1>2. Referenced \subseteq Pages
  BY <1>1 DEF Referenced
<1>3. IsFiniteSet(Pages)
  BY CountsAssumption, FS_Interval DEF Pages
<1> QED
  BY <1>2, <1>3, FS_Subset

(* Of the pages S referenced so far, out of all of a run, only some are    *)
(* resident, and each has faulted, f times together: once each, and none   *)
(* had to leave, when all of them fit in memory.                           *)
IsCold(all, S, resident, f) ==
  /\ f \in Nat
  /\ Cardinality(S) <= f
  /\ resident \subseteq S
  /\ Cardinality(all) <= NumFrames => resident = S /\ f = Cardinality(S)

(* An access, which faults d times, loads a page that is not resident, and *)
(* only a full memory loses another one for it.                            *)
IsLoad(resident, p, later, d) ==
  /\ p \in resident => later = resident /\ d = 0
  /\ p \notin resident =>
       /\ d = 1
       /\ later \subseteq resident \cup {p}
       /\ later = resident \cup {p} \/ Cardinality(resident) = NumFrames

(* A page that is referenced for the first time is not in memory, and one  *)
(* that is referenced again still is, when no page ever had to leave.      *)
LEMMA ColdFaults ==
  ASSUME NEW all, IsFiniteSet(all), NEW S \in SUBSET all, NEW p \in all,
         NEW R, NEW later, NEW f, NEW d, IsCold(all, S, R, f), IsLoad(R, p, later, d)
  PROVE  IsCold(all, S \cup {p}, later, f + d)
<1>1. IsFiniteSet(S) /\ Cardinality(S) \in Nat /\ NumFrames \in Nat
  BY SizesAssumption, FS_Subset, FS_CardinalityType
<1>2. Cardinality(S \cup {p}) = IF p \in S THEN Cardinality(S) ELSE Cardinality(S) + 1
  BY <1>1, FS_AddElement
<1>3. S \cup {p} \subseteq all /\ Cardinality(S \cup {p}) <= Cardinality(all)
      /\ Cardinality(all) \in Nat
  BY FS_Subset, FS_CardinalityType
<1>4. /\ f \in Nat /\ Cardinality(S) <= f /\ R \subseteq S
      /\ Cardinality(all) <= NumFrames => R = S /\ f = Cardinality(S)
  BY DEF IsCold
<1>5. /\ p \in R => later = R /\ d = 0
      /\ p \notin R => /\ d = 1
                       /\ later \subseteq R \cup {p}
                       /\ later = R \cup {p} \/ Cardinality(R) = NumFrames
  BY DEF IsLoad
<1>6. f + d \in Nat /\ Cardinality(S \cup {p}) <= f + d
  BY <1>1, <1>2, <1>4, <1>5
<1>7. later \subseteq S \cup {p}
  BY <1>4, <1>5
<1>8. ASSUME Cardinality(all) <= NumFrames
      PROVE  later = S \cup {p} /\ f + d = Cardinality(S \cup {p})
  <2>1. R = S /\ f = Cardinality(S)
    BY <1>4, <1>8
  <2>2. CASE p \in R
    <3>1. later = S \cup {p} /\ d = 0
      BY <1>5, <2>1, <2>2
    <3> QED
      BY <1>1, <1>2, <2>1, <2>2, <3>1
  <2>3. CASE p \notin R
    <3>1. Cardinality(S \cup {p}) = Cardinality(S) + 1 /\ d = 1
      BY <1>2, <1>5, <2>1, <2>3
    <3>2. Cardinality(R) # NumFrames
      BY <1>1, <1>3, <1>8, <2>1, <3>1
    <3> QED
      BY <1>5, <2>1, <2>3, <3>1, <3>2
  <2> QED
    BY <2>2, <2>3
<1> QED
  BY <1>6, <1>7, <1>8 DEF IsCold

-----------------------------------------------------------------------------
(* The unit of a simulation *)

(* The unit of the simulation, with what is proved of it.  It is Mmu,      *)
(* instantiated once more together with its proofs, so that the lemmas     *)
(* whose names end in Same have to say, operator by operator, that the two *)
(* instances mean the same.                                                *)
Unit == INSTANCE MemoryManagementUnitProofs WITH
  IdRegistrations  <- {},
  VpnRegistrations <- {},
  Addresses        <- {v * PageSize : v \in VirtualPages},
  Kinds            <- {c.policy : c \in Configurations},
  References       <- {},
  DirectEntries    <- {},
  DirectFrames     <- {},
  MaxAccesses      <- 0

(* What the unit assumes of its constants. *)
UnitAssumptions ==
  /\ Unit!NumFramesAssumption /\ Unit!PagesAssumption /\ Unit!NoFrameAssumption
  /\ Unit!ProcessesAssumption /\ Unit!KindsAssumption /\ Unit!ReferencesAssumption
  /\ Unit!VirtualPagesAssumption /\ Unit!AddressesAssumption /\ Unit!DirectAssumption

(* The unit of an addressable simulation satisfies its assumptions. *)
LEMMA UnitAssumed == Addressable => UnitAssumptions
<1> SUFFICES ASSUME Addressable PROVE UnitAssumptions
  OBVIOUS
<1>1. /\ PageSize \in Nat \ {0} /\ PageCount \in Nat \ {0} /\ AddressBound \in Nat \ {0}
      /\ PageCount <= (AddressBound - 1) \div PageSize
  BY SizesAssumption, CountsAssumption DEF Addressable, Manager!IsAddressSpace
<1>2. \A v \in VirtualPages : /\ v * PageSize \in 0 .. AddressBound - 1
                              /\ (v * PageSize) \div PageSize = v
  BY <1>1, ProductAndQuotient DEF VirtualPages
<1>3. Unit!AddressesAssumption
  BY <1>1, <1>2 DEF Unit!AddressesAssumption
<1>4. IsFiniteSet(Pages) /\ IsFiniteSet(Processes)
  BY CountsAssumption, FS_Interval DEF Pages, Processes
<1>5. Unit!PagesAssumption /\ Unit!ProcessesAssumption
  BY <1>4, NothingAssumption
     DEF Unit!PagesAssumption, Unit!ProcessesAssumption, Unit!IsFiniteSet, IsFiniteSet
<1>6. Unit!NumFramesAssumption /\ Unit!NoFrameAssumption /\ Unit!ReferencesAssumption
  BY SizesAssumption, NothingAssumption
     DEF Unit!NumFramesAssumption, Unit!NoFrameAssumption, Unit!ReferencesAssumption,
         Unit!FrameIds
<1>7. Unit!KindsAssumption
  BY ConfigurationsAssumption DEF Unit!KindsAssumption, Unit!PolicyKinds, Mmu!PolicyKinds
<1>8. Unit!VirtualPagesAssumption /\ Unit!DirectAssumption
  BY NothingAssumption DEF Unit!VirtualPagesAssumption, Unit!DirectAssumption
<1> QED
  BY <1>3, <1>5, <1>6, <1>7, <1>8 DEF UnitAssumptions

(* Reading the memory. *)
LEMMA MemorySame ==
  ASSUME NEW m
  PROVE  /\ Mmu!Frames = Unit!Frames
         /\ Mmu!OccupiedFrames(m) = Unit!OccupiedFrames(m)
         /\ Mmu!HasFreeFrame(m) <=> Unit!HasFreeFrame(m)
         /\ \A p : Mmu!IsMapped(m, p) <=> Unit!IsMapped(m, p)
         /\ \A p : Mmu!IsPageMapped(m, p) <=> Unit!IsPageMapped(m, p)
         /\ \A p : Mmu!IsMappingConsistent(m, p) <=> Unit!IsMappingConsistent(m, p)
BY DEF Mmu!FrameForPage, Unit!FrameForPage, Mmu!Frames, Unit!Frames, Mmu!FramesHolding,
       Unit!FramesHolding, Mmu!HasFreeFrame, Unit!HasFreeFrame, Mmu!IsMapped, Unit!IsMapped,
       Mmu!IsMappingConsistent, Unit!IsMappingConsistent, Mmu!IsOccupied, Unit!IsOccupied,
       Mmu!IsPageMapped, Unit!IsPageMapped, Mmu!Min, Unit!Min, Mmu!OccupiedFrames,
       Unit!OccupiedFrames

(* Taking an entry from the page table. *)
LEMMA UnmapSame ==
  ASSUME NEW m, NEW p PROVE Mmu!UnmapEntry(m,p) = Unit!UnmapEntry(m,p)
BY DEF Mmu!UnmapEntry, Unit!UnmapEntry

(* Giving a frame back to physical memory. *)
LEMMA ReleaseSame ==
  ASSUME NEW m, NEW f PROVE Mmu!ReleasePhysicalFrame(m,f) = Unit!ReleasePhysicalFrame(m,f)
BY MemorySame DEF Mmu!ReleasePhysicalFrame, Unit!ReleasePhysicalFrame

(* Giving it back to both. *)
LEMMA ReleaseFrameSame ==
  ASSUME NEW m, NEW f PROVE Mmu!ReleaseFrame(m,f) = Unit!ReleaseFrame(m,f)
BY MemorySame, UnmapSame, ReleaseSame
   DEF Mmu!ReleaseFrame, Unit!ReleaseFrame, Mmu!CanReleaseFrame, Unit!CanReleaseFrame

(* Mapping a page into both. *)
LEMMA MapSame ==
  ASSUME NEW m, NEW p PROVE Mmu!MapPage(m,p) = Unit!MapPage(m,p)
BY DEF Mmu!AllocateFrame, Unit!AllocateFrame, Mmu!CanMapPage, Unit!CanMapPage, Mmu!FrameForPage,
       Unit!FrameForPage, Mmu!Frames, Unit!Frames, Mmu!FramesHolding, Unit!FramesHolding,
       Mmu!FreeFrames, Unit!FreeFrames, Mmu!IsMapped, Unit!IsMapped, Mmu!IsOccupied,
       Unit!IsOccupied, Mmu!IsPageMapped, Unit!IsPageMapped, Mmu!MapEntry, Unit!MapEntry,
       Mmu!MapPage, Unit!MapPage, Mmu!Min, Unit!Min, Mmu!OccupiedFrames, Unit!OccupiedFrames

(* Removing a page from FIFO. *)
LEMMA FifoRemovalSame ==
  ASSUME NEW s, NEW p, NEW f PROVE Mmu!Fifo!PageRemoved(s,p,f) = Unit!Fifo!PageRemoved(s,p,f)
BY DEF Mmu!Fifo!Entry, Unit!Fifo!Entry, Mmu!Fifo!Min, Unit!Fifo!Min, Mmu!Fifo!PageRemoved,
       Unit!Fifo!PageRemoved, Mmu!Fifo!RemoveAt, Unit!Fifo!RemoveAt, Mmu!Fifo!RemoveFirst,
       Unit!Fifo!RemoveFirst, Mmu!Fifo!SelectInSeq, Unit!Fifo!SelectInSeq

(* Removing a page from LRU. *)
LEMMA LruRemovalSame ==
  ASSUME NEW s, NEW p, NEW f PROVE Mmu!Lru!PageRemoved(s,p,f) = Unit!Lru!PageRemoved(s,p,f)
BY DEF Mmu!Lru!Entry, Unit!Lru!Entry, Mmu!Lru!Holds, Unit!Lru!Holds, Mmu!Lru!Min, Unit!Lru!Min,
       Mmu!Lru!PageRemoved, Unit!Lru!PageRemoved, Mmu!Lru!RemoveAt, Unit!Lru!RemoveAt,
       Mmu!Lru!RemoveFirst, Unit!Lru!RemoveFirst, Mmu!Lru!SelectInSeq, Unit!Lru!SelectInSeq

(* Removing a page from Clock. *)
LEMMA ClockRemovalSame ==
  ASSUME NEW s, NEW p, NEW f PROVE Mmu!Clock!PageRemoved(s,p,f) = Unit!Clock!PageRemoved(s,p,f)
BY DEF Mmu!Clock!HandAfterRemoval, Unit!Clock!HandAfterRemoval, Mmu!Clock!Min, Unit!Clock!Min,
       Mmu!Clock!PageRemoved, Unit!Clock!PageRemoved, Mmu!Clock!PositionsOf,
       Unit!Clock!PositionsOf, Mmu!Clock!RemoveAt, Unit!Clock!RemoveAt

(* Removing a page from Optimal. *)
LEMMA OptimalRemovalSame ==
  ASSUME NEW s, NEW p, NEW f PROVE Mmu!Optimal!PageRemoved(s,p,f) = Unit!Optimal!PageRemoved(s,p,f)
BY DEF Mmu!Optimal!Entry, Unit!Optimal!Entry, Mmu!Optimal!Min, Unit!Optimal!Min,
       Mmu!Optimal!PageRemoved, Unit!Optimal!PageRemoved, Mmu!Optimal!RemoveAt,
       Unit!Optimal!RemoveAt, Mmu!Optimal!RemoveFirst, Unit!Optimal!RemoveFirst,
       Mmu!Optimal!SelectInSeq, Unit!Optimal!SelectInSeq

(* Removing a page from any policy. *)
LEMMA RemovalSame ==
  ASSUME NEW s, NEW p, NEW f PROVE Mmu!PageRemoved(s,p,f) = Unit!PageRemoved(s,p,f)
BY FifoRemovalSame, LruRemovalSame, ClockRemovalSame, OptimalRemovalSame, Zenon
   DEF Mmu!PageRemoved, Unit!PageRemoved

(* The victim of any policy. *)
LEMMA VictimSame ==
  ASSUME NEW s PROVE (Mmu!HasVictim(s) <=> Unit!HasVictim(s)) /\ Mmu!Victim(s) = Unit!Victim(s)
BY DEF Mmu!Clock!AdvanceHand, Unit!Clock!AdvanceHand, Mmu!Clock!BitAtHand, Unit!Clock!BitAtHand,
       Mmu!Clock!HasVictim, Unit!Clock!HasVictim, Mmu!Clock!Inspect, Unit!Clock!Inspect,
       Mmu!Clock!ScanEnd, Unit!Clock!ScanEnd, Mmu!Clock!Victim, Unit!Clock!Victim,
       Mmu!Fifo!HasVictim, Unit!Fifo!HasVictim, Mmu!Fifo!Victim, Unit!Fifo!Victim, Mmu!HasVictim,
       Unit!HasVictim, Mmu!Lru!HasVictim, Unit!Lru!HasVictim, Mmu!Lru!Victim, Unit!Lru!Victim,
       Mmu!Optimal!FoldLeft, Unit!Optimal!FoldLeft, Mmu!Optimal!HasVictim, Unit!Optimal!HasVictim,
       Mmu!Optimal!MapThenFoldSet, Unit!Optimal!MapThenFoldSet, Mmu!Optimal!Max, Unit!Optimal!Max,
       Mmu!Optimal!Min, Unit!Optimal!Min, Mmu!Optimal!NextUse, Unit!Optimal!NextUse,
       Mmu!Optimal!Victim, Unit!Optimal!Victim, Mmu!Victim, Unit!Victim

(* What choosing it leaves behind. *)
LEMMA ChoiceSame ==
  ASSUME NEW s PROVE Mmu!AfterChoice(s) = Unit!AfterChoice(s)
BY Zenon DEF Mmu!AfterChoice, Unit!AfterChoice, Mmu!Clock!AdvanceHand, Unit!Clock!AdvanceHand,
       Mmu!Clock!AfterChoice, Unit!Clock!AfterChoice, Mmu!Clock!BitAtHand, Unit!Clock!BitAtHand,
       Mmu!Clock!HasVictim, Unit!Clock!HasVictim, Mmu!Clock!Inspect, Unit!Clock!Inspect,
       Mmu!Clock!ScanEnd, Unit!Clock!ScanEnd, Mmu!Fifo!AfterChoice, Unit!Fifo!AfterChoice,
       Mmu!Fifo!HasVictim, Unit!Fifo!HasVictim, Mmu!HasVictim, Unit!HasVictim,
       Mmu!Lru!AfterChoice, Unit!Lru!AfterChoice, Mmu!Lru!HasVictim, Unit!Lru!HasVictim,
       Mmu!Optimal!AfterChoice, Unit!Optimal!AfterChoice, Mmu!Optimal!HasVictim,
       Unit!Optimal!HasVictim

(* Telling a policy of an access. *)
LEMMA PolicyAccessSame ==
  ASSUME NEW s, NEW p, NEW f PROVE Mmu!PageAccessed(s,p,f) = Unit!PageAccessed(s,p,f)
BY DEF Mmu!Clock!Min, Unit!Clock!Min, Mmu!Clock!PageAccessed, Unit!Clock!PageAccessed,
       Mmu!Clock!PositionsOf, Unit!Clock!PositionsOf, Mmu!Fifo!PageAccessed,
       Unit!Fifo!PageAccessed, Mmu!Lru!Entry, Unit!Lru!Entry, Mmu!Lru!Holds, Unit!Lru!Holds,
       Mmu!Lru!Min, Unit!Lru!Min, Mmu!Lru!PageAccessed, Unit!Lru!PageAccessed, Mmu!Lru!RemoveAt,
       Unit!Lru!RemoveAt, Mmu!Lru!RemoveFirst, Unit!Lru!RemoveFirst, Mmu!Lru!SelectInSeq,
       Unit!Lru!SelectInSeq, Mmu!Optimal!PageAccessed, Unit!Optimal!PageAccessed,
       Mmu!PageAccessed, Unit!PageAccessed

(* Telling a policy of a load. *)
LEMMA PolicyLoadSame ==
  ASSUME NEW s, NEW p, NEW f PROVE Mmu!PageLoaded(s,p,f) = Unit!PageLoaded(s,p,f)
BY DEF Mmu!Clock!PageLoaded, Unit!Clock!PageLoaded, Mmu!Clock!TracksPageOrFrame,
       Unit!Clock!TracksPageOrFrame, Mmu!Fifo!Entry, Unit!Fifo!Entry, Mmu!Fifo!PageLoaded,
       Unit!Fifo!PageLoaded, Mmu!Fifo!Tracks, Unit!Fifo!Tracks, Mmu!Lru!Entry, Unit!Lru!Entry,
       Mmu!Lru!PageLoaded, Unit!Lru!PageLoaded, Mmu!Optimal!Entry, Unit!Optimal!Entry,
       Mmu!Optimal!PageLoaded, Unit!Optimal!PageLoaded, Mmu!Optimal!Tracks, Unit!Optimal!Tracks,
       Mmu!PageLoaded, Unit!PageLoaded

(* Telling it of both. *)
LEMMA AfterLoadSame ==
  ASSUME NEW s, NEW p, NEW f PROVE Mmu!AfterLoad(s,p,f) = Unit!AfterLoad(s,p,f)
BY PolicyAccessSame, PolicyLoadSame DEF Mmu!AfterLoad, Unit!AfterLoad

(* What is reported. *)
LEMMA EventsSame ==
  ASSUME NEW l, NEW pid, NEW p, NEW f, NEW v, NEW r
  PROVE  /\ \A e : Mmu!Activity!RecordAll(l, e) = Unit!Activity!RecordAll(l, e)
         /\ Mmu!Activity!Status(pid, p) = Unit!Activity!Status(pid, p)
         /\ Mmu!Activity!PageFault(pid, p) = Unit!Activity!PageFault(pid, p)
         /\ Mmu!Activity!FrameAssignment(pid, p, f) = Unit!Activity!FrameAssignment(pid, p, f)
         /\ Mmu!Activity!PageReplacement(pid, p, f, v) = Unit!Activity!PageReplacement(pid, p, f, v)
         /\ Mmu!Activity!DirtyEviction(pid, p, f) = Unit!Activity!DirtyEviction(pid, p, f)
         /\ Mmu!Activity!Access(pid, p, f, r) = Unit!Activity!Access(pid, p, f, r)
BY DEF Mmu!Activity!Access, Unit!Activity!Access, Mmu!Activity!DirtyEviction,
       Unit!Activity!DirtyEviction, Mmu!Activity!Event, Unit!Activity!Event,
       Mmu!Activity!FrameAssignment, Unit!Activity!FrameAssignment, Mmu!Activity!PageFault,
       Unit!Activity!PageFault, Mmu!Activity!PageReplacement, Unit!Activity!PageReplacement,
       Mmu!Activity!RecordAll, Unit!Activity!RecordAll, Mmu!Activity!Status, Unit!Activity!Status

(* Addresses, results and counters. *)
LEMMA ValuesSame ==
  ASSUME NEW pid, NEW a
  PROVE  /\ Mmu!Known(pid, a) <=> Unit!Known(pid, a)
         /\ Mmu!Resolve(pid, a) = Unit!Resolve(pid, a)
         /\ Mmu!registered = Unit!registered
         /\ \A f : Mmu!Representable(f, a) <=> Unit!Representable(f, a)
         /\ \A f, fault, replacement, dirty :
              Mmu!Success(f, a, fault, replacement, dirty)
                = Unit!Success(f, a, fault, replacement, dirty)
         /\ \A page, f, write : Mmu!Touched(page, f, write) = Unit!Touched(page, f, write)
         /\ Mmu!Failure = Unit!Failure
         /\ Mmu!AbsentPage = Unit!AbsentPage
BY DEF Mmu!Known, Unit!Known, Mmu!Resolve, Unit!Resolve, Mmu!registered, Unit!registered,
       Mmu!Representable, Unit!Representable, Mmu!Success, Unit!Success, Mmu!PhysicalAddress,
       Unit!PhysicalAddress, Mmu!Failure, Unit!Failure, Mmu!AbsentPage, Unit!AbsentPage,
       Mmu!Touched, Unit!Touched

(* Reporting it. *)
LEMMA ReportsSame ==
  ASSUME NEW pid, NEW p, NEW events, NEW f
  PROVE  Mmu!Reports(pid, p, events, f) <=> Unit!Reports(pid, p, events, f)
BY EventsSame DEF Mmu!Reports, Unit!Reports

(* The first outcome of an access. *)
LEMMA AccessResidentSame ==
  ASSUME NEW pid, NEW p, NEW a, NEW write
  PROVE  Mmu!AccessResident(pid, p, a, write) <=> Unit!AccessResident(pid, p, a, write)
<1> DEFINE f == mem.table[p]
<1>1. Mmu!PageAccessed(pol, p, f) = Unit!PageAccessed(pol, p, f)
  BY PolicyAccessSame
<1>2. [pages EXCEPT ![p] = Mmu!Touched(@, f, write)]
        = [pages EXCEPT ![p] = Unit!Touched(@, f, write)]
  BY DEF Mmu!Touched, Unit!Touched
<1>3. Mmu!Success(f, a, FALSE, FALSE, FALSE) = Unit!Success(f, a, FALSE, FALSE, FALSE)
  BY DEF Mmu!Success, Unit!Success, Mmu!PhysicalAddress, Unit!PhysicalAddress
<1>4. Mmu!Reports(pid, p, <<>>, f) <=> Unit!Reports(pid, p, <<>>, f)
  BY ReportsSame
<1>5. Mmu!CountAccess(pid) <=> Unit!CountAccess(pid)
  BY DEF Mmu!CountAccess, Unit!CountAccess
<1>6. /\ Mmu!IsMapped(mem, p) <=> Unit!IsMapped(mem, p)
      /\ Mmu!IsMappingConsistent(mem, p) <=> Unit!IsMappingConsistent(mem, p)
  BY MemorySame
<1> QED
  BY <1>1, <1>2, <1>3, <1>4, <1>5, <1>6, Zenon DEF Mmu!AccessResident, Unit!AccessResident

(* The second. *)
LEMMA AccessInconsistentSame ==
  ASSUME NEW pid, NEW p, NEW a, NEW write
  PROVE  Mmu!AccessInconsistent(pid, p) <=> Unit!AccessInconsistent(pid, p)
BY MemorySame, ValuesSame, ReportsSame, Zenon
   DEF Mmu!AccessInconsistent, Unit!AccessInconsistent, Mmu!CountAccess, Unit!CountAccess

(* The third. *)
LEMMA FaultRefusedSame ==
  ASSUME NEW pid, NEW p, NEW a, NEW write
  PROVE  Mmu!FaultRefused(pid, p) <=> Unit!FaultRefused(pid, p)
BY MemorySame, ValuesSame, ReportsSame, Zenon
   DEF Mmu!FaultRefused, Unit!FaultRefused, Mmu!CountAccess, Unit!CountAccess

(* The fourth. *)
LEMMA FaultWithFreeFrameSame ==
  ASSUME NEW pid, NEW p, NEW a, NEW write
  PROVE  Mmu!FaultWithFreeFrame(pid, p, a, write) <=> Unit!FaultWithFreeFrame(pid, p, a, write)
BY MemorySame, MapSame, AfterLoadSame, EventsSame, ValuesSame, ReportsSame
   DEF Mmu!FaultWithFreeFrame, Unit!FaultWithFreeFrame, Mmu!CountFault, Unit!CountFault,
       Mmu!CountFaultOf, Unit!CountFaultOf, Mmu!Faulting, Unit!Faulting, Mmu!Success,
       Unit!Success, Mmu!PhysicalAddress, Unit!PhysicalAddress

(* The fifth. *)
LEMMA FaultWithoutVictimSame ==
  ASSUME NEW pid, NEW p, NEW a, NEW write
  PROVE  Mmu!FaultWithoutVictim(pid, p) <=> Unit!FaultWithoutVictim(pid, p)
BY MemorySame, VictimSame, ChoiceSame, EventsSame, ValuesSame, ReportsSame
   DEF Mmu!FaultWithoutVictim, Unit!FaultWithoutVictim, Mmu!CountFault, Unit!CountFault,
       Mmu!CountFaultOf, Unit!CountFaultOf, Mmu!Faulting, Unit!Faulting, Mmu!Success,
       Unit!Success, Mmu!PhysicalAddress, Unit!PhysicalAddress

(* The sixth. *)
LEMMA FaultRefusesVictimSame ==
  ASSUME NEW pid, NEW p, NEW a, NEW write
  PROVE  Mmu!FaultRefusesVictim(pid, p, a) <=> Unit!FaultRefusesVictim(pid, p, a)
BY MemorySame, VictimSame, ChoiceSame, EventsSame, ValuesSame, ReportsSame
   DEF Mmu!FaultRefusesVictim, Unit!FaultRefusesVictim, Mmu!CountFault, Unit!CountFault,
       Mmu!CountFaultOf, Unit!CountFaultOf, Mmu!Faulting, Unit!Faulting, Mmu!Evictable,
       Unit!Evictable

(* The last outcome of an access to a known page. *)
LEMMA FaultWithReplacementSame ==
  ASSUME NEW pid, NEW p, NEW a, NEW write
  PROVE  Mmu!FaultWithReplacement(pid, p, a, write) <=> Unit!FaultWithReplacement(pid, p, a, write)
<1> DEFINE f == Mmu!Victim(pol)
           v == mem.frames[f]
           d == pages[v].dirty
<1>1. /\ Unit!Victim(pol) = f
      /\ Mmu!HasVictim(pol) <=> Unit!HasVictim(pol)
      /\ Mmu!MapPage(Mmu!ReleaseFrame(mem, f), p) = Unit!MapPage(Unit!ReleaseFrame(mem, f), p)
  BY ReleaseFrameSame, MapSame, VictimSame
<1>2. Mmu!AfterReplacement(p, v, f) = Unit!AfterReplacement(p, v, f)
  BY ChoiceSame, RemovalSame, AfterLoadSame DEF Mmu!AfterReplacement, Unit!AfterReplacement
<1>3. Mmu!RecordDirtyEviction(Mmu!AfterReplacement(p, v, f))
        = Unit!RecordDirtyEviction(Unit!AfterReplacement(p, v, f))
  BY <1>2 DEF Mmu!RecordDirtyEviction, Unit!RecordDirtyEviction
<1>4. Mmu!ReplacementEvents(pid, p, v, f, d) = Unit!ReplacementEvents(pid, p, v, f, d)
  BY EventsSame DEF Mmu!ReplacementEvents, Unit!ReplacementEvents
<1>5. Mmu!Reports(pid, p, Mmu!ReplacementEvents(pid, p, v, f, d), f)
        <=> Unit!Reports(pid, p, Unit!ReplacementEvents(pid, p, v, f, d), f)
  BY <1>4, ReportsSame
<1>6. Mmu!Success(f, a, TRUE, TRUE, d) = Unit!Success(f, a, TRUE, TRUE, d)
  BY DEF Mmu!Success, Unit!Success, Mmu!PhysicalAddress, Unit!PhysicalAddress
<1>7. /\ Mmu!Faulting(p) <=> Unit!Faulting(p)
      /\ Mmu!Evictable(f) <=> Unit!Evictable(f)
      /\ Mmu!HasFreeFrame(mem) <=> Unit!HasFreeFrame(mem)
      /\ Mmu!Representable(f, a) <=> Unit!Representable(f, a)
      /\ Mmu!AbsentPage = Unit!AbsentPage
      /\ Mmu!Touched(pages[p], f, write) = Unit!Touched(pages[p], f, write)
  BY MemorySame, ValuesSame
     DEF Mmu!Faulting, Unit!Faulting, Mmu!Evictable, Unit!Evictable, Mmu!Touched, Unit!Touched
<1>8. [pages EXCEPT ![v] = Mmu!AbsentPage, ![p] = Mmu!Touched(@, f, write)]
        = [pages EXCEPT ![v] = Unit!AbsentPage, ![p] = Unit!Touched(@, f, write)]
  BY DEF Mmu!Touched, Unit!Touched, Mmu!AbsentPage, Unit!AbsentPage
<1>9. Mmu!CountFaultOf(pid) <=> Unit!CountFaultOf(pid)
  BY DEF Mmu!CountFaultOf, Unit!CountFaultOf
<1> QED
  BY <1>1, <1>2, <1>3, <1>5, <1>6, <1>7, <1>8, <1>9, Zenon
     DEF Mmu!FaultWithReplacement, Unit!FaultWithReplacement

(* So an access is the same in both instances. *)
LEMMA AccessSame ==
  ASSUME NEW pid, NEW a, NEW write
  PROVE  Mmu!Access(pid,a,write) <=> Unit!Access(pid,a,write)
BY AccessResidentSame, AccessInconsistentSame, FaultRefusedSame, FaultWithFreeFrameSame,
   FaultWithoutVictimSame, FaultRefusesVictimSame, FaultWithReplacementSame, EventsSame,
   ValuesSame
   DEF Mmu!Access, Unit!Access, Mmu!AccessKnown, Unit!AccessKnown, Mmu!AccessUnknown,
       Unit!AccessUnknown, Mmu!UnknownPage, Unit!UnknownPage, Mmu!statistics, Unit!statistics

-----------------------------------------------------------------------------
(* What a simulation does to its unit *)

(* An access from an addressable page keeps what is proved of the unit. *)
LEMMA UnitAccess ==
  ASSUME Addressable, NEW pid \in Processes, NEW v \in VirtualPages,
         Mmu!Access(pid, v * PageSize, FALSE)
  PROVE  /\ Unit!DInv => Unit!DInv'
         /\ Unit!PInv => Unit!PInv'
<1> DEFINE a == v * PageSize
<1>1. /\ a \in {x * PageSize : x \in VirtualPages}
      /\ Unit!Access(pid, a, FALSE)
  BY AccessSame, Zenon
<1>2. UnitAssumptions
  BY UnitAssumed
<1> HIDE DEF a
<1>3. Unit!DInv => Unit!DInv'
  BY <1>1, <1>2, Unit!AccessExact, Zenon
     DEF UnitAssumptions, Unit!NumFramesAssumption, Unit!PagesAssumption, Unit!NoFrameAssumption,
         Unit!ProcessesAssumption, Unit!KindsAssumption, Unit!ReferencesAssumption,
         Unit!VirtualPagesAssumption, Unit!AddressesAssumption, Unit!DirectAssumption
<1>4. Unit!PInv => Unit!PInv'
  BY <1>1, <1>2, Unit!AccessKeepsPolicy, Zenon
     DEF UnitAssumptions, Unit!NumFramesAssumption, Unit!PagesAssumption, Unit!NoFrameAssumption,
         Unit!ProcessesAssumption, Unit!KindsAssumption, Unit!ReferencesAssumption,
         Unit!VirtualPagesAssumption, Unit!AddressesAssumption, Unit!DirectAssumption
<1> QED
  BY <1>3, <1>4

(* So does a call on the physical memory, as far as direct clients do. *)
LEMMA UnitReached ==
  ASSUME Addressable, Unit!DInv, mem' \in PhysicalMemoryCalls,
         UNCHANGED <<owner, pages, vmap, pol, counts, procStats, result, log>>
  PROVE  Unit!DInv'
<1>1. Unit!DirectClient
  <2>1. \A p : Mmu!AllocateFrame(mem, p) = Unit!AllocateFrame(mem, p)
    BY DEF Mmu!AllocateFrame, Unit!AllocateFrame, Mmu!FreeFrames, Unit!FreeFrames, Mmu!Min,
           Unit!Min, Mmu!OccupiedFrames, Unit!OccupiedFrames, Mmu!IsOccupied, Unit!IsOccupied,
           Mmu!Frames, Unit!Frames, Mmu!IsPageMapped, Unit!IsPageMapped, Mmu!FramesHolding,
           Unit!FramesHolding
  <2>2. Mmu!ClearPhysicalMemory(mem) = Unit!ClearPhysicalMemory(mem)
    <3>1. Mmu!Frames = Unit!Frames /\ Mmu!OccupiedFrames(mem) = Unit!OccupiedFrames(mem)
      BY MemorySame
    <3>2. Mmu!Cardinality(Unit!OccupiedFrames(mem)) = Unit!Cardinality(Unit!OccupiedFrames(mem))
      BY DEF Mmu!Cardinality, Unit!Cardinality
    <3> QED
      BY <3>1, <3>2 DEF Mmu!ClearPhysicalMemory, Unit!ClearPhysicalMemory
  <2>3. \A f : Mmu!ReleasePhysicalFrame(mem, f) = Unit!ReleasePhysicalFrame(mem, f)
    BY ReleaseSame
  <2> QED
    BY <2>1, <2>2, <2>3, MemorySame
       DEF Unit!DirectClient, Unit!Bypassing, Unit!statistics, PhysicalMemoryCalls
<1>2. UnitAssumptions
  BY UnitAssumed
<1> QED
  BY <1>1, <1>2, Unit!DirectExact
     DEF UnitAssumptions, Unit!NumFramesAssumption, Unit!PagesAssumption, Unit!NoFrameAssumption,
         Unit!ProcessesAssumption, Unit!KindsAssumption, Unit!ReferencesAssumption,
         Unit!VirtualPagesAssumption, Unit!AddressesAssumption, Unit!DirectAssumption

(* A unit as a run, or a new simulation, finds it. *)
EmptyUnit ==
  /\ mem = Mmu!EmptyMemory
  /\ pages = [p \in Pages |-> Mmu!AbsentPage]
  /\ owner \in [Pages -> Processes \cup {NoProcess}]
  /\ vmap \in [Processes -> [VirtualPages -> Pages \cup {NoPage}]]
  /\ counts = Mmu!NoCounts
  /\ procStats = Mmu!NoProcStats
  /\ pol = Mmu!NewPolicy(config.policy)
  /\ config \in Configurations

(* Everything is known of an empty unit. *)
LEMMA UnitEmpty == Addressable /\ EmptyUnit => Unit!DInv /\ Unit!PInv
<1> SUFFICES ASSUME Addressable, EmptyUnit PROVE Unit!DInv /\ Unit!PInv
  OBVIOUS
<1>1. UnitAssumptions
  BY UnitAssumed
<1>2. /\ mem = Unit!EmptyMemory
      /\ pages = [p \in Pages |-> Unit!AbsentPage]
      /\ counts = Unit!NoCounts
      /\ procStats = Unit!NoProcStats
      /\ config.policy \in {c.policy : c \in Configurations}
      /\ owner \in [Pages -> Processes \cup {NoProcess}]
      /\ vmap \in [Processes -> [VirtualPages -> Pages \cup {NoPage}]]
  BY MemorySame, Zenon DEF EmptyUnit, Mmu!EmptyMemory, Unit!EmptyMemory, Mmu!AbsentPage, Unit!AbsentPage,
                    Mmu!NoCounts, Unit!NoCounts, Mmu!NoProcStats, Unit!NoProcStats
<1>3. pol = Unit!NewPolicy(config.policy)
  BY DEF EmptyUnit, Mmu!NewPolicy, Unit!NewPolicy, Mmu!Fifo!Empty, Unit!Fifo!Empty, Mmu!Lru!Empty,
         Unit!Lru!Empty, Mmu!Clock!Empty, Unit!Clock!Empty, Mmu!Optimal!Empty, Unit!Optimal!Empty
<1>4. Unit!IInv
  BY <1>1, <1>2, Unit!EmptyCoherent
     DEF UnitAssumptions, Unit!NumFramesAssumption, Unit!PagesAssumption, Unit!NoFrameAssumption,
         Unit!ProcessesAssumption, Unit!KindsAssumption, Unit!ReferencesAssumption,
         Unit!VirtualPagesAssumption, Unit!AddressesAssumption, Unit!DirectAssumption
<1>5. Unit!DInv
  BY <1>1, <1>4, Unit!CoherentExact
     DEF UnitAssumptions, Unit!NumFramesAssumption, Unit!PagesAssumption, Unit!NoFrameAssumption,
         Unit!ProcessesAssumption, Unit!KindsAssumption, Unit!ReferencesAssumption,
         Unit!VirtualPagesAssumption, Unit!AddressesAssumption, Unit!DirectAssumption
<1>6. Unit!PInv
  BY <1>1, <1>2, <1>3, <1>4, Unit!EmptyFollows
     DEF UnitAssumptions, Unit!NumFramesAssumption, Unit!PagesAssumption, Unit!NoFrameAssumption,
         Unit!ProcessesAssumption, Unit!KindsAssumption, Unit!ReferencesAssumption,
         Unit!VirtualPagesAssumption, Unit!AddressesAssumption, Unit!DirectAssumption
<1> QED
  BY <1>5, <1>6

(* The same of the next state. *)
LEMMA UnitEmptyNext == ASSUME Addressable, EmptyUnit' PROVE Unit!DInv' /\ Unit!PInv'
<1>1. Addressable'
  BY DEF Addressable
<1> QED
  BY <1>1, UnitEmpty, PTL

-----------------------------------------------------------------------------
(* The accesses of a run *)

(* Every access of a run is to a page its process can reach. *)
LEMMA AccessIsKnown ==
  ASSUME Registered, phase = "running", NEW process \in Processes, NEW v \in VirtualPages
  PROVE  Unit!Known(process, v * PageSize)
<1>1. Mmu!Known(process, v * PageSize)
  BY KnownInRun
<1> QED
  BY <1>1 DEF Mmu!Known, Unit!Known, Mmu!Resolve, Unit!Resolve, Mmu!registered, Unit!registered

-----------------------------------------------------------------------------
(* The unit of a run keeps what is proved of the unit alone: in part, once *)
(* the callback reaches the memory, and wholly until then.                 *)
UnitFollows ==
  /\ Addressable => Unit!DInv
  /\ Addressable /\ reaches = 0 => Unit!PInv

(* A new run of an addressable configuration finds an empty unit. *)
LEMMA StartEmpties ==
  ASSUME Registered, Refusing, UnitFollows, StartRun, Addressable
  PROVE  EmptyUnit'
<1>1. Unit!Exact(mem) /\ UnitAssumptions
  BY UnitAssumed, Zenon DEF UnitFollows, Unit!DInv
<1>2. Cleared(mem) = Mmu!EmptyMemory
  <2> DEFINE n == Mmu!ClearPageTable(mem)
  <2>1. /\ mem = [frames |-> mem.frames, allocated |-> mem.allocated, table |-> mem.table]
        /\ mem.allocated \in Int
        /\ mem.allocated = Unit!Cardinality(Unit!OccupiedFrames(mem))
    BY <1>1 DEF Unit!Exact, Unit!Memory
  <2>2. n.frames = mem.frames /\ n.allocated = mem.allocated
        /\ n.table = [p \in Pages |-> NoFrame]
    BY <2>1 DEF Mmu!ClearPageTable
  <2>3. Mmu!OccupiedFrames(n) = Unit!OccupiedFrames(mem)
    BY <2>2 DEF Mmu!OccupiedFrames, Unit!OccupiedFrames, Mmu!IsOccupied, Unit!IsOccupied,
                Mmu!Frames, Unit!Frames
  <2>4. Mmu!Cardinality(Unit!OccupiedFrames(mem)) = Unit!Cardinality(Unit!OccupiedFrames(mem))
    BY DEF Mmu!Cardinality, Unit!Cardinality
  <2>5. n.allocated - Mmu!Cardinality(Mmu!OccupiedFrames(n)) = 0
    BY <2>1, <2>2, <2>3, <2>4
  <2> QED
    BY <2>2, <2>5 DEF Cleared, Mmu!ClearPhysicalMemory, Mmu!EmptyMemory
<1>3. owner' \in [Pages -> Processes \cup {NoProcess}]
  BY StartOwners, OwnersExist
<1>4. vmap' \in [Processes -> [VirtualPages -> Pages \cup {NoPage}]]
  BY StartOwners, PagesReached
<1>5. config' = config /\ pol' = Mmu!NewPolicy(config.policy)
  BY PolicyCreated DEF StartRun, Refusing
<1> QED
  BY <1>2, <1>3, <1>4, <1>5 DEF EmptyUnit, StartRun, Refusing, Mmu!EmptyMemory, Mmu!AbsentPage,
       Mmu!NoCounts, Mmu!NoProcStats, Mmu!NewPolicy

-----------------------------------------------------------------------------
(* The results of a run *)

(* The unit of a new simulation is empty. *)
LEMMA InitUnitFollows == Init => UnitFollows
<1> SUFFICES ASSUME Init, Addressable PROVE EmptyUnit
  BY UnitEmpty DEF UnitFollows
<1> QED
  BY DEF Init, NewSimulation, EmptyUnit

(* A step that leaves the unit alone keeps what is known of it. *)
LEMMA UnitStays ==
  ASSUME Addressable, UNCHANGED mmuVars
  PROVE  (Unit!DInv => Unit!DInv') /\ (Unit!PInv => Unit!PInv')
<1>1. UNCHANGED Unit!vars /\ UnitAssumptions
  BY UnitAssumed DEF mmuVars, Unit!vars
<1>2. Unit!DInv => Unit!DInv'
  BY <1>1, Unit!NextExact
     DEF UnitAssumptions, Unit!NumFramesAssumption, Unit!PagesAssumption, Unit!NoFrameAssumption,
         Unit!ProcessesAssumption, Unit!KindsAssumption, Unit!ReferencesAssumption,
         Unit!VirtualPagesAssumption, Unit!AddressesAssumption, Unit!DirectAssumption
<1>3. Unit!PInv => Unit!PInv'
  BY <1>1, Unit!NextFollows
     DEF UnitAssumptions, Unit!NumFramesAssumption, Unit!PagesAssumption, Unit!NoFrameAssumption,
         Unit!ProcessesAssumption, Unit!KindsAssumption, Unit!ReferencesAssumption,
         Unit!VirtualPagesAssumption, Unit!AddressesAssumption, Unit!DirectAssumption
<1> QED
  BY <1>2, <1>3

(* A run begins with an empty unit and goes on by accesses of its own. *)
LEMMA NextUnitFollows ==
  Refusing /\ Registered /\ RunTyped /\ UnitFollows /\ [Next]_vars => UnitFollows'
<1> SUFFICES ASSUME Refusing, Registered, RunTyped, UnitFollows, [Next]_vars, Addressable
             PROVE  Unit!DInv' /\ (reaches' = 0 => Unit!PInv')
  BY DEF UnitFollows, Addressable
<1>1. CASE StartRun
  BY <1>1, StartEmpties, UnitEmptyNext
<1>2. CASE ExecuteAccess
  <2>1. PICK process \in Processes, v \in VirtualPages : Mmu!Access(process, v * PageSize, FALSE)
    BY <1>2, StepOfRun, Zenon
  <2>2. reaches' = reaches
    BY <1>2 DEF ExecuteAccess
  <2> QED
    BY <2>1, <2>2, UnitAccess, Zenon DEF UnitFollows
<1>3. CASE FinishRun \/ CallbackThrows \/ UNCHANGED vars
  <2>1. UNCHANGED mmuVars /\ reaches' = reaches
    BY <1>3 DEF FinishRun, CallbackThrows, vars
  <2> QED
    BY <2>1, UnitStays DEF UnitFollows
<1>4. CASE ReachPhysicalMemory
  <2>1. /\ mem' \in PhysicalMemoryCalls
        /\ UNCHANGED <<owner, pages, vmap, pol, counts, procStats, result, log>>
        /\ reaches' # 0
    BY <1>4 DEF ReachPhysicalMemory, RunTyped
  <2> QED
    BY <2>1, UnitReached DEF UnitFollows
<1> QED
  BY <1>1, <1>2, <1>3, <1>4 DEF Next

-----------------------------------------------------------------------------
(* One more access of a run. *)
LEMMA AccessCounted ==
  ASSUME Mmu!AddressesFit, Registered, RunTyped, Counted, Unit!PInv, ExecuteAccess
  PROVE  Counted'
<1> DEFINE n == Len(records)
<1>1. PICK process \in Processes, v \in VirtualPages :
        /\ process = program[n + 1].process
        /\ Mmu!Access(process, v * PageSize, FALSE)
        /\ Addressable
  BY StepOfRun, Zenon
<1>2. UnitAssumptions /\ Unit!AddressesFit /\ NumFrames # 0
  BY <1>1, UnitAssumed, SizesAssumption
     DEF Mmu!AddressesFit, Unit!AddressesFit, Mmu!Representable, Unit!Representable
<1>3. Unit!Known(process, v * PageSize)
  BY AccessIsKnown DEF ExecuteAccess
<1>4. /\ Unit!Access(process, v * PageSize, FALSE)
      /\ v * PageSize \in {x * PageSize : x \in VirtualPages}
  BY <1>1, AccessSame, Zenon
<1>5. Unit!CountedAsTold(process)
  <2> DEFINE a == v * PageSize
  <2> HIDE DEF a
  <2> QED
    BY <1>2, <1>3, <1>4, Unit!KnownAccessCounts, Zenon
       DEF a, UnitAssumptions, Unit!NumFramesAssumption, Unit!PagesAssumption,
           Unit!NoFrameAssumption, Unit!ProcessesAssumption, Unit!KindsAssumption,
           Unit!ReferencesAssumption, Unit!VirtualPagesAssumption, Unit!AddressesAssumption,
           Unit!DirectAssumption
<1>6. CountsAsTold(process)
  BY <1>5 DEF CountsAsTold, OneIf, Unit!CountedAsTold, Unit!OneIf
<1> QED
  BY <1>1, <1>6, ResultCounted

(* A run that is left alone counts everything it does. *)
LEMMA NextCounted ==
  ASSUME Mmu!AddressesFit, Refusing, Registered, RunTyped, UnitFollows,
         reaches = 0 => Counted, [Next]_vars, reaches' = 0
  PROVE  Counted'
<1>1. CASE StartRun
  <2>1. config' = config /\ pol' = Mmu!NewPolicy(config.policy)
    BY <1>1, PolicyCreated DEF StartRun, Refusing
  <2>2. Uncounted'
    BY <1>1, <2>1 DEF StartRun, Uncounted, Refusing, NoStatistics, Mmu!NoCounts, Mmu!NoProcStats,
                      Mmu!NewPolicy
  <2> QED
    BY <2>2, UncountedCounts, PTL
<1>2. CASE ExecuteAccess
  <2>1. reaches = 0 /\ Addressable
    BY <1>2 DEF ExecuteAccess, Registered
  <2> QED
    BY <1>2, <2>1, AccessCounted DEF UnitFollows
<1>3. CASE FinishRun \/ CallbackThrows \/ UNCHANGED vars
  <2>1. /\ UNCHANGED <<statistics, records, program, counts, procStats, pol>>
        /\ reaches = 0
    BY <1>3 DEF FinishRun, CallbackThrows, vars, runVars, mmuVars
  <2>2. \A process \in Processes :
          /\ Mine(process, Len(records))' = Mine(process, Len(records))
          /\ Faulted(process, Len(records))' = Faulted(process, Len(records))
    BY <2>1 DEF Mine, Faulted
  <2> QED
    BY <2>1, <2>2 DEF Counted
<1>4. CASE ReachPhysicalMemory
  BY <1>4 DEF ReachPhysicalMemory, RunTyped
<1> QED
  BY <1>1, <1>2, <1>3, <1>4 DEF Next

(* What is true of every state of a simulation. *)
RunInv == Refusing /\ Registered /\ RunTyped /\ UnitFollows

(* The invariant of a simulation, whichever methods of the memory manager
   its callback calls. *)
LEMMA RunInvariant == Spec => []RunInv
BY InitRefusing, NextRefusing, InitRegistered, NextRegistered, InitRunTyped, NextRunTyped,
   InitUnitFollows, NextUnitFollows, PTL DEF Spec, RunInv

(* What is counted, unless the callback has reached the memory. *)
CountedIfAlone == reaches = 0 => Counted

(* The invariant of runs that are left alone, when every address fits. *)
LEMMA CountedInvariant == Mmu!AddressesFit /\ Spec => []CountedIfAlone
<1> SUFFICES ASSUME Mmu!AddressesFit PROVE Spec => []CountedIfAlone
  OBVIOUS
<1>1. Init => CountedIfAlone
  BY InitCounted DEF CountedIfAlone
<1>2. RunInv /\ CountedIfAlone /\ [Next]_vars => CountedIfAlone'
  BY NextCounted DEF RunInv, CountedIfAlone
<1> QED
  BY <1>1, <1>2, RunInvariant, PTL DEF Spec

(***************************************************************************)
(* No access of a run fails unless its callback reached the memory, if     *)
(* every frame has representable addresses.                                *)
(***************************************************************************)
THEOREM SuccessTheorem == Mmu!AddressesFit /\ Spec => []AccessesSucceed
<1>1. CountedIfAlone => AccessesSucceed
  BY CountedAgrees DEF CountedIfAlone, AccessesSucceed
<1> QED
  BY <1>1, CountedInvariant, PTL

(***************************************************************************)
(* The executor, the unit, its per-process statistics and the policy agree *)
(* about every run, finished or not, unless its callback reached the       *)
(* memory, if every frame has representable addresses.                     *)
(***************************************************************************)
THEOREM StatisticsTheorem == Mmu!AddressesFit /\ Spec => []StatisticsAgree
<1>1. CountedIfAlone => StatisticsAgree
  BY CountedAgrees, Zenon DEF CountedIfAlone, StatisticsAgree
<1> QED
  BY <1>1, CountedInvariant, PTL

-----------------------------------------------------------------------------
(* The runs of a simulation *)

(* A run begins in the first state. *)
LEMMA StartRepeats ==
  ASSUME RunInv, Telling, Repeating, StartRun
  PROVE  Repeating'
<1>1. config' = config /\ program' = program /\ outcomes' = outcomes /\ records' = <<>>
  BY DEF StartRun
<1>2. \A o \in outcomes' :
        \E w : IsRun(w, config', program', Len(program')) /\ o = OutcomeOf(w[Len(program')])
  BY <1>1 DEF Repeating
<1>3. ASSUME phase' = "running"
      PROVE  \E w : IsRun(w, config', program', Len(records')) /\ w[Len(records')] = RunState'
  <2>1. Addressable
    BY <1>3 DEF StartRun, Addressable
  <2>2. EmptyUnit'
    BY <2>1, StartEmpties DEF RunInv
  <2>3. log' = Activity!NewLog
    BY ClearedLog DEF StartRun, Telling, Activity!NewLog
  <2>4. UnitState' = FirstState(config').unit
    BY <2>2, <2>3 DEF StartRun, EmptyUnit, FirstState, UnitState
  <2>5. RunState' = FirstState(config')
    BY <2>4 DEF StartRun, RunState, FirstState
  <2> DEFINE w == [k \in {0} |-> FirstState(config')]
  <2>6. IsRun(w, config', program', 0) /\ w[0] = RunState' /\ Len(records') = 0
    BY <1>1, <2>5 DEF IsRun
  <2> QED
    BY <2>6
<1> QED
  BY <1>2, <1>3 DEF Repeating

(* Whatever else happens, the runs that have returned stay as they were. *)
LEMMA NextRepeating == RunInv /\ Telling /\ Repeating /\ [Next]_vars => Repeating'
<1> SUFFICES ASSUME RunInv, Telling, Repeating, [Next]_vars PROVE Repeating'
  OBVIOUS
<1>1. CASE StartRun
  BY <1>1, StartRepeats
<1>2. CASE ExecuteAccess
  BY <1>2, AccessRepeats DEF RunInv
<1>3. CASE FinishRun
  BY <1>3, FinishRepeats
<1>4. CASE CallbackThrows \/ ReachPhysicalMemory
  <2>1. config' = config /\ program' = program /\ outcomes' = outcomes
        /\ ~(phase' = "running" /\ reaches' = 0)
    BY <1>4 DEF CallbackThrows, ReachPhysicalMemory, RunInv, RunTyped
  <2> QED
    BY <2>1 DEF Repeating
<1>5. CASE UNCHANGED vars
  <2>1. UNCHANGED <<config, program, outcomes, phase, reaches, records, statistics>>
        /\ UnitState' = UnitState
    BY <1>5 DEF vars, mmuVars, runVars, UnitState
  <2>2. RunState' = RunState
    BY <2>1 DEF RunState
  <2> QED
    BY <2>1, <2>2 DEF Repeating
<1> QED
  BY <1>1, <1>2, <1>3, <1>4, <1>5 DEF Next

(***************************************************************************)
(* The runs of a simulation return the same, log included, whatever was    *)
(* done before them by the memory manager's methods, unless their callback *)
(* reached the memory: what a run does is a function of its configuration  *)
(* and its program alone.                                                  *)
(***************************************************************************)
THEOREM RepeatTheorem == Spec => []RunsRepeat
<1>1. Init => Repeating
  BY DEF Init, NewSimulation, Repeating
<1>2. RunInv /\ Repeating => RunsRepeat
  <2> SUFFICES ASSUME RunInv, Repeating PROVE Cardinality(outcomes) <= 1
    BY DEF RunsRepeat
  <2>1. Len(program) \in Nat
    BY DEF RunInv, RunTyped
  <2>2. \A o, d \in outcomes : o = d
    BY <2>1, RunsAgree DEF Repeating
  <2>3. CASE outcomes = {}
    BY <2>3, FS_EmptySet
  <2>4. CASE outcomes # {}
    <3>1. PICK o : outcomes = {o}
      BY <2>2, <2>4
    <3> QED
      BY <3>1, FS_Singleton
  <2> QED
    BY <2>3, <2>4
<1>3. Spec => []Telling
  BY InitTelling, NextTelling, PTL DEF Spec
<1> QED
  BY <1>1, <1>2, <1>3, RunInvariant, NextRepeating, PTL DEF Spec

-----------------------------------------------------------------------------
(* What a run amounts to *)

(* A column of the per-process statistics, as the unit alone adds it up. *)
Column(stats, field) == [q \in Processes |-> [faults |-> stats[q][field]]]

(* What the rows of a statistics amount to. *)
SumOf(stats, field) == FoldFunction(LAMBDA row, sum : row[field] + sum, 0, stats)

(* Both are the same sum. *)
LEMMA ColumnSum ==
  ASSUME NEW stats, DOMAIN stats = Processes, NEW field
  PROVE  SumOf(stats, field) = Unit!FaultsIn(Column(stats, field), Processes)
<1> DEFINE column == Column(stats, field)
           P(g) == g = [s \in SUBSET Processes |->
                         IF s = {} THEN 0
                         ELSE stats[Unit!Some(s)][field] + g[s \ {Unit!Some(s)}]]
           Q(g) == g = [s \in SUBSET Processes |->
                         IF s = {} THEN 0
                         ELSE column[Unit!Some(s)].faults + g[s \ {Unit!Some(s)}]]
<1>1. ASSUME NEW s \in SUBSET Processes, s # {}
      PROVE  column[Unit!Some(s)].faults = stats[Unit!Some(s)][field]
  <2>1. Unit!Some(s) \in Processes
    BY <1>1 DEF Unit!Some
  <2> QED
    BY <2>1 DEF Column
<1>2. SumOf(stats, field) = (CHOOSE g : P(g))[Processes]
  BY DEF SumOf, FoldFunction, FoldFunctionOnSet, MapThenFoldSet, Unit!Some
<1>3. Unit!FaultsIn(column, Processes) = (CHOOSE g : Q(g))[Processes]
  BY DEF Unit!FaultsIn, Unit!MapThenSumSet, Unit!MapThenFoldSet, Unit!Some
<1> HIDE DEF column
<1>4. \A g : P(g) <=> Q(g)
  BY <1>1
<1> HIDE DEF P, Q
<1>5. (CHOOSE g : P(g)) = (CHOOSE g : Q(g))
  BY <1>4
<1> QED
  BY <1>2, <1>3, <1>5, Zenon DEF column

(* Nobody's column amounts to nothing. *)
LEMMA NothingTotalled ==
  ASSUME Addressable, NEW field \in {"accesses", "faults"}
  PROVE  SumOf(Mmu!NoProcStats, field) = 0
<1> DEFINE stats == Mmu!NoProcStats
<1>1. DOMAIN stats = Processes /\ \A q \in Processes : Column(stats, field)[q].faults = 0
  BY DEF Mmu!NoProcStats, Column
<1>2. UnitAssumptions /\ Unit!IsFiniteSet(Processes)
  BY UnitAssumed DEF UnitAssumptions, Unit!ProcessesAssumption
<1> HIDE DEF stats
<1>3. Unit!FaultsIn(Column(stats, field), Processes) = 0
  BY <1>1, <1>2, Unit!SumOfNone
     DEF UnitAssumptions, Unit!NumFramesAssumption, Unit!PagesAssumption, Unit!NoFrameAssumption,
         Unit!ProcessesAssumption, Unit!KindsAssumption, Unit!ReferencesAssumption,
         Unit!VirtualPagesAssumption, Unit!AddressesAssumption, Unit!DirectAssumption
<1>4. SumOf(stats, field) = 0
  BY <1>1, <1>3, ColumnSum
<1> QED
  BY <1>4 DEF stats

(* The column after has d more than the column before in the place p. *)
HasMore(before, after, S, p, d) ==
  /\ \A x \in S : before[x].faults \in Nat
  /\ \A x \in S : after[x].faults = before[x].faults + IF x = p THEN d ELSE 0

(* Two columns that differ in one place differ as much in their sums. *)
LEMMA UnitSums ==
  ASSUME UnitAssumptions
  PROVE  \A S, before, after, p, d :
           /\ Unit!IsFiniteSet(S) /\ p \in S /\ d \in Nat
           /\ HasMore(before, after, S, p, d)
           => /\ Unit!FaultsIn(before, S) \in Nat
              /\ Unit!FaultsIn(after, S) = Unit!FaultsIn(before, S) + d
BY Unit!SumOfMore DEF UnitAssumptions, HasMore

(* What one process counts more is what is counted more in all. *)
LEMMA OneMoreTotalled ==
  ASSUME Addressable, NEW before, NEW after, NEW field, NEW pid \in Processes, NEW d \in Nat,
         DOMAIN before = Processes, DOMAIN after = Processes,
         \A q \in Processes : before[q][field] \in Nat,
         \A q \in Processes : after[q][field] = before[q][field] + IF q = pid THEN d ELSE 0
  PROVE  /\ SumOf(before, field) \in Nat
         /\ SumOf(after, field) = SumOf(before, field) + d
<1> DEFINE b == Column(before, field)
           a == Column(after, field)
<1>1. HasMore(b, a, Processes, pid, d)
  BY DEF Column, HasMore
<1>2. UnitAssumptions /\ Unit!IsFiniteSet(Processes)
  BY UnitAssumed DEF UnitAssumptions, Unit!ProcessesAssumption
<1>3. SumOf(before, field) = Unit!FaultsIn(b, Processes)
      /\ SumOf(after, field) = Unit!FaultsIn(a, Processes)
  BY ColumnSum
<1> HIDE DEF a, b
<1>4. /\ Unit!FaultsIn(b, Processes) \in Nat
      /\ Unit!FaultsIn(a, Processes) = Unit!FaultsIn(b, Processes) + d
  BY <1>1, <1>2, UnitSums
<1> QED
  BY <1>3, <1>4

(***************************************************************************)
(* What the statistics and the memory of a run tell of the accesses so     *)
(* far: what is resident has been referenced, every page referenced has    *)
(* faulted at least once, and while all of them fit in memory none of them *)
(* had to leave or faulted again.                                          *)
(***************************************************************************)
Tallied ==
  /\ Len(records) \in Nat
  /\ Total("accesses") = Len(records)
  /\ Total("faults") <= Len(records)
  /\ IsCold(Referenced, Seen(Len(records)), Unit!Resident, Total("faults"))

(* An access of an addressable run loads and counts as it should. *)
LEMMA AccessLoads ==
  ASSUME Mmu!AddressesFit, Registered, phase = "running", Addressable, Unit!PInv,
         NEW process \in Processes, NEW v \in VirtualPages,
         Mmu!Access(process, v * PageSize, FALSE)
  PROVE  LET p == PageOf(process, v)
         IN  /\ Unit!CountedAsTold(process)
             /\ p \in Unit!Resident => Unit!Resident' = Unit!Resident /\ result'.pageFault = FALSE
             /\ p \notin Unit!Resident =>
                  /\ result'.pageFault = TRUE
                  /\ Unit!Resident' \subseteq Unit!Resident \cup {p}
                  /\ \/ Unit!Resident' = Unit!Resident \cup {p}
                     \/ Cardinality(Unit!Resident) = NumFrames
<1> DEFINE a == v * PageSize
           p == PageOf(process, v)
<1>1. UnitAssumptions /\ Unit!AddressesFit /\ NumFrames # 0
  BY UnitAssumed, SizesAssumption
     DEF Mmu!AddressesFit, Unit!AddressesFit, Mmu!Representable, Unit!Representable
<1>2. Unit!Known(process, a)
  BY AccessIsKnown
<1>3. Unit!Resolve(process, a) = p
  BY KnownInRun DEF Mmu!Resolve, Unit!Resolve
<1>4. Unit!Access(process, a, FALSE) /\ a \in {x * PageSize : x \in VirtualPages}
  BY AccessSame, Zenon
<1>5. Unit!Cardinality(Unit!Resident) = Cardinality(Unit!Resident)
  BY DEF Unit!Cardinality, Cardinality
<1> HIDE DEF a, p
<1>6. Unit!CountedAsTold(process)
  BY <1>1, <1>2, <1>4, Unit!KnownAccessCounts, Zenon
     DEF UnitAssumptions, Unit!NumFramesAssumption, Unit!PagesAssumption,
         Unit!NoFrameAssumption, Unit!ProcessesAssumption, Unit!KindsAssumption,
         Unit!ReferencesAssumption, Unit!VirtualPagesAssumption, Unit!AddressesAssumption,
         Unit!DirectAssumption
<1>7. LET q == Unit!Resolve(process, a)
      IN  /\ q \in Unit!Resident => Unit!Resident' = Unit!Resident /\ result'.pageFault = FALSE
          /\ q \notin Unit!Resident =>
               /\ result'.pageFault = TRUE
               /\ Unit!Resident' \subseteq Unit!Resident \cup {q}
               /\ \/ Unit!Resident' = Unit!Resident \cup {q}
                  \/ Unit!Cardinality(Unit!Resident) = NumFrames
  BY <1>1, <1>2, <1>4, Unit!KnownAccessLoads, Zenon
     DEF UnitAssumptions, Unit!NumFramesAssumption, Unit!PagesAssumption,
         Unit!NoFrameAssumption, Unit!ProcessesAssumption, Unit!KindsAssumption,
         Unit!ReferencesAssumption, Unit!VirtualPagesAssumption, Unit!AddressesAssumption,
         Unit!DirectAssumption
<1> QED
  BY <1>3, <1>5, <1>6, <1>7 DEF p

(* One more access of a run goes on as the tally does. *)
LEMMA AccessTallied ==
  ASSUME Mmu!AddressesFit, Registered, RunTyped, Unit!PInv, Tallied, ExecuteAccess
  PROVE  Tallied'
<1> DEFINE n == Len(records)
           d == OneIf(result'.pageFault)
<1>1. PICK process \in Processes, v \in VirtualPages :
        /\ process = program[n + 1].process
        /\ v = program[n + 1].page
        /\ Mmu!Access(process, v * PageSize, FALSE)
        /\ Addressable
  BY StepOfRun, Zenon
<1>2. /\ phase = "running" /\ n \in Nat /\ n < Len(program) /\ program' = program
      /\ Len(records') = n + 1
  BY DEF ExecuteAccess, RunTyped
<1> DEFINE p == PageOf(process, v)
<1>3. /\ Unit!CountedAsTold(process)
      /\ p \in Unit!Resident => Unit!Resident' = Unit!Resident /\ result'.pageFault = FALSE
      /\ p \notin Unit!Resident =>
           /\ result'.pageFault = TRUE
           /\ Unit!Resident' \subseteq Unit!Resident \cup {p}
           /\ \/ Unit!Resident' = Unit!Resident \cup {p}
              \/ Cardinality(Unit!Resident) = NumFrames
  BY <1>1, <1>2, AccessLoads, Zenon
<1>4. procStats \in [Processes -> [accesses : Nat, faults : Nat]]
      /\ procStats' \in [Processes -> [accesses : Nat, faults : Nat]]
  <2>1. Unit!PInv'
    BY <1>1, UnitAccess, Zenon
  <2> QED
    BY <2>1 DEF Unit!PInv, Unit!IInv, Unit!TypeOK
<1>5. /\ d \in {0, 1}
      /\ p \in Unit!Resident => d = 0
      /\ p \notin Unit!Resident => d = 1
      /\ \A q \in Processes :
           /\ procStats'[q]["accesses"] = procStats[q]["accesses"] + IF q = process THEN 1 ELSE 0
           /\ procStats'[q]["faults"] = procStats[q]["faults"] + IF q = process THEN d ELSE 0
  BY <1>3 DEF Unit!CountedAsTold, Unit!OneIf, OneIf
<1>6. Seen(n + 1) = Seen(n) \cup {p} /\ p \in Referenced /\ Seen(n) \subseteq Referenced
  BY <1>1, <1>2, SeenMore
<1> HIDE DEF p, d
<1>7. /\ DOMAIN procStats = Processes /\ DOMAIN procStats' = Processes
      /\ \A q \in Processes : procStats[q]["accesses"] \in Nat /\ procStats[q]["faults"] \in Nat
      /\ d \in Nat /\ 1 \in Nat
  BY <1>4, <1>5
<1>8. ASSUME NEW field \in {"accesses", "faults"}, NEW e \in Nat,
             \A q \in Processes : procStats[q][field] \in Nat,
             \A q \in Processes :
               procStats'[q][field] = procStats[q][field] + IF q = process THEN e ELSE 0
      PROVE  SumOf(procStats', field) = SumOf(procStats, field) + e
  <2>1. Addressable /\ process \in Processes
    BY <1>1

  <2>2. \A before, after :
          /\ DOMAIN before = Processes /\ DOMAIN after = Processes
          /\ \A q \in Processes : before[q][field] \in Nat
          /\ \A q \in Processes :
               after[q][field] = before[q][field] + IF q = process THEN e ELSE 0
          => SumOf(after, field) = SumOf(before, field) + e
    BY <2>1, OneMoreTotalled
  <2> QED
    BY <1>7, <1>8, <2>2
<1>9. SumOf(procStats', "accesses") = SumOf(procStats, "accesses") + 1
      /\ SumOf(procStats', "faults") = SumOf(procStats, "faults") + d
  BY <1>5, <1>7, <1>8
<1>10. Total("accesses")' = Total("accesses") + 1 /\ Total("faults")' = Total("faults") + d
  BY <1>9 DEF Total, SumOf, FoldFunction, FoldFunctionOnSet, MapThenFoldSet
<1>11. IsLoad(Unit!Resident, p, Unit!Resident', d)
  BY <1>3, <1>5 DEF IsLoad
<1>12. IsCold(Referenced, Seen(n + 1), Unit!Resident', Total("faults") + d)
  BY <1>6, <1>11, ColdFaults, ReferencedFinite DEF Tallied
<1>13. Seen(Len(records))' = Seen(n + 1) /\ Referenced' = Referenced
  BY <1>2 DEF Seen, Referenced
<1>14. Total("faults") + d <= n + 1 /\ Total("accesses") = n
  BY <1>2, <1>5 DEF Tallied, IsCold
<1>15. IsCold(Referenced, Seen(Len(records)), Unit!Resident, Total("faults"))'
  BY <1>10, <1>12, <1>13 DEF IsCold
<1> QED
  BY <1>2, <1>10, <1>14, <1>15 DEF Tallied

(* At its start there is nothing to tell. *)
LEMMA EmptyTallied == Addressable /\ EmptyUnit /\ records = <<>> => Tallied
<1> SUFFICES ASSUME Addressable, EmptyUnit, records = <<>> PROVE Tallied
  OBVIOUS
<1>1. Len(records) = 0 /\ Seen(0) = {} /\ Cardinality({}) = 0
  BY FS_EmptySet DEF Seen
<1>2. Unit!Resident = {}
  BY DEF EmptyUnit, Unit!Resident, Mmu!AbsentPage
<1>3. Total("accesses") = 0 /\ Total("faults") = 0
  BY NothingTotalled DEF EmptyUnit, Total, SumOf
<1> QED
  BY <1>1, <1>2, <1>3 DEF Tallied, IsCold

(* The same of the next state. *)
LEMMA EmptyTalliedNext == ASSUME Addressable, EmptyUnit', (records = <<>>)' PROVE Tallied'
<1>1. Addressable'
  BY DEF Addressable
<1> QED
  BY <1>1, EmptyTallied, PTL

(* At its end a run has a row that is true of it. *)
LEMMA TalliedRow ==
  ASSUME RunTyped, Tallied, Len(records) = Len(program), NEW row,
         row.accesses = Total("accesses"), row.faults = Total("faults")
  PROVE  IsTrueRow(row)
<1>1. Seen(Len(program)) = Referenced
  BY DEF Seen, Referenced
<1>2. Len(program) \in Nat /\ Cardinality(Referenced) \in Nat
  BY ReferencedFinite, FS_CardinalityType DEF RunTyped
<1>3. /\ row.accesses = Len(program)
      /\ row.faults \in Nat
      /\ Cardinality(Referenced) <= row.faults /\ row.faults <= Len(program)
      /\ Cardinality(Referenced) <= NumFrames => row.faults = Cardinality(Referenced)
  BY <1>1 DEF Tallied, IsCold
<1> QED
  BY <1>2, <1>3 DEF IsTrueRow

-----------------------------------------------------------------------------
(* The results of a comparison *)

(***************************************************************************)
(* The invariant: the unit of the simulation is one of which everything    *)
(* proved of the unit alone holds, what it did so far is tallied, and what *)
(* was recorded is ranked.                                                 *)
(***************************************************************************)
Tallying ==
  /\ UnitFollows
  /\ phase \in {"idle", "running"} => Refusing
  /\ phase \in {"running", "completed"} => Tallied
  /\ phase = "completed" => Len(records) = Len(program)
  /\ IsRanking(results)

(* A ranking stays one. *)
LEMMA RankingStays ==
  ASSUME UNCHANGED <<results, program>>, IsRanking(results)
  PROVE  IsRanking(results)'
<1>1. /\ Referenced' = Referenced
      /\ \A row : IsTrueRow(row)' <=> IsTrueRow(row)
  BY DEF IsTrueRow, Referenced
<1>2. results' = results
  OBVIOUS
<1> QED
  BY <1>1, <1>2 DEF IsRanking

(* A new object has an empty unit. *)
LEMMA NewUnitFollows ==
  ASSUME NewSimulation, config \in Configurations
  PROVE  UnitFollows
<1> SUFFICES ASSUME Addressable PROVE EmptyUnit
  BY UnitEmpty DEF UnitFollows
<1> QED
  BY DEF NewSimulation, EmptyUnit

(* A comparison begins with nothing to tell. *)
LEMMA InitTallying == ComparisonInit => Tallying
<1> SUFFICES ASSUME ComparisonInit PROVE Tallying
  OBVIOUS
<1>1. config \in Configurations
  BY BenchmarkConfigures DEF ComparisonInit, SupportedPolicies
<1>2. UnitFollows
  BY <1>1, NewUnitFollows DEF ComparisonInit
<1>3. IsRanking(results)
  BY DEF ComparisonInit, IsRanking
<1> QED
  BY <1>2, <1>3 DEF Tallying, ComparisonInit

(* The next simulation is a new one, of a valid configuration. *)
LEMMA ConstructTallies == ComparisonInv /\ Tallying /\ Construct => Tallying'
<1> SUFFICES ASSUME ComparisonInv, Tallying, Construct PROVE Tallying'
  OBVIOUS
<1>1. config' \in Configurations
  <2>1. Len(results) \in Nat /\ Len(results) < Len(SupportedPolicies) /\ benchmark \in Benchmarks
        /\ config' = ConfigurationFor(benchmark, SupportedPolicies[Len(results) + 1])
    BY LenProperties DEF ComparisonInv, Comparing, AreRowsOf, Construct
  <2>2. Len(results) + 1 \in 1 .. Len(SupportedPolicies)
    BY <2>1 DEF SupportedPolicies
  <2> QED
    BY <2>1, <2>2, BenchmarkConfigures
<1>2. UnitFollows'
  <2>1. ASSUME Addressable PROVE EmptyUnit'
    BY <1>1 DEF Construct, EmptyUnit, Mmu!EmptyMemory, Mmu!AbsentPage, Mmu!NoCounts,
                Mmu!NoProcStats, Mmu!NewPolicy
  <2> QED
    BY <2>1, UnitEmptyNext DEF UnitFollows, Addressable
<1>3. /\ phase' \in {"idle", "refused"}
      /\ phase' = "idle" => IsValid(config')
      /\ UNCHANGED <<results, program>>
  BY DEF Construct, Constructed
<1>4. phase' = "idle" => Refusing'
  BY <1>1, <1>3 DEF Refusing, IsValid
<1> QED
  BY <1>2, <1>3, <1>4, RankingStays DEF Tallying

(* What a simulation does is tallied. *)
LEMMA SimulateTallies ==
  Mmu!AddressesFit /\ ComparisonInv /\ Tallying /\ Simulate => Tallying'
<1> SUFFICES ASSUME Mmu!AddressesFit, ComparisonInv, Tallying, Simulate PROVE Tallying'
  OBVIOUS
<1>1. /\ Next
      /\ phase \in {"idle", "running"}
      /\ UNCHANGED <<results, program>>
      /\ reaches = 0
  BY DEF Simulate, Next, StartRun, ExecuteAccess, FinishRun, ComparisonInv, Comparing
<1>2. Refusing /\ Registered /\ RunTyped /\ UnitFollows
  BY <1>1 DEF Tallying, ComparisonInv
<1>3. Refusing' /\ UnitFollows'
  BY <1>1, <1>2, NextRefusing, NextUnitFollows
<1>4. IsRanking(results)'
  BY <1>1, RankingStays DEF Tallying
<1>5. phase' \in {"running", "completed"} => Tallied'
  <2>1. CASE StartRun
    <3> SUFFICES ASSUME phase' = "running" PROVE Tallied'
      BY <2>1 DEF StartRun
    <3>1. Addressable /\ records' = <<>>
      BY <2>1 DEF StartRun, Addressable
    <3>2. EmptyUnit'
      BY <1>2, <2>1, <3>1, StartEmpties
    <3> QED
      BY <3>1, <3>2, EmptyTalliedNext
  <2>2. CASE ExecuteAccess
    <3>1. Unit!PInv /\ Tallied
      BY <1>1, <1>2, <2>2 DEF ExecuteAccess, Registered, UnitFollows, Tallying
    <3> QED
      BY <1>2, <2>2, <3>1, AccessTallied
  <2>3. CASE FinishRun
    <3>1. Tallied /\ UNCHANGED <<records, procStats, program, pages>>
      BY <2>3 DEF FinishRun, Tallying, runVars, mmuVars
    <3> QED
      BY <3>1 DEF Tallied, Total, FoldFunction, FoldFunctionOnSet, MapThenFoldSet, Seen,
                  Referenced, IsCold, Unit!Resident
  <2> QED
    BY <2>1, <2>2, <2>3 DEF Simulate
<1>6. phase' = "completed" => Len(records') = Len(program')
  BY <1>1, Zenon DEF Simulate, StartRun, ExecuteAccess, FinishRun, runVars
<1> QED
  BY <1>3, <1>4, <1>5, <1>6 DEF Tallying

(* What is recorded is what is tallied. *)
LEMMA RecordTallies == ComparisonInv /\ Tallying /\ Record => Tallying'
<1> SUFFICES ASSUME ComparisonInv, Tallying, Record PROVE Tallying'
  OBVIOUS
<1> DEFINE row == [policy |-> config.policy, accesses |-> Total("accesses"),
                   faults |-> Total("faults")]
<1>1. /\ phase = "completed" /\ phase' = "none" /\ results' = Ranked(results, row)
      /\ UNCHANGED <<mmuVars, program, reaches>>
  BY DEF Record
<1>2. UnitFollows'
  BY <1>1, UnitStays DEF Tallying, UnitFollows, Addressable
<1>3. /\ row.policy = SupportedPolicies[Len(results) + 1]
      /\ Len(results) < Len(SupportedPolicies)
  BY <1>1 DEF ComparisonInv, Comparing, ConfigurationFor
<1>4. row.accesses = Total("accesses") /\ row.faults = Total("faults")
  OBVIOUS
<1> HIDE DEF row
<1>5. IsTrueRow(row)
  BY <1>1, <1>4, TalliedRow DEF ComparisonInv, Tallying
<1>6. PICK S : results \in Seq(S)
  BY DEF ComparisonInv, Comparing, AreRowsOf
<1>7. IsRanking(Ranked(results, row))
  BY <1>3, <1>5, <1>6, RankedInOrder DEF Tallying
<1>8. IsRanking(results)'
  <2>1. /\ Referenced' = Referenced
        /\ \A one : IsTrueRow(one)' <=> IsTrueRow(one)
    BY <1>1 DEF IsTrueRow, Referenced
  <2> QED
    BY <1>1, <1>7, <2>1 DEF IsRanking
<1> QED
  BY <1>1, <1>2, <1>8 DEF Tallying

(* So it goes on. *)
LEMMA NextTallying ==
  Mmu!AddressesFit /\ ComparisonInv /\ Tallying /\ [Compare]_comparisonVars => Tallying'
<1> SUFFICES ASSUME Mmu!AddressesFit, ComparisonInv, Tallying, UNCHANGED comparisonVars
             PROVE  Tallying'
  BY ConstructTallies, SimulateTallies, RecordTallies DEF Compare
<1>1. /\ UNCHANGED vars
      /\ UNCHANGED <<results, program, phase, records, procStats, pages, config, reaches>>
      /\ UNCHANGED mmuVars
  BY DEF comparisonVars, vars, mmuVars, runVars
<1>2. UnitFollows'
  BY <1>1, UnitStays DEF Tallying, UnitFollows, Addressable
<1>3. phase' \in {"idle", "running"} => Refusing'
  BY <1>1, NextRefusing DEF Tallying
<1>4. Tallied => Tallied'
  BY <1>1 DEF Tallied, Total, FoldFunction, FoldFunctionOnSet, MapThenFoldSet, Seen,
              Referenced, IsCold, Unit!Resident
<1>5. IsRanking(results)'
  BY <1>1, RankingStays DEF Tallying
<1> QED
  BY <1>1, <1>2, <1>3, <1>4, <1>5 DEF Tallying

(***************************************************************************)
(* Every comparison that returns has a result for each policy, ranked by   *)
(* faults with ties in the order of the policies, all of the same number   *)
(* of accesses, with at least one fault for every page referenced and no   *)
(* more than that when all of them fit in memory, if every frame has       *)
(* representable addresses.                                                *)
(***************************************************************************)
THEOREM ComparableTheorem == Mmu!AddressesFit /\ ComparisonSpec => []ResultsComparable
<1> SUFFICES ASSUME Mmu!AddressesFit PROVE ComparisonSpec => []ResultsComparable
  OBVIOUS
<1>1. ComparisonInit => ComparisonInv /\ Tallying
  BY InitComparing, InitTallying
<1>2. ComparisonInv /\ Tallying /\ [Compare]_comparisonVars => (ComparisonInv /\ Tallying)'
  BY NextComparing, NextTallying
<1>3. ComparisonInv /\ Tallying => ResultsComparable
  BY RankingCompared, Zenon DEF ComparisonInv, Comparing, AreRowsOf, Tallying
<1> QED
  BY <1>1, <1>2, <1>3, PTL DEF ComparisonSpec
=============================================================================
