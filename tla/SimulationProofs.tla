--------------------------- MODULE SimulationProofs -------------------------
(***************************************************************************)
(* The simulation, for every size of memory and every set of               *)
(* configurations: every page a run registers is reached, the activity log *)
(* replays to what is in memory and accounts for every access and every    *)
(* count, and a run that does not start says why.                          *)
(*                                                                         *)
(* The model folds over sequences: the log is replayed, and workloads are  *)
(* put together, event by event and segment by segment.  A fold is the     *)
(* choice of a function over sets of indices, so the lemmas show that the  *)
(* function exists (the smallest set it did not exist for would have a     *)
(* smaller one), and that what each step keeps holds of the whole.         *)
(***************************************************************************)
EXTENDS Simulation, FiniteSetTheorems, WellFoundedInduction, SequenceTheorems, TLAPS
-----------------------------------------------------------------------------
(* Replaying a log *)

(* A set of natural numbers has a least element. *)
LEMMA LeastNatural ==
  ASSUME NEW S \in SUBSET Nat, S # {}
  PROVE  \E x \in S : \A y \in S : x <= y
<1>1. PICK x \in S : \A y \in S : ~(<<y, x>> \in OpToRel(<, Nat))
  BY NatLessThanWellFounded, WFMin
<1>2. \A y \in S : ~(y < x)
  BY <1>1 DEF OpToRel
<1> QED
  BY <1>2

(* What one event of the log says about the frames pages are in. *)
Moved(held, event) ==
  CASE event.type = "FrameAssignment" -> [held EXCEPT ![event.page] = event.frame]
    [] event.type = "PageReplacement" ->
         [held EXCEPT ![event.victim] = NoFrame, ![event.page] = event.frame]
    [] OTHER -> held

(* Before anything is replayed, every page is in no frame. *)
Unplaced == [p \in Pages |-> NoFrame]

(* Replaying a sequence of events; LogReplaysResidency is about the log's. *)
ReplayOf(s) == FoldLeft(Moved, Unplaced, s)

(* The replay of the events at the indices of D. *)
IsReplay(g, s, D) ==
  g = [T \in SUBSET D |->
         IF T = {} THEN Unplaced ELSE Moved(g[T \ {Max(T)}], s[Max(T)])]

(* The largest element of a set of indices up to k that has k. *)
LEMMA LastIndex ==
  ASSUME NEW k \in Nat, NEW T \in SUBSET (1 .. k), k \in T
  PROVE  Max(T) = k
<1>1. \A x \in T : (\A y \in T : x >= y) <=> x = k
  OBVIOUS
<1> QED
  BY <1>1 DEF Max

(* A function that records the steps of a replay exists for any number of  *)
(* events,                                                                 *)
LEMMA ReplayExists ==
  ASSUME NEW s, NEW N \in Nat
  PROVE  \E g : IsReplay(g, s, 1 .. N)
<1> DEFINE K == {k \in 0 .. N : ~\E g : IsReplay(g, s, 1 .. k)}
<1>1. SUFFICES ASSUME K # {} PROVE FALSE
  <2>1. N \in 0 .. N
    OBVIOUS
  <2> QED
    BY <2>1
<1>2. K \in SUBSET Nat
  OBVIOUS
<1>3. PICK m \in K : \A k \in K : m <= k
  BY <1>1, <1>2, LeastNatural
<1>4. m \in 0 .. N /\ ~\E g : IsReplay(g, s, 1 .. m)
  BY <1>3
<1>5. CASE m = 0
  <2> DEFINE g == [T \in SUBSET {} |-> Unplaced]
  <2>1. 1 .. 0 = {}
    OBVIOUS
  <2>2. \A T \in SUBSET {} : T = {}
    OBVIOUS
  <2>3. IsReplay(g, s, 1 .. 0)
    BY <2>1, <2>2 DEF IsReplay
  <2> QED
    BY <1>4, <1>5, <2>3
<1>6. CASE m # 0
  <2>1. m - 1 \in 0 .. N /\ m - 1 \notin K /\ m \in Nat
    BY <1>3, <1>4, <1>6
  <2>2. PICK g : IsReplay(g, s, 1 .. m - 1)
    BY <2>1
  <2>3. \A T \in SUBSET (1 .. m - 1) :
          g[T] = IF T = {} THEN Unplaced ELSE Moved(g[T \ {Max(T)}], s[Max(T)])
    BY <2>2 DEF IsReplay
  <2> DEFINE h == [T \in SUBSET (1 .. m) |->
                     IF m \in T THEN Moved(g[T \ {m}], s[m]) ELSE g[T]]
  <2>4. \A T \in SUBSET (1 .. m) : m \notin T => T \in SUBSET (1 .. m - 1)
    BY <2>1
  <2>5. \A T \in SUBSET (1 .. m) : T \ {m} \in SUBSET (1 .. m - 1) /\ T \ {m} \in SUBSET (1 .. m)
    BY <2>1
  <2>6. \A T \in SUBSET (1 .. m) : m \notin T => h[T] = g[T]
    OBVIOUS
  <2>7. ASSUME NEW T \in SUBSET (1 .. m)
        PROVE  h[T] = IF T = {} THEN Unplaced ELSE Moved(h[T \ {Max(T)}], s[Max(T)])
    <3>1. CASE m \in T
      <4>1. Max(T) = m /\ T # {}
        BY <2>1, <3>1, LastIndex
      <4>2. h[T \ {m}] = g[T \ {m}]
        BY <2>5, <2>6
      <4>3. h[T] = Moved(g[T \ {m}], s[m])
        BY <3>1
      <4> HIDE DEF h
      <4> QED
        BY <4>1, <4>2, <4>3
    <3>2. CASE m \notin T
      <4>1. T \in SUBSET (1 .. m - 1) /\ T \ {Max(T)} \in SUBSET (1 .. m)
            /\ m \notin T \ {Max(T)}
        BY <2>4, <3>2
      <4>2. h[T] = g[T] /\ h[T \ {Max(T)}] = g[T \ {Max(T)}]
        BY <2>6, <3>2, <4>1
      <4> HIDE DEF h
      <4> QED
        BY <2>3, <4>1, <4>2
    <3> QED
      BY <3>1, <3>2
  <2>8. h = [T \in SUBSET (1 .. m) |->
               IF T = {} THEN Unplaced ELSE Moved(h[T \ {Max(T)}], s[Max(T)])]
    <3>1. h = [T \in SUBSET (1 .. m) |-> h[T]]
      OBVIOUS
    <3> HIDE DEF h
    <3> QED
      BY <2>7, <3>1, Zenon
  <2> HIDE DEF h
  <2>9. IsReplay(h, s, 1 .. m)
    BY <2>8 DEF IsReplay
  <2> QED
    BY <1>4, <2>9
<1> QED
  BY <1>5, <1>6

(* The steps of a replay: nowhere at first, and moved by one event after   *)
(* the other.                                                              *)
Steps(w, start, s, N) == w[0] = start /\ \A k \in 1 .. N : w[k] = Moved(w[k - 1], s[k])

(* so the replay takes one event after the other. *)
LEMMA ReplaySteps ==
  ASSUME NEW s, NEW N \in Nat, DOMAIN s = 1 .. N
  PROVE  \E w : Steps(w, Unplaced, s, N) /\ ReplayOf(s) = w[N]
<1> DEFINE g == CHOOSE g : IsReplay(g, s, 1 .. N)
<1>1. IsReplay(g, s, 1 .. N)
  BY ReplayExists
<1>2. ReplayOf(s) = g[1 .. N]
  BY DEF ReplayOf, FoldLeft, MapThenFoldSet, IsReplay
<1> HIDE DEF g
<1>3. \A T \in SUBSET (1 .. N) :
        g[T] = IF T = {} THEN Unplaced ELSE Moved(g[T \ {Max(T)}], s[Max(T)])
  BY <1>1 DEF IsReplay
<1> DEFINE w == [k \in 0 .. N |-> g[1 .. k]]
<1>4. w[0] = Unplaced
  <2>1. 1 .. 0 = {} /\ {} \in SUBSET (1 .. N) /\ 0 \in 0 .. N
    OBVIOUS
  <2>2. g[{}] = Unplaced
    BY <1>3, <2>1
  <2> QED
    BY <2>1, <2>2
<1>5. ASSUME NEW k \in 1 .. N PROVE w[k] = Moved(w[k - 1], s[k])
  <2>1. /\ 1 .. k \in SUBSET (1 .. N) /\ k \in 1 .. k /\ k \in Nat /\ 1 .. k # {}
        /\ (1 .. k) \ {k} = 1 .. k - 1 /\ k - 1 \in 0 .. N
    <3>1. k \in Nat /\ k \in 1 .. k /\ k - 1 \in 0 .. N
      OBVIOUS
    <3>2. \A i : i \in (1 .. k) \ {k} <=> i \in 1 .. k - 1
      OBVIOUS
    <3>3. 1 .. k \in SUBSET (1 .. N)
      OBVIOUS
    <3> QED
      BY <3>1, <3>2, <3>3
  <2>2. Max(1 .. k) = k
    BY <2>1, LastIndex
  <2>3. g[1 .. k] = Moved(g[1 .. k - 1], s[k])
    BY <1>3, <2>1, <2>2
  <2> QED
    BY <2>1, <2>3
<1>6. w[N] = g[1 .. N]
  OBVIOUS
<1> HIDE DEF w
<1> QED
  BY <1>2, <1>4, <1>5, <1>6 DEF Steps

(* Two replays agree as far as the events do. *)
LEMMA StepsAgree ==
  ASSUME NEW v, NEW w, NEW s, NEW t, NEW start, NEW N \in Nat,
         Steps(v, start, s, N), Steps(w, start, t, N),
         \A k \in 1 .. N : s[k] = t[k]
  PROVE  v[N] = w[N]
<1> DEFINE K == {k \in 0 .. N : v[k] # w[k]}
<1>1. SUFFICES ASSUME K # {} PROVE FALSE
  OBVIOUS
<1>2. K \in SUBSET Nat
  OBVIOUS
<1>3. PICK m \in K : \A k \in K : m <= k
  BY <1>1, <1>2, LeastNatural
<1>4. m # 0
  BY <1>3 DEF Steps
<1>5. m \in 1 .. N /\ m - 1 \in 0 .. N /\ m - 1 \notin K
  BY <1>3, <1>4
<1>6. v[m - 1] = w[m - 1]
  BY <1>5
<1> QED
  BY <1>3, <1>5, <1>6 DEF Steps

(* Events recorded after others move pages on from where these put them. *)
LEMMA ReplayOn ==
  ASSUME NEW S, NEW s \in Seq(S), NEW t \in Seq(S)
  PROVE  \E w : Steps(w, ReplayOf(s), t, Len(t)) /\ ReplayOf(s \o t) = w[Len(t)]
<1> DEFINE N == Len(s)
           M == Len(t)
<1>1. N \in Nat /\ M \in Nat /\ DOMAIN s = 1 .. N /\ DOMAIN (s \o t) = 1 .. N + M
      /\ (\A k \in 1 .. N : s[k] = (s \o t)[k])
      /\ (\A k \in 1 .. M : t[k] = (s \o t)[N + k])
  BY ConcatProperties, LenProperties
<1> DEFINE Q == N + M
<1>0. Q \in Nat /\ Q = N + M /\ DOMAIN (s \o t) = 1 .. Q
  BY <1>1
<1> HIDE DEF N, M, Q
<1>2. PICK v : Steps(v, Unplaced, s, N) /\ ReplayOf(s) = v[N]
  BY <1>1, ReplaySteps
<1>3. PICK u : Steps(u, Unplaced, s \o t, Q) /\ ReplayOf(s \o t) = u[Q]
  BY <1>0, ReplaySteps
<1>4. Steps(u, Unplaced, s \o t, N)
  <2>1. \A k \in 1 .. N : k \in 1 .. Q
    BY <1>0, <1>1
  <2> QED
    BY <1>3, <2>1 DEF Steps
<1>5. u[N] = ReplayOf(s)
  BY <1>1, <1>2, <1>4, StepsAgree
<1> DEFINE w == [k \in 0 .. M |-> u[N + k]]
<1>6. w[0] = ReplayOf(s) /\ w[M] = u[Q]
  BY <1>0, <1>1, <1>5
<1>7. ASSUME NEW k \in 1 .. M PROVE w[k] = Moved(w[k - 1], t[k])
  <2>1. N + k \in 1 .. Q /\ (N + k) - 1 = N + (k - 1) /\ k \in 0 .. M /\ k - 1 \in 0 .. M
    BY <1>0, <1>1
  <2>2. u[N + k] = Moved(u[(N + k) - 1], (s \o t)[N + k])
    BY <1>3, <2>1 DEF Steps
  <2> QED
    BY <1>1, <2>1, <2>2
<1> HIDE DEF w
<1>8. Steps(w, ReplayOf(s), t, M)
  BY <1>6, <1>7 DEF Steps
<1> QED
  BY <1>3, <1>6, <1>8 DEF M

(* What every event has. *)
IsEvent(e) == {"type", "sequence", "page", "frame", "victim"} \subseteq DOMAIN e

(* An event that moves no page. *)
IsStill(e) == e.type \notin {"FrameAssignment", "PageReplacement"}

(* Events that say nothing about frames leave the replay where it is. *)
LEMMA StillEvents ==
  ASSUME NEW pid, NEW p
  PROVE  /\ IsEvent(Mmu!Activity!Status(pid, p)) /\ IsStill(Mmu!Activity!Status(pid, p))
         /\ IsEvent(Mmu!Activity!PageFault(pid, p)) /\ IsStill(Mmu!Activity!PageFault(pid, p))
         /\ \A f : /\ IsEvent(Mmu!Activity!DirtyEviction(pid, p, f))
                  /\ IsStill(Mmu!Activity!DirtyEviction(pid, p, f))
         /\ \A f, r : /\ IsEvent(Mmu!Activity!Access(pid, p, f, r))
                     /\ IsStill(Mmu!Activity!Access(pid, p, f, r))
BY DEF IsEvent, IsStill, Mmu!Activity!Status, Mmu!Activity!Access, Mmu!Activity!PageFault,
       Mmu!Activity!DirtyEviction, Mmu!Activity!Event

(* A frame assignment moves one page. *)
LEMMA AssignmentMoves ==
  ASSUME NEW pid, NEW p, NEW f
  PROVE  /\ IsEvent(Mmu!Activity!FrameAssignment(pid, p, f))
         /\ \A held : Moved(held, Mmu!Activity!FrameAssignment(pid, p, f)) = [held EXCEPT ![p] = f]
BY DEF IsEvent, Moved, Mmu!Activity!FrameAssignment, Mmu!Activity!Event

(* A replacement moves the victim out and the requested page in. *)
LEMMA ReplacementMoves ==
  ASSUME NEW pid, NEW p, NEW f, NEW v
  PROVE  /\ IsEvent(Mmu!Activity!PageReplacement(pid, p, f, v))
         /\ \A held : Moved(held, Mmu!Activity!PageReplacement(pid, p, f, v))
                        = [held EXCEPT ![v] = NoFrame, ![p] = f]
BY DEF IsEvent, Moved, Mmu!Activity!PageReplacement, Mmu!Activity!Event

(* An event moves the same pages whatever its number. *)
LEMMA NumberedEvent ==
  ASSUME NEW e, IsEvent(e), NEW n, NEW held
  PROVE  Moved(held, [e EXCEPT !.sequence = n]) = Moved(held, e)
<1> DEFINE d == [e EXCEPT !.sequence = n]
<1>1. d.type = e.type /\ d.page = e.page /\ d.frame = e.frame /\ d.victim = e.victim
  BY DEF IsEvent
<1> HIDE DEF d
<1> QED
  BY <1>1 DEF Moved

(* One event that says nothing about frames. *)
LEMMA StillEvent ==
  ASSUME NEW e, IsStill(e), NEW held PROVE Moved(held, e) = held
BY DEF IsStill, Moved

(* A log that is attached and has a list of events. *)
IsLog(l) ==
  /\ l = [attached |-> TRUE, events |-> l.events, next |-> l.next]
  /\ l.next = Len(l.events)
  /\ \E S : l.events \in Seq(S)

(* Recording is appending. *)
LEMMA Recording ==
  ASSUME NEW l, IsLog(l), NEW E, NEW es \in Seq(E), \A i \in 1 .. Len(es) : IsEvent(es[i]),
         NEW k, k = Mmu!Activity!RecordAll(l, es)
  PROVE  /\ IsLog(k)
         /\ \E w : Steps(w, ReplayOf(l.events), es, Len(es)) /\ ReplayOf(k.events) = w[Len(es)]
<1> DEFINE n == Len(es)
           t == [i \in 1 .. n |-> [es[i] EXCEPT !.sequence = l.next + i - 1]]
<1>1. PICK S : l.events \in Seq(S)
  BY DEF IsLog
<1>2. n \in Nat /\ DOMAIN t = 1 .. n
  OBVIOUS
<1>3. k = [attached |-> TRUE, events |-> l.events \o t, next |-> l.next + n]
  <2>1. l.attached = TRUE /\ l = [attached |-> TRUE, events |-> l.events, next |-> l.next]
    BY DEF IsLog
  <2>2. k = [l EXCEPT !.events = l.events \o t, !.next = l.next + n]
    BY <2>1 DEF Mmu!Activity!RecordAll
  <2> HIDE DEF t, n
  <2> QED
    BY <2>1, <2>2
<1> DEFINE T == S \cup {t[i] : i \in 1 .. n}
<1>4. l.events \in Seq(T) /\ t \in Seq(T) /\ Len(t) = n
  <2>1. l.events \in Seq(T)
    <3>1. \A i \in 1 .. Len(l.events) : l.events[i] \in T
      BY <1>1, ElementOfSeq
    <3>2. l.events = [i \in 1 .. Len(l.events) |-> l.events[i]] /\ Len(l.events) \in Nat
      BY <1>1
    <3> HIDE DEF T
    <3> QED
      BY <3>1, <3>2
  <2>2. t \in Seq(T)
    <3>1. t = [i \in 1 .. n |-> t[i]]
      OBVIOUS
    <3> HIDE DEF t
    <3>2. \A i \in 1 .. n : t[i] \in T
      OBVIOUS
    <3> HIDE DEF T
    <3>3. [i \in 1 .. n |-> t[i]] \in [1 .. n -> T]
      BY <3>2
    <3> QED
      BY <1>2, <3>1, <3>3
  <2>3. Len(t) = n
    BY <1>2, <2>2, LenProperties
  <2> QED
    BY <2>1, <2>2, <2>3
<1>5. IsLog(k)
  <2> HIDE DEF t, n, T
  <2>1. l.events \o t \in Seq(T) /\ Len(l.events \o t) = Len(l.events) + n
    BY <1>4, ConcatProperties
  <2> QED
    BY <1>3, <2>1 DEF IsLog
<1>6. PICK w : Steps(w, ReplayOf(l.events), t, n) /\ ReplayOf(l.events \o t) = w[n]
  <2> HIDE DEF t, n, T
  <2> QED
    BY <1>4, ReplayOn
<1>7. Steps(w, ReplayOf(l.events), es, n)
  <2>1. \A i \in 1 .. n : \A held : Moved(held, t[i]) = Moved(held, es[i])
    BY NumberedEvent
  <2> HIDE DEF t, n
  <2> QED
    BY <1>6, <2>1 DEF Steps
<1> HIDE DEF t
<1> QED
  BY <1>3, <1>5, <1>6, <1>7

(* What an access reports before it ends. *)
LEMMA Reporting ==
  ASSUME IsLog(log), NEW pid, NEW p, NEW E, NEW es \in Seq(E), NEW f,
         \A i \in 1 .. Len(es) : IsEvent(es[i]),
         Mmu!Reports(pid, p, es, f)
  PROVE  /\ IsLog(log')
         /\ \E w : Steps(w, ReplayOf(log.events), es, Len(es)) /\ ReplayOf(log'.events) = w[Len(es)]
<1> DEFINE first == Mmu!Activity!Status(pid, p)
           last  == Mmu!Activity!Access(pid, p, f, result')
           all   == <<first>> \o es \o <<last>>
           n     == Len(es)
           F     == E \cup {first, last}
<1>0. /\ IsEvent(first) /\ IsStill(first)
      /\ IsEvent(last) /\ IsStill(last)
  BY StillEvents
<1>1. log' = Mmu!Activity!RecordAll(log, all)
  BY DEF Mmu!Reports
<1> HIDE DEF first, last
<1>2. es \in Seq(F) /\ n \in Nat
  OBVIOUS
<1>3. /\ all \in Seq(F) /\ Len(all) = n + 2
      /\ all[1] = first /\ all[n + 2] = last
      /\ \A i \in 1 .. n : all[i + 1] = es[i]
  <2>1. <<first>> \in Seq(F) /\ <<last>> \in Seq(F) /\ Len(<<first>>) = 1 /\ Len(<<last>>) = 1
        /\ <<first>>[1] = first /\ <<last>>[1] = last
    OBVIOUS
  <2> DEFINE b == <<first>> \o es
  <2>2. b \in Seq(F) /\ Len(b) = n + 1 /\ b[1] = first /\ \A i \in 1 .. n : b[i + 1] = es[i]
    <3> HIDE DEF F
    <3>1. b \in Seq(F) /\ Len(b) = 1 + n
      BY <1>2, <2>1, ConcatProperties
    <3>2. \A i \in 1 .. 1 + n : b[i] = IF i <= 1 THEN <<first>>[i] ELSE es[i - 1]
      BY <1>2, <2>1, ConcatProperties
    <3>3. b[1] = first
      BY <1>2, <2>1, <3>2
    <3>4. \A i \in 1 .. n : i + 1 \in 1 .. 1 + n /\ ~(i + 1 <= 1) /\ (i + 1) - 1 = i
      BY <1>2
    <3>5. \A i \in 1 .. n : b[i + 1] = es[i]
      BY <3>2, <3>4
    <3> HIDE DEF b, n
    <3> QED
      BY <1>2, <3>1, <3>3, <3>5
  <2> HIDE DEF b, F, n
  <2>3. all = b \o <<last>>
    BY DEF b
  <2>4. all \in Seq(F) /\ Len(all) = n + 2
        /\ \A i \in 1 .. n + 2 : all[i] = IF i <= n + 1 THEN b[i] ELSE <<last>>[i - (n + 1)]
    BY <1>2, <2>1, <2>2, <2>3, ConcatProperties
  <2> HIDE DEF all
  <2>5. all[1] = first
    BY <1>2, <2>2, <2>4
  <2>6. all[n + 2] = last
    <3>1. n + 2 \in 1 .. n + 2 /\ ~(n + 2 <= n + 1) /\ (n + 2) - (n + 1) = 1
      BY <1>2
    <3> QED
      BY <2>1, <2>4, <3>1
  <2>7. \A i \in 1 .. n : all[i + 1] = es[i]
    <3>1. \A i \in 1 .. n : i + 1 \in 1 .. n + 2 /\ i + 1 <= n + 1
      BY <1>2
    <3> QED
      BY <2>2, <2>4, <3>1
  <2> QED
    BY <2>4, <2>5, <2>6, <2>7
<1> HIDE DEF all, F
<1>4. \A i \in 1 .. Len(all) : IsEvent(all[i])
  <2> SUFFICES ASSUME NEW i \in 1 .. n + 2 PROVE IsEvent(all[i])
    BY <1>3
  <2>1. i = 1 \/ i = n + 2 \/ (i - 1 \in 1 .. n /\ i = (i - 1) + 1)
    BY <1>2
  <2> QED
    BY <1>0, <1>3, <2>1
<1>5. IsLog(log') /\ \E w : /\ Steps(w, ReplayOf(log.events), all, Len(all))
                           /\ ReplayOf(log'.events) = w[Len(all)]
  BY <1>1, <1>3, <1>4, Recording
<1>6. PICK u : Steps(u, ReplayOf(log.events), all, n + 2) /\ ReplayOf(log'.events) = u[n + 2]
  BY <1>3, <1>5
<1> HIDE DEF n
<1>7. u[0] = ReplayOf(log.events) /\ \A i \in 1 .. n + 2 : u[i] = Moved(u[i - 1], all[i])
  BY <1>6 DEF Steps
<1>8. u[1] = u[0]
  <2>1. 1 \in 1 .. n + 2 /\ 1 - 1 = 0
    BY <1>2
  <2>2. u[1] = Moved(u[0], first)
    BY <1>3, <1>7, <2>1
  <2> QED
    BY <1>0, <2>2, StillEvent
<1>9. u[n + 2] = u[n + 1]
  <2>1. n + 2 \in 1 .. n + 2 /\ (n + 2) - 1 = n + 1
    BY <1>2
  <2> QED
    BY <1>0, <1>3, <1>7, <2>1, StillEvent
<1> DEFINE w == [i \in 0 .. n |-> u[i + 1]]
<1>10. w[0] = ReplayOf(log.events) /\ w[n] = u[n + 1]
  BY <1>2, <1>7, <1>8
<1>11. ASSUME NEW i \in 1 .. n PROVE w[i] = Moved(w[i - 1], es[i])
  <2>1. /\ i + 1 \in 1 .. n + 2 /\ (i + 1) - 1 = i
        /\ i \in 0 .. n /\ i - 1 \in 0 .. n /\ (i - 1) + 1 = i
    BY <1>2
  <2> QED
    BY <1>3, <1>7, <2>1
<1> HIDE DEF w
<1>12. Steps(w, ReplayOf(log.events), es, n)
  BY <1>10, <1>11 DEF Steps
<1>13. ReplayOf(log'.events) = w[n]
  BY <1>6, <1>9, <1>10
<1> QED
  BY <1>5, <1>12, <1>13 DEF n

-----------------------------------------------------------------------------
(* What an access tells the log *)

(* Three events, written as a report writes them. *)
LEMMA Triple == ASSUME NEW a, NEW b, NEW c PROVE <<a, b>> \o <<c>> = <<a, b, c>>
<1> DEFINE S == {a, b, c}
           t == <<a, b>> \o <<c>>
<1>1. <<a, b>> \in Seq(S) /\ <<c>> \in Seq(S) /\ Len(<<a, b>>) = 2 /\ Len(<<c>>) = 1
  OBVIOUS
<1>2. t \in Seq(S) /\ Len(t) = 3
  BY <1>1, ConcatProperties
<1>3. t[1] = a /\ t[2] = b /\ t[3] = c
  <2>1. \A i \in 1 .. 3 : t[i] = IF i <= 2 THEN <<a, b>>[i] ELSE <<c>>[i - 2]
    BY <1>1, ConcatProperties
  <2> HIDE DEF t
  <2>2. t[1] = <<a, b>>[1] /\ t[2] = <<a, b>>[2] /\ t[3] = <<c>>[1]
    BY <2>1
  <2> QED
    BY <2>2
<1> HIDE DEF t, S
<1>4. t = <<t[1], t[2], t[3]>>
  BY <1>2
<1> QED
  BY <1>3, <1>4 DEF t

(* Where the pages are, by their objects. *)
Held == [p \in Pages |-> pages[p].frame]

(* pages is a function of the pages. *)
ArePages == pages = [p \in Pages |-> pages[p]]

(* The log tells the residency. *)
Telling ==
  /\ IsLog(log)
  /\ ArePages
  /\ ReplayOf(log.events) = Held

(* The invariant is as strong as the property. *)
LEMMA TellingReplays == Telling => LogReplaysResidency
<1>1. Replayed = ReplayOf(log.events)
  BY DEF Replayed, ReplayOf, Moved, Unplaced, FoldLeft, MapThenFoldSet
<1> QED
  BY <1>1 DEF Telling, LogReplaysResidency, Held

(* An access that moves no page reports no move. *)
LEMMA StillAccess ==
  ASSUME Telling, NEW pid, NEW p, NEW f, NEW E, NEW es \in Seq(E),
         \A i \in 1 .. Len(es) : IsEvent(es[i]) /\ IsStill(es[i]),
         Mmu!Reports(pid, p, es, f), ArePages', Held' = Held, Len(es) \in {0, 1}
  PROVE  Telling'
<1>1. IsLog(log') /\ \E w : /\ Steps(w, ReplayOf(log.events), es, Len(es))
                           /\ ReplayOf(log'.events) = w[Len(es)]
  BY Reporting DEF Telling
<1>2. PICK w : Steps(w, ReplayOf(log.events), es, Len(es)) /\ ReplayOf(log'.events) = w[Len(es)]
  BY <1>1
<1>3. w[Len(es)] = ReplayOf(log.events)
  <2>1. CASE Len(es) = 0
    BY <1>2, <2>1 DEF Steps
  <2>2. CASE Len(es) = 1
    BY <1>2, <2>2, StillEvent DEF Steps
  <2> QED
    BY <2>1, <2>2
<1> QED
  BY <1>1, <1>2, <1>3 DEF Telling

(* A fault served from a free frame is told by a frame assignment. *)
LEMMA LoadTold ==
  ASSUME Telling, NEW pid, NEW p, NEW a, Mmu!FaultWithFreeFrame(pid, p, a, FALSE)
  PROVE  Telling'
<1> DEFINE f == Mmu!MapPage(mem, p).table[p]
           fault == Mmu!Activity!PageFault(pid, p)
           assignment == Mmu!Activity!FrameAssignment(pid, p, f)
           es == <<fault, assignment>>
           r == Mmu!Touched(pages[p], f, FALSE)
<1>1. /\ Mmu!Reports(pid, p, es, f)
      /\ pages' = [pages EXCEPT ![p] = r]
  BY DEF Mmu!FaultWithFreeFrame
<1>2. r.frame = f
  BY DEF Mmu!Touched
<1>3. /\ IsEvent(fault) /\ IsStill(fault) /\ IsEvent(assignment)
      /\ Moved(Held, assignment) = [Held EXCEPT ![p] = f]
  <2> HIDE DEF f
  <2> QED
    BY StillEvents, AssignmentMoves
<1> HIDE DEF f, fault, assignment, r
<1>4. es \in Seq({fault, assignment}) /\ Len(es) = 2 /\ es[1] = fault /\ es[2] = assignment
  OBVIOUS
<1> HIDE DEF es
<1>5. \A i \in 1 .. Len(es) : IsEvent(es[i])
  BY <1>3, <1>4
<1>6. IsLog(log') /\ \E w : /\ Steps(w, ReplayOf(log.events), es, Len(es))
                           /\ ReplayOf(log'.events) = w[Len(es)]
  BY <1>1, <1>4, <1>5, Reporting DEF Telling
<1>7. PICK w : Steps(w, ReplayOf(log.events), es, 2) /\ ReplayOf(log'.events) = w[2]
  BY <1>4, <1>6
<1>8. w[1] = Held
  BY <1>3, <1>4, <1>7, StillEvent DEF Steps, Telling
<1>9. w[2] = [Held EXCEPT ![p] = f]
  <2>1. 2 \in 1 .. 2 /\ 2 - 1 = 1
    OBVIOUS
  <2>2. w[2] = Moved(w[1], es[2])
    BY <1>7, <2>1 DEF Steps
  <2> QED
    BY <1>3, <1>4, <1>8, <2>2
<1>10. ArePages' /\ Held' = [Held EXCEPT ![p] = f]
  BY <1>1, <1>2 DEF Telling, ArePages, Held
<1> QED
  BY <1>6, <1>7, <1>9, <1>10 DEF Telling

(* A replacement is told as one, whether or not a dirty eviction follows. *)
LEMMA ReplacementTold ==
  ASSUME Telling, NEW pid, NEW p, NEW a, Mmu!FaultWithReplacement(pid, p, a, FALSE)
  PROVE  Telling'
<1> DEFINE f == Mmu!Victim(pol)
           v == mem.frames[f]
           d == pages[v].dirty
           fault == Mmu!Activity!PageFault(pid, p)
           replacement == Mmu!Activity!PageReplacement(pid, p, f, v)
           eviction == Mmu!Activity!DirtyEviction(pid, v, f)
           es == Mmu!ReplacementEvents(pid, p, v, f, d)
           E == {fault, replacement, eviction}
<1>1. /\ Mmu!Reports(pid, p, es, f)
      /\ pages' = [pages EXCEPT ![v] = Mmu!AbsentPage, ![p] = Mmu!Touched(@, f, FALSE)]
  BY DEF Mmu!FaultWithReplacement
<1>2. /\ IsEvent(fault) /\ IsStill(fault) /\ IsEvent(replacement)
      /\ IsEvent(eviction) /\ IsStill(eviction)
      /\ Moved(Held, replacement) = [Held EXCEPT ![v] = NoFrame, ![p] = f]
  <2> HIDE DEF f, v, d
  <2>1. IsEvent(fault) /\ IsStill(fault) /\ IsEvent(eviction) /\ IsStill(eviction)
    BY StillEvents
  <2>2. IsEvent(replacement) /\ Moved(Held, replacement) = [Held EXCEPT ![v] = NoFrame, ![p] = f]
    BY ReplacementMoves
  <2> QED
    BY <2>1, <2>2
<1>3. ArePages' /\ Held' = [Held EXCEPT ![v] = NoFrame, ![p] = f]
  <2> HIDE DEF f, v
  <2> QED
    BY <1>1 DEF Telling, ArePages, Held, Mmu!Touched, Mmu!AbsentPage
<1>4. es = <<fault, replacement>> \o (IF d THEN <<eviction>> ELSE <<>>)
  BY DEF Mmu!ReplacementEvents
<1> HIDE DEF f, v, d, fault, replacement, eviction
<1>5. /\ es \in Seq(E) /\ Len(es) \in {2, 3} /\ es[1] = fault /\ es[2] = replacement
      /\ Len(es) = 3 => es[3] = eviction
  <2>1. CASE d
    <3>1. es = <<fault, replacement>> \o <<eviction>>
      BY <1>4, <2>1
    <3> HIDE DEF es
    <3>2. es = <<fault, replacement, eviction>>
      BY <3>1, Triple
    <3> QED
      BY <3>2
  <2>2. CASE ~d
    <3>1. es = <<fault, replacement>> \o <<>>
      BY <1>4, <2>2
    <3> HIDE DEF es
    <3>2. es = <<fault, replacement>>
      BY <3>1
    <3> QED
      BY <3>2
  <2> QED
    BY <2>1, <2>2
<1> HIDE DEF es, E
<1>6. \A i \in 1 .. Len(es) : IsEvent(es[i])
  BY <1>2, <1>5
<1>7. IsLog(log') /\ \E w : /\ Steps(w, ReplayOf(log.events), es, Len(es))
                           /\ ReplayOf(log'.events) = w[Len(es)]
  BY <1>1, <1>5, <1>6, Reporting DEF Telling
<1>8. PICK w : Steps(w, ReplayOf(log.events), es, Len(es)) /\ ReplayOf(log'.events) = w[Len(es)]
  BY <1>7
<1>9. w[0] = Held /\ \A i \in 1 .. Len(es) : w[i] = Moved(w[i - 1], es[i])
  BY <1>8 DEF Steps, Telling
<1>10. w[1] = Held
  BY <1>2, <1>5, <1>9, StillEvent
<1>11. w[2] = [Held EXCEPT ![v] = NoFrame, ![p] = f]
  <2>1. 2 \in 1 .. Len(es) /\ 2 - 1 = 1
    BY <1>5
  <2>2. w[2] = Moved(w[1], es[2])
    BY <1>9, <2>1
  <2> QED
    BY <1>2, <1>5, <1>10, <2>2
<1>12. w[Len(es)] = w[2]
  BY <1>2, <1>5, <1>9, StillEvent
<1> QED
  BY <1>3, <1>7, <1>8, <1>11, <1>12 DEF Telling

(* Whatever an access does is told. *)
LEMMA AccessTold ==
  ASSUME Telling, NEW pid, NEW a, Mmu!Access(pid, a, FALSE)
  PROVE  Telling'
<1> DEFINE q == Mmu!Resolve(pid, a)
           fault == Mmu!Activity!PageFault(pid, q)
<1>1. IsEvent(fault) /\ IsStill(fault)
  BY StillEvents
<1>2. <<>> \in Seq({fault}) /\ Len(<<>>) = 0 /\ <<fault>> \in Seq({fault})
      /\ Len(<<fault>>) = 1 /\ <<fault>>[1] = fault
  <2> HIDE DEF fault
  <2> QED
    OBVIOUS
<1>3. /\ \A i \in 1 .. Len(<<>>) : IsEvent(<<>>[i]) /\ IsStill(<<>>[i])
      /\ \A i \in 1 .. Len(<<fault>>) : IsEvent(<<fault>>[i]) /\ IsStill(<<fault>>[i])
  <2> HIDE DEF fault
  <2> QED
    BY <1>1, <1>2
<1>4. UNCHANGED pages => ArePages' /\ Held' = Held
  BY DEF Telling, ArePages, Held
<1>5. CASE Mmu!AccessUnknown(pid, a)
  <2> DEFINE p == IF q \in Mmu!registered THEN q ELSE Mmu!UnknownPage
             first == Mmu!Activity!Status(pid, q)
             last == Mmu!Activity!Access(pid, p, NoFrame, Mmu!Failure)
             es == <<first, last>>
  <2>1. log' = Mmu!Activity!RecordAll(log, es) /\ UNCHANGED pages
    BY <1>5 DEF Mmu!AccessUnknown
  <2>2. IsEvent(first) /\ IsStill(first) /\ IsEvent(last) /\ IsStill(last)
    BY StillEvents
  <2> HIDE DEF first, last
  <2>3. es \in Seq({first, last}) /\ Len(es) = 2 /\ es[1] = first /\ es[2] = last
    OBVIOUS
  <2> HIDE DEF es
  <2>4. \A i \in 1 .. Len(es) : IsEvent(es[i])
    BY <2>2, <2>3
  <2>5. IsLog(log') /\ \E w : /\ Steps(w, ReplayOf(log.events), es, Len(es))
                             /\ ReplayOf(log'.events) = w[Len(es)]
    BY <2>1, <2>3, <2>4, Recording DEF Telling
  <2>6. PICK w : Steps(w, ReplayOf(log.events), es, 2) /\ ReplayOf(log'.events) = w[2]
    BY <2>3, <2>5
  <2>7. w[2] = ReplayOf(log.events)
    BY <2>2, <2>3, <2>6, StillEvent DEF Steps
  <2> QED
    BY <1>4, <2>1, <2>5, <2>6, <2>7 DEF Telling
<1>6. CASE Mmu!AccessResident(pid, q, a, FALSE)
  <2>1. /\ Mmu!Reports(pid, q, <<>>, mem.table[q])
        /\ pages[q].frame = mem.table[q]
        /\ pages' = [pages EXCEPT ![q] = Mmu!Touched(@, mem.table[q], FALSE)]
    BY <1>6 DEF Mmu!AccessResident
  <2>2. ArePages' /\ Held' = Held
    <3> HIDE DEF q
    <3> QED
      BY <2>1 DEF Telling, ArePages, Held, Mmu!Touched
  <2> QED
    BY <1>2, <1>3, <2>1, <2>2, StillAccess
<1>7. CASE Mmu!AccessInconsistent(pid, q) \/ Mmu!FaultRefused(pid, q)
  <2>1. UNCHANGED pages /\ \E f : Mmu!Reports(pid, q, <<>>, f)
    BY <1>7 DEF Mmu!AccessInconsistent, Mmu!FaultRefused
  <2> QED
    BY <1>2, <1>3, <1>4, <2>1, StillAccess
<1>8. CASE Mmu!FaultWithoutVictim(pid, q) \/ Mmu!FaultRefusesVictim(pid, q, a)
  <2>1. UNCHANGED pages /\ Mmu!Reports(pid, q, <<fault>>, NoFrame)
    BY <1>8 DEF Mmu!FaultWithoutVictim, Mmu!FaultRefusesVictim
  <2> HIDE DEF fault
  <2> QED
    BY <1>2, <1>3, <1>4, <2>1, StillAccess
<1>9. CASE Mmu!FaultWithFreeFrame(pid, q, a, FALSE)
  BY <1>9, LoadTold
<1>10. CASE Mmu!FaultWithReplacement(pid, q, a, FALSE)
  BY <1>10, ReplacementTold
<1> QED
  BY <1>5, <1>6, <1>7, <1>8, <1>9, <1>10 DEF Mmu!Access, Mmu!AccessKnown

-----------------------------------------------------------------------------
(* What a run registers *)

(* The address space of a process can be created. *)
Addressable == Manager!IsAddressSpace(PageCount, PageSize)

(* The process a page belongs to exists. *)
LEMMA OwnersExist == \A p \in Pages : OwnerIndex(p) \in Processes
<1> SUFFICES ASSUME NEW p \in Pages PROVE OwnerIndex(p) \in Processes
  OBVIOUS
<1> DEFINE q == (p - 1) \div PageCount
           all == ProcessCount * PageCount
<1>1. PageCount \in Nat \ {0} /\ ProcessCount \in Nat \ {0}
  BY CountsAssumption
<1>2. all \in Nat /\ p \in Nat /\ 1 <= p /\ p <= all
  BY <1>1 DEF Pages
<1>3. q \in Nat /\ q * PageCount <= p - 1
  <2>1. p - 1 \in Nat
    BY <1>2
  <2> QED
    BY <1>1, <2>1
<1> HIDE DEF q
<1>4. ASSUME q >= ProcessCount PROVE FALSE
  <2> DEFINE d == q - ProcessCount
  <2>1. d \in Nat /\ q = ProcessCount + d
    BY <1>1, <1>3, <1>4
  <2> HIDE DEF d
  <2>2. q * PageCount = all + d * PageCount /\ d * PageCount \in Nat
    BY <1>1, <2>1
  <2> HIDE DEF all
  <2>3. q * PageCount >= all
    BY <1>2, <2>2
  <2> QED
    BY <1>1, <1>2, <1>3, <2>3
<1> QED
  BY <1>1, <1>3, <1>4 DEF OwnerIndex, Processes, q

(* Registration is refused to no page. *)
LEMMA ClearedAccepts ==
  ASSUME NEW m, "table" \in DOMAIN m
  PROVE  "table" \in DOMAIN Cleared(m) /\ Accepted(Cleared(m)) = Pages
BY NothingAssumption
   DEF Accepted, Cleared, Mmu!ClearPhysicalMemory, Mmu!ClearPageTable, Mmu!IsMapped,
       Mmu!IsPageMapped, Mmu!FramesHolding, Mmu!Frames

(* What a run registers, as long as it runs. *)
Registered ==
  /\ "table" \in DOMAIN mem
  /\ phase = "running" =>
       /\ Addressable
       /\ IsConstructible(config)
       /\ owner = [p \in Pages |-> OwnerIndex(p)]
       /\ vmap = [process \in Processes |-> [v \in VirtualPages |-> PageOf(process, v)]]

(* Every virtual page of every process has a page. *)
LEMMA PagesReached == ASSUME NEW process \in Processes, NEW v \in VirtualPages
                      PROVE PageOf(process, v) \in Pages
<1>1. PageCount \in Nat \ {0} /\ ProcessCount \in Nat \ {0}
  BY CountsAssumption
<1>2. process - 1 \in Nat /\ process \in Nat /\ v \in Nat /\ v < PageCount
  BY <1>1 DEF Processes, VirtualPages
<1> DEFINE d == ProcessCount - process
<1>3. d \in Nat /\ ProcessCount = (process - 1) + 1 + d
  BY <1>1 DEF Processes
<1> HIDE DEF d
<1> DEFINE a == (process - 1) * PageCount
           b == d * PageCount
           all == ProcessCount * PageCount
<1>4. a \in Nat /\ b \in Nat /\ all = a + PageCount + b
  BY <1>1, <1>2, <1>3
<1>5. PageOf(process, v) = a + v + 1
  BY DEF PageOf
<1> HIDE DEF a, b, all
<1> QED
  BY <1>1, <1>2, <1>4, <1>5 DEF Pages, all

(* A run registers every page for its process, under its virtual page. *)
LEMMA StartOwners ==
  ASSUME Registered, StartRun, Addressable
  PROVE  /\ owner' = [p \in Pages |-> OwnerIndex(p)]
         /\ vmap' = [process \in Processes |-> [v \in VirtualPages |-> PageOf(process, v)]]
<1> DEFINE created == Manager!CreateProcesses(Manager!Clear(manager), ProcessCount,
                                              PageCount, PageSize)
<1>1. Accepted(mem') = Pages
  BY ClearedAccepts DEF StartRun, Registered
<1>2. Manager!Clear(manager).next = 1 /\ created.processes = Processes
  BY CountsAssumption
     DEF Addressable, Manager!CreateProcesses, Manager!Clear, Manager!NewManager, Processes
<1>3. Processes # {}
  BY CountsAssumption DEF Processes
<1> HIDE DEF created
<1>4. owner' = [p \in Pages |-> 1 + OwnerIndex(p) - 1]
  BY <1>1, <1>2, <1>3 DEF StartRun, created
<1>5. \A p \in Pages : 1 + OwnerIndex(p) - 1 = OwnerIndex(p)
  BY OwnersExist, CountsAssumption DEF Processes
<1>6. vmap' = [process \in Processes |-> [v \in VirtualPages |->
                LET p == PageOf(process - 1 + 1, v)
                IN  IF process \in Processes /\ p \in Pages THEN p ELSE NoPage]]
  BY <1>1, <1>2 DEF StartRun, created
<1>7. \A process \in Processes : process - 1 + 1 = process
  BY CountsAssumption DEF Processes
<1>8. vmap' = [process \in Processes |-> [v \in VirtualPages |-> PageOf(process, v)]]
  BY <1>6, <1>7, PagesReached
<1> QED
  BY <1>4, <1>5, <1>8

(* A run that starts has registered everything. *)
LEMMA StartRegisters == Registered /\ StartRun => Registered'
<1> SUFFICES ASSUME Registered, StartRun PROVE Registered'
  OBVIOUS
<1>1. config' = config /\ (phase' = "running" => Addressable /\ IsConstructible(config))
  BY DEF StartRun, Addressable
<1>2. "table" \in DOMAIN mem'
  BY ClearedAccepts DEF StartRun, Registered
<1> QED
  BY <1>1, <1>2, StartOwners DEF Registered, Addressable, Manager!IsAddressSpace, IsConstructible

(* No operation on the memory takes the page table away. *)
LEMMA TablesStay ==
  ASSUME NEW m, "table" \in DOMAIN m
  PROVE  /\ \A p : "table" \in DOMAIN Mmu!MapPage(m, p)
         /\ \A f : "table" \in DOMAIN Mmu!ReleaseFrame(m, f)
         /\ \A p : "table" \in DOMAIN Mmu!AllocateFrame(m, p)
         /\ \A f : "table" \in DOMAIN Mmu!ReleasePhysicalFrame(m, f)
         /\ "table" \in DOMAIN Mmu!ClearPhysicalMemory(m)
BY DEF Mmu!MapPage, Mmu!MapEntry, Mmu!AllocateFrame, Mmu!ReleaseFrame, Mmu!ReleasePhysicalFrame,
       Mmu!UnmapEntry, Mmu!ClearPhysicalMemory

(* An access changes neither owners nor virtual pages. *)
LEMMA AccessRegistersNothing ==
  ASSUME NEW pid, NEW a, Mmu!Access(pid, a, FALSE), "table" \in DOMAIN mem
  PROVE  UNCHANGED <<owner, vmap>> /\ "table" \in DOMAIN mem'
BY TablesStay
   DEF Mmu!Access, Mmu!AccessUnknown, Mmu!AccessKnown, Mmu!AccessResident, Mmu!AccessInconsistent,
       Mmu!FaultRefused, Mmu!FaultWithFreeFrame, Mmu!FaultWithoutVictim, Mmu!FaultRefusesVictim,
       Mmu!FaultWithReplacement

(* A new simulation is not running. *)
LEMMA InitRegistered == Init => Registered
BY DEF Init, Registered, NewSimulation, Mmu!EmptyMemory

(* What is registered stays, until the next run registers it anew. *)
LEMMA NextRegistered == Registered /\ [Next]_vars => Registered'
<1> SUFFICES ASSUME Registered, [Next]_vars PROVE Registered'
  OBVIOUS
<1>1. CASE StartRun
  BY <1>1, StartRegisters
<1>2. CASE ExecuteAccess
  <2>1. UNCHANGED <<config, phase, owner, vmap>> /\ "table" \in DOMAIN mem'
    BY <1>2, AccessRegistersNothing DEF ExecuteAccess, Registered
  <2> QED
    BY <2>1 DEF Registered, Addressable, Manager!IsAddressSpace, IsConstructible
<1>3. CASE FinishRun \/ CallbackThrows
  BY <1>3 DEF FinishRun, CallbackThrows, Registered, mmuVars
<1>4. CASE ReachPhysicalMemory \/ UNCHANGED vars
  <2>1. UNCHANGED <<config, phase, owner, vmap>> /\ "table" \in DOMAIN mem'
    BY <1>4, TablesStay DEF ReachPhysicalMemory, PhysicalMemoryCalls, vars, mmuVars, Registered
  <2> QED
    BY <2>1 DEF Registered, Addressable, Manager!IsAddressSpace, IsConstructible
<1> QED
  BY <1>1, <1>2, <1>3, <1>4 DEF Next

(***************************************************************************)
(* Every run reaches every page of every process under its virtual page,   *)
(* whatever the last run, or anyone since by the memory manager's methods, *)
(* left in the memory.                                                     *)
(***************************************************************************)
THEOREM ReachableTheorem == Spec => []EveryPageIsReachable
<1>1. Registered => EveryPageIsReachable
  BY OwnersExist, NothingAssumption DEF Registered, EveryPageIsReachable, Mmu!registered
<1> QED
  BY <1>1, InitRegistered, NextRegistered, PTL DEF Spec

(* Nothing replayed, nothing placed. *)
LEMMA EmptyReplay == ReplayOf(<<>>) = Unplaced
<1>1. 0 \in Nat /\ DOMAIN <<>> = 1 .. 0
  OBVIOUS
<1> QED
  BY <1>1, ReplaySteps DEF Steps

(* A log and pages as a run finds them. *)
Untouched ==
  /\ log = [attached |-> TRUE, events |-> <<>>, next |-> 0]
  /\ pages = [p \in Pages |-> Mmu!AbsentPage]

(* An empty log tells of absent pages. *)
LEMMA EmptyTold == Untouched => Telling
<1> SUFFICES ASSUME Untouched PROVE Telling
  OBVIOUS
<1>1. IsLog(log)
  <2>1. <<>> \in Seq({}) /\ Len(<<>>) = 0
    OBVIOUS
  <2> QED
    BY <2>1 DEF IsLog, Untouched
<1> QED
  BY <1>1, EmptyReplay DEF Untouched, Telling, ArePages, Held, Unplaced, Mmu!AbsentPage

(* clear() leaves an empty log that numbers from zero. *)
LEMMA ClearedLog ==
  ASSUME NEW l, IsLog(l)
  PROVE  Activity!Clear(l) = [attached |-> TRUE, events |-> <<>>, next |-> 0]
<1>1. l.attached = TRUE /\ l = [attached |-> TRUE, events |-> l.events, next |-> l.next]
  BY DEF IsLog
<1>2. ASSUME NEW none, NEW zero, NEW k, k = [l EXCEPT !.events = none, !.next = zero]
      PROVE  k = [attached |-> TRUE, events |-> none, next |-> zero]
  BY <1>1, <1>2
<1> QED
  BY <1>2 DEF Activity!Clear

(* A new simulation has an empty log and absent pages. *)
LEMMA InitTelling == Init => Telling
BY EmptyTold DEF Init, NewSimulation, Activity!NewLog, Untouched

(* Whatever a step moves it tells, and it tells of nothing else. *)
LEMMA NextTelling == Telling /\ [Next]_vars => Telling'
<1> SUFFICES ASSUME Telling, [Next]_vars PROVE Telling'
  OBVIOUS
<1>1. CASE StartRun
  <2>3. log' = [attached |-> TRUE, events |-> <<>>, next |-> 0]
    BY <1>1, ClearedLog DEF StartRun, Telling
  <2>4. pages' = [p \in Pages |-> Mmu!AbsentPage]
    BY <1>1 DEF StartRun
  <2>5. Untouched'
    BY <2>3, <2>4 DEF Untouched, Mmu!AbsentPage
  <2> QED
    BY <2>5, EmptyTold, PTL
<1>2. CASE ExecuteAccess
  BY <1>2, AccessTold DEF ExecuteAccess
<1>3. CASE FinishRun \/ CallbackThrows \/ ReachPhysicalMemory \/ UNCHANGED vars
  <2>1. UNCHANGED <<log, pages>>
    BY <1>3 DEF FinishRun, CallbackThrows, ReachPhysicalMemory, vars, mmuVars
  <2> QED
    BY <2>1 DEF Telling, ArePages, Held, IsLog
<1> QED
  BY <1>1, <1>2, <1>3 DEF Next

(***************************************************************************)
(* The activity log alone tells what is in memory: replayed, it gives      *)
(* every page the frame its Page object names, whichever methods of the    *)
(* memory manager the callback calls.                                      *)
(***************************************************************************)
THEOREM ReplayTheorem == Spec => []LogReplaysResidency
BY InitTelling, NextTelling, TellingReplays, PTL DEF Spec

-----------------------------------------------------------------------------
(* Folds whose steps stay in a set *)

(* A set of indices has a largest element, and Max returns it. *)
LEMMA LargestIndex ==
  ASSUME NEW n \in Nat
  PROVE  \A T \in SUBSET (1 .. n) : T # {} => Max(T) \in T
<1> SUFFICES ASSUME NEW T \in SUBSET (1 .. n), T # {} PROVE Max(T) \in T
  OBVIOUS
<1> DEFINE S == {n - x : x \in T}
<1>0. \A x \in T : x \in 1 .. n /\ n - x \in Nat
  OBVIOUS
<1>1. S \in SUBSET Nat /\ S # {}
  BY <1>0
<1>2. PICK y \in S : \A z \in S : y <= z
  BY <1>1, LeastNatural
<1>3. PICK x \in T : y = n - x
  BY <1>2
<1>4. ASSUME NEW z \in T PROVE x >= z
  <2>1. n - z \in S
    OBVIOUS
  <2>2. n - x <= n - z
    BY <1>2, <1>3, <2>1
  <2> HIDE DEF S
  <2> QED
    BY <1>0, <2>2
<1> QED
  BY <1>4 DEF Max

(* A fold over the first k indices with the steps of a function. *)
IsFold(g, A, base, F, k) ==
  /\ g \in [SUBSET (1 .. k) -> A]
  /\ \A T \in SUBSET (1 .. k) :
       g[T] = IF T = {} THEN base ELSE F[g[T \ {Max(T)}], Max(T)]

(* What a fold is chosen to be exists, if its steps stay in a set. *)
LEMMA FoldExists ==
  ASSUME NEW A, NEW base \in A, NEW N \in Nat, NEW F \in [A \X (1 .. N) -> A]
  PROVE  \E g : IsFold(g, A, base, F, N)
<1> DEFINE K == {k \in 0 .. N : ~\E g : IsFold(g, A, base, F, k)}
<1>1. SUFFICES ASSUME K # {} PROVE FALSE
  <2>1. N \in 0 .. N
    OBVIOUS
  <2>2. \E g : IsFold(g, A, base, F, N)
    BY <2>1
  <2> QED
    BY <2>2
<1>2. K \in SUBSET Nat
  OBVIOUS
<1>3. PICK m \in K : \A k \in K : m <= k
  BY <1>1, <1>2, LeastNatural
<1>4. m \in 0 .. N /\ ~\E g : IsFold(g, A, base, F, m)
  BY <1>3
<1>5. CASE m = 0
  <2> DEFINE g == [T \in SUBSET {} |-> base]
  <2>1. 1 .. 0 = {}
    OBVIOUS
  <2>2. \A T \in SUBSET {} : T = {}
    OBVIOUS
  <2>3. g \in [SUBSET {} -> A] /\ \A T \in SUBSET {} : g[T] = base
    OBVIOUS
  <2> HIDE DEF g
  <2>4. IsFold(g, A, base, F, 0)
    BY <2>1, <2>2, <2>3 DEF IsFold
  <2> QED
    BY <1>4, <1>5, <2>4
<1>6. CASE m # 0
  <2>1. m - 1 \in 0 .. N /\ m - 1 \notin K /\ m \in Nat /\ m \in 1 .. N
    BY <1>3, <1>4, <1>6
  <2>2. PICK g : IsFold(g, A, base, F, m - 1)
    BY <2>1
  <2>3. /\ g \in [SUBSET (1 .. m - 1) -> A]
        /\ \A T \in SUBSET (1 .. m - 1) :
             g[T] = IF T = {} THEN base ELSE F[g[T \ {Max(T)}], Max(T)]
    BY <2>2 DEF IsFold
  <2> DEFINE h == [T \in SUBSET (1 .. m) |-> IF m \in T THEN F[g[T \ {m}], m] ELSE g[T]]
  <2>4. \A T \in SUBSET (1 .. m) : m \notin T => T \in SUBSET (1 .. m - 1)
    BY <2>1
  <2>5. \A T \in SUBSET (1 .. m) : T \ {m} \in SUBSET (1 .. m - 1) /\ T \ {m} \in SUBSET (1 .. m)
    BY <2>1
  <2>6. \A T \in SUBSET (1 .. m) : m \notin T => h[T] = g[T]
    OBVIOUS
  <2>7. h \in [SUBSET (1 .. m) -> A]
    <3>1. ASSUME NEW T \in SUBSET (1 .. m)
          PROVE  (IF m \in T THEN F[g[T \ {m}], m] ELSE g[T]) \in A
      <4>1. CASE m \in T
        <5>1. g[T \ {m}] \in A
          BY <2>3, <2>5
        <5>2. <<g[T \ {m}], m>> \in A \X (1 .. N)
          BY <2>1, <5>1
        <5> QED
          BY <4>1, <5>2
      <4>2. CASE m \notin T
        BY <2>3, <2>4, <4>2
      <4> QED
        BY <4>1, <4>2
    <3> QED
      BY <3>1
  <2>8. ASSUME NEW T \in SUBSET (1 .. m)
        PROVE  h[T] = IF T = {} THEN base ELSE F[h[T \ {Max(T)}], Max(T)]
    <3>1. CASE m \in T
      <4>1. Max(T) = m /\ T # {}
        BY <2>1, <3>1, LastIndex
      <4>2. h[T \ {m}] = g[T \ {m}]
        BY <2>5, <2>6
      <4>3. h[T] = F[g[T \ {m}], m]
        BY <3>1
      <4> HIDE DEF h
      <4> QED
        BY <4>1, <4>2, <4>3
    <3>2. CASE m \notin T
      <4>1. T \in SUBSET (1 .. m - 1) /\ T \ {Max(T)} \in SUBSET (1 .. m)
            /\ m \notin T \ {Max(T)}
        BY <2>4, <3>2
      <4>2. h[T] = g[T] /\ h[T \ {Max(T)}] = g[T \ {Max(T)}]
        BY <2>6, <3>2, <4>1
      <4> HIDE DEF h
      <4> QED
        BY <2>3, <4>1, <4>2
    <3> QED
      BY <3>1, <3>2
  <2> HIDE DEF h
  <2>9. IsFold(h, A, base, F, m)
    BY <2>7, <2>8 DEF IsFold
  <2> QED
    BY <1>4, <2>9
<1> QED
  BY <1>5, <1>6

(* The last of the indices up to k, and the indices before it. *)
LEMMA IndicesUpTo ==
  ASSUME NEW N \in Nat, NEW m \in 1 .. N
  PROVE  /\ 1 .. m \in SUBSET (1 .. N)
         /\ 1 .. m # {}
         /\ Max(1 .. m) = m
         /\ (1 .. m) \ {Max(1 .. m)} = 1 .. m - 1
<1>1. \A i : i \in (1 .. m) \ {m} <=> i \in 1 .. m - 1
  OBVIOUS
<1>2. 1 .. m \in SUBSET (1 .. N) /\ m \in 1 .. m /\ m \in Nat
  OBVIOUS
<1>3. Max(1 .. m) = m
  BY <1>2, LastIndex
<1> QED
  BY <1>1, <1>2, <1>3

(* What each step of a fold brings about, it has brought about at the end. *)
LEMMA FoldGrows ==
  ASSUME NEW N \in Nat, NEW g, NEW P, g[{}] \in P[0],
         \A k \in 1 .. N : g[1 .. k - 1] \in P[k - 1] => g[1 .. k] \in P[k]
  PROVE  g[1 .. N] \in P[N]
<1> DEFINE K == {k \in 0 .. N : g[1 .. k] \notin P[k]}
<1>1. SUFFICES ASSUME K # {} PROVE FALSE
  OBVIOUS
<1>2. K \in SUBSET Nat
  OBVIOUS
<1>3. PICK m \in K : \A k \in K : m <= k
  BY <1>1, <1>2, LeastNatural
<1>4. m # 0
  <2>1. 1 .. 0 = {}
    OBVIOUS
  <2> QED
    BY <1>3, <2>1
<1>5. m \in 1 .. N /\ m - 1 \in 0 .. N /\ m - 1 \notin K
  BY <1>3, <1>4
<1> QED
  BY <1>3, <1>5

(* Whatever the steps of a fold keep holds of what it returns. *)
LEMMA FoldStays ==
  ASSUME NEW A, NEW N \in Nat, NEW g, g[{}] \in A,
         \A T \in SUBSET (1 .. N) : T # {} /\ g[T \ {Max(T)}] \in A => g[T] \in A
  PROVE  g[1 .. N] \in A
<1> DEFINE P == [k \in 0 .. N |-> A]
<1>1. ASSUME NEW k \in 1 .. N, g[1 .. k - 1] \in A PROVE g[1 .. k] \in A
  BY <1>1, IndicesUpTo
<1>2. g[{}] \in P[0] /\ \A k \in 1 .. N : g[1 .. k - 1] \in P[k - 1] => g[1 .. k] \in P[k]
  BY <1>1
<1>3. P[N] = A
  OBVIOUS
<1> HIDE DEF P
<1> QED
  BY <1>2, <1>3, FoldGrows

-----------------------------------------------------------------------------
(* Workloads *)

(* Min of two numbers. *)
LEMMA SmallerOfTwo ==
  ASSUME NEW a \in Int, NEW b \in Int
  PROVE  Min({a, b}) = IF a <= b THEN a ELSE b
<1>1. \A x \in {a, b} : (\A y \in {a, b} : x <= y) <=> x = IF a <= b THEN a ELSE b
  OBVIOUS
<1> QED
  BY <1>1 DEF Min

(* The segments configurations are made of. *)
Segments == [workload : {"SEQUENTIAL", "RANDOM", "LOCALITY", "MIXED"}, count : Nat]

(* What is left of segments once they are cut. *)
CutFrom(segments) ==
  {s \in Segments : /\ s.count > 0
                    /\ \E i \in 1 .. Len(segments) : s.workload = segments[i].workload}

(* One segment is cut. *)
Cut(n, cut, segment) ==
  LET count == Min({segment.count, n - cut.allocated})
  IN  IF count = 0 THEN cut
      ELSE [list      |-> Append(cut.list, [segment EXCEPT !.count = count]),
            allocated |-> cut.allocated + count]

(* Cutting one more segment off leaves cut segments. *)
LEMMA CutStays ==
  ASSUME NEW segments \in Seq(Segments), NEW n \in Nat,
         NEW cut \in [list : Seq(CutFrom(segments)), allocated : 0 .. n],
         NEW i \in 1 .. Len(segments)
  PROVE  Cut(n, cut, segments[i]) \in [list : Seq(CutFrom(segments)), allocated : 0 .. n]
<1> DEFINE segment == segments[i]
           count == Min({segment.count, n - cut.allocated})
           piece == [segment EXCEPT !.count = count]
<1>1. segment \in Segments
  BY ElementOfSeq
<1>2. segment.count \in Nat /\ n - cut.allocated \in Nat
  BY <1>1 DEF Segments
<1>3. count \in Nat /\ cut.allocated + count \in 0 .. n
  <2>1. count = IF segment.count <= n - cut.allocated THEN segment.count ELSE n - cut.allocated
    BY <1>2, SmallerOfTwo
  <2> HIDE DEF count
  <2> QED
    BY <1>2, <2>1
<1> HIDE DEF count
<1>4. ASSUME count # 0 PROVE piece \in CutFrom(segments)
  <2>1. piece \in Segments /\ piece.count = count /\ piece.workload = segment.workload
    BY <1>1, <1>3 DEF Segments
  <2> HIDE DEF piece
  <2> QED
    BY <1>3, <1>4, <2>1 DEF CutFrom
<1>5. ASSUME count # 0 PROVE Append(cut.list, piece) \in Seq(CutFrom(segments))
  <2> HIDE DEF piece
  <2> QED
    BY <1>4, <1>5
<1> HIDE DEF piece
<1>6. Cut(n, cut, segment) = IF count = 0 THEN cut
                             ELSE [list      |-> Append(cut.list, piece),
                                   allocated |-> cut.allocated + count]
  BY DEF Cut, count, piece
<1> QED
  BY <1>3, <1>5, <1>6

(* What g folds the segments before each index into, cutting them to n accesses. *)
IsCut(g, segments, n) ==
  /\ g[{}] = [list |-> <<>>, allocated |-> 0]
  /\ \A T \in SUBSET (1 .. Len(segments)) :
       T # {} => g[T] = Cut(n, g[T \ {Max(T)}], segments[Max(T)])

(* Segments are cut one after the other. *)
LEMMA MixedSegmentsFold ==
  ASSUME NEW segments \in Seq(Segments), NEW n \in Nat
  PROVE  \E g : IsCut(g, segments, n) /\ MixedSegments(segments, n) = g[1 .. Len(segments)].list
<1> DEFINE N == Len(segments)
           A == [list : Seq(CutFrom(segments)), allocated : 0 .. n]
           base == [list |-> <<>>, allocated |-> 0]
           F == [x \in A \X (1 .. N) |-> Cut(n, x[1], segments[x[2]])]
           IsCutting(g) ==
             g = [T \in SUBSET (1 .. N) |->
                    IF T = {} THEN base ELSE Cut(n, g[T \ {Max(T)}], segments[Max(T)])]
<1>1. N \in Nat /\ DOMAIN segments = 1 .. N
  BY LenProperties
<1>2. base \in A
  OBVIOUS
<1>3. F \in [A \X (1 .. N) -> A]
  BY CutStays
<1>4. \A a \in A : \A i \in 1 .. N : F[a, i] = Cut(n, a, segments[i])
  OBVIOUS
<1> HIDE DEF N, A, base, F
<1>5. PICK g : IsFold(g, A, base, F, N)
  BY <1>1, <1>2, <1>3, FoldExists
<1>6. \A T \in SUBSET (1 .. N) : T # {} => Max(T) \in T
  BY <1>1, LargestIndex
<1>7. IsCutting(g)
  <2>1. g = [T \in SUBSET (1 .. N) |-> g[T]]
    BY <1>5 DEF IsFold
  <2>2. ASSUME NEW T \in SUBSET (1 .. N), T # {}
        PROVE  g[T] = Cut(n, g[T \ {Max(T)}], segments[Max(T)])
    <3>1. Max(T) \in 1 .. N /\ T \ {Max(T)} \in SUBSET (1 .. N)
      BY <1>6, <2>2
    <3>2. g[T \ {Max(T)}] \in A
      BY <1>5, <3>1 DEF IsFold
    <3> QED
      BY <1>4, <1>5, <2>2, <3>1, <3>2 DEF IsFold
  <2>3. g[{}] = base
    BY <1>5 DEF IsFold
  <2>4. \A T \in SUBSET (1 .. N) :
          g[T] = IF T = {} THEN base ELSE Cut(n, g[T \ {Max(T)}], segments[Max(T)])
    BY <2>2, <2>3
  <2> QED
    BY <2>1, <2>4, Zenon
<1> DEFINE c == CHOOSE x : IsCutting(x)
<1>8. IsCutting(c)
  BY <1>7
<1>9. MixedSegments(segments, n) = c[1 .. N].list
  BY <1>1 DEF MixedSegments, FoldLeft, MapThenFoldSet, Cut, base
<1> HIDE DEF c
<1>10. /\ c[{}] = base
       /\ \A T \in SUBSET (1 .. N) :
            T # {} => c[T] = Cut(n, c[T \ {Max(T)}], segments[Max(T)])
  BY <1>8
<1> QED
  BY <1>9, <1>10 DEF IsCut, N, base

(* Segments are cut to segments. *)
LEMMA MixedSegmentsTyped ==
  ASSUME NEW segments \in Seq(Segments), NEW n \in Nat
  PROVE  MixedSegments(segments, n) \in Seq(CutFrom(segments))
<1> DEFINE N == Len(segments)
           A == [list : Seq(CutFrom(segments)), allocated : 0 .. n]
<1>1. PICK g : IsCut(g, segments, n) /\ MixedSegments(segments, n) = g[1 .. N].list
  BY MixedSegmentsFold
<1>2. N \in Nat /\ \A T \in SUBSET (1 .. N) : T # {} => Max(T) \in T
  BY LenProperties, LargestIndex
<1>3. ASSUME NEW T \in SUBSET (1 .. N), T # {}, g[T \ {Max(T)}] \in A PROVE g[T] \in A
  <2>1. Max(T) \in 1 .. N
    BY <1>2, <1>3
  <2>2. Cut(n, g[T \ {Max(T)}], segments[Max(T)]) \in A
    BY <1>3, <2>1, CutStays
  <2> QED
    BY <1>1, <1>3, <2>2 DEF IsCut
<1>4. g[{}] \in A
  BY <1>1 DEF IsCut
<1> HIDE DEF N, A
<1>5. g[1 .. N] \in A
  BY <1>2, <1>3, <1>4, FoldStays
<1> QED
  BY <1>1, <1>5 DEF A

(* A configuration that a run accepts. *)
IsAccepted(c) == c \in Configurations /\ IsValid(c) /\ IsConstructible(c)

(* The segments streams are generated for. *)
Streamed(c) ==
  {s \in Segments : /\ s.workload # "MIXED"
                    /\ s.workload = "LOCALITY" => ValidLocality(c.locality)}

(* The accesses a process is due are a number. *)
LEMMA ShareIsNumber ==
  ASSUME NEW c \in Configurations, NEW process \in Processes
  PROVE  ProcessAccessCount(c, process) \in Nat
<1>1. c.accesses \in Nat /\ ProcessCount \in Nat \ {0}
  BY ConfigurationsAssumption, CountsAssumption
<1>2. c.accesses \div ProcessCount \in Nat
  BY <1>1
<1> DEFINE q == c.accesses \div ProcessCount
           b == process - 1 < c.accesses % ProcessCount
<1> HIDE DEF q, b
<1>3. q + (IF b THEN 1 ELSE 0) \in Nat
  BY <1>2 DEF q
<1> QED
  BY <1>3 DEF ProcessAccessCount, q, b

(* The segments of a process are ones its generators can be made for. *)
LEMMA ProcessSegmentsTyped ==
  ASSUME NEW c, IsAccepted(c), NEW process \in Processes
  PROVE  ProcessSegments(c, process) \in Seq(Streamed(c))
<1> DEFINE n == ProcessAccessCount(c, process)
           segments == ProcessSegments(c, process)
<1>1. n \in Nat
  BY ShareIsNumber DEF IsAccepted
<1>2. /\ c.workload \in {"SEQUENTIAL", "RANDOM", "LOCALITY", "MIXED"}
      /\ c.segments \in Seq(Segments)
  BY ConfigurationsAssumption DEF IsAccepted, Segments
<1>3. \A s \in ToSet(segments) : s.workload = "LOCALITY" => ValidLocality(c.locality)
  BY DEF IsAccepted, IsConstructible, Processes
<1> HIDE DEF n
<1>4. CASE c.workload = "MIXED"
  <2>1. segments = MixedSegments(c.segments, n)
    BY <1>4 DEF ProcessSegments, n
  <2>2. segments \in Seq(CutFrom(c.segments))
    BY <1>1, <1>2, <2>1, MixedSegmentsTyped
  <2>3. \A i \in 1 .. Len(c.segments) : c.segments[i].workload # "MIXED"
    BY <1>2, <1>4 DEF IsAccepted, IsValid, ToSet
  <2> HIDE DEF segments
  <2>4. \A i \in 1 .. Len(segments) : segments[i] \in Streamed(c)
    <3> SUFFICES ASSUME NEW i \in 1 .. Len(segments) PROVE segments[i] \in Streamed(c)
      OBVIOUS
    <3>1. segments[i] \in CutFrom(c.segments) /\ segments[i] \in ToSet(segments)
      BY <2>2, ElementOfSeq, LenProperties DEF ToSet
    <3> QED
      BY <1>3, <2>3, <3>1 DEF CutFrom, Streamed
  <2>5. segments = [i \in 1 .. Len(segments) |-> segments[i]] /\ Len(segments) \in Nat
    BY <2>2
  <2>6. segments \in Seq(Streamed(c))
    BY <2>4, <2>5
  <2> QED
    BY <2>6 DEF segments
<1>5. CASE c.workload # "MIXED"
  <2> DEFINE s == [workload |-> c.workload, count |-> n]
  <2>1. segments = <<s>>
    BY <1>5 DEF ProcessSegments, n
  <2>2. s \in ToSet(segments)
    BY <2>1 DEF ToSet
  <2>3. s \in Streamed(c)
    BY <1>1, <1>2, <1>3, <1>5, <2>2 DEF Streamed, Segments
  <2> HIDE DEF segments, s
  <2>4. segments \in Seq(Streamed(c))
    BY <2>1, <2>3
  <2> QED
    BY <2>4 DEF segments
<1> QED
  BY <1>4, <1>5

(* Every generator stays in the address space. *)
LEMMA SegmentStreamsTyped ==
  ASSUME NEW c, NEW s \in Streamed(c)
  PROVE  SegmentStreams(c, s) \subseteq [1 .. s.count -> VirtualPages]
<1>1. /\ s.count \in Nat /\ s.workload \in {"SEQUENTIAL", "RANDOM", "LOCALITY"}
      /\ s.workload = "LOCALITY" => ValidLocality(c.locality)
      /\ PageCount \in Nat \ {0}
  BY CountsAssumption DEF Streamed, Segments
<1>2. CASE s.workload = "SEQUENTIAL"
  <2>1. SegmentStreams(c, s) = {SequentialStream(s.count)}
    BY <1>2 DEF SegmentStreams
  <2>2. \A i \in 1 .. s.count : (i - 1) % PageCount \in VirtualPages
    BY <1>1 DEF VirtualPages
  <2> QED
    BY <2>1, <2>2 DEF SequentialStream
<1>3. CASE s.workload = "RANDOM"
  BY <1>3 DEF SegmentStreams, RandomStreams, VirtualPages
<1>4. CASE s.workload = "LOCALITY"
  <2> DEFINE loc == c.locality
             w == loc.workingSet
  <2>1. SegmentStreams(c, s) = LocalityStreams(loc, s.count)
    BY <1>4 DEF SegmentStreams
  <2>2. w \in 1 .. PageCount
    BY <1>1, <1>4 DEF ValidLocality
  <2>3. ASSUME NEW start \in WorkingSetStarts(loc), NEW r \in RelativeStreams(loc, s.count)
        PROVE  [i \in 1 .. s.count |-> start + r[i]] \in [1 .. s.count -> VirtualPages]
    <3>1. start \in 0 .. PageCount - w /\ \A i \in 1 .. s.count : r[i] \in 0 .. w - 1
      BY DEF WorkingSetStarts, RelativeStreams, Uniform
    <3> HIDE DEF w
    <3>2. \A i \in 1 .. s.count : start + r[i] \in 0 .. PageCount - 1
      BY <1>1, <2>2, <3>1
    <3> QED
      BY <3>2 DEF VirtualPages
  <2> QED
    BY <2>1, <2>3 DEF LocalityStreams
<1> QED
  BY <1>1, <1>2, <1>3, <1>4

(* What a process may do in one access. *)
ProgramSteps == [process : Processes, page : VirtualPages]

(* A stream of pages as accesses of a process. *)
Attributed(process, segment, t) ==
  [i \in 1 .. segment.count |-> [process |-> process, page |-> t[i]]]

(* Every stream, followed by every stream of one more segment. *)
Extended(c, process, streams, segment) ==
  {s \o Attributed(process, segment, t) : s \in streams, t \in SegmentStreams(c, segment)}

(* One more segment keeps the accesses in the address space. *)
LEMMA ExtendedTyped ==
  ASSUME NEW c, NEW process \in Processes, NEW segment \in Streamed(c),
         NEW streams \in SUBSET Seq(ProgramSteps)
  PROVE  Extended(c, process, streams, segment) \in SUBSET Seq(ProgramSteps)
<1> SUFFICES ASSUME NEW e \in Extended(c, process, streams, segment)
             PROVE  e \in Seq(ProgramSteps)
  OBVIOUS
<1>1. PICK s \in streams, t \in SegmentStreams(c, segment) :
        e = s \o Attributed(process, segment, t)
  BY DEF Extended
<1> DEFINE u == Attributed(process, segment, t)
<1>2. segment.count \in Nat /\ t \in [1 .. segment.count -> VirtualPages]
  BY SegmentStreamsTyped DEF Streamed, Segments
<1>3. u \in [1 .. segment.count -> ProgramSteps]
  BY <1>2 DEF ProgramSteps, Attributed
<1> HIDE DEF u
<1>4. u \in Seq(ProgramSteps)
  BY <1>2, <1>3
<1>5. s \o u \in Seq(ProgramSteps)
  BY <1>4, ConcatProperties
<1> QED
  BY <1>1, <1>5 DEF u

(* What g folds the segments before each index into, putting their streams together. *)
IsStream(g, c, process, segments) ==
  /\ g[{}] = {<<>>}
  /\ \A T \in SUBSET (1 .. Len(segments)) :
       T # {} => g[T] = Extended(c, process, g[T \ {Max(T)}], segments[Max(T)])

(* The streams of a process are put together segment by segment. *)
LEMMA ProcessStreamsFold ==
  ASSUME NEW c, IsAccepted(c), NEW process \in Processes
  PROVE  \E g : LET segments == ProcessSegments(c, process)
                IN  /\ IsStream(g, c, process, segments)
                    /\ ProcessStreams(c, process) = g[1 .. Len(segments)]
<1> DEFINE segments == ProcessSegments(c, process)
           N == Len(segments)
           A == SUBSET Seq(ProgramSteps)
           base == {<<>>}
           F == [x \in A \X (1 .. N) |-> Extended(c, process, x[1], segments[x[2]])]
           IsStreaming(g) ==
             g = [T \in SUBSET (1 .. N) |->
                    IF T = {} THEN base
                    ELSE Extended(c, process, g[T \ {Max(T)}], segments[Max(T)])]
<1>1. segments \in Seq(Streamed(c))
  BY ProcessSegmentsTyped
<1>2. N \in Nat /\ DOMAIN segments = 1 .. N
  BY <1>1, LenProperties
<1>3. base \in A
  OBVIOUS
<1>4. \A a \in A : \A i \in 1 .. N : Extended(c, process, a, segments[i]) \in A
  BY <1>1, ElementOfSeq, ExtendedTyped
<1>5. F \in [A \X (1 .. N) -> A] /\ \A a \in A : \A i \in 1 .. N :
        F[a, i] = Extended(c, process, a, segments[i])
  <2> HIDE DEF A, N
  <2> QED
    BY <1>4
<1>6. \A T \in SUBSET (1 .. N) : T # {} => Max(T) \in T
  BY <1>2, LargestIndex
<1>7. ProcessStreams(c, process) = (CHOOSE x : IsStreaming(x))[1 .. N]
  <2>1. ProcessStreams(c, process) =
          (CHOOSE x : x = [T \in SUBSET (DOMAIN segments) |->
             IF T = {} THEN base
             ELSE Extended(c, process, x[T \ {Max(T)}], segments[Max(T)])])[DOMAIN segments]
    BY DEF ProcessStreams, FoldLeft, MapThenFoldSet, Extended, Attributed
  <2> HIDE DEF N, segments, base
  <2> QED
    BY <1>2, <2>1
<1> HIDE DEF N, A, base, F, segments
<1>8. PICK g : IsFold(g, A, base, F, N)
  BY <1>2, <1>3, <1>5, FoldExists
<1>9. IsStreaming(g)
  <2>1. g = [T \in SUBSET (1 .. N) |-> g[T]]
    BY <1>8 DEF IsFold
  <2>2. ASSUME NEW T \in SUBSET (1 .. N), T # {}
        PROVE  g[T] = Extended(c, process, g[T \ {Max(T)}], segments[Max(T)])
    <3>1. Max(T) \in 1 .. N /\ T \ {Max(T)} \in SUBSET (1 .. N)
      BY <1>6, <2>2
    <3>2. g[T \ {Max(T)}] \in A
      BY <1>8, <3>1 DEF IsFold
    <3> QED
      BY <1>5, <1>8, <2>2, <3>1, <3>2 DEF IsFold
  <2>3. g[{}] = base
    BY <1>8 DEF IsFold
  <2>4. \A T \in SUBSET (1 .. N) :
          g[T] = IF T = {} THEN base
                 ELSE Extended(c, process, g[T \ {Max(T)}], segments[Max(T)])
    BY <2>2, <2>3
  <2> QED
    BY <2>1, <2>4, Zenon
<1> DEFINE d == CHOOSE x : IsStreaming(x)
<1>10. IsStreaming(d)
  BY <1>9
<1>11. ProcessStreams(c, process) = d[1 .. N]
  BY <1>7
<1> HIDE DEF d
<1>12. /\ d[{}] = base
       /\ \A T \in SUBSET (1 .. N) :
            T # {} => d[T] = Extended(c, process, d[T \ {Max(T)}], segments[Max(T)])
  BY <1>10
<1> QED
  BY <1>11, <1>12 DEF IsStream, N, segments, base

(* All of a process's accesses are in its address space. *)
LEMMA ProcessStreamsTyped ==
  ASSUME NEW c, IsAccepted(c), NEW process \in Processes
  PROVE  ProcessStreams(c, process) \in SUBSET Seq(ProgramSteps)
<1> DEFINE segments == ProcessSegments(c, process)
           N == Len(segments)
           A == SUBSET Seq(ProgramSteps)
<1>1. PICK g : IsStream(g, c, process, segments) /\ ProcessStreams(c, process) = g[1 .. N]
  BY ProcessStreamsFold
<1>2. segments \in Seq(Streamed(c))
  BY ProcessSegmentsTyped
<1> HIDE DEF segments
<1>3. N \in Nat /\ \A T \in SUBSET (1 .. N) : T # {} => Max(T) \in T
  BY <1>2, LenProperties, LargestIndex
<1>4. ASSUME NEW T \in SUBSET (1 .. N), T # {}, g[T \ {Max(T)}] \in A PROVE g[T] \in A
  <2>1. segments[Max(T)] \in Streamed(c)
    BY <1>2, <1>3, <1>4, ElementOfSeq
  <2>2. Extended(c, process, g[T \ {Max(T)}], segments[Max(T)]) \in A
    BY <1>4, <2>1, ExtendedTyped
  <2> QED
    BY <1>1, <1>4, <2>2 DEF IsStream
<1>5. g[{}] \in A
  BY <1>1 DEF IsStream
<1> HIDE DEF N, A
<1>6. g[1 .. N] \in A
  BY <1>3, <1>4, <1>5, FoldStays
<1> QED
  BY <1>1, <1>6 DEF A

(* Every program, followed by every stream of one more process. *)
Continued(c, programs, process) ==
  {p \o s : p \in programs, s \in ProcessStreams(c, process)}

(* One more process keeps the accesses in the address space. *)
LEMMA ContinuedTyped ==
  ASSUME NEW c, IsAccepted(c), NEW process \in Processes,
         NEW programs \in SUBSET Seq(ProgramSteps)
  PROVE  Continued(c, programs, process) \in SUBSET Seq(ProgramSteps)
<1> SUFFICES ASSUME NEW e \in Continued(c, programs, process) PROVE e \in Seq(ProgramSteps)
  OBVIOUS
<1>1. PICK p \in programs, s \in ProcessStreams(c, process) : e = p \o s
  BY DEF Continued
<1> QED
  BY <1>1, ProcessStreamsTyped, ConcatProperties

(* What g folds the processes before each into, putting their streams together. *)
IsProgram(g, c) ==
  /\ g[{}] = {<<>>}
  /\ \A T \in SUBSET (1 .. ProcessCount) :
       T # {} => g[T] = Continued(c, g[T \ {Max(T)}], Max(T))

(* A program is put together process by process. *)
LEMMA ProgramsFold ==
  ASSUME NEW c, IsAccepted(c)
  PROVE  \E g : IsProgram(g, c) /\ Programs(c) = g[1 .. ProcessCount]
<1> DEFINE N == ProcessCount
           A == SUBSET Seq(ProgramSteps)
           base == {<<>>}
           order == [process \in 1 .. N |-> process]
           F == [x \in A \X (1 .. N) |-> Continued(c, x[1], order[x[2]])]
           IsDraining(g) ==
             g = [T \in SUBSET (1 .. N) |->
                    IF T = {} THEN base ELSE Continued(c, g[T \ {Max(T)}], order[Max(T)])]
<1>1. N \in Nat /\ Processes = 1 .. N /\ \A i \in 1 .. N : order[i] = i
  BY CountsAssumption DEF Processes
<1>2. DOMAIN order = 1 .. N
  OBVIOUS
<1>3. base \in A
  OBVIOUS
<1>4. \A a \in A : \A i \in 1 .. N : Continued(c, a, order[i]) \in A
  BY <1>1, ContinuedTyped
<1>5. F \in [A \X (1 .. N) -> A] /\ \A a \in A : \A i \in 1 .. N :
        F[a, i] = Continued(c, a, order[i])
  <2> HIDE DEF A, N, order
  <2> QED
    BY <1>4
<1>6. \A T \in SUBSET (1 .. N) : T # {} => Max(T) \in T
  BY <1>1, LargestIndex
<1>7. Programs(c) = (CHOOSE x : IsDraining(x))[1 .. N]
  <2>1. Programs(c) =
          (CHOOSE x : x = [T \in SUBSET (DOMAIN order) |->
             IF T = {} THEN base
             ELSE Continued(c, x[T \ {Max(T)}], order[Max(T)])])[DOMAIN order]
    BY DEF Programs, FoldLeft, MapThenFoldSet, Continued
  <2> HIDE DEF N, order, base
  <2> QED
    BY <1>2, <2>1
<1> HIDE DEF N, A, base, F, order
<1>8. PICK g : IsFold(g, A, base, F, N)
  BY <1>1, <1>3, <1>5, FoldExists
<1>9. IsDraining(g)
  <2>1. g = [T \in SUBSET (1 .. N) |-> g[T]]
    BY <1>8 DEF IsFold
  <2>2. ASSUME NEW T \in SUBSET (1 .. N), T # {}
        PROVE  g[T] = Continued(c, g[T \ {Max(T)}], order[Max(T)])
    <3>1. Max(T) \in 1 .. N /\ T \ {Max(T)} \in SUBSET (1 .. N)
      BY <1>6, <2>2
    <3>2. g[T \ {Max(T)}] \in A
      BY <1>8, <3>1 DEF IsFold
    <3> QED
      BY <1>5, <1>8, <2>2, <3>1, <3>2 DEF IsFold
  <2>3. g[{}] = base
    BY <1>8 DEF IsFold
  <2>4. \A T \in SUBSET (1 .. N) :
          g[T] = IF T = {} THEN base ELSE Continued(c, g[T \ {Max(T)}], order[Max(T)])
    BY <2>2, <2>3
  <2> QED
    BY <2>1, <2>4, Zenon
<1> DEFINE d == CHOOSE x : IsDraining(x)
<1>10. IsDraining(d)
  BY <1>9
<1>11. Programs(c) = d[1 .. N]
  BY <1>7
<1> HIDE DEF d
<1>12. /\ d[{}] = base
       /\ \A T \in SUBSET (1 .. N) :
            T # {} => d[T] = Continued(c, d[T \ {Max(T)}], order[Max(T)])
  BY <1>10
<1>13. ASSUME NEW T \in SUBSET (1 .. N), T # {}
       PROVE  d[T] = Continued(c, d[T \ {Max(T)}], Max(T))
  <2>1. order[Max(T)] = Max(T)
    BY <1>1, <1>6, <1>13
  <2> QED
    BY <1>12, <1>13, <2>1
<1> QED
  BY <1>11, <1>12, <1>13 DEF IsProgram, N, base

(* Every workload accesses only pages of processes that exist. *)
LEMMA ProgramsTyped ==
  ASSUME NEW c, IsAccepted(c)
  PROVE  Programs(c) \in SUBSET Seq(ProgramSteps)
<1> DEFINE N == ProcessCount
           A == SUBSET Seq(ProgramSteps)
<1>1. PICK g : IsProgram(g, c) /\ Programs(c) = g[1 .. N]
  BY ProgramsFold
<1>2. /\ N \in Nat /\ Processes = 1 .. N
      /\ \A T \in SUBSET (1 .. N) : T # {} => Max(T) \in T
  BY CountsAssumption, LargestIndex DEF Processes
<1>3. ASSUME NEW T \in SUBSET (1 .. N), T # {}, g[T \ {Max(T)}] \in A PROVE g[T] \in A
  <2>1. Max(T) \in Processes
    BY <1>2, <1>3
  <2>2. Continued(c, g[T \ {Max(T)}], Max(T)) \in A
    BY <1>3, <2>1, ContinuedTyped
  <2> QED
    BY <1>1, <1>3, <2>2 DEF IsProgram
<1>4. g[{}] \in A
  BY <1>1 DEF IsProgram
<1> HIDE DEF N, A
<1>5. g[1 .. N] \in A
  BY <1>2, <1>3, <1>4, FoldStays
<1> QED
  BY <1>1, <1>5 DEF A

(* A configuration whose segments are not constructible. *)
LEMMA RefusedSegments ==
  ASSUME NEW c \in Configurations, IsValid(c), ~IsConstructible(c)
  PROVE  \/ c.accesses < ProcessCount
         \/ /\ c.workload = "MIXED" /\ ~ValidLocality(c.locality)
            /\ \E s \in ToSet(c.segments) : s.workload = "LOCALITY"
<1>0. PICK process \in Processes : \E s \in ToSet(ProcessSegments(c, process)) :
        ~(s.count > 0 /\ (s.workload = "LOCALITY" => ValidLocality(c.locality)))
  BY DEF IsConstructible, Processes
<1>1. PICK s \in ToSet(ProcessSegments(c, process)) :
        ~(s.count > 0 /\ (s.workload = "LOCALITY" => ValidLocality(c.locality)))
  BY <1>0
<1> DEFINE n == ProcessAccessCount(c, process)
<1>2. n \in Nat
  BY ShareIsNumber
<1>3. c.accesses \in Nat /\ ProcessCount \in Nat \ {0} /\ c.segments \in Seq(Segments)
  BY ConfigurationsAssumption, CountsAssumption DEF Segments
<1>4. CASE c.workload = "MIXED"
  <2>1. s \in ToSet(MixedSegments(c.segments, n))
    BY <1>1, <1>4 DEF ProcessSegments
  <2>2. MixedSegments(c.segments, n) \in Seq(CutFrom(c.segments))
    BY <1>2, <1>3, MixedSegmentsTyped
  <2>3. s \in CutFrom(c.segments)
    BY <2>1, <2>2, ElementOfSeq, LenProperties DEF ToSet
  <2>4. PICK i \in 1 .. Len(c.segments) : s.workload = c.segments[i].workload
    BY <2>3 DEF CutFrom
  <2>5. s.count > 0
    BY <2>3 DEF CutFrom
  <2>6. c.segments[i] \in ToSet(c.segments)
    BY <1>3, <2>4, LenProperties DEF ToSet
  <2> QED
    BY <1>1, <1>4, <2>4, <2>5, <2>6
<1>5. CASE c.workload # "MIXED"
  <2>1. s = [workload |-> c.workload, count |-> n]
    BY <1>1, <1>5 DEF ProcessSegments, ToSet
  <2>2. n = 0
    BY <1>1, <1>2, <2>1 DEF IsValid
  <2>3. c.accesses \div ProcessCount = 0
    <3> DEFINE q == c.accesses \div ProcessCount
               b == process - 1 < c.accesses % ProcessCount
    <3>1. q \in Nat /\ n = q + (IF b THEN 1 ELSE 0)
      BY <1>3 DEF ProcessAccessCount
    <3> HIDE DEF q, b, n
    <3>2. q = 0
      BY <2>2, <3>1
    <3> QED
      BY <3>2 DEF q
  <2>4. c.accesses < ProcessCount
    BY <1>3, <2>3
  <2> QED
    BY <2>4
<1> QED
  BY <1>4, <1>5

(* The factory creates what the configuration asks for. *)
LEMMA PolicyCreated ==
  ASSUME NEW c \in Configurations
  PROVE  /\ Factory!Create(Registry, c.policy) = Mmu!NewPolicy(c.policy)
         /\ Factory!Create(Registry, c.policy) # NoPolicy
<1>1. c.policy \in {"FIFO", "LRU", "CLOCK", "OPTIMAL"} /\ Mmu!NewPolicy(c.policy) # NoPolicy
  BY ConfigurationsAssumption DEF Mmu!PolicyKinds
<1>2. Factory!IsRegistered(Registry, c.policy) /\ Registry[c.policy] = c.policy
  <2>1. \A type \in {"FIFO", "LRU", "CLOCK", "OPTIMAL"} : \A r :
          Factory!RegisterPolicy(r, type, type)
            = [x \in {type} \cup DOMAIN r |-> IF x = type THEN type ELSE r[x]]
    BY NothingAssumption
       DEF Factory!RegisterPolicy, Factory!IsValidPolicyType, Factory!PolicyKinds
  <2>2. /\ DOMAIN Registry = {"FIFO", "LRU", "CLOCK", "OPTIMAL"}
        /\ \A type \in {"FIFO", "LRU", "CLOCK", "OPTIMAL"} : Registry[type] = type
    <3> DEFINE r0 == Factory!EmptyRegistry
               r1 == Factory!RegisterPolicy(r0, "FIFO", "FIFO")
               r2 == Factory!RegisterPolicy(r1, "LRU", "LRU")
               r3 == Factory!RegisterPolicy(r2, "CLOCK", "CLOCK")
               r4 == Factory!RegisterPolicy(r3, "OPTIMAL", "OPTIMAL")
    <3>0. Registry = r4
      BY DEF Registry
    <3>1. DOMAIN r0 = {}
      BY DEF Factory!EmptyRegistry
    <3> HIDE DEF r0
    <3>2. r1 = [x \in {"FIFO"} \cup DOMAIN r0 |-> IF x = "FIFO" THEN "FIFO" ELSE r0[x]]
      BY <2>1
    <3> HIDE DEF r1
    <3>3. DOMAIN r1 = {"FIFO"} /\ r1["FIFO"] = "FIFO"
      BY <3>1, <3>2
    <3>4. r2 = [x \in {"LRU"} \cup DOMAIN r1 |-> IF x = "LRU" THEN "LRU" ELSE r1[x]]
      BY <2>1
    <3> HIDE DEF r2
    <3>5. DOMAIN r2 = {"FIFO", "LRU"} /\ r2["FIFO"] = "FIFO" /\ r2["LRU"] = "LRU"
      BY <3>3, <3>4
    <3>6. r3 = [x \in {"CLOCK"} \cup DOMAIN r2 |-> IF x = "CLOCK" THEN "CLOCK" ELSE r2[x]]
      BY <2>1
    <3> HIDE DEF r3
    <3>7. /\ DOMAIN r3 = {"FIFO", "LRU", "CLOCK"}
          /\ \A type \in {"FIFO", "LRU", "CLOCK"} : r3[type] = type
      BY <3>5, <3>6
    <3>8. r4 = [x \in {"OPTIMAL"} \cup DOMAIN r3 |-> IF x = "OPTIMAL" THEN "OPTIMAL" ELSE r3[x]]
      BY <2>1
    <3> HIDE DEF r4
    <3>9. /\ DOMAIN r4 = {"FIFO", "LRU", "CLOCK", "OPTIMAL"}
          /\ \A type \in {"FIFO", "LRU", "CLOCK", "OPTIMAL"} : r4[type] = type
      BY <3>7, <3>8
    <3> QED
      BY <3>0, <3>9
  <2> QED
    BY <1>1, <2>2 DEF Factory!IsRegistered, Factory!IsValidPolicyType, Factory!PolicyKinds
<1>3. Factory!NewPolicy(c.policy) = Mmu!NewPolicy(c.policy)
  BY DEF Factory!NewPolicy, Mmu!NewPolicy, Factory!Fifo!Empty, Mmu!Fifo!Empty, Factory!Lru!Empty,
         Mmu!Lru!Empty, Factory!Clock!Empty, Mmu!Clock!Empty, Factory!Optimal!Empty,
         Mmu!Optimal!Empty
<1> QED
  BY <1>1, <1>2, <1>3 DEF Factory!Create

-----------------------------------------------------------------------------
(* Runs that do not start *)

(* What a simulation that stands still in "not started" tells. *)
Refusing ==
  /\ config \in Configurations
  /\ IsValid(config)
  /\ phase = "not started" => ~Addressable \/ ~IsConstructible(config)

(* Only valid configurations become simulations. *)
LEMMA InitRefusing == Init => Refusing
BY DEF Init, Refusing

(* A run is refused for no other reason. *)
LEMMA NextRefusing == Refusing /\ [Next]_vars => Refusing'
<1> SUFFICES ASSUME Refusing, [Next]_vars PROVE Refusing'
  OBVIOUS
<1>1. config' = config
  BY DEF Next, StartRun, ExecuteAccess, FinishRun, CallbackThrows, ReachPhysicalMemory, vars
<1>2. (Addressable' <=> Addressable) /\ (IsConstructible(config)' <=> IsConstructible(config))
      /\ (IsValid(config)' <=> IsValid(config))
  BY <1>1 DEF Addressable, Manager!IsAddressSpace, IsConstructible, IsValid
<1>3. CASE StartRun
  <2>1. pol' # NoPolicy
    BY <1>3, PolicyCreated DEF StartRun, Refusing
  <2>2. phase' = "not started" => ~Addressable \/ ~IsConstructible(config)
    BY <1>3, <2>1 DEF StartRun, Addressable
  <2> QED
    BY <1>1, <1>2, <2>2 DEF Refusing
<1>4. CASE ExecuteAccess \/ FinishRun \/ CallbackThrows \/ ReachPhysicalMemory \/ UNCHANGED vars
  <2>1. phase' = "not started" => phase = "not started"
    BY <1>4 DEF ExecuteAccess, FinishRun, CallbackThrows, ReachPhysicalMemory, vars
  <2> QED
    BY <1>1, <1>2, <2>1 DEF Refusing
<1> QED
  BY <1>3, <1>4 DEF Next

(***************************************************************************)
(* A valid configuration starts, in every run, unless a process gets no    *)
(* access, the pages are not addressable or the parameters of a locality   *)
(* segment, which the validator does not look at, are impossible.          *)
(***************************************************************************)
THEOREM StartTheorem == Spec => []EveryRunStarts
<1>1. Refusing => EveryRunStarts
  BY RefusedSegments DEF Refusing, EveryRunStarts, Addressable
<1> QED
  BY <1>1, InitRefusing, NextRefusing, PTL DEF Spec

-----------------------------------------------------------------------------
(* The accesses of a workload *)

(* t is the accesses the segments ask for, added up. *)
IsTally(t, segments) ==
  /\ t[0] = 0
  /\ \A k \in 1 .. Len(segments) : t[k] = t[k - 1] + segments[k].count

(* How many accesses segments ask for. *)
Asked(segments) == FoldLeft(LAMBDA sum, s : sum + s.count, 0, segments)

(* One tally more. *)
Plus(sum, s) == sum + s.count

(* What segments ask for is added up segment by segment. *)
LEMMA AskedTally ==
  ASSUME NEW segments \in Seq(Segments)
  PROVE  \E t : /\ IsTally(t, segments)
                /\ Asked(segments) = t[Len(segments)]
                /\ \A k \in 0 .. Len(segments) : t[k] \in Nat
<1> DEFINE N == Len(segments)
           base == 0
           F == [x \in Nat \X (1 .. N) |-> Plus(x[1], segments[x[2]])]
           IsSum(g) ==
             g = [T \in SUBSET (1 .. N) |->
                    IF T = {} THEN base ELSE Plus(g[T \ {Max(T)}], segments[Max(T)])]
<1>1. N \in Nat /\ DOMAIN segments = 1 .. N
  BY LenProperties
<1>2. base \in Nat
  OBVIOUS
<1>3. \A i \in 1 .. N : segments[i].count \in Nat
  <2>1. \A i \in 1 .. N : segments[i] \in Segments
    BY ElementOfSeq
  <2> QED
    BY <2>1 DEF Segments
<1>4. \A a \in Nat : \A i \in 1 .. N : Plus(a, segments[i]) \in Nat
  BY <1>3 DEF Plus
<1>5. F \in [Nat \X (1 .. N) -> Nat] /\ \A a \in Nat : \A i \in 1 .. N :
        F[a, i] = Plus(a, segments[i])
  <2> HIDE DEF N
  <2> QED
    BY <1>4
<1>6. \A T \in SUBSET (1 .. N) : T # {} => Max(T) \in T
  BY <1>1, LargestIndex
<1>7. Asked(segments) = (CHOOSE x : IsSum(x))[1 .. N]
  <2>1. Asked(segments) =
          (CHOOSE x : x = [T \in SUBSET (DOMAIN segments) |->
             IF T = {} THEN base
             ELSE Plus(x[T \ {Max(T)}], segments[Max(T)])])[DOMAIN segments]
    BY DEF Asked, FoldLeft, MapThenFoldSet, Plus
  <2> HIDE DEF N, base
  <2> QED
    BY <1>1, <2>1
<1> HIDE DEF N, base, F
<1>8. PICK g : IsFold(g, Nat, base, F, N)
  BY <1>1, <1>2, <1>5, FoldExists
<1>9. IsSum(g)
  <2>1. g = [T \in SUBSET (1 .. N) |-> g[T]]
    BY <1>8 DEF IsFold
  <2>2. ASSUME NEW T \in SUBSET (1 .. N), T # {}
        PROVE  g[T] = Plus(g[T \ {Max(T)}], segments[Max(T)])
    <3>1. Max(T) \in 1 .. N /\ T \ {Max(T)} \in SUBSET (1 .. N)
      BY <1>6, <2>2
    <3>2. g[T \ {Max(T)}] \in Nat
      BY <1>8, <3>1 DEF IsFold
    <3> QED
      BY <1>5, <1>8, <2>2, <3>1, <3>2 DEF IsFold
  <2>3. g[{}] = base
    BY <1>8 DEF IsFold
  <2>4. \A T \in SUBSET (1 .. N) :
          g[T] = IF T = {} THEN base ELSE Plus(g[T \ {Max(T)}], segments[Max(T)])
    BY <2>2, <2>3
  <2> QED
    BY <2>1, <2>4, Zenon
<1> DEFINE d == CHOOSE x : IsSum(x)
<1>10. IsSum(d)
  BY <1>9
<1>11. Asked(segments) = d[1 .. N]
  BY <1>7
<1> HIDE DEF d
<1>12. /\ d[{}] = base
       /\ \A T \in SUBSET (1 .. N) : T # {} => d[T] = Plus(d[T \ {Max(T)}], segments[Max(T)])
  BY <1>10
<1> DEFINE t == [k \in 0 .. N |-> d[1 .. k]]
<1>13. t[0] = 0 /\ t[N] = Asked(segments)
  <2>1. 1 .. 0 = {}
    OBVIOUS
  <2> QED
    BY <1>1, <1>11, <1>12, <2>1 DEF base
<1>14. ASSUME NEW k \in 1 .. N PROVE t[k] = t[k - 1] + segments[k].count
  <2>1. d[1 .. k] = Plus(d[1 .. k - 1], segments[k])
    BY <1>1, <1>12, IndicesUpTo
  <2>2. k \in 0 .. N /\ k - 1 \in 0 .. N
    BY <1>1
  <2> QED
    BY <2>1, <2>2 DEF Plus
<1> HIDE DEF t
<1>15. \A k \in 0 .. N : t[k] \in Nat
  <2> DEFINE K == {k \in 0 .. N : t[k] \notin Nat}
  <2>1. SUFFICES ASSUME K # {} PROVE FALSE
    OBVIOUS
  <2>2. K \in SUBSET Nat
    BY <1>1
  <2>3. PICK m \in K : \A k \in K : m <= k
    BY <2>1, <2>2, LeastNatural
  <2>4. m # 0
    BY <1>13, <2>3
  <2>5. m \in 1 .. N /\ m - 1 \in 0 .. N /\ m - 1 \notin K
    BY <1>1, <2>3, <2>4
  <2>6. t[m - 1] \in Nat
    BY <2>5
  <2> QED
    BY <1>3, <1>14, <2>3, <2>5, <2>6
<1> QED
  BY <1>13, <1>14, <1>15 DEF IsTally, N

(* The smaller of two numbers. *)
Smaller(a, b) == IF a <= b THEN a ELSE b

(* Cutting a segment takes what it asks for, as long as there is any left. *)
LEMMA CutTally ==
  ASSUME NEW segments \in Seq(Segments), NEW n \in Nat, NEW asked \in Nat,
         NEW cut \in [list : Seq(CutFrom(segments)), allocated : 0 .. n],
         NEW i \in 1 .. Len(segments),
         cut.allocated = Smaller(asked, n),
         \E t : IsTally(t, cut.list) /\ t[Len(cut.list)] = cut.allocated
  PROVE  LET next == Cut(n, cut, segments[i])
         IN  /\ next.allocated = Smaller(asked + segments[i].count, n)
             /\ \E t : IsTally(t, next.list) /\ t[Len(next.list)] = next.allocated
<1> DEFINE segment == segments[i]
           count == Min({segment.count, n - cut.allocated})
           piece == [segment EXCEPT !.count = count]
           next == Cut(n, cut, segment)
<1>1. segment \in Segments
  BY ElementOfSeq
<1>2. segment.count \in Nat /\ n - cut.allocated \in Nat
  BY <1>1 DEF Segments
<1>3. count = Smaller(segment.count, n - cut.allocated)
  BY <1>2, SmallerOfTwo DEF Smaller
<1>4. count \in Nat /\ cut.allocated + count = Smaller(asked + segment.count, n)
  <2> HIDE DEF count, segment
  <2> QED
    BY <1>2, <1>3 DEF Smaller
<1> HIDE DEF count
<1>5. piece.count = count
  BY <1>1 DEF Segments
<1> HIDE DEF piece
<1>6. next = IF count = 0 THEN cut
             ELSE [list |-> Append(cut.list, piece), allocated |-> cut.allocated + count]
  BY DEF Cut, count, piece
<1> HIDE DEF next, segment
<1>7. CASE count = 0
  <2>1. next = cut /\ cut.allocated = Smaller(asked + segment.count, n)
    BY <1>4, <1>6, <1>7
  <2> QED
    BY <2>1 DEF next, segment
<1>8. CASE count # 0
  <2>1. next.list = Append(cut.list, piece) /\ next.allocated = cut.allocated + count
    BY <1>6, <1>8
  <2> DEFINE m == Len(cut.list)
  <2>2. PICK t : IsTally(t, cut.list) /\ t[m] = cut.allocated
    OBVIOUS
  <2> DEFINE last == cut.allocated + count
             u == [k \in 0 .. m + 1 |-> IF k <= m THEN t[k] ELSE last]
  <2>3. /\ m \in Nat /\ Len(next.list) = m + 1 /\ next.list[m + 1] = piece
        /\ \A k \in 1 .. m : next.list[k] = cut.list[k]
    <3>1. PICK S : cut.list \in Seq(S)
      OBVIOUS
    <3>2. cut.list \in Seq(S \cup {piece})
      BY <3>1
    <3> QED
      BY <2>1, <3>2
  <2> HIDE DEF last, m
  <2>4. u[0] = t[0] /\ u[m] = t[m] /\ u[m + 1] = last
    BY <2>3
  <2>5. ASSUME NEW k \in 1 .. m + 1 PROVE u[k] = u[k - 1] + next.list[k].count
    <3>1. CASE k = m + 1
      <4>1. u[k - 1] = cut.allocated
        BY <2>2, <2>3, <2>4, <3>1
      <4> QED
        BY <1>5, <2>3, <2>4, <3>1, <4>1 DEF last
    <3>2. CASE k # m + 1
      <4>1. k \in 1 .. m /\ u[k] = t[k] /\ u[k - 1] = t[k - 1]
        BY <2>3, <3>2
      <4> QED
        BY <2>2, <2>3, <4>1 DEF IsTally, m
    <3> QED
      BY <3>1, <3>2
  <2> HIDE DEF u
  <2>6. IsTally(u, next.list) /\ u[Len(next.list)] = next.allocated
    BY <2>1, <2>2, <2>3, <2>4, <2>5 DEF IsTally, last
  <2> QED
    BY <1>4, <2>1, <2>6 DEF next, segment
<1> QED
  BY <1>7, <1>8

(* Cut segments hold what they were cut to, or all there was. *)
LEMMA MixedSegmentsTally ==
  ASSUME NEW segments \in Seq(Segments), NEW n \in Nat
  PROVE  \E t : LET list == MixedSegments(segments, n)
                IN  IsTally(t, list) /\ t[Len(list)] = Smaller(Asked(segments), n)
<1> DEFINE N == Len(segments)
           A == [list : Seq(CutFrom(segments)), allocated : 0 .. n]
<1>1. PICK g : IsCut(g, segments, n) /\ MixedSegments(segments, n) = g[1 .. N].list
  BY MixedSegmentsFold
<1>2. PICK h : /\ IsTally(h, segments) /\ Asked(segments) = h[N]
               /\ \A k \in 0 .. N : h[k] \in Nat
  BY AskedTally
<1> DEFINE P == [k \in 0 .. N |->
                   {cut \in A : /\ cut.allocated = Smaller(h[k], n)
                                /\ \E t : IsTally(t, cut.list)
                                          /\ t[Len(cut.list)] = cut.allocated}]
<1>3. N \in Nat
  BY LenProperties
<1>4. g[{}] \in P[0]
  <2> DEFINE t == [k \in {0} |-> 0]
             e == [list |-> <<>>, allocated |-> 0]
  <2>1. g[{}] = e /\ h[0] = 0
    BY <1>1, <1>2 DEF IsCut, IsTally
  <2>2. IsTally(t, e.list) /\ t[Len(e.list)] = e.allocated
    BY DEF IsTally
  <2>3. e \in A /\ e.allocated = Smaller(0, n)
    BY DEF Smaller
  <2> HIDE DEF A
  <2> QED
    BY <1>3, <2>1, <2>2, <2>3
<1>5. ASSUME NEW k \in 1 .. N, g[1 .. k - 1] \in P[k - 1] PROVE g[1 .. k] \in P[k]
  <2> DEFINE cut == g[1 .. k - 1]
             next == Cut(n, cut, segments[k])
  <2>1. g[1 .. k] = next
    BY <1>1, <1>3, IndicesUpTo DEF IsCut
  <2>2. /\ k - 1 \in 0 .. N /\ k \in 0 .. N
        /\ h[k - 1] \in Nat /\ h[k] = h[k - 1] + segments[k].count
    BY <1>2, <1>3 DEF IsTally
  <2>3. /\ cut \in A /\ cut.allocated = Smaller(h[k - 1], n)
        /\ \E t : IsTally(t, cut.list) /\ t[Len(cut.list)] = cut.allocated
    BY <1>5, <2>2
  <2> HIDE DEF cut
  <2>4. /\ next.allocated = Smaller(h[k], n)
        /\ \E t : IsTally(t, next.list) /\ t[Len(next.list)] = next.allocated
    <3> DEFINE asked == h[k - 1]
    <3>1. asked \in Nat /\ cut.allocated = Smaller(asked, n) /\ k \in 1 .. Len(segments)
      BY <2>2, <2>3
    <3>2. h[k] = asked + segments[k].count
      BY <2>2
    <3> HIDE DEF asked
    <3>3. /\ next.allocated = Smaller(asked + segments[k].count, n)
          /\ \E t : IsTally(t, next.list) /\ t[Len(next.list)] = next.allocated
      BY <2>3, <3>1, CutTally
    <3> QED
      BY <3>2, <3>3
  <2>5. next \in A
    BY <2>3, CutStays
  <2> HIDE DEF next, A
  <2> QED
    BY <2>1, <2>2, <2>4, <2>5
<1>6. N \in 0 .. N
  BY <1>3
<1> HIDE DEF N
<1>7. g[1 .. N] \in P[N]
  <2> HIDE DEF P
  <2> QED
    BY <1>3, <1>4, <1>5, FoldGrows
<1>8. PICK t : IsTally(t, g[1 .. N].list) /\ t[Len(g[1 .. N].list)] = Smaller(h[N], n)
  <2> HIDE DEF A
  <2> QED
    BY <1>6, <1>7
<1> QED
  BY <1>1, <1>2, <1>8

(* The accesses a process makes. *)
DueOf(c, process) ==
  LET n == ProcessAccessCount(c, process)
  IN  IF c.workload = "MIXED" THEN Smaller(Asked(c.segments), n) ELSE n

(* The segments of a process hold them. *)
LEMMA ProcessSegmentsTally ==
  ASSUME NEW c, IsAccepted(c), NEW process \in Processes
  PROVE  \E t : LET segments == ProcessSegments(c, process)
                IN  IsTally(t, segments) /\ t[Len(segments)] = DueOf(c, process)
<1> DEFINE n == ProcessAccessCount(c, process)
           segments == ProcessSegments(c, process)
<1>1. n \in Nat
  BY ShareIsNumber DEF IsAccepted
<1>2. c.segments \in Seq(Segments)
  BY ConfigurationsAssumption DEF IsAccepted, Segments
<1> HIDE DEF n
<1>3. CASE c.workload = "MIXED"
  <2>1. /\ segments = MixedSegments(c.segments, n)
        /\ DueOf(c, process) = Smaller(Asked(c.segments), n)
    BY <1>3 DEF ProcessSegments, DueOf, n
  <2> HIDE DEF segments
  <2>2. \E t : IsTally(t, segments) /\ t[Len(segments)] = DueOf(c, process)
    BY <1>1, <1>2, <2>1, MixedSegmentsTally
  <2> QED
    BY <2>2 DEF segments
<1>4. CASE c.workload # "MIXED"
  <2> DEFINE s == [workload |-> c.workload, count |-> n]
             t == [k \in {0, 1} |-> IF k = 0 THEN 0 ELSE n]
  <2>1. segments = <<s>> /\ DueOf(c, process) = n
    BY <1>4 DEF ProcessSegments, DueOf, n
  <2>2. t[0] = 0 /\ t[1] = n /\ s.count = n
    OBVIOUS
  <2> HIDE DEF segments, s, t
  <2>3. Len(segments) = 1 /\ segments[1] = s
    BY <2>1
  <2>4. \A k \in 1 .. Len(segments) : t[k] = t[k - 1] + segments[k].count
    BY <1>1, <2>2, <2>3
  <2>5. IsTally(t, segments) /\ t[Len(segments)] = DueOf(c, process)
    BY <2>1, <2>2, <2>3, <2>4 DEF IsTally
  <2> QED
    BY <2>5 DEF segments
<1> QED
  BY <1>3, <1>4

(* The streams of n accesses, all of one process. *)
StreamsOf(process, n) ==
  {s \in Seq(ProgramSteps) : Len(s) = n /\ \A i \in 1 .. n : s[i].process = process}

(* One more segment adds the accesses it asks for. *)
LEMMA ExtendedLengths ==
  ASSUME NEW c, NEW process \in Processes, NEW segment \in Streamed(c), NEW n \in Nat,
         NEW streams \in SUBSET StreamsOf(process, n)
  PROVE  Extended(c, process, streams, segment) \in SUBSET StreamsOf(process, n + segment.count)
<1> SUFFICES ASSUME NEW e \in Extended(c, process, streams, segment)
             PROVE  e \in StreamsOf(process, n + segment.count)
  OBVIOUS
<1>1. PICK s \in streams, t \in SegmentStreams(c, segment) :
        e = s \o Attributed(process, segment, t)
  BY DEF Extended
<1> DEFINE u == Attributed(process, segment, t)
           m == segment.count
<1>2. m \in Nat /\ t \in [1 .. m -> VirtualPages]
  BY SegmentStreamsTyped DEF Streamed, Segments
<1>3. u \in [1 .. m -> ProgramSteps] /\ \A i \in 1 .. m : u[i].process = process
  BY <1>2 DEF ProgramSteps, Attributed
<1> HIDE DEF u, m
<1>4. u \in Seq(ProgramSteps) /\ Len(u) = m
  BY <1>2, <1>3
<1>5. s \in Seq(ProgramSteps) /\ Len(s) = n /\ \A i \in 1 .. n : s[i].process = process
  BY DEF StreamsOf
<1>6. e \in Seq(ProgramSteps) /\ Len(e) = n + m
      /\ \A i \in 1 .. n + m : e[i] = IF i <= n THEN s[i] ELSE u[i - n]
  BY <1>1, <1>4, <1>5, ConcatProperties DEF u
<1>7. ASSUME NEW i \in 1 .. n + m PROVE e[i].process = process
  <2>1. CASE i <= n
    <3>1. i \in 1 .. n
      BY <2>1
    <3> QED
      BY <1>5, <1>6, <2>1, <3>1
  <2>2. CASE ~(i <= n)
    <3>1. i - n \in 1 .. m
      BY <1>2, <2>2
    <3> QED
      BY <1>3, <1>6, <2>2, <3>1
  <2> QED
    BY <2>1, <2>2
<1> QED
  BY <1>6, <1>7 DEF StreamsOf, m

(* Every stream of a process is of the accesses it makes. *)
LEMMA ProcessStreamsLengths ==
  ASSUME NEW c, IsAccepted(c), NEW process \in Processes
  PROVE  ProcessStreams(c, process) \in SUBSET StreamsOf(process, DueOf(c, process))
<1> DEFINE segments == ProcessSegments(c, process)
           N == Len(segments)
<1>1. PICK g : IsStream(g, c, process, segments) /\ ProcessStreams(c, process) = g[1 .. N]
  BY ProcessStreamsFold
<1>2. PICK t : IsTally(t, segments) /\ t[N] = DueOf(c, process)
  BY ProcessSegmentsTally
<1>3. segments \in Seq(Streamed(c))
  BY ProcessSegmentsTyped
<1> HIDE DEF segments
<1>4. N \in Nat
  BY <1>3, LenProperties
<1> DEFINE P == [k \in 0 .. N |->
                   IF t[k] \in Nat THEN SUBSET StreamsOf(process, t[k]) ELSE {}]
<1>5. g[{}] \in P[0]
  <2>1. <<>> \in StreamsOf(process, 0)
    BY DEF StreamsOf
  <2>2. {<<>>} \in SUBSET StreamsOf(process, 0)
    BY <2>1
  <2>3. g[{}] = {<<>>} /\ t[0] = 0 /\ 0 \in 0 .. N
    BY <1>1, <1>2, <1>4 DEF IsStream, IsTally
  <2> QED
    BY <2>2, <2>3
<1>6. ASSUME NEW k \in 1 .. N, g[1 .. k - 1] \in P[k - 1] PROVE g[1 .. k] \in P[k]
  <2>1. g[1 .. k] = Extended(c, process, g[1 .. k - 1], segments[k])
    BY <1>1, <1>4, IndicesUpTo DEF IsStream
  <2>2. k - 1 \in 0 .. N /\ k \in 0 .. N /\ t[k] = t[k - 1] + segments[k].count
    BY <1>2, <1>4 DEF IsTally
  <2>3. t[k - 1] \in Nat /\ g[1 .. k - 1] \in SUBSET StreamsOf(process, t[k - 1])
    BY <1>6, <2>2
  <2>4. segments[k] \in Streamed(c)
    BY <1>3, ElementOfSeq
  <2>5. segments[k].count \in Nat
    BY <2>4 DEF Streamed, Segments
  <2>6. g[1 .. k] \in SUBSET StreamsOf(process, t[k])
    BY <2>1, <2>2, <2>3, <2>4, ExtendedLengths
  <2>7. t[k] \in Nat
    BY <2>2, <2>3, <2>5
  <2> QED
    BY <2>2, <2>6, <2>7
<1>7. N \in 0 .. N
  BY <1>4
<1> HIDE DEF N
<1>8. g[1 .. N] \in P[N]
  <2> HIDE DEF P
  <2> QED
    BY <1>4, <1>5, <1>6, FoldGrows
<1>9. g[1 .. N] \in SUBSET StreamsOf(process, t[N])
  BY <1>7, <1>8
<1> QED
  BY <1>1, <1>2, <1>9

(* The accesses of a process in a program. *)
AccessesOf(p, process) == {i \in 1 .. Len(p) : p[i].process = process}

(* The programs in which the processes up to k make their accesses. *)
ProgramsUpTo(c, k) ==
  {p \in Seq(ProgramSteps) : \A q \in Processes :
     Cardinality(AccessesOf(p, q)) = IF q <= k THEN DueOf(c, q) ELSE 0}

(* The accesses of the processes are numbers. *)
LEMMA DueIsNumber ==
  ASSUME NEW c, IsAccepted(c), NEW process \in Processes
  PROVE  DueOf(c, process) \in Nat
<1>1. ProcessAccessCount(c, process) \in Nat
  BY ShareIsNumber DEF IsAccepted
<1>2. c.segments \in Seq(Segments)
  BY ConfigurationsAssumption DEF IsAccepted, Segments
<1>3. Asked(c.segments) \in Nat
  <2>1. Len(c.segments) \in 0 .. Len(c.segments)
    BY <1>2, LenProperties
  <2> QED
    BY <1>2, <2>1, AskedTally
<1> QED
  BY <1>1, <1>3 DEF DueOf, Smaller

(* One more process makes its accesses, and the others make no more. *)
LEMMA ContinuedCounts ==
  ASSUME NEW c, IsAccepted(c), NEW k \in Processes, NEW p \in ProgramsUpTo(c, k - 1),
         NEW s \in StreamsOf(k, DueOf(c, k))
  PROVE  p \o s \in ProgramsUpTo(c, k)
<1> DEFINE n == Len(p)
           m == DueOf(c, k)
           e == p \o s
<1>1. m \in Nat
  BY DueIsNumber
<1>2. /\ s \in Seq(ProgramSteps) /\ Len(s) = m /\ \A i \in 1 .. m : s[i].process = k
      /\ p \in Seq(ProgramSteps) /\ n \in Nat
  BY LenProperties DEF StreamsOf, ProgramsUpTo
<1>3. e \in Seq(ProgramSteps) /\ Len(e) = n + m
      /\ \A i \in 1 .. n + m : e[i] = IF i <= n THEN p[i] ELSE s[i - n]
  BY <1>2, ConcatProperties
<1> HIDE DEF e, m
<1>4. ASSUME NEW i \in n + 1 .. n + m PROVE e[i].process = k
  <2>1. i \in 1 .. n + m /\ ~(i <= n) /\ i - n \in 1 .. m
    BY <1>1, <1>2
  <2> QED
    BY <1>2, <1>3, <2>1
<1>5. ASSUME NEW q \in Processes
      PROVE  Cardinality(AccessesOf(e, q)) = IF q <= k THEN DueOf(c, q) ELSE 0
  <2>1. k \in Nat /\ q \in Nat
    BY DEF Processes
  <2>2. Cardinality(AccessesOf(p, q)) = IF q <= k - 1 THEN DueOf(c, q) ELSE 0
    BY DEF ProgramsUpTo
  <2>3. CASE q # k
    <3>1. AccessesOf(e, q) = AccessesOf(p, q)
      <4>1. \A i \in 1 .. n + m : i \in 1 .. n \/ i \in n + 1 .. n + m
        BY <1>1, <1>2
      <4>2. \A i \in 1 .. n : i \in 1 .. n + m /\ e[i] = p[i]
        BY <1>1, <1>2, <1>3
      <4> QED
        BY <1>3, <1>4, <2>3, <4>1, <4>2 DEF AccessesOf
    <3>2. q <= k - 1 <=> q <= k
      BY <2>1, <2>3
    <3> QED
      BY <2>2, <3>1, <3>2
  <2>4. CASE q = k
    <3>1. Cardinality(AccessesOf(p, k)) = 0
      BY <2>1, <2>2, <2>4
    <3>2. AccessesOf(p, k) = {}
      <4>1. IsFiniteSet(1 .. n)
        BY <1>2, FS_Interval
      <4>2. IsFiniteSet(AccessesOf(p, k))
        BY <4>1, FS_Subset DEF AccessesOf
      <4> QED
        BY <3>1, <4>2, FS_EmptySet
    <3>3. AccessesOf(e, k) = n + 1 .. n + m
      <4>1. \A i \in 1 .. n + m : i \in 1 .. n \/ i \in n + 1 .. n + m
        BY <1>1, <1>2
      <4>2. \A i \in 1 .. n : e[i] = p[i] /\ p[i].process # k
        BY <1>1, <1>2, <1>3, <3>2 DEF AccessesOf
      <4>3. \A i \in n + 1 .. n + m : i \in 1 .. n + m
        BY <1>1, <1>2
      <4> QED
        BY <1>3, <1>4, <4>1, <4>2, <4>3 DEF AccessesOf
    <3>4. Cardinality(n + 1 .. n + m) = m
      BY <1>1, <1>2, FS_Interval
    <3> QED
      BY <2>1, <2>4, <3>3, <3>4 DEF m
  <2> QED
    BY <2>3, <2>4
<1> QED
  BY <1>3, <1>5 DEF ProgramsUpTo, e

(* In every program, every process makes its accesses. *)
LEMMA ProgramsCount ==
  ASSUME NEW c, IsAccepted(c), NEW p \in Programs(c), NEW process \in Processes
  PROVE  Cardinality(AccessesOf(p, process)) = DueOf(c, process)
<1> DEFINE N == ProcessCount
           P == [k \in 0 .. N |-> SUBSET ProgramsUpTo(c, k)]
<1>1. PICK g : IsProgram(g, c) /\ Programs(c) = g[1 .. N]
  BY ProgramsFold
<1>2. N \in Nat /\ Processes = 1 .. N /\ N \in 0 .. N
  BY CountsAssumption DEF Processes
<1>3. g[{}] \in P[0]
  <2>1. \A q \in Processes : AccessesOf(<<>>, q) = {} /\ ~(q <= 0)
    BY DEF AccessesOf, Processes
  <2>2. <<>> \in Seq(ProgramSteps) /\ Cardinality({}) = 0
    BY FS_EmptySet
  <2>3. <<>> \in ProgramsUpTo(c, 0)
    BY <2>1, <2>2 DEF ProgramsUpTo
  <2> QED
    BY <1>1, <1>2, <2>3 DEF IsProgram
<1>4. ASSUME NEW k \in 1 .. N, g[1 .. k - 1] \in P[k - 1] PROVE g[1 .. k] \in P[k]
  <2>1. g[1 .. k] = Continued(c, g[1 .. k - 1], k)
    BY <1>1, <1>2, IndicesUpTo DEF IsProgram
  <2>2. k - 1 \in 0 .. N /\ k \in 0 .. N /\ k \in Processes
    BY <1>2
  <2>3. g[1 .. k - 1] \in SUBSET ProgramsUpTo(c, k - 1)
    BY <1>4, <2>2
  <2>4. ASSUME NEW e \in Continued(c, g[1 .. k - 1], k) PROVE e \in ProgramsUpTo(c, k)
    <3>1. PICK r \in g[1 .. k - 1], s \in ProcessStreams(c, k) : e = r \o s
      BY DEF Continued
    <3>2. r \in ProgramsUpTo(c, k - 1) /\ s \in StreamsOf(k, DueOf(c, k))
      BY <2>2, <2>3, ProcessStreamsLengths
    <3> QED
      BY <2>2, <3>1, <3>2, ContinuedCounts
  <2>5. g[1 .. k] \in SUBSET ProgramsUpTo(c, k)
    BY <2>1, <2>4
  <2> QED
    BY <2>2, <2>5
<1> HIDE DEF N
<1>5. g[1 .. N] \in P[N]
  <2> HIDE DEF P
  <2> QED
    BY <1>2, <1>3, <1>4, FoldGrows
<1>6. p \in ProgramsUpTo(c, N) /\ process <= N
  BY <1>1, <1>2, <1>5
<1> QED
  BY <1>6 DEF ProgramsUpTo

(* A share of the whole: the first processes have the remainder. *)
LEMMA ShareIsDue ==
  ASSUME NEW c \in Configurations, NEW process \in Processes
  PROVE  (c.accesses + ProcessCount - process) \div ProcessCount = ProcessAccessCount(c, process)
<1> DEFINE a == c.accesses
           n == ProcessCount
           q == a \div n
           r == a % n
<1>1. a \in Nat /\ n \in Nat \ {0} /\ process \in 1 .. n
  BY ConfigurationsAssumption, CountsAssumption DEF Processes
<1>2. q \in Nat /\ r \in 0 .. n - 1 /\ a = q * n + r
  BY <1>1
<1> DEFINE x == q * n
<1>3. x \in Nat
  BY <1>1, <1>2
<1>4. CASE process - 1 < r
  <2> DEFINE d == r - process
  <2>1. d \in 0 .. n - 1 /\ a + n - process = (q + 1) * n + d
    <3>1. (q + 1) * n = x + n
      BY <1>1, <1>2
    <3> HIDE DEF a, n, q, r, x
    <3>2. d \in 0 .. n - 1 /\ x + r + n - process = x + n + d
      BY <1>1, <1>2, <1>3, <1>4
    <3> QED
      BY <1>2, <3>1, <3>2 DEF x
  <2> HIDE DEF d, a, n, q, r, x
  <2>2. ((q + 1) * n + d) \div n = q + 1
    BY <1>1, <1>2, <2>1
  <2> QED
    BY <1>4, <2>1, <2>2 DEF ProcessAccessCount, a, n, q, r
<1>5. CASE ~(process - 1 < r)
  <2> DEFINE d == r + n - process
  <2>1. d \in 0 .. n - 1 /\ a + n - process = q * n + d
    <3> HIDE DEF a, n, q, r, x
    <3>1. d \in 0 .. n - 1 /\ x + r + n - process = x + d
      BY <1>1, <1>2, <1>3, <1>5
    <3> QED
      BY <1>2, <3>1 DEF x
  <2> HIDE DEF d, a, n, q, r, x
  <2>2. (q * n + d) \div n = q
    BY <1>1, <1>2, <2>1
  <2>3. q + 0 = q
    BY <1>2
  <2> QED
    BY <1>5, <2>1, <2>2, <2>3 DEF ProcessAccessCount, a, n, q, r
<1> QED
  BY <1>4, <1>5

(* What is due is what the process makes. *)
LEMMA DueIsMade ==
  ASSUME IsAccepted(config), NEW process \in Processes
  PROVE  Due(process) = DueOf(config, process)
<1>1. (config.accesses + ProcessCount - process) \div ProcessCount
        = ProcessAccessCount(config, process)
  BY ShareIsDue DEF IsAccepted
<1>2. ProcessAccessCount(config, process) \in Nat
  BY ShareIsNumber DEF IsAccepted
<1>3. config.segments \in Seq(Segments)
  BY ConfigurationsAssumption DEF IsAccepted, Segments
<1> DEFINE n == ProcessAccessCount(config, process)
           asked == Asked(config.segments)
<1>4. asked \in Nat
  <2>1. Len(config.segments) \in 0 .. Len(config.segments)
    BY <1>3, LenProperties
  <2> QED
    BY <1>3, <2>1, AskedTally
<1>5. Due(process) = IF config.workload = "MIXED" THEN Min({n, asked}) ELSE n
  BY <1>1 DEF Due, Asked
<1> HIDE DEF n, asked
<1>6. Min({n, asked}) = Smaller(asked, n)
  <2>1. Min({n, asked}) = IF n <= asked THEN n ELSE asked
    BY <1>2, <1>4, SmallerOfTwo DEF n
  <2> QED
    BY <1>2, <1>4, <2>1 DEF Smaller, n
<1> QED
  BY <1>5, <1>6 DEF DueOf, n, asked

-----------------------------------------------------------------------------
(* The accesses of a run, and what is counted of them *)

(* The process of a virtual page owns the page registered under it. *)
LEMMA OwnerOfPage ==
  ASSUME NEW process \in Processes, NEW v \in VirtualPages
  PROVE  OwnerIndex(PageOf(process, v)) = process
<1>1. /\ PageCount \in Nat \ {0} /\ v \in Nat /\ v < PageCount
      /\ process \in Nat /\ process - 1 \in Nat
  BY CountsAssumption DEF Processes, VirtualPages
<1> DEFINE k == process - 1
           x == k * PageCount
<1>2. x \in Nat
  BY <1>1
<1>3. PageOf(process, v) - 1 = x + v
  <2> HIDE DEF x
  <2>1. (x + v + 1) - 1 = x + v
    BY <1>1, <1>2
  <2> QED
    BY <2>1 DEF PageOf, x
<1>4. (x + v) \div PageCount = k
  <2> HIDE DEF k
  <2>1. k \in Nat
    BY <1>1 DEF k
  <2> QED
    BY <1>1, <2>1
<1> QED
  BY <1>1, <1>3, <1>4 DEF OwnerIndex

(* The address of a page fits, and dividing by the page size gives the page. *)
LEMMA ProductAndQuotient ==
  ASSUME NEW v \in Nat, NEW n \in Nat, NEW s \in Nat \ {0}, NEW b \in Nat \ {0},
         v < n, n <= (b - 1) \div s
  PROVE  /\ v * s \in 0 .. b - 1
         /\ (v * s) \div s = v
<1> DEFINE q == (b - 1) \div s
<1>1. q \in Nat /\ q * s <= b - 1
  OBVIOUS
<1>2. v * s <= q * s /\ v * s \in Nat
  <2> HIDE DEF q
  <2>1. v <= q /\ q \in Nat
    BY <1>1 DEF q
  <2>2. q = v + (q - v) /\ q - v \in Nat
    BY <2>1
  <2>3. q * s = v * s + (q - v) * s
    BY <2>1
  <2>4. v * s \in Nat /\ (q - v) * s \in Nat
    BY <2>2
  <2> QED
    BY <2>3, <2>4
<1>3. (v * s) \div s = v
  OBVIOUS
<1> QED
  BY <1>1, <1>2, <1>3

(* The workload of a run, and the results it has so far. *)
RunTyped ==
  /\ program \in Seq(ProgramSteps)
  /\ \E S : records \in Seq(S)
  /\ reaches \in Nat

(* The program of a new simulation is one its configuration yields. *)
LEMMA InitRunTyped == Init => RunTyped
<1> SUFFICES ASSUME Init PROVE RunTyped
  OBVIOUS
<1>1. program \in Seq(ProgramSteps)
  <2>1. CASE IsConstructible(config)
    BY <2>1, ProgramsTyped DEF Init, IsAccepted
  <2>2. CASE ~IsConstructible(config)
    BY <2>2 DEF Init
  <2> QED
    BY <2>1, <2>2
<1>2. <<>> \in Seq({})
  OBVIOUS
<1> QED
  BY <1>1, <1>2 DEF Init, NewSimulation, RunTyped

(* The program stays, and the results grow. *)
LEMMA NextRunTyped == RunTyped /\ [Next]_vars => RunTyped'
<1> SUFFICES ASSUME RunTyped, [Next]_vars PROVE RunTyped'
  OBVIOUS
<1>1. CASE StartRun
  <2>1. <<>> \in Seq({})
    OBVIOUS
  <2> QED
    BY <1>1, <2>1 DEF StartRun, RunTyped
<1>2. CASE ExecuteAccess
  <2>1. PICK S : records \in Seq(S)
    BY DEF RunTyped
  <2>2. records' = Append(records, result')
    BY <1>2 DEF ExecuteAccess
  <2>3. records \in Seq(S \cup {result'})
    BY <2>1
  <2>4. records' \in Seq(S \cup {result'})
    BY <2>2, <2>3
  <2> QED
    BY <1>2, <2>4 DEF ExecuteAccess, RunTyped
<1>3. CASE FinishRun \/ CallbackThrows \/ UNCHANGED vars
  BY <1>3 DEF FinishRun, CallbackThrows, vars, runVars, RunTyped
<1>4. CASE ReachPhysicalMemory
  BY <1>4 DEF ReachPhysicalMemory, runVars, RunTyped
<1> QED
  BY <1>1, <1>2, <1>3, <1>4 DEF Next

(* An access of a run, as the unit sees it. *)
LEMMA StepOfRun ==
  ASSUME RunTyped, Registered, ExecuteAccess
  PROVE  \E process \in Processes, v \in VirtualPages :
           /\ process = program[Len(records) + 1].process
           /\ v = program[Len(records) + 1].page
           /\ Mmu!Access(process, v * PageSize, FALSE)
           /\ Addressable
<1>1. Len(records) \in Nat /\ Len(program) \in Nat
  BY DEF RunTyped
<1>2. Len(records) + 1 \in 1 .. Len(program)
  BY <1>1 DEF ExecuteAccess
<1>3. program[Len(records) + 1] \in ProgramSteps
  BY <1>2, ElementOfSeq DEF RunTyped
<1> QED
  BY <1>3 DEF ExecuteAccess, ProgramSteps, Registered

(* The accesses of a process among the first n. *)
Mine(process, n) == {i \in 1 .. n : program[i].process = process}

(* Those that faulted. *)
Faulted(process, n) == {i \in Mine(process, n) : records[i].pageFault}

(* What the executor, the unit, its per-process statistics and the policy  *)
(* have counted of a run whose callback leaves the memory alone.           *)
Counted ==
  /\ statistics \in [accesses : Nat, succeeded : Nat, failed : {0},
                     faults : Nat, replacements : Nat, dirtyEvictions : Nat]
  /\ statistics.accesses = statistics.succeeded
  /\ statistics.faults = counts.faults
  /\ statistics.replacements = counts.replacements
  /\ statistics.replacements = pol.replacements
  /\ statistics.dirtyEvictions = pol.dirtyEvictions
  /\ \A process \in Processes :
       /\ procStats[process].accesses = Cardinality(Mine(process, Len(records)))
       /\ procStats[process].faults = Cardinality(Faulted(process, Len(records)))

(* The invariant is as strong as both properties. *)
LEMMA CountedAgrees ==
  Counted => AccessesSucceed /\ StatisticsAgree
<1> SUFFICES ASSUME Counted PROVE AccessesSucceed /\ StatisticsAgree
  OBVIOUS
<1>1. /\ statistics.failed = 0
      /\ statistics.accesses = statistics.succeeded + statistics.failed
  BY DEF Counted
<1>2. \A process \in Processes :
        LET mine == {i \in 1 .. Len(records) : program[i].process = process}
        IN  /\ procStats[process].accesses = Cardinality(mine)
            /\ procStats[process].faults = Cardinality({i \in mine : records[i].pageFault})
  BY DEF Counted, Mine, Faulted
<1> QED
  BY <1>1, <1>2 DEF Counted, AccessesSucceed, StatisticsAgree

(* Nothing is counted of a run that has not begun. *)
Uncounted ==
  /\ statistics = NoStatistics
  /\ records = <<>>
  /\ counts = Mmu!NoCounts
  /\ procStats = Mmu!NoProcStats
  /\ config \in Configurations
  /\ pol = Mmu!NewPolicy(config.policy)

(* Nothing is counted, in all the places that count. *)
LEMMA UncountedCounts == Uncounted => Counted
<1> SUFFICES ASSUME Uncounted PROVE Counted
  OBVIOUS
<1>1. pol.replacements = 0 /\ pol.dirtyEvictions = 0
  <2>1. /\ config.policy \in {"FIFO", "LRU", "CLOCK", "OPTIMAL"}
        /\ pol = Mmu!NewPolicy(config.policy)
    BY ConfigurationsAssumption DEF Uncounted, Mmu!PolicyKinds
  <2> QED
    BY <2>1 DEF Mmu!NewPolicy, Mmu!Fifo!Empty, Mmu!Lru!Empty, Mmu!Clock!Empty, Mmu!Optimal!Empty
<1>2. \A process : Mine(process, Len(records)) = {} /\ Faulted(process, Len(records)) = {}
  BY DEF Uncounted, Mine, Faulted
<1>3. Cardinality({}) = 0
  BY FS_EmptySet
<1> QED
  BY <1>1, <1>2, <1>3 DEF Uncounted, Counted, NoStatistics, Mmu!NoCounts, Mmu!NoProcStats

(* Counting one more number. *)
LEMMA CountOneMore ==
  ASSUME NEW n \in Nat, NEW S \in SUBSET (1 .. n)
  PROVE  /\ Cardinality(S) \in Nat
         /\ Cardinality(S \cup {n + 1}) = Cardinality(S) + 1
<1>1. IsFiniteSet(1 .. n) /\ n + 1 \notin S
  BY FS_Interval
<1>2. IsFiniteSet(S)
  BY <1>1, FS_Subset
<1> QED
  BY <1>1, <1>2, FS_AddElement, FS_CardinalityType

(* One, if something happened. *)
OneIf(b) == IF b THEN 1 ELSE 0

(* The unit and the policy count the access of a process as its result     *)
(* tells.                                                                  *)
CountsAsTold(process) ==
  /\ result'.success = TRUE
  /\ result'.pageFault \in BOOLEAN
  /\ result'.replaced \in BOOLEAN
  /\ result'.dirtyEviction \in BOOLEAN
  /\ counts'.faults = counts.faults + OneIf(result'.pageFault)
  /\ counts'.replacements = counts.replacements + OneIf(result'.replaced)
  /\ pol'.replacements = pol.replacements + OneIf(result'.replaced)
  /\ pol'.dirtyEvictions = pol.dirtyEvictions + OneIf(result'.dirtyEviction)
  /\ \A q \in Processes :
       /\ procStats'[q].accesses = procStats[q].accesses + OneIf(q = process)
       /\ procStats'[q].faults = procStats[q].faults + OneIf(q = process /\ result'.pageFault)

(* Then the executor, which counts results, goes on agreeing with them.    *)
LEMMA ResultCounted ==
  ASSUME RunTyped, Counted, ExecuteAccess,
         NEW process \in Processes, process = program[Len(records) + 1].process,
         CountsAsTold(process)
  PROVE  Counted'
<1> DEFINE n == Len(records)
<1>1. process = program[n + 1].process
  OBVIOUS
<1>2. n \in Nat /\ program' = program
  BY DEF RunTyped, ExecuteAccess
<1>3. /\ Len(records') = n + 1
      /\ records'[n + 1] = result'
      /\ \A i \in 1 .. n : records'[i] = records[i]
  <2>1. PICK S : records \in Seq(S)
    BY DEF RunTyped
  <2>2. records' = Append(records, result')
    BY DEF ExecuteAccess
  <2>3. records \in Seq(S \cup {result'})
    BY <2>1
  <2> QED
    BY <2>2, <2>3
<1> DEFINE old(q)   == Mine(q, n)
           new(q)   == {i \in 1 .. n + 1 : program'[i].process = q}
           oldF(q)  == Faulted(q, n)
           newF(q)  == {i \in new(q) : records'[i].pageFault}
<1>4. ASSUME NEW q \in Processes
      PROVE  /\ Cardinality(new(q)) = Cardinality(old(q)) + OneIf(q = process)
             /\ Cardinality(newF(q))
                  = Cardinality(oldF(q)) + OneIf(q = process /\ result'.pageFault)
  <2> HIDE DEF n
  <2>1. 1 .. n + 1 = (1 .. n) \cup {n + 1} /\ n + 1 \notin 1 .. n
    BY <1>2
  <2>2. new(q) = IF q = process THEN old(q) \cup {n + 1} ELSE old(q)
    BY <1>1, <1>2, <2>1 DEF Mine
  <2>3. newF(q) = IF q = process /\ result'.pageFault THEN oldF(q) \cup {n + 1} ELSE oldF(q)
    BY <1>3, <2>1, <2>2 DEF Faulted, Mine
  <2>4. old(q) \in SUBSET (1 .. n) /\ oldF(q) \in SUBSET (1 .. n)
    BY DEF Mine, Faulted
  <2>5. /\ Cardinality(old(q)) \in Nat /\ Cardinality(oldF(q)) \in Nat
        /\ Cardinality(old(q) \cup {n + 1}) = Cardinality(old(q)) + 1
        /\ Cardinality(oldF(q) \cup {n + 1}) = Cardinality(oldF(q)) + 1
    BY <1>2, <2>4, CountOneMore
  <2> HIDE DEF old, oldF, new, newF
  <2> QED
    BY <2>2, <2>3, <2>5 DEF OneIf
<1>5. \A q \in Processes :
        /\ procStats'[q].accesses = Cardinality(Mine(q, Len(records)))'
        /\ procStats'[q].faults = Cardinality(Faulted(q, Len(records)))'
  <2> SUFFICES ASSUME NEW q \in Processes
               PROVE  /\ procStats'[q].accesses = Cardinality(Mine(q, Len(records)))'
                      /\ procStats'[q].faults = Cardinality(Faulted(q, Len(records)))'
    OBVIOUS
  <2>1. /\ procStats[q].accesses = Cardinality(old(q))
        /\ procStats[q].faults = Cardinality(oldF(q))
    BY DEF Counted
  <2>2. Mine(q, Len(records))' = new(q) /\ Faulted(q, Len(records))' = newF(q)
    BY <1>3 DEF Mine, Faulted
  <2>3. /\ procStats'[q].accesses = procStats[q].accesses + OneIf(q = process)
        /\ procStats'[q].faults = procStats[q].faults + OneIf(q = process /\ result'.pageFault)
    BY DEF CountsAsTold
  <2> HIDE DEF old, oldF, new, newF
  <2> QED
    BY <1>4, <2>1, <2>2, <2>3
<1>6. \A b \in BOOLEAN : OneIf(b) \in Nat
  BY DEF OneIf
<1>7. /\ statistics.accesses \in Nat /\ statistics.succeeded \in Nat /\ statistics.failed = 0
       /\ statistics.faults \in Nat /\ statistics.replacements \in Nat
       /\ statistics.dirtyEvictions \in Nat
       /\ statistics.accesses = statistics.succeeded
       /\ statistics.faults = counts.faults
       /\ statistics.replacements = counts.replacements
       /\ statistics.replacements = pol.replacements
       /\ statistics.dirtyEvictions = pol.dirtyEvictions
  BY DEF Counted
<1> DEFINE faults       == OneIf(result'.pageFault)
           replacements == OneIf(result'.replaced)
           evictions    == OneIf(result'.dirtyEviction)
<1>8. /\ counts'.faults = counts.faults + faults
       /\ counts'.replacements = counts.replacements + replacements
       /\ pol'.replacements = pol.replacements + replacements
       /\ pol'.dirtyEvictions = pol.dirtyEvictions + evictions
       /\ faults \in Nat /\ replacements \in Nat /\ evictions \in Nat
  <2>1. /\ result'.pageFault \in BOOLEAN /\ result'.replaced \in BOOLEAN
        /\ result'.dirtyEviction \in BOOLEAN
    BY DEF CountsAsTold
  <2> QED
    BY <1>6, <2>1 DEF CountsAsTold
<1>9. statistics' = [accesses       |-> statistics.accesses + 1,
                     succeeded      |-> statistics.succeeded + 1,
                     failed         |-> 0,
                     faults         |-> statistics.faults + faults,
                     replacements   |-> statistics.replacements + replacements,
                     dirtyEvictions |-> statistics.dirtyEvictions + evictions]
  <2>1. statistics' = Recorded(statistics, result') /\ result'.success = TRUE
    BY DEF ExecuteAccess, CountsAsTold
  <2>2. statistics.failed + 0 = 0
    BY <1>7
  <2> QED
    BY <2>1, <2>2 DEF Recorded, OneIf
<1> HIDE DEF faults, replacements, evictions
<1>10. /\ statistics' \in [accesses : Nat, succeeded : Nat, failed : {0},
                             faults : Nat, replacements : Nat, dirtyEvictions : Nat]
        /\ statistics'.accesses = statistics'.succeeded
        /\ statistics'.faults = counts'.faults
        /\ statistics'.replacements = counts'.replacements
        /\ statistics'.replacements = pol'.replacements
        /\ statistics'.dirtyEvictions = pol'.dirtyEvictions
  <2>1. /\ statistics'.accesses = statistics.accesses + 1
        /\ statistics'.succeeded = statistics.succeeded + 1
        /\ statistics'.faults = statistics.faults + faults
        /\ statistics'.replacements = statistics.replacements + replacements
        /\ statistics'.dirtyEvictions = statistics.dirtyEvictions + evictions
    BY <1>9
  <2>2. /\ statistics.accesses + 1 \in Nat
        /\ statistics.succeeded + 1 \in Nat
        /\ statistics.faults + faults \in Nat
        /\ statistics.replacements + replacements \in Nat
        /\ statistics.dirtyEvictions + evictions \in Nat
    <3>1. \A x, y \in Nat : x + y \in Nat /\ x + 1 \in Nat
      OBVIOUS
    <3>2. /\ statistics.accesses \in Nat /\ statistics.succeeded \in Nat
          /\ statistics.faults \in Nat /\ statistics.replacements \in Nat
          /\ statistics.dirtyEvictions \in Nat
      BY <1>7
    <3>3. faults \in Nat /\ replacements \in Nat /\ evictions \in Nat
      BY <1>8
    <3> QED
      BY <3>1, <3>2, <3>3
  <2>3. statistics' \in [accesses : Nat, succeeded : Nat, failed : {0},
                         faults : Nat, replacements : Nat, dirtyEvictions : Nat]
    BY <1>9, <2>2
  <2> QED
    BY <1>7, <1>8, <2>1, <2>3
<1> QED
  BY <1>5, <1>10 DEF Counted

(* So it is in a new simulation. *)
LEMMA InitCounted == Init => Counted
BY UncountedCounts DEF Init, NewSimulation, Uncounted

-----------------------------------------------------------------------------
(* What the log accounts for *)

(* What recording appends to a log. *)
LEMMA Appended ==
  ASSUME NEW l, IsLog(l), NEW E, NEW es \in Seq(E), \A i \in 1 .. Len(es) : IsEvent(es[i]),
         NEW k, k = Mmu!Activity!RecordAll(l, es)
  PROVE  /\ Len(l.events) \in Nat /\ Len(es) \in Nat
         /\ Len(k.events) = Len(l.events) + Len(es)
         /\ k.next = Len(l.events) + Len(es)
         /\ \A i \in 1 .. Len(l.events) : k.events[i] = l.events[i]
         /\ \A i \in 1 .. Len(es) :
              k.events[Len(l.events) + i] = [es[i] EXCEPT !.sequence = Len(l.events) + i - 1]
<1> DEFINE n == Len(es)
           L == Len(l.events)
           t == [i \in 1 .. n |-> [es[i] EXCEPT !.sequence = L + i - 1]]
<1>1. PICK S : l.events \in Seq(S)
  BY DEF IsLog
<1>2. n \in Nat /\ L \in Nat
  BY <1>1
<1>3. k.events = l.events \o t /\ k.next = L + n
  <2>1. /\ l.attached = TRUE /\ l.next = L
        /\ l = [attached |-> TRUE, events |-> l.events, next |-> l.next]
    BY DEF IsLog
  <2>2. k = [l EXCEPT !.events = l.events \o t, !.next = l.next + n]
    BY <2>1 DEF Mmu!Activity!RecordAll
  <2> HIDE DEF t, n, L
  <2> QED
    BY <2>1, <2>2
<1> DEFINE T == {t[i] : i \in 1 .. n}
           U == S \cup T
<1>4. t \in Seq(T) /\ Len(t) = n
  <2>1. t \in [1 .. n -> T]
    <3>1. \A i \in 1 .. n : t[i] \in T
      OBVIOUS
    <3>2. t = [i \in 1 .. n |-> t[i]]
      OBVIOUS
    <3> HIDE DEF t, T
    <3> QED
      BY <3>1, <3>2
  <2> HIDE DEF t, T
  <2> QED
    BY <1>2, <2>1, LenProperties
<1>5. \A i \in 1 .. n : t[i] = [es[i] EXCEPT !.sequence = L + i - 1]
  OBVIOUS
<1> HIDE DEF t, T, n, L
<1>6. l.events \in Seq(U) /\ t \in Seq(U)
  BY <1>1, <1>4
<1> HIDE DEF U
<1>7. /\ Len(l.events \o t) = L + n
      /\ \A i \in 1 .. L + n : (l.events \o t)[i] = IF i <= L THEN l.events[i] ELSE t[i - L]
  BY <1>4, <1>6, ConcatProperties DEF L
<1>8. \A i \in 1 .. L : k.events[i] = l.events[i]
  BY <1>2, <1>3, <1>7
<1>9. \A i \in 1 .. n : k.events[L + i] = [es[i] EXCEPT !.sequence = L + i - 1]
  <2>1. \A i \in 1 .. n : L + i \in 1 .. L + n /\ ~(L + i <= L) /\ (L + i) - L = i
    BY <1>2
  <2> QED
    BY <1>3, <1>5, <1>7, <2>1
<1> QED
  BY <1>2, <1>3, <1>7, <1>8, <1>9 DEF n, L

(* The numbers of the events from one on that are of a type. *)
Among(events, first, last, type) == {i \in first .. last : events[i].type = type}

(* The events all the same but for their number. *)
SameEvent(e, d) ==
  /\ e.type = d.type
  /\ e.process = d.process
  /\ e.success = d.success
  /\ e.pageFault = d.pageFault
  /\ e.replaced = d.replaced

(* What the flags of an event need to be there. *)
IsFullEvent(e) ==
  IsEvent(e) /\ {"process", "success", "pageFault", "replaced"} \subseteq DOMAIN e

(* Every event has them. *)
LEMMA FullEvents ==
  ASSUME NEW pid, NEW p
  PROVE  /\ IsFullEvent(Mmu!Activity!Status(pid, p))
         /\ IsFullEvent(Mmu!Activity!PageFault(pid, p))
         /\ \A f : /\ IsFullEvent(Mmu!Activity!FrameAssignment(pid, p, f))
                  /\ IsFullEvent(Mmu!Activity!DirtyEviction(pid, p, f))
         /\ \A f, v : IsFullEvent(Mmu!Activity!PageReplacement(pid, p, f, v))
BY DEF IsFullEvent, IsEvent, Mmu!Activity!Status, Mmu!Activity!PageFault,
       Mmu!Activity!DirtyEviction, Mmu!Activity!FrameAssignment, Mmu!Activity!PageReplacement,
       Mmu!Activity!Event

(* What each is, and what the event of an access says. *)
LEMMA EventTypes ==
  ASSUME NEW pid, NEW p
  PROVE  /\ Mmu!Activity!Status(pid, p).type = "Status"
         /\ Mmu!Activity!PageFault(pid, p).type = "PageFault"
         /\ \A f : /\ Mmu!Activity!FrameAssignment(pid, p, f).type = "FrameAssignment"
                  /\ Mmu!Activity!DirtyEviction(pid, p, f).type = "DirtyEviction"
         /\ \A f, v : Mmu!Activity!PageReplacement(pid, p, f, v).type = "PageReplacement"
BY DEF Mmu!Activity!Status, Mmu!Activity!PageFault, Mmu!Activity!DirtyEviction,
       Mmu!Activity!FrameAssignment, Mmu!Activity!PageReplacement, Mmu!Activity!Event

(* What the event of an access says of the access. *)
LEMMA AccessEvent ==
  ASSUME NEW pid, NEW p, NEW f, NEW r, NEW e, e = Mmu!Activity!Access(pid, p, f, r)
  PROVE  /\ IsFullEvent(e)
         /\ e.type = "Access"
         /\ e.process = pid
         /\ e.success = r.success
         /\ e.pageFault = r.pageFault
         /\ e.replaced = r.replaced
BY DEF IsFullEvent, IsEvent, Mmu!Activity!Access, Mmu!Activity!Event

(* An access has counted a kind of event, or it has not, as the log tells: *)
(* of the events from the L-th on up to the last, at most one is of the    *)
(* type.                                                                   *)
ToldAsCounted(es, n, type, before, after) ==
  \/ /\ Among(es, 1, n, type) = {}
     /\ after = before
  \/ /\ \E k \in 1 .. n : Among(es, 1, n, type) = {k}
     /\ after = before + 1

(* What an access reports: its own event last, and at most one event for   *)
(* each thing that is counted.                                             *)
ReportsAccess(es, pid) ==
  LET n == Len(es)
  IN  /\ n \in Nat \ {0}
      /\ Among(es, 1, n, "Access") = {n}
      /\ es[n].process = pid
      /\ es[n].success = result'.success
      /\ es[n].pageFault = result'.pageFault
      /\ es[n].replaced = result'.replaced
      /\ ToldAsCounted(es, n, "PageFault", counts.faults, counts'.faults)
      /\ ToldAsCounted(es, n, "PageReplacement", counts.replacements, counts'.replacements)
      /\ ToldAsCounted(es, n, "DirtyEviction", counts.dirtyEvictions, counts'.dirtyEvictions)

(* A step that reports so. *)
Accounts(pid) ==
  \E E : \E es \in Seq(E) :
    /\ \A i \in 1 .. Len(es) : IsFullEvent(es[i])
    /\ log' = Mmu!Activity!RecordAll(log, es)
    /\ ReportsAccess(es, pid)

AreCounts(c) == c \in [faults : Nat, replacements : Nat, dirtyEvictions : Nat]

(* Two events, likewise. *)
LEMMA Pair == ASSUME NEW a, NEW b PROVE <<a>> \o <<b>> = <<a, b>>
<1> DEFINE S == {a, b}
           t == <<a>> \o <<b>>
<1>1. <<a>> \in Seq(S) /\ <<b>> \in Seq(S) /\ Len(<<a>>) = 1 /\ Len(<<b>>) = 1
  OBVIOUS
<1>2. t \in Seq(S) /\ Len(t) = 2
  BY <1>1, ConcatProperties
<1>3. t[1] = a /\ t[2] = b
  <2>1. \A i \in 1 .. 2 : t[i] = IF i <= 1 THEN <<a>>[i] ELSE <<b>>[i - 1]
    BY <1>1, ConcatProperties
  <2> HIDE DEF t
  <2>2. t[1] = <<a>>[1] /\ t[2] = <<b>>[1]
    BY <2>1
  <2> QED
    BY <2>2
<1> HIDE DEF t, S
<1>4. t = <<t[1], t[2]>>
  BY <1>2
<1> QED
  BY <1>3, <1>4 DEF t

(* Of the events of an access that moves nothing none is counted. *)
LEMMA TwoAccount ==
  ASSUME NEW pid, NEW q, NEW p, NEW f, UNCHANGED counts,
         log' = Mmu!Activity!RecordAll(log, <<Mmu!Activity!Status(pid, q),
                                              Mmu!Activity!Access(pid, p, f, result')>>)
  PROVE  Accounts(pid)
<1> DEFINE a == Mmu!Activity!Status(pid, q)
           b == Mmu!Activity!Access(pid, p, f, result')
           es == <<a, b>>
<1>1. /\ IsFullEvent(a) /\ IsFullEvent(b) /\ a.type = "Status" /\ b.type = "Access"
      /\ b.process = pid /\ b.success = result'.success
      /\ b.pageFault = result'.pageFault /\ b.replaced = result'.replaced
  <2>1. IsFullEvent(a) /\ a.type = "Status"
    BY FullEvents, EventTypes
  <2>2. /\ IsFullEvent(b) /\ b.type = "Access"
        /\ b.process = pid /\ b.success = result'.success
        /\ b.pageFault = result'.pageFault /\ b.replaced = result'.replaced
    BY AccessEvent
  <2> QED
    BY <2>1, <2>2
<1> HIDE DEF a, b
<1>2. es \in Seq({a, b}) /\ Len(es) = 2 /\ es[1] = a /\ es[2] = b
  OBVIOUS
<1> HIDE DEF es
<1>3. /\ Among(es, 1, 2, "Access") = {2}
      /\ Among(es, 1, 2, "PageFault") = {} /\ Among(es, 1, 2, "PageReplacement") = {}
      /\ Among(es, 1, 2, "DirtyEviction") = {}
  BY <1>1, <1>2 DEF Among
<1>4. ReportsAccess(es, pid)
  BY <1>1, <1>2, <1>3 DEF ReportsAccess, ToldAsCounted
<1>5. \A i \in 1 .. Len(es) : IsFullEvent(es[i])
  BY <1>1, <1>2
<1> QED
  BY <1>2, <1>4, <1>5 DEF Accounts, es, a, b

(* A fault that is not served is counted and told. *)
LEMMA ThreeAccount ==
  ASSUME NEW pid, NEW p, NEW f, AreCounts(counts),
         counts' = [counts EXCEPT !.faults = @ + 1],
         Mmu!Reports(pid, p, <<Mmu!Activity!PageFault(pid, p)>>, f)
  PROVE  Accounts(pid)
<1> DEFINE a == Mmu!Activity!Status(pid, p)
           b == Mmu!Activity!PageFault(pid, p)
           c == Mmu!Activity!Access(pid, p, f, result')
           es == <<a>> \o <<b>> \o <<c>>
<1>1. /\ IsFullEvent(a) /\ IsFullEvent(b) /\ IsFullEvent(c)
      /\ a.type = "Status" /\ b.type = "PageFault" /\ c.type = "Access"
      /\ c.process = pid /\ c.success = result'.success
      /\ c.pageFault = result'.pageFault /\ c.replaced = result'.replaced
  <2>1. /\ IsFullEvent(a) /\ IsFullEvent(b) /\ a.type = "Status" /\ b.type = "PageFault"
    BY FullEvents, EventTypes
  <2>2. /\ IsFullEvent(c) /\ c.type = "Access"
        /\ c.process = pid /\ c.success = result'.success
        /\ c.pageFault = result'.pageFault /\ c.replaced = result'.replaced
    BY AccessEvent
  <2> QED
    BY <2>1, <2>2
<1>2. log' = Mmu!Activity!RecordAll(log, es)
  BY DEF Mmu!Reports
<1> HIDE DEF a, b, c
<1>3. es = <<a, b, c>>
  <2>1. <<a>> \o <<b>> = <<a, b>>
    BY Pair
  <2> QED
    BY <2>1, Triple
<1> HIDE DEF es
<1>4. es \in Seq({a, b, c}) /\ Len(es) = 3 /\ es[1] = a /\ es[2] = b /\ es[3] = c
  BY <1>3
<1>5. /\ Among(es, 1, 3, "Access") = {3}
      /\ Among(es, 1, 3, "PageFault") = {2} /\ Among(es, 1, 3, "PageReplacement") = {}
      /\ Among(es, 1, 3, "DirtyEviction") = {}
  BY <1>1, <1>4 DEF Among
<1>6. /\ counts'.faults = counts.faults + 1 /\ counts'.replacements = counts.replacements
      /\ counts'.dirtyEvictions = counts.dirtyEvictions
  BY DEF AreCounts
<1>7. ReportsAccess(es, pid)
  BY <1>1, <1>4, <1>5, <1>6 DEF ReportsAccess, ToldAsCounted
<1>8. \A i \in 1 .. Len(es) : IsFullEvent(es[i])
  BY <1>1, <1>4
<1> QED
  BY <1>2, <1>4, <1>7, <1>8 DEF Accounts

(* One more element. *)
LEMMA OneMore ==
  ASSUME NEW S, NEW t \in Seq(S), NEW d \in S, NEW n \in Nat, Len(t) = n,
         NEW u, u = t \o <<d>>
  PROVE  /\ u \in Seq(S)
         /\ Len(u) = n + 1
         /\ \A i \in 1 .. n : u[i] = t[i]
         /\ u[n + 1] = d
<1>1. <<d>> \in Seq(S) /\ Len(<<d>>) = 1 /\ <<d>>[1] = d
  OBVIOUS
<1>2. /\ u \in Seq(S) /\ Len(u) = n + 1
      /\ \A i \in 1 .. n + 1 : u[i] = IF i <= n THEN t[i] ELSE <<d>>[i - n]
  BY <1>1, ConcatProperties
<1>3. n + 1 \in 1 .. n + 1 /\ ~(n + 1 <= n) /\ (n + 1) - n = 1
  OBVIOUS
<1>4. u[n + 1] = d
  BY <1>1, <1>2, <1>3
<1>5. \A i \in 1 .. n : u[i] = t[i]
  BY <1>2
<1> QED
  BY <1>2, <1>4, <1>5

(* Four events, written as a report writes them. *)
LEMMA Quadruple ==
  ASSUME NEW a, NEW b, NEW c, NEW d PROVE <<a>> \o <<b, c>> \o <<d>> = <<a, b, c, d>>
<1> DEFINE S == {a, b, c, d}
           t == <<a>> \o <<b, c>>
           u == t \o <<d>>
<1>1. /\ <<a>> \in Seq(S) /\ <<b, c>> \in Seq(S) /\ <<d>> \in Seq(S)
      /\ Len(<<a>>) = 1 /\ Len(<<b, c>>) = 2 /\ Len(<<d>>) = 1
  OBVIOUS
<1>2. t \in Seq(S) /\ Len(t) = 3
      /\ \A i \in 1 .. 3 : t[i] = IF i <= 1 THEN <<a>>[i] ELSE <<b, c>>[i - 1]
  BY <1>1, ConcatProperties
<1>0. u = t \o <<d>> /\ d \in S
  OBVIOUS
<1> HIDE DEF t, S, u
<1>3. u \in Seq(S) /\ Len(u) = 4 /\ (\A i \in 1 .. 3 : u[i] = t[i]) /\ u[4] = d
  <2> DEFINE n == 3
  <2>1. n \in Nat /\ Len(t) = n
    BY <1>2
  <2> HIDE DEF n
  <2>2. u \in Seq(S) /\ Len(u) = n + 1 /\ (\A i \in 1 .. n : u[i] = t[i]) /\ u[n + 1] = d
    BY <1>0, <1>2, <2>1, OneMore
  <2> QED
    BY <2>2 DEF n
<1>4. t[1] = a /\ t[2] = b /\ t[3] = c
  <2>1. t[1] = <<a>>[1] /\ t[2] = <<b, c>>[1] /\ t[3] = <<b, c>>[2]
    BY <1>2
  <2> QED
    BY <2>1
<1>5. u[1] = a /\ u[2] = b /\ u[3] = c /\ u[4] = d
  <2>1. u[1] = t[1] /\ u[2] = t[2] /\ u[3] = t[3] /\ u[4] = d
    BY <1>3
  <2> QED
    BY <1>4, <2>1
<1>6. u = <<u[1], u[2], u[3], u[4]>>
  BY <1>3
<1> QED
  BY <1>5, <1>6 DEF u, t

(* A fault served from a free frame is counted and told. *)
LEMMA FourAccount ==
  ASSUME NEW pid, NEW p, NEW f, AreCounts(counts),
         counts' = [counts EXCEPT !.faults = @ + 1],
         Mmu!Reports(pid, p, <<Mmu!Activity!PageFault(pid, p),
                               Mmu!Activity!FrameAssignment(pid, p, f)>>, f)
  PROVE  Accounts(pid)
<1> DEFINE a == Mmu!Activity!Status(pid, p)
           b == Mmu!Activity!PageFault(pid, p)
           c == Mmu!Activity!FrameAssignment(pid, p, f)
           d == Mmu!Activity!Access(pid, p, f, result')
           es == <<a>> \o <<b, c>> \o <<d>>
<1>1. /\ IsFullEvent(a) /\ IsFullEvent(b) /\ IsFullEvent(c)
      /\ a.type = "Status" /\ b.type = "PageFault" /\ c.type = "FrameAssignment"
  BY FullEvents, EventTypes
<1>2. /\ IsFullEvent(d) /\ d.type = "Access"
      /\ d.process = pid /\ d.success = result'.success
      /\ d.pageFault = result'.pageFault /\ d.replaced = result'.replaced
  BY AccessEvent
<1>3. log' = Mmu!Activity!RecordAll(log, es)
  BY DEF Mmu!Reports
<1> HIDE DEF a, b, c, d
<1>4. es = <<a, b, c, d>>
  BY Quadruple
<1> HIDE DEF es
<1>5. /\ es \in Seq({a, b, c, d}) /\ Len(es) = 4
      /\ es[1] = a /\ es[2] = b /\ es[3] = c /\ es[4] = d
  BY <1>4
<1>6. /\ Among(es, 1, 4, "Access") = {4}
      /\ Among(es, 1, 4, "PageFault") = {2} /\ Among(es, 1, 4, "PageReplacement") = {}
      /\ Among(es, 1, 4, "DirtyEviction") = {}
  BY <1>1, <1>2, <1>5 DEF Among
<1>7. /\ counts'.faults = counts.faults + 1 /\ counts'.replacements = counts.replacements
      /\ counts'.dirtyEvictions = counts.dirtyEvictions
  BY DEF AreCounts
<1>8. ReportsAccess(es, pid)
  BY <1>2, <1>5, <1>6, <1>7 DEF ReportsAccess, ToldAsCounted
<1>9. \A i \in 1 .. Len(es) : IsFullEvent(es[i])
  BY <1>1, <1>2, <1>5
<1> QED
  BY <1>3, <1>5, <1>8, <1>9 DEF Accounts

(* A replacement is counted and told, with the dirty eviction if there is  *)
(* one.                                                                    *)
LEMMA ReplacementAccounts ==
  ASSUME NEW pid, NEW p, NEW v, NEW f, NEW d, AreCounts(counts),
         counts' = [faults         |-> counts.faults + 1,
                    replacements   |-> counts.replacements + 1,
                    dirtyEvictions |-> counts.dirtyEvictions + IF d THEN 1 ELSE 0],
         Mmu!Reports(pid, p, Mmu!ReplacementEvents(pid, p, v, f, d), f)
  PROVE  Accounts(pid)
<1> DEFINE a == Mmu!Activity!Status(pid, p)
           b == Mmu!Activity!PageFault(pid, p)
           c == Mmu!Activity!PageReplacement(pid, p, f, v)
           e == Mmu!Activity!DirtyEviction(pid, v, f)
           z == Mmu!Activity!Access(pid, p, f, result')
           es == <<a>> \o (<<b, c>> \o (IF d THEN <<e>> ELSE <<>>)) \o <<z>>
<1>1. /\ IsFullEvent(a) /\ IsFullEvent(b) /\ IsFullEvent(c)
      /\ a.type = "Status" /\ b.type = "PageFault" /\ c.type = "PageReplacement"
  BY FullEvents, EventTypes
<1>2. IsFullEvent(e) /\ e.type = "DirtyEviction"
  BY FullEvents, EventTypes
<1>3. /\ IsFullEvent(z) /\ z.type = "Access"
      /\ z.process = pid /\ z.success = result'.success
      /\ z.pageFault = result'.pageFault /\ z.replaced = result'.replaced
  BY AccessEvent
<1>4. log' = Mmu!Activity!RecordAll(log, es)
  BY DEF Mmu!Reports, Mmu!ReplacementEvents
<1>5. /\ counts'.faults = counts.faults + 1 /\ counts'.replacements = counts.replacements + 1
      /\ counts'.dirtyEvictions = counts.dirtyEvictions + IF d THEN 1 ELSE 0
  OBVIOUS
<1> HIDE DEF a, b, c, e, z
<1>6. CASE ~d
  <2>1. <<b, c>> \o <<>> = <<b, c>>
    OBVIOUS
  <2>2. es = <<a>> \o <<b, c>> \o <<z>>
    BY <1>6, <2>1
  <2> HIDE DEF es
  <2>3. es = <<a, b, c, z>>
    BY <2>2, Quadruple
  <2>4. /\ es \in Seq({a, b, c, z}) /\ Len(es) = 4
        /\ es[1] = a /\ es[2] = b /\ es[3] = c /\ es[4] = z
    BY <2>3
  <2>5. /\ Among(es, 1, 4, "Access") = {4}
        /\ Among(es, 1, 4, "PageFault") = {2} /\ Among(es, 1, 4, "PageReplacement") = {3}
        /\ Among(es, 1, 4, "DirtyEviction") = {}
    BY <1>1, <1>3, <2>4 DEF Among
  <2>6. counts'.dirtyEvictions = counts.dirtyEvictions
    BY <1>5, <1>6 DEF AreCounts
  <2>7. ReportsAccess(es, pid)
    BY <1>3, <1>5, <2>4, <2>5, <2>6 DEF ReportsAccess, ToldAsCounted
  <2>8. \A i \in 1 .. Len(es) : IsFullEvent(es[i])
    BY <1>1, <1>3, <2>4
  <2> QED
    BY <1>4, <2>4, <2>7, <2>8 DEF Accounts
<1>7. CASE d
  <2> DEFINE S == {a, b, c, e, z}
             t == <<a>> \o <<b, c, e>>
  <2>1. <<b, c>> \o <<e>> = <<b, c, e>>
    BY Triple
  <2>2. es = t \o <<z>>
    BY <1>7, <2>1
  <2>3. /\ <<a>> \in Seq(S) /\ <<b, c, e>> \in Seq(S) /\ <<z>> \in Seq(S)
        /\ Len(<<a>>) = 1 /\ Len(<<b, c, e>>) = 3 /\ Len(<<z>>) = 1
    OBVIOUS
  <2> HIDE DEF es
  <2>4. t \in Seq(S) /\ Len(t) = 4
        /\ \A i \in 1 .. 4 : t[i] = IF i <= 1 THEN <<a>>[i] ELSE <<b, c, e>>[i - 1]
    BY <2>3, ConcatProperties
  <2> HIDE DEF t, S
  <2>0. z \in S
    BY DEF S
  <2>5. es \in Seq(S) /\ Len(es) = 5 /\ (\A i \in 1 .. 4 : es[i] = t[i]) /\ es[5] = z
    <3> DEFINE n == 4
    <3>1. n \in Nat /\ t \in Seq(S) /\ Len(t) = n
      BY <2>4
    <3> HIDE DEF n
    <3>2. /\ es \in Seq(S) /\ Len(es) = n + 1
          /\ (\A i \in 1 .. n : es[i] = t[i]) /\ es[n + 1] = z
      BY <2>0, <2>2, <3>1, OneMore
    <3> QED
      BY <3>2 DEF n
  <2>6. t[1] = a /\ t[2] = b /\ t[3] = c /\ t[4] = e
    <3>1. t[1] = <<a>>[1] /\ t[2] = <<b, c, e>>[1] /\ t[3] = <<b, c, e>>[2]
          /\ t[4] = <<b, c, e>>[3]
      BY <2>4
    <3> QED
      BY <3>1
  <2>7. es[1] = a /\ es[2] = b /\ es[3] = c /\ es[4] = e /\ es[5] = z
    <3>1. es[1] = t[1] /\ es[2] = t[2] /\ es[3] = t[3] /\ es[4] = t[4] /\ es[5] = z
      BY <2>5
    <3> QED
      BY <2>6, <3>1
  <2>8. /\ Among(es, 1, 5, "Access") = {5}
        /\ Among(es, 1, 5, "PageFault") = {2} /\ Among(es, 1, 5, "PageReplacement") = {3}
        /\ Among(es, 1, 5, "DirtyEviction") = {4}
    BY <1>1, <1>2, <1>3, <2>7 DEF Among
  <2>9. counts'.dirtyEvictions = counts.dirtyEvictions + 1
    BY <1>5, <1>7 DEF AreCounts
  <2>10. ReportsAccess(es, pid)
    BY <1>3, <1>5, <2>5, <2>7, <2>8, <2>9 DEF ReportsAccess, ToldAsCounted
  <2>11. \A i \in 1 .. Len(es) : IsFullEvent(es[i])
    BY <1>1, <1>2, <1>3, <2>5, <2>7
  <2> QED
    BY <1>4, <2>5, <2>10, <2>11 DEF Accounts
<1> QED
  BY <1>6, <1>7

(* Whatever comes of an access, it accounts for it. *)
LEMMA AccessAccounts ==
  ASSUME NEW pid, NEW a, Mmu!Access(pid, a, FALSE), AreCounts(counts)
  PROVE  Accounts(pid) /\ AreCounts(counts')
<1> DEFINE q == Mmu!Resolve(pid, a)
<1>1. CASE Mmu!AccessUnknown(pid, a)
  <2> DEFINE p == IF q \in Mmu!registered THEN q ELSE Mmu!UnknownPage
  <2>1. /\ log' = Mmu!Activity!RecordAll(log,
                     <<Mmu!Activity!Status(pid, q), Mmu!Activity!Access(pid, p, NoFrame, result')>>)
        /\ UNCHANGED counts
    <3>1. /\ result' = Mmu!Failure
          /\ log' = Mmu!Activity!RecordAll(log,
               <<Mmu!Activity!Status(pid, q), Mmu!Activity!Access(pid, p, NoFrame, Mmu!Failure)>>)
      BY <1>1 DEF Mmu!AccessUnknown
    <3>2. UNCHANGED counts
      BY <1>1 DEF Mmu!AccessUnknown, Mmu!statistics
    <3> HIDE DEF p, q
    <3> QED
      BY <3>1, <3>2
  <2> HIDE DEF p, q
  <2> QED
    BY <2>1, TwoAccount
<1>2. CASE \/ Mmu!AccessResident(pid, q, a, FALSE)
           \/ Mmu!AccessInconsistent(pid, q) \/ Mmu!FaultRefused(pid, q)
  <2> HIDE DEF q
  <2>1. UNCHANGED counts /\ \E f : Mmu!Reports(pid, q, <<>>, f)
    BY <1>2 DEF Mmu!AccessResident, Mmu!AccessInconsistent, Mmu!FaultRefused
  <2>2. PICK f : Mmu!Reports(pid, q, <<>>, f)
    BY <2>1
  <2> DEFINE x == Mmu!Activity!Status(pid, q)
             y == Mmu!Activity!Access(pid, q, f, result')
  <2>3. log' = Mmu!Activity!RecordAll(log, <<x>> \o <<>> \o <<y>>)
    BY <2>2 DEF Mmu!Reports
  <2>4. <<x>> \o <<>> \o <<y>> = <<x, y>>
    <3> HIDE DEF x, y
    <3>1. <<x>> \o <<>> = <<x>>
      OBVIOUS
    <3> QED
      BY <3>1, Pair
  <2>5. log' = Mmu!Activity!RecordAll(log, <<x, y>>)
    BY <2>3, <2>4
  <2> QED
    BY <2>1, <2>5, TwoAccount
<1>3. CASE Mmu!FaultWithoutVictim(pid, q) \/ Mmu!FaultRefusesVictim(pid, q, a)
  <2> HIDE DEF q
  <2>1. /\ counts' = [counts EXCEPT !.faults = @ + 1]
        /\ Mmu!Reports(pid, q, <<Mmu!Activity!PageFault(pid, q)>>, NoFrame)
    BY <1>3 DEF Mmu!FaultWithoutVictim, Mmu!FaultRefusesVictim, Mmu!CountFault
  <2>2. AreCounts(counts')
    BY <2>1 DEF AreCounts
  <2> QED
    BY <2>1, <2>2, ThreeAccount
<1>4. CASE Mmu!FaultWithFreeFrame(pid, q, a, FALSE)
  <2> DEFINE f == Mmu!MapPage(mem, q).table[q]
  <2> HIDE DEF q
  <2>1. /\ counts' = [counts EXCEPT !.faults = @ + 1]
        /\ Mmu!Reports(pid, q, <<Mmu!Activity!PageFault(pid, q),
                                 Mmu!Activity!FrameAssignment(pid, q, f)>>, f)
    BY <1>4 DEF Mmu!FaultWithFreeFrame, Mmu!CountFault
  <2> HIDE DEF f
  <2>2. AreCounts(counts')
    BY <2>1 DEF AreCounts
  <2> QED
    BY <2>1, <2>2, FourAccount
<1>5. CASE Mmu!FaultWithReplacement(pid, q, a, FALSE)
  <2> DEFINE f == Mmu!Victim(pol)
             v == mem.frames[f]
             d == pages[v].dirty
  <2> HIDE DEF q
  <2>1. /\ counts' = [faults         |-> counts.faults + 1,
                      replacements   |-> counts.replacements + 1,
                      dirtyEvictions |-> counts.dirtyEvictions + IF d THEN 1 ELSE 0]
        /\ Mmu!Reports(pid, q, Mmu!ReplacementEvents(pid, q, v, f, d), f)
    BY <1>5 DEF Mmu!FaultWithReplacement
  <2> HIDE DEF f, v, d
  <2>3. counts.dirtyEvictions + (IF d THEN 1 ELSE 0) \in Nat
    BY DEF AreCounts
  <2>4. AreCounts(counts')
    BY <2>1, <2>3 DEF AreCounts
  <2> QED
    BY <2>1, <2>4, ReplacementAccounts
<1> QED
  BY <1>1, <1>2, <1>3, <1>4, <1>5 DEF Mmu!Access, Mmu!AccessKnown, AreCounts

(* One more number beyond those there were. *)
LEMMA CountBeyond ==
  ASSUME NEW n \in Nat, NEW S \in SUBSET (1 .. n), NEW k \in Int, k > n
  PROVE  /\ Cardinality(S) \in Nat
         /\ Cardinality(S \cup {k}) = Cardinality(S) + 1
<1>1. IsFiniteSet(1 .. n) /\ k \notin S
  BY FS_Interval
<1>2. IsFiniteSet(S)
  BY <1>1, FS_Subset
<1> QED
  BY <1>1, <1>2, FS_AddElement, FS_CardinalityType

(* The log as it grows: these events are recorded after those there are. *)
Grows(es) ==
  LET L == Len(log.events)
      n == Len(es)
  IN  /\ L \in Nat /\ n \in Nat
      /\ Len(log'.events) = L + n
      /\ log'.next = L + n
      /\ \A i \in 1 .. L : log'.events[i] = log.events[i]
      /\ \A i \in 1 .. n : /\ log'.events[L + i].sequence = L + i - 1
                           /\ SameEvent(log'.events[L + i], es[i])

(* Recording full events makes it grow so. *)
LEMMA RecordingGrows ==
  ASSUME IsLog(log), NEW E, NEW es \in Seq(E), \A i \in 1 .. Len(es) : IsFullEvent(es[i]),
         log' = Mmu!Activity!RecordAll(log, es)
  PROVE  Grows(es)
<1>1. \A i \in 1 .. Len(es) : IsEvent(es[i])
  BY DEF IsFullEvent
<1>2. /\ Len(log.events) \in Nat /\ Len(es) \in Nat
      /\ Len(log'.events) = Len(log.events) + Len(es)
      /\ log'.next = Len(log.events) + Len(es)
      /\ \A i \in 1 .. Len(log.events) : log'.events[i] = log.events[i]
      /\ \A i \in 1 .. Len(es) :
           log'.events[Len(log.events) + i]
             = [es[i] EXCEPT !.sequence = Len(log.events) + i - 1]
  BY <1>1, Appended
<1>3. ASSUME NEW e, IsFullEvent(e), NEW k, NEW d, d = [e EXCEPT !.sequence = k]
      PROVE  d.sequence = k /\ SameEvent(d, e)
  BY <1>3 DEF IsFullEvent, IsEvent, SameEvent
<1>4. ASSUME NEW i \in 1 .. Len(es)
      PROVE  /\ log'.events[Len(log.events) + i].sequence = Len(log.events) + i - 1
             /\ SameEvent(log'.events[Len(log.events) + i], es[i])
  <2> DEFINE d == log'.events[Len(log.events) + i]
             k == Len(log.events) + i - 1
  <2>1. d = [es[i] EXCEPT !.sequence = k] /\ IsFullEvent(es[i])
    BY <1>2
  <2> HIDE DEF d, k
  <2>2. d.sequence = k /\ SameEvent(d, es[i])
    BY <1>3, <2>1
  <2> QED
    BY <2>2 DEF d, k
<1> QED
  BY <1>2, <1>4 DEF Grows

(* The events of a type, with those recorded. *)
LEMMA EventsGrow ==
  ASSUME NEW es, Grows(es), NEW type
  PROVE  /\ Events(type) \in SUBSET (1 .. Len(log.events))
         /\ Events(type)' = Events(type) \cup
              {Len(log.events) + i : i \in Among(es, 1, Len(es), type)}
<1> DEFINE L == Len(log.events)
           n == Len(es)
           new == {L + i : i \in Among(es, 1, n, type)}
<1>1. /\ L \in Nat /\ n \in Nat /\ Len(log'.events) = L + n
      /\ \A i \in 1 .. L : log'.events[i] = log.events[i]
      /\ \A i \in 1 .. n : log'.events[L + i].type = es[i].type
  BY DEF Grows, SameEvent
<1>2. Events(type) = {i \in 1 .. L : log.events[i].type = type}
  BY DEF Events
<1>3. Events(type)' = {i \in 1 .. L + n : log'.events[i].type = type}
  BY <1>1 DEF Events
<1> HIDE DEF L, n
<1>4. ASSUME NEW j \in 1 .. L + n, log'.events[j].type = type PROVE j \in Events(type) \cup new
  <2>1. CASE j <= L
    BY <1>1, <1>2, <1>4, <2>1
  <2>2. CASE j > L
    <3>1. j - L \in 1 .. n /\ L + (j - L) = j
      BY <1>1, <2>2
    <3>2. j - L \in Among(es, 1, n, type)
      BY <1>1, <1>4, <3>1 DEF Among
    <3> QED
      BY <3>1, <3>2
  <2> QED
    BY <1>1, <2>1, <2>2
<1>5. ASSUME NEW j \in Events(type) PROVE j \in 1 .. L + n /\ log'.events[j].type = type
  BY <1>1, <1>2, <1>5
<1>6. ASSUME NEW j \in new PROVE j \in 1 .. L + n /\ log'.events[j].type = type
  <2>1. PICK i \in Among(es, 1, n, type) : j = L + i
    BY <1>6
  <2> QED
    BY <1>1, <2>1 DEF Among
<1>7. Events(type)' = Events(type) \cup new
  <2> HIDE DEF new
  <2> QED
    BY <1>3, <1>4, <1>5, <1>6
<1> QED
  BY <1>2, <1>7 DEF L, n

(* What is counted stays what the log tells. *)
LEMMA CountsGrow ==
  ASSUME NEW es, Grows(es), NEW type, NEW before, NEW after,
         before = Cardinality(Events(type)),
         ToldAsCounted(es, Len(es), type, before, after)
  PROVE  after = Cardinality(Events(type)')
<1> DEFINE L == Len(log.events)
           n == Len(es)
<1>1. /\ Events(type) \in SUBSET (1 .. L)
      /\ Events(type)' = Events(type) \cup {L + i : i \in Among(es, 1, n, type)}
  BY EventsGrow
<1>2. L \in Nat /\ n \in Nat
  BY DEF Grows
<1> HIDE DEF L
<1>3. CASE Among(es, 1, n, type) = {} /\ after = before
  <2>1. Events(type)' = Events(type)
    BY <1>1, <1>3
  <2> QED
    BY <1>3, <2>1
<1>4. CASE (\E k \in 1 .. n : Among(es, 1, n, type) = {k}) /\ after = before + 1
  <2>1. PICK k \in 1 .. n : Among(es, 1, n, type) = {k}
    BY <1>4
  <2>2. Events(type)' = Events(type) \cup {L + k}
    BY <1>1, <2>1
  <2>3. L + k \in Int /\ L + k > L
    BY <1>2
  <2>4. Cardinality(Events(type) \cup {L + k}) = Cardinality(Events(type)) + 1
    BY <1>1, <1>2, <2>3, CountBeyond
  <2> QED
    BY <1>4, <2>2, <2>4
<1> QED
  BY <1>3, <1>4 DEF ToldAsCounted

(* What makes LogAccountsForRun inductive, with the type of the run: the   *)
(* counters are numbers, so that they grow by one.                         *)
Accounted == AreCounts(counts) /\ LogAccountsForRun

(* The event of the i-th access says what the i-th result does. *)
TellsResult(e, i) ==
  /\ log.events[e].process = program[i].process
  /\ log.events[e].success = records[i].success
  /\ log.events[e].pageFault = records[i].pageFault
  /\ log.events[e].replaced = records[i].replaced

(* The access an event belongs to. *)
NumberOf(e) == Cardinality({d \in Events("Access") : d <= e})

(* An access that accounts for itself adds one result and its event. *)
LEMMA AccessesGrow ==
  ASSUME NEW es, Grows(es), NEW pid, ReportsAccess(es, pid), RunTyped,
         records' = Append(records, result'), program' = program,
         pid = program[Len(records) + 1].process,
         Cardinality(Events("Access")) = Len(records),
         \A e \in Events("Access") : TellsResult(e, NumberOf(e))
  PROVE  /\ Cardinality(Events("Access")') = Len(records')
         /\ \A e \in Events("Access")' : TellsResult(e, NumberOf(e))'
<1> DEFINE L == Len(log.events)
           n == Len(es)
           m == Len(records)
           S == Events("Access")
           T == Events("Access")'
<1>1. /\ S \in SUBSET (1 .. L)
      /\ T = S \cup {L + i : i \in Among(es, 1, n, "Access")}
  BY EventsGrow
<1>2. L \in Nat /\ n \in Nat \ {0} /\ Among(es, 1, n, "Access") = {n}
  BY DEF Grows, ReportsAccess
<1>3. T = S \cup {L + n} /\ L + n > L /\ L + n \in Int
  <2> HIDE DEF L, n
  <2> QED
    BY <1>1, <1>2
<1>4. /\ m \in Nat /\ Len(records') = m + 1 /\ records'[m + 1] = result'
      /\ \A i \in 1 .. m : records'[i] = records[i]
  <2>1. PICK R : records \in Seq(R)
    BY DEF RunTyped
  <2>2. records \in Seq(R \cup {result'})
    BY <2>1
  <2> QED
    BY <2>2
<1>5. /\ \A i \in 1 .. L : log'.events[i] = log.events[i]
      /\ SameEvent(log'.events[L + n], es[n])
  BY <1>2 DEF Grows
<1>6. /\ es[n].process = pid /\ es[n].success = result'.success
      /\ es[n].pageFault = result'.pageFault /\ es[n].replaced = result'.replaced
  BY DEF ReportsAccess
<1>7. pid = program[m + 1].process /\ Cardinality(S) = m
  OBVIOUS
<1> HIDE DEF L, n, m, S, T
<1>8. Cardinality(T) = m + 1
  BY <1>1, <1>2, <1>3, <1>7, CountBeyond
<1>9. IsFiniteSet(S)
  <2>1. IsFiniteSet(1 .. L)
    BY <1>2, FS_Interval
  <2> QED
    BY <1>1, <2>1, FS_Subset
<1>10. ASSUME NEW e \in S PROVE TellsResult(e, NumberOf(e))'
  <2> DEFINE k == NumberOf(e)
             D == {d \in S : d <= e}
  <2>1. NumberOf(e)' = Cardinality({d \in T : d <= e})
    BY DEF NumberOf, T
  <2>2. {d \in T : d <= e} = D
    BY <1>1, <1>2, <1>3
  <2>3. k = Cardinality(D) /\ NumberOf(e)' = k
    BY <2>1, <2>2 DEF NumberOf, S
  <2>4. k \in 1 .. m
    <3>1. D \in SUBSET S /\ e \in D
      BY <1>1, <1>2
    <3>2. IsFiniteSet(D) /\ Cardinality(D) <= m /\ Cardinality(D) \in Nat
      BY <1>7, <1>9, <3>1, FS_Subset, FS_CardinalityType
    <3>3. Cardinality(D) # 0
      BY <3>1, <3>2, FS_EmptySet
    <3> HIDE DEF D
    <3> QED
      BY <1>4, <2>3, <3>2, <3>3
  <2>5. TellsResult(e, k) /\ e \in 1 .. L
    BY <1>1 DEF S
  <2> HIDE DEF k
  <2>6. log'.events[e] = log.events[e] /\ records'[k] = records[k] /\ program' = program
    BY <1>4, <1>5, <2>4, <2>5
  <2> QED
    BY <2>3, <2>5, <2>6 DEF TellsResult
<1>11. ASSUME NEW e, e = L + n PROVE TellsResult(e, NumberOf(e))'
  <2>1. NumberOf(e)' = Cardinality({d \in T : d <= e})
    BY DEF NumberOf, T
  <2>2. {d \in T : d <= e} = T
    <3>1. \A d \in T : d <= L + n
      BY <1>1, <1>2, <1>3
    <3> QED
      BY <1>11, <3>1
  <2>3. NumberOf(e)' = m + 1
    BY <1>8, <2>1, <2>2
  <2>4. /\ log'.events[e].process = pid /\ log'.events[e].success = result'.success
        /\ log'.events[e].pageFault = result'.pageFault
        /\ log'.events[e].replaced = result'.replaced
    BY <1>5, <1>6, <1>11 DEF SameEvent
  <2>5. program'[m + 1].process = pid
    BY <1>7
  <2> QED
    BY <1>4, <2>3, <2>4, <2>5 DEF TellsResult
<1> QED
  BY <1>3, <1>4, <1>8, <1>10, <1>11 DEF T

(* What an access does is accounted for. *)
LEMMA AccessAccounted ==
  ASSUME Telling, RunTyped, Accounted, ExecuteAccess
  PROVE  Accounted'
<1> DEFINE pid == program[Len(records) + 1].process
           a == program[Len(records) + 1].page * PageSize
<1>1. /\ Mmu!Access(pid, a, FALSE)
      /\ records' = Append(records, result')
      /\ program' = program
  BY DEF ExecuteAccess
<1>2. Accounts(pid) /\ AreCounts(counts')
  BY <1>1, AccessAccounts DEF Accounted
<1>3. PICK E : \E es \in Seq(E) :
        /\ \A i \in 1 .. Len(es) : IsFullEvent(es[i])
        /\ log' = Mmu!Activity!RecordAll(log, es)
        /\ ReportsAccess(es, pid)
  BY <1>2 DEF Accounts
<1>4. PICK es \in Seq(E) :
        /\ \A i \in 1 .. Len(es) : IsFullEvent(es[i])
        /\ log' = Mmu!Activity!RecordAll(log, es)
        /\ ReportsAccess(es, pid)
  BY <1>3
<1>5. IsLog(log) /\ Grows(es)
  BY <1>4, RecordingGrows DEF Telling
<1>6. /\ log.next = Len(log.events)
      /\ \A i \in 1 .. log.next : log.events[i].sequence = i - 1
      /\ Cardinality(Events("PageFault")) = counts.faults
      /\ Cardinality(Events("PageReplacement")) = counts.replacements
      /\ Cardinality(Events("DirtyEviction")) = counts.dirtyEvictions
      /\ Cardinality(Events("Access")) = Len(records)
      /\ \A e \in Events("Access") : TellsResult(e, NumberOf(e))
  BY DEF Accounted, LogAccountsForRun, TellsResult, NumberOf
<1>7. /\ log'.next = Len(log'.events)
      /\ \A i \in 1 .. log'.next : log'.events[i].sequence = i - 1
  <2> DEFINE L == Len(log.events)
             n == Len(es)
  <2>1. /\ L \in Nat /\ n \in Nat /\ Len(log'.events) = L + n /\ log'.next = L + n
        /\ \A i \in 1 .. L : log'.events[i] = log.events[i]
        /\ \A i \in 1 .. n : log'.events[L + i].sequence = L + i - 1
    BY <1>5 DEF Grows
  <2>2. \A i \in 1 .. L : log.events[i].sequence = i - 1
    BY <1>6
  <2> HIDE DEF L, n
  <2>3. ASSUME NEW i \in 1 .. L + n PROVE log'.events[i].sequence = i - 1
    <3>1. CASE i <= L
      <4>1. i \in 1 .. L
        BY <2>1, <3>1
      <4>2. log'.events[i] = log.events[i]
        BY <2>1, <4>1
      <4>3. log.events[i].sequence = i - 1
        BY <2>2, <4>1
      <4> QED
        BY <4>2, <4>3
    <3>2. CASE i > L
      <4>1. \E k \in 1 .. n : i = L + k
        <5>1. i - L \in 1 .. n /\ i = L + (i - L)
          BY <2>1, <3>2
        <5> QED
          BY <5>1
      <4>2. PICK k \in 1 .. n : i = L + k
        BY <4>1
      <4>3. log'.events[L + k].sequence = L + k - 1
        BY <2>1
      <4>4. L + k - 1 = i - 1
        BY <2>1, <4>2
      <4>5. log'.events[i].sequence = L + k - 1
        BY <4>2, <4>3
      <4> QED
        BY <4>4, <4>5
    <3> QED
      BY <2>1, <3>1, <3>2
  <2> QED
    BY <2>1, <2>3
<1>8. /\ Cardinality(Events("PageFault")') = counts'.faults
      /\ Cardinality(Events("PageReplacement")') = counts'.replacements
      /\ Cardinality(Events("DirtyEviction")') = counts'.dirtyEvictions
  <2>1. /\ ToldAsCounted(es, Len(es), "PageFault", counts.faults, counts'.faults)
        /\ ToldAsCounted(es, Len(es), "PageReplacement", counts.replacements,
                         counts'.replacements)
        /\ ToldAsCounted(es, Len(es), "DirtyEviction", counts.dirtyEvictions,
                         counts'.dirtyEvictions)
    BY <1>4 DEF ReportsAccess
  <2>2. counts'.faults = Cardinality(Events("PageFault")')
    BY <1>5, <1>6, <2>1, CountsGrow
  <2>3. counts'.replacements = Cardinality(Events("PageReplacement")')
    BY <1>5, <1>6, <2>1, CountsGrow
  <2>4. counts'.dirtyEvictions = Cardinality(Events("DirtyEviction")')
    BY <1>5, <1>6, <2>1, CountsGrow
  <2> QED
    BY <2>2, <2>3, <2>4
<1>9. /\ Cardinality(Events("Access")') = Len(records')
      /\ \A e \in Events("Access")' : TellsResult(e, NumberOf(e))'
  <2> HIDE DEF a
  <2> QED
    BY <1>1, <1>4, <1>5, <1>6, AccessesGrow
<1>10. LogAccountsForRun'
  BY <1>7, <1>8, <1>9 DEF LogAccountsForRun, TellsResult, NumberOf
<1> QED
  BY <1>2, <1>10 DEF Accounted

(* A log without events, and counters at zero. *)
Unaccounted ==
  /\ log = [attached |-> TRUE, events |-> <<>>, next |-> 0]
  /\ counts = Mmu!NoCounts
  /\ records = <<>>

(* They account for no access. *)
LEMMA NothingToAccount == Unaccounted => Accounted
<1> SUFFICES ASSUME Unaccounted PROVE Accounted
  OBVIOUS
<1>1. log.events = <<>> /\ log.next = 0 /\ records = <<>>
  BY DEF Unaccounted
<1>2. Len(log.events) = 0 /\ Len(records) = 0
  BY <1>1
<1>3. Cardinality({}) = 0
  BY FS_EmptySet
<1>4. ASSUME NEW type PROVE Events(type) = {}
  BY <1>2 DEF Events
<1>5. counts.faults = 0 /\ counts.replacements = 0 /\ counts.dirtyEvictions = 0
  BY DEF Unaccounted, Mmu!NoCounts
<1>6. \A i \in 1 .. log.next : log.events[i].sequence = i - 1
  BY <1>1
<1>7. /\ Events("PageFault") = {} /\ Events("PageReplacement") = {}
      /\ Events("DirtyEviction") = {} /\ Events("Access") = {}
  BY <1>4
<1>8. LogAccountsForRun
  BY <1>1, <1>2, <1>3, <1>5, <1>6, <1>7 DEF LogAccountsForRun
<1>9. AreCounts(counts)
  BY DEF Unaccounted, AreCounts, Mmu!NoCounts
<1> QED
  BY <1>8, <1>9 DEF Accounted

(* A new simulation has such a log and such counters. *)
LEMMA InitAccounted == Init => Accounted
BY NothingToAccount DEF Init, NewSimulation, Activity!NewLog, Unaccounted

(* A new run begins with such a log; what is not an access leaves the log, *)
(* the counters and the results alone.                                     *)
LEMMA NextAccounted == Telling /\ RunTyped /\ Accounted /\ [Next]_vars => Accounted'
<1> SUFFICES ASSUME Telling, RunTyped, Accounted, [Next]_vars PROVE Accounted'
  OBVIOUS
<1>1. CASE StartRun
  <2>1. log' = [attached |-> TRUE, events |-> <<>>, next |-> 0]
    BY <1>1, ClearedLog DEF StartRun, Telling
  <2>2. counts' = Mmu!NoCounts /\ records' = <<>>
    BY <1>1 DEF StartRun
  <2>3. Unaccounted'
    BY <2>1, <2>2 DEF Unaccounted
  <2> QED
    BY <2>3, NothingToAccount, PTL
<1>2. CASE ExecuteAccess
  BY <1>2, AccessAccounted
<1>3. CASE FinishRun \/ CallbackThrows \/ ReachPhysicalMemory \/ UNCHANGED vars
  <2>1. UNCHANGED <<log, counts, records, program>>
    BY <1>3 DEF FinishRun, CallbackThrows, ReachPhysicalMemory, vars, mmuVars, runVars
  <2>2. \A type : Events(type)' = Events(type)
    BY <2>1 DEF Events
  <2>3. AreCounts(counts)' /\ LogAccountsForRun
    BY <2>1 DEF Accounted, AreCounts
  <2>4. \A e : /\ NumberOf(e)' = NumberOf(e)
               /\ \A i : TellsResult(e, i)' <=> TellsResult(e, i)
    BY <2>1, <2>2 DEF NumberOf, TellsResult
  <2>5. \A e \in Events("Access") : TellsResult(e, NumberOf(e))
    BY <2>3 DEF LogAccountsForRun, TellsResult, NumberOf
  <2>6. \A e \in Events("Access")' : TellsResult(e, NumberOf(e))'
    BY <2>2, <2>4, <2>5
  <2>7. /\ log'.next = Len(log'.events)
        /\ \A i \in 1 .. log'.next : log'.events[i].sequence = i - 1
    BY <2>1, <2>3 DEF LogAccountsForRun
  <2>8. /\ Cardinality(Events("PageFault")') = counts'.faults
        /\ Cardinality(Events("PageReplacement")') = counts'.replacements
        /\ Cardinality(Events("DirtyEviction")') = counts'.dirtyEvictions
        /\ Cardinality(Events("Access")') = Len(records')
    BY <2>1, <2>2, <2>3 DEF LogAccountsForRun
  <2>9. LogAccountsForRun'
    BY <2>6, <2>7, <2>8 DEF LogAccountsForRun, TellsResult, NumberOf
  <2> QED
    BY <2>3, <2>9 DEF Accounted
<1> QED
  BY <1>1, <1>2, <1>3 DEF Next

(***************************************************************************)
(* The log accounts for every run, whichever methods of the memory manager *)
(* the progress callback calls: its numbers have no gap, it tells of each  *)
(* access once with the flags of its result, and of as many faults,        *)
(* replacements and dirty evictions as the unit has counted.               *)
(***************************************************************************)
THEOREM LogAccountsTheorem == Spec => []LogAccountsForRun
<1>1. Accounted => LogAccountsForRun
  BY DEF Accounted
<1> QED
  BY <1>1, InitTelling, NextTelling, InitRunTyped, NextRunTyped, InitAccounted, NextAccounted,
     PTL DEF Spec

-----------------------------------------------------------------------------
(* A run as a function *)

(* What an access reads and writes, besides owners and virtual pages. *)
UnitState == [mem |-> mem, pages |-> pages, pol |-> pol, counts |-> counts,
              procStats |-> procStats, result |-> result, log |-> log]

(* What the unit u has logged after an access that reports es on the way. *)
LogAfter(u, pid, p, es, f, r) ==
  Mmu!Activity!RecordAll(u.log, <<Mmu!Activity!Status(pid, p)>> \o es
                                  \o <<Mmu!Activity!Access(pid, p, f, r)>>)

OneMoreAccess(stats, pid) == [stats EXCEPT ![pid].accesses = @ + 1]

OneMoreFault(stats, pid) ==
  [stats EXCEPT ![pid] = [accesses |-> @.accesses + 1, faults |-> @.faults + 1]]

FaultCounted(c) == [c EXCEPT !.faults = @ + 1]

(* The unit u after each outcome of an access to its page p at address a. *)
AfterHit(u, pid, p, a) ==
  LET f == u.mem.table[p]
      r == Mmu!Success(f, a, FALSE, FALSE, FALSE)
  IN  [mem       |-> u.mem,
       pages     |-> [u.pages EXCEPT ![p] = Mmu!Touched(@, f, FALSE)],
       pol       |-> Mmu!PageAccessed(u.pol, p, f),
       counts    |-> u.counts,
       procStats |-> OneMoreAccess(u.procStats, pid),
       result    |-> r,
       log       |-> LogAfter(u, pid, p, <<>>, f, r)]

AfterRefusal(u, pid, p, f) ==
  [mem       |-> u.mem,
   pages     |-> u.pages,
   pol       |-> u.pol,
   counts    |-> u.counts,
   procStats |-> OneMoreAccess(u.procStats, pid),
   result    |-> Mmu!Failure,
   log       |-> LogAfter(u, pid, p, <<>>, f, Mmu!Failure)]

AfterFreeFrame(u, pid, p, a) ==
  LET m == Mmu!MapPage(u.mem, p)
      f == m.table[p]
      r == Mmu!Success(f, a, TRUE, FALSE, FALSE)
  IN  [mem       |-> m,
       pages     |-> [u.pages EXCEPT ![p] = Mmu!Touched(@, f, FALSE)],
       pol       |-> Mmu!AfterLoad(u.pol, p, f),
       counts    |-> FaultCounted(u.counts),
       procStats |-> OneMoreFault(u.procStats, pid),
       result    |-> r,
       log       |-> LogAfter(u, pid, p, <<Mmu!Activity!PageFault(pid, p),
                                           Mmu!Activity!FrameAssignment(pid, p, f)>>, f, r)]

AfterLostFault(u, pid, p, r) ==
  [mem       |-> u.mem,
   pages     |-> u.pages,
   pol       |-> Mmu!AfterChoice(u.pol),
   counts    |-> FaultCounted(u.counts),
   procStats |-> OneMoreFault(u.procStats, pid),
   result    |-> r,
   log       |-> LogAfter(u, pid, p, <<Mmu!Activity!PageFault(pid, p)>>, NoFrame, r)]

AfterVictim(u, pid, p, a) ==
  LET f == Mmu!Victim(u.pol)
      v == u.mem.frames[f]
      d == u.pages[v].dirty
      r == Mmu!Success(f, a, TRUE, TRUE, d)
      c == Mmu!AfterLoad(Mmu!PageRemoved(Mmu!AfterChoice(u.pol), v, f), p, f)
  IN  [mem       |-> Mmu!MapPage(Mmu!ReleaseFrame(u.mem, f), p),
       pages     |-> [u.pages EXCEPT ![v] = Mmu!AbsentPage, ![p] = Mmu!Touched(@, f, FALSE)],
       pol       |-> IF d THEN Mmu!RecordDirtyEviction(c) ELSE c,
       counts    |-> [faults         |-> u.counts.faults + 1,
                      replacements   |-> u.counts.replacements + 1,
                      dirtyEvictions |-> u.counts.dirtyEvictions + IF d THEN 1 ELSE 0],
       procStats |-> OneMoreFault(u.procStats, pid),
       result    |-> r,
       log       |-> LogAfter(u, pid, p, Mmu!ReplacementEvents(pid, p, v, f, d), f, r)]

(* The conditions that tell the outcomes apart. *)
IsHit(u, p) ==
  Mmu!IsMappingConsistent(u.mem, p) /\ u.pages[p].frame = u.mem.table[p]

IsHeld(u, p) == u.pages[p].frame # NoFrame \/ Mmu!IsPageMapped(u.mem, p)

IsReplaceable(u, a) ==
  LET f == Mmu!Victim(u.pol)
      v == u.mem.frames[f]
  IN  /\ f \in Mmu!OccupiedFrames(u.mem)
      /\ v \in Pages
      /\ u.pages[v].frame = f
      /\ Mmu!IsMappingConsistent(u.mem, v)
      /\ Mmu!Representable(f, a)

(* The unit after an access to page p, which is registered, at address a. *)
AfterAccess(u, pid, p, a) ==
  IF Mmu!IsMapped(u.mem, p)
  THEN IF IsHit(u, p) THEN AfterHit(u, pid, p, a)
       ELSE AfterRefusal(u, pid, p, IF Mmu!IsMappingConsistent(u.mem, p)
                                    THEN u.mem.table[p] ELSE NoFrame)
  ELSE IF IsHeld(u, p) THEN AfterRefusal(u, pid, p, NoFrame)
  ELSE IF Mmu!HasFreeFrame(u.mem) THEN AfterFreeFrame(u, pid, p, a)
  ELSE IF ~Mmu!HasVictim(u.pol)
  THEN AfterLostFault(u, pid, p, [Mmu!Failure EXCEPT !.pageFault = TRUE])
  ELSE IF IsReplaceable(u, a) THEN AfterVictim(u, pid, p, a)
  ELSE AfterLostFault(u, pid, p, Mmu!Failure)

(* A use of a resident page, *)
LEMMA HitDetermined ==
  ASSUME NEW pid, NEW p, NEW a, Mmu!AccessResident(pid, p, a, FALSE)
  PROVE  UnitState' = AfterAccess(UnitState, pid, p, a)
<1>1. AfterAccess(UnitState, pid, p, a) = AfterHit(UnitState, pid, p, a)
  BY DEF Mmu!AccessResident, AfterAccess, IsHit, UnitState
<1>2. UnitState' = AfterHit(UnitState, pid, p, a)
  BY DEF Mmu!AccessResident, Mmu!Reports, Mmu!CountAccess, AfterHit, UnitState, LogAfter,
         OneMoreAccess
<1> QED
  BY <1>1, <1>2

(* of one whose records contradict each other, *)
LEMMA InconsistentDetermined ==
  ASSUME NEW pid, NEW p, NEW a, Mmu!AccessInconsistent(pid, p)
  PROVE  UnitState' = AfterAccess(UnitState, pid, p, a)
<1> DEFINE f == IF Mmu!IsMappingConsistent(mem, p) THEN mem.table[p] ELSE NoFrame
<1>1. AfterAccess(UnitState, pid, p, a) = AfterRefusal(UnitState, pid, p, f)
  BY DEF Mmu!AccessInconsistent, AfterAccess, IsHit, UnitState
<1>2. UnitState' = AfterRefusal(UnitState, pid, p, f)
  BY DEF Mmu!AccessInconsistent, Mmu!Reports, Mmu!CountAccess, AfterRefusal, UnitState, LogAfter,
         OneMoreAccess
<1> QED
  BY <1>1, <1>2

(* of one that is somewhere else already, *)
LEMMA RefusedDetermined ==
  ASSUME NEW pid, NEW p, NEW a, Mmu!FaultRefused(pid, p)
  PROVE  UnitState' = AfterAccess(UnitState, pid, p, a)
<1>1. AfterAccess(UnitState, pid, p, a) = AfterRefusal(UnitState, pid, p, NoFrame)
  BY DEF Mmu!FaultRefused, AfterAccess, IsHeld, UnitState
<1>2. UnitState' = AfterRefusal(UnitState, pid, p, NoFrame)
  BY DEF Mmu!FaultRefused, Mmu!Reports, Mmu!CountAccess, AfterRefusal, UnitState, LogAfter,
         OneMoreAccess
<1> QED
  BY <1>1, <1>2

(* a load into a free frame, *)
LEMMA FreeFrameDetermined ==
  ASSUME NEW pid, NEW p, NEW a, Mmu!FaultWithFreeFrame(pid, p, a, FALSE)
  PROVE  UnitState' = AfterAccess(UnitState, pid, p, a)
<1>1. AfterAccess(UnitState, pid, p, a) = AfterFreeFrame(UnitState, pid, p, a)
  BY DEF Mmu!FaultWithFreeFrame, Mmu!Faulting, AfterAccess, IsHeld, UnitState
<1>2. UnitState' = AfterFreeFrame(UnitState, pid, p, a)
  BY DEF Mmu!FaultWithFreeFrame, Mmu!Reports, Mmu!CountFault, Mmu!CountFaultOf, AfterFreeFrame,
         UnitState, LogAfter, OneMoreFault, FaultCounted
<1> QED
  BY <1>1, <1>2

(* a fault without a victim, *)
LEMMA NoVictimDetermined ==
  ASSUME NEW pid, NEW p, NEW a, Mmu!FaultWithoutVictim(pid, p)
  PROVE  UnitState' = AfterAccess(UnitState, pid, p, a)
<1> DEFINE r == [Mmu!Failure EXCEPT !.pageFault = TRUE]
<1>1. AfterAccess(UnitState, pid, p, a) = AfterLostFault(UnitState, pid, p, r)
  BY DEF Mmu!FaultWithoutVictim, Mmu!Faulting, AfterAccess, IsHeld, UnitState
<1>2. UnitState' = AfterLostFault(UnitState, pid, p, r)
  BY DEF Mmu!FaultWithoutVictim, Mmu!Reports, Mmu!CountFault, Mmu!CountFaultOf, AfterLostFault,
         UnitState, LogAfter, OneMoreFault, FaultCounted
<1> QED
  BY <1>1, <1>2

(* one that is refused its victim, *)
LEMMA RefusedVictimDetermined ==
  ASSUME NEW pid, NEW p, NEW a, Mmu!FaultRefusesVictim(pid, p, a), Mmu!registered = Pages
  PROVE  UnitState' = AfterAccess(UnitState, pid, p, a)
<1>1. ~IsReplaceable(UnitState, a)
  BY DEF Mmu!FaultRefusesVictim, Mmu!Evictable, IsReplaceable, UnitState
<1>2. AfterAccess(UnitState, pid, p, a) = AfterLostFault(UnitState, pid, p, Mmu!Failure)
  BY <1>1 DEF Mmu!FaultRefusesVictim, Mmu!Faulting, AfterAccess, IsHeld, UnitState
<1>3. UnitState' = AfterLostFault(UnitState, pid, p, Mmu!Failure)
  BY DEF Mmu!FaultRefusesVictim, Mmu!Reports, Mmu!CountFault, Mmu!CountFaultOf, AfterLostFault,
         UnitState, LogAfter, OneMoreFault, FaultCounted
<1> QED
  BY <1>2, <1>3

(* and a replacement. *)
LEMMA ReplacementDetermined ==
  ASSUME NEW pid, NEW p, NEW a, Mmu!FaultWithReplacement(pid, p, a, FALSE), Mmu!registered = Pages
  PROVE  UnitState' = AfterAccess(UnitState, pid, p, a)
<1>1. IsReplaceable(UnitState, a)
  BY DEF Mmu!FaultWithReplacement, Mmu!Evictable, IsReplaceable, UnitState
<1>2. AfterAccess(UnitState, pid, p, a) = AfterVictim(UnitState, pid, p, a)
  BY <1>1 DEF Mmu!FaultWithReplacement, Mmu!Faulting, AfterAccess, IsHeld, UnitState
<1>3. UnitState' = AfterVictim(UnitState, pid, p, a)
  BY DEF Mmu!FaultWithReplacement, Mmu!Reports, Mmu!CountFaultOf, Mmu!AfterReplacement,
         AfterVictim, UnitState, LogAfter, OneMoreFault
<1> QED
  BY <1>2, <1>3

(* What the unit does with an access of a run is a function of its state. *)
LEMMA AccessDetermined ==
  ASSUME NEW pid, NEW a, Mmu!Known(pid, a), Mmu!Access(pid, a, FALSE), Mmu!registered = Pages
  PROVE  UnitState' = AfterAccess(UnitState, pid, Mmu!Resolve(pid, a), a)
<1> DEFINE p == Mmu!Resolve(pid, a)
<1>1. Mmu!AccessKnown(pid, p, a, FALSE)
  BY DEF Mmu!Access, Mmu!AccessUnknown
<1> HIDE DEF p
<1>2. UnitState' = AfterAccess(UnitState, pid, p, a)
  BY <1>1, HitDetermined, InconsistentDetermined, RefusedDetermined, FreeFrameDetermined,
     NoVictimDetermined, RefusedVictimDetermined, ReplacementDetermined DEF Mmu!AccessKnown
<1> QED
  BY <1>2 DEF p

(* What a run has done so far. *)
RunState == [unit |-> UnitState, statistics |-> statistics, records |-> records]

(* What it has done before its first access. *)
FirstState(c) ==
  [unit |-> [mem       |-> Mmu!EmptyMemory,
             pages     |-> [p \in Pages |-> Mmu!AbsentPage],
             pol       |-> Mmu!NewPolicy(c.policy),
             counts    |-> Mmu!NoCounts,
             procStats |-> Mmu!NoProcStats,
             result    |-> Mmu!Failure,
             log       |-> Activity!NewLog],
   statistics |-> NoStatistics,
   records    |-> <<>>]

(* What it has done after one access more. *)
NextState(s, access) ==
  LET u == AfterAccess(s.unit, access.process, PageOf(access.process, access.page),
                       access.page * PageSize)
  IN  [unit       |-> u,
       statistics |-> Recorded(s.statistics, u.result),
       records    |-> Append(s.records, u.result)]

(* The states of a run of configuration c, from none to n of its accesses. *)
IsRun(w, c, accesses, n) ==
  /\ w[0] = FirstState(c)
  /\ \A k \in 1 .. n : w[k] = NextState(w[k - 1], accesses[k])

(* There is only one run of a configuration. *)
LEMMA RunsAgree ==
  ASSUME NEW w, NEW x, NEW c, NEW accesses, NEW n \in Nat,
         IsRun(w, c, accesses, n), IsRun(x, c, accesses, n)
  PROVE  w[n] = x[n]
<1> DEFINE S == {k \in 0 .. n : w[k] # x[k]}
<1>1. CASE S = {}
  BY <1>1
<1>2. CASE S # {}
  <2>1. S \in SUBSET Nat
    OBVIOUS
  <2>2. PICK k \in S : \A j \in S : k <= j
    BY <1>2, <2>1, LeastNatural
  <2>3. k # 0
    BY <2>2 DEF IsRun
  <2>4. k \in 1 .. n /\ k - 1 \in 0 .. n /\ ~(k <= k - 1)
    BY <2>2, <2>3
  <2>5. w[k - 1] = x[k - 1]
    BY <2>2, <2>4
  <2>6. w[k] = x[k]
    BY <2>4, <2>5 DEF IsRun
  <2> QED
    BY <2>2, <2>6
<1> QED
  BY <1>1, <1>2

(* A run goes on. *)
LEMMA RunGoesOn ==
  ASSUME NEW w, NEW c, NEW accesses, NEW n \in Nat, IsRun(w, c, accesses, n)
  PROVE  \E x : /\ IsRun(x, c, accesses, n + 1)
                /\ x[n + 1] = NextState(w[n], accesses[n + 1])
<1> DEFINE last == NextState(w[n], accesses[n + 1])
           x == [k \in 0 .. n + 1 |-> IF k <= n THEN w[k] ELSE last]
<1> HIDE DEF last
<1>1. x[0] = w[0] /\ x[n + 1] = last /\ x[n] = w[n]
  OBVIOUS
<1>2. ASSUME NEW k \in 1 .. n + 1 PROVE x[k] = NextState(x[k - 1], accesses[k])
  <2>1. CASE k = n + 1
    BY <1>1, <2>1 DEF last
  <2>2. CASE k # n + 1
    <3>1. k \in 1 .. n /\ x[k] = w[k] /\ x[k - 1] = w[k - 1]
      BY <2>2
    <3> HIDE DEF x
    <3> QED
      BY <3>1 DEF IsRun
  <2> QED
    BY <2>1, <2>2
<1> HIDE DEF x
<1>3. IsRun(x, c, accesses, n + 1)
  BY <1>1, <1>2 DEF IsRun
<1> QED
  BY <1>1, <1>3 DEF last

(* What a run returns, from what it has done. *)
OutcomeOf(s) ==
  [records |-> s.records, statistics |-> s.statistics, byProcess |-> s.unit.procStats,
   replacements |-> s.unit.pol.replacements, dirtyEvictions |-> s.unit.pol.dirtyEvictions,
   activity |-> s.unit.log]

(***************************************************************************)
(* The invariant: a run that is left alone is the run of its configuration *)
(* as far as it has come, and so were the runs that have returned.         *)
(***************************************************************************)
Repeating ==
  /\ phase = "running" /\ reaches = 0 =>
       \E w : IsRun(w, config, program, Len(records)) /\ w[Len(records)] = RunState
  /\ \A o \in outcomes :
       \E w : IsRun(w, config, program, Len(program)) /\ o = OutcomeOf(w[Len(program)])

(* Every access of a run is to the page it names. *)
LEMMA KnownInRun ==
  ASSUME Registered, phase = "running", NEW process \in Processes, NEW v \in VirtualPages
  PROVE  /\ Mmu!Known(process, v * PageSize)
         /\ Mmu!Resolve(process, v * PageSize) = PageOf(process, v)
         /\ Mmu!registered = Pages
<1>1. Addressable
  BY DEF Registered
<1>2. (v * PageSize) \div PageSize = v
  BY <1>1, SizesAssumption, CountsAssumption, ProductAndQuotient
     DEF Addressable, Manager!IsAddressSpace, VirtualPages
<1>3. Mmu!Resolve(process, v * PageSize) = PageOf(process, v)
  BY <1>2 DEF Registered, Mmu!Resolve
<1>4. Mmu!registered = Pages
  BY OwnersExist, NothingAssumption DEF Registered, Mmu!registered
<1>5. PageOf(process, v) \in Pages /\ OwnerIndex(PageOf(process, v)) = process
  BY PagesReached, OwnerOfPage
<1>6. owner[PageOf(process, v)] = process
  BY <1>5 DEF Registered
<1> QED
  BY <1>3, <1>4, <1>5, <1>6 DEF Mmu!Known

(* It goes on by the next access of its program. *)
LEMMA AccessRepeats ==
  ASSUME Registered, RunTyped, Repeating, ExecuteAccess
  PROVE  Repeating'
<1>1. config' = config /\ program' = program /\ outcomes' = outcomes /\ phase' = phase
      /\ reaches' = reaches /\ phase = "running"
  BY DEF ExecuteAccess
<1>2. \A o \in outcomes' :
        \E w : IsRun(w, config', program', Len(program')) /\ o = OutcomeOf(w[Len(program')])
  BY <1>1 DEF Repeating
<1>3. ASSUME reaches = 0
      PROVE  \E w : IsRun(w, config', program', Len(records')) /\ w[Len(records')] = RunState'
  <2> DEFINE n == Len(records)
             access == program[n + 1]
             pid == access.process
             a == access.page * PageSize
  <2>1. PICK w : IsRun(w, config, program, n) /\ w[n] = RunState
    BY <1>1, <1>3 DEF Repeating
  <2>2. n \in Nat /\ Len(records') = n + 1 /\ records' = Append(records, result')
    BY DEF RunTyped, ExecuteAccess
  <2>3. pid \in Processes /\ access.page \in VirtualPages /\ Mmu!Access(pid, a, FALSE)
    <3>1. n + 1 \in 1 .. Len(program)
      BY <2>2 DEF RunTyped, ExecuteAccess
    <3>2. access \in ProgramSteps
      BY <3>1, ElementOfSeq DEF RunTyped
    <3> QED
      BY <3>2 DEF ProgramSteps, ExecuteAccess
  <2>4. Mmu!Known(pid, a) /\ Mmu!Resolve(pid, a) = PageOf(pid, access.page)
        /\ Mmu!registered = Pages
    BY <1>1, <2>3, KnownInRun
  <2>5. statistics' = Recorded(statistics, result')
    BY DEF ExecuteAccess
  <2> HIDE DEF n, access
  <2>6. UnitState' = AfterAccess(UnitState, pid, PageOf(pid, access.page), a)
    BY <2>3, <2>4, AccessDetermined
  <2>7. UnitState'.result = result'
    BY DEF UnitState
  <2>8. RunState' = NextState(RunState, access)
    BY <2>2, <2>5, <2>6, <2>7 DEF RunState, NextState
  <2>9. PICK x : IsRun(x, config, program, n + 1) /\ x[n + 1] = NextState(w[n], program[n + 1])
    BY <2>1, <2>2, RunGoesOn
  <2>10. x[n + 1] = RunState'
    BY <2>1, <2>8, <2>9 DEF access
  <2> QED
    BY <1>1, <2>2, <2>9, <2>10
<1> QED
  BY <1>1, <1>2, <1>3 DEF Repeating

(* What it has done when it ends is what it returns. *)
LEMMA FinishRepeats ==
  ASSUME Repeating, FinishRun
  PROVE  Repeating'
<1>1. /\ config' = config /\ program' = program /\ phase' # "running"
      /\ phase = "running" /\ Len(records) = Len(program)
      /\ outcomes' = IF reaches = 0 THEN outcomes \cup {Outcome} ELSE outcomes
  BY DEF FinishRun
<1>2. Outcome = OutcomeOf(RunState)
  BY DEF Outcome, OutcomeOf, RunState, UnitState
<1>3. ASSUME NEW o \in outcomes'
      PROVE  \E w : IsRun(w, config', program', Len(program')) /\ o = OutcomeOf(w[Len(program')])
  <2>1. CASE o \in outcomes
    BY <1>1, <2>1 DEF Repeating
  <2>2. CASE reaches = 0 /\ o = Outcome
    <3>1. PICK w : IsRun(w, config, program, Len(records)) /\ w[Len(records)] = RunState
      BY <1>1, <2>2 DEF Repeating
    <3> QED
      BY <1>1, <1>2, <2>2, <3>1
  <2> QED
    BY <1>1, <2>1, <2>2
<1> QED
  BY <1>1, <1>3 DEF Repeating

-----------------------------------------------------------------------------
(* Every process gets its due *)

(* The unit counts one access of process pid more. *)
Serves(pid) ==
  \A q \in Processes : procStats'[q].accesses = procStats[q].accesses + OneIf(q = pid)

(* The statistics of the processes. *)
AreProcStats(stats) == stats \in [Processes -> [accesses : Nat, faults : Nat]]

(* Whatever becomes of an access, it is counted for its process. *)
LEMMA AccessServes ==
  ASSUME AreProcStats(procStats), NEW pid \in Processes, NEW a,
         Mmu!Known(pid, a), Mmu!Access(pid, a, FALSE)
  PROVE  AreProcStats(procStats') /\ Serves(pid)
<1> DEFINE p == Mmu!Resolve(pid, a)
<1>1. Mmu!AccessKnown(pid, p, a, FALSE)
  BY DEF Mmu!Access, Mmu!AccessUnknown
<1> HIDE DEF p
<1>2. \/ procStats' = [procStats EXCEPT ![pid].accesses = @ + 1]
      \/ procStats' = [procStats EXCEPT
                         ![pid] = [accesses |-> @.accesses + 1, faults |-> @.faults + 1]]
  BY <1>1 DEF Mmu!AccessKnown, Mmu!AccessResident, Mmu!AccessInconsistent, Mmu!FaultRefused,
     Mmu!FaultWithFreeFrame, Mmu!FaultWithoutVictim, Mmu!FaultRefusesVictim,
     Mmu!FaultWithReplacement, Mmu!CountAccess, Mmu!CountFault, Mmu!CountFaultOf
<1>3. procStats \in [Processes -> [accesses : Nat, faults : Nat]]
  BY DEF AreProcStats
<1>4. procStats' \in [Processes -> [accesses : Nat, faults : Nat]]
  BY <1>2, <1>3
<1>5. \A q \in Processes :
        procStats'[q].accesses = procStats[q].accesses + (IF q = pid THEN 1 ELSE 0)
  BY <1>2, <1>3
<1> QED
  BY <1>3, <1>4, <1>5 DEF AreProcStats, Serves, OneIf

(***************************************************************************)
(* The invariant: each process has made the accesses that are its own      *)
(* among those that have been executed, which are all in the end.          *)
(***************************************************************************)
Served ==
  /\ AreProcStats(procStats)
  /\ \A q \in Processes : procStats[q].accesses = Cardinality(Mine(q, Len(records)))
  /\ config \in Configurations /\ IsValid(config)
  /\ IsConstructible(config) => program \in Programs(config)
  /\ phase = "completed" => IsConstructible(config) /\ Len(records) = Len(program)

(* One more access of a run is counted for the process that makes it. *)
LEMMA ExecuteServes ==
  ASSUME Registered, RunTyped, Served, ExecuteAccess
  PROVE  Served'
<1> DEFINE n == Len(records)
           access == program[n + 1]
           pid == access.process
           a == access.page * PageSize
<1>1. n \in Nat /\ Len(records') = n + 1 /\ program' = program /\ config' = config
      /\ phase' = "running" /\ phase = "running"
  BY DEF RunTyped, ExecuteAccess
<1>2. pid \in Processes /\ access.page \in VirtualPages /\ Mmu!Access(pid, a, FALSE)
  <2>1. n + 1 \in 1 .. Len(program)
    BY <1>1 DEF RunTyped, ExecuteAccess
  <2>2. access \in ProgramSteps
    BY <2>1, ElementOfSeq DEF RunTyped
  <2> QED
    BY <2>2 DEF ProgramSteps, ExecuteAccess
<1>3. Mmu!Known(pid, a)
  BY <1>1, <1>2, KnownInRun
<1>4. AreProcStats(procStats') /\ Serves(pid)
  <2> HIDE DEF pid, a
  <2> QED
    BY <1>2, <1>3, AccessServes DEF Served
<1>5. ASSUME NEW q \in Processes
      PROVE  procStats'[q].accesses = Cardinality(Mine(q, Len(records)))'
  <2> DEFINE old == Mine(q, n)
             new == {i \in 1 .. n + 1 : program'[i].process = q}
  <2>1. Mine(q, Len(records))' = new
    BY <1>1 DEF Mine
  <2>2. procStats[q].accesses = Cardinality(old)
    BY DEF Served
  <2>3. procStats'[q].accesses = procStats[q].accesses + OneIf(q = pid)
    BY <1>4 DEF Serves
  <2> HIDE DEF n
  <2>4. 1 .. n + 1 = (1 .. n) \cup {n + 1} /\ n + 1 \notin 1 .. n
    BY <1>1
  <2>5. new = IF q = pid THEN old \cup {n + 1} ELSE old
    BY <1>1, <2>4 DEF Mine
  <2>6. old \in SUBSET (1 .. n)
    BY DEF Mine
  <2>7. Cardinality(old) \in Nat /\ Cardinality(old \cup {n + 1}) = Cardinality(old) + 1
    BY <1>1, <2>6, CountOneMore
  <2> HIDE DEF old, new, pid
  <2> QED
    BY <2>1, <2>2, <2>3, <2>5, <2>7 DEF OneIf
<1> QED
  BY <1>1, <1>4, <1>5 DEF Served

(* So it goes on, also when the callback throws or reaches the memory. *)
LEMMA NextServed == Registered /\ RunTyped /\ Served /\ [Next]_vars => Served'
<1> SUFFICES ASSUME Registered, RunTyped, Served, [Next]_vars PROVE Served'
  OBVIOUS
<1>1. CASE StartRun
  <2>1. config' = config /\ program' = program /\ phase' # "completed"
    BY <1>1 DEF StartRun
  <2>2. procStats' = Mmu!NoProcStats /\ records' = <<>>
    BY <1>1 DEF StartRun
  <2>3. /\ AreProcStats(procStats')
        /\ \A q \in Processes : procStats'[q].accesses = Cardinality(Mine(q, Len(records)))'
    <3>1. \A q : Mine(q, Len(records))' = {}
      BY <2>2 DEF Mine
    <3> QED
      BY <2>2, <3>1, FS_EmptySet DEF AreProcStats, Mmu!NoProcStats
  <2> QED
    BY <2>1, <2>3 DEF Served
<1>2. CASE ExecuteAccess
  BY <1>2, ExecuteServes
<1>3. CASE FinishRun \/ CallbackThrows \/ ReachPhysicalMemory \/ UNCHANGED vars
  <2>1. /\ UNCHANGED <<procStats, records, config, program>>
        /\ phase' = "completed" => \/ phase = "completed"
                                   \/ phase = "running" /\ Len(records) = Len(program)
    BY <1>3 DEF FinishRun, CallbackThrows, ReachPhysicalMemory, vars, runVars, mmuVars
  <2>2. \A q : Mine(q, Len(records))' = Mine(q, Len(records))
    BY <2>1 DEF Mine
  <2>3. phase' = "completed" => IsConstructible(config) /\ Len(records) = Len(program)
    BY <2>1 DEF Served, Registered
  <2> QED
    BY <2>1, <2>2, <2>3 DEF Served
<1> QED
  BY <1>1, <1>2, <1>3 DEF Next

(***************************************************************************)
(* A completed run gave every process its part of the configured total, or *)
(* what its segments hold where that is less, whatever the policy did and  *)
(* whichever methods of the memory manager the callback called.            *)
(***************************************************************************)
THEOREM DueTheorem == Spec => []EveryProcessGetsItsDue
<1>1. Init => Served
  <2> SUFFICES ASSUME Init PROVE Served
    OBVIOUS
  <2>1. procStats = Mmu!NoProcStats /\ \A q : Mine(q, Len(records)) = {}
    BY DEF Init, NewSimulation, Mine
  <2>2. /\ config \in Configurations /\ IsValid(config) /\ phase # "completed"
        /\ IsConstructible(config) => program \in Programs(config)
    BY DEF Init
  <2> QED
    BY <2>1, <2>2, FS_EmptySet DEF Served, AreProcStats, Mmu!NoProcStats
<1>2. Served => EveryProcessGetsItsDue
  <2> SUFFICES ASSUME Served, phase = "completed", NEW process \in Processes
               PROVE  procStats[process].accesses = Due(process)
    BY DEF EveryProcessGetsItsDue
  <2>1. IsAccepted(config) /\ program \in Programs(config) /\ Len(records) = Len(program)
    BY DEF Served, IsAccepted
  <2>2. procStats[process].accesses = Cardinality(AccessesOf(program, process))
    BY <2>1 DEF Served, Mine, AccessesOf
  <2> QED
    BY <2>1, <2>2, ProgramsCount, DueIsMade
<1> QED
  BY <1>1, <1>2, InitRegistered, NextRegistered, InitRunTyped, NextRunTyped, NextServed, PTL
     DEF Spec
=============================================================================
