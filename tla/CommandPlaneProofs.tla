------------------------- MODULE CommandPlaneProofs -------------------------
(***************************************************************************)
(* Theorems about CommandPlane, for any finite topology, any dependencies  *)
(* and any number of agents: the breadth-first search of bfs_path finds a  *)
(* shortest route exactly if there is one, the depth-first search of       *)
(* dfs_cycle finds a cycle exactly if there is one, and in an accepted     *)
(* plan every failure can be decided.                                      *)
(*                                                                         *)
(* The loops are functions from the number of rounds to the state of the   *)
(* loop.  That such a function exists follows from Iteration; what holds   *)
(* after every round is proved with SetInduction.                          *)
(***************************************************************************)
EXTENDS CommandPlane, WellFoundedInduction, FiniteSetTheorems, SequenceTheorems, TLAPS

-----------------------------------------------------------------------------
\* Induction and iteration.

\* A non-empty set of natural numbers has a least element.
LEMMA LeastElement ==
    ASSUME NEW S, S \subseteq Nat, S # {}
    PROVE  \E i \in S : \A j \in S : i <= j
  <1>1. PICK m \in S : ~ (\E y \in S : <<y, m>> \in OpToRel(<, Nat))
    BY NatLessThanWellFounded, WFMin, Zenon
  <1>2. \A y \in S : ~ (y < m)
    BY <1>1 DEF OpToRel
  <1> QED
    BY <1>2

\* Induction over the natural numbers, for a property given as a set.
LEMMA SetInduction ==
    ASSUME NEW G, 0 \in G, \A n \in Nat : n \in G => n + 1 \in G
    PROVE  \A n \in Nat : n \in G
  <1> SUFFICES ASSUME Nat \ G # {} PROVE FALSE
    OBVIOUS
  <1>1. PICK m \in Nat \ G : \A j \in Nat \ G : m <= j
    BY LeastElement
  <1>2. m - 1 \in Nat /\ ~(m <= m - 1) /\ (m - 1) + 1 = m
    BY <1>1
  <1> QED
    BY <1>1, <1>2

\* The first m applications of F to x.
Prefix(F, x, m, g) == g[0] = x /\ \A i \in 0 .. m - 1 : g[i + 1] = F[g[i]]

Iterates(S, F, x, h) == h \in [Nat -> S] /\ h[0] = x /\ \A n \in Nat : h[n + 1] = F[h[n]]

\* Iterating a function on a set is well defined.
LEMMA Iteration ==
    ASSUME NEW S, NEW F \in [S -> S], NEW x \in S
    PROVE  \E h : Iterates(S, F, x, h)
  <1> DEFINE E == {m \in Nat : \E g \in [0 .. m -> S] : Prefix(F, x, m, g)}
  <1>1. 0 \in E
    <2>1. [i \in 0 .. 0 |-> x] \in [0 .. 0 -> S] /\ Prefix(F, x, 0, [i \in 0 .. 0 |-> x])
      BY DEF Prefix
    <2> QED
      BY <2>1
  <1>2. ASSUME NEW m \in Nat, m \in E PROVE m + 1 \in E
    <2>1. PICK g \in [0 .. m -> S] : Prefix(F, x, m, g)
      BY <1>2
    <2> DEFINE k == [i \in 0 .. m + 1 |-> IF i <= m THEN g[i] ELSE F[g[m]]]
    <2>2. k \in [0 .. m + 1 -> S]
      OBVIOUS
    <2>3. Prefix(F, x, m + 1, k)
      BY <2>1 DEF Prefix
    <2> QED
      BY <2>2, <2>3
  <1> HIDE DEF E
  <1>3. \A m \in Nat : m \in E
    BY <1>1, <1>2, SetInduction
  <1> DEFINE g(m) == CHOOSE f \in [0 .. m -> S] : Prefix(F, x, m, f)
  <1>4. ASSUME NEW m \in Nat PROVE g(m) \in [0 .. m -> S] /\ Prefix(F, x, m, g(m))
    BY <1>3 DEF E
  <1> HIDE DEF g
  <1>5. ASSUME NEW m \in Nat PROVE \A i \in Nat : i <= m => g(m + 1)[i] = g(m)[i]
    <2> DEFINE A == {i \in Nat : i <= m => g(m + 1)[i] = g(m)[i]}
    <2>1. 0 \in A
      BY <1>4 DEF Prefix
    <2>2. ASSUME NEW i \in Nat, i \in A PROVE i + 1 \in A
      BY <2>2, <1>4 DEF Prefix
    <2> HIDE DEF A
    <2>3. \A i \in Nat : i \in A
      BY <2>1, <2>2, SetInduction
    <2> QED
      BY <2>3 DEF A
  <1> DEFINE h == [n \in Nat |-> g(n)[n]]
  <1>6. h \in [Nat -> S] /\ h[0] = x
    BY <1>4 DEF Prefix
  <1>7. ASSUME NEW n \in Nat PROVE h[n + 1] = F[h[n]]
    <2>1. g(n + 1)[n + 1] = F[g(n + 1)[n]]
      BY <1>4 DEF Prefix
    <2>2. g(n + 1)[n] = g(n)[n]
      BY <1>5
    <2> QED
      BY <2>1, <2>2
  <1> HIDE DEF h
  <1> QED
    BY <1>6, <1>7 DEF Iterates

-----------------------------------------------------------------------------
\* Sorting: Ascending lists the elements of a finite set, each once.

LEMMA AscendingExists ==
    ASSUME NEW S, IsFiniteSet(S), S \subseteq Nat
    PROVE  \E q \in [1 .. Cardinality(S) -> S] : \A i, j \in DOMAIN q : i < j => q[i] < q[j]
  <1> DEFINE Asc(q) == \A i, j \in DOMAIN q : i < j => q[i] < q[j]
             G == {n \in Nat : \A T \in SUBSET Nat :
                      IsFiniteSet(T) /\ Cardinality(T) = n => \E q \in [1 .. n -> T] : Asc(q)}
  <1>1. 0 \in G
    <2> SUFFICES ASSUME NEW T \in SUBSET Nat PROVE \E q \in [1 .. 0 -> T] : Asc(q)
      OBVIOUS
    <2>1. [i \in 1 .. 0 |-> 0] \in [1 .. 0 -> T] /\ Asc([i \in 1 .. 0 |-> 0])
      OBVIOUS
    <2> QED
      BY <2>1
  <1>2. ASSUME NEW n \in Nat, n \in G PROVE n + 1 \in G
    <2> SUFFICES ASSUME NEW T \in SUBSET Nat, IsFiniteSet(T), Cardinality(T) = n + 1
                 PROVE  \E q \in [1 .. n + 1 -> T] : Asc(q)
      OBVIOUS
    <2>1. T # {}
      BY FS_EmptySet
    <2>2. PICK m \in T : \A j \in T : m <= j
      BY <2>1, LeastElement
    <2>3. IsFiniteSet(T \ {m}) /\ Cardinality(T \ {m}) = n
      <3>1. IsFiniteSet(T \ {m}) /\ Cardinality(T \ {m}) = Cardinality(T) - 1
        BY FS_RemoveElement, Zenon
      <3> QED
        BY <3>1
    <2>4. PICK q \in [1 .. n -> T \ {m}] : Asc(q)
      BY <1>2, <2>3
    <2> DEFINE r == [i \in 1 .. n + 1 |-> IF i = 1 THEN m ELSE q[i - 1]]
    <2>5. \A i \in 1 .. n : q[i] \in T /\ q[i] # m
      OBVIOUS
    <2>6. r \in [1 .. n + 1 -> T]
      BY <2>5
    <2>7. ASSUME NEW i \in 1 .. n + 1, NEW j \in 1 .. n + 1, i < j PROVE r[i] < r[j]
      <3>1. j - 1 \in 1 .. n /\ r[j] = q[j - 1]
        BY <2>7
      <3>2. CASE i = 1
        <4>1. r[i] = m /\ q[j - 1] \in T /\ q[j - 1] # m
          BY <2>5, <3>1, <3>2
        <4>2. m <= q[j - 1] /\ m \in Nat /\ q[j - 1] \in Nat
          BY <2>2, <4>1
        <4> QED
          BY <3>1, <4>1, <4>2
      <3>3. CASE i # 1
        <4>1. i - 1 \in 1 .. n /\ i - 1 < j - 1 /\ r[i] = q[i - 1]
          BY <2>7, <3>3
        <4>2. q[i - 1] < q[j - 1]
          BY <2>4, <3>1, <4>1
        <4> QED
          BY <3>1, <4>1, <4>2
      <3> QED
        BY <3>2, <3>3
    <2> QED
      BY <2>6, <2>7
  <1> HIDE DEF G
  <1>3. \A n \in Nat : n \in G
    BY <1>1, <1>2, SetInduction
  <1>4. Cardinality(S) \in G
    BY <1>3, FS_CardinalityType
  <1> QED
    BY <1>4 DEF G

LEMMA AscendingProperty ==
    ASSUME NEW S, IsFiniteSet(S), S \subseteq Nat
    PROVE  /\ Ascending(S) \in Seq(S)
           /\ \A i, j \in 1 .. Len(Ascending(S)) : Ascending(S)[i] = Ascending(S)[j] => i = j
           /\ \A x \in S : \E i \in 1 .. Len(Ascending(S)) : Ascending(S)[i] = x
  <1> DEFINE q == Ascending(S)
             n == Cardinality(S)
  <1>1. n \in Nat
    BY FS_CardinalityType
  <1>2. q \in [1 .. n -> S] /\ \A i, j \in DOMAIN q : i < j => q[i] < q[j]
    BY AscendingExists DEF Ascending
  <1> HIDE DEF q, n
  <1>3. q \in Seq(S) /\ Len(q) = n /\ DOMAIN q = 1 .. n
    BY <1>1, <1>2, SeqDef
  <1>4. ASSUME NEW i \in 1 .. n, NEW j \in 1 .. n, q[i] = q[j] PROVE i = j
    <2>1. i \in DOMAIN q /\ j \in DOMAIN q /\ q[i] \in Nat
      BY <1>2
    <2>2. ~(i < j) /\ ~(j < i)
      BY <1>2, <1>4, <2>1
    <2> QED
      BY <2>2, <1>1
  <1>5. q \in Injection(1 .. n, S)
    BY <1>2, <1>4 DEF Injection, IsInjective
  <1>6. Cardinality(1 .. n) = Cardinality(S)
    BY <1>1, FS_Interval DEF n
  <1>7. q \in Surjection(1 .. n, S)
    BY <1>5, <1>6, FS_Injection
  <1>8. \A x \in S : \E i \in 1 .. n : q[i] = x
    BY <1>7 DEF Surjection
  <1> QED
    BY <1>3, <1>4, <1>8 DEF q

-----------------------------------------------------------------------------
\* The search runs as the loop says.

BfsState(t) == [queue : Seq(t.up), previous : UNION {[D -> t.up] : D \in SUBSET t.up}]

\* What the search needs of a topology.
FiniteTopology(t) == IsFiniteSet(t.up) /\ t.up \subseteq Nat

New(t, s) == {n \in t.up \ DOMAIN s.previous : <<Head(s.queue), n>> \in t.links}

LEMMA BfsStateFacts ==
    ASSUME NEW t, NEW s \in BfsState(t)
    PROVE  /\ s.queue \in Seq(t.up)
           /\ DOMAIN s.previous \subseteq t.up
           /\ s.previous \in [DOMAIN s.previous -> t.up]
           /\ s = [queue |-> s.queue, previous |-> s.previous]
  BY DEF BfsState

LEMMA RoundFacts ==
    ASSUME NEW t, FiniteTopology(t), NEW to, NEW s \in BfsState(t)
    PROVE  /\ Round(t, to, s) \in BfsState(t)
           /\ s.queue = <<>> \/ Found(s, to) => Round(t, to, s) = s
           /\ s.queue # <<>> /\ ~Found(s, to) =>
                /\ Round(t, to, s).queue = Tail(s.queue) \o Ascending(New(t, s))
                /\ DOMAIN Round(t, to, s).previous = DOMAIN s.previous \cup New(t, s)
                /\ \A n \in DOMAIN s.previous : Round(t, to, s).previous[n] = s.previous[n]
                /\ \A n \in New(t, s) : Round(t, to, s).previous[n] = Head(s.queue)
  <1>1. CASE s.queue = <<>> \/ Found(s, to)
    BY <1>1 DEF Round
  <1>2. CASE s.queue # <<>> /\ ~Found(s, to)
    <2> DEFINE node == Head(s.queue)
               new == New(t, s)
               prev == [n \in DOMAIN s.previous \cup new |-> IF n \in new THEN node ELSE s.previous[n]]
    <2>1. Round(t, to, s) = [queue |-> Tail(s.queue) \o Ascending(new), previous |-> prev]
      BY <1>2 DEF Round, New
    <2>2. new \subseteq t.up /\ new \cap DOMAIN s.previous = {} /\ IsFiniteSet(new) /\ new \subseteq Nat
      BY FS_Subset DEF New, FiniteTopology
    <2>3. node \in t.up /\ Tail(s.queue) \in Seq(t.up)
      BY <1>2, BfsStateFacts, HeadTailProperties
    <2> HIDE DEF new
    <2>4. Ascending(new) \in Seq(t.up)
      BY <2>2, AscendingProperty, SeqMonotonic
    <2>5. Tail(s.queue) \o Ascending(new) \in Seq(t.up)
      BY <2>3, <2>4, ConcatProperties
    <2>6. prev \in [DOMAIN s.previous \cup new -> t.up] /\ DOMAIN s.previous \cup new \in SUBSET t.up
      BY <2>2, <2>3, BfsStateFacts
    <2>7. Round(t, to, s) \in BfsState(t)
      <3> HIDE DEF prev
      <3>1. prev \in UNION {[D -> t.up] : D \in SUBSET t.up}
        BY <2>6, Zenon
      <3> QED
        BY <2>1, <2>5, <3>1 DEF BfsState
    <2> QED
      BY <1>2, <2>1, <2>2, <2>7 DEF new
  <1> QED
    BY <1>1, <1>2

Start(from) == [queue |-> <<from>>, previous |-> [m \in {from} |-> from]]

\* h[n] is the state of the search after n rounds.
SearchRun(t, from, to, h) ==
    /\ h \in [Nat -> BfsState(t)] /\ h[0] = Start(from)
    /\ \A n \in Nat : h[n + 1] = Round(t, to, h[n])
    /\ Search(t, from, to) = h[Cardinality(t.up)]

LEMMA SearchRuns ==
    ASSUME NEW t, FiniteTopology(t), NEW from \in t.up, NEW to
    PROVE  \E h : SearchRun(t, from, to, h)
  <1> DEFINE F == [s \in BfsState(t) |-> Round(t, to, s)]
             Body(f) == [n \in Nat |-> IF n = 0 THEN Start(from) ELSE Round(t, to, f[n - 1])]
             loop == CHOOSE f : f = Body(f)
  <1>1. F \in [BfsState(t) -> BfsState(t)]
    BY RoundFacts
  <1>2. Start(from) \in BfsState(t)
    <2>1. <<from>> \in Seq(t.up)
      <3>1. Append(<<>>, from) \in Seq(t.up)
        BY EmptySeq, AppendProperties
      <3> QED
        BY <3>1
    <2>2. [m \in {from} |-> from] \in [{from} -> t.up] /\ {from} \in SUBSET t.up
      OBVIOUS
    <2> QED
      BY <2>1, <2>2 DEF Start, BfsState
  <1>3. PICK h : Iterates(BfsState(t), F, Start(from), h)
    <2> HIDE DEF F
    <2> QED
      BY <1>1, <1>2, Iteration
  <1>31. h \in [Nat -> BfsState(t)] /\ h[0] = Start(from) /\ \A n \in Nat : h[n + 1] = Round(t, to, h[n])
    BY <1>3 DEF Iterates
  <1> HIDE DEF F
  <1>4. h = Body(h)
    <2>1. ASSUME NEW n \in Nat PROVE h[n] = Body(h)[n]
      <3>1. CASE n = 0
        BY <1>31, <3>1
      <3>2. CASE n # 0
        <4>1. n - 1 \in Nat /\ (n - 1) + 1 = n
          BY <3>2
        <4>2. h[n] = Round(t, to, h[n - 1])
          BY <1>31, <4>1
        <4> QED
          BY <3>2, <4>1, <4>2
      <3> QED
        BY <3>1, <3>2
    <2> QED
      BY <1>31, <2>1
  <1>5. loop = Body(loop)
    <2> HIDE DEF Body
    <2> QED
      BY <1>4, Zenon
  <1>6. \A n \in Nat : loop[n] = h[n]
    <2> DEFINE G == {n \in Nat : loop[n] = h[n]}
    <2> HIDE DEF loop
    <2>1. 0 \in G
      BY <1>31, <1>5
    <2>2. ASSUME NEW n \in Nat, n \in G PROVE n + 1 \in G
      <3>1. loop[n + 1] = Round(t, to, loop[n])
        BY <1>5
      <3>2. h[n + 1] = Round(t, to, h[n])
        BY <1>31
      <3>3. loop[n] = h[n]
        BY <2>2
      <3> QED
        BY <3>1, <3>2, <3>3
    <2> HIDE DEF G
    <2>3. \A n \in Nat : n \in G
      BY <2>1, <2>2, SetInduction
    <2> QED
      BY <2>3 DEF G
  <1>7. Search(t, from, to) = loop[Cardinality(t.up)]
    BY Zenon DEF Search, Start
  <1>8. Cardinality(t.up) \in Nat
    BY FS_CardinalityType DEF FiniteTopology
  <1> HIDE DEF loop
  <1> QED
    BY <1>31, <1>6, <1>7, <1>8 DEF SearchRun

-----------------------------------------------------------------------------
\* Distances: the least number of hops of a walk.

Hop(t, v, w) == <<v, w>> \in t.links

Reached(t, from) == {v \in t.up : \E n \in Nat : Walks(t, from, v, n) # {}}

Dist(t, from, v) ==
    CHOOSE n \in Nat : /\ Walks(t, from, v, n) # {}
                       /\ \A k \in Nat : Walks(t, from, v, k) # {} => n <= k

LEMMA DistLeast ==
    ASSUME NEW t, NEW from, NEW v \in Reached(t, from)
    PROVE  /\ Dist(t, from, v) \in Nat
           /\ Walks(t, from, v, Dist(t, from, v)) # {}
           /\ \A k \in Nat : Walks(t, from, v, k) # {} => Dist(t, from, v) <= k
  <1> DEFINE S == {n \in Nat : Walks(t, from, v, n) # {}}
  <1>1. S \subseteq Nat /\ S # {}
    BY DEF Reached
  <1>2. PICK n \in S : \A j \in S : n <= j
    BY <1>1, LeastElement
  <1>3. n \in Nat /\ Walks(t, from, v, n) # {} /\ \A k \in Nat : Walks(t, from, v, k) # {} => n <= k
    BY <1>2
  <1> QED
    BY <1>3 DEF Dist

LEMMA DistStart ==
    ASSUME NEW t, NEW from \in t.up
    PROVE  /\ from \in Reached(t, from)
           /\ Dist(t, from, from) = 0
           /\ \A v \in Reached(t, from) : Dist(t, from, v) = 0 => v = from
  <1>1. [i \in 0 .. 0 |-> from] \in Walks(t, from, from, 0)
    BY DEF Walks
  <1>2. from \in Reached(t, from)
    BY <1>1 DEF Reached
  <1>3. Dist(t, from, from) = 0
    BY <1>1, <1>2, DistLeast
  <1>4. ASSUME NEW v \in Reached(t, from), Dist(t, from, v) = 0 PROVE v = from
    <2>1. PICK w : w \in Walks(t, from, v, 0)
      BY <1>4, DistLeast
    <2> QED
      BY <2>1 DEF Walks
  <1> QED
    BY <1>2, <1>3, <1>4

LEMMA DistHop ==
    ASSUME NEW t, NEW from \in t.up, NEW v \in Reached(t, from), NEW w \in t.up, Hop(t, v, w)
    PROVE  w \in Reached(t, from) /\ Dist(t, from, w) <= Dist(t, from, v) + 1
  <1> DEFINE n == Dist(t, from, v)
  <1>1. n \in Nat
    BY DistLeast
  <1>2. PICK x : x \in Walks(t, from, v, n)
    BY DistLeast
  <1> HIDE DEF n
  <1> DEFINE y == [i \in 0 .. n + 1 |-> IF i <= n THEN x[i] ELSE w]
  <1>3. /\ x \in [0 .. n -> t.up] /\ x[0] = from /\ x[n] = v
        /\ \A i \in 1 .. n : <<x[i - 1], x[i]>> \in t.links
    BY <1>2 DEF Walks
  <1>4. y \in [0 .. n + 1 -> t.up] /\ y[0] = from /\ y[n + 1] = w
    BY <1>1, <1>3
  <1>5. ASSUME NEW i \in 1 .. n + 1 PROVE <<y[i - 1], y[i]>> \in t.links
    <2>1. CASE i \in 1 .. n
      BY <1>1, <1>3, <2>1
    <2>2. CASE i = n + 1
      <3>1. y[i - 1] = v /\ y[i] = w
        BY <1>1, <1>3, <2>2
      <3> QED
        BY <3>1 DEF Hop
    <2> QED
      BY <1>1, <2>1, <2>2
  <1>6. y \in Walks(t, from, w, n + 1)
    <2> HIDE DEF y
    <2> QED
      BY <1>4, <1>5 DEF Walks
  <1>7. n + 1 \in Nat /\ Walks(t, from, w, n + 1) # {}
    BY <1>1, <1>6
  <1>8. w \in Reached(t, from)
    BY <1>7 DEF Reached
  <1> QED
    BY <1>7, <1>8, DistLeast DEF n

LEMMA DistBack ==
    ASSUME NEW t, NEW from \in t.up, NEW w \in Reached(t, from), Dist(t, from, w) > 0
    PROVE  \E v \in Reached(t, from) : Hop(t, v, w) /\ Dist(t, from, v) = Dist(t, from, w) - 1
  <1> DEFINE n == Dist(t, from, w)
  <1>1. n \in Nat \ {0}
    BY DistLeast
  <1>2. PICK x : x \in Walks(t, from, w, n)
    BY DistLeast
  <1> HIDE DEF n
  <1> DEFINE v == x[n - 1]
             y == [i \in 0 .. n - 1 |-> x[i]]
  <1>3. /\ x \in [0 .. n -> t.up] /\ x[0] = from /\ x[n] = w
        /\ \A i \in 1 .. n : <<x[i - 1], x[i]>> \in t.links
    BY <1>2 DEF Walks
  <1>4. y \in Walks(t, from, v, n - 1)
    <2>1. y \in [0 .. n - 1 -> t.up] /\ y[0] = from /\ y[n - 1] = v
      BY <1>1, <1>3
    <2>2. ASSUME NEW i \in 1 .. n - 1 PROVE <<y[i - 1], y[i]>> \in t.links
      BY <1>1, <1>3
    <2> HIDE DEF y, v
    <2> QED
      BY <2>1, <2>2 DEF Walks
  <1>5. v \in t.up /\ Hop(t, v, w)
    BY <1>1, <1>3 DEF Hop
  <1> HIDE DEF v, y
  <1>6. v \in Reached(t, from) /\ Dist(t, from, v) <= n - 1
    <2>1. n - 1 \in Nat /\ Walks(t, from, v, n - 1) # {}
      BY <1>1, <1>4
    <2>2. v \in Reached(t, from)
      BY <1>5, <2>1 DEF Reached
    <2> QED
      BY <2>1, <2>2, DistLeast
  <1>7. n <= Dist(t, from, v) + 1
    <2>1. w \in t.up
      BY DEF Reached
    <2> QED
      BY <1>5, <1>6, <2>1, DistHop DEF n
  <1>8. Dist(t, from, v) = n - 1
    BY <1>1, <1>6, <1>7, DistLeast
  <1> QED
    BY <1>5, <1>6, <1>8 DEF n

-----------------------------------------------------------------------------
\* The invariant of the search.

Seen(s) == DOMAIN s.previous

\* What has been taken from the queue.
Done(s) == Seen(s) \ ToSet(s.queue)

Known(t, from, s) == from \in Seen(s) /\ Seen(s) \subseteq Reached(t, from)

Queued(s) ==
    /\ \A i \in 1 .. Len(s.queue) : s.queue[i] \in Seen(s)
    /\ \A i, j \in 1 .. Len(s.queue) : s.queue[i] = s.queue[j] => i = j

\* The queue holds at most two distances, the smaller one first.
Layered(t, from, s) ==
    \A i, j \in 1 .. Len(s.queue) : i <= j =>
        /\ Dist(t, from, s.queue[i]) <= Dist(t, from, s.queue[j])
        /\ Dist(t, from, s.queue[j]) <= Dist(t, from, s.queue[i]) + 1

\* Every node was seen from one that is nearer by a hop.
Parents(t, from, s) ==
    \A v \in Seen(s) \ {from} :
        /\ s.previous[v] \in Seen(s) /\ Hop(t, s.previous[v], v)
        /\ Dist(t, from, v) = Dist(t, from, s.previous[v]) + 1

Expanded(t, s) == \A v \in Done(s), w \in t.up : Hop(t, v, w) => w \in Seen(s)

\* Nothing as near as the head of the queue is left to be seen.
Complete(t, from, s) ==
    s.queue # <<>> =>
        \A w \in Reached(t, from) :
            Dist(t, from, w) <= Dist(t, from, Head(s.queue)) => w \in Seen(s)

BfsInv(t, from, to, s) ==
    /\ Known(t, from, s) /\ Queued(s) /\ Layered(t, from, s) /\ Parents(t, from, s)
    /\ Expanded(t, s) /\ Complete(t, from, s) /\ to \notin Done(s)

LEMMA StartInv ==
    ASSUME NEW t, NEW from \in t.up, NEW to
    PROVE  BfsInv(t, from, to, Start(from)) /\ Done(Start(from)) = {}
  <1> DEFINE s == Start(from)
  <1>1. /\ s.queue = <<from>> /\ Len(s.queue) = 1 /\ s.queue[1] = from
        /\ Head(s.queue) = from /\ s.queue # <<>> /\ DOMAIN s.queue = 1 .. 1
    BY DEF Start
  <1>2. Seen(s) = {from}
    BY DEF Seen, Start
  <1> HIDE DEF s
  <1>3. Done(s) = {}
    BY <1>1, <1>2 DEF Done, ToSet
  <1>4. Known(t, from, s)
    BY <1>2, DistStart DEF Known
  <1>5. Queued(s)
    BY <1>1, <1>2 DEF Queued
  <1>6. Layered(t, from, s)
    BY <1>1, DistStart DEF Layered
  <1>7. Parents(t, from, s) /\ Expanded(t, s)
    BY <1>2, <1>3 DEF Parents, Expanded
  <1>8. Complete(t, from, s)
    BY <1>1, <1>2, DistStart, DistLeast DEF Complete
  <1> QED
    BY <1>3, <1>4, <1>5, <1>6, <1>7, <1>8 DEF BfsInv, s

\* One round that takes a node from the queue.
LEMMA RoundKeeps ==
    ASSUME NEW t, FiniteTopology(t), NEW from \in t.up, NEW to, NEW s \in BfsState(t),
           BfsInv(t, from, to, s), s.queue # <<>>, ~Found(s, to)
    PROVE  /\ BfsInv(t, from, to, Round(t, to, s))
           /\ Done(Round(t, to, s)) = Done(s) \cup {Head(s.queue)}
           /\ Head(s.queue) \notin Done(s)
  <1> DEFINE z == Round(t, to, s)
             q == s.queue
             a == Head(s.queue)
             new == New(t, s)
             A == Ascending(new)
             d(v) == Dist(t, from, v)
  <1>0. /\ Known(t, from, s) /\ Queued(s) /\ Layered(t, from, s) /\ Parents(t, from, s)
        /\ Expanded(t, s) /\ Complete(t, from, s) /\ to \notin Done(s)
    BY DEF BfsInv
  <1>1. /\ z.queue = Tail(q) \o A /\ Seen(z) = Seen(s) \cup new
        /\ \A n \in Seen(s) : z.previous[n] = s.previous[n]
        /\ \A n \in new : z.previous[n] = a
    BY RoundFacts DEF Seen
  <1>2. /\ q \in Seq(t.up) /\ Len(q) \in Nat \ {0} /\ DOMAIN q = 1 .. Len(q) /\ a = q[1]
    BY BfsStateFacts, LenProperties, EmptySeq
  <1>3. new \subseteq t.up /\ new \cap Seen(s) = {} /\ \A n \in new : Hop(t, a, n)
    BY DEF New, Seen, Hop
  <1>4. \A w \in t.up : Hop(t, a, w) => w \in Seen(s) \cup new
    BY DEF New, Seen, Hop
  <1>5. /\ A \in Seq(t.up) /\ Len(A) \in Nat /\ \A i \in 1 .. Len(A) : A[i] \in new
        /\ \A i, j \in 1 .. Len(A) : A[i] = A[j] => i = j
        /\ \A x \in new : \E i \in 1 .. Len(A) : A[i] = x
    <2>1. IsFiniteSet(new) /\ new \subseteq Nat
      BY <1>3, FS_Subset DEF FiniteTopology
    <2> HIDE DEF new
    <2>2. A \in Seq(new)
      BY <2>1, AscendingProperty
    <2> QED
      BY <1>3, <2>1, <2>2, AscendingProperty, SeqMonotonic, LenProperties, ElementOfSeq
  <1> DEFINE k == Len(q) - 1
             p == z.queue
  <1>6. /\ p \in Seq(t.up) /\ Len(p) = k + Len(A) /\ DOMAIN p = 1 .. k + Len(A) /\ k \in Nat
        /\ \A i \in 1 .. k : p[i] = q[i + 1]
        /\ \A i \in 1 .. Len(A) : p[k + i] = A[i]
    <2>1. Tail(q) \in Seq(t.up) /\ Len(Tail(q)) = k /\ \A i \in 1 .. k : Tail(q)[i] = q[i + 1]
      BY <1>2, HeadTailProperties
    <2> HIDE DEF A, q, k
    <2>2. /\ Tail(q) \o A \in Seq(t.up) /\ Len(Tail(q) \o A) = k + Len(A)
          /\ \A i \in 1 .. k + Len(A) : (Tail(q) \o A)[i] = IF i <= k THEN Tail(q)[i] ELSE A[i - k]
      BY <1>5, <2>1, ConcatProperties
    <2>3. k \in Nat
      BY <2>1, LenProperties
    <2>4. p = Tail(q) \o A
      BY <1>1 DEF q, A
    <2> HIDE DEF p
    <2>5. DOMAIN p = 1 .. Len(p)
      BY <2>2, <2>4, LenProperties
    <2>6. ASSUME NEW i \in 1 .. k PROVE p[i] = q[i + 1]
      <3>1. i \in 1 .. k + Len(A) /\ i <= k
        BY <1>5, <2>3
      <3> QED
        BY <2>1, <2>2, <2>4, <3>1
    <2>7. ASSUME NEW i \in 1 .. Len(A) PROVE p[k + i] = A[i]
      <3>1. k + i \in 1 .. k + Len(A) /\ ~(k + i <= k) /\ (k + i) - k = i
        BY <1>5, <2>3
      <3> QED
        BY <2>2, <2>4, <3>1
    <2> QED
      BY <2>2, <2>3, <2>4, <2>5, <2>6, <2>7
  <1> HIDE DEF z, q, a, new, A, k, p
  <1>7. ASSUME NEW i \in 1 .. k + Len(A)
        PROVE  \/ i \in 1 .. k /\ i + 1 \in 1 .. Len(q) /\ p[i] = q[i + 1]
               \/ i > k /\ i - k \in 1 .. Len(A) /\ p[i] = A[i - k]
    <2>1. CASE i <= k
      BY <1>2, <1>6, <2>1 DEF k
    <2>2. CASE i > k
      <3>1. i - k \in 1 .. Len(A) /\ k + (i - k) = i
        BY <1>5, <1>6, <2>2
      <3> QED
        BY <1>6, <2>2, <3>1
    <2> QED
      BY <1>6, <2>1, <2>2
  <1>8. ToSet(p) = (ToSet(q) \ {a}) \cup new
    <2>1. ASSUME NEW x \in ToSet(p) PROVE x \in (ToSet(q) \ {a}) \cup new
      <3>1. PICK i \in 1 .. k + Len(A) : x = p[i]
        BY <1>6 DEF ToSet
      <3>2. CASE i + 1 \in 1 .. Len(q) /\ p[i] = q[i + 1] /\ i \in 1 .. k
        <4>1. q[i + 1] # q[1]
          BY <1>0, <1>2, <3>2 DEF Queued, q
        <4> QED
          BY <1>2, <3>1, <3>2, <4>1 DEF ToSet
      <3>3. CASE i - k \in 1 .. Len(A) /\ p[i] = A[i - k]
        BY <1>5, <3>1, <3>3
      <3> QED
        BY <1>7, <3>2, <3>3
    <2>2. ASSUME NEW x \in ToSet(q), x # a PROVE x \in ToSet(p)
      <3>1. PICK i \in 1 .. Len(q) : x = q[i]
        BY <1>2 DEF ToSet
      <3>2. i - 1 \in 1 .. k /\ (i - 1) + 1 = i /\ i - 1 \in 1 .. k + Len(A)
        BY <1>2, <1>5, <2>2, <3>1 DEF k
      <3>3. p[i - 1] = x
        BY <1>6, <3>1, <3>2
      <3> QED
        BY <1>6, <3>2, <3>3 DEF ToSet
    <2>3. ASSUME NEW x \in new PROVE x \in ToSet(p)
      <3>1. PICK i \in 1 .. Len(A) : A[i] = x
        BY <1>5
      <3>2. k + i \in 1 .. k + Len(A) /\ p[k + i] = x
        BY <1>5, <1>6, <3>1
      <3> QED
        BY <1>6, <3>2 DEF ToSet
    <2> QED
      BY <2>1, <2>2, <2>3
  <1>9. a \in Seen(s) /\ a \in ToSet(q) /\ ToSet(q) \subseteq Seen(s)
    BY <1>0, <1>2 DEF Queued, ToSet, q
  <1>10. Done(z) = Done(s) \cup {a} /\ a \notin Done(s)
    <2>1. Done(s) = Seen(s) \ ToSet(q) /\ Done(z) = Seen(z) \ ToSet(p)
      BY DEF Done, q, p
    <2> QED
      BY <1>1, <1>3, <1>8, <1>9, <2>1
  <1>11. to \notin Done(z)
    <2>1. a # to
      BY DEF Found, a
    <2> QED
      BY <1>0, <1>10, <2>1
  <1>12. \A v \in Seen(s) : v \in Reached(t, from) /\ d(v) \in Nat
    BY <1>0, DistLeast DEF Known
  <1>13. ASSUME NEW n \in new PROVE n \in Reached(t, from) /\ d(n) = d(a) + 1
    <2>1. n \in Reached(t, from) /\ d(n) <= d(a) + 1
      BY <1>3, <1>9, <1>12, DistHop
    <2>2. ~(d(n) <= d(a))
      BY <1>0, <1>3, <2>1 DEF Complete, a
    <2>3. d(n) \in Nat /\ d(a) \in Nat
      BY <1>9, <1>12, <2>1, DistLeast
    <2> HIDE DEF d
    <2> QED
      BY <2>1, <2>2, <2>3
  <1>14. Known(t, from, z)
    BY <1>0, <1>1, <1>13 DEF Known
  <1>15. Parents(t, from, z)
    <2> SUFFICES ASSUME NEW v \in Seen(z) \ {from}
                 PROVE  /\ z.previous[v] \in Seen(z) /\ Hop(t, z.previous[v], v)
                        /\ d(v) = d(z.previous[v]) + 1
      BY DEF Parents
    <2>1. CASE v \in Seen(s)
      BY <1>0, <1>1, <2>1 DEF Parents
    <2>2. CASE v \in new
      BY <1>1, <1>3, <1>9, <1>13, <2>2
    <2> QED
      BY <1>1, <2>1, <2>2
  <1>16. Expanded(t, z)
    BY <1>0, <1>1, <1>4, <1>10 DEF Expanded
  <1>17. Queued(z)
    <2>1. ASSUME NEW i \in 1 .. k + Len(A) PROVE p[i] \in Seen(z)
      BY <1>1, <1>5, <1>7, <1>0 DEF Queued, q
    <2>2. ASSUME NEW i \in 1 .. k + Len(A), NEW j \in 1 .. k + Len(A), p[i] = p[j] PROVE i = j
      <3>1. CASE i <= k /\ j <= k
        <4>1. q[i + 1] = q[j + 1] /\ i + 1 \in 1 .. Len(q) /\ j + 1 \in 1 .. Len(q)
          BY <1>6, <1>7, <2>2, <3>1
        <4>2. i + 1 = j + 1
          BY <1>0, <4>1 DEF Queued, q
        <4> QED
          BY <1>6, <4>2
      <3>2. CASE i > k /\ j > k
        <4>1. A[i - k] = A[j - k] /\ i - k \in 1 .. Len(A) /\ j - k \in 1 .. Len(A)
          BY <1>6, <1>7, <2>2, <3>2
        <4>2. i - k = j - k
          BY <1>5, <4>1
        <4> QED
          BY <1>6, <4>2
      <3>3. ASSUME NEW m \in 1 .. k + Len(A), NEW n \in 1 .. k + Len(A), m <= k, n > k PROVE p[m] # p[n]
        <4>0. ~(m > k) /\ ~(n \in 1 .. k)
          <5>1. k \in Nat
            BY <1>6
          <5> QED
            BY <3>3, <5>1
        <4>1. p[m] \in Seen(s)
          <5>1. m + 1 \in 1 .. Len(q) /\ p[m] = q[m + 1]
            BY <1>7, <4>0
          <5> QED
            BY <1>0, <5>1 DEF Queued, q
        <4>2. p[n] \in new
          <5>1. n - k \in 1 .. Len(A) /\ p[n] = A[n - k]
            BY <1>7, <4>0
          <5> QED
            BY <1>5, <5>1
        <4> QED
          BY <1>3, <4>1, <4>2
      <3> QED
        BY <1>6, <2>2, <3>1, <3>2, <3>3
    <2> QED
      BY <1>6, <2>1, <2>2 DEF Queued, p
  <1>18. \A i \in 1 .. Len(q) : q[i] \in Seen(s) /\ d(a) <= d(q[i]) /\ d(q[i]) <= d(a) + 1
    BY <1>0, <1>2 DEF Queued, Layered, q
  <1>19. ASSUME NEW i \in 1 .. k + Len(A)
         PROVE  d(p[i]) \in Nat /\ d(a) <= d(p[i]) /\ d(p[i]) <= d(a) + 1
    <2>1. d(a) \in Nat
      BY <1>9, <1>12
    <2>2. CASE i <= k
      BY <1>6, <1>7, <1>12, <1>18, <2>2
    <2>3. CASE i > k
      <3>1. p[i] \in new
        BY <1>5, <1>6, <1>7, <2>3
      <3>2. d(p[i]) = d(a) + 1
        BY <1>13, <3>1
      <3> HIDE DEF d
      <3> QED
        BY <2>1, <3>2
    <2> QED
      BY <1>6, <2>2, <2>3
  <1>20. Layered(t, from, z)
    <2> SUFFICES ASSUME NEW i \in 1 .. k + Len(A), NEW j \in 1 .. k + Len(A), i <= j
                 PROVE  d(p[i]) <= d(p[j]) /\ d(p[j]) <= d(p[i]) + 1
      BY <1>6 DEF Layered, p
    <2>0. d(a) \in Nat
      BY <1>9, <1>12
    <2>1. CASE j <= k
      <3>1. p[i] = q[i + 1] /\ p[j] = q[j + 1] /\ i + 1 \in 1 .. Len(q) /\ j + 1 \in 1 .. Len(q) /\ i + 1 <= j + 1
        BY <1>6, <1>7, <2>1
      <3>2. d(q[i + 1]) <= d(q[j + 1]) /\ d(q[j + 1]) <= d(q[i + 1]) + 1
        BY <1>0, <3>1 DEF Layered, q
      <3> QED
        BY <3>1, <3>2
    <2>2. CASE j > k
      <3>1. p[j] \in new
        BY <1>5, <1>6, <1>7, <2>2
      <3>2. d(p[j]) = d(a) + 1
        BY <1>13, <3>1
      <3>3. d(p[i]) \in Nat /\ d(a) <= d(p[i]) /\ d(p[i]) <= d(a) + 1
        BY <1>19
      <3> HIDE DEF d
      <3> QED
        BY <2>0, <3>2, <3>3
    <2> QED
      BY <1>6, <2>1, <2>2
  <1>21. Complete(t, from, z)
    <2> SUFFICES ASSUME p # <<>>, NEW w \in Reached(t, from), d(w) <= d(Head(p))
                 PROVE  w \in Seen(z)
      BY DEF Complete, p
    <2>1. Head(p) = p[1] /\ 1 \in 1 .. k + Len(A)
      BY <1>5, <1>6, EmptySeq
    <2>2. d(w) \in Nat /\ d(a) \in Nat /\ d(w) <= d(a) + 1
      <3>1. d(w) \in Nat /\ d(a) \in Nat
        BY <1>9, <1>12, DistLeast
      <3>2. d(p[1]) \in Nat /\ d(p[1]) <= d(a) + 1 /\ d(w) <= d(p[1])
        BY <1>19, <2>1
      <3> HIDE DEF d
      <3> QED
        BY <3>1, <3>2
    <2>3. CASE d(w) <= d(a)
      BY <1>0, <1>1, <2>3 DEF Complete, a
    <2>4. CASE d(w) = d(a) + 1
      <3>1. PICK v \in Reached(t, from) : Hop(t, v, w) /\ d(v) = d(a)
        <4>1. d(w) > 0 /\ d(w) - 1 = d(a)
          <5> HIDE DEF d
          <5> QED
            BY <2>2, <2>4
        <4>2. PICK v \in Reached(t, from) : Hop(t, v, w) /\ d(v) = d(w) - 1
          BY <4>1, DistBack
        <4> QED
          BY <4>1, <4>2
      <3>2. v \in Seen(s)
        <4>1. d(v) <= d(a)
          <5> HIDE DEF d
          <5> QED
            BY <2>2, <3>1
        <4> QED
          BY <1>0, <4>1 DEF Complete, a
      <3>3. v \notin ToSet(p)
        <4> SUFFICES ASSUME v \in ToSet(p) PROVE FALSE
          OBVIOUS
        <4>1. PICK i \in 1 .. k + Len(A) : v = p[i]
          BY <1>6 DEF ToSet
        <4>2. d(p[1]) <= d(p[i])
          BY <1>5, <1>6, <1>20, <2>1, <4>1 DEF Layered, p
        <4>3. d(p[1]) \in Nat /\ d(w) <= d(p[1])
          BY <1>19, <2>1
        <4>4. d(p[i]) = d(a)
          BY <3>1, <4>1
        <4> HIDE DEF d
        <4> QED
          BY <2>2, <2>4, <4>2, <4>3, <4>4
      <3>4. v \in Done(z)
        BY <1>1, <3>2, <3>3 DEF Done, p
      <3>5. w \in t.up
        BY DEF Reached
      <3> QED
        BY <1>16, <3>1, <3>4, <3>5 DEF Expanded
    <2> QED
      <3> HIDE DEF d
      <3> QED
        BY <2>2, <2>3, <2>4
  <1> QED
    BY <1>10, <1>11, <1>14, <1>15, <1>16, <1>17, <1>20, <1>21 DEF BfsInv, z, a

\* The search has ended after as many rounds as there are nodes.
LEMMA SearchEnds ==
    ASSUME NEW t, FiniteTopology(t), NEW from \in t.up, NEW to
    PROVE  LET s == Search(t, from, to) IN
           s \in BfsState(t) /\ BfsInv(t, from, to, s) /\ (s.queue = <<>> \/ Found(s, to))
  <1>0. PICK h : SearchRun(t, from, to, h)
    BY SearchRuns
  <1>1. /\ h \in [Nat -> BfsState(t)] /\ h[0] = Start(from)
        /\ \A n \in Nat : h[n + 1] = Round(t, to, h[n])
        /\ Search(t, from, to) = h[Cardinality(t.up)]
    BY <1>0 DEF SearchRun
  <1> DEFINE Halted(s) == s.queue = <<>> \/ Found(s, to)
             G == {n \in Nat : BfsInv(t, from, to, h[n]) /\ (Halted(h[n]) \/ Cardinality(Done(h[n])) = n)}
             N == Cardinality(t.up)
  <1>2. 0 \in G
    <2>1. BfsInv(t, from, to, h[0]) /\ Done(h[0]) = {}
      BY <1>1, StartInv
    <2>2. Cardinality(Done(h[0])) = 0
      BY <2>1, FS_EmptySet
    <2> QED
      BY <2>1, <2>2
  <1>3. ASSUME NEW n \in Nat, n \in G PROVE n + 1 \in G
    <2> DEFINE s == h[n]
    <2>0. s \in BfsState(t) /\ h[n + 1] = Round(t, to, s) /\ BfsInv(t, from, to, s)
      BY <1>1, <1>3
    <2>1. CASE Halted(s)
      <3>1. h[n + 1] = s
        BY <2>0, <2>1, RoundFacts
      <3> QED
        BY <2>0, <2>1, <3>1
    <2>2. CASE ~Halted(s)
      <3>1. /\ BfsInv(t, from, to, Round(t, to, s))
            /\ Done(Round(t, to, s)) = Done(s) \cup {Head(s.queue)}
            /\ Head(s.queue) \notin Done(s)
        BY <2>0, <2>2, RoundKeeps
      <3>2. Done(s) \in SUBSET t.up
        BY <2>0, BfsStateFacts DEF Done, Seen
      <3>3. IsFiniteSet(Done(s))
        BY <3>2, FS_Subset DEF FiniteTopology
      <3>4. Cardinality(Done(s)) = n
        BY <1>3, <2>2
      <3>5. Cardinality(Done(s) \cup {Head(s.queue)}) = n + 1
        BY <3>1, <3>3, <3>4, FS_AddElement
      <3>6. BfsInv(t, from, to, h[n + 1]) /\ Cardinality(Done(h[n + 1])) = n + 1 /\ n + 1 \in Nat
        BY <2>0, <3>1, <3>5
      <3> QED
        BY <3>6
    <2> QED
      BY <2>1, <2>2
  <1>4. N \in Nat
    BY FS_CardinalityType DEF FiniteTopology
  <1>5. N \in G
    <2> HIDE DEF G, N
    <2> QED
      BY <1>2, <1>3, <1>4, SetInduction
  <1> DEFINE s == h[N]
  <1>6. s \in BfsState(t) /\ s = Search(t, from, to)
    BY <1>1, <1>4
  <1>7. BfsInv(t, from, to, s) /\ (Halted(s) \/ Cardinality(Done(s)) = N)
    BY <1>5
  <1>8. Halted(s)
    <2> SUFFICES ASSUME ~Halted(s) PROVE FALSE
      OBVIOUS
    <2>1. Cardinality(Done(s)) = Cardinality(t.up)
      BY <1>7
    <2> HIDE DEF s
    <2>2. Done(s) \in SUBSET t.up /\ s.queue \in Seq(t.up)
      BY <1>6, BfsStateFacts DEF Done, Seen
    <2>3. Done(s) = t.up
      BY <2>1, <2>2, FS_Subset DEF FiniteTopology
    <2>4. Len(s.queue) \in Nat \ {0} /\ DOMAIN s.queue = 1 .. Len(s.queue)
      BY <2>2, EmptySeq, LenProperties
    <2>5. 1 \in DOMAIN s.queue /\ s.queue[1] \in t.up
      BY <2>2, <2>4, ElementOfSeq
    <2> QED
      BY <2>3, <2>5 DEF Done, ToSet
  <1> HIDE DEF s
  <1> QED
    BY <1>6, <1>7, <1>8

\* A search that ends with an empty queue has seen everything in reach.
LEMMA Exhausted ==
    ASSUME NEW t, NEW from \in t.up, NEW to, NEW s, BfsInv(t, from, to, s), s.queue = <<>>
    PROVE  to \notin Reached(t, from)
  <1>0. Known(t, from, s) /\ Expanded(t, s) /\ to \notin Done(s)
    BY DEF BfsInv
  <1>1. Done(s) = Seen(s)
    BY DEF Done, ToSet
  <1> DEFINE G == {n \in Nat : \A v \in Reached(t, from) : Dist(t, from, v) = n => v \in Seen(s)}
  <1>2. 0 \in G
    BY <1>0, DistStart DEF Known
  <1>3. ASSUME NEW n \in Nat, n \in G PROVE n + 1 \in G
    <2> SUFFICES ASSUME NEW w \in Reached(t, from), Dist(t, from, w) = n + 1 PROVE w \in Seen(s)
      OBVIOUS
    <2>1. Dist(t, from, w) > 0 /\ Dist(t, from, w) - 1 = n
      OBVIOUS
    <2>2. PICK v \in Reached(t, from) : Hop(t, v, w) /\ Dist(t, from, v) = n
      BY <2>1, DistBack
    <2>3. v \in Seen(s) /\ w \in t.up
      BY <1>3, <2>2 DEF Reached
    <2> QED
      BY <1>0, <1>1, <2>2, <2>3 DEF Expanded
  <1> HIDE DEF G
  <1>4. \A n \in Nat : n \in G
    BY <1>2, <1>3, SetInduction
  <1>5. ASSUME to \in Reached(t, from) PROVE FALSE
    <2>1. Dist(t, from, to) \in Nat
      BY <1>5, DistLeast
    <2>2. to \in Seen(s)
      BY <1>4, <1>5, <2>1 DEF G
    <2> QED
      BY <1>0, <1>1, <2>2
  <1> QED
    BY <1>5

-----------------------------------------------------------------------------
\* The way back.

Back(from, previous, p) == IF Head(p) = from THEN p ELSE <<previous[Head(p)]>> \o p

\* A path to the target, along which the distance grows by one with each hop.
Trail(t, from, to, p) ==
    /\ p[Len(p)] = to
    /\ \A i \in 1 .. Len(p) - 1 : Hop(t, p[i], p[i + 1])
    /\ \A i \in 1 .. Len(p) : Dist(t, from, p[i]) = Dist(t, from, to) - Len(p) + i

LEMMA BackKeeps ==
    ASSUME NEW t, NEW from \in t.up, NEW to \in Reached(t, from), NEW s,
           Known(t, from, s), Parents(t, from, s),
           NEW p \in Seq(Seen(s)) \ {<<>>}
    PROVE  LET b == Back(from, s.previous, p) IN
           /\ b \in Seq(Seen(s)) \ {<<>>}
           /\ Head(p) # from => Len(b) = Len(p) + 1
           /\ Trail(t, from, to, p) => Trail(t, from, to, b)
  <1> DEFINE b == Back(from, s.previous, p)
             u == s.previous[Head(p)]
  <1>0. p \in Seq(Seen(s)) /\ Len(p) \in Nat \ {0} /\ Head(p) = p[1] /\ p[1] \in Seen(s)
    BY EmptySeq, ElementOfSeq
  <1>1. CASE Head(p) = from
    BY <1>1 DEF Back
  <1>2. CASE Head(p) # from
    <2>1. u \in Seen(s) /\ Hop(t, u, p[1]) /\ Dist(t, from, p[1]) = Dist(t, from, u) + 1
      BY <1>0, <1>2 DEF Parents
    <2>2. b = <<u>> \o p
      BY <1>2 DEF Back
    <2> HIDE DEF u, b
    <2>3. <<u>> \in Seq(Seen(s)) /\ Len(<<u>>) = 1 /\ <<u>>[1] = u
      <3>1. Append(<<>>, u) \in Seq(Seen(s))
        BY <2>1, EmptySeq, AppendProperties
      <3> QED
        BY <3>1
    <2>4. /\ b \in Seq(Seen(s)) /\ Len(b) = 1 + Len(p)
          /\ \A i \in 1 .. 1 + Len(p) : b[i] = IF i <= 1 THEN <<u>>[i] ELSE p[i - 1]
      BY <1>0, <2>2, <2>3, ConcatProperties
    <2>5. b[1] = u /\ \A i \in 1 .. Len(p) : b[i + 1] = p[i]
      <3>1. b[1] = u
        BY <1>0, <2>3, <2>4
      <3>2. ASSUME NEW i \in 1 .. Len(p) PROVE b[i + 1] = p[i]
        <4>1. i + 1 \in 1 .. 1 + Len(p) /\ ~(i + 1 <= 1) /\ (i + 1) - 1 = i
          BY <1>0
        <4> QED
          BY <2>4, <4>1
      <3> QED
        BY <3>1, <3>2
    <2>6. b # <<>> /\ Len(b) = Len(p) + 1
      BY <1>0, <2>4, EmptySeq
    <2>7. ASSUME Trail(t, from, to, p) PROVE Trail(t, from, to, b)
      <3>1. b[Len(b)] = to
        <4>1. Len(p) \in 1 .. Len(p)
          BY <1>0
        <4> QED
          BY <2>5, <2>6, <2>7, <4>1 DEF Trail
      <3>2. ASSUME NEW i \in 1 .. Len(b) - 1 PROVE Hop(t, b[i], b[i + 1])
        <4>1. i \in 1 .. Len(p) /\ b[i + 1] = p[i]
          BY <1>0, <2>5, <2>6
        <4>2. CASE i = 1
          BY <2>1, <2>5, <4>1, <4>2
        <4>3. CASE i # 1
          <5>1. i - 1 \in 1 .. Len(p) - 1 /\ i - 1 \in 1 .. Len(p) /\ (i - 1) + 1 = i
            BY <1>0, <4>1, <4>3
          <5>2. b[i] = p[i - 1]
            BY <2>5, <5>1
          <5> QED
            BY <2>7, <4>1, <5>1, <5>2 DEF Trail
        <4> QED
          BY <4>2, <4>3
      <3>3. ASSUME NEW i \in 1 .. Len(b) PROVE Dist(t, from, b[i]) = Dist(t, from, to) - Len(b) + i
        <4> DEFINE D == Dist(t, from, to)
        <4>0. D \in Nat /\ Dist(t, from, u) \in Nat
          BY <2>1, DistLeast DEF Known
        <4>1. CASE i = 1
          <5>1. Dist(t, from, p[1]) = D - Len(p) + 1
            BY <1>0, <2>7 DEF Trail
          <5> QED
            BY <1>0, <2>1, <2>5, <2>6, <4>0, <4>1, <5>1
        <4>2. CASE i # 1
          <5>1. i - 1 \in 1 .. Len(p) /\ (i - 1) + 1 = i
            BY <1>0, <2>6, <4>2
          <5>2. b[i] = p[i - 1] /\ Dist(t, from, p[i - 1]) = D - Len(p) + (i - 1)
            BY <2>5, <2>7, <5>1 DEF Trail
          <5> QED
            BY <1>0, <2>6, <4>0, <5>1, <5>2
        <4> QED
          BY <4>1, <4>2
      <3> QED
        BY <3>1, <3>2, <3>3 DEF Trail
    <2> QED
      BY <2>4, <2>6, <2>7 DEF b
  <1> QED
    BY <1>1, <1>2

\* What the way back from node to can be.
Trails(s) == Seq(Seen(s)) \ {<<>>}

\* h[n] is the path after n steps back.
ReconstructRun(from, to, s, h) ==
    /\ h \in [Nat -> Trails(s)] /\ h[0] = <<to>>
    /\ \A n \in Nat : h[n + 1] = Back(from, s.previous, h[n])
    /\ reconstruct_path(from, to, s.previous) = h[Cardinality(Seen(s))]

LEMMA ReconstructRuns ==
    ASSUME NEW t, NEW from \in t.up, NEW to \in Reached(t, from), NEW s,
           Known(t, from, s), Parents(t, from, s), to \in Seen(s), IsFiniteSet(Seen(s))
    PROVE  \E h : ReconstructRun(from, to, s, h)
  <1> DEFINE F == [p \in Trails(s) |-> Back(from, s.previous, p)]
  <1>1. F \in [Trails(s) -> Trails(s)]
    BY BackKeeps DEF Trails
  <1>2. <<to>> \in Trails(s)
    <2>1. Append(<<>>, to) \in Seq(Seen(s))
      BY EmptySeq, AppendProperties
    <2> QED
      BY <2>1 DEF Trails
  <1>3. PICK h : Iterates(Trails(s), F, <<to>>, h)
    <2> HIDE DEF F
    <2> QED
      BY <1>1, <1>2, Iteration
  <1>4. h \in [Nat -> Trails(s)] /\ h[0] = <<to>> /\ \A n \in Nat : h[n + 1] = Back(from, s.previous, h[n])
    BY <1>3 DEF Iterates
  <1> HIDE DEF F
  <1> DEFINE Body(f) == [n \in Nat |->
                            IF n = 0 THEN <<to>>
                            ELSE IF Head(f[n - 1]) = from THEN f[n - 1]
                            ELSE <<s.previous[Head(f[n - 1])]>> \o f[n - 1]]
             loop == CHOOSE f : f = Body(f)
  <1>5. h = Body(h)
    <2>1. ASSUME NEW n \in Nat PROVE h[n] = Body(h)[n]
      <3>1. CASE n = 0
        BY <1>4, <3>1
      <3>2. CASE n # 0
        <4>1. n - 1 \in Nat /\ (n - 1) + 1 = n
          BY <3>2
        <4>2. h[n] = Back(from, s.previous, h[n - 1])
          BY <1>4, <4>1
        <4> QED
          BY <3>2, <4>1, <4>2 DEF Back
      <3> QED
        BY <3>1, <3>2
    <2> QED
      BY <1>4, <2>1
  <1>6. loop = Body(loop)
    <2> HIDE DEF Body
    <2> QED
      BY <1>5, Zenon
  <1>7. \A n \in Nat : loop[n] = h[n]
    <2> DEFINE G == {n \in Nat : loop[n] = h[n]}
    <2> HIDE DEF loop
    <2>1. 0 \in G
      BY <1>4, <1>6
    <2>2. ASSUME NEW n \in Nat, n \in G PROVE n + 1 \in G
      <3>0. n + 1 \in Nat /\ n + 1 # 0 /\ (n + 1) - 1 = n
        OBVIOUS
      <3>1. loop[n + 1] = Back(from, s.previous, loop[n])
        BY <1>6, <3>0 DEF Back
      <3>2. loop[n] = h[n]
        BY <2>2
      <3> QED
        BY <1>4, <3>1, <3>2
    <2> HIDE DEF G
    <2>3. \A n \in Nat : n \in G
      BY <2>1, <2>2, SetInduction
    <2> QED
      BY <2>3 DEF G
  <1>8. reconstruct_path(from, to, s.previous) = loop[Cardinality(Seen(s))]
    BY Zenon DEF reconstruct_path, Seen
  <1>9. Cardinality(Seen(s)) \in Nat
    BY FS_CardinalityType
  <1> HIDE DEF loop
  <1> QED
    BY <1>4, <1>7, <1>8, <1>9 DEF ReconstructRun

\* The path of the search leads from the start to the target and has as many
\* hops as the distance says.
LEMMA Reconstructed ==
    ASSUME NEW t, NEW from \in t.up, NEW to \in Reached(t, from), NEW s,
           Known(t, from, s), Parents(t, from, s), to \in Seen(s), IsFiniteSet(Seen(s))
    PROVE  LET p == reconstruct_path(from, to, s.previous) IN
           /\ p \in Seq(Seen(s)) /\ p # <<>> /\ p[1] = from
           /\ Trail(t, from, to, p) /\ Len(p) = Dist(t, from, to) + 1
  <1> DEFINE N == Cardinality(Seen(s))
  <1>0. PICK h : ReconstructRun(from, to, s, h)
    BY ReconstructRuns
  <1>1. /\ h \in [Nat -> Trails(s)] /\ h[0] = <<to>>
        /\ \A n \in Nat : h[n + 1] = Back(from, s.previous, h[n])
        /\ reconstruct_path(from, to, s.previous) = h[N]
    BY <1>0 DEF ReconstructRun
  <1> DEFINE G == {n \in Nat : Trail(t, from, to, h[n]) /\ (Head(h[n]) = from \/ Len(h[n]) = n + 1)}
  <1>2. 0 \in G
    <2>1. Len(<<to>>) = 1 /\ <<to>>[1] = to /\ Dist(t, from, to) \in Nat
      BY DistLeast
    <2>2. Trail(t, from, to, <<to>>)
      BY <2>1 DEF Trail
    <2>3. Trail(t, from, to, h[0]) /\ Len(h[0]) = 0 + 1
      BY <1>1, <2>1, <2>2
    <2> QED
      BY <2>3
  <1>3. ASSUME NEW n \in Nat, n \in G PROVE n + 1 \in G
    <2> DEFINE p == h[n]
               b == h[n + 1]
    <2>1. p \in Trails(s) /\ b = Back(from, s.previous, p) /\ Trail(t, from, to, p) /\ (Head(p) = from \/ Len(p) = n + 1)
      BY <1>1, <1>3
    <2>2. (Head(p) # from => Len(b) = Len(p) + 1) /\ Trail(t, from, to, b)
      BY <2>1, BackKeeps DEF Trails
    <2>3. Head(b) = from \/ Len(b) = (n + 1) + 1
      <3>1. CASE Head(p) = from
        BY <2>1, <3>1 DEF Back
      <3>2. CASE Head(p) # from
        <4> HIDE DEF p, b
        <4> QED
          BY <2>1, <2>2, <3>2
      <3> QED
        BY <3>1, <3>2
    <2> QED
      BY <2>2, <2>3
  <1>4. N \in Nat
    BY FS_CardinalityType
  <1>5. N \in G
    <2> HIDE DEF G, N
    <2> QED
      BY <1>2, <1>3, <1>4, SetInduction
  <1> DEFINE p == h[N]
  <1>6. /\ p = reconstruct_path(from, to, s.previous) /\ p \in Seq(Seen(s)) /\ p # <<>>
        /\ Trail(t, from, to, p) /\ (Head(p) = from \/ Len(p) = N + 1)
    <2>1. p \in Trails(s)
      BY <1>1, <1>4
    <2> QED
      BY <1>1, <1>5, <2>1 DEF Trails
  <1> HIDE DEF p, G
  <1>7. Len(p) \in Nat \ {0} /\ p \in [1 .. Len(p) -> Seen(s)] /\ Head(p) = p[1]
    BY <1>6, EmptySeq, LenProperties
  <1>8. Dist(t, from, to) \in Nat
    BY DistLeast
  <1>9. Head(p) = from
    <2> SUFFICES ASSUME Len(p) = N + 1 PROVE FALSE
      BY <1>6
    <2>1. IsFiniteSet(1 .. N + 1) /\ Cardinality(1 .. N + 1) = N + 1
      <3>1. IsFiniteSet(1 .. N + 1) /\ Cardinality(1 .. N + 1) = IF 1 > N + 1 THEN 0 ELSE (N + 1) - 1 + 1
        <4> HIDE DEF N
        <4> QED
          BY <1>4, FS_Interval
      <3> QED
        BY <1>4, <3>1
    <2>2. Cardinality(Seen(s)) < Cardinality(1 .. N + 1)
      BY <1>4, <2>1
    <2>3. p \in [1 .. N + 1 -> Seen(s)]
      BY <1>7
    <2>4. \E i, j \in 1 .. N + 1 : i # j /\ p[i] = p[j]
      <3> DEFINE D == 1 .. N + 1
      <3> HIDE DEF D, N
      <3> QED
        BY <2>1, <2>2, <2>3, FS_PigeonHole DEF D
    <2>5. PICK i \in 1 .. N + 1, j \in 1 .. N + 1 : i # j /\ p[i] = p[j]
      BY <2>4
    <2>6. /\ Dist(t, from, p[i]) = Dist(t, from, to) - Len(p) + i
          /\ Dist(t, from, p[j]) = Dist(t, from, to) - Len(p) + j
      BY <1>6 DEF Trail
    <2> QED
      BY <1>7, <1>8, <2>5, <2>6
  <1>10. Len(p) = Dist(t, from, to) + 1
    <2>1. Dist(t, from, p[1]) = Dist(t, from, to) - Len(p) + 1
      <3>1. 1 \in 1 .. Len(p)
        BY <1>7
      <3> QED
        BY <1>6, <3>1 DEF Trail
    <2>2. Dist(t, from, p[1]) = 0
      BY <1>7, <1>9, DistStart
    <2>3. 0 = Dist(t, from, to) - Len(p) + 1
      BY <2>1, <2>2
    <2> QED
      BY <1>7, <1>8, <2>3
  <1> QED
    BY <1>6, <1>7, <1>9, <1>10

(* Over any finite set of available nodes and any links, bfs_path          *)
(* (topology.rs) returns a path than which no walk is shorter, and None    *)
(* only if there is no walk at all.                                        *)
THEOREM BfsPath ==
    ASSUME NEW t, FiniteTopology(t), NEW from, NEW to
    PROVE  LET path == bfs_path(t, from, to) IN
           /\ path = NoPath => Unconnected(t, from, to)
           /\ path # NoPath => /\ path \in Seq(t.up) /\ ShortestLeg(t, from, to, path)
                               /\ from \in t.up /\ to \in t.up
  <1> DEFINE path == bfs_path(t, from, to)
             s == Search(t, from, to)
             card == Cardinality(t.up)
  <1>0. card \in Nat
    BY FS_CardinalityType DEF FiniteTopology
  <1>1. CASE ~({from, to} \subseteq t.up)
    <2>1. path = NoPath
      BY <1>1 DEF bfs_path
    <2>2. ASSUME NEW k \in 0 .. card - 1, Walks(t, from, to, k) # {} PROVE FALSE
      <3>1. PICK w : w \in Walks(t, from, to, k)
        BY <2>2
      <3>2. w[0] \in t.up /\ w[k] \in t.up /\ w[0] = from /\ w[k] = to
        BY <1>0, <3>1 DEF Walks
      <3> QED
        BY <1>1, <3>2
    <2> QED
      BY <2>1, <2>2 DEF Unconnected, Connects
  <1>2. CASE {from, to} \subseteq t.up
    <2>0. from \in t.up /\ to \in t.up
      BY <1>2
    <2>1. s \in BfsState(t) /\ BfsInv(t, from, to, s) /\ (s.queue = <<>> \/ Found(s, to))
      BY <2>0, SearchEnds
    <2>2. CASE s.queue = <<>>
      <3>1. path = NoPath
        BY <2>2 DEF bfs_path, Found
      <3>2. to \notin Reached(t, from)
        BY <2>0, <2>1, <2>2, Exhausted
      <3>3. \A k \in Nat : Walks(t, from, to, k) = {}
        BY <2>0, <3>2 DEF Reached
      <3> QED
        BY <1>0, <3>1, <3>3 DEF Unconnected, Connects
    <2>3. CASE Found(s, to)
      <3>1. path = reconstruct_path(from, to, s.previous)
        BY <1>2, <2>3 DEF bfs_path
      <3> HIDE DEF s
      <3>2. Known(t, from, s) /\ Parents(t, from, s) /\ Queued(s)
        BY <2>1 DEF BfsInv
      <3>3. to \in Seen(s)
        <4>1. s.queue \in Seq(t.up) /\ s.queue # <<>> /\ s.queue[1] = to
          BY <2>1, <2>3, BfsStateFacts DEF Found
        <4>2. 1 \in 1 .. Len(s.queue)
          BY <4>1, EmptySeq
        <4> QED
          BY <3>2, <4>1, <4>2 DEF Queued
      <3>4. Seen(s) \in SUBSET t.up
        BY <2>1, BfsStateFacts DEF Seen
      <3>5. IsFiniteSet(Seen(s)) /\ to \in Reached(t, from)
        BY <3>2, <3>3, <3>4, FS_Subset DEF FiniteTopology, Known
      <3>6. /\ path \in Seq(Seen(s)) /\ path # <<>> /\ path[1] = from
            /\ Trail(t, from, to, path) /\ Len(path) = Dist(t, from, to) + 1
        BY <2>0, <3>1, <3>2, <3>3, <3>5, Reconstructed
      <3> HIDE DEF path
      <3>7. path \in Seq(t.up)
        BY <3>4, <3>6, SeqMonotonic
      <3>8. /\ Len(path) \in Nat \ {0} /\ DOMAIN path = 1 .. Len(path)
            /\ \A i \in 1 .. Len(path) : path[i] \in t.up
        BY <3>6, <3>7, EmptySeq, LenProperties, ElementOfSeq
      <3>9. Last(path) = to /\ ToSet(path) \subseteq t.up
        BY <3>6, <3>8 DEF Last, ToSet, Trail
      <3>10. Hops(path) \subseteq t.links
        BY <3>6 DEF Hops, Trail, Hop
      <3>11. ~Connects(t, from, to, Len(path) - 1)
        <4> SUFFICES ASSUME NEW k \in 0 .. (Len(path) - 1) - 1, Walks(t, from, to, k) # {} PROVE FALSE
          BY DEF Connects
        <4>1. Dist(t, from, to) \in Nat /\ Dist(t, from, to) <= k
          BY <3>5, <3>8, DistLeast
        <4> QED
          BY <3>6, <3>8, <4>1
      <3>12. ShortestLeg(t, from, to, path)
        BY <3>6, <3>9, <3>10, <3>11 DEF ShortestLeg
      <3> QED
        BY <2>0, <3>6, <3>7, <3>12 DEF NoPath, path
    <2> QED
      BY <2>1, <2>2, <2>3
  <1> QED
    BY <1>1, <1>2

-----------------------------------------------------------------------------
\* Routes.

\* Two paths that meet, joined as route_path_for_kind does it.
LEMMA JoinedPaths ==
    ASSUME NEW S, NEW p \in Seq(S), p # <<>>, NEW q \in Seq(S), q # <<>>, Last(p) = q[1]
    PROVE  LET j == p \o Tail(q) IN
           /\ Len(p) \in DOMAIN j
           /\ SubSeq(j, 1, Len(p)) = p
           /\ SubSeq(j, Len(p), Len(j)) = q
  <1> DEFINE j == p \o Tail(q)
             m == Len(p)
             n == Len(q)
             x == SubSeq(j, 1, m)
             y == SubSeq(j, m, Len(j))
  <1>1. m \in Nat \ {0} /\ n \in Nat \ {0} /\ p[m] = q[1]
    BY EmptySeq DEF Last
  <1>2. Tail(q) \in Seq(S) /\ Len(Tail(q)) = n - 1 /\ \A i \in 1 .. n - 1 : Tail(q)[i] = q[i + 1]
    <2>1. Tail(q) \in Seq(S) /\ Len(Tail(q)) = n - 1 /\ \A i \in 1 .. Len(Tail(q)) : Tail(q)[i] = q[i + 1]
      BY HeadTailProperties
    <2> QED
      BY <2>1
  <1>3. /\ j \in Seq(S) /\ Len(j) = m + (n - 1)
        /\ \A i \in 1 .. m + (n - 1) : j[i] = IF i <= m THEN p[i] ELSE Tail(q)[i - m]
    BY <1>2, ConcatProperties
  <1>4. DOMAIN j = 1 .. m + (n - 1) /\ \A i \in 1 .. m + (n - 1) : j[i] \in S
    BY <1>3, LenProperties, ElementOfSeq
  <1> HIDE DEF j, m, n
  <1>5. m \in 1 .. m + (n - 1) /\ 1 .. m \subseteq 1 .. m + (n - 1) /\ m .. Len(j) \subseteq 1 .. m + (n - 1)
    BY <1>1, <1>3
  <1>6. x = p
    <2>1. 1 \in Int /\ m \in Int /\ \A i \in 1 .. m : j[i] \in S
      BY <1>1, <1>4, <1>5
    <2>2. x \in Seq(S) /\ Len(x) = (IF 1 <= m THEN m - 1 + 1 ELSE 0) /\ \A i \in 1 .. m - 1 + 1 : x[i] = j[1 + i - 1]
      BY <2>1, SubSeqProperties
    <2> HIDE DEF x
    <2>3. Len(x) = Len(p) /\ Len(x) = m
      BY <1>1, <2>2 DEF m
    <2>4. ASSUME NEW i \in 1 .. Len(x) PROVE x[i] = p[i]
      <3>1. i \in 1 .. m - 1 + 1 /\ 1 + i - 1 = i /\ i \in 1 .. m + (n - 1) /\ i <= m
        BY <1>1, <2>3
      <3> QED
        BY <1>3, <2>2, <3>1
    <2> QED
      BY <2>2, <2>3, <2>4, SeqEqual
  <1>7. y = q
    <2>0. Len(j) = m + (n - 1) /\ Len(j) \in Int /\ m \in Int /\ Len(j) - m + 1 = n /\ m <= Len(j)
      BY <1>1, <1>3
    <2>1. \A i \in m .. Len(j) : j[i] \in S
      BY <1>4, <1>5
    <2>2. y \in Seq(S) /\ Len(y) = (IF m <= Len(j) THEN Len(j) - m + 1 ELSE 0)
          /\ \A i \in 1 .. Len(j) - m + 1 : y[i] = j[m + i - 1]
      BY <2>0, <2>1, SubSeqProperties
    <2> HIDE DEF y
    <2>3. Len(y) = Len(q) /\ Len(y) = n
      BY <2>0, <2>2 DEF n
    <2>4. ASSUME NEW i \in 1 .. Len(y) PROVE y[i] = q[i]
      <3>1. i \in 1 .. Len(j) - m + 1 /\ m + i - 1 \in 1 .. m + (n - 1)
        BY <1>1, <2>0, <2>3
      <3>2. y[i] = j[m + i - 1]
        BY <2>2, <3>1
      <3>3. CASE i = 1
        <4>1. m + i - 1 = m /\ m <= m
          BY <1>1, <3>3
        <4> QED
          BY <1>1, <1>3, <3>1, <3>2, <3>3, <4>1
      <3>4. CASE i # 1
        <4>1. ~(m + i - 1 <= m) /\ (m + i - 1) - m = i - 1 /\ i - 1 \in 1 .. n - 1 /\ (i - 1) + 1 = i
          BY <1>1, <2>3, <3>4
        <4> QED
          BY <1>2, <1>3, <3>1, <3>2, <4>1
      <3> QED
        BY <3>3, <3>4
    <2> QED
      BY <2>2, <2>3, <2>4, SeqEqual
  <1> QED
    BY <1>4, <1>5, <1>6, <1>7 DEF j, m

\* Every route that route_between makes is exact.
LEMMA RouteBetweenExact ==
    ASSUME NEW t, FiniteTopology(t), NEW from, NEW a
    PROVE  ExactRoute(t, route_between(t, from, a))
  <1> DEFINE r == route_between(t, from, a)
             parent == mothership_parent_node_id(t, a)
             direct == t.kind # "mothership" \/ parent \in {NoNode, a}
             path == IF a \in t.nodes THEN route_path_for_kind(t, from, a) ELSE NoPath
  <1>1. r.from = from /\ r.to = a /\ r.via = path /\ r.allowed = (path # NoPath)
    BY DEF route_between
  <1>2. CASE a \notin t.nodes
    <2>1. ~r.allowed
      BY <1>1, <1>2
    <2> QED
      BY <1>1, <1>2, <2>1 DEF ExactRoute
  <1>3. CASE a \in t.nodes /\ direct
    <2>1. path = bfs_path(t, from, a)
      BY <1>3 DEF route_path_for_kind
    <2>2. (path = NoPath => Unconnected(t, from, a)) /\ (path # NoPath => ShortestLeg(t, from, a, path))
      BY <2>1, BfsPath
    <2> HIDE DEF path, r, parent
    <2> QED
      BY <1>1, <1>3, <2>2 DEF ExactRoute, r, parent
  <1>4. CASE a \in t.nodes /\ ~direct
    <2> DEFINE first == bfs_path(t, from, parent)
               second == bfs_path(t, parent, a)
    <2>1. path = IF NoPath \in {first, second} THEN NoPath ELSE first \o Tail(second)
      BY <1>4 DEF route_path_for_kind
    <2>2. /\ first = NoPath => Unconnected(t, from, parent)
          /\ first # NoPath => first \in Seq(t.up) /\ ShortestLeg(t, from, parent, first)
          /\ second = NoPath => Unconnected(t, parent, a)
          /\ second # NoPath => second \in Seq(t.up) /\ ShortestLeg(t, parent, a, second)
      BY BfsPath
    <2> HIDE DEF first, second, path, r, parent
    <2>3. CASE NoPath \in {first, second}
      <3>1. path = NoPath /\ (Unconnected(t, from, parent) \/ Unconnected(t, parent, a))
        BY <2>1, <2>2, <2>3
      <3> QED
        BY <1>1, <1>4, <3>1 DEF ExactRoute, r, parent
    <2>4. CASE NoPath \notin {first, second}
      <3>1. /\ first # <<>> /\ second # <<>> /\ path = first \o Tail(second)
            /\ first \in Seq(t.up) /\ ShortestLeg(t, from, parent, first)
            /\ second \in Seq(t.up) /\ ShortestLeg(t, parent, a, second)
        BY <2>1, <2>2, <2>4 DEF NoPath
      <3>2. Last(first) = second[1]
        BY <3>1 DEF ShortestLeg
      <3>3. /\ Len(first) \in DOMAIN path
            /\ SubSeq(path, 1, Len(first)) = first
            /\ SubSeq(path, Len(first), Len(path)) = second
        BY <3>1, <3>2, JoinedPaths
      <3>4. path # NoPath
        BY <3>3 DEF NoPath
      <3>5. \E i \in DOMAIN path : /\ ShortestLeg(t, from, parent, SubSeq(path, 1, i))
                                   /\ ShortestLeg(t, parent, a, SubSeq(path, i, Len(path)))
        BY <3>1, <3>3
      <3> QED
        BY <1>1, <1>4, <3>4, <3>5 DEF ExactRoute, r, parent
    <2> QED
      BY <2>3, <2>4
  <1> QED
    BY <1>2, <1>3, <1>4

LEMMA RoutesOfPlan ==
    ASSUME NEW t, FiniteTopology(t), NEW planned, NEW agents, NEW r \in route_command_plan(t, planned, agents)
    PROVE  ExactRoute(t, r)
  <1>1. PICK from, a : r = route_between(t, from, a)
    BY DEF route_command_plan
  <1> QED
    BY <1>1, RouteBetweenExact

-----------------------------------------------------------------------------
\* The depth-first search.

Dependencies(g) == g \subseteq AgentIds \X AgentIds

\* What dfs_cycle searches, and what it can call itself for.
Pairs(g) == g \cup {<<NoNode, a>> : a \in {e[1] : e \in g}}

Callers(g) == {NoNode} \cup {e[2] : e \in Pairs(g)}

LEMMA PairFacts ==
    ASSUME NEW g, Dependencies(g)
    PROVE  /\ \A e \in Pairs(g) : /\ e = <<e[1], e[2]>> /\ e[1] \in Callers(g) /\ e[2] \in Callers(g)
                                  /\ e[2] \in AgentIds /\ (e[1] # NoNode => e \in g)
           /\ \A e \in g : e \in Pairs(g) /\ <<NoNode, e[1]>> \in Pairs(g) /\ e[1] # NoNode
           /\ Callers(g) \subseteq AgentIds \cup {NoNode}
           /\ NoNode \in Callers(g) /\ NoNode \notin AgentIds /\ AgentIds \subseteq Nat
           /\ IsFiniteSet(Pairs(g)) /\ IsFiniteSet(Callers(g)) /\ IsFiniteSet(AgentIds)
  <1>1. IsFiniteSet(AgentIds) /\ AgentIds \subseteq Nat /\ NoNode \notin AgentIds
    BY InputsAssumption DEF NoNode
  <1>2. \A e \in g : e = <<e[1], e[2]>> /\ e[1] \in AgentIds /\ e[2] \in AgentIds
    BY DEF Dependencies
  <1>3. \A e \in g : e \in Pairs(g) /\ <<NoNode, e[1]>> \in Pairs(g)
    BY DEF Pairs
  <1>4. ASSUME NEW e \in Pairs(g)
        PROVE  e = <<e[1], e[2]>> /\ e[2] \in AgentIds /\ (e \in g \/ (e[1] = NoNode /\ \E d \in g : e[2] = d[1]))
    BY <1>2, <1>4 DEF Pairs
  <1>5. \A e \in Pairs(g) : e[2] \in Callers(g)
    BY DEF Callers
  <1>6. ASSUME NEW e \in Pairs(g) PROVE e[1] \in Callers(g) /\ (e[1] # NoNode => e \in g)
    <2>1. CASE e \in g
      <3>1. <<NoNode, e[1]>>[2] \in Callers(g)
        BY <1>3, <1>5, <2>1
      <3> QED
        BY <2>1, <3>1
    <2>2. CASE e[1] = NoNode
      BY <2>2 DEF Callers
    <2> QED
      BY <1>4, <2>1, <2>2
  <1>7. Callers(g) \subseteq AgentIds \cup {NoNode}
    BY <1>4 DEF Callers
  <1>8. IsFiniteSet(AgentIds \cup {NoNode}) /\ IsFiniteSet(Callers(g))
    BY <1>1, <1>7, FS_AddElement, FS_Subset
  <1>9. IsFiniteSet((AgentIds \cup {NoNode}) \X AgentIds)
    BY <1>1, <1>8, FS_Product
  <1>10. Pairs(g) \subseteq (AgentIds \cup {NoNode}) \X AgentIds
    BY <1>4, <1>6, <1>7
  <1>11. IsFiniteSet(Pairs(g))
    BY <1>9, <1>10, FS_Subset
  <1>12. NoNode \in Callers(g)
    BY DEF Callers
  <1>13. \A e \in g : e[1] # NoNode
    BY <1>1, <1>2
  <1> QED
    BY <1>1, <1>3, <1>4, <1>5, <1>6, <1>7, <1>8, <1>11, <1>12, <1>13

DfsState(g) ==
    [path : Seq(Callers(g)), todo : SUBSET Pairs(g), visited : SUBSET Callers(g), cycle : BOOLEAN]

Halted(s) == s.cycle \/ s.path = <<>>

\* The innermost call has looked at all its children.
Returns(s, u) ==
    /\ \A e \in s.todo : e[1] # Last(s.path)
    /\ u = [path |-> Front(s.path), todo |-> s.todo, visited |-> s.visited \cup {Last(s.path)}, cycle |-> FALSE]

\* It looks at child, and calls itself for a new one.
Looks(s, child, u) ==
    /\ <<Last(s.path), child>> \in s.todo
    /\ u.todo = s.todo \ {<<Last(s.path), child>>} /\ u.visited = s.visited
    /\ u.cycle <=> child \in ToSet(s.path) \ s.visited
    /\ u.path = IF child \in s.visited \cup ToSet(s.path) THEN s.path ELSE Append(s.path, child)

LEMMA VisitSteps ==
    ASSUME NEW g, Dependencies(g), NEW s \in DfsState(g)
    PROVE  /\ Visit(s) \in DfsState(g)
           /\ Halted(s) => Visit(s) = s
           /\ ~Halted(s) => Returns(s, Visit(s)) \/ \E child \in Callers(g) : Looks(s, child, Visit(s))
  <1> DEFINE agent == Last(s.path)
             children == {e[2] : e \in {d \in s.todo : d[1] = agent}}
             child == Min(children)
  <1>1. /\ s.path \in Seq(Callers(g)) /\ s.todo \subseteq Pairs(g) /\ s.visited \subseteq Callers(g) /\ s.cycle \in BOOLEAN
        /\ s = [path |-> s.path, todo |-> s.todo, visited |-> s.visited, cycle |-> s.cycle]
    BY DEF DfsState
  <1>2. CASE Halted(s)
    BY <1>2 DEF Halted, Visit
  <1>3. CASE ~Halted(s)
    <2>1. /\ s.path # <<>> /\ Len(s.path) \in Nat \ {0} /\ agent \in Callers(g) /\ s.cycle = FALSE
          /\ \A i \in 1 .. Len(s.path) : s.path[i] \in Callers(g)
      BY <1>1, <1>3, EmptySeq, ElementOfSeq DEF Halted, Last
    <2>2. CASE children = {}
      <3>1. Visit(s) = [path |-> Front(s.path), todo |-> s.todo, visited |-> s.visited \cup {agent}, cycle |-> FALSE]
        BY <1>1, <2>1, <2>2 DEF Visit
      <3>2. Front(s.path) \in Seq(Callers(g))
        <4>1. 1 \in Int /\ Len(s.path) - 1 \in Int /\ \A i \in 1 .. Len(s.path) - 1 : s.path[i] \in Callers(g)
          BY <2>1
        <4> QED
          BY <4>1, SubSeqProperties DEF Front
      <3>3. \A e \in s.todo : e[1] # agent
        BY <2>2
      <3>4. Visit(s) \in DfsState(g)
        BY <1>1, <2>1, <3>1, <3>2 DEF DfsState
      <3> QED
        BY <1>3, <3>1, <3>3, <3>4 DEF Returns
    <2>3. CASE children # {}
      <3>1. children \subseteq AgentIds /\ children \subseteq Nat /\ children \subseteq Callers(g)
        BY <1>1, PairFacts
      <3>2. child \in children
        <4> HIDE DEF children
        <4>1. \E i \in children : \A j \in children : i <= j
          BY <2>3, <3>1, LeastElement
        <4> QED
          BY <4>1 DEF Min
      <3>3. <<agent, child>> \in s.todo
        <4>1. PICK e \in s.todo : e[1] = agent /\ e[2] = child
          BY <3>2
        <4>2. e = <<e[1], e[2]>>
          BY <1>1, PairFacts
        <4> QED
          BY <4>1, <4>2
      <3>4. child \in Callers(g)
        BY <3>1, <3>2
      <3>5. Visit(s) = [path |-> IF child \in s.visited \cup ToSet(s.path) THEN s.path ELSE Append(s.path, child),
                        todo |-> s.todo \ {<<agent, child>>},
                        visited |-> s.visited,
                        cycle |-> child \in ToSet(s.path) \ s.visited]
        BY <1>1, <2>1, <2>3 DEF Visit
      <3> HIDE DEF child, agent
      <3>6. Append(s.path, child) \in Seq(Callers(g))
        BY <1>1, <3>4, AppendProperties
      <3>7. Looks(s, child, Visit(s))
        <4>1. /\ Visit(s).todo = s.todo \ {<<agent, child>>} /\ Visit(s).visited = s.visited
              /\ Visit(s).path = IF child \in s.visited \cup ToSet(s.path) THEN s.path ELSE Append(s.path, child)
          BY <3>5
        <4> DEFINE found == child \in ToSet(s.path) \ s.visited
                   u(f) == [path |-> IF child \in s.visited \cup ToSet(s.path) THEN s.path ELSE Append(s.path, child),
                            todo |-> s.todo \ {<<agent, child>>}, visited |-> s.visited, cycle |-> f]
        <4>2. Visit(s) = u(found)
          BY <3>5
        <4>3. \A f : u(f).cycle = f
          OBVIOUS
        <4> HIDE DEF u
        <4>4. Visit(s).cycle = found
          BY <4>2, <4>3, Zenon
        <4> QED
          BY <3>3, <4>1, <4>4 DEF Looks, agent
      <3>8. Visit(s) \in DfsState(g)
        BY <1>1, <3>5, <3>6 DEF DfsState
      <3> QED
        BY <1>3, <3>4, <3>7, <3>8
    <2> QED
      BY <2>2, <2>3
  <1> QED
    BY <1>2, <1>3

\* The calls under way are for agents that depend on each other in turn, each
\* agent once, and none of an agent that is done.
Nested(g, s) ==
    /\ \A i \in 1 .. Len(s.path) - 1 : <<s.path[i], s.path[i + 1]>> \in Pairs(g)
    /\ \A i, j \in 1 .. Len(s.path) : s.path[i] = s.path[j] => i = j
    /\ \A i \in 1 .. Len(s.path) : s.path[i] \notin s.visited

\* A child that was looked at is done, or its call is under way.
Followed(g, s) ==
    \A e \in Pairs(g) \ s.todo :
        e[2] \in s.visited \/ \E i \in 1 .. Len(s.path) - 1 : s.path[i] = e[1] /\ s.path[i + 1] = e[2]

\* The search begins with the call that stands for all.
Rooted(s) == NoNode \in s.visited \/ (s.path # <<>> /\ s.path[1] = NoNode)

\* What is done has only children that were done before.
Ranks(g, V, m, r) ==
    r \in [V -> 0 .. m - 1] /\ \A e \in Pairs(g) : e[1] \in V => e[2] \in V /\ r[e[2]] < r[e[1]]

Ranked(g, V) == \E m \in Nat : \E r : Ranks(g, V, m, r)

\* A cycle was found where the path leads back to itself.
Closed(g, s) == s.path # <<>> /\ \E i \in 1 .. Len(s.path) : <<Last(s.path), s.path[i]>> \in Pairs(g)

DfsInv(g, s) ==
    /\ Nested(g, s) /\ Rooted(s) /\ Ranked(g, s.visited)
    /\ \A e \in s.todo : e[1] \notin s.visited
    /\ ~s.cycle => Followed(g, s)
    /\ s.cycle => Closed(g, s)

LEMMA RankMore ==
    ASSUME NEW g, NEW V, NEW a, a \notin V, Ranked(g, V), \A e \in Pairs(g) : e[1] = a => e[2] \in V
    PROVE  Ranked(g, V \cup {a})
  <1>0. PICK m \in Nat : \E r : Ranks(g, V, m, r)
    BY DEF Ranked
  <1>1. PICK r : Ranks(g, V, m, r)
    BY <1>0
  <1>2. r \in [V -> 0 .. m - 1] /\ \A e \in Pairs(g) : e[1] \in V => e[2] \in V /\ r[e[2]] < r[e[1]]
    BY <1>1 DEF Ranks
  <1> DEFINE W == V \cup {a}
             q == [x \in W |-> IF x = a THEN m ELSE r[x]]
  <1>3. q \in [W -> 0 .. (m + 1) - 1]
    <2>1. ASSUME NEW x \in W PROVE (IF x = a THEN m ELSE r[x]) \in 0 .. (m + 1) - 1
      <3>1. CASE x = a
        BY <3>1
      <3>2. CASE x # a
        <4>1. r[x] \in 0 .. m - 1
          BY <1>2, <3>2
        <4> QED
          BY <3>2, <4>1
      <3> QED
        BY <3>1, <3>2
    <2> QED
      BY <2>1
  <1>4. ASSUME NEW e \in Pairs(g), e[1] \in W PROVE e[2] \in W /\ q[e[2]] < q[e[1]]
    <2>1. e[2] \in V
      BY <1>2, <1>4
    <2>2. e[2] # a /\ q[e[2]] = r[e[2]] /\ r[e[2]] \in 0 .. m - 1
      BY <1>2, <2>1
    <2>3. CASE e[1] = a
      <3>1. q[e[1]] = m
        BY <2>3
      <3> HIDE DEF q
      <3> QED
        BY <2>1, <2>2, <3>1
    <2>4. CASE e[1] # a
      <3>1. q[e[1]] = r[e[1]] /\ r[e[2]] < r[e[1]]
        BY <1>2, <1>4, <2>4
      <3> HIDE DEF q
      <3> QED
        BY <2>1, <2>2, <3>1
    <2> QED
      BY <2>3, <2>4
  <1> HIDE DEF q, W
  <1>5. m + 1 \in Nat /\ Ranks(g, W, m + 1, q)
    BY <1>3, <1>4 DEF Ranks
  <1>6. Ranked(g, W)
    BY <1>5 DEF Ranked
  <1> QED
    BY <1>6 DEF W

DfsStart(g) == [path |-> <<NoNode>>, todo |-> Pairs(g), visited |-> {}, cycle |-> FALSE]

LEMMA DfsStartInv ==
    ASSUME NEW g, Dependencies(g)
    PROVE  DfsStart(g) \in DfsState(g) /\ DfsInv(g, DfsStart(g))
  <1> DEFINE s == DfsStart(g)
  <1>1. s.path = <<NoNode>> /\ s.todo = Pairs(g) /\ s.visited = {} /\ s.cycle = FALSE
    BY DEF DfsStart
  <1>2. <<NoNode>> \in Seq(Callers(g))
    <2>1. NoNode \in Callers(g)
      BY DEF Callers
    <2>2. Append(<<>>, NoNode) \in Seq(Callers(g))
      BY <2>1, EmptySeq, AppendProperties
    <2> QED
      BY <2>2
  <1>3. s \in DfsState(g)
    BY <1>2 DEF DfsStart, DfsState
  <1>4. Len(s.path) = 1 /\ s.path[1] = NoNode /\ s.path # <<>>
    BY <1>1
  <1>5. Nested(g, s)
    BY <1>1, <1>4 DEF Nested
  <1>6. Rooted(s)
    BY <1>4 DEF Rooted
  <1>7. Ranked(g, s.visited)
    <2> DEFINE r == [x \in {} |-> 0]
    <2>1. Ranks(g, {}, 0, r)
      BY DEF Ranks
    <2> HIDE DEF r
    <2>2. Ranked(g, {})
      BY <2>1 DEF Ranked
    <2> QED
      BY <1>1, <2>2
  <1>8. Followed(g, s)
    BY <1>1 DEF Followed
  <1> HIDE DEF s
  <1> QED
    BY <1>1, <1>3, <1>5, <1>6, <1>7, <1>8 DEF DfsInv, s

LEMMA ReturnKeeps ==
    ASSUME NEW g, Dependencies(g), NEW s \in DfsState(g), DfsInv(g, s), ~Halted(s), NEW u, Returns(s, u)
    PROVE  DfsInv(g, u)
  <1> DEFINE n == Len(s.path)
             agent == Last(s.path)
  <1>1. /\ n \in Nat \ {0} /\ agent = s.path[n] /\ s.path # <<>> /\ s.path \in Seq(Callers(g))
        /\ \A i \in 1 .. n : s.path[i] \in Callers(g)
    BY EmptySeq, ElementOfSeq DEF DfsState, Halted, Last
  <1>2. /\ u.path = Front(s.path) /\ u.todo = s.todo /\ u.visited = s.visited \cup {agent} /\ u.cycle = FALSE
        /\ \A e \in s.todo : e[1] # agent
    BY DEF Returns
  <1>3. /\ Nested(g, s) /\ Rooted(s) /\ Ranked(g, s.visited) /\ Followed(g, s)
        /\ \A e \in s.todo : e[1] \notin s.visited
    BY DEF DfsInv, Halted
  <1>4. /\ \A i \in 1 .. n - 1 : <<s.path[i], s.path[i + 1]>> \in Pairs(g)
        /\ \A i, j \in 1 .. n : s.path[i] = s.path[j] => i = j
        /\ \A i \in 1 .. n : s.path[i] \notin s.visited
    BY <1>3 DEF Nested
  <1>5. \A e \in Pairs(g) \ s.todo :
            e[2] \in s.visited \/ \E i \in 1 .. n - 1 : s.path[i] = e[1] /\ s.path[i + 1] = e[2]
    BY <1>3 DEF Followed
  <1> HIDE DEF n, agent
  <1>6. Len(u.path) = n - 1 /\ \A i \in 1 .. n - 1 : u.path[i] = s.path[i]
    <2>1. 1 \in Int /\ n - 1 \in Int /\ \A i \in 1 .. n - 1 : s.path[i] \in Callers(g)
      BY <1>1
    <2>2. u.path = SubSeq(s.path, 1, n - 1)
      BY <1>2 DEF Front, n
    <2>3. /\ Len(u.path) = IF 1 <= n - 1 THEN (n - 1) - 1 + 1 ELSE 0
          /\ \A i \in 1 .. (n - 1) - 1 + 1 : u.path[i] = s.path[1 + i - 1]
      BY <2>1, <2>2, SubSeqProperties
    <2>4. Len(u.path) = n - 1
      BY <1>1, <2>3
    <2>5. ASSUME NEW i \in 1 .. n - 1 PROVE u.path[i] = s.path[i]
      <3>1. i \in 1 .. (n - 1) - 1 + 1 /\ 1 + i - 1 = i
        BY <1>1
      <3> QED
        BY <2>3, <3>1
    <2> QED
      BY <2>4, <2>5
  <1>7. Nested(g, u)
    <2>1. ASSUME NEW i \in 1 .. Len(u.path) - 1 PROVE <<u.path[i], u.path[i + 1]>> \in Pairs(g)
      <3>1. i \in 1 .. n - 1 /\ i + 1 \in 1 .. n - 1
        BY <1>1, <1>6
      <3> QED
        BY <1>4, <1>6, <3>1
    <2>2. ASSUME NEW i \in 1 .. Len(u.path) PROVE u.path[i] \notin u.visited /\ i \in 1 .. n /\ u.path[i] = s.path[i]
      <3>1. i \in 1 .. n - 1 /\ i \in 1 .. n /\ n \in 1 .. n /\ i # n
        BY <1>1, <1>6
      <3> QED
        BY <1>1, <1>2, <1>4, <1>6, <3>1
    <2>3. \A i, j \in 1 .. Len(u.path) : u.path[i] = u.path[j] => i = j
      BY <1>4, <2>2
    <2> QED
      BY <2>1, <2>2, <2>3 DEF Nested
  <1>8. Rooted(u)
    <2>1. CASE NoNode \in s.visited
      BY <1>2, <2>1 DEF Rooted
    <2>2. CASE s.path[1] = NoNode /\ n = 1
      BY <1>1, <1>2, <2>2 DEF Rooted
    <2>3. CASE s.path[1] = NoNode /\ n # 1
      <3>1. 1 \in 1 .. n - 1 /\ n - 1 # 0
        BY <1>1, <2>3
      <3>2. u.path[1] = NoNode /\ Len(u.path) # 0
        BY <1>6, <2>3, <3>1
      <3> QED
        BY <3>2, EmptySeq DEF Rooted
    <2> QED
      BY <1>3, <2>1, <2>2, <2>3 DEF Rooted
  <1>9. Ranked(g, u.visited)
    <2>1. agent \notin s.visited
      BY <1>1, <1>4
    <2>2. ASSUME NEW e \in Pairs(g), e[1] = agent PROVE e[2] \in s.visited
      <3>1. ASSUME NEW i \in 1 .. n - 1, s.path[i] = agent PROVE FALSE
        <4>1. i \in 1 .. n /\ n \in 1 .. n /\ i # n
          BY <1>1
        <4> QED
          BY <1>1, <1>4, <3>1, <4>1
      <3> QED
        BY <1>2, <1>5, <2>2, <3>1
    <2>3. Ranked(g, s.visited \cup {agent})
      BY <1>3, <2>1, <2>2, RankMore
    <2> QED
      BY <1>2, <2>3
  <1>10. \A e \in u.todo : e[1] \notin u.visited
    BY <1>2, <1>3
  <1>11. Followed(g, u)
    <2> SUFFICES ASSUME NEW e \in Pairs(g) \ u.todo, e[2] \notin u.visited
                 PROVE  \E i \in 1 .. Len(u.path) - 1 : u.path[i] = e[1] /\ u.path[i + 1] = e[2]
      BY DEF Followed
    <2>1. PICK i \in 1 .. n - 1 : s.path[i] = e[1] /\ s.path[i + 1] = e[2]
      BY <1>2, <1>5
    <2>2. i + 1 # n
      BY <1>1, <1>2, <2>1
    <2>3. i \in 1 .. n - 1 /\ i + 1 \in 1 .. n - 1 /\ i \in 1 .. Len(u.path) - 1
      BY <1>1, <1>6, <2>2
    <2> QED
      BY <1>6, <2>1, <2>3
  <1> QED
    BY <1>2, <1>7, <1>8, <1>9, <1>10, <1>11 DEF DfsInv

LEMMA LookKeeps ==
    ASSUME NEW g, Dependencies(g), NEW s \in DfsState(g), DfsInv(g, s), ~Halted(s),
           NEW child \in Callers(g), NEW u, Looks(s, child, u)
    PROVE  DfsInv(g, u)
  <1> DEFINE n == Len(s.path)
             agent == Last(s.path)
  <1>1. /\ n \in Nat \ {0} /\ agent = s.path[n] /\ s.path # <<>> /\ s.path \in Seq(Callers(g))
        /\ ToSet(s.path) = {s.path[i] : i \in 1 .. n} /\ s.todo \subseteq Pairs(g)
    BY EmptySeq, LenProperties DEF DfsState, Halted, Last, ToSet
  <1>2. /\ <<agent, child>> \in s.todo
        /\ u.todo = s.todo \ {<<agent, child>>} /\ u.visited = s.visited
        /\ u.cycle <=> child \in ToSet(s.path) \ s.visited
        /\ u.path = IF child \in s.visited \cup ToSet(s.path) THEN s.path ELSE Append(s.path, child)
    BY DEF Looks
  <1>3. /\ Nested(g, s) /\ Rooted(s) /\ Ranked(g, s.visited) /\ Followed(g, s)
        /\ \A e \in s.todo : e[1] \notin s.visited
    BY DEF DfsInv, Halted
  <1>4. Ranked(g, u.visited) /\ (\A e \in u.todo : e[1] \notin u.visited) /\ <<agent, child>> \in Pairs(g)
    BY <1>1, <1>2, <1>3
  <1>5. CASE child \in s.visited
    <2>1. u.path = s.path /\ ~u.cycle
      BY <1>2, <1>5
    <2>2. Followed(g, u)
      <3> SUFFICES ASSUME NEW e \in Pairs(g) \ u.todo, e[2] \notin u.visited
                   PROVE  \E i \in 1 .. Len(u.path) - 1 : u.path[i] = e[1] /\ u.path[i + 1] = e[2]
        BY DEF Followed
      <3>1. e # <<agent, child>>
        BY <1>2, <1>5
      <3> QED
        BY <1>2, <1>3, <2>1, <3>1 DEF Followed
    <2>3. Nested(g, u) /\ Rooted(u)
      BY <1>2, <1>3, <2>1 DEF Nested, Rooted
    <2> QED
      BY <1>4, <2>1, <2>2, <2>3 DEF DfsInv
  <1>6. CASE child \in ToSet(s.path) \ s.visited
    <2>1. u.path = s.path /\ u.cycle
      BY <1>2, <1>6
    <2>2. PICK i \in 1 .. n : s.path[i] = child
      BY <1>1, <1>6
    <2>3. Closed(g, u)
      BY <1>1, <1>4, <2>1, <2>2 DEF Closed
    <2>4. Nested(g, u) /\ Rooted(u)
      BY <1>2, <1>3, <2>1 DEF Nested, Rooted
    <2> QED
      BY <1>4, <2>1, <2>3, <2>4 DEF DfsInv
  <1>7. CASE child \notin s.visited \cup ToSet(s.path)
    <2>1. u.path = Append(s.path, child) /\ ~u.cycle
      BY <1>2, <1>7
    <2>2. /\ Len(u.path) = n + 1 /\ u.path # <<>> /\ u.path[n + 1] = child
          /\ \A i \in 1 .. n : u.path[i] = s.path[i]
      BY <1>1, <2>1, AppendProperties
    <2> HIDE DEF n, agent
    <2>3. Nested(g, u)
      <3>0. /\ \A i \in 1 .. n - 1 : <<s.path[i], s.path[i + 1]>> \in Pairs(g)
            /\ \A i, j \in 1 .. n : s.path[i] = s.path[j] => i = j
            /\ \A i \in 1 .. n : s.path[i] \notin s.visited /\ s.path[i] # child
        BY <1>1, <1>3, <1>7 DEF Nested, n
      <3>1. ASSUME NEW i \in 1 .. Len(u.path) - 1 PROVE <<u.path[i], u.path[i + 1]>> \in Pairs(g)
        <4>1. CASE i = n
          <5>1. i \in 1 .. n
            BY <1>1, <4>1
          <5> QED
            BY <1>1, <1>4, <2>2, <4>1, <5>1
        <4>2. CASE i # n
          <5>1. i \in 1 .. n - 1 /\ i \in 1 .. n /\ i + 1 \in 1 .. n
            BY <1>1, <2>2, <4>2
          <5> QED
            BY <2>2, <3>0, <5>1
        <4> QED
          BY <4>1, <4>2
      <3>2. ASSUME NEW i \in 1 .. Len(u.path) PROVE i = n + 1 \/ i \in 1 .. n
        BY <1>1, <2>2
      <3>3. ASSUME NEW i \in 1 .. Len(u.path), NEW j \in 1 .. Len(u.path), u.path[i] = u.path[j] PROVE i = j
        BY <2>2, <3>0, <3>2, <3>3
      <3>4. ASSUME NEW i \in 1 .. Len(u.path) PROVE u.path[i] \notin u.visited
        BY <1>2, <1>7, <2>2, <3>0, <3>2
      <3> QED
        BY <3>1, <3>3, <3>4 DEF Nested
    <2>4. Rooted(u)
      <3>1. u.path[1] = s.path[1]
        BY <1>1, <2>2
      <3> QED
        BY <1>2, <1>3, <2>2, <3>1 DEF Rooted
    <2>5. Followed(g, u)
      <3> SUFFICES ASSUME NEW e \in Pairs(g) \ u.todo, e[2] \notin u.visited
                   PROVE  \E i \in 1 .. Len(u.path) - 1 : u.path[i] = e[1] /\ u.path[i + 1] = e[2]
        BY DEF Followed
      <3>1. CASE e = <<agent, child>>
        <4>1. n \in 1 .. Len(u.path) - 1 /\ n \in 1 .. n
          BY <1>1, <2>2
        <4>2. u.path[n] = e[1] /\ u.path[n + 1] = e[2]
          BY <1>1, <2>2, <3>1, <4>1
        <4> QED
          BY <4>1, <4>2
      <3>2. CASE e # <<agent, child>>
        <4>1. PICK i \in 1 .. n - 1 : s.path[i] = e[1] /\ s.path[i + 1] = e[2]
          BY <1>2, <1>3, <3>2 DEF Followed, n
        <4>2. i \in 1 .. n /\ i + 1 \in 1 .. n /\ i \in 1 .. Len(u.path) - 1
          BY <1>1, <2>2
        <4> QED
          BY <2>2, <4>1, <4>2
      <3> QED
        BY <3>1, <3>2
    <2> QED
      BY <1>4, <2>1, <2>3, <2>4, <2>5 DEF DfsInv
  <1> QED
    BY <1>5, <1>6, <1>7

\* How many pairs and agents the search has before it.
Left(g, s) == Cardinality(s.todo) + Cardinality(Callers(g) \ s.visited)

LEMMA VisitCounts ==
    ASSUME NEW g, Dependencies(g), NEW s \in DfsState(g), DfsInv(g, s), ~Halted(s)
    PROVE  Left(g, s) \in Nat /\ Left(g, Visit(s)) = Left(g, s) - 1
  <1> DEFINE u == Visit(s)
             agent == Last(s.path)
             rest == Callers(g) \ s.visited
  <1>1. s.path \in Seq(Callers(g)) /\ s.path # <<>> /\ s.todo \subseteq Pairs(g)
    BY DEF DfsState, Halted
  <1>2. IsFiniteSet(s.todo) /\ IsFiniteSet(rest) /\ Cardinality(s.todo) \in Nat /\ Cardinality(rest) \in Nat
    BY <1>1, PairFacts, FS_Subset, FS_Difference, FS_CardinalityType
  <1>3. agent \in rest
    <2>1. Len(s.path) \in 1 .. Len(s.path) /\ agent = s.path[Len(s.path)]
      BY <1>1, EmptySeq DEF Last
    <2> QED
      BY <1>1, <2>1, ElementOfSeq DEF DfsInv, Nested
  <1>4. ASSUME Returns(s, u) PROVE Left(g, u) = Left(g, s) - 1
    <2>1. u.todo = s.todo /\ u.visited = s.visited \cup {agent}
      BY <1>4 DEF Returns
    <2>2. Callers(g) \ u.visited = rest \ {agent}
      BY <2>1
    <2>3. Cardinality(rest \ {agent}) = Cardinality(rest) - 1
      BY <1>2, <1>3, FS_RemoveElement
    <2>4. Left(g, u) = Left(g, s) - 1
      <3> HIDE DEF u, agent
      <3> QED
        BY <1>2, <2>1, <2>2, <2>3 DEF Left
    <2> QED
      BY <2>4
  <1>5. ASSUME NEW child, Looks(s, child, u) PROVE Left(g, u) = Left(g, s) - 1
    <2>1. <<agent, child>> \in s.todo /\ u.todo = s.todo \ {<<agent, child>>} /\ u.visited = s.visited
      BY <1>5 DEF Looks
    <2>2. Cardinality(u.todo) = Cardinality(s.todo) - 1
      <3> DEFINE e == <<agent, child>>
      <3> HIDE DEF e
      <3>1. Cardinality(s.todo \ {e}) = IF e \in s.todo THEN Cardinality(s.todo) - 1 ELSE Cardinality(s.todo)
        BY <1>2, FS_RemoveElement
      <3> QED
        BY <2>1, <3>1 DEF e
    <2>3. Cardinality(Callers(g) \ u.visited) = Cardinality(rest)
      BY <2>1
    <2> HIDE DEF u, agent
    <2> QED
      BY <1>2, <2>2, <2>3 DEF Left
  <1>6. Left(g, s) \in Nat
    BY <1>2 DEF Left
  <1>7. Returns(s, u) \/ \E child \in Callers(g) : Looks(s, child, u)
    BY VisitSteps
  <1>8. Left(g, u) = Left(g, s) - 1
    <2> HIDE DEF u
    <2> QED
      BY <1>4, <1>5, <1>7
  <1> QED
    BY <1>6, <1>8

Steps(g) == Cardinality(Pairs(g)) + Cardinality(Callers(g))

\* h[n] is the state of the search after n steps.
DfsRun(g, h) ==
    /\ h \in [Nat -> DfsState(g)] /\ h[0] = DfsStart(g)
    /\ \A n \in Nat : h[n + 1] = Visit(h[n])
    /\ dfs_cycle(g, {e[1] : e \in g}) = h[Steps(g)].cycle

LEMMA DfsRuns ==
    ASSUME NEW g, Dependencies(g)
    PROVE  \E h : DfsRun(g, h)
  <1> DEFINE F == [s \in DfsState(g) |-> Visit(s)]
             Body(f) == [n \in Nat |-> IF n = 0 THEN DfsStart(g) ELSE Visit(f[n - 1])]
             loop == CHOOSE f : f = Body(f)
  <1>1. F \in [DfsState(g) -> DfsState(g)]
    BY VisitSteps
  <1>2. DfsStart(g) \in DfsState(g)
    BY DfsStartInv
  <1>3. PICK h : Iterates(DfsState(g), F, DfsStart(g), h)
    <2> HIDE DEF F
    <2> QED
      BY <1>1, <1>2, Iteration
  <1>4. h \in [Nat -> DfsState(g)] /\ h[0] = DfsStart(g) /\ \A n \in Nat : h[n + 1] = Visit(h[n])
    BY <1>3 DEF Iterates
  <1> HIDE DEF F
  <1>5. h = Body(h)
    <2>1. ASSUME NEW n \in Nat PROVE h[n] = Body(h)[n]
      <3>1. CASE n = 0
        BY <1>4, <3>1
      <3>2. CASE n # 0
        <4>1. n - 1 \in Nat /\ (n - 1) + 1 = n
          BY <3>2
        <4>2. h[n] = Visit(h[n - 1])
          BY <1>4, <4>1
        <4> QED
          BY <3>2, <4>1, <4>2
      <3> QED
        BY <3>1, <3>2
    <2> QED
      BY <1>4, <2>1
  <1>6. loop = Body(loop)
    <2> HIDE DEF Body
    <2> QED
      BY <1>5, Zenon
  <1>7. \A n \in Nat : loop[n] = h[n]
    <2> DEFINE G == {n \in Nat : loop[n] = h[n]}
    <2> HIDE DEF loop
    <2>1. 0 \in G
      BY <1>4, <1>6
    <2>2. ASSUME NEW n \in Nat, n \in G PROVE n + 1 \in G
      <3>0. n + 1 \in Nat /\ n + 1 # 0 /\ (n + 1) - 1 = n
        OBVIOUS
      <3>1. loop[n + 1] = Visit(loop[n])
        BY <1>6, <3>0
      <3>2. loop[n] = h[n]
        BY <2>2
      <3> QED
        BY <1>4, <3>1, <3>2
    <2> HIDE DEF G
    <2>3. \A n \in Nat : n \in G
      BY <2>1, <2>2, SetInduction
    <2> QED
      BY <2>3 DEF G
  <1>8. dfs_cycle(g, {e[1] : e \in g}) = loop[Steps(g)].cycle
    BY Zenon DEF dfs_cycle, Steps, Pairs, Callers, DfsStart
  <1>9. Steps(g) \in Nat
    BY PairFacts, FS_CardinalityType DEF Steps
  <1> HIDE DEF loop
  <1>10. loop[Steps(g)] = h[Steps(g)]
    BY <1>7, <1>9
  <1>11. dfs_cycle(g, {e[1] : e \in g}) = h[Steps(g)].cycle
    BY <1>8, <1>10, Zenon
  <1> QED
    BY <1>4, <1>11, Zenon DEF DfsRun

\* The search comes to its end.
LEMMA DfsEnds ==
    ASSUME NEW g, Dependencies(g)
    PROVE  \E s \in DfsState(g) : /\ DfsInv(g, s) /\ Halted(s)
                                  /\ dfs_cycle(g, {e[1] : e \in g}) = s.cycle
  <1> DEFINE M == Steps(g)
  <1>0. PICK h : DfsRun(g, h)
    BY DfsRuns
  <1>1. h \in [Nat -> DfsState(g)] /\ h[0] = DfsStart(g) /\ \A n \in Nat : h[n + 1] = Visit(h[n])
    BY <1>0 DEF DfsRun
  <1>2. dfs_cycle(g, {e[1] : e \in g}) = h[M].cycle
    BY <1>0, Zenon DEF DfsRun
  <1>3. M \in Nat
    BY PairFacts, FS_CardinalityType DEF Steps
  <1> HIDE DEF M
  <1> DEFINE G == {n \in Nat : DfsInv(g, h[n]) /\ (Halted(h[n]) \/ Left(g, h[n]) = M - n)}
  <1>4. 0 \in G
    <2>1. DfsStart(g).todo = Pairs(g) /\ DfsStart(g).visited = {} /\ Callers(g) \ {} = Callers(g)
      BY DEF DfsStart
    <2>2. Left(g, DfsStart(g)) = M
      BY <2>1 DEF Left, M, Steps
    <2>3. Left(g, h[0]) = M - 0 /\ DfsInv(g, h[0])
      BY <1>1, <1>3, <2>2, DfsStartInv
    <2> QED
      BY <2>3
  <1>5. ASSUME NEW n \in Nat, n \in G PROVE n + 1 \in G
    <2> DEFINE s == h[n]
               u == h[n + 1]
    <2>1. s \in DfsState(g) /\ u = Visit(s) /\ DfsInv(g, s) /\ (Halted(s) \/ Left(g, s) = M - n)
      BY <1>1, <1>5
    <2> HIDE DEF s, u
    <2>2. CASE Halted(s)
      <3>1. u = s
        BY <2>1, <2>2, VisitSteps
      <3> QED
        BY <2>1, <2>2, <3>1 DEF u
    <2>3. CASE ~Halted(s)
      <3>1. Returns(s, u) \/ \E child \in Callers(g) : Looks(s, child, u)
        BY <2>1, <2>3, VisitSteps
      <3>2. DfsInv(g, u)
        BY <2>1, <2>3, <3>1, ReturnKeeps, LookKeeps
      <3>3. Left(g, u) = Left(g, s) - 1 /\ Left(g, s) \in Nat
        BY <2>1, <2>3, VisitCounts
      <3>4. Left(g, u) = M - (n + 1)
        BY <1>3, <2>1, <2>3, <3>3
      <3> QED
        BY <3>2, <3>4 DEF u
    <2> QED
      BY <2>2, <2>3
  <1>6. M \in G
    <2> HIDE DEF G
    <2> QED
      BY <1>3, <1>4, <1>5, SetInduction
  <1> DEFINE s == h[M]
  <1>7. s \in DfsState(g) /\ DfsInv(g, s) /\ (Halted(s) \/ Left(g, s) = M - M)
    BY <1>1, <1>3, <1>6
  <1> HIDE DEF s, G
  <1>8. Halted(s)
    <2> SUFFICES ASSUME ~Halted(s) PROVE FALSE
      OBVIOUS
    <2>1. Left(g, s) = 0
      BY <1>3, <1>7
    <2>2. s.path \in Seq(Callers(g)) /\ s.path # <<>> /\ s.todo \subseteq Pairs(g)
      BY <1>7 DEF DfsState, Halted
    <2>3. /\ IsFiniteSet(s.todo) /\ IsFiniteSet(Callers(g) \ s.visited)
          /\ Cardinality(s.todo) \in Nat /\ Cardinality(Callers(g) \ s.visited) \in Nat
      BY <2>2, PairFacts, FS_Subset, FS_Difference, FS_CardinalityType
    <2>4. Cardinality(Callers(g) \ s.visited) = 0
      BY <2>1, <2>3 DEF Left
    <2>5. Callers(g) \ s.visited = {}
      BY <2>3, <2>4, FS_EmptySet
    <2>6. 1 \in 1 .. Len(s.path)
      BY <2>2, EmptySeq
    <2>7. s.path[1] \in Callers(g) /\ s.path[1] \notin s.visited
      BY <1>7, <2>2, <2>6, ElementOfSeq DEF DfsInv, Nested
    <2> QED
      BY <2>5, <2>7
  <1>9. dfs_cycle(g, {e[1] : e \in g}) = s.cycle
    BY <1>2, Zenon DEF s
  <1> QED
    BY <1>7, <1>8, <1>9, Zenon

IsRing(g, n, ring) ==
    /\ ring \in [0 .. n -> AgentIds] /\ ring[0] = ring[n]
    /\ \A i \in 1 .. n : <<ring[i - 1], ring[i]>> \in g

\* Where the path leads back to itself there is a ring.
LEMMA ClosedRing ==
    ASSUME NEW g, Dependencies(g), NEW s \in DfsState(g), Nested(g, s), Closed(g, s)
    PROVE  \E n \in 1 .. Cardinality(AgentIds) : \E ring : IsRing(g, n, ring)
  <1> DEFINE p == s.path
             m == Len(p)
  <1>1. m \in Nat \ {0} /\ p \in Seq(Callers(g)) /\ \A i \in 1 .. m : p[i] \in Callers(g)
    BY EmptySeq, ElementOfSeq DEF DfsState, Closed
  <1>2. PICK i \in 1 .. m : <<p[m], p[i]>> \in Pairs(g)
    BY DEF Closed, Last
  <1>3. /\ \A k \in 1 .. m - 1 : <<p[k], p[k + 1]>> \in Pairs(g)
        /\ \A k, l \in 1 .. m : p[k] = p[l] => k = l
    BY DEF Nested
  <1> HIDE DEF p, m
  \* No call is made for the root, and from the first agent on all are agents.
  <1>4. ASSUME NEW k \in 1 .. m, k >= i PROVE p[k] \in AgentIds
    <2>1. CASE k = i
      <3>1. <<p[m], p[i]>>[2] \in AgentIds
        BY <1>2, PairFacts
      <3> QED
        BY <2>1, <3>1
    <2>2. CASE k # i
      <3>1. k - 1 \in 1 .. m - 1 /\ (k - 1) + 1 = k
        BY <1>1, <1>4, <2>2
      <3>2. <<p[k - 1], p[k]>> \in Pairs(g)
        BY <1>3, <3>1
      <3>3. <<p[k - 1], p[k]>>[2] \in AgentIds
        BY <3>2, PairFacts
      <3> QED
        BY <3>3
    <2> QED
      BY <2>1, <2>2
  <1> DEFINE n == m - i + 1
             ring == [k \in 0 .. n |-> IF k = n THEN p[i] ELSE p[i + k]]
  <1>5. n \in Nat \ {0} /\ i \in Nat /\ i <= m
    BY <1>1, <1>2
  <1>6. ASSUME NEW k \in 0 .. n, k # n PROVE i + k \in 1 .. m /\ i + k >= i
    BY <1>1, <1>2, <1>6
  <1>7. ring \in [0 .. n -> AgentIds]
    <2>1. ASSUME NEW k \in 0 .. n PROVE (IF k = n THEN p[i] ELSE p[i + k]) \in AgentIds
      <3>1. p[i] \in AgentIds
        BY <1>4, <1>5
      <3>2. CASE k # n
        <4>1. i + k \in 1 .. m /\ i + k >= i
          BY <1>6, <3>2
        <4>2. p[i + k] \in AgentIds
          BY <1>4, <4>1
        <4> QED
          BY <3>2, <4>2
      <3> QED
        BY <3>1, <3>2
    <2> QED
      BY <2>1
  <1>8. ring[0] = ring[n]
    <2>1. 0 \in 0 .. n /\ n \in 0 .. n /\ 0 # n /\ i + 0 = i
      BY <1>5
    <2> QED
      BY <2>1
  <1>9. ASSUME NEW k \in 1 .. n PROVE <<ring[k - 1], ring[k]>> \in g
    <2>1. k - 1 \in 0 .. n /\ k - 1 # n /\ k \in 0 .. n
      BY <1>5
    <2>2. ring[k - 1] = p[i + (k - 1)] /\ i + (k - 1) \in 1 .. m /\ i + (k - 1) >= i
      BY <1>6, <2>1
    <2>3. ring[k - 1] \in AgentIds
      BY <1>7, <2>1
    <2>4. <<ring[k - 1], ring[k]>> \in Pairs(g)
      <3>1. CASE k = n
        <4>1. ring[k] = p[i] /\ i + (k - 1) = m
          BY <1>1, <1>5, <2>1, <3>1
        <4> QED
          BY <1>2, <2>2, <4>1
      <3>2. CASE k # n
        <4>1. ring[k] = p[i + k]
          BY <2>1, <3>2
        <4>2. i + (k - 1) \in 1 .. m - 1 /\ (i + (k - 1)) + 1 = i + k
          BY <1>1, <1>5, <3>2
        <4> QED
          BY <1>3, <2>2, <4>1, <4>2
      <3> QED
        BY <3>1, <3>2
    <2> HIDE DEF ring
    <2>5. <<ring[k - 1], ring[k]>>[1] # NoNode
      BY <2>3, PairFacts
    <2> QED
      BY <2>4, <2>5, PairFacts
  <1>10. n <= Cardinality(AgentIds)
    <2> DEFINE D == 1 .. n
               f == [k \in D |-> p[i + k - 1]]
    <2>0. Cardinality(AgentIds) \in Nat /\ IsFiniteSet(AgentIds)
      BY PairFacts, FS_CardinalityType
    <2> SUFFICES ASSUME Cardinality(AgentIds) < n PROVE FALSE
      BY <1>5, <2>0
    <2>1. IsFiniteSet(D) /\ Cardinality(D) = n
      <3>1. IsFiniteSet(1 .. n) /\ Cardinality(1 .. n) = IF 1 > n THEN 0 ELSE n - 1 + 1
        <4> HIDE DEF n
        <4> QED
          BY <1>5, FS_Interval
      <3> HIDE DEF n
      <3> QED
        BY <1>5, <3>1
    <2>2. ASSUME NEW k \in D PROVE p[i + k - 1] \in AgentIds /\ i + k - 1 \in 1 .. m
      <3>1. i + k - 1 \in 1 .. m /\ i + k - 1 >= i
        BY <1>1, <1>5
      <3> QED
        BY <1>4, <3>1
    <2>3. f \in [D -> AgentIds]
      BY <2>2
    <2>4. PICK k \in D, l \in D : k # l /\ f[k] = f[l]
      <3> HIDE DEF D, f, n
      <3> QED
        BY <2>0, <2>1, <2>3, FS_PigeonHole
    <2>5. i + k - 1 = i + l - 1
      <3>1. p[i + k - 1] = p[i + l - 1]
        BY <2>4
      <3> QED
        BY <1>3, <2>2, <3>1
    <2> QED
      BY <1>5, <2>4, <2>5
  <1> HIDE DEF n, ring
  <1>11. n \in 1 .. Cardinality(AgentIds)
    BY <1>5, <1>10, PairFacts, FS_CardinalityType
  <1>12. IsRing(g, n, ring)
    BY <1>7, <1>8, <1>9 DEF IsRing
  <1> QED
    BY <1>11, <1>12

\* When all agents are done there is no ring: the ranks would fall around it.
LEMMA DoneNoRing ==
    ASSUME NEW g, Dependencies(g), NEW V, Ranked(g, V), NoNode \in V,
           NEW n \in Nat \ {0}, NEW ring, IsRing(g, n, ring)
    PROVE  FALSE
  <1>0. PICK m \in Nat : \E r : Ranks(g, V, m, r)
    BY DEF Ranked
  <1>1. PICK r : Ranks(g, V, m, r)
    BY <1>0
  <1>2. r \in [V -> 0 .. m - 1] /\ \A e \in Pairs(g) : e[1] \in V => e[2] \in V /\ r[e[2]] < r[e[1]]
    BY <1>1 DEF Ranks
  <1>3. /\ ring \in [0 .. n -> AgentIds] /\ ring[0] = ring[n]
        /\ \A i \in 1 .. n : <<ring[i - 1], ring[i]>> \in g
    BY DEF IsRing
  <1>4. ASSUME NEW i \in 0 .. n - 1
        PROVE  ring[i] \in V /\ ring[i + 1] \in V /\ r[ring[i + 1]] < r[ring[i]]
    <2>1. i + 1 \in 1 .. n /\ (i + 1) - 1 = i
      OBVIOUS
    <2> DEFINE e == <<ring[i], ring[i + 1]>>
    <2>2. e \in g
      BY <1>3, <2>1
    <2>3. e \in Pairs(g) /\ <<NoNode, e[1]>> \in Pairs(g)
      BY <2>2, PairFacts
    <2>4. <<NoNode, e[1]>>[2] \in V
      BY <1>2, <2>3
    <2>5. e[1] \in V
      BY <2>4
    <2>6. e[2] \in V /\ r[e[2]] < r[e[1]]
      BY <1>2, <2>3, <2>5
    <2> QED
      BY <2>5, <2>6
  <1> DEFINE R == {r[ring[i]] : i \in 0 .. n - 1}
  <1>5. R \subseteq Nat /\ R # {}
    <2>1. ASSUME NEW i \in 0 .. n - 1 PROVE r[ring[i]] \in Nat
      BY <1>2, <1>4
    <2>2. 0 \in 0 .. n - 1
      OBVIOUS
    <2> QED
      BY <2>1, <2>2
  <1>6. PICK x \in R : \A y \in R : x <= y
    <2> HIDE DEF R
    <2> QED
      BY <1>5, LeastElement
  <1>7. PICK i \in 0 .. n - 1 : x = r[ring[i]]
    BY <1>6
  <1>8. r[ring[i + 1]] \in R
    <2>1. CASE i = n - 1
      <3>1. i + 1 = n /\ 0 \in 0 .. n - 1
        BY <2>1
      <3>2. r[ring[i + 1]] = r[ring[0]]
        BY <1>3, <3>1
      <3> QED
        BY <3>1, <3>2
    <2>2. CASE i # n - 1
      <3>1. i + 1 \in 0 .. n - 1
        BY <2>2
      <3> QED
        BY <3>1
    <2> QED
      BY <2>1, <2>2
  <1>9. r[ring[i + 1]] < x /\ x <= r[ring[i + 1]]
    BY <1>4, <1>6, <1>7, <1>8
  <1>10. x \in Nat /\ r[ring[i + 1]] \in Nat
    BY <1>5, <1>6, <1>8
  <1> HIDE DEF R
  <1> QED
    BY <1>9, <1>10

(* For any dependencies between agents, has_mothership_cycle (topology.rs) *)
(* finds a cycle exactly if there is a ring of agents of which each is a   *)
(* parent of the next one.                                                 *)
THEOREM CycleExact ==
    ASSUME NEW deps \in Seq([parent : AgentIds, child : AgentIds])
    PROVE  has_mothership_cycle(deps) <=> Cyclic(deps)
  <1> DEFINE g == Graph(deps)
  <1>1. Dependencies(g)
    <2>1. \A i \in DOMAIN deps : deps[i] \in [parent : AgentIds, child : AgentIds]
      BY LenProperties, ElementOfSeq
    <2>2. \A i \in DOMAIN deps : <<deps[i].parent, deps[i].child>> \in AgentIds \X AgentIds
      BY <2>1
    <2> QED
      BY <2>2 DEF Dependencies, Graph
  <1>2. Cyclic(deps) <=> \E n \in 1 .. Cardinality(AgentIds) : \E ring : IsRing(g, n, ring)
    BY DEF Cyclic, IsRing
  <1>3. PICK s \in DfsState(g) : DfsInv(g, s) /\ Halted(s) /\ dfs_cycle(g, {e[1] : e \in g}) = s.cycle
    BY <1>1, DfsEnds
  <1>4. has_mothership_cycle(deps) = s.cycle
    BY <1>3, Zenon DEF has_mothership_cycle
  <1> HIDE DEF g
  <1>5. ASSUME s.cycle PROVE Cyclic(deps)
    <2>1. Nested(g, s) /\ Closed(g, s)
      BY <1>3, <1>5 DEF DfsInv
    <2> QED
      BY <1>1, <1>2, <2>1, ClosedRing
  <1>6. ASSUME ~s.cycle, Cyclic(deps) PROVE FALSE
    <2>0. PICK n \in 1 .. Cardinality(AgentIds) : \E ring : IsRing(g, n, ring)
      BY <1>2, <1>6
    <2>1. PICK ring : IsRing(g, n, ring)
      BY <2>0
    <2>2. n \in Nat \ {0}
      BY <1>1, PairFacts, FS_CardinalityType
    <2>3. Ranked(g, s.visited) /\ NoNode \in s.visited
      BY <1>3, <1>6 DEF DfsInv, Rooted, Halted
    <2> QED
      BY <1>1, <2>1, <2>2, <2>3, DoneNoRing
  <1> QED
    BY <1>4, <1>5, <1>6

-----------------------------------------------------------------------------
\* The command plane.

\* What a built plan is: the routes of the topology, and the verdict on them.
Built ==
    /\ plan.routes = route_command_plan(input.topology, Planned(input), AgentIds)
    /\ verdict = validate_swarm_command_plan(input, plan.routes)

PlaneInv ==
    /\ input \in Inputs
    /\ (verdict = "none" /\ plan = NoPlan) \/ Built
    /\ FailureDecided

LEMMA AcceptedPolicies ==
    ASSUME NEW in, NEW routes, validate_swarm_command_plan(in, routes) = "ok",
           NEW g \in ToSet(in.agents), g.policy = "replace_from_reserve"
    PROVE  ensure_replacement_candidate_for_agent(in, g.id)
  <1>1. PolicyError(in) = "ok"
    BY DEF validate_swarm_command_plan
  <1> QED
    BY <1>1 DEF PolicyError

\* The replacement is another agent that is a reserve.
LEMMA ReplacementExists ==
    ASSUME NEW in \in Inputs, NEW a, ensure_replacement_candidate_for_agent(in, a)
    PROVE  \E h \in ToSet(in.agents) : h \in Candidates(in) /\ h.id # a /\ h.id = replacement_agent_id(in, a)
  <1> DEFINE I == {k \in 1 .. Len(in.agents) : in.agents[k].id # a /\ in.agents[k] \in Candidates(in)}
             i == SelectInSeq(in.agents, LAMBDA h : h.id # a /\ h \in Candidates(in))
  <1>1. in.agents \in Seq(ToSet(in.agents))
    BY InputsAssumption
  <1>2. DOMAIN in.agents = 1 .. Len(in.agents) /\ Len(in.agents) \in Nat
    BY <1>1, LenProperties
  <1>3. I # {}
    <2>1. PICK h \in Candidates(in) : h.id # a
      BY DEF ensure_replacement_candidate_for_agent
    <2>2. h \in ToSet(in.agents)
      BY <2>1 DEF Candidates
    <2>3. PICK k \in 1 .. Len(in.agents) : in.agents[k] = h
      BY <1>2, <2>2 DEF ToSet
    <2>4. k \in I
      BY <2>1, <2>3
    <2> QED
      BY <2>4
  <1>4. i = Min(I)
    <2>1. i = IF I # {} THEN Min(I) ELSE 0
      BY Zenon DEF SelectInSeq
    <2> HIDE DEF I, i
    <2> QED
      BY <1>3, <2>1
  <1>5. Min(I) \in I
    <2>1. I \subseteq Nat
      BY <1>2
    <2> HIDE DEF I
    <2>2. \E x \in I : \A y \in I : x <= y
      BY <1>3, <2>1, LeastElement
    <2> QED
      BY <2>2 DEF Min
  <1>6. i \in I
    BY <1>4, <1>5, Zenon
  <1> HIDE DEF i
  <1>7. i \in 1 .. Len(in.agents) /\ in.agents[i].id # a /\ in.agents[i] \in Candidates(in)
    BY <1>6
  <1>8. in.agents[i] \in ToSet(in.agents) /\ i # 0
    BY <1>2, <1>7 DEF ToSet
  <1>9. replacement_agent_id(in, a) = IF i = 0 THEN NoNode ELSE in.agents[i].id
    BY Zenon DEF replacement_agent_id, i
  <1> QED
    BY <1>7, <1>8, <1>9

LEMMA PlaneStart ==
    ASSUME Init
    PROVE  PlaneInv
  BY DEF Init, PlaneInv, FailureDecided, NoDecision

LEMMA BuildKeeps ==
    ASSUME PlaneInv, build_swarm_command_plan
    PROVE  PlaneInv'
  <1>1. input' = input /\ decision' = decision /\ input \in Inputs /\ FailureDecided
    BY DEF PlaneInv, build_swarm_command_plan
  <1>2. plan'.routes = route_command_plan(input.topology, Planned(input), AgentIds)
    BY DEF build_swarm_command_plan
  <1>3. verdict' = validate_swarm_command_plan(input, plan'.routes)
    BY DEF build_swarm_command_plan
  <1>4. Built'
    BY <1>1, <1>2, <1>3 DEF Built
  <1>5. FailureDecided'
    BY <1>1 DEF FailureDecided
  <1> QED
    BY <1>1, <1>4, <1>5 DEF PlaneInv

LEMMA FailureKeeps ==
    ASSUME PlaneInv, NEW g \in ToSet(input.agents), apply_agent_failure(g)
    PROVE  PlaneInv'
  <1>1. verdict = "ok" /\ input \in Inputs /\ Built
    BY DEF PlaneInv, apply_agent_failure
  <1>2. input' = input /\ plan' = plan /\ verdict' = verdict
    BY DEF apply_agent_failure
  <1>3. Built'
    BY <1>1, <1>2 DEF Built
  <1>4. g.policy = "replace_from_reserve" => ensure_replacement_candidate_for_agent(input, g.id)
    BY <1>1, AcceptedPolicies DEF Built
  <1>5. g.policy \in Policies
    BY <1>1, InputsAssumption
  <1>6. decision'.kind = g.policy /\ decision'.failed = g.id
    BY <1>4 DEF apply_agent_failure
  <1>7. FailureDecided'
    <2>1. decision'.kind # "error"
      BY <1>5, <1>6 DEF Policies
    <2>2. ASSUME g.policy = "replace_from_reserve"
          PROVE  \E x \in ToSet(input.agents) :
                    x.id = decision'.to /\ x.id # decision'.failed /\ x.role \in {"reserve", "recovery"}
      <3>1. PICK x \in ToSet(input.agents) :
                x \in Candidates(input) /\ x.id # g.id /\ x.id = replacement_agent_id(input, g.id)
        BY <1>1, <1>4, <2>2, ReplacementExists
      <3>2. decision'.to = replacement_agent_id(input, g.id)
        BY <2>2 DEF apply_agent_failure
      <3> QED
        BY <1>6, <3>1, <3>2 DEF Candidates
    <2> QED
      BY <1>2, <1>6, <2>1, <2>2 DEF FailureDecided
  <1> QED
    BY <1>1, <1>2, <1>3, <1>7 DEF PlaneInv

LEMMA PlaneInductive == Spec => []PlaneInv
  <1>1. Init => PlaneInv
    BY PlaneStart
  <1>2. PlaneInv /\ [Next]_vars => PlaneInv'
    <2> SUFFICES ASSUME PlaneInv, [Next]_vars PROVE PlaneInv'
      OBVIOUS
    <2>1. CASE build_swarm_command_plan
      BY <2>1, BuildKeeps
    <2>2. ASSUME NEW g \in ToSet(input.agents), apply_agent_failure(g) PROVE PlaneInv'
      BY <2>2, FailureKeeps
    <2>3. CASE UNCHANGED vars
      BY <2>3 DEF PlaneInv, Built, FailureDecided, vars
    <2> QED
      BY <2>1, <2>2, <2>3 DEF Next
  <1> QED
    BY <1>1, <1>2, PTL DEF Spec

(* Every command route of a plan is there exactly if commands can get      *)
(* through, and is as short as can be, whatever the topology (bfs_path,    *)
(* reconstruct_path and route_path_for_kind, topology.rs).                 *)
THEOREM RoutesCorrect == Spec => []RoutesExact
  <1>1. PlaneInv => RoutesExact
    <2> SUFFICES ASSUME PlaneInv, NEW r \in plan.routes PROVE ExactRoute(input.topology, r)
      BY DEF RoutesExact
    <2>1. plan.routes = route_command_plan(input.topology, Planned(input), AgentIds)
      BY DEF PlaneInv, Built, NoPlan
    <2>2. FiniteTopology(input.topology)
      <3>1. /\ IsFiniteSet(input.topology.nodes) /\ input.topology.nodes \subseteq Nat
            /\ input.topology.up \subseteq input.topology.nodes
        BY InputsAssumption DEF PlaneInv
      <3> QED
        BY <3>1, FS_Subset DEF FiniteTopology
    <2> QED
      BY <2>1, <2>2, RoutesOfPlan
  <1> QED
    BY <1>1, PlaneInductive, PTL

LEMMA VerdictOnCycles ==
    ASSUME NEW in, NEW routes
    PROVE  LET v == validate_swarm_command_plan(in, routes)
               c == has_mothership_cycle(in.topology.deps)
           IN (v = "ok" => ~c) /\ (v = "dependency_cycle" => c)
  <1> DEFINE wrong == {r \in routes : validate_command_route(in.topology, r) # "ok"}
             w == validate_command_route(in.topology, CHOOSE r \in wrong : TRUE)
             te == TopologyError(in, routes)
             c == has_mothership_cycle(in.topology.deps)
  <1>1. wrong # {} => w # "ok"
    <2>1. wrong # {} => (CHOOSE r \in wrong : TRUE) \in wrong
      BY Zenon
    <2> QED
      BY <2>1
  <1>2. w # "dependency_cycle"
    BY DEF validate_command_route
  <1> HIDE DEF w
  <1>3. te = "ok" => ~c
    BY <1>1 DEF TopologyError, w
  <1>4. te = "dependency_cycle" => c
    BY <1>2 DEF TopologyError, w
  <1>5. OwnershipError(in) # "dependency_cycle" /\ PolicyError(in) # "dependency_cycle"
    BY DEF OwnershipError, PolicyError
  <1> QED
    BY <1>3, <1>4, <1>5 DEF validate_swarm_command_plan

(* An accepted plan has no cycle of dependencies, and no plan without one  *)
(* is refused for it, whatever the dependencies (dfs_cycle, topology.rs).  *)
THEOREM CyclesCorrect == Spec => []CyclesFound
  <1>1. PlaneInv => CyclesFound
    <2> SUFFICES ASSUME PlaneInv PROVE CyclesFound
      OBVIOUS
    <2>1. CASE verdict = "none"
      BY <2>1 DEF CyclesFound
    <2>2. CASE Built
      <3>1. input.topology.deps \in Seq([parent : AgentIds, child : AgentIds])
        BY InputsAssumption DEF PlaneInv
      <3>2. has_mothership_cycle(input.topology.deps) <=> Cyclic(input.topology.deps)
        BY <3>1, CycleExact
      <3>3. /\ verdict = "ok" => ~has_mothership_cycle(input.topology.deps)
            /\ verdict = "dependency_cycle" => has_mothership_cycle(input.topology.deps)
        BY <2>2, VerdictOnCycles DEF Built
      <3> QED
        BY <3>2, <3>3 DEF CyclesFound
    <2> QED
      BY <2>1, <2>2 DEF PlaneInv
  <1> QED
    BY <1>1, PlaneInductive, PTL

(* In an accepted plan the failure of every agent can be decided, and what *)
(* is handed over goes to another agent that is a reserve, whatever the    *)
(* agents and their policies (apply_agent_failure, policy.rs).             *)
THEOREM FailuresDecided == Spec => []FailureDecided
  <1>1. PlaneInv => FailureDecided
    BY DEF PlaneInv
  <1> QED
    BY <1>1, PlaneInductive, PTL
=============================================================================
