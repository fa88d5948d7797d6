------------------------- MODULE UrbanPatrolProofs -------------------------
(***************************************************************************)
(* Theorems about UrbanPatrol, for any number of agents, any road graph,   *)
(* any patrols, detours, travel times and settings.                        *)
(*                                                                         *)
(* The inductive invariant says where a tick stands (Phases), that holders *)
(* of locks move in every tick, so that a lock is as old as its holder has *)
(* moves on the segment (Holders), that whoever waits or was denied stands *)
(* before the segment in question (Waiters, Losers), that travel times are *)
(* kept (Travel), that nobody is inside a segment or about to enter it     *)
(* without its lock (Reserved, Entry), and that whenever somebody is in    *)
(* flight somebody can move (Progress).  On top of it, no segment of the   *)
(* patrol is lost (Covered) and nobody is counted twice (Settled).         *)
(***************************************************************************)
EXTENDS UrbanPatrol, WellFoundedInduction, FiniteSetTheorems, SequenceTheorems, TLAPS

\* A non-empty set of natural numbers has a least element.
LEMMA LeastElement ==
    ASSUME NEW S, S \subseteq Nat, S # {}
    PROVE  \E i \in S : \A j \in S : i <= j
  <1>1. PICK m \in S : ~ (\E y \in S : <<y, m>> \in OpToRel(<, Nat))
    BY NatLessThanWellFounded, WFMin, Zenon
  <1>2. \A y \in S : ~ (y < m)
    BY <1>1 DEF OpToRel
  <1> QED
    BY <1>2

Phases ==
    /\ phase # "move" => denied = {} /\ todo = {} /\ moved = {}
    /\ denied # {} => todo = Agents /\ moved = {}
    /\ \A a \in moved : a \notin todo

Holders ==
    \A e \in Edges, a \in Agents : lock[e] = a =>
        /\ Flying(a) /\ Edge(a) = e /\ waiting[a] = NoEdge /\ a \notin denied
        /\ a \in moved => dist[a] = age[e] + 1
        /\ a \notin moved => dist[a] = age[e]
        /\ phase = "move" => a \in todo \/ a \in moved

Waiters ==
    \A a \in Agents : waiting[a] # NoEdge =>
        Flying(a) /\ waiting[a] = Edge(a) /\ dist[a] = 0

Losers ==
    \A a \in denied :
        /\ Flying(a) /\ dist[a] = 0 /\ waiting[a] = NoEdge
        /\ is_locked_by_other(lock, Edge(a), a)

Travel == \A a \in Agents : Active(a) => OnRoute(a) /\ dist[a] < Moves[a][Edge(a)]

Guarded == conf.onLocked # "replan" /\ FitsLease

Reserved == Guarded => \A a \in Agents : Inside(a) => lock[Edge(a)] = a

Entry ==
    Guarded => \A a \in todo \ denied :
        Flying(a) /\ waiting[a] = NoEdge => lock[Edge(a)] = a

Progress ==
    phase = "move" =>
        \/ moved # {}
        \/ \E a \in todo \ denied : CanMove(a)
        \/ \A a \in Agents : ~Flying(a)

Inv ==
    TypeOK /\ Phases /\ Holders /\ Waiters /\ Losers /\ Travel /\ Reserved /\ Entry /\ Progress
-----------------------------------------------------------------------------
(* The lock tables *)

LEMMA FirstMember ==
    ASSUME NEW G, G \subseteq Agents, G # {}
    PROVE  First(G) \in G
  <1>1. G \subseteq Nat
    BY LocksAssumption DEF Agents
  <1> QED
    BY <1>1, LeastElement DEF First

LEMMA WinnerMember ==
    ASSUME NEW c, NEW cu, NEW e, NEW G, G # {}
    PROVE  Winner(c, cu, e, G) \in G
  <1>1. \E a \in G : a \in Preferred(c, cu, e, G) \/ Preferred(c, cu, e, G) = {}
    <2>1. CASE Preferred(c, cu, e, G) = {}
      BY <2>1
    <2>2. CASE Preferred(c, cu, e, G) # {}
      BY <2>2 DEF Preferred
    <2> QED
      BY <2>1, <2>2
  <1> QED
    BY <1>1 DEF Winner

\* A release gives back at most the lock itself and lapsed leases.
LEMMA ReleaseFacts ==
    ASSUME TypeOK, NEW e \in Edges, NEW a \in Agents
    PROVE  /\ release(conf, lock, age, e, a) \in Locks
           /\ \A f \in Edges : release(conf, lock, age, e, a)[f] \in {lock[f], Free}
           /\ release(conf, lock, age, e, a)[e] # a
           /\ (\A f \in Edges : ~Lapsed(conf, lock, age, f)) =>
                 \A f \in Edges : f # e => release(conf, lock, age, e, a)[f] = lock[f]
  <1>1. lock \in [Edges -> Agents \cup {Free}] /\ Free \notin Agents
    BY LocksAssumption DEF TypeOK, Locks
  <1> QED
    BY <1>1 DEF release, expire_leases, Locks

\* A batch of requests frees lapsed leases only, and grants an edge to one
\* of those who ask for it.
LEMMA BatchFacts ==
    ASSUME TypeOK, NEW G \in [Edges -> SUBSET Agents],
           NEW r, r = request_batch(conf, lock, age, cursor, G)
    PROVE  /\ r \in Locks
           /\ \A e \in Edges : G[e] # {} => r[e] # Free
           /\ \A e \in Edges : r[e] # Free =>
                 r[e] \in G[e] \/ (r[e] = lock[e] /\ ~Lapsed(conf, lock, age, e))
           /\ \A e \in Edges : lock[e] # Free /\ ~Lapsed(conf, lock, age, e) => r[e] = lock[e]
  <1>1. r = [e \in Edges |-> r[e]]
    BY DEF request_batch
  <1>2. ASSUME NEW e \in Edges
        PROVE  /\ r[e] \in Agents \cup {Free}
               /\ G[e] # {} => r[e] # Free
               /\ r[e] # Free =>
                     r[e] \in G[e] \/ (r[e] = lock[e] /\ ~Lapsed(conf, lock, age, e))
               /\ lock[e] # Free /\ ~Lapsed(conf, lock, age, e) => r[e] = lock[e]
    <2>1. G[e] # {} => First(G[e]) \in G[e] /\ Winner(conf, cursor, e, G[e]) \in G[e]
      BY FirstMember, WinnerMember
    <2>2. lock[e] \in Agents \cup {Free} /\ G[e] \subseteq Agents /\ Free \notin Agents
      BY LocksAssumption DEF TypeOK, Locks
    <2>3. Lapsed(conf, lock, age, e) => lock[e] # Free
      BY DEF Lapsed
    <2>4. r[e] = IF (IF Lapsed(conf, lock, age, e) THEN Free ELSE lock[e]) # Free \/ G[e] = {}
                 THEN IF Lapsed(conf, lock, age, e) THEN Free ELSE lock[e]
                 ELSE IF lock[e] # Free THEN First(G[e]) ELSE Winner(conf, cursor, e, G[e])
      BY DEF request_batch, expire_leases
    <2> QED
      BY <2>1, <2>2, <2>3, <2>4
  <1>3. r \in Locks
    BY <1>1, <1>2 DEF Locks
  <1> QED
    BY <1>2, <1>3

LEMMA CursorType ==
    ASSUME NEW c, NEW l, NEW cu \in [Edges -> Nat], NEW G \in [Edges -> SUBSET Agents]
    PROVE  NextCursor(c, l, cu, G) \in [Edges -> Nat]
  <1>1. ASSUME NEW e \in Edges, NEW a, G[e] # {}
        PROVE  (Rank(G[e], a) + 1) % Cardinality(G[e]) \in Nat
    <2>1. IsFiniteSet(Agents)
      BY FS_Interval, LocksAssumption DEF Agents
    <2>2. IsFiniteSet(G[e]) /\ IsFiniteSet({b \in G[e] : b < a})
      <3>1. G[e] \subseteq Agents /\ {b \in G[e] : b < a} \subseteq Agents
        OBVIOUS
      <3> QED
        BY <2>1, <3>1, FS_Subset
    <2>3. Cardinality(G[e]) \in Nat /\ Rank(G[e], a) \in Nat
      BY <2>2, FS_CardinalityType DEF Rank
    <2>4. Cardinality(G[e]) # 0
      BY <2>2, <1>1, FS_EmptySet
    <2> QED
      BY <2>3, <2>4
  <1> QED
    BY <1>1 DEF NextCursor

-----------------------------------------------------------------------------
(* Routes *)

LEMMA EdgeType ==
    ASSUME TypeOK, NEW a \in Agents, OnRoute(a)
    PROVE  Segment(a) \in Segments /\ Edge(a) \in Edges /\ index[a] \in 1..Len(route[a])
  <1>1. route[a] \in Seq(Segments) /\ index[a] \in Nat \ {0}
    BY DEF TypeOK
  <1>2. index[a] \in 1..Len(route[a])
    BY <1>1 DEF OnRoute
  <1> HIDE DEF Segments
  <1>3. Segment(a) \in Segments
    BY <1>1, <1>2 DEF Segment
  <1> QED
    BY <1>2, <1>3 DEF Edge, Segments

\* Every travel time is at least one tick.
LEMMA TravelTime ==
    ASSUME NEW a \in Agents, NEW r \in Seq(Segments), NEW i \in Nat \ {0}, i <= Len(r)
    PROVE  r[i].edge \in Edges /\ Moves[a][r[i].edge] \in Nat \ {0}
  <1> HIDE DEF Segments
  <1>1. r[i] \in Segments
    OBVIOUS
  <1>2. r[i].edge \in Edges
    BY <1>1 DEF Segments
  <1> QED
    BY <1>2, PatrolAssumption

LEMMA SplitType ==
    ASSUME NEW p \in Seq(Segments), NEW a \in Agents
    PROVE  split_route_for_agent(p, a) \in Seq(Segments)
  <1> DEFINE base  == Len(p) \div N
             extra == Len(p) % N
             start == (a - 1) * base + (IF a - 1 < extra THEN a - 1 ELSE extra)
             len   == base + (IF a - 1 < extra THEN 1 ELSE 0)
  <1>1. N \in Nat \ {0} /\ a \in 1..N /\ Len(p) \in Nat
    BY LocksAssumption DEF Agents
  <1>2. base \in Nat /\ extra \in 0..N - 1 /\ Len(p) = N * base + extra
    BY <1>1
  <1> HIDE DEF base, extra
  <1>3. (a - 1) * base \in Nat
    BY <1>1, <1>2
  <1>4. start \in Nat /\ len \in Nat
    BY <1>1, <1>2, <1>3
  <1>5. start + len <= Len(p)
    <2>1. (a - 1) * base + base <= N * base
      <3>1. (a - 1) * base + base = a * base
        BY <1>1, <1>2
      <3>2. a * base <= N * base
        BY <1>1, <1>2
      <3> QED
        BY <3>1, <3>2
    <2>2. (IF a - 1 < extra THEN a - 1 ELSE extra) + (IF a - 1 < extra THEN 1 ELSE 0) <= extra
      BY <1>1, <1>2
    <2> QED
      BY <1>1, <1>2, <1>3, <2>1, <2>2
  <1> HIDE DEF start, len
  <1>6. SubSeq(p, start + 1, start + len) \in Seq(Segments)
    <2>1. \A i \in start + 1 .. start + len : p[i] \in Segments
      BY <1>1, <1>4, <1>5
    <2> QED
      BY <1>4, <2>1, SubSeqProperties
  <1> QED
    BY <1>6 DEF split_route_for_agent, start, len, base, extra
-----------------------------------------------------------------------------
(* The initial state *)

LEMMA InitInv == Init => Inv
  <1> SUFFICES ASSUME Init PROVE Inv
    OBVIOUS
  <1>1. conf \in Configuration /\ conf \in Configs
    BY PatrolAssumption DEF Init
  <1>2. route \in [Agents -> Seq(Segments)]
    <2>1. conf.patrol \in Seq(Segments)
      BY <1>1 DEF Configuration
    <2>2. \A a \in Agents : split_route_for_agent(conf.patrol, a) \in Seq(Segments)
      BY <2>1, SplitType
    <2> QED
      BY <2>1, <2>2 DEF Init
  <1>3. TypeOK
    BY <1>1, <1>2, LocksAssumption DEF Init, TypeOK, Locks, NoAgent
  <1>4. Phases /\ Holders /\ Waiters /\ Losers /\ Progress
    BY LocksAssumption DEF Init, Phases, Holders, Waiters, Losers, Progress
  <1>5. Travel
    <2> SUFFICES ASSUME NEW a \in Agents, Active(a)
                 PROVE  OnRoute(a) /\ dist[a] < Moves[a][Edge(a)]
      BY DEF Travel
    <2>0. OnRoute(a)
      <3>1. route[a] # <<>> /\ route[a] \in Seq(Segments) /\ index[a] = 1
        BY <1>2 DEF Init, Active
      <3>2. Len(route[a]) # 0
        BY <3>1, EmptySeq
      <3> QED
        BY <3>1, <3>2 DEF OnRoute
    <2>1. Edge(a) \in Edges
      BY <1>3, <2>0, EdgeType
    <2>2. Moves[a][Edge(a)] \in Nat \ {0}
      BY <2>1, PatrolAssumption
    <2> QED
      BY <2>0, <2>2 DEF Init
  <1>6. Reserved /\ Entry
    BY DEF Init, Reserved, Entry, Inside
  <1> QED
    BY <1>3, <1>4, <1>5, <1>6 DEF Inv

-----------------------------------------------------------------------------
(* Leases *)

\* Between two ticks a lock is as old as its holder has moves behind it, so
\* no lease that is long enough for the edge has lapsed.
LEMMA NoneLapsed ==
    ASSUME Inv, Guarded, phase = "failures" \/ phase = "move"
    PROVE  \A e \in Edges : ~Lapsed(conf, lock, age, e)
  <1> SUFFICES ASSUME NEW e \in Edges, conf.mode = "network", lock[e] # Free
               PROVE  ~(age[e] >= conf.lease)
    BY DEF Lapsed
  <1> DEFINE a == lock[e]
  <1>1. a \in Agents
    BY DEF Inv, TypeOK, Locks
  <1>2. Flying(a) /\ Edge(a) = e /\ (dist[a] = age[e] \/ dist[a] = age[e] + 1)
    BY <1>1 DEF Inv, Holders
  <1>3. dist[a] < Moves[a][e] /\ Moves[a][e] <= conf.lease
    BY <1>1, <1>2 DEF Inv, Travel, Flying, Guarded, FitsLease
  <1>4. age[e] \in Nat /\ dist[a] \in Nat /\ Moves[a][e] \in Nat /\ conf.lease \in Nat
    <2>1. age[e] \in Nat /\ dist[a] \in Nat
      BY <1>1 DEF Inv, TypeOK
    <2>2. Moves[a][e] \in Nat
      BY <1>1, PatrolAssumption
    <2>3. conf \in Configuration
      BY PatrolAssumption DEF Inv, TypeOK
    <2> QED
      BY <2>1, <2>2, <2>3 DEF Configuration
  <1> QED
    BY <1>2, <1>3, <1>4

-----------------------------------------------------------------------------
(* Failures *)

\* What a handoff does to the route and the position of its target.
LEMMA TakeOverFacts ==
    ASSUME TypeOK, NEW a \in Agents, NEW b \in Agents, a # b, OnRoute(a),
           NEW bridge \in Seq(Segments), TakeOver(a, b, bridge)
    PROVE  /\ route' \in [Agents -> Seq(Segments)]
           /\ index' \in [Agents -> Nat \ {0}]
           /\ b \in completed \/ OnRoute(b) => OnRoute(b)'
           /\ b \notin completed /\ OnRoute(b) => Edge(b)' = Edge(b)
           /\ \A d \in Agents : d # b => route'[d] = route[d] /\ index'[d] = index[d]
  <1> DEFINE rest == Remaining(a)
             new  == route[b] \o bridge \o rest
  <1>1. /\ route[a] \in Seq(Segments) /\ route[b] \in Seq(Segments)
        /\ index[a] \in 1..Len(route[a]) /\ index[b] \in Nat \ {0}
    BY EdgeType DEF TypeOK
  <1>2. rest \in Seq(Segments) /\ Len(rest) \in Nat \ {0}
    <2>1. \A i \in index[a]..Len(route[a]) : route[a][i] \in Segments
      BY <1>1
    <2>2. /\ rest \in Seq(Segments)
          /\ Len(rest) = IF index[a] <= Len(route[a]) THEN Len(route[a]) - index[a] + 1 ELSE 0
      BY <1>1, <2>1, SubSeqProperties DEF Remaining
    <2> QED
      BY <1>1, <2>2
  <1> HIDE DEF rest
  <1>3. route[b] \o bridge \in Seq(Segments) /\ Len(route[b] \o bridge) = Len(route[b]) + Len(bridge)
        /\ \A i \in 1..Len(route[b]) : (route[b] \o bridge)[i] = route[b][i]
    BY <1>1, ConcatProperties
  <1>4. /\ new \in Seq(Segments)
        /\ Len(new) = Len(route[b]) + Len(bridge) + Len(rest)
        /\ \A i \in 1..Len(route[b]) : new[i] = route[b][i]
    BY <1>1, <1>2, <1>3, ConcatProperties
  <1> HIDE DEF new
  <1>5. route' = [route EXCEPT ![b] = new]
    BY DEF TakeOver, new, rest
  <1>6. index' = [index EXCEPT ![b] = IF b \in completed THEN Len(route[b]) + 1 ELSE index[b]]
    BY DEF TakeOver
  <1>7. route' \in [Agents -> Seq(Segments)] /\ index' \in [Agents -> Nat \ {0}]
    BY <1>1, <1>4, <1>5, <1>6 DEF TypeOK
  <1>8. route'[b] = new /\ \A d \in Agents : d # b => route'[d] = route[d] /\ index'[d] = index[d]
    BY <1>5, <1>6 DEF TypeOK
  <1>9. index'[b] = IF b \in completed THEN Len(route[b]) + 1 ELSE index[b]
    BY <1>6 DEF TypeOK
  <1>10. b \notin completed /\ OnRoute(b) => Edge(b)' = Edge(b)
    BY <1>1, <1>4, <1>8, <1>9 DEF OnRoute, Edge, Segment
  <1>11. b \in completed \/ OnRoute(b) => OnRoute(b)'
    BY <1>1, <1>2, <1>4, <1>8, <1>9 DEF OnRoute
  <1> QED
    BY <1>7, <1>8, <1>10, <1>11
LEMMA FailFacts ==
    ASSUME Inv, NEW a \in Agents, Fail(a)
    PROVE  /\ TypeOK'
           /\ ~Flying(a)'
           /\ \A b \in Agents : b # a /\ Flying(b) =>
                 Flying(b)' /\ Edge(b)' = Edge(b) /\ dist'[b] = dist[b]
           /\ \A b \in Agents : Flying(b)' => Flying(b) \/ dist'[b] = 0
           /\ \A b \in Agents : Active(b)' => Flying(b)'
           /\ \A b \in Agents : b # a => waiting'[b] = waiting[b]
           /\ waiting'[a] = NoEdge
           /\ \A e \in Edges : lock'[e] # Free => lock'[e] = lock[e] /\ lock'[e] # a
           /\ Guarded => \A e \in Edges : lock[e] # a => lock'[e] = lock[e]
  <1> USE DEF Inv
  <1>1. /\ failed' = failed \cup {a} /\ waiting' = [waiting EXCEPT ![a] = NoEdge]
        /\ UNCHANGED <<conf, phase, denied, todo, aborted, age, cursor, moved, visited>>
        /\ lock' = IF OnRoute(a) THEN release(conf, lock, age, Edge(a), a) ELSE lock
        /\ phase = "failures"
    BY DEF Fail
  <1>2. /\ lock' \in Locks
        /\ \A e \in Edges : lock'[e] # Free => lock'[e] = lock[e]
        /\ \A e \in Edges : lock'[e] # Free => lock'[e] # a
        /\ Guarded => \A e \in Edges : lock[e] # a => lock'[e] = lock[e]
    <2>1. \A e \in Edges : lock[e] = a => OnRoute(a) /\ Edge(a) = e
      BY DEF Holders, Flying
    <2>2. CASE OnRoute(a)
      <3>1. PICK e \in Edges : e = Edge(a)
        BY <2>2, EdgeType
      <3>2. lock' = release(conf, lock, age, e, a)
        BY <1>1, <2>2, <3>1
      <3>3. /\ lock' \in Locks
            /\ \A f \in Edges : lock'[f] \in {lock[f], Free}
            /\ lock'[e] # a
            /\ (\A f \in Edges : ~Lapsed(conf, lock, age, f)) =>
                  \A f \in Edges : f # e => lock'[f] = lock[f]
        BY <3>2, ReleaseFacts
      <3>4. lock[e] # a => lock' = lock
        BY <3>2 DEF release
      <3>5. Guarded => \A f \in Edges : ~Lapsed(conf, lock, age, f)
        BY <1>1, NoneLapsed
      <3> QED
        BY <2>1, <3>1, <3>3, <3>4, <3>5
    <2>3. CASE ~OnRoute(a)
      BY <1>1, <2>1, <2>3 DEF TypeOK
    <2> QED
      BY <2>2, <2>3
  <1>3. waiting' \in [Agents -> Edges \cup {NoEdge}] /\ waiting'[a] = NoEdge
        /\ \A b \in Agents : b # a => waiting'[b] = waiting[b]
    BY <1>1 DEF TypeOK
  <1>4. ~Flying(a)'
    BY <1>1 DEF Flying, Active
  <1>5. CASE Abandon(a)
    <2>1. UNCHANGED <<route, index, dist, completed, handoff>>
      BY <1>5 DEF Abandon
    <2>2. TypeOK'
      BY <1>1, <1>2, <1>3, <2>1 DEF TypeOK
    <2>3. \A b \in Agents : b # a => (Flying(b)' <=> Flying(b)) /\ Edge(b)' = Edge(b)
      BY <1>1, <2>1 DEF Flying, Active, OnRoute, Edge, Segment
    <2>4. \A b \in Agents : Active(b)' => Flying(b)'
      BY <1>1, <2>1 DEF Travel, Flying, Active, OnRoute
    <2> QED
      BY <1>1, <1>2, <1>3, <1>4, <2>1, <2>2, <2>3, <2>4
  <1>6. CASE HandOver(a)
    <2>1. OnRoute(a) /\ Reserve(a) # {}
      BY <1>6 DEF HandOver, Recoverable, Returns
    <2>2. PICK t \in Agents :
              t = HandoffTarget(a) /\ t \notin failed /\ t \notin aborted /\ t # a
      <3> DEFINE G == IF Reserve(a) \cap completed # {} THEN Reserve(a) \cap completed
                      ELSE Reserve(a)
      <3>1. G # {} /\ G \subseteq Reserve(a) /\ Reserve(a) \subseteq Agents
        BY <2>1 DEF Reserve
      <3>2. First(G) \in G
        BY <3>1, FirstMember
      <3> QED
        BY <3>1, <3>2 DEF HandoffTarget, Reserve
    <2>3. PICK bridge \in Bridges(a, t) : TakeOver(a, t, bridge)
      BY <1>6, <2>2 DEF HandOver
    <2>4. bridge \in Seq(Segments)
      <3>1. bridge = <<>> \/ bridge \in Detours
        BY DEF Bridges
      <3>2. <<>> \in Seq(Segments)
        BY EmptySeq
      <3> QED
        BY <3>1, <3>2, PatrolAssumption
    <2>5. /\ route' \in [Agents -> Seq(Segments)]
          /\ index' \in [Agents -> Nat \ {0}]
          /\ t \in completed \/ OnRoute(t) => OnRoute(t)'
          /\ t \notin completed /\ OnRoute(t) => Edge(t)' = Edge(t)
          /\ \A d \in Agents : d # t => route'[d] = route[d] /\ index'[d] = index[d]
      BY <2>1, <2>2, <2>3, <2>4, TakeOverFacts
    <2>6. /\ dist' = [dist EXCEPT ![t] = IF t \in completed THEN 0 ELSE dist[t]]
          /\ completed' = completed \ {t} /\ handoff' = [handoff EXCEPT ![a] = t]
      BY <2>3 DEF TakeOver
    <2>7. dist' \in [Agents -> Nat] /\ handoff' \in [Agents -> Agents \cup {NoAgent}]
      BY <2>2, <2>6 DEF TypeOK
    <2>8. TypeOK'
      BY <1>1, <1>2, <1>3, <2>5, <2>6, <2>7 DEF TypeOK
    <2>9. \A b \in Agents : b # t => dist'[b] = dist[b]
      BY <2>6 DEF TypeOK
    <2>10. \A b \in Agents : b # a /\ b # t =>
              (Flying(b)' <=> Flying(b)) /\ Edge(b)' = Edge(b) /\ dist'[b] = dist[b]
      BY <1>1, <2>5, <2>6, <2>9 DEF Flying, Active, OnRoute, Edge, Segment
    <2>11. dist'[t] = IF t \in completed THEN 0 ELSE dist[t]
      BY <2>2, <2>6 DEF TypeOK
    <2>12. Flying(t) => Flying(t)' /\ Edge(t)' = Edge(t) /\ dist'[t] = dist[t]
      BY <1>1, <2>2, <2>5, <2>6, <2>11 DEF Flying, Active
    <2>13. Flying(t)' => Flying(t) \/ dist'[t] = 0
      <3>1. t \notin completed => OnRoute(t)
        BY <2>2 DEF Travel, Active
      <3> QED
        BY <1>1, <2>2, <2>11, <3>1 DEF Flying, Active
    <2>14. \A b \in Agents : Active(b)' => Flying(b)'
      <3>1. \A b \in Agents : b # t => (Active(b)' => Active(b) /\ (OnRoute(b)' <=> OnRoute(b)))
        BY <1>1, <2>5, <2>6 DEF Active, OnRoute
      <3>2. t \in completed \/ OnRoute(t)
        BY <2>2 DEF Travel, Active
      <3> QED
        BY <2>5, <3>1, <3>2 DEF Flying, Travel
    <2> QED
      BY <1>1, <1>2, <1>3, <1>4, <2>8, <2>10, <2>12, <2>13, <2>14
  <1> QED
    BY <1>5, <1>6 DEF Fail
LEMMA FailInv ==
    ASSUME Inv, NEW a \in Agents, Fail(a)
    PROVE  Inv'
  <1> USE DEF Inv
  <1>1. /\ phase = "failures" /\ denied = {} /\ todo = {} /\ moved = {}
        /\ UNCHANGED <<conf, phase, denied, todo, aborted, age, cursor, moved, visited>>
    BY DEF Fail, Phases
  <1>2. TypeOK'
    BY FailFacts
  <1>3. Phases' /\ Losers' /\ Progress'
    BY <1>1 DEF Phases, Losers, Progress
  <1>4. Holders'
    <2> SUFFICES ASSUME NEW e \in Edges, NEW b \in Agents, lock'[e] = b
                 PROVE  /\ Flying(b)' /\ Edge(b)' = e /\ waiting'[b] = NoEdge /\ b \notin denied'
                        /\ b \notin moved' /\ dist'[b] = age'[e] /\ phase' # "move"
      BY DEF Holders
    <2>1. lock[e] = b /\ b # a
      BY FailFacts, LocksAssumption
    <2>2. Flying(b) /\ Edge(b) = e /\ waiting[b] = NoEdge /\ dist[b] = age[e]
      BY <1>1, <2>1 DEF Holders
    <2> QED
      BY <1>1, <2>1, <2>2, FailFacts
  <1>5. Waiters'
    <2> SUFFICES ASSUME NEW b \in Agents, waiting'[b] # NoEdge
                 PROVE  Flying(b)' /\ waiting'[b] = Edge(b)' /\ dist'[b] = 0
      BY DEF Waiters
    <2>1. b # a /\ waiting'[b] = waiting[b]
      BY FailFacts
    <2>2. Flying(b) /\ waiting[b] = Edge(b) /\ dist[b] = 0
      BY <2>1 DEF Waiters
    <2> QED
      BY <2>1, <2>2, FailFacts
  <1>6. Travel'
    <2> SUFFICES ASSUME NEW b \in Agents, Active(b)'
                 PROVE  OnRoute(b)' /\ dist'[b] < Moves[b][Edge(b)']
      BY DEF Travel
    <2>1. Flying(b)' /\ OnRoute(b)' /\ b # a
      BY FailFacts DEF Flying
    <2>2. CASE Flying(b)
      BY <2>1, <2>2, FailFacts DEF Travel, Flying
    <2>3. CASE dist'[b] = 0
      <3>1. Moves[b][Edge(b)'] \in Nat \ {0}
        BY <1>2, <2>1, TravelTime DEF TypeOK, OnRoute, Edge, Segment
      <3> QED
        BY <2>1, <2>3, <3>1
    <2> QED
      BY <2>1, <2>2, <2>3, FailFacts
  <1>7. Reserved' /\ Entry'
    <2>1. Guarded' = Guarded
      BY <1>1 DEF Guarded, FitsLease
    <2>2. ASSUME NEW b \in Agents, Inside(b)', Guarded PROVE lock'[Edge(b)'] = b
      <3>1. Flying(b)' /\ dist'[b] # 0 /\ b # a
        BY <2>2, FailFacts DEF Inside
      <3>2. Flying(b) /\ dist'[b] = dist[b] /\ Edge(b)' = Edge(b)
        BY <3>1, FailFacts
      <3>3. lock[Edge(b)] = b
        BY <2>2, <3>2 DEF Inside, Reserved
      <3>4. Edge(b) \in Edges
        BY <3>2, EdgeType DEF Flying
      <3> QED
        BY <2>2, <3>1, <3>2, <3>3, <3>4, FailFacts
    <2> QED
      BY <1>1, <2>1, <2>2 DEF Reserved, Entry
  <1> QED
    BY <1>2, <1>3, <1>4, <1>5, <1>6, <1>7
-----------------------------------------------------------------------------
(* Requests *)

LEMMA RequestFacts ==
    ASSUME Inv, Request
    PROVE  /\ TypeOK'
           /\ \A e \in Edges : lock'[e] # Free =>
                 \/ Asks(lock'[e]) /\ Edge(lock'[e]) = e
                 \/ lock'[e] = lock[e] /\ ~Lapsed(conf, lock, age, e)
           /\ \A a \in Agents : Asks(a) => lock'[Edge(a)] # Free
           /\ \A e \in Edges : lock[e] # Free /\ ~Lapsed(conf, lock, age, e) => lock'[e] = lock[e]
           /\ \A a \in Agents : waiting'[a] = IF Asks(a) THEN NoEdge ELSE waiting[a]
           /\ \A e \in Edges : age'[e] =
                 IF lock'[e] # lock[e] \/ Lapsed(conf, lock, age, e) THEN 0 ELSE age[e]
  <1> USE DEF Inv
  <1>1. Requests \in [Edges -> SUBSET Agents]
    BY DEF Requests
  <1>2. lock' = request_batch(conf, lock, age, cursor, Requests)
    BY DEF Request
  <1>3. /\ lock' \in Locks
        /\ \A e \in Edges : Requests[e] # {} => lock'[e] # Free
        /\ \A e \in Edges : lock'[e] # Free =>
              lock'[e] \in Requests[e] \/ (lock'[e] = lock[e] /\ ~Lapsed(conf, lock, age, e))
        /\ \A e \in Edges : lock[e] # Free /\ ~Lapsed(conf, lock, age, e) => lock'[e] = lock[e]
    BY <1>1, <1>2, BatchFacts
  <1>4. cursor' \in [Edges -> Nat]
    <2>1. cursor \in [Edges -> Nat] /\ cursor' = NextCursor(conf, lock, cursor, Requests)
      BY DEF Request, TypeOK
    <2> QED
      BY <1>1, <2>1, CursorType
  <1>5. \A a \in Agents : waiting'[a] = IF Asks(a) THEN NoEdge ELSE waiting[a]
    BY DEF Request
  <1>6. waiting' \in [Agents -> Edges \cup {NoEdge}]
    BY DEF Request, TypeOK
  <1>7. /\ \A e \in Edges : age'[e] =
              IF lock'[e] # lock[e] \/ Lapsed(conf, lock, age, e) THEN 0 ELSE age[e]
        /\ age' \in [Edges -> Nat]
    BY DEF Request, TypeOK
  <1>8. denied' \subseteq Agents /\ todo' = Agents /\ phase' = "move"
        /\ UNCHANGED <<conf, route, index, dist, completed, aborted, failed, handoff,
                       moved, visited>>
    BY DEF Request
  <1>9. TypeOK'
    BY <1>3, <1>4, <1>6, <1>7, <1>8 DEF TypeOK
  <1>10. \A a \in Agents : Asks(a) => lock'[Edge(a)] # Free
    <2> SUFFICES ASSUME NEW a \in Agents, Asks(a) PROVE lock'[Edge(a)] # Free
      OBVIOUS
    <2>1. Edge(a) \in Edges
      BY EdgeType DEF Asks, Flying
    <2>2. a \in Requests[Edge(a)]
      BY <2>1 DEF Requests
    <2> QED
      BY <1>3, <2>1, <2>2
  <1>11. \A e \in Edges : lock'[e] # Free =>
            \/ Asks(lock'[e]) /\ Edge(lock'[e]) = e
            \/ lock'[e] = lock[e] /\ ~Lapsed(conf, lock, age, e)
    BY <1>3 DEF Requests
  <1> QED
    BY <1>3, <1>5, <1>7, <1>9, <1>10, <1>11

LEMMA RequestInv ==
    ASSUME Inv, Request
    PROVE  Inv'
  <1> USE DEF Inv
  <1>1. /\ phase = "failures" /\ denied = {} /\ todo = {} /\ moved = {}
        /\ phase' = "move" /\ todo' = Agents /\ moved' = {}
        /\ denied' = {a \in Agents : Asks(a) /\ lock'[Edge(a)] # a}
        /\ UNCHANGED <<conf, route, index, dist, completed, aborted, failed, handoff,
                       moved, visited>>
    BY DEF Request, Phases
  <1>2. TypeOK'
    BY RequestFacts
  <1>3. \A a \in Agents : Flying(a)' = Flying(a) /\ Edge(a)' = Edge(a) /\ dist'[a] = dist[a]
    BY <1>1 DEF Flying, Active, OnRoute, Edge, Segment
  <1>4. \A a \in Agents : Flying(a) => Edge(a) \in Edges
    BY EdgeType DEF Flying
  <1>5. \A a \in Agents : waiting'[a] = IF Asks(a) THEN NoEdge ELSE waiting[a]
    BY RequestFacts
  <1>6. Phases'
    BY <1>1 DEF Phases
  <1>7. Holders'
    <2> SUFFICES ASSUME NEW e \in Edges, NEW a \in Agents, lock'[e] = a
                 PROVE  /\ Flying(a)' /\ Edge(a)' = e /\ waiting'[a] = NoEdge /\ a \notin denied'
                        /\ dist'[a] = age'[e] /\ a \notin moved' /\ a \in todo'
      BY DEF Holders
    <2>1. a # Free
      BY LocksAssumption
    <2>2. CASE Asks(a) /\ Edge(a) = e
      <3>1. Flying(a) /\ dist[a] = 0 /\ waiting'[a] = NoEdge /\ a \notin denied'
        BY <1>1, <1>5, <2>2 DEF Asks
      <3>2. age'[e] = 0
        <4>1. CASE lock[e] = a
          BY <2>1, <2>2, <3>1, <4>1, <1>1, RequestFacts DEF Holders
        <4>2. CASE lock[e] # a
          BY <4>2, RequestFacts
        <4> QED
          BY <4>1, <4>2
      <3> QED
        BY <1>1, <1>3, <2>2, <3>1, <3>2
    <2>3. CASE lock'[e] = lock[e] /\ ~Lapsed(conf, lock, age, e)
      <3>1. Flying(a) /\ Edge(a) = e /\ waiting[a] = NoEdge /\ dist[a] = age[e]
        BY <1>1, <2>3 DEF Holders
      <3>2. age'[e] = age[e]
        BY <2>3, RequestFacts
      <3>3. waiting'[a] = NoEdge /\ a \notin denied'
        BY <1>1, <1>5, <3>1
      <3> QED
        BY <1>1, <1>3, <3>1, <3>2, <3>3
    <2> QED
      BY <2>1, <2>2, <2>3, RequestFacts
  <1>8. Waiters'
    BY <1>3, <1>5 DEF Waiters
  <1>9. Losers'
    <2> SUFFICES ASSUME NEW a \in denied'
                 PROVE  /\ Flying(a)' /\ dist'[a] = 0 /\ waiting'[a] = NoEdge
                        /\ is_locked_by_other(lock', Edge(a)', a)
      BY <1>1 DEF Losers, is_locked_by_other
    <2>1. a \in Agents /\ Asks(a) /\ lock'[Edge(a)] # a
      BY <1>1
    <2>2. lock'[Edge(a)] # Free
      BY <2>1, RequestFacts
    <2> QED
      BY <1>3, <1>5, <2>1, <2>2 DEF Asks, is_locked_by_other
  <1>10. Travel'
    BY <1>1 DEF Travel, Active, OnRoute, Edge, Segment
  <1>11. Reserved' /\ Entry'
    <2> SUFFICES ASSUME Guarded
                 PROVE  /\ \A a \in Agents : Inside(a)' => lock'[Edge(a)'] = a
                        /\ \A a \in todo' \ denied' :
                              Flying(a)' /\ waiting'[a] = NoEdge => lock'[Edge(a)'] = a
      BY <1>1 DEF Reserved, Entry, Guarded, FitsLease
    <2>1. ASSUME NEW a \in Agents, Flying(a), dist[a] > 0 PROVE lock'[Edge(a)] = a
      <3>1. lock[Edge(a)] = a /\ Edge(a) \in Edges
        BY <1>4, <2>1 DEF Reserved, Inside
      <3>2. ~Lapsed(conf, lock, age, Edge(a))
        BY <1>1, <3>1, NoneLapsed
      <3> QED
        BY <3>1, <3>2, RequestFacts, LocksAssumption
    <2>2. ASSUME NEW a \in Agents, a \notin denied', Flying(a), waiting'[a] = NoEdge
          PROVE  lock'[Edge(a)] = a
      <3>1. CASE Asks(a)
        BY <1>1, <2>2, <3>1
      <3>2. CASE ~Asks(a)
        <4>1. waiting[a] = NoEdge
          BY <1>5, <2>2, <3>2
        <4>2. dist[a] # 0
          BY <2>2, <3>2, <4>1 DEF Asks
        <4>3. dist[a] > 0
          BY <4>2 DEF TypeOK
        <4> QED
          BY <2>1, <2>2, <4>3
      <3> QED
        BY <3>1, <3>2
    <2> QED
      BY <1>1, <1>3, <2>1, <2>2 DEF Inside
  <1>12. Progress'
    <2> SUFFICES ASSUME NEW x \in Agents, Flying(x)'
                 PROVE  \E a \in todo' \ denied' : CanMove(a)'
      BY DEF Progress
    <2>1. CASE \E e \in Edges : lock'[e] # Free
      <3>1. PICK e \in Edges : lock'[e] # Free
        BY <2>1
      <3>2. PICK a \in Agents : lock'[e] = a
        BY <1>2, <3>1 DEF TypeOK, Locks
      <3>3. Flying(a)' /\ Edge(a)' = e /\ waiting'[a] = NoEdge /\ a \notin denied'
        BY <1>7, <3>2 DEF Holders
      <3>4. CanMove(a)'
        BY <3>2, <3>3 DEF CanMove, is_locked_by_other
      <3> QED
        BY <1>1, <3>3, <3>4
    <2>2. CASE \A e \in Edges : lock'[e] = Free
      <3>1. ASSUME NEW a \in Agents, Flying(a), waiting[a] = NoEdge
            PROVE  \E b \in todo' \ denied' : CanMove(b)'
        <4>1. ~Asks(a)
          BY <1>4, <2>2, <3>1, RequestFacts
        <4>2. waiting'[a] = NoEdge /\ a \in todo' \ denied'
          BY <1>1, <1>5, <3>1, <4>1
        <4>3. CanMove(a)'
          BY <1>3, <1>4, <2>2, <3>1, <4>2 DEF CanMove, is_locked_by_other
        <4> QED
          BY <4>2, <4>3
      <3>2. CASE waiting[x] = NoEdge
        BY <1>3, <3>1, <3>2
      <3>3. CASE waiting[x] # NoEdge
        <4>1. ~Asks(x) /\ Flying(x) /\ waiting[x] = Edge(x) /\ dist[x] = 0
          BY <1>3, <1>4, <2>2, <3>3, RequestFacts DEF Waiters
        <4>2. lock[Edge(x)] \notin {Free, x} /\ Edge(x) \in Edges
          BY <1>4, <4>1 DEF Asks, is_locked_by_other
        <4>3. PICK h \in Agents : lock[Edge(x)] = h
          BY <4>2 DEF TypeOK, Locks
        <4>4. Flying(h) /\ waiting[h] = NoEdge
          BY <4>2, <4>3 DEF Holders
        <4> QED
          BY <3>1, <4>4
      <3> QED
        BY <3>2, <3>3
    <2> QED
      BY <2>1, <2>2
  <1> QED
    BY <1>2, <1>6, <1>7, <1>8, <1>9, <1>10, <1>11, <1>12
-----------------------------------------------------------------------------
(* Reactions of the losers *)

LEMMA ReactFacts ==
    ASSUME Inv, NEW a \in Agents, React(a)
    PROVE  /\ TypeOK'
           /\ \A b \in Agents : b # a =>
                 Flying(b)' = Flying(b) /\ Edge(b)' = Edge(b) /\ waiting'[b] = waiting[b]
           /\ \A b \in Agents : b # a => Active(b)' = Active(b) /\ OnRoute(b)' = OnRoute(b)
           /\ Active(a)' => OnRoute(a)'
           /\ waiting'[a] # NoEdge => Flying(a)' /\ waiting'[a] = Edge(a)'
           /\ conf.onLocked # "replan" => ~Flying(a)' \/ waiting'[a] # NoEdge
  <1> USE DEF Inv
  <1>1. /\ a \in denied /\ denied' = denied \ {a}
        /\ UNCHANGED <<conf, phase, todo, dist, completed, failed, handoff, lock, age, cursor,
                       moved, visited>>
    BY DEF React, lockVars
  <1>2. Flying(a) /\ waiting[a] = NoEdge /\ Edge(a) \in Edges
    BY <1>1, EdgeType DEF Losers, Flying
  <1>3. CASE Wait(a)
    <2>1. waiting' = [waiting EXCEPT ![a] = Edge(a)] /\ UNCHANGED <<route, index, aborted>>
      BY <1>3 DEF Wait
    <2>2. waiting' \in [Agents -> Edges \cup {NoEdge}] /\ waiting'[a] = Edge(a)
          /\ \A b \in Agents : b # a => waiting'[b] = waiting[b]
      BY <1>2, <2>1 DEF TypeOK
    <2>3. \A b \in Agents : Flying(b)' = Flying(b) /\ Edge(b)' = Edge(b)
                            /\ Active(b)' = Active(b) /\ OnRoute(b)' = OnRoute(b)
      BY <1>1, <2>1 DEF Flying, Active, OnRoute, Edge, Segment
    <2>4. TypeOK'
      BY <1>1, <2>1, <2>2 DEF TypeOK
    <2>5. waiting'[a] # NoEdge
      BY <1>2, <2>2, PatrolAssumption
    <2> QED
      BY <1>2, <2>2, <2>3, <2>4, <2>5 DEF Flying
  <1>4. CASE Abort(a)
    <2>1. aborted' = aborted \cup {a} /\ UNCHANGED <<route, index, waiting>>
      BY <1>4 DEF Abort
    <2>2. \A b \in Agents : b # a => Flying(b)' = Flying(b) /\ Edge(b)' = Edge(b)
                            /\ Active(b)' = Active(b) /\ OnRoute(b)' = OnRoute(b)
      BY <1>1, <2>1 DEF Flying, Active, OnRoute, Edge, Segment
    <2>3. ~Active(a)' /\ ~Flying(a)'
      BY <2>1 DEF Flying, Active
    <2>4. TypeOK'
      BY <1>1, <2>1 DEF TypeOK
    <2> QED
      BY <1>2, <2>1, <2>2, <2>3, <2>4
  <1>5. CASE Replan(a)
    <2>1. PICK path \in Detours, i \in index[a]..Len(route[a]) :
              route' = [route EXCEPT ![a] = path \o SubSeq(route[a], i + 1, Len(route[a]))]
      BY <1>5 DEF Replan
    <2> DEFINE tail == SubSeq(route[a], i + 1, Len(route[a]))
               new  == path \o tail
    <2>2. index' = [index EXCEPT ![a] = 1] /\ UNCHANGED <<waiting, aborted>>
      BY <1>5 DEF Replan
    <2>3. new \in Seq(Segments) /\ Len(new) >= 1
      <3>1. path \in Seq(Segments) /\ path # <<>>
        BY PatrolAssumption
      <3>2. Len(path) \in Nat /\ Len(path) # 0
        BY <3>1, EmptySeq
      <3>3. route[a] \in Seq(Segments) /\ i \in Nat /\ i >= 1 /\ Len(route[a]) \in Nat
        <4>1. route[a] \in Seq(Segments) /\ index[a] \in Nat \ {0}
          BY DEF TypeOK
        <4> QED
          BY <4>1
      <3>4. \A k \in i + 1 .. Len(route[a]) : route[a][k] \in Segments
        BY <3>3
      <3>5. tail \in Seq(Segments)
        BY <3>3, <3>4, SubSeqProperties
      <3> HIDE DEF tail
      <3>6. new \in Seq(Segments) /\ Len(new) = Len(path) + Len(tail) /\ Len(tail) \in Nat
        BY <3>1, <3>5, ConcatProperties
      <3> QED
        BY <3>2, <3>6
    <2>4. route' = [route EXCEPT ![a] = new]
      BY <2>1
    <2> HIDE DEF new
    <2>5. /\ route' \in [Agents -> Seq(Segments)] /\ index' \in [Agents -> Nat \ {0}]
          /\ route'[a] = new /\ index'[a] = 1
          /\ \A b \in Agents : b # a => route'[b] = route[b] /\ index'[b] = index[b]
      BY <2>2, <2>3, <2>4 DEF TypeOK
    <2>6. \A b \in Agents : b # a => Flying(b)' = Flying(b) /\ Edge(b)' = Edge(b)
                            /\ Active(b)' = Active(b) /\ OnRoute(b)' = OnRoute(b)
      BY <1>1, <2>2, <2>5 DEF Flying, Active, OnRoute, Edge, Segment
    <2>7. OnRoute(a)'
      BY <2>3, <2>5 DEF OnRoute
    <2>8. TypeOK'
      BY <1>1, <2>2, <2>5 DEF TypeOK
    <2>9. conf.onLocked = "replan"
      BY <1>5 DEF Replan
    <2> QED
      BY <1>2, <2>2, <2>6, <2>7, <2>8, <2>9
  <1> QED
    BY <1>3, <1>4, <1>5 DEF React

LEMMA ReactInv ==
    ASSUME Inv, NEW a \in Agents, React(a)
    PROVE  Inv'
  <1> USE DEF Inv
  <1>1. /\ a \in denied /\ denied' = denied \ {a}
        /\ UNCHANGED <<conf, phase, todo, dist, completed, failed, handoff, lock, age, cursor,
                       moved, visited>>
    BY DEF React, lockVars
  <1>2. Flying(a) /\ dist[a] = 0 /\ todo = Agents /\ moved = {} /\ phase = "move"
    BY <1>1 DEF Losers, Phases
  <1>3. TypeOK'
    BY ReactFacts
  <1>4. Phases'
    BY <1>1 DEF Phases
  <1>5. Holders'
    BY <1>1, ReactFacts DEF Holders
  <1>6. Waiters'
    BY <1>1, <1>2, ReactFacts DEF Waiters
  <1>7. Losers'
    BY <1>1, ReactFacts DEF Losers, TypeOK
  <1>8. Travel'
    <2> SUFFICES ASSUME NEW b \in Agents, Active(b)'
                 PROVE  OnRoute(b)' /\ dist'[b] < Moves[b][Edge(b)']
      BY DEF Travel
    <2>1. CASE b = a
      <3>1. OnRoute(b)'
        BY <2>1, ReactFacts
      <3>2. Moves[b][Edge(b)'] \in Nat \ {0}
        BY <1>3, <3>1, TravelTime DEF TypeOK, OnRoute, Edge, Segment
      <3> QED
        BY <1>1, <1>2, <2>1, <3>1, <3>2
    <2>2. CASE b # a
      BY <1>1, <2>2, ReactFacts DEF Travel
    <2> QED
      BY <2>1, <2>2
  <1>9. Reserved' /\ Entry'
    <2>1. Guarded' = Guarded
      BY <1>1 DEF Guarded, FitsLease
    <2>2. Reserved'
      BY <1>1, <1>2, <2>1, ReactFacts DEF Reserved, Inside
    <2>3. Entry'
      BY <1>1, <1>2, <2>1, ReactFacts DEF Entry, Guarded
    <2> QED
      BY <2>2, <2>3
  <1>10. Progress'
    <2>1. PICK b \in todo \ denied : CanMove(b)
      BY <1>2 DEF Progress
    <2>2. b # a /\ b \in Agents
      BY <1>1, <1>2, <2>1
    <2>3. CanMove(b)'
      BY <1>1, <2>1, <2>2, ReactFacts DEF CanMove, is_locked_by_other
    <2> QED
      BY <1>1, <2>1, <2>3 DEF Progress
  <1> QED
    BY <1>3, <1>4, <1>5, <1>6, <1>7, <1>8, <1>9, <1>10
-----------------------------------------------------------------------------
(* Movement *)

LEMMA PassInv ==
    ASSUME Inv, NEW a \in Agents, Move(a), Pass(a)
    PROVE  Inv'
  <1> USE DEF Inv
  <1>1. /\ phase = "move" /\ denied = {} /\ a \in todo /\ todo' = todo \ {a} /\ ~CanMove(a)
        /\ UNCHANGED <<conf, phase, denied, agentVars, lockVars, moved, visited>>
    BY DEF Move, Pass, agentVars, lockVars
  <1>2. \A b \in Agents : Flying(b)' = Flying(b) /\ Edge(b)' = Edge(b) /\ CanMove(b)' = CanMove(b)
                          /\ Active(b)' = Active(b) /\ OnRoute(b)' = OnRoute(b)
    BY <1>1 DEF agentVars, lockVars, Flying, Active, OnRoute, Edge, Segment, CanMove,
                is_locked_by_other
  <1>3. TypeOK' /\ Phases' /\ Losers'
    BY <1>1 DEF agentVars, lockVars, TypeOK, Phases, Losers
  <1>4. Waiters' /\ Travel'
    BY <1>1, <1>2 DEF agentVars, Waiters, Travel
  <1>5. Holders'
    <2>1. \A e \in Edges : lock[e] # a
      BY <1>1 DEF Holders, CanMove, is_locked_by_other
    <2> QED
      BY <1>1, <1>2, <2>1 DEF agentVars, lockVars, Holders
  <1>6. Reserved' /\ Entry'
    BY <1>1, <1>2 DEF agentVars, lockVars, Reserved, Entry, Guarded, FitsLease, Inside, TypeOK
  <1>7. Progress'
    BY <1>1, <1>2 DEF Progress, TypeOK
  <1> QED
    BY <1>3, <1>4, <1>5, <1>6, <1>7

LEMMA AdvanceInv ==
    ASSUME Inv, NEW a \in Agents, Move(a), Advance(a)
    PROVE  Inv'
  <1> USE DEF Inv
  <1>1. /\ phase = "move" /\ denied = {} /\ a \in todo /\ todo' = todo \ {a} /\ a \notin moved
        /\ CanMove(a) /\ dist[a] + 1 < Moves[a][Edge(a)]
        /\ dist' = [dist EXCEPT ![a] = @ + 1] /\ moved' = moved \cup {a}
        /\ UNCHANGED <<conf, phase, denied, route, index, completed, aborted, failed, waiting,
                       handoff, lock, age, cursor, visited>>
    BY DEF Move, Advance, Phases
  <1>2. \A b \in Agents : Flying(b)' = Flying(b) /\ Edge(b)' = Edge(b)
                          /\ Active(b)' = Active(b) /\ OnRoute(b)' = OnRoute(b)
    BY <1>1 DEF Flying, Active, OnRoute, Edge, Segment
  <1>3. /\ dist' \in [Agents -> Nat] /\ dist'[a] = dist[a] + 1
        /\ \A b \in Agents : b # a => dist'[b] = dist[b]
    BY <1>1 DEF TypeOK
  <1>4. Flying(a) /\ waiting[a] = NoEdge
    BY <1>1 DEF CanMove
  <1>5. TypeOK'
    BY <1>1, <1>3 DEF TypeOK
  <1>6. Phases' /\ Losers' /\ Progress'
    BY <1>1 DEF Phases, Losers, Progress
  <1>7. Waiters' /\ Travel'
    BY <1>1, <1>2, <1>3, <1>4 DEF Waiters, Travel
  <1>8. Holders'
    BY <1>1, <1>2, <1>3 DEF Holders
  <1>9. Reserved' /\ Entry'
    <2>1. Guarded' = Guarded
      BY <1>1 DEF Guarded, FitsLease
    <2>2. Guarded => lock[Edge(a)] = a
      BY <1>1, <1>4 DEF Entry
    <2>3. Reserved'
      BY <1>1, <1>2, <1>3, <2>1, <2>2 DEF Reserved, Inside
    <2>4. Entry'
      BY <1>1, <1>2, <2>1 DEF Entry, TypeOK
    <2> QED
      BY <2>3, <2>4
  <1> QED
    BY <1>5, <1>6, <1>7, <1>8, <1>9

LEMMA FinishInv ==
    ASSUME Inv, NEW a \in Agents, Move(a), Finish(a)
    PROVE  Inv'
  <1> USE DEF Inv
  <1>1. /\ phase = "move" /\ denied = {} /\ a \in todo /\ todo' = todo \ {a}
        /\ CanMove(a)
        /\ lock' = release(conf, lock, age, Edge(a), a)
        /\ index' = [index EXCEPT ![a] = @ + 1]
        /\ moved' = moved \cup {a} /\ visited' = visited \cup {Edge(a)}
        /\ UNCHANGED <<conf, phase, denied, route, aborted, failed, waiting, handoff, age, cursor>>
    BY DEF Move, Finish
  <1>2. PICK e \in Edges : e = Edge(a)
    BY <1>1, EdgeType DEF CanMove, Flying
  <1>3. Flying(a) /\ waiting[a] = NoEdge
    BY <1>1 DEF CanMove
  <1>4. /\ lock' \in Locks
        /\ \A f \in Edges : lock'[f] \in {lock[f], Free}
        /\ \A f \in Edges : lock'[f] # a
        /\ Guarded => \A f \in Edges : lock[f] # a => lock'[f] = lock[f]
    <2>1. lock' = release(conf, lock, age, e, a)
      BY <1>1, <1>2
    <2>2. /\ lock' \in Locks
          /\ \A f \in Edges : lock'[f] \in {lock[f], Free}
          /\ lock'[e] # a
          /\ (\A f \in Edges : ~Lapsed(conf, lock, age, f)) =>
                \A f \in Edges : f # e => lock'[f] = lock[f]
      BY <2>1, ReleaseFacts
    <2>3. \A f \in Edges : lock[f] = a => f = e
      BY <1>2 DEF Holders
    <2>4. lock[e] # a => lock' = lock
      BY <2>1 DEF release
    <2>5. Guarded => \A f \in Edges : ~Lapsed(conf, lock, age, f)
      BY <1>1, NoneLapsed
    <2> QED
      BY <2>2, <2>3, <2>4, <2>5, LocksAssumption
  <1>5. /\ index' \in [Agents -> Nat \ {0}] /\ index'[a] = index[a] + 1
        /\ \A b \in Agents : b # a => index'[b] = index[b]
    BY <1>1 DEF TypeOK
  <1>6. /\ dist' \in [Agents -> Nat] /\ completed' \subseteq Agents
        /\ \A b \in Agents : b # a => dist'[b] = dist[b] /\ (b \in completed' <=> b \in completed)
        /\ index[a] = Len(route[a]) => a \in completed'
        /\ index[a] # Len(route[a]) => dist'[a] = 0
    BY DEF Finish, TypeOK
  <1>7. \A b \in Agents : b # a =>
            Flying(b)' = Flying(b) /\ Edge(b)' = Edge(b)
            /\ Active(b)' = Active(b) /\ OnRoute(b)' = OnRoute(b)
    BY <1>1, <1>5, <1>6 DEF Flying, Active, OnRoute, Edge, Segment
  <1>8. Active(a)' => OnRoute(a)' /\ dist'[a] = 0
    <2>1. index[a] <= Len(route[a]) /\ index[a] \in Nat /\ Len(route[a]) \in Nat
      BY <1>3 DEF Flying, OnRoute, TypeOK
    <2> QED
      BY <1>1, <1>5, <1>6, <2>1 DEF Active, OnRoute
  <1>9. TypeOK'
    BY <1>1, <1>2, <1>4, <1>5, <1>6 DEF TypeOK
  <1>10. Phases' /\ Losers' /\ Progress'
    BY <1>1 DEF Phases, Losers, Progress
  <1>11. Waiters'
    BY <1>1, <1>3, <1>6, <1>7 DEF Waiters
  <1>12. Travel'
    <2> SUFFICES ASSUME NEW b \in Agents, Active(b)'
                 PROVE  OnRoute(b)' /\ dist'[b] < Moves[b][Edge(b)']
      BY DEF Travel
    <2>1. CASE b = a
      <3>1. OnRoute(b)' /\ dist'[b] = 0
        BY <1>8, <2>1
      <3>2. Moves[b][Edge(b)'] \in Nat \ {0}
        BY <1>9, <3>1, TravelTime DEF TypeOK, OnRoute, Edge, Segment
      <3> QED
        BY <3>1, <3>2
    <2>2. CASE b # a
      BY <1>6, <1>7, <2>2 DEF Travel
    <2> QED
      BY <2>1, <2>2
  <1>13. Holders'
    <2> SUFFICES ASSUME NEW f \in Edges, NEW b \in Agents, lock'[f] = b
                 PROVE  /\ Flying(b)' /\ Edge(b)' = f /\ waiting'[b] = NoEdge /\ b \notin denied'
                        /\ b \in moved' => dist'[b] = age'[f] + 1
                        /\ b \notin moved' => dist'[b] = age'[f]
                        /\ b \in todo' \/ b \in moved'
      BY DEF Holders
    <2>1. b # a /\ lock[f] = b
      BY <1>4, LocksAssumption
    <2> QED
      BY <1>1, <1>6, <1>7, <2>1 DEF Holders
  <1>14. Reserved' /\ Entry'
    <2>1. Guarded' = Guarded
      BY <1>1 DEF Guarded, FitsLease
    <2>2. ASSUME NEW b \in Agents, b # a, Guarded, Flying(b), lock[Edge(b)] = b
          PROVE  lock'[Edge(b)] = b
      BY <1>4, <2>2, EdgeType DEF Flying
    <2>3. Reserved'
      <3> SUFFICES ASSUME Guarded, NEW b \in Agents, Inside(b)' PROVE lock'[Edge(b)'] = b
        BY <2>1 DEF Reserved
      <3>1. b # a
        BY <1>8, LocksAssumption DEF Inside, Flying
      <3>2. Inside(b) /\ Edge(b)' = Edge(b)
        BY <1>6, <1>7, <3>1 DEF Inside
      <3> QED
        BY <2>2, <3>1, <3>2 DEF Reserved, Inside
    <2>4. Entry'
      <3> SUFFICES ASSUME Guarded, NEW b \in todo' \ denied', Flying(b)', waiting'[b] = NoEdge
                   PROVE  lock'[Edge(b)'] = b
        BY <2>1 DEF Entry
      <3>1. b \in Agents /\ b # a /\ b \in todo \ denied
        BY <1>1 DEF TypeOK
      <3>2. Flying(b) /\ waiting[b] = NoEdge /\ Edge(b)' = Edge(b)
        BY <1>1, <1>7, <3>1
      <3> QED
        BY <2>2, <3>1, <3>2 DEF Entry
    <2> QED
      BY <2>3, <2>4
  <1> QED
    BY <1>9, <1>10, <1>11, <1>12, <1>13, <1>14

\* Every holder has moved by the end of the tick, so locks and positions age
\* together.
LEMMA EndTickInv ==
    ASSUME Inv, EndTick
    PROVE  Inv'
  <1> USE DEF Inv
  <1>1. /\ phase = "move" /\ denied = {} /\ todo = {}
        /\ phase' \in {"done", "failures"} /\ moved' = {}
        /\ age' = [e \in Edges |-> IF lock[e] # Free THEN age[e] + 1 ELSE 0]
        /\ UNCHANGED <<conf, denied, todo, agentVars, lock, cursor, visited>>
    BY DEF EndTick
  <1>2. \A b \in Agents : Flying(b)' = Flying(b) /\ Edge(b)' = Edge(b)
                          /\ Active(b)' = Active(b) /\ OnRoute(b)' = OnRoute(b)
    BY <1>1 DEF agentVars, Flying, Active, OnRoute, Edge, Segment
  <1>3. age' \in [Edges -> Nat]
    BY <1>1 DEF TypeOK
  <1>4. TypeOK'
    BY <1>1, <1>3 DEF agentVars, TypeOK
  <1>5. Phases' /\ Losers' /\ Progress'
    BY <1>1 DEF Phases, Losers, Progress
  <1>6. Waiters' /\ Travel'
    BY <1>1, <1>2 DEF agentVars, Waiters, Travel
  <1>7. Holders'
    <2> SUFFICES ASSUME NEW e \in Edges, NEW a \in Agents, lock[e] = a
                 PROVE  /\ Flying(a) /\ Edge(a) = e /\ waiting[a] = NoEdge /\ a \notin denied
                        /\ dist[a] = age'[e]
      BY <1>1, <1>2 DEF agentVars, Holders
    <2>1. lock[e] # Free
      BY LocksAssumption
    <2> QED
      BY <1>1, <2>1 DEF Holders
  <1>8. Reserved' /\ Entry'
    BY <1>1, <1>2 DEF agentVars, Reserved, Entry, Guarded, FitsLease, Inside
  <1> QED
    BY <1>4, <1>5, <1>6, <1>7, <1>8

LEMMA StutterInv ==
    ASSUME Inv, UNCHANGED vars
    PROVE  Inv'
  <1>1. UNCHANGED <<conf, phase, denied, todo, route, index, dist, completed, aborted, failed,
                    waiting, handoff, lock, age, cursor, moved, visited>>
    BY DEF vars, agentVars, lockVars
  <1>2. TypeOK' /\ Phases' /\ Holders' /\ Waiters'
    BY <1>1 DEF Inv, TypeOK, Phases, Holders, Waiters, Flying, Active, OnRoute, Edge, Segment
  <1>3. Losers' /\ Travel' /\ Reserved' /\ Entry' /\ Progress'
    BY <1>1 DEF Inv, Losers, Travel, Reserved, Entry, Progress, Flying, Active, OnRoute, Edge,
                Segment, Guarded, FitsLease, Inside, CanMove, is_locked_by_other
  <1> QED
    BY <1>2, <1>3 DEF Inv

-----------------------------------------------------------------------------
(* Theorems *)

LEMMA Invariance == Spec => []Inv
  <1>1. Init => Inv
    BY InitInv
  <1>2. Inv /\ [Next]_vars => Inv'
    <2> SUFFICES ASSUME Inv, [Next]_vars PROVE Inv'
      OBVIOUS
    <2>1. ASSUME NEW a \in Agents, Fail(a) PROVE Inv'
      BY <2>1, FailInv
    <2>2. ASSUME NEW a \in Agents, React(a) PROVE Inv'
      BY <2>2, ReactInv
    <2>3. ASSUME NEW a \in Agents, Move(a) PROVE Inv'
      BY <2>3, PassInv, AdvanceInv, FinishInv DEF Move
    <2>4. CASE Request
      BY <2>4, RequestInv
    <2>5. CASE EndTick
      BY <2>5, EndTickInv
    <2>6. CASE Done \/ UNCHANGED vars
      BY <2>6, StutterInv DEF Done
    <2> QED
      BY <2>1, <2>2, <2>3, <2>4, <2>5, <2>6 DEF Next
  <1> QED
    BY <1>1, <1>2, PTL DEF Spec

\* The state of the agents and of the lock tables stays well typed through
\* failures, handoffs, replans and expired leases.
THEOREM TypeCorrect == Spec => []TypeOK
  <1>1. Inv => TypeOK
    BY DEF Inv
  <1> QED
    BY <1>1, Invariance, PTL

\* No lock is left with an agent that has failed, aborted, finished or been
\* rerouted (release in process_deconflicted_failures and at segment ends).
THEOREM NoLockLeaks == Spec => []LockHolderOnEdge
  <1>1. Inv => LockHolderOnEdge
    <2> SUFFICES ASSUME Inv, NEW e \in Edges, lock[e] # Free
                 PROVE  Flying(lock[e]) /\ Edge(lock[e]) = e /\ waiting[lock[e]] = NoEdge
      BY DEF LockHolderOnEdge
    <2>1. lock[e] \in Agents
      BY DEF Inv, TypeOK, Locks
    <2> QED
      BY <2>1 DEF Inv, Holders
  <1> QED
    BY <1>1, Invariance, PTL

\* Segment exclusion: with every edge short enough for a lease, and losers
\* that wait or give up, no two agents are inside the same segment.
THEOREM SegmentExclusion == Spec => []EdgeExclusive
  <1>1. Inv => EdgeExclusive
    BY DEF Inv, Reserved, Guarded, EdgeExclusive
  <1> QED
    BY <1>1, Invariance, PTL

\* Where losers wait or give up and every edge fits a lease, the documented
\* rule holds: whoever is inside a segment has its lock.  The replanning
\* losers are the exception that the code makes.
THEOREM EntryReserved == Spec => [](Guarded => ReservedBeforeEntry)
  <1>1. Inv => (Guarded => ReservedBeforeEntry)
    BY DEF Inv, Reserved, ReservedBeforeEntry
  <1> QED
    BY <1>1, Invariance, PTL

\* Deadlock freedom of a tick: if anybody is in flight, somebody advances.
THEOREM SomebodyAdvances == Spec => []NoStall
  <1>1. Inv => NoStall
    BY DEF Inv, Progress, NoStall
  <1> QED
    BY <1>1, Invariance, PTL

-----------------------------------------------------------------------------
(* What is reported as completed was flown *)

\* Edge e is ahead of position i on route r.
Ahead(r, i, e) == \E j \in i..Len(r) : r[j].edge = e

\* Edge e is ahead of somebody who has not handed its rest on.
Left(e) == \E b \in Agents : handoff[b] = NoAgent /\ Ahead(route[b], index[b], e)

\* No segment of the patrol is lost: it was flown, or somebody has it left.
Covered ==
    conf.onLocked # "replan" =>
        \A k \in 1..Len(conf.patrol) :
            conf.patrol[k].edge \in visited \/ Left(conf.patrol[k].edge)

\* Who has completed has nothing left; who handed its rest on has failed, and
\* had not completed.
Settled ==
    /\ \A a \in completed : index[a] > Len(route[a])
    /\ \A a \in Agents : handoff[a] # NoAgent => a \in failed \ completed

\* The slices of network mode cover the patrol: position k is in the slice of
\* the first agent whose slice does not end before k.
LEMMA SlicesCover ==
    ASSUME NEW p \in Seq(Segments), NEW k \in 1..Len(p)
    PROVE  \E a \in Agents : Ahead(split_route_for_agent(p, a), 1, p[k].edge)
  <1> DEFINE base  == Len(p) \div N
             extra == Len(p) % N
             End(a) == a * base + (IF a < extra THEN a ELSE extra)
             S == {a \in Agents : k <= End(a)}
  <1>1. N \in Nat \ {0} /\ Len(p) \in Nat /\ k \in Nat \ {0} /\ k <= Len(p)
    BY LocksAssumption
  <1>2. base \in Nat /\ extra \in 0..N - 1 /\ Len(p) = N * base + extra
    BY <1>1
  <1> HIDE DEF base, extra
  <1>3. N \in S
    BY <1>1, <1>2 DEF Agents
  <1>4. PICK a \in S : \A b \in S : a <= b
    <2>1. S \subseteq Nat
      BY DEF Agents
    <2> HIDE DEF S
    <2> QED
      BY <1>3, <2>1, LeastElement
  <1>5. a \in 1..N /\ k <= End(a)
    BY DEF Agents
  <1> DEFINE start == (a - 1) * base + (IF a - 1 < extra THEN a - 1 ELSE extra)
             len   == base + (IF a - 1 < extra THEN 1 ELSE 0)
  <1>6. (a - 1) * base \in Nat /\ (a - 1) * base + base = a * base
    BY <1>2, <1>5
  <1>7. start \in Nat /\ len \in Nat /\ start + len = End(a)
    BY <1>2, <1>5, <1>6
  <1>8. start < k
    <2>1. CASE a = 1
      <3>1. start = 0
        BY <1>2, <2>1
      <3> QED
        BY <1>1, <3>1
    <2>2. CASE a # 1
      <3>1. a - 1 \in Agents /\ a - 1 \notin S
        <4>1. a - 1 \in Agents /\ a - 1 < a
          BY <1>1, <1>5, <2>2 DEF Agents
        <4> HIDE DEF S
        <4> QED
          BY <1>4, <1>5, <4>1
      <3>2. ~(k <= End(a - 1))
        BY <3>1
      <3> QED
        BY <1>1, <1>6, <1>7, <3>2
    <2> QED
      BY <2>1, <2>2
  <1>9. start + len <= Len(p)
    <2>1. a \in 1..N /\ a * base \in Nat /\ N * base \in Nat
      BY <1>1, <1>2, <1>5
    <2>2. a * base <= N * base
      <3> HIDE DEF End
      <3> QED
        BY <1>1, <1>2, <2>1
    <2>3. (IF a < extra THEN a ELSE extra) <= extra
      BY <1>2, <2>1
    <2> QED
      BY <1>1, <1>2, <1>7, <2>1, <2>2, <2>3
  <1>10. split_route_for_agent(p, a) = SubSeq(p, start + 1, start + len)
    BY DEF split_route_for_agent, start, len, base, extra
  <1>11. start + len \in Nat /\ k <= start + len
    BY <1>5, <1>7
  <1> HIDE DEF start, len, End
  <1>12. /\ Len(SubSeq(p, start + 1, start + len)) = len
         /\ SubSeq(p, start + 1, start + len)[k - start] = p[k]
         /\ k - start \in 1..len
    <2>1. \A i \in start + 1 .. start + len : p[i] \in Segments
      BY <1>1, <1>7, <1>9
    <2>2. k - start \in 1..len /\ start + len - (start + 1) + 1 = len
      BY <1>1, <1>7, <1>8, <1>11
    <2> DEFINE m == start + 1
               n == start + len
    <2>3. m \in Int /\ n \in Int /\ n - m + 1 = len /\ m <= n
      BY <1>1, <1>7, <1>8, <1>11, <2>2
    <2> HIDE DEF m, n
    <2>4. /\ Len(SubSeq(p, m, n)) = n - m + 1
           /\ \A i \in 1 .. n - m + 1 : SubSeq(p, m, n)[i] = p[m + i - 1]
      <3>1. \A i \in m .. n : p[i] \in Segments
        BY <2>1 DEF m, n
      <3> QED
        BY <2>3, <3>1, SubSeqProperties
    <2>5. Len(SubSeq(p, m, n)) = len /\ SubSeq(p, m, n)[k - start] = p[m + (k - start) - 1]
      BY <2>2, <2>3, <2>4
    <2>6. m + (k - start) - 1 = k
      BY <1>1, <1>7 DEF m
    <2> QED
      BY <2>2, <2>5, <2>6 DEF m, n
  <1>13. a \in Agents
    BY <1>5 DEF Agents
  <1> QED
    BY <1>10, <1>12, <1>13 DEF Ahead

LEMMA InitCovered == Init => Covered /\ Settled
  <1> SUFFICES ASSUME Init PROVE Covered /\ Settled
    OBVIOUS
  <1>1. conf.patrol \in Seq(Segments)
    BY PatrolAssumption DEF Init, Configuration
  <1>2. ASSUME NEW k \in 1..Len(conf.patrol) PROVE Left(conf.patrol[k].edge)
    <2> DEFINE e == conf.patrol[k].edge
    <2>1. PICK a \in Agents : Ahead(route[a], 1, e)
      <3>1. CASE conf.mode = "network"
        <4>1. PICK a \in Agents : Ahead(split_route_for_agent(conf.patrol, a), 1, e)
          BY <1>1, SlicesCover
        <4>2. route[a] = split_route_for_agent(conf.patrol, a)
          BY <3>1 DEF Init
        <4> QED
          BY <4>1, <4>2
      <3>2. CASE conf.mode # "network"
        <4>1. 1 \in Agents
          BY LocksAssumption DEF Agents
        <4>2. route[1] = conf.patrol
          BY <3>2, <4>1 DEF Init
        <4> QED
          BY <4>1, <4>2 DEF Ahead
      <3> QED
        BY <3>1, <3>2
    <2>2. handoff[a] = NoAgent /\ index[a] = 1
      BY DEF Init
    <2> QED
      BY <2>1, <2>2 DEF Left
  <1>3. Settled
    <2>1. \A a \in Agents : handoff[a] = NoAgent /\ index[a] = 1
      BY DEF Init
    <2>2. ASSUME NEW a \in completed PROVE index[a] > Len(route[a])
      <3>1. a \in Agents /\ route[a] = <<>>
        BY DEF Init
      <3> QED
        BY <2>1, <3>1, EmptySeq
    <2> QED
      BY <2>1, <2>2 DEF Settled
  <1> QED
    BY <1>2, <1>3 DEF Covered

\* A route with a bridge and a rest behind it.
LEMMA JoinedRoute ==
    ASSUME NEW q \in Seq(Segments), NEW c \in Seq(Segments), NEW r \in Seq(Segments)
    PROVE  /\ Len((q \o c) \o r) = Len(q) + Len(c) + Len(r)
           /\ \A i \in 1..Len(q) : ((q \o c) \o r)[i] = q[i]
           /\ \A i \in 1..Len(r) : ((q \o c) \o r)[Len(q) + Len(c) + i] = r[i]
  <1> DEFINE h == q \o c
  <1>1. Len(q) \in Nat /\ Len(c) \in Nat /\ Len(r) \in Nat
    OBVIOUS
  <1>2. /\ h \in Seq(Segments) /\ Len(h) = Len(q) + Len(c)
        /\ \A i \in 1..Len(q) + Len(c) : h[i] = IF i <= Len(q) THEN q[i] ELSE c[i - Len(q)]
    BY ConcatProperties
  <1> HIDE DEF h
  <1>3. /\ Len(h \o r) = Len(h) + Len(r)
        /\ \A i \in 1..Len(h) + Len(r) : (h \o r)[i] = IF i <= Len(h) THEN h[i] ELSE r[i - Len(h)]
    BY <1>2, ConcatProperties
  <1>4. ASSUME NEW i \in 1..Len(q) PROVE (h \o r)[i] = q[i]
    <2>1. i \in 1..Len(q) + Len(c) /\ i <= Len(q) /\ i <= Len(h) /\ i \in 1..Len(h) + Len(r)
      BY <1>1, <1>2
    <2> QED
      BY <1>2, <1>3, <2>1
  <1>5. ASSUME NEW i \in 1..Len(r) PROVE (h \o r)[Len(h) + i] = r[i]
    <2>1. /\ Len(h) + i \in 1..Len(h) + Len(r) /\ ~(Len(h) + i <= Len(h))
          /\ (Len(h) + i) - Len(h) = i
      BY <1>1, <1>2
    <2> QED
      BY <1>3, <2>1
  <1> QED
    BY <1>2, <1>3, <1>4, <1>5 DEF h

\* What was ahead of either part of such a route is ahead of the whole of it.
LEMMA JoinedAhead ==
    ASSUME NEW q \in Seq(Segments), NEW c \in Seq(Segments), NEW r \in Seq(Segments),
           NEW x \in Nat \ {0}, NEW e
    PROVE  /\ Ahead(q, x, e) => Ahead((q \o c) \o r, x, e)
           /\ x <= Len(q) + 1 /\ Ahead(r, 1, e) => Ahead((q \o c) \o r, x, e)
  <1> DEFINE new == (q \o c) \o r
  <1>1. Len(q) \in Nat /\ Len(c) \in Nat /\ Len(r) \in Nat
    OBVIOUS
  <1>2. /\ Len(new) = Len(q) + Len(c) + Len(r)
        /\ \A i \in 1..Len(q) : new[i] = q[i]
        /\ \A i \in 1..Len(r) : new[Len(q) + Len(c) + i] = r[i]
    BY JoinedRoute
  <1> HIDE DEF new
  <1>3. ASSUME Ahead(q, x, e) PROVE Ahead(new, x, e)
    <2>1. PICK i \in x..Len(q) : q[i].edge = e
      BY <1>3 DEF Ahead
    <2>2. i \in 1..Len(q) /\ i \in x..Len(q) + Len(c) + Len(r)
      BY <1>1, <2>1
    <2> QED
      BY <1>2, <2>1, <2>2 DEF Ahead
  <1>4. ASSUME x <= Len(q) + 1, Ahead(r, 1, e) PROVE Ahead(new, x, e)
    <2>1. PICK i \in 1..Len(r) : r[i].edge = e
      BY <1>4 DEF Ahead
    <2>2. Len(q) + Len(c) + i \in x..Len(q) + Len(c) + Len(r)
      BY <1>1, <1>4, <2>1
    <2> QED
      BY <1>2, <2>1, <2>2 DEF Ahead
  <1> QED
    BY <1>3, <1>4 DEF new

\* What is ahead of an agent is in the rest of its route.
LEMMA RestAhead ==
    ASSUME TypeOK, NEW a \in Agents, OnRoute(a), NEW e, Ahead(route[a], index[a], e)
    PROVE  Remaining(a) \in Seq(Segments) /\ Ahead(Remaining(a), 1, e)
  <1> DEFINE p == route[a]
             m == index[a]
             n == Len(route[a])
  <1>1. p \in Seq(Segments) /\ m \in 1..n /\ n \in Nat
    BY EdgeType DEF TypeOK
  <1>2. \A i \in m..n : p[i] \in Segments
    BY <1>1
  <1> HIDE DEF p, m, n
  <1>3. /\ SubSeq(p, m, n) \in Seq(Segments) /\ Len(SubSeq(p, m, n)) = n - m + 1
        /\ \A i \in 1..n - m + 1 : SubSeq(p, m, n)[i] = p[m + i - 1]
    <2>1. m \in Int /\ n \in Int /\ m <= n
      BY <1>1
    <2> QED
      BY <1>2, <2>1, SubSeqProperties
  <1>4. PICK j \in m..n : p[j].edge = e
    BY DEF Ahead, p, m, n
  <1>5. j - m + 1 \in 1..n - m + 1 /\ m + (j - m + 1) - 1 = j
    BY <1>1
  <1> QED
    BY <1>3, <1>4, <1>5 DEF Ahead, Remaining, p, m, n

\* A handoff loses nothing: what was ahead of the target still is, and what
\* was ahead of the failed agent is ahead of the target now.
LEMMA TakeOverCovers ==
    ASSUME TypeOK, NEW a \in Agents, NEW b \in Agents, a # b, OnRoute(a),
           b \in completed => index[b] > Len(route[b]),
           b \notin completed => OnRoute(b),
           NEW bridge \in Seq(Segments), TakeOver(a, b, bridge),
           NEW e, Ahead(route[a], index[a], e) \/ Ahead(route[b], index[b], e)
    PROVE  Ahead(route'[b], index'[b], e)
  <1> DEFINE rest == Remaining(a)
             new  == (route[b] \o bridge) \o rest
  <1>1. /\ route[a] \in Seq(Segments) /\ route[b] \in Seq(Segments)
        /\ index[a] \in 1..Len(route[a]) /\ index[b] \in Nat \ {0}
        /\ Len(route[b]) \in Nat
    BY EdgeType DEF TypeOK
  <1>2. rest \in Seq(Segments)
    <2>1. \A i \in index[a]..Len(route[a]) : route[a][i] \in Segments
      BY <1>1
    <2> QED
      BY <1>1, <2>1, SubSeqProperties DEF Remaining
  <1>3. route'[b] = new
    BY DEF TakeOver, TypeOK
  <1>4. /\ index'[b] = IF b \in completed THEN Len(route[b]) + 1 ELSE index[b]
        /\ index'[b] \in Nat \ {0} /\ index'[b] <= Len(route[b]) + 1
    BY <1>1 DEF TakeOver, TypeOK, OnRoute
  <1>5. CASE Ahead(route[a], index[a], e)
    <2>1. Ahead(rest, 1, e)
      BY <1>5, RestAhead
    <2> HIDE DEF rest
    <2> QED
      BY <1>1, <1>2, <1>3, <1>4, <2>1, JoinedAhead
  <1>6. CASE Ahead(route[b], index[b], e)
    <2>1. b \notin completed
      BY <1>1, <1>6 DEF Ahead
    <2>2. index'[b] = index[b]
      BY <1>4, <2>1
    <2> HIDE DEF rest
    <2> QED
      BY <1>1, <1>2, <1>3, <1>6, <2>2, JoinedAhead
  <1> QED
    BY <1>5, <1>6

LEMMA FailCovered ==
    ASSUME Inv, Covered, Settled, NEW a \in Agents, Fail(a)
    PROVE  Covered' /\ Settled'
  <1> USE DEF Inv
  <1>1. failed' = failed \cup {a} /\ UNCHANGED <<conf, visited>>
    BY DEF Fail
  <1>2. CASE Abandon(a)
    <2>1. UNCHANGED <<route, index, completed, handoff>>
      BY <1>2 DEF Abandon
    <2> QED
      BY <1>1, <2>1 DEF Covered, Settled, Left
  <1>3. CASE HandOver(a)
    <2>1. OnRoute(a) /\ lock[Edge(a)] = a /\ Reserve(a) # {}
      BY <1>3 DEF HandOver, Recoverable, Returns
    <2>2. PICK t \in Agents :
              /\ t = HandoffTarget(a) /\ t \notin failed /\ t \notin aborted /\ t # a
              /\ handoff[t] = NoAgent
      <3> DEFINE G == IF Reserve(a) \cap completed # {} THEN Reserve(a) \cap completed
                      ELSE Reserve(a)
      <3>1. G # {} /\ G \subseteq Reserve(a) /\ Reserve(a) \subseteq Agents
        BY <2>1 DEF Reserve
      <3>2. First(G) \in G
        BY <3>1, FirstMember
      <3> QED
        BY <3>1, <3>2 DEF HandoffTarget, Reserve
    <2>3. PICK bridge \in Bridges(a, t) : TakeOver(a, t, bridge)
      BY <1>3, <2>2 DEF HandOver
    <2>4. bridge \in Seq(Segments)
      <3>1. bridge = <<>> \/ bridge \in Detours
        BY DEF Bridges
      <3>2. <<>> \in Seq(Segments)
        BY EmptySeq
      <3> QED
        BY <3>1, <3>2, PatrolAssumption
    <2>5. /\ t \in completed => index[t] > Len(route[t])
          /\ t \notin completed => OnRoute(t)
      BY <2>2 DEF Settled, Travel, Active
    <2>6. \A d \in Agents : d # t => route'[d] = route[d] /\ index'[d] = index[d]
      BY <2>1, <2>2, <2>3, <2>4, TakeOverFacts
    <2>7. /\ completed' = completed \ {t} /\ handoff' = [handoff EXCEPT ![a] = t]
          /\ \A d \in Agents : d # a => handoff'[d] = handoff[d]
      BY <2>3 DEF TakeOver, TypeOK
    <2>8. ASSUME NEW e, Left(e) PROVE Left(e)'
      <3>1. PICK b \in Agents : handoff[b] = NoAgent /\ Ahead(route[b], index[b], e)
        BY <2>8 DEF Left
      <3>2. CASE b = a \/ b = t
        <4>1. Ahead(route'[t], index'[t], e)
          BY <2>1, <2>2, <2>3, <2>4, <2>5, <3>1, <3>2, TakeOverCovers
        <4> QED
          BY <2>2, <2>7, <4>1 DEF Left
      <3>3. CASE b # a /\ b # t
        BY <2>6, <2>7, <3>1, <3>3 DEF Left
      <3> QED
        BY <3>2, <3>3
    <2>9. Covered'
      BY <1>1, <2>8 DEF Covered
    <2>10. a \notin completed
      <3>1. Edge(a) \in Edges
        BY <2>1, EdgeType
      <3> QED
        BY <2>1, <3>1 DEF Holders, Flying, Active
    <2>11. Settled'
      <3>1. \A b \in completed' : index'[b] > Len(route'[b])
        BY <2>6, <2>7 DEF Settled, TypeOK
      <3>2. \A b \in Agents : handoff'[b] # NoAgent => b \in failed' \ completed'
        BY <1>1, <2>7, <2>10 DEF Settled
      <3> QED
        BY <3>1, <3>2 DEF Settled
    <2> QED
      BY <2>9, <2>11
  <1> QED
    BY <1>2, <1>3 DEF Fail

LEMMA MoveCovered ==
    ASSUME Inv, Covered, Settled, NEW a \in Agents, Move(a)
    PROVE  Covered' /\ Settled'
  <1> USE DEF Inv
  <1>1. UNCHANGED <<conf, route, handoff, failed>>
    BY DEF Move
  <1>2. CASE Pass(a) \/ Advance(a)
    BY <1>1, <1>2 DEF Pass, Advance, Covered, Settled, Left
  <1>3. CASE Finish(a)
    <2>1. /\ Flying(a) /\ index' = [index EXCEPT ![a] = @ + 1]
          /\ visited' = visited \cup {Edge(a)}
      BY <1>3 DEF Finish, CanMove
    <2>2. /\ index[a] \in Nat \ {0} /\ index[a] <= Len(route[a]) /\ Len(route[a]) \in Nat
          /\ index'[a] = index[a] + 1
          /\ \A b \in Agents : b # a => index'[b] = index[b]
      BY <2>1 DEF Flying, OnRoute, TypeOK
    <2>3. ASSUME NEW e, e \notin visited', Left(e) PROVE Left(e)'
      <3>1. PICK b \in Agents : handoff[b] = NoAgent /\ Ahead(route[b], index[b], e)
        BY <2>3 DEF Left
      <3>2. Ahead(route[b], index'[b], e)
        <4>1. CASE b = a
          <5>1. PICK j \in index[a]..Len(route[a]) : route[a][j].edge = e
            BY <3>1, <4>1 DEF Ahead
          <5>2. j # index[a]
            BY <2>1, <2>3, <5>1 DEF Edge, Segment
          <5>3. j \in index'[a]..Len(route[a])
            BY <2>2, <5>1, <5>2
          <5> QED
            BY <4>1, <5>1, <5>3 DEF Ahead
        <4>2. CASE b # a
          BY <2>2, <3>1, <4>2
        <4> QED
          BY <4>1, <4>2
      <3> QED
        BY <1>1, <3>1, <3>2 DEF Left
    <2>4. Covered'
      <3> SUFFICES ASSUME conf.onLocked # "replan", NEW k \in 1..Len(conf.patrol),
                          NEW e, e = conf.patrol[k].edge
                   PROVE  e \in visited' \/ Left(e)'
        BY <1>1 DEF Covered, Left
      <3>1. e \in visited \/ Left(e)
        BY DEF Covered
      <3> QED
        BY <2>1, <2>3, <3>1
    <2>5. completed' = completed \/ (completed' = completed \cup {a} /\ index[a] = Len(route[a]))
      BY <1>3 DEF Finish
    <2>6. handoff[a] = NoAgent
      BY <2>1 DEF Settled, Flying, Active
    <2>7. Settled'
      <3>1. ASSUME NEW b \in completed' PROVE index'[b] > Len(route'[b])
        <4>1. CASE b = a
          <5>1. a \in completed'
            BY <4>1
          <5>2. a \notin completed
            BY <2>1 DEF Flying, Active
          <5> QED
            BY <1>1, <2>2, <2>5, <4>1, <5>1, <5>2
        <4>2. CASE b # a
          BY <1>1, <2>2, <2>5, <4>2 DEF Settled, TypeOK
        <4> QED
          BY <4>1, <4>2
      <3>2. \A b \in Agents : handoff'[b] # NoAgent => b \in failed' \ completed'
        BY <1>1, <2>5, <2>6 DEF Settled
      <3> QED
        BY <3>1, <3>2 DEF Settled
    <2> QED
      BY <2>4, <2>7
  <1> QED
    BY <1>2, <1>3 DEF Move

\* With the count of the report nobody is left over: every agent has completed
\* or has handed its rest on, and nobody has done both.
LEMMA CountsEveryone ==
    ASSUME TypeOK, Settled, EffectivelyCompleted
    PROVE  \A a \in Agents : a \in completed \/ handoff[a] # NoAgent
  <1> DEFINE H == {a \in failed : handoff[a] # NoAgent}
  <1>1. IsFiniteSet(Agents) /\ Cardinality(Agents) = N
    BY FS_Interval, LocksAssumption DEF Agents
  <1>2. completed \subseteq Agents /\ H \subseteq Agents /\ completed \cup H \subseteq Agents
    BY DEF TypeOK
  <1>3. completed \cap H = {}
    BY <1>2 DEF Settled
  <1>4. Cardinality(completed) + Cardinality(H) = N
    BY DEF EffectivelyCompleted
  <1>5. \A a \in H : handoff[a] # NoAgent
    OBVIOUS
  <1> HIDE DEF H
  <1>6. IsFiniteSet(completed) /\ IsFiniteSet(H)
    BY <1>1, <1>2, FS_Subset
  <1>7. Cardinality(completed) \in Nat /\ Cardinality(H) \in Nat
    BY <1>6, FS_CardinalityType
  <1>8. Cardinality(completed \cup H) = Cardinality(completed) + Cardinality(H)
    <2>1. Cardinality(completed \cup H) =
              Cardinality(completed) + Cardinality(H) - Cardinality(completed \cap H)
      BY <1>6, FS_Union
    <2> QED
      BY <1>3, <1>7, <2>1, FS_EmptySet
  <1>9. completed \cup H = Agents
    BY <1>1, <1>2, <1>4, <1>8, FS_Subset
  <1> QED
    BY <1>5, <1>9

\* A patrol that is reported as completed was flown to the end of each of its
\* segments, however many agents failed and handed the rest on, for every
\* split of the patrol and every right of way.
THEOREM ReportedIsFlown == Spec => []CompletedMeansFlown
  <1>1. Init => Covered /\ Settled
    BY InitCovered
  <1>2. Inv /\ Covered /\ Settled /\ [Next]_vars => Covered' /\ Settled'
    <2> SUFFICES ASSUME Inv, Covered, Settled, [Next]_vars PROVE Covered' /\ Settled'
      OBVIOUS
    <2>1. ASSUME NEW a \in Agents, Fail(a) PROVE Covered' /\ Settled'
      BY <2>1, FailCovered
    <2>2. ASSUME NEW a \in Agents, Move(a) PROVE Covered' /\ Settled'
      BY <2>2, MoveCovered
    <2>3. CASE UNCHANGED <<conf, route, index, completed, failed, handoff, visited>>
      BY <2>3 DEF Covered, Settled, Left
    <2>4. ASSUME NEW a \in Agents, React(a) PROVE Covered' /\ Settled'
      <3>1. a \in denied /\ UNCHANGED <<conf, completed, failed, handoff, visited>>
        BY <2>4 DEF React
      <3>2. CASE Wait(a) \/ Abort(a)
        BY <2>3, <3>1, <3>2 DEF Wait, Abort
      <3>3. CASE Replan(a)
        <4>1. Covered'
          BY <3>1, <3>3 DEF Replan, Covered
        <4>2. a \notin completed
          BY <3>1 DEF Inv, Losers, Flying, Active
        <4>3. \A b \in Agents : b # a => route'[b] = route[b] /\ index'[b] = index[b]
          BY <3>3 DEF Replan, Inv, TypeOK
        <4>4. Settled'
          BY <3>1, <4>2, <4>3 DEF Settled, Inv, TypeOK
        <4> QED
          BY <4>1, <4>4
      <3> QED
        BY <2>4, <3>2, <3>3 DEF React
    <2>5. CASE Request \/ EndTick \/ Done \/ UNCHANGED vars
      BY <2>3, <2>5 DEF Request, EndTick, Done, vars, agentVars
    <2> QED
      BY <2>1, <2>2, <2>4, <2>5 DEF Next
  <1>3. Spec => [](Covered /\ Settled)
    BY <1>1, <1>2, Invariance, PTL DEF Spec
  <1>4. Inv /\ Covered /\ Settled => CompletedMeansFlown
    <2> SUFFICES ASSUME Inv, Covered, Settled, conf.onLocked # "replan",
                        EffectivelyCompleted, NEW k \in 1..Len(conf.patrol),
                        Left(conf.patrol[k].edge)
                 PROVE  FALSE
      BY DEF CompletedMeansFlown, Covered
    <2>1. PICK b \in Agents :
              handoff[b] = NoAgent /\ Ahead(route[b], index[b], conf.patrol[k].edge)
      BY DEF Left
    <2>2. b \in completed
      BY <2>1, CountsEveryone DEF Inv
    <2>3. index[b] > Len(route[b]) /\ index[b] \in Nat /\ Len(route[b]) \in Nat
      BY <2>2 DEF Settled, Inv, TypeOK
    <2> QED
      BY <2>1, <2>3 DEF Ahead
  <1> QED
    BY <1>3, <1>4, Invariance, PTL

=============================================================================
