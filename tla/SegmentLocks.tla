---------------------------- MODULE SegmentLocks ----------------------------
(***************************************************************************)
(* The two lock tables for road segments of the urban patrol.              *)
(*                                                                         *)
(*   "shared"   UrbanSegmentLockRegistry, a table in the runner's memory;  *)
(*   "network"  SegmentCoordinator behind NetworkSegmentRuntime: the same  *)
(*              table, reached by messages over a lossless bus without     *)
(*              latency, where a lock is a lease that is never renewed.    *)
(*                                                                         *)
(* A table is a function from edges to the holder, 0 when free.  The tick  *)
(* of acquisition is kept as an age.  Agents are numbered in the order of  *)
(* their ids, which is also their request_order.  The operators take the   *)
(* settings c: c.mode, c.policy (right of way), c.lease (lease length in   *)
(* ticks, default_lease_ticks of the coordinator).                         *)
(***************************************************************************)
EXTENDS Naturals, FiniteSets

CONSTANTS
    N,           \* number of agents
    Edges,       \* edges of the road graph
    Priority     \* agent_priorities

Agents == 1..N
Free == 0

Modes == {"shared", "network"}
RightOfWay == {"first_come", "priority", "round_robin"}

ASSUME LocksAssumption ==
    /\ N \in Nat \ {0}
    /\ Free \notin Agents
    /\ Priority \in [Agents -> Nat]

Locks == [Edges -> Agents \cup {Free}]

is_locked_by_other(lock, e, a) == lock[e] \notin {Free, a}

\* (mutant) A lease judged one tick too short.
LapsedEarly(c, lock, age, e) ==
    c.mode = "network" /\ lock[e] # Free /\ age[e] + 1 >= c.lease

\* A lease granted at tick t is valid before tick t + default_lease_ticks.
Lapsed(c, lock, age, e) ==
    c.mode = "network" /\ lock[e] # Free /\ age[e] >= c.lease

expire_leases(c, lock, age) ==
    [e \in Edges |-> IF Lapsed(c, lock, age, e) THEN Free ELSE lock[e]]

\* The coordinator expires leases before it reads a release, so a lapsed
\* lease is not "released" by its holder.
release(c, lock, age, e, a) ==
    IF lock[e] # a THEN lock
    ELSE [expire_leases(c, lock, age) EXCEPT ![e] = Free]

-----------------------------------------------------------------------------
First(G) == CHOOSE a \in G : \A b \in G : a <= b

\* Position of an agent in a group of requests sorted by request_order.
Rank(G, a) == Cardinality({b \in G : b < a})

\* The contenders that the right-of-way policy prefers (one, if G # {}).
Preferred(c, cursor, e, G) ==
    {a \in G :
        \/ c.policy = "first_come" /\ \A b \in G : a <= b
        \/ c.policy = "priority" /\ \A b \in G :
              \/ Priority[b] < Priority[a]
              \/ Priority[b] = Priority[a] /\ a <= b
        \/ c.policy = "round_robin" /\ Rank(G, a) = cursor[e] % Cardinality(G)}

\* The code falls back to the first request; a preferred one always exists.
Winner(c, cursor, e, G) ==
    CHOOSE a \in G :
        a \in Preferred(c, cursor, e, G) \/ Preferred(c, cursor, e, G) = {}

\* The table after a batch of requests, G[e] being those for edge e.  The
\* network side orders the requests by the table before leases expire: an
\* edge whose lease lapses in this very batch goes to the first request.
request_batch(c, lock, age, cursor, G) ==
    LET valid == expire_leases(c, lock, age)
    IN  [e \in Edges |->
            IF valid[e] # Free \/ G[e] = {} THEN valid[e]
            ELSE IF lock[e] # Free THEN First(G[e])
            ELSE Winner(c, cursor, e, G[e])]

\* round_robin_next.  The network side leaves single requests alone.
NextCursor(c, lock, cursor, G) ==
    [e \in Edges |->
        IF /\ c.policy = "round_robin" /\ lock[e] = Free /\ G[e] # {}
           /\ c.mode = "shared" \/ Cardinality(G[e]) > 1
        THEN (Rank(G[e], Winner(c, cursor, e, G[e])) + 1) % Cardinality(G[e])
        ELSE cursor[e]]
=============================================================================
