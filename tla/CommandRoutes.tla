--------------------------- MODULE CommandRoutes ---------------------------
(***************************************************************************)
(* Routing of commands over a logical topology (swarm-command-plane/src/   *)
(* topology.rs).  Node ids are numbers in their string order: Gcs, then    *)
(* the agents, whose node has the number of the agent, then nodes that     *)
(* belong to no agent.  A topology is a record                             *)
(*   kind   SwarmTopologyKind                                              *)
(*   nodes  node ids, up the available ones among them                     *)
(*   links  the available links, as pairs; lossy those with a drop rate    *)
(*   deps   mothership_dependencies, in the order of the Vec               *)
(* A link that is not available is as good as none; delays and the wording *)
(* of reasons are left out.  None of an Option<Vec> is the empty path.     *)
(***************************************************************************)
EXTENDS Integers, Sequences, FiniteSets, SequencesExt

Gcs == 0
NoNode == -1
NoPath == <<>>

-----------------------------------------------------------------------------
\* The shortest path.  A loop is a function from the number of rounds to the
\* state after so many; a round after the end of the loop changes nothing.

\* sort of the neighbours of a node.
Ascending(S) ==
    CHOOSE q \in [1 .. Cardinality(S) -> S] : \A i, j \in DOMAIN q : i < j => q[i] < q[j]

\* The loop of reconstruct_path, with the path already the right way round.
reconstruct_path(from, to, previous) ==
    LET loop[n \in Nat] ==
            IF n = 0 THEN <<to>>
            ELSE IF Head(loop[n - 1]) = from THEN loop[n - 1]
            ELSE <<previous[Head(loop[n - 1])]>> \o loop[n - 1]
    IN loop[Cardinality(DOMAIN previous)]

Found(s, to) == s.queue # <<>> /\ Head(s.queue) = to

\* One round of the loop of bfs_path: previous maps what has been seen to its
\* parent.
Round(t, to, s) ==
    LET node == Head(s.queue)
        new == {n \in t.up \ DOMAIN s.previous : <<node, n>> \in t.links}
    IN IF s.queue = <<>> \/ Found(s, to) THEN s
       ELSE [queue |-> Tail(s.queue) \o Ascending(new),
             previous |-> [n \in DOMAIN s.previous \cup new |-> IF n \in new THEN node ELSE s.previous[n]]]

\* Every round takes another node from the queue.
Search(t, from, to) ==
    LET loop[n \in Nat] ==
            IF n = 0 THEN [queue |-> <<from>>, previous |-> [m \in {from} |-> from]]
            ELSE Round(t, to, loop[n - 1])
    IN loop[Cardinality(t.up)]

\* Mutant: links of nodes that are not available carry commands.
bfs_path_any_node(t, from, to) ==
    LET end == Search([t EXCEPT !.up = t.nodes], from, to)
    IN IF {from, to} \subseteq t.up /\ Found(end, to) THEN reconstruct_path(from, to, end.previous) ELSE NoPath

bfs_path(t, from, to) ==
    LET end == Search(t, from, to)
    IN IF {from, to} \subseteq t.up /\ Found(end, to) THEN reconstruct_path(from, to, end.previous) ELSE NoPath

-----------------------------------------------------------------------------
\* Routes.

\* The node of the first declared parent of agent a, if there is one.
mothership_parent_node_id(t, a) ==
    LET i == SelectInSeq(t.deps, LAMBDA d : d.child = a)
    IN IF i = 0 \/ t.deps[i].parent \notin t.nodes THEN NoNode ELSE t.deps[i].parent

\* In a mothership topology a child is reached through its parent.
route_path_for_kind(t, from, a) ==
    LET parent == mothership_parent_node_id(t, a)
        first == bfs_path(t, from, parent)
        second == bfs_path(t, parent, a)
    IN IF t.kind = "mothership" /\ parent \notin {NoNode, a}
       THEN IF NoPath \in {first, second} THEN NoPath ELSE first \o Tail(second)
       ELSE bfs_path(t, from, a)

Hops(path) == {<<path[i], path[i + 1]>> : i \in 1 .. Len(path) - 1}

route_between(t, from, a) ==
    LET path == IF a \in t.nodes THEN route_path_for_kind(t, from, a) ELSE NoPath
    IN [from |-> from, to |-> a, via |-> path, allowed |-> path # NoPath,
        degraded |-> path = NoPath \/ Hops(path) \cap t.lossy # {}]

\* A route from the GCS to every agent of the plan, and in a peer-to-peer
\* topology from every agent's node to every other.
route_command_plan(t, planned, agents) ==
    {route_between(t, Gcs, a) : a \in planned}
    \cup {route_between(t, p[1], p[2]) :
            p \in {q \in (t.nodes \cap agents) \X (t.nodes \cap agents) :
                      t.kind = "p2p_logical" /\ q[1] # q[2]}}

-----------------------------------------------------------------------------
\* Cycles among the dependencies.

\* The dependencies as pairs of parent and child.
Graph(deps) == {<<deps[i].parent, deps[i].child>> : i \in DOMAIN deps}

\* The recursion of dfs_cycle, step by step.  path holds the agents that are
\* visiting, in the order of their calls; todo the pairs that no call has
\* looked at yet.  A step goes on with the next child of the innermost call,
\* or ends that call.
Visit(s) ==
    LET agent == Last(s.path)
        children == {e[2] : e \in {d \in s.todo : d[1] = agent}}
        child == Min(children)
    IN IF s.cycle \/ s.path = <<>> THEN s
       ELSE IF children = {} THEN [s EXCEPT !.path = Front(s.path), !.visited = @ \cup {agent}]
       ELSE [s EXCEPT !.todo = @ \ {<<agent, child>>},
                      !.cycle = child \in ToSet(s.path) \ s.visited,
                      !.path = IF child \in s.visited \cup ToSet(s.path) THEN @ ELSE Append(@, child)]

\* The calls for the starts, which are the children of NoNode.  Every step
\* but the last looks at another pair or is done with another agent.
dfs_cycle(graph, starts) ==
    LET pairs == graph \cup {<<NoNode, a>> : a \in starts}
        loop[n \in Nat] ==
            IF n = 0 THEN [path |-> <<NoNode>>, todo |-> pairs, visited |-> {}, cycle |-> FALSE]
            ELSE Visit(loop[n - 1])
    IN loop[Cardinality(pairs) + Cardinality({NoNode} \cup {e[2] : e \in pairs})].cycle

\* Mutant: only the agents below the first one are searched.
has_mothership_cycle_first(deps) ==
    deps # <<>> /\ dfs_cycle(Graph(deps), {Min({e[1] : e \in Graph(deps)})})

has_mothership_cycle(deps) == dfs_cycle(Graph(deps), {e[1] : e \in Graph(deps)})
=============================================================================
