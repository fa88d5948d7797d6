---------------------------- MODULE UrbanPatrol ----------------------------
(***************************************************************************)
(* The deconflicted urban patrol (run_urban_deconflicted_patrol): agents   *)
(* follow routes of road segments, reserve every segment before they enter *)
(* it, and take over the rest of the route of an agent that fails.         *)
(*                                                                         *)
(* A tick has three parts, in this order: failures and handoffs, one batch *)
(* of lock requests with the reaction of every loser, and the movement of  *)
(* every agent in the order of the ids.                                    *)
(*                                                                         *)
(* Distances are counted in moves: Moves[a][e] ticks take agent a along    *)
(* edge e.  The planner is any choice among Detours.  Temporary obstacles  *)
(* only remove routes and count violations, so a replan or a bridge may    *)
(* also fail at any time.  The cut-off max_ticks is left out.              *)
(***************************************************************************)
EXTENDS SegmentLocks, Sequences

CONSTANTS
    Nodes,         \* nodes of the road graph
    Detours,       \* non-empty paths that the planner may return
    Configs,       \* scenario settings, see Configuration
    Moves,         \* ticks that an agent needs for an edge
    MaxFailures    \* bound on the failures of a run

VARIABLES
    conf,        \* scenario settings of this run
    phase,       \* "failures", "move" or "done"
    denied,      \* losers of the batch that have not reacted yet
    todo,        \* agents that have not moved yet in this tick
    route,       \* agent -> its route
    index,       \* agent -> segment_index, from 1
    dist,        \* agent -> moves made on the segment (distance_on_segment)
    completed, aborted, failed,    \* sets of agents
    waiting,     \* agent -> waiting_for
    handoff,     \* agent -> handoff_target
    lock,        \* edge -> holder
    age,         \* edge -> ticks since the lock was acquired
    cursor,      \* edge -> round_robin_next
    moved,       \* history: agents that advanced in this tick
    visited      \* history: edges flown to their end

agentVars == <<route, index, dist, completed, aborted, failed, waiting, handoff>>
lockVars == <<lock, age, cursor>>
vars == <<conf, phase, denied, todo, agentVars, lockVars, moved, visited>>

NoEdge == "no edge"
NoAgent == 0

Segments == [edge : Edges, from : Nodes, to : Nodes]
OnLocked == {"wait", "replan", "abort"}
Configuration ==
    [mode : Modes, policy : RightOfWay, lease : Nat \ {0},
     onLocked : OnLocked, patrol : Seq(Segments)]

ASSUME PatrolAssumption ==
    /\ NoEdge \notin Edges
    /\ Configs \subseteq Configuration
    /\ \A c \in Configs : c.patrol # <<>>
    /\ Detours \subseteq Seq(Segments) \ {<<>>}
    /\ Moves \in [Agents -> [Edges -> Nat \ {0}]]
    /\ MaxFailures \in Nat

-----------------------------------------------------------------------------
Active(a) == a \notin completed \cup aborted \cup failed

OnRoute(a) == index[a] <= Len(route[a])
Segment(a) == route[a][index[a]]
Edge(a) == Segment(a).edge

\* An active agent with a segment to fly.
Flying(a) == Active(a) /\ OnRoute(a)

Joins(path, from, to) == path[1].from = from /\ path[Len(path)].to = to

\* Network mode cuts the patrol into consecutive slices, the first ones
\* longer by one when it does not divide; shared mode gives it to everyone.
split_route_for_agent(patrol, a) ==
    LET base  == Len(patrol) \div N
        extra == Len(patrol) % N
        start == (a - 1) * base + (IF a - 1 < extra THEN a - 1 ELSE extra)
        len   == base + (IF a - 1 < extra THEN 1 ELSE 0)
    IN  SubSeq(patrol, start + 1, start + len)

Init ==
    /\ conf \in Configs
    /\ phase = "failures"
    /\ denied = {}
    /\ todo = {}
    /\ route = [a \in Agents |->
                    IF conf.mode = "network" THEN split_route_for_agent(conf.patrol, a)
                    ELSE conf.patrol]
    /\ index = [a \in Agents |-> 1]
    /\ dist = [a \in Agents |-> 0]
    /\ completed = {a \in Agents : route[a] = <<>>}
    /\ aborted = {}
    /\ failed = {}
    /\ waiting = [a \in Agents |-> NoEdge]
    /\ handoff = [a \in Agents |-> NoAgent]
    /\ lock = [e \in Edges |-> Free]
    /\ age = [e \in Edges |-> 0]
    /\ cursor = [e \in Edges |-> 0]
    /\ moved = {}
    /\ visited = {}

-----------------------------------------------------------------------------
(* Failures *)

\* (mutant) The segment the agent failed on is left out.
RemainingAfter(a) == SubSeq(route[a], index[a] + 1, Len(route[a]))

Remaining(a) == SubSeq(route[a], index[a], Len(route[a]))

\* The lock that the failed agent gives back; a lapsed lease is not one.
Returns(a) ==
    OnRoute(a) /\ lock[Edge(a)] = a /\ ~Lapsed(conf, lock, age, Edge(a))

\* select_failure_handoff_target: idle agents first, then by id.
Reserve(a) == {b \in Agents \ (failed \cup aborted \cup {a}) : handoff[b] = NoAgent}
HandoffTarget(a) ==
    First(IF Reserve(a) \cap completed # {} THEN Reserve(a) \cap completed ELSE Reserve(a))

\* connected_replacement_route: what joins the target's route to the rest of
\* the failed one's.  A target that never had a segment has no anchor.
Anchored(b) == route[b] # <<>>
RouteEnd(b) == route[b][Len(route[b])].to
Connected(a, b) == Anchored(b) /\ RouteEnd(b) = Segment(a).from
Bridges(a, b) ==
    IF Connected(a, b) THEN {<<>>}
    ELSE {path \in Detours : Anchored(b) /\ Joins(path, RouteEnd(b), Segment(a).from)}

Recoverable(a) == Returns(a) /\ Reserve(a) # {}

\* The rest of the route is lost.
Abandon(a) ==
    /\ Recoverable(a) => ~Connected(a, HandoffTarget(a))
    /\ UNCHANGED <<route, index, dist, completed, handoff>>

\* append_replacement_route: an idle target wakes up on the added part.
TakeOver(a, b, bridge) ==
    /\ route' = [route EXCEPT ![b] = @ \o bridge \o Remaining(a)]
    /\ index' = [index EXCEPT ![b] = IF b \in completed THEN Len(route[b]) + 1 ELSE @]
    /\ dist' = [dist EXCEPT ![b] = IF b \in completed THEN 0 ELSE @]
    /\ completed' = completed \ {b}
    /\ handoff' = [handoff EXCEPT ![a] = b]

HandOver(a) ==
    /\ Recoverable(a)
    /\ \E bridge \in Bridges(a, HandoffTarget(a)) : TakeOver(a, HandoffTarget(a), bridge)

\* (mutant) The failed agent keeps its lock.
FailKeepsLock(a) ==
    /\ phase = "failures"
    /\ a \notin failed /\ Cardinality(failed) < MaxFailures
    /\ failed' = failed \cup {a}
    /\ waiting' = [waiting EXCEPT ![a] = NoEdge]
    /\ Abandon(a) \/ HandOver(a)
    /\ UNCHANGED <<conf, phase, denied, todo, aborted, lockVars, moved, visited>>

Fail(a) ==
    /\ phase = "failures"
    /\ a \notin failed /\ Cardinality(failed) < MaxFailures
    /\ failed' = failed \cup {a}
    /\ waiting' = [waiting EXCEPT ![a] = NoEdge]
    /\ lock' = IF OnRoute(a) THEN release(conf, lock, age, Edge(a), a) ELSE lock
    /\ Abandon(a) \/ HandOver(a)
    /\ UNCHANGED <<conf, phase, denied, todo, aborted, age, cursor, moved, visited>>

-----------------------------------------------------------------------------
(* Requests *)

\* (mutant) Whoever waits never asks again.
AsksOnce(a) == Flying(a) /\ dist[a] = 0 /\ waiting[a] = NoEdge

\* Who asks: agents before a segment, unless they wait for a lock that the
\* table still shows with somebody else.
Asks(a) ==
    /\ Flying(a) /\ dist[a] = 0
    /\ waiting[a] # NoEdge => ~is_locked_by_other(lock, waiting[a], a)
Requests == [e \in Edges |-> {a \in Agents : Asks(a) /\ Edge(a) = e}]

Request ==
    /\ phase = "failures"
    /\ phase' = "move"
    /\ todo' = Agents
    /\ waiting' = [a \in Agents |-> IF Asks(a) THEN NoEdge ELSE waiting[a]]
    /\ lock' = request_batch(conf, lock, age, cursor, Requests)
    /\ age' = [e \in Edges |->
                  IF lock'[e] # lock[e] \/ Lapsed(conf, lock, age, e) THEN 0 ELSE age[e]]
    /\ cursor' = NextCursor(conf, lock, cursor, Requests)
    /\ denied' = {a \in Agents : Asks(a) /\ lock'[Edge(a)] # a}
    /\ UNCHANGED <<conf, route, index, dist, completed, aborted, failed, handoff,
                   moved, visited>>

Wait(a) ==
    /\ conf.onLocked = "wait"
    /\ waiting' = [waiting EXCEPT ![a] = Edge(a)]
    /\ UNCHANGED <<route, index, aborted>>

\* try_replan: a path around every edge that somebody else holds, to the end
\* of one of the remaining segments, and on from there.
Replan(a) ==
    /\ conf.onLocked = "replan"
    /\ \E path \in Detours, i \in index[a]..Len(route[a]) :
        LET new == path \o SubSeq(route[a], i + 1, Len(route[a]))
        IN  /\ route[a][i].to # Segment(a).from
            /\ Joins(path, Segment(a).from, route[a][i].to)
            /\ \A k \in 1..Len(new) : ~is_locked_by_other(lock, new[k].edge, a)
            /\ route' = [route EXCEPT ![a] = new]
    /\ index' = [index EXCEPT ![a] = 1]
    /\ UNCHANGED <<waiting, aborted>>

\* The abort policy, or no way around.
Abort(a) ==
    /\ conf.onLocked \in {"replan", "abort"}
    /\ aborted' = aborted \cup {a}
    /\ UNCHANGED <<route, index, waiting>>

\* One loser reacts, in the order of the ids.
React(a) ==
    /\ a \in denied /\ \A b \in denied : a <= b
    /\ denied' = denied \ {a}
    /\ Wait(a) \/ Replan(a) \/ Abort(a)
    /\ UNCHANGED <<conf, phase, todo, dist, completed, failed, handoff, lockVars,
                   moved, visited>>

-----------------------------------------------------------------------------
(* Movement *)

CanMove(a) ==
    /\ Flying(a) /\ waiting[a] = NoEdge
    /\ ~is_locked_by_other(lock, Edge(a), a)

Pass(a) ==
    /\ ~CanMove(a)
    /\ UNCHANGED <<index, dist, completed, lock, moved, visited>>

Advance(a) ==
    /\ CanMove(a)
    /\ dist[a] + 1 < Moves[a][Edge(a)]
    /\ dist' = [dist EXCEPT ![a] = @ + 1]
    /\ moved' = moved \cup {a}
    /\ UNCHANGED <<index, completed, lock, visited>>

\* (mutant) The distance beyond the end is carried over, without this step.
FinishCarries(a) ==
    /\ CanMove(a)
    /\ dist[a] + 1 >= Moves[a][Edge(a)]
    /\ lock' = release(conf, lock, age, Edge(a), a)
    /\ index' = [index EXCEPT ![a] = @ + 1]
    /\ IF index[a] = Len(route[a])
       THEN completed' = completed \cup {a} /\ dist' = [dist EXCEPT ![a] = @ + 1]
       ELSE dist' = [dist EXCEPT ![a] = @ - Moves[a][Edge(a)]] /\ UNCHANGED completed
    /\ moved' = moved \cup {a}
    /\ visited' = visited \cup {Edge(a)}

\* The end of the segment: the lock goes back, whoever waits may ask for it
\* in the next tick.
Finish(a) ==
    /\ CanMove(a)
    /\ dist[a] + 1 >= Moves[a][Edge(a)]
    /\ lock' = release(conf, lock, age, Edge(a), a)
    /\ index' = [index EXCEPT ![a] = @ + 1]
    /\ IF index[a] = Len(route[a])
       THEN completed' = completed \cup {a} /\ dist' = [dist EXCEPT ![a] = @ + 1]
       ELSE dist' = [dist EXCEPT ![a] = 0] /\ UNCHANGED completed
    /\ moved' = moved \cup {a}
    /\ visited' = visited \cup {Edge(a)}

\* One agent has its turn, in the order of the ids.
Move(a) ==
    /\ phase = "move" /\ denied = {}
    /\ a \in todo /\ \A b \in todo : a <= b
    /\ todo' = todo \ {a}
    /\ Pass(a) \/ Advance(a) \/ Finish(a)
    /\ UNCHANGED <<conf, phase, denied, route, aborted, failed, waiting, handoff, age, cursor>>

EndTick ==
    /\ phase = "move" /\ denied = {} /\ todo = {}
    /\ phase' = IF \A a \in Agents : ~Active(a) THEN "done" ELSE "failures"
    /\ moved' = {}
    /\ age' = [e \in Edges |-> IF lock[e] # Free THEN age[e] + 1 ELSE 0]
    /\ UNCHANGED <<conf, denied, todo, agentVars, lock, cursor, visited>>

Done == phase = "done" /\ UNCHANGED vars

Next ==
    \/ \E a \in Agents : Fail(a) \/ React(a) \/ Move(a)
    \/ Request
    \/ EndTick
    \/ Done

Spec == Init /\ [][Next]_vars

\* The runner is one loop that always takes its next step.
FairSpec == Spec /\ WF_vars(Next)

-----------------------------------------------------------------------------
(* Properties *)

\* The state stays well typed: DeconflictedAgentState and the lock tables.
TypeOK ==
    /\ conf \in Configs
    /\ phase \in {"failures", "move", "done"}
    /\ denied \subseteq Agents
    /\ todo \subseteq Agents
    /\ route \in [Agents -> Seq(Segments)]
    /\ index \in [Agents -> Nat \ {0}]
    /\ dist \in [Agents -> Nat]
    /\ completed \subseteq Agents
    /\ aborted \subseteq Agents
    /\ failed \subseteq Agents
    /\ waiting \in [Agents -> Edges \cup {NoEdge}]
    /\ handoff \in [Agents -> Agents \cup {NoAgent}]
    /\ lock \in Locks
    /\ age \in [Edges -> Nat]
    /\ cursor \in [Edges -> Nat]
    /\ moved \subseteq Agents
    /\ visited \subseteq Edges

\* No lock leaks: whoever holds a segment is in flight, stands on that very
\* segment and does not wait.  A lock left with an agent that failed, aborted,
\* finished or was rerouted would block the segment for the rest of the run.
LockHolderOnEdge ==
    \A e \in Edges : lock[e] # Free =>
        Flying(lock[e]) /\ Edge(lock[e]) = e /\ waiting[lock[e]] = NoEdge

Inside(a) == Flying(a) /\ dist[a] > 0

\* Every agent can fly every edge within one lease.
FitsLease == conf.mode = "network" => \A a \in Agents, e \in Edges : Moves[a][e] <= conf.lease

\* The purpose of the locks: two agents are never inside the same segment,
\* through failures, handoffs and leases that end at the very tick in which
\* their holder leaves (locked segments waited for or given up).
EdgeExclusive ==
    conf.onLocked # "replan" /\ FitsLease =>
        \A a, b \in Agents : Inside(a) /\ Inside(b) /\ Edge(a) = Edge(b) => a = b

\* Nobody waits for somebody who waits: in every tick that ends with an agent
\* still in flight, some agent has advanced, under every policy and even when
\* leases lapse under their holders.
NoStall ==
    phase = "move" /\ denied = {} /\ todo = {} =>
        moved # {} \/ \A a \in Agents : ~Flying(a)

\* completed_count + recovered_failed_count == states.len()
EffectivelyCompleted ==
    Cardinality(completed) + Cardinality({a \in failed : handoff[a] # NoAgent}) = N

\* A patrol reported as completed was flown: every segment of the patrol has
\* been flown to its end by somebody, however often its owners failed and
\* handed the rest on.
CompletedMeansFlown ==
    conf.onLocked # "replan" /\ EffectivelyCompleted =>
        \A k \in 1..Len(conf.patrol) : conf.patrol[k].edge \in visited

\* Every patrol comes to an end: no agent stays in flight for ever, whatever
\* the right of way and however many times it loses.
PatrolEnds ==
    (conf.onLocked # "replan") => <>[](\A a \in Agents : ~Flying(a))

\* "requests a lock before entering the next road-graph segment": whoever is
\* inside a segment holds its lock.
ReservedBeforeEntry == \A a \in Agents : Inside(a) => lock[Edge(a)] = a
=============================================================================
