---------------------------- MODULE CommandPlane ----------------------------
(***************************************************************************)
(* The swarm command plane (swarm-command-plane/src): a plan is built from *)
(* the assignments of the agents (fanout.rs), which routes its commands    *)
(* (CommandRoutes) and validates it (validation.rs); when an agent fails,  *)
(* its policy decides what happens (policy.rs).  A plan that is refused is *)
(* not used.  An agent's own commands, the summary and schema versions are *)
(* left out.                                                               *)
(***************************************************************************)
EXTENDS CommandRoutes

CONSTANTS
    AgentIds,   \* every agent a topology may have a node for
    Inputs      \* SwarmCommandFanoutInput: agents, ownership, policy, topology

Policies == {"abort_agent_only", "abort_mission", "continue_degraded", "replace_from_reserve"}
Kinds == {"centralized_gcs", "p2p_logical", "mothership", "relay", "mesh"}

NoPlan == [routes |-> {}]
NoDecision == [kind |-> "none", failed |-> NoNode, to |-> NoNode, resources |-> {}]

VARIABLES
    input,      \* what the plan is built from
    plan,       \* the plan, as far as it is not the input
    verdict,    \* "none" before it is built, "ok" or the error
    decision    \* the last SwarmFailureDecision

vars == <<input, plan, verdict, decision>>

\* agents: Seq of [id, role, policy, refs]; ownership: Seq of [agent,
\* resource, active].
Planned(in) == {in.agents[i].id : i \in DOMAIN in.agents}

\* An input is what the types of the code admit: a Vec of agents, each with
\* a failure policy, and dependencies between agents.
ASSUME InputsAssumption ==
    /\ IsFiniteSet(AgentIds) /\ AgentIds \subseteq Nat \ {Gcs}
    /\ \A in \in Inputs :
         /\ in.agents \in Seq(ToSet(in.agents)) /\ Planned(in) \subseteq AgentIds
         /\ \A g \in ToSet(in.agents) : g.policy \in Policies
         /\ in.topology.kind \in Kinds
         /\ IsFiniteSet(in.topology.nodes) /\ in.topology.nodes \subseteq Nat
         /\ in.topology.up \subseteq in.topology.nodes
         /\ in.topology.deps \in Seq([parent : AgentIds, child : AgentIds])

Active(in) == {i \in DOMAIN in.ownership : in.ownership[i].active}

Candidates(in) == {g \in ToSet(in.agents) : g.role \in {"reserve", "recovery"}}

ensure_replacement_candidate(in) == Candidates(in) # {}

\* Mutant: the agent that failed may replace itself.
ensure_replacement_candidate_or_itself(in, a) == Candidates(in) # {}

ensure_replacement_candidate_for_agent(in, a) == \E g \in Candidates(in) : g.id # a

\* Somebody was relieved of a resource that another agent has now.  The
\* plan of a build has no handoffs that could account for it.
MissingHandoff(in) ==
    \E i \in DOMAIN in.ownership \ Active(in), j \in Active(in) :
        /\ in.ownership[i].resource = in.ownership[j].resource
        /\ in.ownership[i].agent # in.ownership[j].agent

OwnershipError(in) ==
    CASE Cardinality(Planned(in)) # Len(in.agents) -> "duplicate_agent_plan"
      [] \E i, j \in Active(in) : i # j /\ in.ownership[i].resource = in.ownership[j].resource ->
            "duplicate_ownership"
      [] MissingHandoff(in) -> "missing_handoff_evidence"
      [] \E g \in ToSet(in.agents) : \E r \in g.refs :
            ~ \E i \in Active(in) : in.ownership[i].agent = g.id /\ in.ownership[i].resource = r ->
            "missing_active_ownership"
      [] OTHER -> "ok"

PolicyError(in) ==
    CASE in.policy = "abort_mission" /\ in.agents = <<>> -> "missing_abort_targets"
      [] in.policy = "replace_from_reserve" /\ ~ensure_replacement_candidate(in) -> "missing_replacement_agent"
      [] \E g \in ToSet(in.agents) :
            g.policy = "replace_from_reserve" /\ ~ensure_replacement_candidate_for_agent(in, g.id) ->
            "missing_replacement_agent"
      [] OTHER -> "ok"

validate_command_route(t, r) ==
    LET parent == mothership_parent_node_id(t, r.to)
        expected == route_between(t, r.from, r.to)
    IN CASE r.from \notin t.nodes \/ ~(ToSet(r.via) \subseteq t.nodes) -> "unknown_route_node"
         [] r.to \notin t.nodes -> "missing_topology_node"
         [] r.allowed # expected.allowed \/ r.via # expected.via -> "path_mismatch"
         [] r.allowed /\ (r.via[1] # r.from \/ Last(r.via) # r.to \/ ~(Hops(r.via) \subseteq t.links)) ->
               "path_mismatch"
         [] r.allowed /\ parent # NoNode /\ parent \notin ToSet(r.via) -> "bypasses_parent"
         [] OTHER -> "ok"

TopologyError(in, routes) ==
    LET t == in.topology
        wrong == {r \in routes : validate_command_route(t, r) # "ok"}
    IN CASE Gcs \notin t.nodes -> "missing_topology_node"
         [] ~(t.links \subseteq t.nodes \X t.nodes) -> "unknown_link_endpoint"
         [] ~(Planned(in) \subseteq t.nodes) -> "missing_topology_node"
         [] \E a \in Planned(in) : \A r \in routes : r.to # a \/ r.from # Gcs -> "missing_command_route"
         [] wrong # {} -> validate_command_route(t, CHOOSE r \in wrong : TRUE)
         [] \E d \in ToSet(t.deps) : ~({d.parent, d.child} \subseteq Planned(in)) -> "unknown_dependency_agent"
         [] has_mothership_cycle(t.deps) -> "dependency_cycle"
         [] OTHER -> "ok"

validate_swarm_command_plan(in, routes) ==
    IF OwnershipError(in) # "ok" THEN OwnershipError(in)
    ELSE IF PolicyError(in) # "ok" THEN PolicyError(in)
    ELSE TopologyError(in, routes)

-----------------------------------------------------------------------------
Init ==
    /\ input \in Inputs /\ plan = NoPlan
    /\ verdict = "none" /\ decision = NoDecision

build_swarm_command_plan ==
    /\ verdict = "none"
    /\ plan' = [routes |-> route_command_plan(input.topology, Planned(input), AgentIds)]
    /\ verdict' = validate_swarm_command_plan(input, plan'.routes)
    /\ UNCHANGED <<input, decision>>

Owned(a) == {input.ownership[i].resource : i \in {j \in Active(input) : input.ownership[j].agent = a}}

\* The first other agent that is a reserve.
replacement_agent_id(in, a) ==
    LET i == SelectInSeq(in.agents, LAMBDA h : h.id # a /\ h \in Candidates(in))
    IN IF i = 0 THEN NoNode ELSE in.agents[i].id

\* Failures are decided one by one, each from the plan as it was built.
apply_agent_failure(g) ==
    /\ verdict = "ok"
    /\ decision' =
         [kind |-> IF g.policy = "replace_from_reserve" /\ ~ensure_replacement_candidate_for_agent(input, g.id)
                   THEN "error" ELSE g.policy,
          failed |-> g.id,
          to |-> IF g.policy = "replace_from_reserve"
                 THEN replacement_agent_id(input, g.id) ELSE NoNode,
          resources |-> IF g.policy \in {"replace_from_reserve", "continue_degraded"} THEN Owned(g.id) ELSE {}]
    /\ UNCHANGED <<input, plan, verdict>>

Next == build_swarm_command_plan \/ \E g \in ToSet(input.agents) : apply_agent_failure(g)

Spec == Init /\ [][Next]_vars

-----------------------------------------------------------------------------
\* Reference: a walk of n hops over available nodes and links.
Walks(t, from, to, n) ==
    {w \in [0 .. n -> t.up] :
        w[0] = from /\ w[n] = to /\ \A i \in 1 .. n : <<w[i - 1], w[i]>> \in t.links}

\* There is a walk of fewer than n hops.
Connects(t, from, to, n) == \E k \in 0 .. n - 1 : Walks(t, from, to, k) # {}

\* A walk that repeats no node has fewer hops than there are nodes.
Unconnected(t, from, to) == ~Connects(t, from, to, Cardinality(t.up))

ShortestLeg(t, from, to, path) ==
    /\ path[1] = from /\ Last(path) = to
    /\ Hops(path) \subseteq t.links /\ ToSet(path) \subseteq t.up
    /\ ~Connects(t, from, to, Len(path) - 1)

\* In a mothership topology the way leads over the parent.
ExactRoute(t, r) ==
    LET parent == mothership_parent_node_id(t, r.to)
        direct == t.kind # "mothership" \/ parent \in {NoNode, r.to}
    IN IF ~r.allowed
       THEN \/ r.to \notin t.nodes
            \/ direct /\ Unconnected(t, r.from, r.to)
            \/ ~direct /\ (Unconnected(t, r.from, parent) \/ Unconnected(t, parent, r.to))
       ELSE \/ direct /\ ShortestLeg(t, r.from, r.to, r.via)
            \/ /\ ~direct
               /\ \E i \in DOMAIN r.via :
                    /\ ShortestLeg(t, r.from, parent, SubSeq(r.via, 1, i))
                    /\ ShortestLeg(t, parent, r.to, SubSeq(r.via, i, Len(r.via)))

(* A command route is there exactly if commands can get through, over      *)
(* available nodes and links, and no shorter one exists; in a mothership   *)
(* topology this holds for the way to the parent and for the way from      *)
(* there (bfs_path and route_path_for_kind, topology.rs).                  *)
RoutesExact == \A r \in plan.routes : ExactRoute(input.topology, r)

\* Reference: a ring of agents, each a parent of the next one.
Cyclic(deps) ==
    \E n \in 1 .. Cardinality(AgentIds) : \E ring \in [0 .. n -> AgentIds] :
        ring[0] = ring[n] /\ \A i \in 1 .. n : <<ring[i - 1], ring[i]>> \in Graph(deps)

(* The dependencies of an accepted plan have no cycle, and nothing without *)
(* a cycle is refused for one (dfs_cycle, topology.rs).                    *)
CyclesFound ==
    LET cyclic == Cyclic(input.topology.deps)
    IN (verdict = "ok" => ~cyclic) /\ (verdict = "dependency_cycle" => cyclic)

(* In an accepted plan the failure of any agent can be decided, and what   *)
(* is handed over goes to another agent of the plan that is a reserve.     *)
FailureDecided ==
    /\ decision.kind # "error"
    /\ decision.kind = "replace_from_reserve" =>
          \E g \in ToSet(input.agents) :
             g.id = decision.to /\ g.id # decision.failed /\ g.role \in {"reserve", "recovery"}
=============================================================================
