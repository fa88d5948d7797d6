----------------------------- MODULE Membership -----------------------------
(***************************************************************************)
(* The membership view of one node (swarm-runtime/src/membership.rs) and   *)
(* its failure detector (failure.rs).  A view is a function from agents to *)
(* what the node believes of them.                                         *)
(***************************************************************************)
EXTENDS Integers

CONSTANTS
    N,              \* number of agents, numbered in the order of their ids
    TimeoutTicks    \* FailureDetector::timeout_ticks

Agents == 1 .. N

ASSUME MembershipAssumption == N \in Nat \ {0} /\ TimeoutTicks \in Nat

\* AgentEntry, without the fields that only the allocators and the movement
\* read.
Entry == [alive : BOOLEAN, last : Nat, generation : Nat]
View == [Agents -> Entry]

\* A heartbeat of generation g sent at tick s is news to entry e.
Newer(e, s, g) == g > e.generation \/ (g = e.generation /\ s > e.last)

record_heartbeat(e, s, g) ==
    IF Newer(e, s, g) THEN [alive |-> TRUE, last |-> s, generation |-> g]
    ELSE e

mark_dead(v, dead) ==
    [a \in Agents |-> IF a \in dead THEN [v[a] EXCEPT !.alive = FALSE]
                      ELSE v[a]]

alive_agents(v) == {a \in Agents : v[a].alive}

\* Mutant: a heartbeat exactly timeout_ticks old is still counted as silence.
detect_early(v, now) ==
    {a \in alive_agents(v) : now - v[a].last >= TimeoutTicks}

\* Mutant: the detector waits one tick more.
detect_late(v, now) ==
    {a \in alive_agents(v) : now - v[a].last > TimeoutTicks + 1}

\* FailureDetector::detect; no heartbeat is younger than the clock, so the
\* saturating subtraction is a subtraction.
detect(v, now) == {a \in alive_agents(v) : now - v[a].last > TimeoutTicks}

=============================================================================
