--------------------------- MODULE MCUrbanPatrol ---------------------------
(* A small road graph and the scenarios on it for the model checker. *)
EXTENDS UrbanPatrol

Seg(e, u, v) == [edge |-> e, from |-> u, to |-> v]

\* A triangle A-B-C and a second road from A to B.
MCEdges == {"ab", "bc", "ca", "ab2"}
MCNodes == {"A", "B", "C"}

AB == Seg("ab", "A", "B")
BC == Seg("bc", "B", "C")
CA == Seg("ca", "C", "A")
AB2 == Seg("ab2", "A", "B")

\* Fewer segments than agents (one slice is empty); one round; a second
\* round begun, so that the slices of different agents share segments.
Patrols == {<<AB, BC>>, <<AB, BC, CA>>, <<AB, BC, CA, AB, BC>>}

MCDetours == {<<AB2>>, <<AB>>, <<BC>>, <<CA>>, <<CA, AB2>>}

\* Agent 1 is slow on "ab", agent 2 everywhere.
MCMoves ==
    [a \in Agents |-> [e \in Edges |->
        IF a = 1 /\ e = "ab" THEN 3 ELSE IF a = 2 THEN 2 ELSE 1]]

\* The agent with the largest id has the highest priority, the others tie.
MCPriority == [a \in Agents |-> IF a = N THEN 1 ELSE 0]

\* A lease of 3 ticks is just enough for every edge; one of 2 is too short.
MCConfigs ==
    [mode : {"network"}, lease : {2, 3}, policy : RightOfWay, onLocked : OnLocked,
     patrol : Patrols]
    \cup
    [mode : {"shared"}, lease : {1}, policy : RightOfWay, onLocked : OnLocked,
     patrol : Patrols]

ReplanConfigs == {c \in MCConfigs : c.mode = "shared" /\ c.onLocked = "replan"}
=============================================================================
