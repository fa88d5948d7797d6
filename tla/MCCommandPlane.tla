--------------------------- MODULE MCCommandPlane ---------------------------
(***************************************************************************)
(* Model of CommandPlane for TLC: every set of links between the ground    *)
(* station, two agents and a relay with a few dependencies; every          *)
(* dependency relation of three agents over a full topology; and ownership *)
(* and policies over that topology.                                        *)
(***************************************************************************)
EXTENDS CommandPlane

MCAgents == {1, 2, 3}

Agent(id, role, policy, refs) == [id |-> id, role |-> role, policy |-> policy, refs |-> refs]
Dep(p, c) == [parent |-> p, child |-> c]
Own(a, r, active) == [agent |-> a, resource |-> r, active |-> active]

Links(nodes) == {l \in nodes \X nodes : l[1] # l[2]}
Topology(kind, nodes, up, links, deps) ==
    [kind |-> kind, nodes |-> nodes, up |-> up, links |-> links, lossy |-> {l \in links : l[1] = 4}, deps |-> deps]
Input(agents, ownership, policy, topology) ==
    [agents |-> agents, ownership |-> ownership, policy |-> policy, topology |-> topology]

Scouts(n) == [a \in 1 .. n |-> Agent(a, "scout", "abort_mission", {})]
Full(deps) == Topology("mothership", 0 .. 3, 0 .. 3, Links(0 .. 3), deps)

MCTopologies ==
    {Topology(v[1], {0, 1, 2, 4}, {0, 1, 2, 4} \ v[2], links, v[3]) :
        links \in SUBSET Links({0, 1, 2, 4}),
        v \in {<<"p2p_logical", {}, <<>>>>, <<"relay", {4}, <<Dep(1, 2)>>>>,
               <<"mothership", {}, <<Dep(1, 2)>>>>, <<"mothership", {4}, <<Dep(1, 2)>>>>}}

AllDependencies == [i \in 1 .. 9 |-> Dep((i + 2) \div 3, ((i + 2) % 3) + 1)]
MCDependencies == {SelectSeq(AllDependencies, LAMBDA d : d \in D) : D \in SUBSET ToSet(AllDependencies)}

MCRoles == [1 .. 2 -> {"scout", "reserve", "recovery"} \X Policies]
MCOwnerships ==
    {<<>>, <<Own(1, "x", TRUE)>>, <<Own(2, "x", TRUE), Own(1, "y", TRUE)>>,
     <<Own(1, "x", TRUE), Own(2, "x", TRUE)>>, <<Own(2, "x", FALSE), Own(1, "x", TRUE)>>}

MCInputs ==
    {Input(Scouts(2), <<>>, "abort_mission", t) : t \in MCTopologies}
    \cup {Input(Scouts(3), <<>>, "abort_mission", Full(d)) : d \in MCDependencies}
    \cup {Input([a \in 1 .. 2 |-> Agent(a, f[a][1], f[a][2], IF a = 1 THEN refs ELSE {})], o, p, Full(<<>>)) :
            f \in MCRoles, o \in MCOwnerships, p \in Policies, refs \in {{}, {"x"}}}
    \cup {Input(<<>>, <<>>, "abort_mission", Full(<<>>)),
          Input(<<Scouts(1)[1], Scouts(1)[1]>>, <<>>, "abort_mission", Full(<<>>)),
          Input(Scouts(2), <<>>, "abort_mission", Full(<<Dep(1, 3)>>)),
          Input(Scouts(3), <<>>, "abort_mission", Topology("mesh", 0 .. 2, 0 .. 2, Links(0 .. 2), <<>>)),
          Input(Scouts(2), <<>>, "abort_mission", Topology("centralized_gcs", 0 .. 2, 0 .. 2, Links(0 .. 3), <<>>)),
          Input(Scouts(2), <<>>, "abort_mission", Topology("centralized_gcs", 1 .. 2, 1 .. 2, {}, <<>>))}
=============================================================================
