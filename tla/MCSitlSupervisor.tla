-------------------------- MODULE MCSitlSupervisor --------------------------
(***************************************************************************)
(* Model of SitlSupervisor for TLC: three agents, four tasks, one of them  *)
(* beyond the third agent.  Besides the configuration that is flown, the   *)
(* configurations are the ways a file can be refused.                      *)
(***************************************************************************)
EXTENDS SitlSupervisor

MCTask == {"t1", "t2", "t3", "t4"}
MCCapable == [t \in MCTask |-> IF t = "t2" THEN {1, 2} ELSE {1, 2, 3}]
MCConfigs ==
    {<<<<"t1", "t2">>, <<"t3">>, <<"t4">>>>,
     <<<<"t1", "t2">>, <<"t3">>, <<>>>>,
     <<<<"t1", "t1">>, <<"t3">>, <<"t4">>>>,
     <<<<"t1", "t2">>, <<"t3", "t2">>, <<"t4">>>>}
=============================================================================
