----------------------- MODULE MCPartitionSupervisor -----------------------
(***************************************************************************)
(* Model of PartitionSupervisor for TLC: three agents with up to two lease *)
(* records each, of two resources, two ages and two expiry ticks, two of   *)
(* them with the same id; the third has at most a young lease.             *)
(***************************************************************************)
EXTENDS PartitionSupervisor

Lease(id, r, granted, expiry) == [id |-> id, resource |-> r, granted |-> granted, expiry |-> expiry]

MCOld == Lease("l1", "r", 0, 2)
MCLong == Lease("l1", "r", 0, 4)
MCYoung == Lease("l2", "r", 1, 4)
MCOther == Lease("l2", "s", 1, 2)
MCLeases == {MCOld, MCLong, MCYoung, MCOther}
MCLeaseConfigs ==
    {f \in [{"a", "b", "c"} -> {{}, {MCLong}, {MCYoung}, {MCOld, MCYoung}, {MCOther, MCLong}}] :
        f["c"] \in {{}, {MCYoung}}}
MCPairs == {{"a", "b"}, {"b", "c"}, {"a", "base"}}
=============================================================================
