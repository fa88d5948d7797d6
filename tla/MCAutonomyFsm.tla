---------------------------- MODULE MCAutonomyFsm ----------------------------
(***************************************************************************)
(* Small instances of AutonomyFsm: two neighbours, one GCS, one mothership.*)
(***************************************************************************)
EXTENDS AutonomyFsm

CONSTANTS p1, p2, gcs, mothership

TwoPeers == <<p1, p2>>

\* Two leases, the shorter one first, so that an agent may continue twice.
TwoLeases == <<[lease_id |-> "L1", expiry_tick |-> 4],
               [lease_id |-> "L2", expiry_tick |-> 6]>>
NoLeases == <<>>

Executing == Plain("ExecutingSegment")

=============================================================================
