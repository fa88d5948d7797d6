-------------------------- MODULE MCMissionFlight --------------------------
(* MissionFlight with the bounds of flight.cfg. *)
EXTENDS MissionFlight
=============================================================================
