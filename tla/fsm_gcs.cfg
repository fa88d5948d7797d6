SPECIFICATION Spec
CONSTANTS
  p1 = p1
  p2 = p2
  gcs = gcs
  mothership = mothership
  NoAgent = NoAgent
  PeerIds <- TwoPeers
  GcsId = gcs
  MothershipId = mothership
  GcsLostPolicy = "hover_in_place"
  AfterTicks = 2
  GcsHeartbeatTimeout = 2
  MothershipLostPolicy = "proceed_autonomously"
  StagingTicks = 3
  NeighborLostPolicy = "release_locks_and_continue"
  ReconnectTicks = 2
  PeerHeartbeatTimeout = 2
  InitialLeases <- TwoLeases
  InitialMission <- Executing
  MaxTick = 9
CHECK_DEADLOCK FALSE
INVARIANTS
  DetectorExact
  AutonomousIffGcsSilent
  LeaseAuthority
  MissionPreserved
PROPERTIES
  OutageReported
