SPECIFICATION Spec
CONSTANTS
  p1 = p1
  p2 = p2
  gcs = gcs
  mothership = mothership
  NoAgent = NoAgent
  PeerIds <- TwoPeers
  GcsId = NoAgent
  MothershipId = mothership
  GcsLostPolicy = "return_to_launch"
  AfterTicks = 3
  GcsHeartbeatTimeout = 2
  MothershipLostPolicy = "wait_at_staging"
  StagingTicks = 3
  NeighborLostPolicy = "wait_for_reconnect"
  ReconnectTicks = 3
  PeerHeartbeatTimeout = 2
  InitialLeases <- NoLeases
  InitialMission <- Executing
  MaxTick = 9
CHECK_DEADLOCK FALSE
INVARIANT WaitIsArmed
PROPERTY AbortStands
