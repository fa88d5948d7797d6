SPECIFICATION Spec
CONSTANTS
    Agents = {"a", "b", "c"}
    Base = "base"
    Pairs <- MCPairs
    Leases <- MCLeases
    LeaseConfigs <- MCLeaseConfigs
    MaxTick = 3
    MaxEvents = 2
    MaxFailures = 1
INVARIANTS
    SplitBrainEnds
    AcceptedHasOwner
    PartitionOnRecord
PROPERTY RevokedForCause
CHECK_DEADLOCK FALSE
