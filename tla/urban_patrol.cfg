CONSTANTS
    N = 3
    MaxFailures = 2
    Edges <- MCEdges
    Nodes <- MCNodes
    Priority <- MCPriority
    Detours <- MCDetours
    Configs <- MCConfigs
    Moves <- MCMoves
SPECIFICATION FairSpec
INVARIANTS TypeOK LockHolderOnEdge EdgeExclusive NoStall CompletedMeansFlown
PROPERTIES PatrolEnds
