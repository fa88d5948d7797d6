CONSTANTS
    N = 3
    MaxFailures = 0
    Edges <- MCEdges
    Nodes <- MCNodes
    Priority <- MCPriority
    Detours <- MCDetours
    Configs <- ReplanConfigs
    Moves <- MCMoves
SPECIFICATION Spec
INVARIANTS ReservedBeforeEntry
