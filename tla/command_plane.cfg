SPECIFICATION Spec
CONSTANTS
    AgentIds <- MCAgents
    Inputs <- MCInputs
INVARIANTS
    RoutesExact
    CyclesFound
    FailureDecided
CHECK_DEADLOCK FALSE
