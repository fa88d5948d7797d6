SPECIFICATION Spec
CONSTANTS
    N = 3
    Task <- MCTask
    Capable <- MCCapable
    Configs <- MCConfigs
    Reupload = TRUE
    Patience = 1
    MaxQueue = 1
    MaxFaults = 1
INVARIANTS
    CompletedWasFlown
    NoTaskDropped
    NoDoubleAssignment
    ReportTruthful
PROPERTIES
    SupervisorEnds
CHECK_DEADLOCK FALSE
