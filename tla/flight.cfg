SPECIFICATION FairSpec
CONSTANTS
    U16Max = 3
    MaxItems = 4
    MaxRetries = 2
    MaxFaults = 2
INVARIANTS
    TypeOK
    MissionInForce
PROPERTIES
    KeepsContract
    FlightEnds
