SPECIFICATION FairSpec
CONSTANTS
    Drivers = {"node"}
    MaxCeremonies = 1
    MaxConnections = 1
    MaxInFlight = 1
PROPERTY InitiatorAnswered
CHECK_DEADLOCK FALSE
