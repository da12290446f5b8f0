SPECIFICATION FairSpec
CONSTANTS
    Drivers = {"library", "node"}
    MaxCeremonies = 2
    MaxConnections = 1
    MaxInFlight = 1
PROPERTY RevokedIsBlocked
CHECK_DEADLOCK FALSE
