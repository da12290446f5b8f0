SPECIFICATION FairSpec
CONSTANTS
    Drivers = {"library", "node"}
    MaxCeremonies = 2
    MaxConnections = 2
    MaxInFlight = 1
INVARIANTS
    TypeOK
    MutualConfirmation
    CeremonyAgreement
PROPERTIES
    ImplementsContract
    ConfirmAnswered
CHECK_DEADLOCK FALSE
