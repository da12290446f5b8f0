SPECIFICATION PatientSpec
CONSTANTS
    Sessions = {s1}
    Peers = {p1}
    NoSession = NoSession
    Broadcaster = Broadcaster
    PairingOutcomes = {FALSE}
    ChannelCapacity = 1
    EventCapacity = 2
    MaxEvents = 2
PROPERTY RoundEnds
CHECK_DEADLOCK FALSE
