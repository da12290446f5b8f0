SPECIFICATION FairSpec
CONSTANTS
    Sessions = {s1, s2}
    Peers = {p1, p2}
    NoSession = NoSession
    Broadcaster = Broadcaster
    PairingOutcomes = {TRUE, FALSE}
    ChannelCapacity = 1
    EventCapacity = 1
    MaxEvents = 3
INVARIANTS
    TypeOK
    EventsInOrder
    NoDanglingEntry
    TrustedPeerRegistered
PROPERTY RoundEndsOrStuck
CHECK_DEADLOCK FALSE
