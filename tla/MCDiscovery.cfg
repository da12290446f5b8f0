SPECIFICATION FairSpec
CONSTANTS
    Node = {a, b}
    NoId = NoId
    Advertisers = {a}
    Leavers = {a}
    Modes = {"both", "udp", "mdns"}
    BeaconInterval = 2
    UdpTtl = 6
    MdnsTtl = 5
    MayFail = {"udp"}
    MaxMdnsEvents = 1
    MaxInFlight <- MCMaxInFlight
INVARIANTS
    TypeOK
    NeverListsSelf
PROPERTIES
    ExpiryNeedsSilence
    DepartedForgotten
    CallsReturn
CHECK_DEADLOCK FALSE
