CONSTANTS
    i1 = i1
    i2 = i2
    p1 = p1
    p2 = p2
    Ids <- MCIds
    Socks <- MCSocks
    ZeroId = ZeroId
    Boot = Boot
    NoId = NoId
    NoSock = NoSock
    Garbage = Garbage
    PacketNodes = 1
    FitMsgs = 1
    MaxMsgs = 2
    MaxReconnects = 1
SPECIFICATION Spec
INVARIANTS
    TypeOK
    OpenSocketTracked
    PeerSocketUsable
    AskedOnce
PROPERTIES
    PeersKept
CHECK_DEADLOCK FALSE
