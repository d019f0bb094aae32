CONSTANTS
    s1 = s1
    s2 = s2
    N = 2
    Socks <- TwoSocks
    NoSock = NoSock
    Garbage = Garbage
SPECIFICATION FairSpec
INVARIANTS
    HelloToNamedPeer
    TypeOK
    PrintsInLife
    LateRoundOnce
PROPERTIES
    QuitExits
CHECK_DEADLOCK FALSE
