CONSTANTS
    i1 = i1
    i2 = i2
    i3 = i3
    s1 = s1
    s2 = s2
    s3 = s3
    Ids <- ThreeIds
    Socks <- ThreeSocks
    NoId = NoId
    NoSock = NoSock
    Srv = Srv
    Garbage = Garbage
    BufNodes = 3
    EpollMayFail = TRUE
SPECIFICATION Spec
SYMMETRY Symmetry
INVARIANTS
    TypeOK
    MutualIntroduction
    RegistrationIndexed
    LiveAddressReal
    NoStaleSocket
    AnswerFirst
PROPERTIES
    RegistrationKept
    ImplementsRendezvous
CHECK_DEADLOCK FALSE
