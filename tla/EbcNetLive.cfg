CONSTANTS
    i1 = i1
    i2 = i2
    i3 = i3
    s1 = s1
    s2 = s2
    s3 = s3
    Ids <- TwoIds
    Socks <- TwoSocks
    NoId = NoId
    NoSock = NoSock
    Srv = Srv
    Garbage = Garbage
    BufNodes = 2
    PacketNodes = 1
    FitMsgs = 4
    EpollMayFail = FALSE
SPECIFICATION NetFairSpec
PROPERTIES
    BrokenDropped
    NodesMeet
    AnswerRead
CHECK_DEADLOCK FALSE
