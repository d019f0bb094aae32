CONSTANTS
    Nodes <- MCNodes
    EbcNode <- MCEbcNode
    Texts <- MCTexts
    Versions <- MCVersions
    NET_VERSION = "V0.0.0"
    BufNodes = 3
    PacketNodes = 3
    FitMsgs = 4
    MaxSent = 4
SPECIFICATION Spec
INVARIANTS
    AllIntroduced
CHECK_DEADLOCK FALSE
