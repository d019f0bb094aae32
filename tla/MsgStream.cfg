CONSTANTS
    Nodes <- MCNodes
    EbcNode <- MCEbcNode
    Texts <- MCTexts
    Versions <- MCVersions
    NET_VERSION = "V0.0.0"
    BufNodes = 2
    PacketNodes = 1
    FitMsgs = 1
    MaxSent = 3
SPECIFICATION Spec
INVARIANTS
    TypeOK
    AcceptedIsOneMessage
    AloneIsAccepted
    RejectedExactly
    CodecAgrees
    CutsAgree
    SizeExact
CHECK_DEADLOCK FALSE
