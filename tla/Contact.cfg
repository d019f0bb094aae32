CONSTANTS
    Ports <- MCPorts
    Nats <- MCNats
SPECIFICATION Spec
INVARIANTS
    TypeOK
    PunchReachesNode
    ReservedBitsClear
CHECK_DEADLOCK FALSE
