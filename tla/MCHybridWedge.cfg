SPECIFICATION Spec
CONSTANTS
    Peer <- ThreePeers
    NoPeer = NoPeer
    PEER_RATIO = 1
    Serial = TRUE
INVARIANT HandoverCompletes
CHECK_DEADLOCK FALSE
