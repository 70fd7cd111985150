SPECIFICATION Spec
CONSTANTS
    Peer <- ThreePeers
    NoPeer = NoPeer
    PEER_RATIO = 1
    Serial = TRUE
INVARIANT StatusToldOnce
CHECK_DEADLOCK FALSE
