SPECIFICATION Spec
CONSTANTS
    Peer <- FourPeers
    NoPeer = NoPeer
    PEER_RATIO = 2
    Serial = TRUE
INVARIANTS RestTree LoadCap
CHECK_DEADLOCK FALSE
