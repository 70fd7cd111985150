SPECIFICATION Spec
CONSTANTS
    Peer <- ThreePeers
    NoPeer = NoPeer
    PEER_RATIO = 1
    Serial = FALSE
INVARIANTS Invariant Custody
PROPERTIES ImplementsForest HandlersFinish
VIEW MapView
CHECK_DEADLOCK FALSE
