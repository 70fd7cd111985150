SPECIFICATION Spec
CONSTANTS
    Peer <- FivePeers
    NoPeer = NoPeer
    Steady <- OnlyFive
    Starts <- SomeStarts
INVARIANTS Invariant NoTrace TreeWhenSerial IntroducedWhenSerial
PROPERTIES HandlersFinish ImplementsForest
VIEW MapView
CHECK_DEADLOCK FALSE
