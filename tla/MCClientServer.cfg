SPECIFICATION Spec
CONSTANTS
    Peer = {p1, p2, p3}
    NoPeer = NoPeer
    Modes = {TRUE, FALSE}
INVARIANTS Invariant GoneIsForgotten Star
PROPERTY SeatIsFreed
CHECK_DEADLOCK FALSE
