SPECIFICATION Spec
CONSTANTS
    Peer = {p1, p2, p3}
    Modes = {TRUE, FALSE}
INVARIANTS Invariant NoGlare NoGhosts MeshedWhenSerial
PROPERTY Forgotten
CHECK_DEADLOCK FALSE
