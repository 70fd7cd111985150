SPECIFICATION Spec
CONSTANTS
    s1 = s1
    s2 = s2
    c1 = c1
    c2 = c2
    NoPeer = NoPeer
    Peer = {s1, s2, c1, c2}
    MAX_HANDSHAKE_ATTEMPTS = 2
    HopLimit = 3
    Scenes <- SomeScenes
INVARIANTS Invariant FloodEnds AckIsTrue
PROPERTIES InfoSpreads KnownSettles RecruitRises
CHECK_DEADLOCK FALSE
