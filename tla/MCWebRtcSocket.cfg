SPECIFICATION Spec
CONSTANTS
    a = a
    b = b
    Peer = {a, b}
    NoLimit = NoLimit
    Offers <- OneOffers
    Attempts = {2}
    Scenes <- SomeScenes
INVARIANTS
    Invariant
    PanicsHaveCause
PROPERTIES
    GoneIsDropped
    Rendezvous
    AttemptsEnd
CHECK_DEADLOCK FALSE
