SPECIFICATION Spec
CONSTANTS
    Peer = {p1, p2, p3, p4}
    mesh = mesh
    team = team
    Room = {mesh, team}
    NoNext = NoNext
    Requests <- UpToThree
    Settings <- AllSettings
INVARIANTS Invariant AllIntroduced GroupsAreSeparate NoGhosts
SYMMETRY Anyone
CHECK_DEADLOCK FALSE
