SPECIFICATION Spec
CONSTANTS
    Peer = {p1, p2, p3}
    mesh = mesh
    team = team
    Room = {mesh, team}
    NoNext = NoNext
    Requests <- UpToThree
    Settings <- TeamsOnly
INVARIANT LeftIsTold
CHECK_DEADLOCK FALSE
