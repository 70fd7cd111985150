SPECIFICATION Spec
CONSTANTS
    Super <- FourSupers
    MaxLoad = 4
INVARIANTS EvenWhenDone FewWastedMoves
PROPERTIES OneWay Ends
CHECK_DEADLOCK FALSE
