\* An opening that fails after the connection was entered.
SPECIFICATION Spec
CONSTANTS
    c1 = c1
    Closers = {c1}
    Shapes <- FewShapes
    MaxMessages = 1
    MaxFrames = 1
    TransportMayRaise = FALSE
INVARIANTS FailedOpenLeaksNothing
CHECK_DEADLOCK FALSE
