\* Every message shape, two closers, a failing send, a failing remote.
SPECIFICATION Spec
CONSTANTS
    c1 = c1
    c2 = c2
    Closers = {c1, c2}
    Shapes <- AllShapes
    MaxMessages = 2
    MaxFrames = 2
    TransportMayRaise = TRUE
INVARIANTS TypeOK EveryWordOnce OnlyCompleteSplits AudioNeverHeld OneClosed EndingNamed TasksStoppedFirst FramesInOrder
PROPERTIES StreamPromised StreamEnds CloseCompletes
CHECK_DEADLOCK FALSE
