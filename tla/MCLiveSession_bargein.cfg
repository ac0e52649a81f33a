\* A barge-in: one caller, who says all there is to say around a turn_complete.
SPECIFICATION Spec
CONSTANTS
    c1 = c1
    Closers = {c1}
    Shapes <- BargeIn
    MaxMessages = 4
    MaxFrames = 0
    TransportMayRaise = FALSE
INVARIANTS CallerTurnsWhole
CHECK_DEADLOCK FALSE
