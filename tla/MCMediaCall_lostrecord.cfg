\* A chunk that meets a finalised resampler kills the pump and with it the record.
SPECIFICATION Spec
CONSTANTS
    Shapes <- AudioShapes
    MaxMessages = 1
    MaxFrames = 0
    TransportMayRaise = FALSE
    ArtifactsMayFail = FALSE
INVARIANTS EndingHasRecord
CHECK_DEADLOCK FALSE
