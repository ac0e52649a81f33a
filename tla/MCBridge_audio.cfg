\* Every kind of frame and chunk, both writes failing, both peers stopping.
SPECIFICATION Spec
CONSTANTS
    None = None
    Frames <- AnyFrames
    Chunks <- AnyChunks
    MaxFrames = 2
    MaxChunks = 2
    TimingFails = TRUE
    WavFails = TRUE
INVARIANTS TypeOK NothingLost ClaimsTrue RecordingHolds HeardAsSpoken
CHECK_DEADLOCK FALSE
