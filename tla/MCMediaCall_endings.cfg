\* Endings racing with audio in flight, a failing disk and a socket whose close may raise.
SPECIFICATION Spec
CONSTANTS
    Shapes <- AudioShapes
    MaxMessages = 2
    MaxFrames = 1
    TransportMayRaise = TRUE
    ArtifactsMayFail = TRUE
INVARIANTS TypeOK RecordOnceAndLast RecordHasEveryTurn OnlyRaisingLosesRecord
PROPERTIES NoTaskStuck EndingReachesRecord StoryTold
CHECK_DEADLOCK FALSE
