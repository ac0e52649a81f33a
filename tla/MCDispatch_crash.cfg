\* Two runs of one call overlapping, every write failing, the process killed anywhere.
SPECIFICATION Spec
CONSTANTS
    A = A
    p1 = p1
    p2 = p2
    None = None
    Calls = {A}
    Runs = {p1, p2}
    Configured = {"sms", "email"}
    CallOf <- TwoRuns
    DiskFaults = {"mkdir", "files", "marker"}
    MayCrash = TRUE
INVARIANTS TypeOK AtMostOneSms OkMeansSent BriefAgrees
PROPERTIES RunsEnd
CHECK_DEADLOCK FALSE
