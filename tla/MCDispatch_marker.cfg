\* One run whose marker cannot be written.
SPECIFICATION Spec
CONSTANTS
    A = A
    p1 = p1
    p2 = p2
    None = None
    Calls = {A}
    Runs = {p1, p2}
    Configured = {"sms", "email"}
    CallOf <- TwoRuns
    DiskFaults = {"marker"}
    MayCrash = FALSE
INVARIANTS EveryRunEmails
CHECK_DEADLOCK FALSE
