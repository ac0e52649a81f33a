\* Any overlap of two calls' webhooks, retries and sockets, anything failing.
SPECIFICATION Spec
CONSTANTS
    A = A
    B = B
    C = C
    v1 = v1
    v2 = v2
    v3 = v3
    v4 = v4
    k1 = k1
    k2 = k2
    None = None
    Calls = {A, B}
    Webhooks = {v1, v2, v3}
    Sockets = {k1, k2}
    CallOf <- TwoCalls
    TTL = 0
    MaxTime = 1
    Faults = {"open", "close", "begin"}
INVARIANTS TypeOK OneHolder OrphanedByStartOnly CallKeepsSession
PROPERTIES RequestsFinish
CHECK_DEADLOCK FALSE
