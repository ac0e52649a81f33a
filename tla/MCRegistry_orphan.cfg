\* Two retries of one webhook that overlap.
SPECIFICATION Spec
CONSTANTS
    A = A
    B = B
    C = C
    v1 = v1
    v2 = v2
    v3 = v3
    v4 = v4
    k1 = k1
    k2 = k2
    None = None
    Calls = {A}
    Webhooks = {v1, v2, v3}
    Sockets = {k1}
    CallOf <- OneCall
    TTL = 1
    MaxTime = 1
    Faults = {}
INVARIANTS NoOrphan
CHECK_DEADLOCK FALSE
