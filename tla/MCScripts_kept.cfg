\* Two processes over two days, killed anywhere, one read a day failing; or two mutation
\* runs, signals and kills anywhere.
SPECIFICATION Spec
CONSTANTS
    p1 = p1
    p2 = p2
    r1 = r1
    r2 = r2
    Procs = {p1, p2}
    Cap = 3
    MaxMisreads = 1
    LastDay = 2
    Runs = {r1, r2}
SYMMETRY Symmetric
INVARIANTS CapHolds TreeRestored
CHECK_DEADLOCK FALSE
