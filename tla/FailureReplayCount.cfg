SPECIFICATION Spec
CONSTANTS
    r1 = r1  r2 = r2  Nobody = Nobody
    Replay = {r1, r2}
    MaxClock = 4
    MaxFaults = 1
SYMMETRY Symmetry
INVARIANTS ReplayCountIsTotal
CHECK_DEADLOCK FALSE
