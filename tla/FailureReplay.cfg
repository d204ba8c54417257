SPECIFICATION FairSpec
CONSTANTS
    r1 = r1  r2 = r2  Nobody = Nobody
    Replay = {r1, r2}
    MaxClock = 4
    MaxFaults = 2
INVARIANTS ReplayTypeOK ResultsAreCounted PublishedIsTrue
PROPERTIES EventuallySettled
CHECK_DEADLOCK FALSE
