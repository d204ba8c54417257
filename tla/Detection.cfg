SPECIFICATION Spec
CONSTANTS
    w1 = w1  w2 = w2  e1 = e1  e2 = e2  bad = bad  odd = odd
    low = low  high = high  plain = plain  k1 = k1  NoKey = NoKey
    Worker = {w1, w2}
    Event = {e1, e2, bad, odd}
    Malformed = {bad}
    Unreadable = {odd}
    Rule = {low, high, plain}
    Matches <- TwoMatches
    Key = {k1}
    KeyOf <- TwoKeys
    Severity <- TwoSeverities
    WindowEnd <- EndsAtThree
    MaxRetries = 1
    MaxLog = 2
    MaxClock = 3
    MaxFaults = 2
    MaxEdits = 1
SYMMETRY Workers
INVARIANTS DetectionTypeOK NoDetectionLost IncidentSummarisesAlerts
PROPERTIES StatusIsTheAnalysts
CHECK_DEADLOCK FALSE
