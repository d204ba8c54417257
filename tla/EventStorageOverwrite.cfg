SPECIFICATION Spec
CONSTANTS
    w1 = w1  w2 = w2  p1 = p1  p2 = p2  e1 = e1  e2 = e2
    ep1 = ep1  ep2 = ep2  x = x  y = y  bad = bad  odd = odd  d1 = d1
    Worker = {w1, w2}
    Partition = {p1}
    EventId = {e1, e2}
    Endpoint = {ep1}
    Payload = {x, y, bad, odd}
    Day = {d1}
    PartitionOf <- OnePartition
    DayOf <- OneDay
    Malformed = {bad}
    Unreadable = {odd}
    Sent <- ConflictSent
    MaxRetries = 1
    MaxLog = 2
    MaxFaults = 3
INVARIANTS FailureChecksumMatches
CHECK_DEADLOCK FALSE
