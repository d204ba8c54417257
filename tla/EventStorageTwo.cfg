SPECIFICATION Spec
CONSTANTS
    w1 = w1  w2 = w2  p1 = p1  p2 = p2  e1 = e1  e2 = e2
    ep1 = ep1  ep2 = ep2  x = x  y = y  bad = bad  odd = odd  d1 = d1
    Worker = {w1, w2}
    Partition = {p1, p2}
    EventId = {e1, e2}
    Endpoint = {ep1, ep2}
    Payload = {x}
    Day = {d1}
    PartitionOf <- TwoPartitions
    DayOf <- XOneDay
    Malformed = {}
    Unreadable = {}
    Sent <- TwoEndpointSent
    MaxRetries = 1
    MaxLog = 1
    MaxFaults = 2
INVARIANTS StorageInv OneIdentity RegisteredIsStored NoMessageLost FailureIsBacked
PROPERTIES FrozenDayIsImmutable ImplementsLedger
CHECK_DEADLOCK FALSE
