SPECIFICATION FairArchSpec
CONSTANTS
    w1 = w1  p1 = p1  e1 = e1  e2 = e2  e3 = e3  ep1 = ep1  ep2 = ep2  x = x  d1 = d1
    Worker = {w1}
    Partition = {p1}
    EventId = {e1, e2}
    Endpoint = {ep1}
    Payload = {x}
    Day = {d1}
    PartitionOf <- OnePartition
    DayOf <- OneDay
    Malformed = {}
    Unreadable = {}
    Sent <- LateSent
    MaxRetries = 1
    MaxLog = 2
    MaxFaults = 1
    MaxSweepFaults = 1
PROPERTIES DeletionCompletes
CHECK_DEADLOCK FALSE
