SPECIFICATION FairSpec
CONSTANTS
    Events = {1, 2, 3}
    Days = {1}
    DayOf <- MCDayOf
    Quota = 2
    BatchSize = 2
    SpoolCapacity = 2
    Foreign = {1}
    Rejectable = {}
    MaxStops = 1
    MaxFaults = 1
    MaxLate = 0
    NoEvent = NoEvent
CHECK_DEADLOCK FALSE
PROPERTIES PendingIsFinalised LoopIsYielded LinkedIsUploaded
