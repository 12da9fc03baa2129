SPECIFICATION FairSpec
CONSTANTS
    Events = {1, 2}
    Days = {1}
    DayOf <- MCDayOf
    Quota = 1
    BatchSize = 1
    SpoolCapacity = 2
    Foreign = {}
    Rejectable = {}
    MaxStops = 0
    MaxFaults = 0
    MaxLate = 0
    NoEvent = NoEvent
CHECK_DEADLOCK FALSE
PROPERTIES OutcomeReachesSnapshot
