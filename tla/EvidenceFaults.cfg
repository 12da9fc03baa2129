SPECIFICATION Spec
CONSTANTS
    Events = {1, 2}
    Days = {1}
    DayOf <- MCDayOf
    Quota = 1
    BatchSize = 2
    SpoolCapacity = 2
    Foreign = {}
    Rejectable = {1}
    MaxStops = 1
    MaxFaults = 2
    MaxLate = 2
    NoEvent = NoEvent
CHECK_DEADLOCK FALSE
INVARIANTS TypeOK FinalisedIsRecorded OnlyDeliveredIsUploaded UploadedIsAttached PendingKeepsFile
PROPERTIES FinalStaysFinal
