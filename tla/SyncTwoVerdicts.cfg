SPECIFICATION Spec
CONSTANTS
    r1 = r1
    r2 = r2
    Requests = {r1, r2}
    Events = {1, 2}
    Days = {1}
    DayOf <- MCOneDay
    Quota = 1
    Cameras = {c1}
    NoCamera = NoCamera
    QuotaEnabled = TRUE
    BatchSize = 2
INVARIANTS OneOutcomePerEvent
