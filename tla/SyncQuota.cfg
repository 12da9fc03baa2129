SPECIFICATION Spec
CONSTANTS
    r1 = r1
    r2 = r2
    Requests = {r1, r2}
    Events = {1, 3, 5}
    Days = {1}
    DayOf <- MCDayOf
    Quota = 2
    Cameras = {c1}
    NoCamera = NoCamera
    QuotaEnabled = TRUE
    BatchSize = 2
SYMMETRY Symmetry
INVARIANTS TypeOK CountersExact WithinQuota AcceptedOnce AnswersAreRecorded
PROPERTIES ImplementsLedger
