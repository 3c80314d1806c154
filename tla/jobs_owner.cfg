SPECIFICATION Spec
CONSTANTS
    Recipients = {"architect", "engineering"}
    MaxExecutions = 2
    MaxProgress = 0
    Workers = {w1}
    Requests = {r1}
    NoOwner = NoOwner
    MaxJobAttempts = 2
    AttemptBound = 2
    Operations = {"continue", "pause", "cancel"}
    Faults = {"crash", "error", "job_lease"}
INVARIANTS
    JobsTypeOK
    SucceededJobHandedOff
PROPERTIES
    CancelledStaysClosed
    FenceSpec
CHECK_DEADLOCK FALSE
