SPECIFICATION Spec
CONSTANTS
    Recipients = {"quality"}
    MaxExecutions = 2
    MaxProgress = 0
    Workers = {w1, w2}
    Requests = {r1}
    NoOwner = NoOwner
    MaxJobAttempts = 2
    AttemptBound = 2
    Operations = {"continue", "pause", "cancel"}
    Faults = {"crash", "error", "job_lease", "execution_lease"}
SYMMETRY WorkerSymmetry
INVARIANTS
    SucceededJobHandedOff
    ExclusiveExecution
CHECK_DEADLOCK FALSE
