SPECIFICATION FairSpec
CONSTANTS
    Recipients = {"engineering", "quality"}
    MaxExecutions = 3
    MaxProgress = 0
    Workers = {w1, w2}
    Requests = {r1}
    NoOwner = NoOwner
    MaxJobAttempts = 1
    AttemptBound = 2
    Operations = {}
    Faults = {"crash", "error", "job_lease", "execution_lease"}
PROPERTIES
    JobsSettle
    ExecutionsEnd
CHECK_DEADLOCK FALSE
