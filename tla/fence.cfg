SPECIFICATION FenceSpec
CONSTANTS
    Recipients = {"architect", "quality", "engineering"}
    MaxExecutions = 3
    MaxProgress = 2
INVARIANTS
    FenceTypeOK
    DenseAttempts
    OneLiveExecution
    RunningNeedsOpenTask
    ResultMatchesTask
PROPERTIES
    FencedStaysFenced
    PublishedByLiveOwner
    ProgressNeverLost
CHECK_DEADLOCK FALSE
