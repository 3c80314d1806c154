SPECIFICATION Spec
CONSTANTS
    Workers = {w1, w2}
    Items = {1, 2}
    Versions = {0, 1, 2}
    Probes = {"old"}
    Builds = {0, 1}
    Answers <- AllAnswers
    First <- Inherited
    QualityRepair = FALSE
    Shared = TRUE
    MaxTurns = 3
    MaxCalls = 4
    MaxRounds = 1
    AttemptBound = 2
    RetryBound = 0
    CrashBound = 0
INVARIANTS LoopTypeOK PublishedIsVerified
PROPERTIES NoLostEdit
SYMMETRY AnyWorker
CHECK_DEADLOCK FALSE
