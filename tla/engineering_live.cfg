SPECIFICATION FairSpec
CONSTANTS
    Workers = {w1, w2}
    Items = {1}
    Versions = {0, 1}
    Probes = {"old", "new"}
    Builds = {0, 1}
    Answers <- AllAnswers
    First <- Inherited
    QualityRepair = TRUE
    Shared = FALSE
    MaxTurns = 2
    MaxCalls = 3
    MaxRounds = 1
    AttemptBound = 2
    RetryBound = 1
    CrashBound = 1
INVARIANTS BudgetsHold GeneratedStands
PROPERTIES StopLossHolds ExecutionsEnd
CHECK_DEADLOCK FALSE
