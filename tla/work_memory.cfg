SPECIFICATION FairSpec
CONSTANTS
    Files = {1, 2}
    LineCount <- Length
    Items = {1}
    Checks = {"full"}
    Covers <- Inclusions
    Excerpt = 2
    ContextLimit = 2
    MaxEvidenceFiles = 1
    GuidanceAfterSteps = 1
    GuidanceGraceTurns = 1
    MaxDuplicateSteps = 2
    MaxInspectionSteps = 3
    MaxInspectionTurns = 2
    StalledInspectionTurns = 1
    MaxRedundantReads = 2
    GuidanceAfterRedundantReads = 1
    BatchLimit = 2
    VersionBound = 1
    ReplanBound = 1
    RetryBound = 1
    AgeBound = 1
INVARIANTS MemoryTypeOK SeenWasShown
PROPERTIES StallIsDetected
CHECK_DEADLOCK FALSE
