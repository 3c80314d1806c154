SPECIFICATION Spec
CONSTANTS
    Callers = {c1, c2}
    MaxCycles = 2
    PlanBound = 5
    RunBound = 2
    LeadBound = 1
SYMMETRY CallerSymmetry
INVARIANTS PipelineTypeOK NoFork ReleasedAsApproved DecisionHonoured StoppedMeansOver
PROPERTIES KeepsThePromise
CHECK_DEADLOCK FALSE
