SPECIFICATION FairSpec
CONSTANTS
    Callers = {c1}
    MaxCycles = 2
    PlanBound = 7
    RunBound = 1
    LeadBound = 1
INVARIANTS CyclesBounded
PROPERTIES NeverStranded
CHECK_DEADLOCK FALSE
