SPECIFICATION Spec
CONSTANTS
    Tests = {t1, t2}
    Contracts = {a, b}
    Defects = {d1}
    ResolutionLimit = 1
    SuiteLimit = 2
    BaseTurns = 10
    ExtraTurns = 1
    MaxTurnGrants = 1
    BaseRuns = 1
    ExtraRuns = 1
    MaxRunGrants = 1
    AttemptBound = 2
    TaskBound = 2
SYMMETRY Alike
INVARIANTS CheckpointStaysReadable PassedIsProven
CHECK_DEADLOCK FALSE
