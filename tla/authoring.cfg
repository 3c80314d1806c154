SPECIFICATION Spec
CONSTANTS
    Roles = {"architect", "product_manager"}
    Callers = {c1, c2}
    Documents = {d1, d2}
    Sources = {"prd", "file", "list"}
    Prd = "prd"
    MaxTurns = 3
    MaxInspections = 2
    AttemptBound = 3
SYMMETRY Alike
INVARIANTS CheckpointIsTrue OneDocument
CHECK_DEADLOCK FALSE
