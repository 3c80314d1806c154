SPECIFICATION Spec
CONSTANTS
    Projects = {p1}
    Hashes = {1, 2}
    First = 1
    PortCount = 3
    SessionBound = 2
    PublishBound = 1
    FailureBound = 1
INVARIANTS NothingForgotten ReadyIsWhole
CHECK_DEADLOCK FALSE
