\* A failed execution and two resumptions; two nodes to undo.
SPECIFICATION Spec
CONSTANTS
    Nodes = {n1, n2}
    Executor = x
    Resumers = {p, q}
    MaxAttempts = 2
    NoRecord = NoRecord
    MaxFaults = 1
INVARIANTS
    CompTypeOK
    CompletedIsUndone
    UndoneOnce
    AttemptsBounded
SYMMETRY Symmetry
CHECK_DEADLOCK FALSE
