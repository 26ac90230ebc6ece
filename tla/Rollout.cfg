\* Two processes and three users; the first step needs the approval of two
\* users, both have a gate, one process may die.
SPECIFICATION Spec
CONSTANTS
    s1 = s1
    s2 = s2
    Workers = {w1, w2}
    Users = {u1, u2, u3}
    Steps <- TwoSteps
    Prev <- Chain
    NeedApproval = {s1}
    Gated = {s2}
    NoStep = NoStep
    Approvals = {a1, a2}
    NoApproval = NoApproval
    Required = 2
    MaxAttempts = 2
    MaxDisturbances = 2
SYMMETRY Symmetry
INVARIANTS
    RolloutTypeOK
    ExecutedWasApproved
    CarriedOutOnce
    RejectionStands
PROPERTIES
    KeepsPromise
CHECK_DEADLOCK FALSE
