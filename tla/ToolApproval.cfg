\* Two tool calls to approve, three calls in two processes, one crash.
SPECIFICATION Spec
CONSTANTS
    Calls = {c1, c2, c3}
    Runner = runner
    Procs = {p1, p2}
    a1 = a1
    a2 = a2
    ApprovalIds <- TwoApprovals
    Late = late
    MaxCrashes = 1
INVARIANTS
    ApprovalTypeOK
    ExecutedWasApproved
    DecisionsExclusive
    ResumedOnce
    ExecutedOnce
    ResumeNotLost
PROPERTIES
    RejectedStaysClosed
SYMMETRY Symmetry
CHECK_DEADLOCK FALSE
