\* One execution and one resumption of a run whose nodes can end, be skipped
\* or be ruled out in every way but an interruption.
SPECIFICATION Spec
CONSTANTS
    x = x
    y = y
    p = p
    q = q
    r1 = r1
    r2 = r2
    w1 = w1
    w2 = w2
    w3 = w3
    w4 = w4
    k = k
    NoKey = NoKey
    NoLease = NoLease
    AllowSteal = TRUE
    Runs = {r1}
    Workers = {w1, w2}
    Calls = {x, p}
    Starters = {x}
    RunOf <- MCRunOf
    WorkerOf <- MCWorkerOf
    KeyOf <- ResumeKeys
    NodeCount = 3
    Deps <- Fork
    Conditional = {1}
    HasDeadline = TRUE
    NodeOutcomes = {"completed", "no_output", "failed"}
    SnapshotsEnabled = FALSE
    RetryFailed = TRUE
    RenewerKeepsUp = FALSE
    AcquireTtl = 2
    RenewTtl = 2
    MaxCrashes = 1
INVARIANTS
    ReportedIsDone
PROPERTIES
    DependenciesFirst
