\* An execution and two resumptions of a run, and an execution of another run
\* under the same key; renewals are in time.
SPECIFICATION Spec
CONSTANTS
    x = x
    y = y
    p = p
    q = q
    r1 = r1
    r2 = r2
    w1 = w1
    w2 = w2
    w3 = w3
    w4 = w4
    k = k
    NoKey = NoKey
    NoLease = NoLease
    AllowSteal = TRUE
    Runs = {r1, r2}
    Workers = {w1, w2, w3, w4}
    Calls = {x, y, p, q}
    Starters = {x, y}
    RunOf <- MCRunOf
    WorkerOf <- MCWorkerOf
    KeyOf <- SharedKey
    NodeCount = 2
    Deps <- Chain
    Conditional = {}
    HasDeadline = FALSE
    NodeOutcomes = {"completed", "failed"}
    SnapshotsEnabled = TRUE
    RetryFailed = TRUE
    RenewerKeepsUp = TRUE
    AcquireTtl = 2
    RenewTtl = 3
    MaxCrashes = 1
INVARIANTS
    OneExecutor
    KeyUsedOnce
