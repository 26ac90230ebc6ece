\* A run whose executor, or one of the two calls that resume it, dies.
SPECIFICATION FairSpec
CONSTANTS
    x = x
    y = y
    p = p
    q = q
    r1 = r1
    r2 = r2
    w1 = w1
    w2 = w2
    w3 = w3
    w4 = w4
    k = k
    NoKey = NoKey
    NoLease = NoLease
    AllowSteal = TRUE
    Runs = {r1}
    Workers = {w1, w2, w3}
    Calls = {x, p, q}
    Starters = {x}
    RunOf <- MCRunOf
    WorkerOf <- MCWorkerOf
    KeyOf <- NoKeys
    NodeCount = 1
    Deps <- Chain
    Conditional = {}
    HasDeadline = FALSE
    NodeOutcomes = {"completed", "failed"}
    SnapshotsEnabled = FALSE
    RetryFailed = TRUE
    RenewerKeepsUp = FALSE
    AcquireTtl = 1
    RenewTtl = 1
    MaxCrashes = 1
PROPERTIES
    RunFinishes
