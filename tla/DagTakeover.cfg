\* One execution and two resumptions of one run; leases may lapse, calls crash
\* or are cancelled once.
SPECIFICATION Spec
CONSTANTS
    x = x
    y = y
    p = p
    q = q
    r1 = r1
    r2 = r2
    w1 = w1
    w2 = w2
    w3 = w3
    w4 = w4
    k = k
    NoKey = NoKey
    NoLease = NoLease
    Runs = {r1}
    Workers = {w1, w2, w3}
    Calls = {x, p, q}
    Starters = {x}
    RunOf <- MCRunOf
    WorkerOf <- MCWorkerOf
    KeyOf <- NoKeys
    NodeCount = 2
    Deps <- Chain
    Conditional = {}
    HasDeadline = FALSE
    NodeOutcomes = {"completed", "failed"}
    SnapshotsEnabled = FALSE
    RetryFailed = TRUE
    RenewerKeepsUp = FALSE
    AcquireTtl = 2
    RenewTtl = 2
    AllowSteal = TRUE
    MaxCrashes = 1
INVARIANTS
    TypeOK
    CompletedIsDone
    NoLeaseAfterCall
PROPERTIES
    NoOvertaking
