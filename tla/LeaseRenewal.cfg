\* Both ttls exceed the interval, as by default (300 and 100 seconds); renewals
\* may be later than that allows.
SPECIFICATION FairSpec
CONSTANTS
    Runs = {r}
    Workers = {h, w1}
    run = r
    holder = h
    AcquireTtl = 12
    RenewTtl = 11
    MaxDelay = 9
    Interval = 4
    ChecksRun = TRUE
    AllowSteal = TRUE
    NoLease = NoLease
INVARIANTS
    RenewalTypeOK
    LeaseKept
PROPERTIES
    LossIsNoticed
