\* Two runs and three workers, so that a lease can pass to one worker while two
\* others still act on theirs; the two ttls differ, as they do whenever the
\* configured ttl is not the renewer's default.
SPECIFICATION LeaseSpec
CONSTANTS
    Runs = {r1, r2}
    Workers = {w1, w2, w3}
    AcquireTtl = 2
    RenewTtl = 3
    AllowSteal = TRUE
    NoLease = NoLease
INVARIANTS
    GrantHonoured
PROPERTIES
    TenancySpec
