------------------------------ MODULE RunLease ------------------------------
(***************************************************************************)
(* The workflow-run lease of agent_app/runtime/lease_backend.py, class     *)
(* InMemoryWorkflowLeaseBackend: one entry of the dict _leases per run,    *)
(* acquired, refreshed, stolen, renewed and released by workers.  Every    *)
(* method runs without an await between reading and writing the entry, so  *)
(* each is one action here.                                                *)
(*                                                                         *)
(* Time is relative: expiresIn is expires_at - now, counted down by        *)
(* LeaseTick and 0 once now >= expires_at.  The version of a lease and its *)
(* acquired_at, renewed_at and released_at times are never read by a       *)
(* decision of the code and are left out.                                  *)
(***************************************************************************)
EXTENDS Integers

CONSTANTS Runs,        \* workflow run ids
          Workers,     \* WorkerIdentity.worker_id values
          AcquireTtl,  \* LeasePolicy.ttl_seconds of the acquiring caller
          RenewTtl,    \* LeasePolicy.ttl_seconds of the renewing caller
          AllowSteal,  \* LeasePolicy.allow_steal_expired
          NoLease      \* no entry in _leases

\* ttl_seconds is declared ge=1 (dag_run_state.py, LeasePolicy).
ASSUME TtlAssumption == AcquireTtl \in Nat \ {0} /\ RenewTtl \in Nat \ {0}
ASSUME AllowStealAssumption == AllowSteal \in BOOLEAN

VARIABLES lease,   \* the backend: the _leases entry of each run
          grant    \* the client side: for how long the last lease object handed
                   \* to a worker still promises it the run (0: no promise)

leaseVars == <<lease, grant>>

Lease == [owner : Workers, expiresIn : Nat, released : BOOLEAN]

ASSUME NoLeaseAssumption == NoLease \notin Lease

LeaseTypeOK ==
    /\ lease \in [Runs -> Lease \cup {NoLease}]
    /\ grant \in [Runs -> [Workers -> Nat]]

LeaseInit ==
    /\ lease = [r \in Runs |-> NoLease]
    /\ grant = [r \in Runs |-> [w \in Workers |-> 0]]

----------------------------------------------------------------------------
Held(r)      == lease[r] # NoLease /\ ~lease[r].released
\* Mutant of Expired: the comparison never succeeds.
NeverExpired(r) == lease[r].expiresIn < 0
Expired(r)   == lease[r].expiresIn = 0
HeldBy(r, w) == Held(r) /\ lease[r].owner = w
Live(r, w)   == HeldBy(r, w) /\ ~Expired(r)

\* A lease object valid for ttl seconds is stored and returned to w.
Grant(r, w, ttl) ==
    /\ lease' = [lease EXCEPT ![r] =
                   [owner |-> w, expiresIn |-> ttl, released |-> FALSE]]
    /\ grant' = [grant EXCEPT ![r][w] = ttl]

\* Mutant of AcquireSteal: the lease is not checked for expiry.
StealUnexpired(r, w) == Held(r) /\ AllowSteal /\ Grant(r, w, AcquireTtl)

\* acquire_run_lease, one action per path that succeeds ...
AcquireFresh(r, w)   == ~Held(r) /\ Grant(r, w, AcquireTtl)
AcquireSteal(r, w)   == Held(r) /\ Expired(r) /\ AllowSteal /\ Grant(r, w, AcquireTtl)
AcquireRefresh(r, w) == Live(r, w) /\ Grant(r, w, AcquireTtl)

AcquireLease(r, w) ==
    AcquireFresh(r, w) \/ AcquireSteal(r, w) \/ AcquireRefresh(r, w)

\* ... and the condition under which it answers acquired=False.
AcquireDenied(r, w) ==
    /\ Held(r)
    /\ \/ Expired(r) /\ ~AllowSteal
       \/ ~Expired(r) /\ lease[r].owner # w

\* Mutant of RenewLease: the owner is not checked.
RenewForeign(r, w) == Held(r) /\ ~Expired(r) /\ Grant(r, w, RenewTtl)

\* renew_run_lease; it raises KeyError unless Live(r, w).
RenewLease(r, w) == Live(r, w) /\ Grant(r, w, RenewTtl)

\* Mutant of ReleaseLease: the owner is not checked.
ReleaseForeign(r, w) ==
    /\ Held(r)
    /\ lease' = [lease EXCEPT ![r].released = TRUE]
    /\ grant' = [grant EXCEPT ![r][w] = 0]

\* release_run_lease; it raises KeyError unless HeldBy(r, w).  A lease that
\* expired and that nobody stole can still be released.
ReleaseLease(r, w) ==
    /\ HeldBy(r, w)
    /\ lease' = [lease EXCEPT ![r].released = TRUE]
    /\ grant' = [grant EXCEPT ![r][w] = 0]

\* Mutant of CountDown: it goes below zero.
CountDownOn(n) == n - 1
CountDown(n) == IF n = 0 THEN 0 ELSE n - 1

\* A second of the wall clock passes for the backend and its clients alike.
LeaseTick ==
    /\ lease' = [r \in Runs |->
                   IF Held(r) THEN [lease[r] EXCEPT !.expiresIn = CountDown(@)]
                              ELSE lease[r]]
    /\ grant' = [r \in Runs |-> [w \in Workers |-> CountDown(grant[r][w])]]

LeaseNext ==
    \/ \E r \in Runs, w \in Workers :
          \/ AcquireFresh(r, w)
          \/ AcquireSteal(r, w)
          \/ AcquireRefresh(r, w)
          \/ RenewLease(r, w)
          \/ ReleaseLease(r, w)
    \/ LeaseTick

LeaseSpec == LeaseInit /\ [][LeaseNext]_leaseVars

----------------------------------------------------------------------------
\* What a worker was promised, the backend keeps: until the lease object it
\* was handed expires, or it released it, the entry names the worker as the
\* owner and runs out at the very moment the worker expects.  Steal, refresh,
\* renewal and a late release of somebody else all write the same entry
\* (lease_backend.py:253-430).
GrantHonoured ==
    \A r \in Runs, w \in Workers :
        grant[r][w] > 0 => Live(r, w) /\ lease[r].expiresIn = grant[r][w]

\* No two workers hold an unexpired promise for one run, whatever the order
\* in which they acquire, lose, renew and release it.
OneHolder ==
    \A r \in Runs, v, w \in Workers :
        grant[r][v] > 0 /\ grant[r][w] > 0 => v = w

\* The tenancy contract: a run passes from one worker to another only through
\* being free.  The tenant of a run is the owner of its live entry.
Tenants == [r \in Runs |-> {w \in Workers : Live(r, w)}]

Tenancy == INSTANCE RunTenancy WITH tenant <- Tenants
TenancySpec == Tenancy!Spec
=============================================================================
