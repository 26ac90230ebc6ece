--------------------------- MODULE RunLeaseProofs ---------------------------
(***************************************************************************)
(* Proofs about RunLease for every set of runs and workers and every ttl.  *)
(***************************************************************************)
EXTENDS RunLease, TLAPS

(* The entries and promises keep their shape under every operation of      *)
(* InMemoryWorkflowLeaseBackend.                                           *)
LEMMA TypeStep == LeaseTypeOK /\ [LeaseNext]_leaseVars => LeaseTypeOK'
<1> SUFFICES ASSUME LeaseTypeOK, [LeaseNext]_leaseVars PROVE LeaseTypeOK'
    OBVIOUS
<1> USE DEF LeaseTypeOK, Lease
<1>1. ASSUME NEW r \in Runs, NEW w \in Workers, NEW ttl \in Nat, Grant(r, w, ttl)
      PROVE  LeaseTypeOK'
    BY <1>1 DEF Grant
<1>2. ASSUME NEW r \in Runs, NEW w \in Workers,
             AcquireFresh(r, w) \/ AcquireSteal(r, w) \/ AcquireRefresh(r, w)
      PROVE  LeaseTypeOK'
    BY <1>1, <1>2, TtlAssumption DEF AcquireFresh, AcquireSteal, AcquireRefresh
<1>3. ASSUME NEW r \in Runs, NEW w \in Workers, RenewLease(r, w)
      PROVE  LeaseTypeOK'
    BY <1>1, <1>3, TtlAssumption DEF RenewLease
<1>4. ASSUME NEW r \in Runs, NEW w \in Workers, ReleaseLease(r, w)
      PROVE  LeaseTypeOK'
    BY <1>4 DEF ReleaseLease, HeldBy, Held
<1>5. ASSUME LeaseTick PROVE LeaseTypeOK'
  <2>1. \A n \in Nat : CountDown(n) \in Nat
      BY DEF CountDown
  <2>2. \A r \in Runs : lease'[r] \in Lease \cup {NoLease}
      BY <1>5, <2>1 DEF LeaseTick, Held
  <2>3. \A r \in Runs : grant'[r] \in [Workers -> Nat]
      BY <1>5, <2>1 DEF LeaseTick
  <2> QED
      BY <1>5, <2>2, <2>3 DEF LeaseTick
<1>6. CASE UNCHANGED leaseVars
    BY <1>6 DEF leaseVars
<1> QED
    BY <1>2, <1>3, <1>4, <1>5, <1>6 DEF LeaseNext

(* Type correctness: whatever the workers do, every run has no entry or a  *)
(* well-formed one, and every promise is a number of seconds.              *)
THEOREM TypeCorrect == LeaseSpec => []LeaseTypeOK
<1>1. LeaseInit => LeaseTypeOK
    BY DEF LeaseInit, LeaseTypeOK
<1> QED
    BY <1>1, TypeStep, PTL DEF LeaseSpec

-----------------------------------------------------------------------------
(* An entry that acquire or renew writes is never mistaken for no entry.  *)
LEMMA EntryIsNoLease ==
    ASSUME NEW w \in Workers, NEW ttl \in Nat
    PROVE  [owner |-> w, expiresIn |-> ttl, released |-> FALSE] # NoLease
<1>1. [owner |-> w, expiresIn |-> ttl, released |-> FALSE] \in Lease
    BY DEF Lease
<1> QED
    BY <1>1, NoLeaseAssumption

(* A lease handed out for ttl seconds is live and has ttl seconds left.    *)
LEMMA GrantedIsLive ==
    ASSUME NEW r \in Runs, NEW w \in Workers, NEW ttl \in Nat \ {0},
           LeaseTypeOK, Grant(r, w, ttl)
    PROVE  Live(r, w)' /\ lease'[r].expiresIn = ttl
<1>1. lease'[r] = [owner |-> w, expiresIn |-> ttl, released |-> FALSE]
    BY DEF Grant, LeaseTypeOK
<1>2. lease'[r] # NoLease
    BY <1>1, EntryIsNoLease
<1> QED
    BY <1>1, <1>2 DEF Live, HeldBy, Held, Expired

(* Handing out a lease keeps every promise when nobody else holds one.     *)
LEMMA GrantStep ==
    ASSUME NEW r \in Runs, NEW w \in Workers, NEW ttl \in Nat,
           LeaseTypeOK, GrantHonoured, Grant(r, w, ttl),
           \A v \in Workers \ {w} : ~Live(r, v)
    PROVE  GrantHonoured'
<1> USE DEF GrantHonoured, LeaseTypeOK, Live, HeldBy, Held, Expired
<1> SUFFICES ASSUME NEW s \in Runs, NEW v \in Workers, grant'[s][v] > 0
             PROVE  Live(s, v)' /\ lease'[s].expiresIn = grant'[s][v]
    OBVIOUS
<1>1. CASE s # r
    BY <1>1 DEF Grant
<1>2. CASE s = r /\ v # w
  <2>1. grant[r][v] = 0
      BY <1>2
  <2> QED
      BY <1>2, <2>1 DEF Grant
<1>3. CASE s = r /\ v = w
  <2>1. lease'[r] = [owner |-> w, expiresIn |-> ttl, released |-> FALSE]
      BY DEF Grant
  <2>2. grant'[r][w] = ttl
      BY DEF Grant
  <2>3. lease'[r] # NoLease
      BY <2>1, EntryIsNoLease
  <2> QED
      BY <1>3, <2>1, <2>2, <2>3
<1> QED
    BY <1>1, <1>2, <1>3

(* No operation of the backend breaks a promise.                           *)
LEMMA HonouredStep ==
    LeaseTypeOK /\ GrantHonoured /\ [LeaseNext]_leaseVars => GrantHonoured'
<1> SUFFICES ASSUME LeaseTypeOK, GrantHonoured, [LeaseNext]_leaseVars
             PROVE  GrantHonoured'
    OBVIOUS
<1>1. ASSUME NEW r \in Runs, NEW w \in Workers, AcquireFresh(r, w)
      PROVE  GrantHonoured'
    BY <1>1, GrantStep, TtlAssumption DEF AcquireFresh, Live, HeldBy
<1>2. ASSUME NEW r \in Runs, NEW w \in Workers, AcquireSteal(r, w)
      PROVE  GrantHonoured'
    BY <1>2, GrantStep, TtlAssumption DEF AcquireSteal, Live
<1>3. ASSUME NEW r \in Runs, NEW w \in Workers,
             AcquireRefresh(r, w) \/ RenewLease(r, w)
      PROVE  GrantHonoured'
    BY <1>3, GrantStep, TtlAssumption DEF AcquireRefresh, RenewLease, Live, HeldBy
<1>4. ASSUME NEW r \in Runs, NEW w \in Workers, ReleaseLease(r, w)
      PROVE  GrantHonoured'
  <2> SUFFICES ASSUME NEW s \in Runs, NEW v \in Workers, grant'[s][v] > 0
               PROVE  Live(s, v)' /\ lease'[s].expiresIn = grant'[s][v]
      BY DEF GrantHonoured
  <2>1. s # r
    <3>1. grant'[r][w] = 0
        BY <1>4 DEF ReleaseLease, LeaseTypeOK
    <3>2. ASSUME NEW u \in Workers \ {w} PROVE grant'[r][u] = 0
        BY <1>4 DEF ReleaseLease, LeaseTypeOK, GrantHonoured, Live, HeldBy
    <3> QED
        BY <3>1, <3>2
  <2> QED
      BY <1>4, <2>1 DEF ReleaseLease, LeaseTypeOK, GrantHonoured, Live, HeldBy, Held, Expired
<1>5. ASSUME LeaseTick PROVE GrantHonoured'
  <2> SUFFICES ASSUME NEW s \in Runs, NEW v \in Workers, grant'[s][v] > 0
               PROVE  Live(s, v)' /\ lease'[s].expiresIn = grant'[s][v]
      BY DEF GrantHonoured
  <2>1. /\ grant[s][v] > 1
        /\ grant'[s][v] = grant[s][v] - 1
      BY <1>5 DEF LeaseTick, LeaseTypeOK, CountDown
  <2>2. Live(s, v) /\ lease[s].expiresIn = grant[s][v]
      BY <2>1 DEF GrantHonoured, LeaseTypeOK
  <2>3. lease'[s] = [lease[s] EXCEPT !.expiresIn = lease[s].expiresIn - 1]
      BY <1>5, <2>1, <2>2 DEF LeaseTick, CountDown, Live, HeldBy
  <2>4. lease[s] \in Lease
      BY <2>2 DEF LeaseTypeOK, Live, HeldBy, Held
  <2>5. /\ lease'[s].owner = lease[s].owner
        /\ lease'[s].released = lease[s].released
        /\ lease'[s].expiresIn = lease[s].expiresIn - 1
        /\ lease'[s] \in Lease
      BY <2>1, <2>2, <2>3, <2>4 DEF Lease, LeaseTypeOK
  <2> QED
      BY <2>1, <2>2, <2>5, NoLeaseAssumption DEF Live, HeldBy, Held, Expired, LeaseTypeOK
<1>6. CASE UNCHANGED leaseVars
    BY <1>6 DEF leaseVars, GrantHonoured, Live, HeldBy, Held, Expired
<1> QED
    BY <1>1, <1>2, <1>3, <1>4, <1>5, <1>6 DEF LeaseNext

(* A worker can rely on the lease object it was handed until that expires: *)
(* nobody else's acquire, renewal or late release takes the run from it.   *)
THEOREM PromiseKept == LeaseSpec => []GrantHonoured
<1>1. LeaseInit => GrantHonoured
    BY DEF LeaseInit, GrantHonoured
<1> QED
    BY <1>1, TypeCorrect, HonouredStep, PTL DEF LeaseSpec

(* Mutual exclusion: no two workers hold an unexpired lease object.        *)
THEOREM MutualExclusion == LeaseSpec => []OneHolder
<1>1. GrantHonoured => OneHolder
    BY DEF GrantHonoured, OneHolder, Live, HeldBy
<1> QED
    BY <1>1, PromiseKept, PTL

-----------------------------------------------------------------------------
(* A step of the backend moves a worker in only where the run was free.    *)
LEMMA TenantOfGrant ==
    ASSUME NEW r \in Runs, NEW w \in Workers, NEW ttl \in Nat \ {0},
           LeaseTypeOK, Grant(r, w, ttl)
    PROVE  Tenants' = [Tenants EXCEPT ![r] = {w}]
<1> USE DEF LeaseTypeOK
<1>1. /\ lease'[r] = [owner |-> w, expiresIn |-> ttl, released |-> FALSE]
      /\ \A s \in Runs \ {r} : lease'[s] = lease[s]
    BY DEF Grant
<1>2. [owner |-> w, expiresIn |-> ttl, released |-> FALSE] # NoLease
    BY EntryIsNoLease
<1>3. ASSUME NEW v \in Workers PROVE Live(r, v)' <=> v = w
    BY <1>1, <1>2 DEF Live, HeldBy, Held, Expired
<1>4. ASSUME NEW s \in Runs \ {r}, NEW v \in Workers PROVE Live(s, v)' <=> Live(s, v)
    BY <1>1, <1>4 DEF Live, HeldBy, Held, Expired
<1>5. {v \in Workers : Live(r, v)'} = {w}
    BY <1>3
<1>6. ASSUME NEW s \in Runs \ {r}
      PROVE  {v \in Workers : Live(s, v)'} = {v \in Workers : Live(s, v)}
    BY <1>4, <1>6
<1> QED
    BY <1>5, <1>6 DEF Tenants

(* A release and the passing of time only move workers out.                *)
LEMMA TenantsMoveOut ==
    ASSUME NEW freed \in SUBSET Runs,
           \A s \in freed, v \in Workers : ~Live(s, v)',
           \A s \in Runs \ freed, v \in Workers : Live(s, v)' <=> Live(s, v)
    PROVE  Tenancy!MoveOut(freed)
<1>1. \A s \in freed : {v \in Workers : Live(s, v)'} = {}
    OBVIOUS
<1>2. ASSUME NEW s \in Runs \ freed
      PROVE  {v \in Workers : Live(s, v)'} = {v \in Workers : Live(s, v)}
    BY <1>2
<1>3. Tenants' = [s \in Runs |-> IF s \in freed THEN {} ELSE Tenants[s]]
    BY <1>1, <1>2 DEF Tenants
<1> QED
    BY <1>3 DEF Tenancy!MoveOut

(* The lease backend implements the tenancy contract: every operation is a *)
(* move in, a move out or invisible, so that a run never changes hands     *)
(* without having been free.                                               *)
THEOREM ImplementsTenancy == LeaseSpec => TenancySpec
<1>1. LeaseInit => Tenancy!Init
    BY DEF LeaseInit, Tenancy!Init, Tenants, Live, HeldBy, Held
<1>2. LeaseTypeOK /\ [LeaseNext]_leaseVars => [Tenancy!Next]_Tenants
  <2> SUFFICES ASSUME LeaseTypeOK, [LeaseNext]_leaseVars
               PROVE  [Tenancy!Next]_Tenants
      OBVIOUS
  <2>1. ASSUME NEW r \in Runs, NEW w \in Workers, NEW ttl \in Nat \ {0},
               Grant(r, w, ttl), Tenants[r] = {} \/ Tenants[r] = {w}
        PROVE  [Tenancy!Next]_Tenants
    <3>1. Tenants' = [Tenants EXCEPT ![r] = {w}]
        BY <2>1, TenantOfGrant
    <3>2. CASE Tenants[r] = {}
        BY <3>1, <3>2 DEF Tenancy!Next, Tenancy!MoveIn
    <3>3. CASE Tenants[r] = {w}
      <4>1. Tenants' = Tenants
          BY <3>1, <3>3 DEF Tenants
      <4> QED
          BY <4>1
    <3> QED
        BY <2>1, <3>2, <3>3
  <2>2. ASSUME NEW r \in Runs, NEW w \in Workers,
               AcquireFresh(r, w) \/ AcquireSteal(r, w)
        PROVE  [Tenancy!Next]_Tenants
    <3>1. Tenants[r] = {}
        BY <2>2 DEF AcquireFresh, AcquireSteal, Tenants, Live, HeldBy
    <3> QED
        BY <2>1, <2>2, <3>1, TtlAssumption DEF AcquireFresh, AcquireSteal
  <2>3. ASSUME NEW r \in Runs, NEW w \in Workers,
               AcquireRefresh(r, w) \/ RenewLease(r, w)
        PROVE  [Tenancy!Next]_Tenants
    <3>1. Live(r, w)
        BY <2>3 DEF AcquireRefresh, RenewLease
    <3>2. {v \in Workers : Live(r, v)} = {w}
        BY <3>1 DEF Live, HeldBy
    <3>3. Tenants[r] = {w}
        BY <3>2 DEF Tenants
    <3> QED
        BY <2>1, <2>3, <3>3, TtlAssumption DEF AcquireRefresh, RenewLease
  <2>4. ASSUME NEW freed \in SUBSET Runs, Tenancy!MoveOut(freed)
        PROVE  [Tenancy!Next]_Tenants
      BY <2>4 DEF Tenancy!Next
  <2>5. ASSUME NEW r \in Runs, NEW w \in Workers, ReleaseLease(r, w)
        PROVE  [Tenancy!Next]_Tenants
    <3>1. lease[r] \in Lease
        BY <2>5 DEF ReleaseLease, HeldBy, Held, LeaseTypeOK
    <3>2. lease'[r].released /\ \A s \in Runs \ {r} : lease'[s] = lease[s]
        BY <2>5, <3>1 DEF ReleaseLease, LeaseTypeOK, Lease
    <3>3. \A v \in Workers : ~Live(r, v)'
        BY <3>2 DEF Live, HeldBy, Held
    <3>4. \A s \in Runs \ {r}, v \in Workers : Live(s, v)' <=> Live(s, v)
        BY <3>2 DEF Live, HeldBy, Held, Expired
    <3>5. Tenancy!MoveOut({r})
        BY <3>3, <3>4, TenantsMoveOut
    <3> QED
        BY <2>4, <3>5
  <2>6. ASSUME LeaseTick PROVE [Tenancy!Next]_Tenants
    <3> DEFINE freed == {s \in Runs : \A v \in Workers : ~Live(s, v)'}
    <3>1. ASSUME NEW s \in Runs, NEW v \in Workers, Live(s, v)'
          PROVE  Live(s, v)
        BY <2>6, <3>1 DEF LeaseTick, Live, HeldBy, Held, Expired, LeaseTypeOK,
                          Lease, CountDown
    <3>2. ASSUME NEW s \in Runs \ freed, NEW v \in Workers
          PROVE  Live(s, v)' <=> Live(s, v)
      <4>1. PICK u \in Workers : Live(s, u)'
          OBVIOUS
      <4>2. Live(s, u)
          BY <3>1, <4>1
      <4>3. Live(s, v) => v = u
          BY <4>2 DEF Live, HeldBy
      <4> QED
          BY <3>1, <4>1, <4>3
    <3>3. freed \in SUBSET Runs
        OBVIOUS
    <3>4. Tenancy!MoveOut(freed)
      <4>1. \A s \in freed, v \in Workers : ~Live(s, v)'
          OBVIOUS
      <4> HIDE DEF freed
      <4> QED
          BY <3>2, <3>3, <4>1, TenantsMoveOut
    <3> QED
        BY <2>4, <3>3, <3>4
  <2>7. CASE UNCHANGED leaseVars
      BY <2>7 DEF leaseVars, Tenants, Live, HeldBy, Held, Expired
  <2> QED
      BY <2>2, <2>3, <2>5, <2>6, <2>7 DEF LeaseNext
<1> QED
    BY <1>1, <1>2, TypeCorrect, PTL DEF LeaseSpec, TenancySpec, Tenancy!Spec
=============================================================================
