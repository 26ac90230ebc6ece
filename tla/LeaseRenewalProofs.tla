-------------------------- MODULE LeaseRenewalProofs --------------------------
(***************************************************************************)
(* How late a renewal may be without costing the lease, for any number of  *)
(* rivals, any ttls and any interval.                                      *)
(***************************************************************************)
EXTENDS LeaseRenewal, RunLeaseProofs

\* The calls LeaseKept speaks of: their renewer has no reason to stop.
Guarded == Working /\ (ChecksRun => status = "running")

\* LeaseKept is not inductive: the lease must also have Slack seconds more than
\* the timer, and the loop must not have ended, until a renewal is that late.
AheadOfExpiry ==
    /\ loop = "waiting"
    /\ Live(run, holder)
    /\ lease[run].expiresIn >= timer + Slack

SlackInv == Guarded => AheadOfExpiry \/ timer <= -Slack

RenewalInv == RenewalTypeOK /\ SlackInv

-----------------------------------------------------------------------------
(* Every step of the call, its renewer and its rivals is a step of the     *)
(* lease backend, or leaves the backend alone.                             *)
LEMMA StepIsLeaseStep == [Next]_vars => [LeaseNext]_leaseVars
<1> SUFFICES ASSUME [Next]_vars PROVE [LeaseNext]_leaseVars
    OBVIOUS
<1> USE RenewalAssumption DEF LeaseNext, leaseVars, AcquireLease
<1>1. CASE StartWork
    BY <1>1 DEF StartWork
<1>2. CASE FinishNodes \/ StartCompensation \/ NoticeTerminal \/ NoticeLoss
    BY <1>2 DEF FinishNodes, StartCompensation, NoticeTerminal, NoticeLoss
<1>3. CASE EndWork
    BY <1>3 DEF EndWork
<1>4. CASE RenewOnTime
    BY <1>4 DEF RenewOnTime
<1>5. CASE \E w \in Workers : Rival(w)
    BY <1>5 DEF Rival
<1>6. CASE Tick
    BY <1>6 DEF Tick
<1>7. CASE UNCHANGED vars
    BY <1>7 DEF vars
<1> QED
    BY <1>1, <1>2, <1>3, <1>4, <1>5, <1>6, <1>7 DEF Next, Renewer

(* No rival can touch the entry of a run that the holder holds unexpired.  *)
LEMMA RivalIsHarmless ==
    ASSUME NEW w \in Workers, Rival(w), LeaseTypeOK, Live(run, holder)
    PROVE  lease' = lease
<1>1. ~AcquireLease(run, w)
    BY DEF Rival, AcquireLease, AcquireFresh, AcquireSteal, AcquireRefresh, Live, HeldBy
<1>2. ~RenewLease(run, w) /\ ~ReleaseLease(run, w)
    BY DEF Rival, RenewLease, ReleaseLease, Live, HeldBy
<1> QED
    BY <1>1, <1>2 DEF Rival

LEMMA SlackIsInt == /\ Slack \in Int
                    /\ AcquireTtl >= Interval + Slack
                    /\ RenewTtl >= Interval + Slack
BY TtlAssumption, RenewalAssumption DEF Slack

(* A second of waiting brings the wake-up and the expiry equally closer.   *)
LEMMA WaitStep ==
    ASSUME RenewalTypeOK, AheadOfExpiry, Tick
    PROVE  AheadOfExpiry' \/ timer' <= -Slack
<1> USE RenewalAssumption
<1>1. /\ lease[run] \in Lease
      /\ lease[run].expiresIn \in Nat \ {0}
      /\ timer \in Int
      /\ Held(run)
    BY DEF RenewalTypeOK, LeaseTypeOK, AheadOfExpiry, Live, HeldBy, Held, Expired, Lease
<1>2. lease'[run] = [lease[run] EXCEPT !.expiresIn = CountDown(lease[run].expiresIn)]
    BY <1>1 DEF Tick, LeaseTick
<1>3. /\ lease'[run].expiresIn = lease[run].expiresIn - 1
      /\ lease'[run].owner = lease[run].owner
      /\ lease'[run].released = lease[run].released
      /\ lease'[run] \in Lease
    BY <1>1, <1>2 DEF Lease, CountDown
<1>4. timer' = timer - 1 /\ loop' = "waiting"
    BY DEF Tick, AheadOfExpiry
<1>5. lease'[run].expiresIn >= timer' + Slack
    BY <1>1, <1>3, <1>4, SlackIsInt DEF AheadOfExpiry
<1>6. CASE lease'[run].expiresIn = 0
    BY <1>1, <1>4, <1>5, <1>6, SlackIsInt
<1>7. CASE lease'[run].expiresIn # 0
  <2>1. Live(run, holder)'
      BY <1>1, <1>3, <1>7, NoLeaseAssumption DEF AheadOfExpiry, Live, HeldBy, Held, Expired
  <2> QED
      BY <1>4, <1>5, <2>1 DEF AheadOfExpiry
<1> QED
    BY <1>6, <1>7

-----------------------------------------------------------------------------
(* Each action keeps the lease ahead of its expiry.                        *)
LEMMA RenewalStep == RenewalInv /\ [Next]_vars => RenewalInv'
<1> SUFFICES ASSUME RenewalInv, [Next]_vars PROVE RenewalInv'
    OBVIOUS
<1> USE RenewalAssumption
<1>1. LeaseTypeOK'
    BY StepIsLeaseStep, TypeStep DEF RenewalInv, RenewalTypeOK
<1>2. LeaseTypeOK
    BY DEF RenewalInv, RenewalTypeOK
<1>3. RenewalTypeOK'
  <2>1. timer' \in -MaxDelay .. Interval
    <3>1. CASE Tick
      <4>1. CASE loop = "waiting"
          BY <3>1, <4>1 DEF RenewalInv, RenewalTypeOK, Tick
      <4>2. CASE loop # "waiting"
          BY <3>1, <4>2 DEF RenewalInv, RenewalTypeOK, Tick
      <4> QED
          BY <4>1, <4>2
    <3>2. CASE ~Tick
        BY <3>2 DEF RenewalInv, RenewalTypeOK, Next, vars, renewerVars, StartWork,
           FinishNodes, StartCompensation, EndWork, Renewer, NoticeTerminal, RenewOnTime,
           NoticeLoss, Rival
    <3> QED
        BY <3>1, <3>2
  <2> QED
      BY <1>1, <2>1 DEF RenewalInv, RenewalTypeOK, Next, vars, renewerVars, StartWork,
         FinishNodes, StartCompensation, EndWork, Renewer, NoticeTerminal, RenewOnTime,
         NoticeLoss, Rival, Tick
<1>4. SlackInv'
  <2> SUFFICES ASSUME Guarded' PROVE AheadOfExpiry' \/ timer' <= -Slack
      BY DEF SlackInv
  <2>1. CASE StartWork
    <3>1. Grant(run, holder, AcquireTtl)
        BY <2>1 DEF StartWork, AcquireLease, AcquireFresh, AcquireSteal, AcquireRefresh
    <3>2. Live(run, holder)' /\ lease'[run].expiresIn = AcquireTtl
        BY <3>1, <1>2, GrantedIsLive, TtlAssumption
    <3> QED
        BY <2>1, <3>2, SlackIsInt DEF StartWork, AheadOfExpiry
  <2>2. CASE FinishNodes \/ StartCompensation
    <3>1. Guarded
        BY <2>2 DEF FinishNodes, StartCompensation, Guarded, Working
    <3> QED
        BY <2>2, <3>1 DEF FinishNodes, StartCompensation, leaseVars, RenewalInv, SlackInv,
                          AheadOfExpiry, Live, HeldBy, Held, Expired
  <2>3. CASE EndWork
      BY <2>3 DEF EndWork, Guarded, Working
  <2>4. CASE NoticeTerminal
      BY <2>4 DEF NoticeTerminal, RunIsTerminal, Guarded
  <2>5. CASE RenewOnTime
    <3>1. Live(run, holder)' /\ lease'[run].expiresIn = RenewTtl
        BY <2>5, <1>2, GrantedIsLive, TtlAssumption DEF RenewOnTime, RenewLease
    <3> QED
        BY <2>5, <3>1, SlackIsInt DEF RenewOnTime, Due, AheadOfExpiry
  <2>6. CASE NoticeLoss
    <3>1. Guarded
        BY <2>6 DEF NoticeLoss, leaseVars, Guarded, Working
    <3> QED
        BY <2>6, <3>1 DEF NoticeLoss, RenewalInv, SlackInv, AheadOfExpiry
  <2>7. ASSUME NEW w \in Workers, Rival(w) PROVE AheadOfExpiry' \/ timer' <= -Slack
    <3>1. Guarded
        BY <2>7 DEF Rival, renewerVars, Guarded, Working
    <3>2. CASE AheadOfExpiry
      <4>1. lease' = lease
          BY <2>7, <3>2, <1>2, RivalIsHarmless DEF AheadOfExpiry
      <4> QED
          BY <2>7, <3>2, <4>1 DEF Rival, renewerVars, AheadOfExpiry, Live, HeldBy, Held,
                                  Expired
    <3>3. CASE timer <= -Slack
        BY <2>7, <3>3 DEF Rival, renewerVars
    <3> QED
        BY <3>1, <3>2, <3>3 DEF RenewalInv, SlackInv
  <2>8. CASE Tick
    <3>1. Guarded
        BY <2>8 DEF Tick, Guarded, Working
    <3>2. CASE AheadOfExpiry
        BY <2>8, <3>2, WaitStep DEF RenewalInv
    <3>3. CASE timer <= -Slack
        BY <2>8, <3>3, SlackIsInt DEF Tick, RenewalInv, RenewalTypeOK
    <3> QED
        BY <3>1, <3>2, <3>3 DEF RenewalInv, SlackInv
  <2>9. CASE UNCHANGED vars
      BY <2>9 DEF vars, leaseVars, renewerVars, RenewalInv, SlackInv, AheadOfExpiry, Guarded,
                  Working, Live, HeldBy, Held, Expired
  <2> QED
      BY <2>1, <2>2, <2>3, <2>4, <2>5, <2>6, <2>7, <2>8, <2>9 DEF Next, Renewer
<1> QED
    BY <1>3, <1>4 DEF RenewalInv

LEMMA RenewalInit == Init => RenewalInv
<1> SUFFICES ASSUME Init PROVE RenewalInv
    OBVIOUS
<1>1. LeaseTypeOK
    BY DEF Init, LeaseInit, LeaseTypeOK
<1>2. ~Guarded /\ timer \in -MaxDelay .. Interval
    BY RenewalAssumption DEF Init, Guarded, Working
<1> QED
    BY <1>1, <1>2 DEF Init, RenewalInv, RenewalTypeOK, SlackInv

(* The variables keep their types; in particular the timer is never later  *)
(* than MaxDelay (lease_renewer.py:152-228).                               *)
THEOREM RenewalTypeCorrect == Spec => []RenewalTypeOK
<1>1. RenewalInv => RenewalTypeOK
    BY DEF RenewalInv
<1> QED
    BY <1>1, RenewalInit, RenewalStep, PTL DEF Spec

(* For every ttl and interval: a call whose renewer has no reason to stop  *)
(* holds an unexpired lease until its renewal is Slack seconds late        *)
(* (lease_renewer.py:152-228, dag.py:733-811).                             *)
THEOREM RenewalKeepsLease == Spec => []LeaseKept
<1>1. RenewalInv => LeaseKept
  <2> SUFFICES ASSUME RenewalInv, Guarded, timer > -Slack PROVE Live(run, holder)
      BY DEF LeaseKept, Guarded
  <2>1. ~(timer <= -Slack)
      BY SlackIsInt, RenewalAssumption DEF RenewalInv, RenewalTypeOK
  <2> QED
      BY <2>1 DEF RenewalInv, SlackInv, AheadOfExpiry
<1> QED
    BY <1>1, RenewalInit, RenewalStep, PTL DEF Spec

(* When renewals are never late by as much as Slack and the renewer does   *)
(* not read the run, the lease never expires mid-execution, as the         *)
(* docstring has it (lease_renewer.py:5-7).                                *)
THEOREM NeverExpiresMidExecution ==
    MaxDelay < Slack /\ ~ChecksRun => (Spec => []LastsThroughout)
<1> SUFFICES ASSUME MaxDelay < Slack, ~ChecksRun PROVE Spec => []LastsThroughout
    OBVIOUS
<1>1. RenewalInv => LastsThroughout
  <2> SUFFICES ASSUME RenewalInv, Working PROVE Live(run, holder)
      BY DEF LastsThroughout
  <2>1. ~(timer <= -Slack)
      BY SlackIsInt, RenewalAssumption DEF RenewalInv, RenewalTypeOK
  <2> QED
      BY <2>1 DEF RenewalInv, SlackInv, AheadOfExpiry, Guarded
<1> QED
    BY <1>1, RenewalInit, RenewalStep, PTL DEF Spec

-----------------------------------------------------------------------------
(* The renewer and its rivals see the lease backend, and through it the    *)
(* abstract contract: the run of the call changes hands only when free.    *)
THEOREM RenewalUsesLease == Spec => LeaseSpec /\ TenancySpec
<1>1. Init => LeaseInit
    BY DEF Init
<1>2. Spec => LeaseSpec
    BY <1>1, StepIsLeaseStep, PTL DEF Spec, LeaseSpec
<1> QED
    BY <1>2, ImplementsTenancy

\* The renewer is at work, or has set lease_lost.
OnWatch == phase = "executing" /\ status = "running" => loop = "waiting" \/ lost

(* Why a loss does not stay unnoticed (the safety core of LossIsNoticed):  *)
(* while the call executes a run recorded as running, the loop ends only   *)
(* by setting lease_lost (lease_renewer.py:152-228).                       *)
THEOREM LoopOutlastsExecution == Spec => []OnWatch
<1>1. Init => OnWatch
    BY DEF Init, OnWatch
<1>2. OnWatch /\ [Next]_vars => OnWatch'
    BY DEF OnWatch, Next, vars, renewerVars, StartWork, FinishNodes, StartCompensation, EndWork,
       Renewer, NoticeTerminal, RunIsTerminal, RenewOnTime, NoticeLoss, Rival, Tick
<1> QED
    BY <1>1, <1>2, PTL DEF Spec
=============================================================================
