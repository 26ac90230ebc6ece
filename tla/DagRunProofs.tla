---------------------------- MODULE DagRunProofs ----------------------------
(***************************************************************************)
(* Proofs about DagRun for any number of calls, runs, workers and nodes.   *)
(***************************************************************************)
EXTENDS DagRun, RunLeaseProofs

\* TypeOK is not inductive: a snapshot takes its status from overall_status,
\* and a record its node from the position of the loop.
CancelledIsOver ==
    \A c \in Calls : overall[c] = "cancelled" => pc[c] \in {"closing", "done", "dead"}
RanIsAtNode == \A c \in Calls : pc[c] \in {"ran", "persisted"} => pos[c] \in Nodes

TypeInv == TypeOK /\ CancelledIsOver /\ RanIsAtNode

-----------------------------------------------------------------------------
(* Every step of every call leaves the lease backend alone or is one of    *)
(* its operations.                                                         *)
LEMMA StepIsLeaseStep == [Next]_vars => [LeaseNext]_leaseVars
<1> SUFFICES ASSUME [Next]_vars PROVE [LeaseNext]_leaseVars
    OBVIOUS
<1> USE CallsAssumption DEF LeaseNext, AcquireLease
<1>1. ASSUME NEW c \in Calls, Step(c) PROVE [LeaseNext]_leaseVars
  <2>1. CASE AcquireForExecute(c) \/ AcquireForResume(c)
      BY <2>1 DEF AcquireForExecute, AcquireForResume, TakeLease
  <2>2. CASE CloseCall(c)
      BY <2>2 DEF CloseCall
  <2>3. CASE \/ CreateRun(c) \/ EnforceForExecute(c) \/ SkipBelow(c) \/ ConditionFalse(c)
             \/ ConditionError(c) \/ DeadlineExceeded(c) \/ PersistNode(c)
             \/ SnapshotNode(c) \/ CompletionSnapshot(c)
             \/ \E outcome \in NodeOutcomes : RunNode(c, outcome)
      BY <2>3 DEF CreateRun, EnforceForExecute, SkipBelow, ConditionFalse, OmitNode,
         ConditionError, DeadlineExceeded, StopExecution, PersistNode, SnapshotNode,
         CompletionSnapshot, RunNode
  <2>4. CASE \/ LoadRun(c) \/ BuildPlan(c) \/ EnforceForResume(c) \/ ReuseNode(c)
             \/ FailBlockedNode(c) \/ RetryResume(c) \/ FinishRun(c)
             \/ \E outcome \in NodeOutcomes : RerunNode(c, outcome)
      BY <2>4 DEF LoadRun, BuildPlan, EnforceForResume, ReuseNode, FailBlockedNode,
         RetryResume, FinishRun, RerunNode, FollowPlan
  <2> QED
      BY <1>1, <2>1, <2>2, <2>3, <2>4 DEF Step, ExecuteStep, ResumeStep
<1>2. ASSUME NEW c \in Calls, Renew(c) PROVE [LeaseNext]_leaseVars
    BY <1>2 DEF Renew
<1>3. ASSUME NEW c \in Calls, CancelCall(c) \/ Crash(c) PROVE [LeaseNext]_leaseVars
    BY <1>3 DEF CancelCall, Crash
<1>4. CASE Tick
    BY <1>4 DEF Tick
<1>5. CASE UNCHANGED vars
    BY <1>5 DEF vars
<1> QED
    BY <1>1, <1>2, <1>3, <1>4, <1>5 DEF Next

-----------------------------------------------------------------------------
(* The tables and the calls keep their shape under every step of execute,  *)
(* resume, the renewer, a cancellation and a crash.                        *)
LEMMA DagTypeStep == TypeInv /\ [Next]_vars => TypeInv'
<1> SUFFICES ASSUME TypeInv, [Next]_vars PROVE TypeInv'
    OBVIOUS
<1> USE CallsAssumption, NodesAssumption, OptionsAssumption
<1>0. LeaseTypeOK'
    BY StepIsLeaseStep, TypeStep DEF TypeInv, TypeOK
<1>1. ASSUME NEW c \in Calls, CreateRun(c) PROVE TypeInv'
    BY <1>0, <1>1 DEF CreateRun, Goto, TypeInv, TypeOK, CancelledIsOver, RanIsAtNode, Phases,
       loopVars, historyVars
<1>2. ASSUME NEW c \in Calls, NEW phase \in {"leased", "executing"}, TakeLease(c, phase),
             pc[c] \in {"created", "ready"}
      PROVE  TypeInv'
  <2>1. UNCHANGED <<storeVars, loopVars, lost, historyVars>>
      BY <1>2 DEF TakeLease
  <2>2. \/ Goto(c, phase) /\ UNCHANGED reported
        \/ Goto(c, "raised") /\ reported' = [reported EXCEPT ![c] = "lease_denied"]
      BY <1>2 DEF TakeLease, Raise
  <2>3. CASE Goto(c, phase) /\ UNCHANGED reported
      BY <1>0, <1>2, <2>1, <2>3 DEF Goto, TypeInv, TypeOK, CancelledIsOver, RanIsAtNode,
         Phases, loopVars, historyVars, storeVars
  <2>4. CASE Goto(c, "raised") /\ reported' = [reported EXCEPT ![c] = "lease_denied"]
      BY <1>0, <1>2, <2>1, <2>4 DEF Goto, TypeInv, TypeOK, CancelledIsOver, RanIsAtNode,
         Phases, loopVars, historyVars, storeVars
  <2> QED
      BY <2>2, <2>3, <2>4
<1>3. ASSUME NEW c \in Calls, AcquireForExecute(c) \/ AcquireForResume(c) PROVE TypeInv'
    BY <1>2, <1>3 DEF AcquireForExecute, AcquireForResume
<1>4. ASSUME NEW c \in Calls, NEW op \in {"execute", "resume"}, Reserve(op, c), TypeOK
      PROVE  reserved' \subseteq {"execute", "resume"} \X {KeyOf[d] : d \in Calls}
    BY <1>4 DEF Reserve, Scoped, TypeOK
<1>5. ASSUME NEW c \in Calls, EnforceForExecute(c) PROVE TypeInv'
  <2>1. reserved' \subseteq {"execute", "resume"} \X {KeyOf[d] : d \in Calls}
      BY <1>4, <1>5 DEF EnforceForExecute, TypeInv, TypeOK
  <2>2. CASE Raise(c, "duplicate") /\ UNCHANGED snapshot
      BY <1>0, <1>5, <2>1, <2>2 DEF EnforceForExecute, Raise, Goto, TypeInv, TypeOK,
         CancelledIsOver, RanIsAtNode, Phases, loopVars, historyVars
  <2>3. CASE /\ SaveSnapshot(RunOf[c], "running")
             /\ Goto(c, "executing")
             /\ UNCHANGED reported
      BY <1>0, <1>5, <2>1, <2>3 DEF EnforceForExecute, SaveSnapshot, Goto, TypeInv, TypeOK,
         CancelledIsOver, RanIsAtNode, Phases, loopVars, historyVars
  <2> QED
      BY <1>5, <2>2, <2>3 DEF EnforceForExecute
<1>6. ASSUME NEW c \in Calls, EnforceForResume(c) PROVE TypeInv'
  <2>1. reserved' \subseteq {"execute", "resume"} \X {KeyOf[d] : d \in Calls}
      BY <1>4, <1>6 DEF EnforceForResume, TypeInv, TypeOK
  <2> QED
      BY <1>0, <1>6, <2>1, ZenonT(60) DEF EnforceForResume, Raise, Goto, TypeInv, TypeOK,
         CancelledIsOver, RanIsAtNode, Phases, loopVars, historyVars
<1>7. ASSUME NEW c \in Calls, LoadRun(c) \/ RetryResume(c) PROVE TypeInv'
  <2>1. CASE RetryResume(c)
      BY <1>0, <2>1 DEF RetryResume, Goto, TypeInv, TypeOK, CancelledIsOver, RanIsAtNode,
         Phases, loopVars, historyVars, storeVars
  <2>2. CASE LoadRun(c) /\ Goto(c, "done")
      BY <1>0, <2>2, ZenonT(60) DEF LoadRun, Goto, TypeInv, TypeOK, CancelledIsOver, RanIsAtNode,
         Phases, loopVars, historyVars, storeVars
  <2>3. CASE LoadRun(c) /\ Goto(c, "planning")
      BY <1>0, <2>3 DEF LoadRun, Goto, TypeInv, TypeOK, CancelledIsOver, RanIsAtNode,
         Phases, loopVars, historyVars, storeVars
  <2> QED
      BY <1>7, <2>1, <2>2, <2>3 DEF LoadRun
<1>8. ASSUME NEW c \in Calls, BuildPlan(c) PROVE TypeInv'
  <2>1. \A state \in {"absent"} \cup AllOutcomes :
            Decision(state) \in {"run", "skip", "blocked"}
      BY DEF Decision, AllOutcomes
  <2>2. nodeState[RunOf[c]] \in [Nodes -> {"absent"} \cup AllOutcomes]
      BY DEF TypeInv, TypeOK
  <2>3. [n \in Nodes |-> Decision(nodeState[RunOf[c]][n])]
            \in [Nodes -> {"run", "skip", "blocked"}]
      BY <2>1, <2>2
  <2> QED
      BY <1>0, <1>8, <2>3 DEF BuildPlan, Goto, TypeInv, TypeOK, CancelledIsOver, RanIsAtNode,
         Phases, historyVars, storeVars
<1>9. ASSUME NEW c \in Calls, OmitNode(c), AtNode(c) PROVE TypeInv'
    BY <1>0, <1>9 DEF OmitNode, AtNode, Advance, TypeInv, TypeOK, CancelledIsOver, RanIsAtNode,
       storeVars, Nodes
<1>10. ASSUME NEW c \in Calls, SkipBelow(c) \/ ConditionFalse(c) PROVE TypeInv'
    BY <1>9, <1>10 DEF SkipBelow, ConditionFalse, AtFreeNode
<1>11. ASSUME NEW c \in Calls, ConditionError(c) \/ DeadlineExceeded(c) PROVE TypeInv'
  <2>1. StopExecution(c)
      BY <1>11 DEF ConditionError, DeadlineExceeded
  <2> QED
      BY <1>0, <2>1 DEF StopExecution, AtFreeNode, AtNode, Break, SetOverall, TypeInv, TypeOK,
         CancelledIsOver, RanIsAtNode, storeVars, historyVars, Nodes
<1>12. ASSUME NEW c \in Calls, NEW outcome \in NodeOutcomes, RunNode(c, outcome)
       PROVE  TypeInv'
    BY <1>0, <1>12 DEF RunNode, HandleNode, AtFreeNode, AtNode, Goto, TypeInv, TypeOK,
       CancelledIsOver, RanIsAtNode, storeVars, Phases, Nodes
<1>13. ASSUME NEW c \in Calls, PersistNode(c) PROVE TypeInv'
  <2> DEFINE status == IF Finished(last[c]) THEN overall[c] ELSE last[c]
  <2>1. /\ status \in {"completed", "failed", "interrupted"}
        /\ pos[c] \in Nodes
        /\ RunOf[c] \in Runs
      BY <1>13 DEF PersistNode, Finished, AllOutcomes, TypeInv, TypeOK, CancelledIsOver,
         RanIsAtNode
  <2>2. nodeState' \in [Runs -> [Nodes -> {"absent"} \cup AllOutcomes]]
      BY <1>13, <2>1 DEF PersistNode, TypeInv, TypeOK
  <2>3. /\ overall' = [overall EXCEPT ![c] = status]
        /\ pc' = [pc EXCEPT ![c] = "persisted"]
        /\ UNCHANGED <<runStatus, snapshot, reserved, pos, last, omitted, plan, lost,
                       reported, done, excluded, crashes>>
      BY <1>13 DEF PersistNode, SetOverall, Goto, historyVars
  <2> HIDE DEF status
  <2> QED
      BY <1>0, <2>1, <2>2, <2>3 DEF TypeInv, TypeOK, CancelledIsOver, RanIsAtNode, Phases
<1>14. ASSUME NEW c \in Calls, SnapshotNode(c) PROVE TypeInv'
  <2>1. pos[c] \in Nodes /\ overall[c] # "cancelled"
      BY <1>14 DEF SnapshotNode, TypeInv, CancelledIsOver, RanIsAtNode
  <2>2. snapshot' \in [Runs -> {"none", "running", "completed", "failed", "interrupted"}]
      BY <1>14, <2>1 DEF SnapshotNode, SaveSnapshot, TypeInv, TypeOK
  <2>3. pos' \in [Calls -> 1 .. NodeCount + 1] /\ \A d \in Calls \ {c} : pos'[d] = pos[d]
    <3>1. Break(c) \/ Advance(c)
        BY <1>14 DEF SnapshotNode
    <3>2. pos \in [Calls -> 1 .. NodeCount + 1] /\ NodeCount \in Nat
        BY DEF TypeInv, TypeOK
    <3>3. CASE Break(c)
        BY <3>2, <3>3 DEF Break
    <3>4. CASE Advance(c)
        BY <2>1, <3>2, <3>4 DEF Advance, Nodes
    <3> QED
        BY <3>1, <3>3, <3>4
  <2>4. /\ pc' = [pc EXCEPT ![c] = "executing"]
        /\ UNCHANGED <<runStatus, nodeState, reserved, last, overall, omitted, plan, lost,
                       reported, done, excluded, crashes>>
      BY <1>14 DEF SnapshotNode, Goto, historyVars
  <2> QED
      BY <1>0, <2>1, <2>2, <2>3, <2>4 DEF TypeInv, TypeOK, CancelledIsOver, RanIsAtNode,
         Phases
<1>15. ASSUME NEW c \in Calls, FailBlockedNode(c) \/ ReuseNode(c) PROVE TypeInv'
  <2>1. CASE ReuseNode(c)
      BY <1>0, <2>1 DEF ReuseNode, FollowPlan, AtNode, Advance, TypeInv, TypeOK,
         CancelledIsOver, RanIsAtNode, storeVars, Nodes
  <2>2. CASE FailBlockedNode(c)
      BY <1>0, <2>2 DEF FailBlockedNode, FollowPlan, AtNode, Advance, SetOverall, TypeInv,
         TypeOK, CancelledIsOver, RanIsAtNode, storeVars, Nodes
  <2> QED
      BY <1>15, <2>1, <2>2
<1>16. ASSUME NEW c \in Calls, NEW outcome \in NodeOutcomes, RerunNode(c, outcome)
       PROVE  TypeInv'
    BY <1>0, <1>16 DEF RerunNode, FollowPlan, HandleNode, AtNode, Advance, SetOverall,
       TypeInv, TypeOK, CancelledIsOver, RanIsAtNode, storeVars, Nodes
<1>17. ASSUME NEW c \in Calls, FinishRun(c) PROVE TypeInv'
    BY <1>0, <1>17 DEF FinishRun, Goto, TypeInv, TypeOK, CancelledIsOver, RanIsAtNode, Phases,
       loopVars, historyVars
<1>18. ASSUME NEW c \in Calls, CompletionSnapshot(c) PROVE TypeInv'
  <2>1. overall[c] # "cancelled"
      BY <1>18 DEF CompletionSnapshot, TypeInv, CancelledIsOver
  <2>2. snapshot' \in [Runs -> {"none", "running", "completed", "failed", "interrupted"}]
      BY <1>18, <2>1 DEF CompletionSnapshot, SaveSnapshot, TypeInv, TypeOK
  <2> QED
      BY <1>0, <1>18, <2>2 DEF CompletionSnapshot, Goto, TypeInv, TypeOK, CancelledIsOver,
         RanIsAtNode, Phases, loopVars, historyVars
<1>19. ASSUME NEW c \in Calls, CloseCall(c) PROVE TypeInv'
    BY <1>0, <1>19 DEF CloseCall, Goto, TypeInv, TypeOK, CancelledIsOver, RanIsAtNode, Phases,
       loopVars, historyVars, storeVars
<1>20. ASSUME NEW c \in Calls, Renew(c) PROVE TypeInv'
    BY <1>0, <1>20 DEF Renew, TypeInv, TypeOK, CancelledIsOver, RanIsAtNode, loopVars,
       historyVars, storeVars
<1>21. ASSUME NEW c \in Calls, CancelCall(c) \/ Crash(c) PROVE TypeInv'
  <2>1. crashes' \in 0 .. MaxCrashes
      BY <1>21 DEF CancelCall, Crash, TypeInv, TypeOK
  <2>2. CASE CancelCall(c)
      BY <1>0, <2>1, <2>2 DEF CancelCall, SetOverall, Goto, TypeInv, TypeOK, CancelledIsOver,
         RanIsAtNode, Phases, storeVars
  <2>3. CASE Crash(c)
      BY <1>0, <2>1, <2>3 DEF Crash, Goto, TypeInv, TypeOK, CancelledIsOver, RanIsAtNode,
         Phases, loopVars, storeVars
  <2> QED
      BY <1>21, <2>2, <2>3
<1>22. CASE Tick
    BY <1>0, <1>22 DEF Tick, TypeInv, TypeOK, CancelledIsOver, RanIsAtNode, callVars,
       loopVars, historyVars, storeVars
<1>23. CASE UNCHANGED vars
    BY <1>0, <1>23 DEF vars, TypeInv, TypeOK, CancelledIsOver, RanIsAtNode, callVars,
       loopVars, historyVars, storeVars
<1> QED
    BY <1>1, <1>3, <1>5, <1>6, <1>7, <1>8, <1>10, <1>11, <1>12, <1>13, <1>14, <1>15, <1>16,
       <1>17, <1>18, <1>19, <1>20, <1>21, <1>22, <1>23
       DEF Next, Step, ExecuteStep, ResumeStep

(* Runs, records and calls start in the states that the types allow.       *)
LEMMA DagTypeInit == Init => TypeInv
<1> SUFFICES ASSUME Init PROVE TypeInv
    OBVIOUS
<1>1. LeaseTypeOK
    BY DEF Init, LeaseInit, LeaseTypeOK
<1>2. CancelledIsOver /\ RanIsAtNode
    BY DEF Init, CancelledIsOver, RanIsAtNode
<1> QED
    BY <1>1, <1>2, CallsAssumption, NodesAssumption, OptionsAssumption
       DEF Init, TypeInv, TypeOK, Phases, AllOutcomes

(* Type correctness of the state store and of all calls on it.             *)
THEOREM DagTypeCorrect == Spec => []TypeOK
<1>1. TypeInv => TypeOK
    BY DEF TypeInv
<1> QED
    BY <1>1, DagTypeInit, DagTypeStep, PTL DEF Spec

-----------------------------------------------------------------------------
\* OneExecutor is not inductive: what keeps a second call out is that each call
\* at work holds the live lease of its run.
HoldsLease == \A c \in Calls : Working(c) => Live(RunOf[c], WorkerOf[c])

(* Where one call of a run is at work, another call's worker neither holds *)
(* the lease nor gets it.                                                  *)
LEMMA HolderExcludes ==
    ASSUME DistinctWorkers, HoldsLease, NEW c \in Calls, NEW d \in Calls, c # d,
           RunOf[c] = RunOf[d], Working(d)
    PROVE  /\ ~HeldBy(RunOf[c], WorkerOf[c])
           /\ ~AcquireLease(RunOf[c], WorkerOf[c])
<1>1. Live(RunOf[c], WorkerOf[d]) /\ WorkerOf[c] # WorkerOf[d]
    BY DEF HoldsLease, DistinctWorkers
<1> QED
    BY <1>1 DEF Live, HeldBy, AcquireLease, AcquireFresh, AcquireSteal, AcquireRefresh

(* A step that leaves the entries alone and puts nobody to work.           *)
LEMMA QuietStep ==
    ASSUME HoldsLease, lease' = lease, \A d \in Calls : Working(d)' => Working(d)
    PROVE  HoldsLease'
BY DEF HoldsLease, Live, HeldBy, Held, Expired

(* A step that hands the lease of a run to a call that works on it alone.  *)
LEMMA HandOver ==
    ASSUME LeaseTypeOK, HoldsLease, NEW c \in Calls, NEW ttl \in Nat \ {0},
           Grant(RunOf[c], WorkerOf[c], ttl),
           \A d \in Calls \ {c} : Working(d)' => Working(d) /\ RunOf[d] # RunOf[c]
    PROVE  HoldsLease'
<1> USE CallsAssumption
<1>1. Live(RunOf[c], WorkerOf[c])'
    BY GrantedIsLive
<1>2. ASSUME NEW d \in Calls \ {c}, Working(d)' PROVE Live(RunOf[d], WorkerOf[d])'
  <2>1. Live(RunOf[d], WorkerOf[d]) /\ RunOf[d] # RunOf[c]
      BY <1>2 DEF HoldsLease
  <2>2. lease'[RunOf[d]] = lease[RunOf[d]]
      BY <2>1 DEF Grant, LeaseTypeOK
  <2> QED
      BY <2>1, <2>2 DEF Live, HeldBy, Held, Expired
<1> QED
    BY <1>1, <1>2 DEF HoldsLease

(* Acquiring the lease, or failing to.                                     *)
LEMMA TakeLeaseStep ==
    ASSUME DistinctWorkers, TypeInv, HoldsLease, NEW c \in Calls,
           NEW phase \in {"leased", "executing"}, TakeLease(c, phase)
    PROVE  HoldsLease'
<1> USE CallsAssumption
<1>1. LeaseTypeOK /\ pc \in [Calls -> Phases]
    BY DEF TypeInv, TypeOK
<1>2. CASE AcquireLease(RunOf[c], WorkerOf[c]) /\ Goto(c, phase)
  <2>1. PICK ttl \in Nat \ {0} : Grant(RunOf[c], WorkerOf[c], ttl)
      BY <1>2, TtlAssumption DEF AcquireLease, AcquireFresh, AcquireSteal, AcquireRefresh
  <2>2. \A d \in Calls \ {c} : Working(d)' => Working(d) /\ RunOf[d] # RunOf[c]
      BY <1>1, <1>2, HolderExcludes DEF Goto, Working, Executing
  <2> QED
      BY <1>1, <2>1, <2>2, HandOver
<1>3. CASE Raise(c, "lease_denied") /\ UNCHANGED leaseVars
    BY <1>1, <1>3, QuietStep DEF Raise, Goto, Working, Executing, leaseVars
<1> QED
    BY <1>2, <1>3 DEF TakeLease

(* A renewal, and the end of a call, concern its own worker only.          *)
LEMMA OwnLeaseStep ==
    ASSUME DistinctWorkers, TypeInv, HoldsLease, NEW c \in Calls, Renew(c) \/ CloseCall(c)
    PROVE  HoldsLease'
<1> USE CallsAssumption
<1>1. LeaseTypeOK /\ pc \in [Calls -> Phases]
    BY DEF TypeInv, TypeOK
<1>2. CASE lease' = lease
    BY <1>1, <1>2, QuietStep DEF Renew, CloseCall, Goto, Working, Executing
<1>3. CASE Renew(c) /\ RenewLease(RunOf[c], WorkerOf[c])
  <2>1. Grant(RunOf[c], WorkerOf[c], RenewTtl) /\ HeldBy(RunOf[c], WorkerOf[c])
      BY <1>3 DEF RenewLease, Live
  <2>2. \A d \in Calls \ {c} : Working(d)' => Working(d) /\ RunOf[d] # RunOf[c]
      BY <1>3, <2>1, HolderExcludes DEF Renew, Working, Executing
  <2> QED
      BY <1>1, <2>1, <2>2, HandOver, TtlAssumption
<1>4. CASE CloseCall(c) /\ ReleaseLease(RunOf[c], WorkerOf[c])
  <2> SUFFICES ASSUME NEW d \in Calls, Working(d)' PROVE Live(RunOf[d], WorkerOf[d])'
      BY DEF HoldsLease
  <2>1. d # c /\ Working(d)
      BY <1>1, <1>4 DEF CloseCall, Goto, Working, Executing
  <2>2. RunOf[d] # RunOf[c]
      BY <1>4, <2>1, HolderExcludes DEF ReleaseLease
  <2>3. lease'[RunOf[d]] = lease[RunOf[d]]
      BY <1>1, <1>4, <2>2 DEF ReleaseLease, LeaseTypeOK
  <2> QED
      BY <2>1, <2>3 DEF HoldsLease, Live, HeldBy, Held, Expired
<1> QED
    BY <1>2, <1>3, <1>4 DEF Renew, CloseCall, leaseVars

(* Time does not run out for a call at work while renewals are in time.    *)
LEMMA InTimeStep ==
    ASSUME RenewerKeepsUp, TypeInv, HoldsLease, Tick
    PROVE  HoldsLease'
<1> USE CallsAssumption
<1> SUFFICES ASSUME NEW c \in Calls, Working(c)' PROVE Live(RunOf[c], WorkerOf[c])'
    BY DEF HoldsLease
<1> DEFINE r == RunOf[c]
<1>1. Working(c)
    BY DEF Tick, callVars, Working, Executing
<1>2. Live(r, WorkerOf[c]) /\ lease[r].expiresIn > 1
    BY <1>1 DEF HoldsLease, Tick, InTime
<1>3. lease[r] \in Lease /\ lease[r].expiresIn \in Nat
    BY <1>2 DEF TypeInv, TypeOK, LeaseTypeOK, Lease, Live, HeldBy, Held
<1>4. lease'[r] = [lease[r] EXCEPT !.expiresIn = CountDown(lease[r].expiresIn)]
    BY <1>2 DEF Tick, LeaseTick, Live, HeldBy
<1>5. /\ lease'[r].expiresIn = lease[r].expiresIn - 1
      /\ lease'[r].owner = lease[r].owner
      /\ lease'[r].released = lease[r].released
      /\ lease'[r] \in Lease
    BY <1>2, <1>3, <1>4 DEF Lease, CountDown
<1> QED
    BY <1>2, <1>3, <1>5, NoLeaseAssumption DEF Live, HeldBy, Held, Expired

(* Each action keeps the live lease with the call at work.                 *)
LEMMA HolderStep ==
    ASSUME RenewerKeepsUp, DistinctWorkers, TypeInv, HoldsLease, [Next]_vars
    PROVE  HoldsLease'
<1>0. pc \in [Calls -> Phases]
    BY DEF TypeInv, TypeOK
<1> USE DEF leaseVars, Goto, Working, Executing
<1>1. ASSUME NEW c \in Calls, AcquireForExecute(c) \/ AcquireForResume(c) PROVE HoldsLease'
    BY <1>1, TakeLeaseStep DEF AcquireForExecute, AcquireForResume
<1>2. ASSUME NEW c \in Calls, CloseCall(c) \/ Renew(c) PROVE HoldsLease'
    BY <1>2, OwnLeaseStep
<1>3. ASSUME NEW c \in Calls, CreateRun(c) \/ EnforceForExecute(c) PROVE HoldsLease'
    BY <1>0, <1>3, QuietStep DEF CreateRun, EnforceForExecute, Raise
<1>4. ASSUME NEW c \in Calls, LoadRun(c) \/ BuildPlan(c) \/ EnforceForResume(c) \/ RetryResume(c)
      PROVE  HoldsLease'
    BY <1>0, <1>4, QuietStep DEF LoadRun, BuildPlan, EnforceForResume, RetryResume, Raise
<1>5. ASSUME NEW c \in Calls, SkipBelow(c) \/ ConditionFalse(c) PROVE HoldsLease'
    BY <1>0, <1>5, QuietStep DEF SkipBelow, ConditionFalse, OmitNode
<1>6. ASSUME NEW c \in Calls, ConditionError(c) \/ DeadlineExceeded(c) PROVE HoldsLease'
    BY <1>0, <1>6, QuietStep DEF ConditionError, DeadlineExceeded, StopExecution
<1>7. ASSUME NEW c \in Calls, NEW outcome \in NodeOutcomes,
             RunNode(c, outcome) \/ RerunNode(c, outcome)
      PROVE  HoldsLease'
    BY <1>0, <1>7, QuietStep DEF RunNode, AtFreeNode, AtNode, RerunNode, FollowPlan
<1>8. ASSUME NEW c \in Calls, ReuseNode(c) \/ FailBlockedNode(c) PROVE HoldsLease'
    BY <1>0, <1>8, QuietStep DEF ReuseNode, FailBlockedNode, FollowPlan
<1>9. ASSUME NEW c \in Calls, \/ PersistNode(c) \/ SnapshotNode(c)
                              \/ FinishRun(c) \/ CompletionSnapshot(c)
      PROVE  HoldsLease'
    BY <1>0, <1>9, QuietStep DEF PersistNode, SnapshotNode, FinishRun, CompletionSnapshot
<1>10. ASSUME NEW c \in Calls, CancelCall(c) \/ Crash(c) PROVE HoldsLease'
    BY <1>0, <1>10, QuietStep DEF CancelCall, Crash
<1>11. CASE Tick
    BY <1>11, InTimeStep
<1>12. CASE UNCHANGED vars
    BY <1>12, QuietStep DEF vars, callVars
<1> QED
    BY <1>1, <1>2, <1>3, <1>4, <1>5, <1>6, <1>7, <1>8, <1>9, <1>10, <1>11, <1>12
       DEF Next, Step, ExecuteStep, ResumeStep

(* One executor: when the calls on a run come from different workers and   *)
(* renewals are in time, no two calls ever work on one run, whatever       *)
(* crashes, is cancelled or resumes (dag.py:675-1182).                     *)
THEOREM SingleExecutor ==
    RenewerKeepsUp /\ DistinctWorkers => (Spec => []OneExecutor)
<1> SUFFICES ASSUME RenewerKeepsUp, DistinctWorkers PROVE Spec => []OneExecutor
    OBVIOUS
<1>1. Init => HoldsLease
    BY DEF Init, HoldsLease, Working, Executing
<1>2. TypeInv /\ HoldsLease /\ [Next]_vars => HoldsLease'
    BY HolderStep
<1>3. HoldsLease => OneExecutor
  <2> SUFFICES ASSUME HoldsLease, NEW c \in Calls, NEW d \in Calls,
                      Working(c), Working(d), RunOf[c] = RunOf[d], c # d
               PROVE  FALSE
      BY DEF OneExecutor
  <2>1. ~HeldBy(RunOf[c], WorkerOf[c])
      BY HolderExcludes
  <2> QED
      BY <2>1 DEF HoldsLease, Live
<1> QED
    BY <1>1, <1>2, <1>3, DagTypeInit, DagTypeStep, PTL DEF Spec

(* Only a renewal can lose a lease, and only one that is not live.         *)
LEMMA NotLostStep ==
    ASSUME TypeInv, HoldsLease, NeverLostInTime, [Next]_vars
    PROVE  NeverLostInTime'
<1> SUFFICES ASSUME NEW d \in Calls PROVE ~lost'[d] /\ reported'[d] # "lease_lost"
    BY DEF NeverLostInTime
<1>0. /\ ~lost[d] /\ reported[d] # "lease_lost"
      /\ lost \in [Calls -> BOOLEAN] /\ DOMAIN reported = Calls
      /\ overall[d] # "lease_lost"
    BY DEF NeverLostInTime, TypeInv, TypeOK
<1>1. ASSUME NEW c \in Calls, Renew(c) PROVE UNCHANGED <<lost, reported>>
    BY <1>1 DEF Renew, HoldsLease, Working
<1>2. ASSUME NEW c \in Calls, CloseCall(c) PROVE ~lost'[d] /\ reported'[d] # "lease_lost"
    BY <1>0, <1>2 DEF CloseCall, NeverLostInTime
<1>3. ASSUME NEW c \in Calls, AcquireForExecute(c) \/ AcquireForResume(c)
      PROVE  ~lost'[d] /\ reported'[d] # "lease_lost"
    BY <1>0, <1>3 DEF AcquireForExecute, AcquireForResume, TakeLease, Raise
<1>4. ASSUME NEW c \in Calls, \/ EnforceForExecute(c) \/ EnforceForResume(c)
                              \/ LoadRun(c) \/ RetryResume(c)
      PROVE  ~lost'[d] /\ reported'[d] # "lease_lost"
    BY <1>0, <1>4 DEF EnforceForExecute, EnforceForResume, LoadRun, RetryResume, Raise
<1>5. ASSUME NEW c \in Calls, \/ CreateRun(c) \/ SkipBelow(c) \/ ConditionFalse(c)
                              \/ ConditionError(c) \/ DeadlineExceeded(c) \/ BuildPlan(c)
                              \/ PersistNode(c) \/ SnapshotNode(c) \/ ReuseNode(c)
      PROVE  UNCHANGED <<lost, reported>>
    BY <1>5 DEF CreateRun, SkipBelow, ConditionFalse, OmitNode, ConditionError,
       DeadlineExceeded, StopExecution, BuildPlan, PersistNode, SnapshotNode, ReuseNode,
       FollowPlan
<1>6. ASSUME NEW c \in Calls, \/ FailBlockedNode(c) \/ FinishRun(c) \/ CompletionSnapshot(c)
                              \/ CancelCall(c) \/ Crash(c)
      PROVE  UNCHANGED <<lost, reported>>
    BY <1>6 DEF FailBlockedNode, FollowPlan, FinishRun, CompletionSnapshot, CancelCall, Crash
<1>7. ASSUME NEW c \in Calls, NEW outcome \in NodeOutcomes,
             RunNode(c, outcome) \/ RerunNode(c, outcome)
      PROVE  UNCHANGED <<lost, reported>>
    BY <1>7 DEF RunNode, RerunNode, FollowPlan
<1>8. CASE Tick \/ UNCHANGED vars
    BY <1>0, <1>8 DEF Tick, vars, callVars
<1> QED
    BY <1>0, <1>1, <1>2, <1>3, <1>4, <1>5, <1>6, <1>7, <1>8
       DEF Next, Step, ExecuteStep, ResumeStep

(* LeaseLostError is only ever the answer to a late renewal: with renewals *)
(* in time and distinct workers no call loses its lease (dag.py:776-811).  *)
THEOREM NoLossInTime ==
    RenewerKeepsUp /\ DistinctWorkers => (Spec => []NeverLostInTime)
<1> SUFFICES ASSUME RenewerKeepsUp, DistinctWorkers PROVE Spec => []NeverLostInTime
    OBVIOUS
<1>1. Init => HoldsLease /\ NeverLostInTime
    BY DEF Init, HoldsLease, Working, Executing, NeverLostInTime
<1>2. TypeInv /\ HoldsLease /\ [Next]_vars => HoldsLease'
    BY HolderStep
<1>3. TypeInv /\ HoldsLease /\ NeverLostInTime /\ [Next]_vars => NeverLostInTime'
    BY NotLostStep
<1> QED
    BY <1>1, <1>2, <1>3, DagTypeInit, DagTypeStep, PTL DEF Spec

-----------------------------------------------------------------------------
(* Whatever the calls do, the backend sees the operations of RunLease, so  *)
(* its promises are kept to all calls.                                     *)
THEOREM CallsUseLease == Spec => LeaseSpec
<1>1. Init => LeaseInit
    BY DEF Init
<1> QED
    BY <1>1, StepIsLeaseStep, PTL DEF Spec, LeaseSpec

(* ... and the runs are let and vacated as RunTenancy says, to any number  *)
(* of executions and resumes and over their crashes: the executor as a     *)
(* whole refines the abstract contract.                                    *)
THEOREM RunsAreTenancies == Spec => TenancySpec
BY CallsUseLease, ImplementsTenancy

(* A call starts to execute nodes by getting the lease and not otherwise.  *)
LEMMA EnteringAcquires ==
    ASSUME TypeInv, [Next]_vars, NEW c \in Calls, Enters(c)
    PROVE  AcquireLease(RunOf[c], WorkerOf[c])
<1>0. pc \in [Calls -> Phases]
    BY DEF TypeInv, TypeOK
<1> USE DEF Enters, Goto
<1>1. ASSUME NEW e \in Calls, AcquireForExecute(e) \/ AcquireForResume(e)
      PROVE  AcquireLease(RunOf[c], WorkerOf[c])
    BY <1>0, <1>1 DEF AcquireForExecute, AcquireForResume, TakeLease, Raise
<1>2. ASSUME NEW e \in Calls, \/ EnforceForExecute(e) \/ EnforceForResume(e) \/ CreateRun(e)
                              \/ LoadRun(e) \/ BuildPlan(e) \/ RetryResume(e)
      PROVE  FALSE
    BY <1>0, <1>2 DEF EnforceForExecute, EnforceForResume, CreateRun, LoadRun, BuildPlan,
       RetryResume, Raise
<1>3. ASSUME NEW e \in Calls, \/ SkipBelow(e) \/ ConditionFalse(e) \/ ConditionError(e)
                              \/ DeadlineExceeded(e) \/ ReuseNode(e) \/ FailBlockedNode(e)
      PROVE  FALSE
    BY <1>3 DEF SkipBelow, ConditionFalse, OmitNode, ConditionError, DeadlineExceeded,
       StopExecution, ReuseNode, FailBlockedNode, FollowPlan
<1>4. ASSUME NEW e \in Calls, NEW outcome \in NodeOutcomes,
             RunNode(e, outcome) \/ RerunNode(e, outcome)
      PROVE  FALSE
    BY <1>0, <1>4 DEF RunNode, RerunNode, FollowPlan
<1>5. ASSUME NEW e \in Calls, \/ PersistNode(e) \/ SnapshotNode(e) \/ FinishRun(e)
                              \/ CompletionSnapshot(e) \/ CloseCall(e)
      PROVE  FALSE
    BY <1>0, <1>5 DEF PersistNode, SnapshotNode, FinishRun, CompletionSnapshot, CloseCall
<1>6. ASSUME NEW e \in Calls, Renew(e) \/ CancelCall(e) \/ Crash(e)
      PROVE  FALSE
    BY <1>0, <1>6 DEF Renew, CancelCall, Crash
<1>7. CASE Tick \/ UNCHANGED vars
    BY <1>7 DEF Tick, vars, callVars
<1> QED
    BY <1>1, <1>2, <1>3, <1>4, <1>5, <1>6, <1>7 DEF Next, Step, ExecuteStep, ResumeStep

(* No overtaking: even if renewals are late and calls crash, a call gets a *)
(* run from one that still executes only after the promise to that one has *)
(* run out (lease_backend.py:301-359, dag.py:714, dag.py:1010).            *)
THEOREM TakeoverWaits == Spec => NoOvertaking
<1>1. ASSUME TypeInv, GrantHonoured, [Next]_vars, NEW c \in Calls, NEW d \in Calls,
             Enters(c), RunOf[c] = RunOf[d], WorkerOf[c] # WorkerOf[d]
      PROVE  grant[RunOf[d]][WorkerOf[d]] = 0
  <2>1. ~Live(RunOf[d], WorkerOf[d])
      BY <1>1, EnteringAcquires DEF AcquireLease, AcquireFresh, AcquireSteal,
         AcquireRefresh, Live, HeldBy
  <2>2. grant[RunOf[d]][WorkerOf[d]] \in Nat
      BY <1>1, CallsAssumption DEF TypeInv, TypeOK, LeaseTypeOK
  <2> QED
      BY <2>1, <2>2, CallsAssumption, <1>1 DEF GrantHonoured
<1>2. TypeInv /\ GrantHonoured /\ [Next]_vars
        => [\A c, d \in Calls :
               /\ Enters(c)
               /\ Executing(d)
               /\ RunOf[c] = RunOf[d]
               /\ WorkerOf[c] # WorkerOf[d]
               => grant[RunOf[d]][WorkerOf[d]] = 0]_vars
    BY <1>1
<1> QED
    BY <1>2, CallsUseLease, PromiseKept, DagTypeInit, DagTypeStep, PTL
       DEF Spec, NoOvertaking

-----------------------------------------------------------------------------
(* What is recorded or reported as completed was done.  A resume counts an *)
(* interrupted node as done with, so no node is interrupted here.          *)
Settled(r) == done[r] \cup excluded[r]

\* A call that has met no failure has settled every node behind it.
Accounted(c) ==
    /\ overall[c] = "completed" => \A n \in Nodes : n < pos[c] => n \in Settled(RunOf[c])
    /\ pc[c] = "ran" /\ Finished(last[c]) => pos[c] \in done[RunOf[c]]
    /\ pc[c] = "persisted" /\ overall[c] = "completed" => pos[c] \in done[RunOf[c]]
    /\ pc[c] \in {"finished", "closing"} /\ overall[c] = "completed" => pos[c] > NodeCount
    /\ \A n \in Nodes : plan[c][n] = "skip" => n \in done[RunOf[c]]
RecordsTrue ==
    \A r \in Runs, n \in Nodes : nodeState[r][n] = "completed" => n \in done[r]

OutcomeInv == (\A c \in Calls : Accounted(c)) /\ RecordsTrue /\ CompletedIsDone

\* Nothing done or ruled out is ever taken back, and c alone moves.
Grown == \A r \in Runs : done[r] \subseteq done'[r] /\ excluded[r] \subseteq excluded'[r]
Alone(c) ==
    \A d \in Calls \ {c} : /\ pc'[d] = pc[d] /\ pos'[d] = pos[d] /\ last'[d] = last[d]
                           /\ overall'[d] = overall[d] /\ plan'[d] = plan[d]

LEMMA StillAccounted ==
    ASSUME Grown, NEW d \in Calls, Accounted(d), pos'[d] = pos[d], last'[d] = last[d],
           overall'[d] = overall[d], plan'[d] = plan[d],
           pc'[d] \in {"ran", "persisted", "finished", "closing"} => pc'[d] = pc[d]
    PROVE  Accounted(d)'
BY CallsAssumption DEF Accounted, Grown, Settled

LEMMA StepOfCall ==
    ASSUME OutcomeInv, Grown, NEW c \in Calls, Alone(c), Accounted(c)',
           nodeState' = nodeState \/ RecordsTrue', runStatus' = runStatus \/ CompletedIsDone'
    PROVE  OutcomeInv'
<1>1. \A d \in Calls : Accounted(d)'
    BY StillAccounted DEF OutcomeInv, Alone
<1>2. RecordsTrue'
    BY DEF OutcomeInv, RecordsTrue, Grown
<1>3. CompletedIsDone'
    BY DEF OutcomeInv, CompletedIsDone, AllDone, Grown
<1> QED
    BY <1>1, <1>2, <1>3 DEF OutcomeInv

\* The steps by which a call only moves on.
LEMMA MoveOn ==
    ASSUME TypeInv, OutcomeInv, NEW c \in Calls, NEW phase, Goto(c, phase),
           phase \notin {"ran", "persisted", "finished", "closing"},
           UNCHANGED <<loopVars, nodeState, done, excluded>>,
           \A r \in Runs : runStatus'[r] = "completed" => runStatus[r] = "completed"
    PROVE  OutcomeInv'
<1>1. Grown /\ Alone(c) /\ pc'[c] = phase
    BY DEF Grown, Alone, Goto, loopVars, TypeInv, TypeOK
<1>2. Accounted(c)'
    BY <1>1, StillAccounted DEF OutcomeInv, loopVars
<1>3. CompletedIsDone'
    BY DEF OutcomeInv, CompletedIsDone, AllDone
<1> QED
    BY <1>1, <1>2, <1>3, StepOfCall

\* One node further, the node at hand being settled or the call having failed.
LEMMA OneFurther ==
    ASSUME TypeInv, OutcomeInv, Grown, NEW c \in Calls, Alone(c), pos[c] \in Nodes,
           pc'[c] = "executing", Advance(c), plan' = plan, nodeState' = nodeState,
           runStatus' = runStatus,
           overall'[c] = "completed" => /\ overall[c] = "completed"
                                        /\ pos[c] \in done'[RunOf[c]] \cup excluded'[RunOf[c]]
    PROVE  OutcomeInv'
<1> USE CallsAssumption
<1>1. pos'[c] = pos[c] + 1 /\ pos[c] \in Nat /\ NodeCount \in Nat
    BY NodesAssumption DEF Advance, TypeInv, TypeOK, Nodes
<1>2. Accounted(c)
    BY DEF OutcomeInv
<1>3. ASSUME overall'[c] = "completed", NEW n \in Nodes, n < pos'[c]
      PROVE  n \in Settled(RunOf[c])'
    BY <1>1, <1>2, <1>3 DEF Accounted, Settled, Grown, Nodes
<1>4. \A n \in Nodes : plan'[c][n] = "skip" => n \in done'[RunOf[c]]
    BY <1>2 DEF Accounted, Grown
<1> QED
    BY <1>3, <1>4, StepOfCall DEF Accounted

\* The loop ends early, the call having failed.
LEMMA EndEarly ==
    ASSUME TypeInv, OutcomeInv, Grown, NEW c \in Calls, Alone(c), overall'[c] # "completed",
           pc'[c] # "ran", plan' = plan, nodeState' = nodeState, runStatus' = runStatus
    PROVE  OutcomeInv'
<1>1. Accounted(c)'
    BY CallsAssumption DEF OutcomeInv, Accounted, Grown
<1> QED
    BY <1>1, StepOfCall

LEMMA SequentialStep ==
    ASSUME TypeInv, OutcomeInv, NEW c \in Calls,
           \/ SkipBelow(c) \/ ConditionFalse(c) \/ ConditionError(c) \/ DeadlineExceeded(c)
           \/ SnapshotNode(c)
    PROVE  OutcomeInv'
<1>0. /\ pc \in [Calls -> Phases] /\ excluded \in [Runs -> SUBSET Nodes] /\ RunOf[c] \in Runs
      /\ pos[c] \in 1 .. NodeCount + 1 /\ NodeCount \in Nat
      /\ pos \in [Calls -> 1 .. NodeCount + 1] /\ DOMAIN overall = Calls
    BY CallsAssumption, NodesAssumption DEF TypeInv, TypeOK
<1>1. CASE SkipBelow(c) \/ ConditionFalse(c)
  <2>1. OmitNode(c) /\ pc[c] = "executing" /\ pos[c] \in Nodes
      BY <1>0, <1>1 DEF SkipBelow, ConditionFalse, AtFreeNode, AtNode, Nodes
  <2>2. Grown /\ Alone(c)
      BY <1>0, <2>1 DEF OmitNode, Advance, Grown, Alone
  <2>3. pos[c] \in excluded'[RunOf[c]]
      BY <1>0, <2>1 DEF OmitNode
  <2> QED
      BY <2>1, <2>2, <2>3, OneFurther DEF OmitNode, storeVars
<1>2. CASE ConditionError(c) \/ DeadlineExceeded(c)
  <2>1. StopExecution(c)
      BY <1>2 DEF ConditionError, DeadlineExceeded
  <2>2. Grown /\ Alone(c) /\ overall'[c] = "failed" /\ pc'[c] = "executing"
      BY <1>0, <2>1 DEF StopExecution, Break, SetOverall, Grown, Alone, AtFreeNode, AtNode,
         historyVars
  <2> QED
      BY <2>1, <2>2, EndEarly DEF StopExecution, storeVars
<1>3. CASE SnapshotNode(c)
  <2>1. /\ Grown /\ Alone(c) /\ pc[c] = "persisted" /\ pc'[c] = "executing"
        /\ UNCHANGED <<nodeState, runStatus, overall, plan, done, excluded>>
      BY <1>0, <1>3 DEF SnapshotNode, Goto, Advance, Break, Grown, Alone, historyVars
  <2>2. pos[c] \in Nodes
      BY <2>1 DEF TypeInv, RanIsAtNode
  <2>3. CASE overall[c] = "completed"
    <3>1. Advance(c) /\ pos[c] \in done'[RunOf[c]]
        BY <1>3, <2>1, <2>3 DEF SnapshotNode, OutcomeInv, Accounted
    <3> QED
        BY <2>1, <2>2, <2>3, <3>1, OneFurther
  <2>4. CASE overall[c] # "completed"
      BY <2>1, <2>4, EndEarly
  <2> QED
      BY <2>3, <2>4
<1> QED
    BY <1>1, <1>2, <1>3

LEMMA HandlerStep ==
    ASSUME TypeInv, OutcomeInv, NEW c \in Calls, NEW outcome \in NodeOutcomes,
           "interrupted" \notin NodeOutcomes, RunNode(c, outcome) \/ RerunNode(c, outcome)
    PROVE  OutcomeInv'
<1>0. /\ pc \in [Calls -> Phases] /\ done \in [Runs -> SUBSET Nodes] /\ RunOf[c] \in Runs
      /\ pos[c] \in 1 .. NodeCount + 1 /\ NodeCount \in Nat
      /\ last \in [Calls -> AllOutcomes] /\ DOMAIN overall = Calls /\ DOMAIN pos = Calls
    BY CallsAssumption, NodesAssumption DEF TypeInv, TypeOK
<1>1. /\ pc[c] = "executing" /\ pos[c] \in Nodes /\ HandleNode(c, outcome)
      /\ UNCHANGED <<nodeState, runStatus, excluded, plan>>
    BY <1>0 DEF RunNode, RerunNode, FollowPlan, AtFreeNode, AtNode, storeVars, Nodes
<1>2. /\ Grown /\ last'[c] = outcome
      /\ Finished(outcome) => pos[c] \in done'[RunOf[c]]
    BY <1>0, <1>1 DEF HandleNode, Grown
<1>3. CASE RunNode(c, outcome)
  <2>1. Alone(c) /\ pc'[c] = "ran" /\ UNCHANGED <<pos, overall, plan>>
      BY <1>0, <1>3 DEF RunNode, HandleNode, Goto, Alone
  <2>2. Accounted(c)'
      BY <1>2, <2>1, CallsAssumption DEF OutcomeInv, Accounted, Settled, Grown
  <2> QED
      BY <1>1, <1>2, <2>1, <2>2, StepOfCall
<1>4. CASE RerunNode(c, outcome)
  <2>1. Alone(c) /\ Advance(c) /\ pc'[c] = "executing"
      BY <1>0, <1>1, <1>4 DEF RerunNode, FollowPlan, HandleNode, SetOverall, Advance, Alone
  <2>2. overall'[c] = "completed" => overall[c] = "completed" /\ Finished(outcome)
      BY <1>0, <1>4, NodesAssumption DEF RerunNode, SetOverall, Finished, AllOutcomes
  <2> QED
      BY <1>1, <1>2, <2>1, <2>2, OneFurther
<1> QED
    BY <1>3, <1>4

LEMMA PersistStep ==
    ASSUME TypeInv, OutcomeInv, NEW c \in Calls, PersistNode(c)
    PROVE  OutcomeInv'
<1>0. /\ pc \in [Calls -> Phases] /\ RunOf[c] \in Runs /\ pos[c] \in Nodes
      /\ nodeState \in [Runs -> [Nodes -> {"absent"} \cup AllOutcomes]] /\ DOMAIN overall = Calls
    BY CallsAssumption DEF PersistNode, TypeInv, TypeOK, RanIsAtNode
<1>1. /\ Grown /\ Alone(c) /\ pc[c] = "ran" /\ pc'[c] = "persisted"
      /\ UNCHANGED <<runStatus, pos, plan, done, excluded>>
      /\ overall'[c] = IF Finished(last[c]) THEN overall[c] ELSE last[c]
    BY <1>0 DEF PersistNode, SetOverall, Goto, Grown, Alone, historyVars
<1>2. Accounted(c)
    BY DEF OutcomeInv
<1>3. Accounted(c)'
    BY <1>1, <1>2 DEF Accounted, Settled, Finished
<1>4. RecordsTrue'
  <2> SUFFICES ASSUME NEW r \in Runs, NEW n \in Nodes, nodeState'[r][n] = "completed"
               PROVE  n \in done[r]
      BY <1>1 DEF RecordsTrue
  <2>1. CASE r = RunOf[c] /\ n = pos[c]
    <3>1. nodeState'[r][n] = last[c]
        BY <1>0, <2>1 DEF PersistNode
    <3> QED
        BY <1>1, <1>2, <2>1, <3>1 DEF Accounted, Finished
  <2>2. CASE ~(r = RunOf[c] /\ n = pos[c])
    <3>1. nodeState'[r][n] = nodeState[r][n]
        BY <1>0, <2>2 DEF PersistNode
    <3> QED
        BY <3>1 DEF OutcomeInv, RecordsTrue
  <2> QED
      BY <2>1, <2>2
<1> QED
    BY <1>1, <1>3, <1>4, StepOfCall

LEMMA ResumePlanStep ==
    ASSUME TypeInv, OutcomeInv, NEW c \in Calls, BuildPlan(c) \/ ReuseNode(c) \/ FailBlockedNode(c)
    PROVE  OutcomeInv'
<1>0. /\ pc \in [Calls -> Phases] /\ RunOf[c] \in Runs /\ DOMAIN plan = Calls
      /\ pos[c] \in 1 .. NodeCount + 1 /\ NodeCount \in Nat /\ DOMAIN overall = Calls
      /\ DOMAIN pos = Calls
    BY CallsAssumption, NodesAssumption DEF TypeInv, TypeOK
<1>1. Accounted(c)
    BY DEF OutcomeInv
<1>2. CASE BuildPlan(c)
  <2>1. /\ Grown /\ Alone(c) /\ pc'[c] = "planned"
        /\ UNCHANGED <<nodeState, runStatus, pos, last, overall, done, excluded>>
        /\ \A n \in Nodes : plan'[c][n] = Decision(nodeState[RunOf[c]][n])
      BY <1>0, <1>2 DEF BuildPlan, Goto, Grown, Alone, storeVars, historyVars
  <2>2. ASSUME NEW n \in Nodes, plan'[c][n] = "skip" PROVE n \in done[RunOf[c]]
    <3>1. nodeState[RunOf[c]][n] \in {"absent"} \cup AllOutcomes
        BY <1>0 DEF TypeInv, TypeOK
    <3>2. nodeState[RunOf[c]][n] = "completed"
        BY <2>1, <2>2, <3>1 DEF Decision, AllOutcomes
    <3> QED
        BY <1>0, <3>2 DEF OutcomeInv, RecordsTrue
  <2>3. Accounted(c)'
      BY <1>1, <2>1, <2>2 DEF Accounted, Settled
  <2> QED
      BY <2>1, <2>3, StepOfCall
<1>3. CASE ReuseNode(c) \/ FailBlockedNode(c)
  <2>1. /\ Grown /\ Alone(c) /\ pc'[c] = "executing" /\ pos[c] \in Nodes /\ Advance(c)
        /\ UNCHANGED <<nodeState, runStatus, plan, done, excluded>>
      BY <1>0, <1>3 DEF ReuseNode, FailBlockedNode, FollowPlan, AtNode, Advance, SetOverall,
         Nodes, Grown, Alone, storeVars
  <2>2. overall'[c] = "completed" => overall[c] = "completed" /\ plan[c][pos[c]] = "skip"
      BY <1>0, <1>3 DEF ReuseNode, FailBlockedNode, FollowPlan, SetOverall
  <2> QED
      BY <1>1, <2>1, <2>2, OneFurther DEF Accounted
<1> QED
    BY <1>2, <1>3

LEMMA EndStep ==
    ASSUME TypeInv, OutcomeInv, NEW c \in Calls,
           FinishRun(c) \/ CompletionSnapshot(c) \/ CloseCall(c) \/ CancelCall(c)
    PROVE  OutcomeInv'
<1>0. /\ pc \in [Calls -> Phases] /\ RunOf[c] \in Runs /\ runStatus \in [Runs -> {"absent", "running", "completed", "failed"}]
      /\ pos[c] \in 1 .. NodeCount + 1 /\ NodeCount \in Nat /\ DOMAIN overall = Calls
    BY CallsAssumption, NodesAssumption DEF TypeInv, TypeOK
<1>1. Accounted(c)
    BY DEF OutcomeInv
<1>2. CASE FinishRun(c)
  <2>1. /\ Grown /\ Alone(c) /\ pc'[c] = "finished" /\ pos[c] > NodeCount
        /\ UNCHANGED <<nodeState, loopVars, done, excluded>>
      BY <1>0, <1>2 DEF FinishRun, Goto, Grown, Alone, loopVars, historyVars
  <2>2. Accounted(c)'
      BY <1>1, <2>1 DEF Accounted, Settled, loopVars
  <2>3. ASSUME NEW r \in Runs, runStatus'[r] = "completed" PROVE AllDone(r)
    <3>1. CASE runStatus[r] = "completed"
        BY <3>1 DEF OutcomeInv, CompletedIsDone
    <3>2. CASE runStatus[r] # "completed"
      <4>1. r = RunOf[c] /\ overall[c] = "completed"
          BY <1>0, <1>2, <2>3, <3>2 DEF FinishRun
      <4> QED
          BY <1>0, <1>1, <2>1, <4>1 DEF Accounted, Settled, AllDone, Nodes
    <3> QED
        BY <3>1, <3>2
  <2>4. CompletedIsDone'
      BY <2>1, <2>3 DEF CompletedIsDone, AllDone
  <2> QED
      BY <2>1, <2>2, <2>4, StepOfCall
<1>3. CASE CompletionSnapshot(c)
  <2>1. /\ Grown /\ Alone(c) /\ pc[c] = "finished" /\ pc'[c] = "closing"
        /\ UNCHANGED <<nodeState, runStatus, loopVars, done, excluded>>
      BY <1>0, <1>3 DEF CompletionSnapshot, Goto, Grown, Alone, loopVars, historyVars
  <2>2. Accounted(c)'
      BY <1>1, <2>1 DEF Accounted, Settled, loopVars
  <2> QED
      BY <2>1, <2>2, StepOfCall
<1>4. CASE CloseCall(c)
    BY <1>4, MoveOn DEF CloseCall, storeVars, historyVars
<1>5. CASE CancelCall(c)
  <2>1. /\ Grown /\ Alone(c) /\ pc'[c] = "closing" /\ overall'[c] = "cancelled"
        /\ UNCHANGED <<nodeState, runStatus, plan>>
      BY <1>0, <1>5 DEF CancelCall, Goto, SetOverall, Grown, Alone, storeVars
  <2> QED
      BY <2>1, EndEarly
<1> QED
    BY <1>2, <1>3, <1>4, <1>5

LEMMA OutcomeStep ==
    ASSUME "interrupted" \notin NodeOutcomes, TypeInv, OutcomeInv, [Next]_vars
    PROVE  OutcomeInv'
<1>1. ASSUME NEW c \in Calls, \/ CreateRun(c) \/ AcquireForExecute(c) \/ AcquireForResume(c)
                              \/ EnforceForExecute(c) \/ EnforceForResume(c) \/ LoadRun(c)
                              \/ RetryResume(c) \/ Crash(c)
      PROVE  OutcomeInv'
  <2>1. \E phase \in {"created", "leased", "executing", "raised", "ready", "done", "planning",
                      "idle", "dead"} : Goto(c, phase)
      BY <1>1 DEF CreateRun, AcquireForExecute, AcquireForResume, TakeLease, EnforceForExecute,
         EnforceForResume, LoadRun, RetryResume, Crash, Raise
  <2>2. UNCHANGED <<loopVars, nodeState, done, excluded>>
      BY <1>1 DEF CreateRun, AcquireForExecute, AcquireForResume, TakeLease, EnforceForExecute,
         EnforceForResume, LoadRun, RetryResume, Crash, storeVars, historyVars
  <2>3. \A r \in Runs : runStatus'[r] = "completed" => runStatus[r] = "completed"
      BY <1>1 DEF CreateRun, AcquireForExecute, AcquireForResume, TakeLease, EnforceForExecute,
         EnforceForResume, LoadRun, RetryResume, Crash, storeVars, TypeInv, TypeOK
  <2> QED
      BY <2>1, <2>2, <2>3, MoveOn
<1>2. ASSUME \/ Tick \/ UNCHANGED vars \/ \E c \in Calls : Renew(c)
      PROVE  OutcomeInv'
  <2>1. UNCHANGED <<runStatus, nodeState, pc, loopVars, done, excluded>>
      BY <1>2 DEF Tick, vars, Renew, storeVars, callVars, historyVars
  <2> QED
      BY <2>1 DEF loopVars, OutcomeInv, Accounted, Settled, RecordsTrue, CompletedIsDone, AllDone
<1> QED
    BY <1>1, <1>2, SequentialStep, HandlerStep, PersistStep, ResumePlanStep, EndStep
       DEF Next, Step, ExecuteStep, ResumeStep

LEMMA OutcomeInit == Init => OutcomeInv
BY CallsAssumption, NodesAssumption
   DEF Init, OutcomeInv, Accounted, RecordsTrue, CompletedIsDone, Nodes

(* Where no node is interrupted, a run on record as completed has every    *)
(* node done or ruled out by a condition, whatever calls lose leases,      *)
(* crash, resume from partial records and overwrite each other's status    *)
(* (dag.py:1023-1140, 1883-2060; dag_state_store.py:1989-2127).            *)
THEOREM CompletedRunsAreDone ==
    "interrupted" \notin NodeOutcomes => (Spec => []CompletedIsDone)
<1> SUFFICES ASSUME "interrupted" \notin NodeOutcomes PROVE Spec => []CompletedIsDone
    OBVIOUS
<1>1. TypeInv /\ OutcomeInv /\ [Next]_vars => OutcomeInv'
    BY OutcomeStep
<1>2. OutcomeInv => CompletedIsDone
    BY DEF OutcomeInv
<1> QED
    BY <1>1, <1>2, OutcomeInit, DagTypeInit, DagTypeStep, PTL DEF Spec

LEMMA ReportStep ==
    ASSUME ~SnapshotsEnabled, TypeInv, OutcomeInv, OutcomeInv', ReportedIsDone, [Next]_vars
    PROVE  ReportedIsDone'
<1> SUFFICES ASSUME NEW d \in Calls, reported'[d] = "completed" PROVE AllDone(RunOf[d])'
    BY DEF ReportedIsDone
<1>0. /\ done \in [Runs -> SUBSET Nodes] /\ excluded \in [Runs -> SUBSET Nodes]
      /\ DOMAIN reported = Calls /\ RunOf[d] \in Runs /\ NodeCount \in Nat
      /\ pos[d] \in 1 .. NodeCount + 1
    BY CallsAssumption, NodesAssumption DEF TypeInv, TypeOK
<1>1. Grown
  <2>1. ASSUME NEW c \in Calls, OmitNode(c) PROVE Grown
      BY <1>0, <2>1 DEF OmitNode, Grown
  <2>2. ASSUME NEW c \in Calls, NEW outcome, HandleNode(c, outcome)
        PROVE  \A r \in Runs : done[r] \subseteq done'[r]
      BY <1>0, <2>2 DEF HandleNode
  <2>3. ASSUME NEW c \in Calls, NEW outcome \in NodeOutcomes, RunNode(c, outcome) \/ RerunNode(c, outcome)
        PROVE  Grown
      BY <2>2, <2>3 DEF RunNode, RerunNode, FollowPlan, Grown
  <2>4. ASSUME NEW c \in Calls, \/ CreateRun(c) \/ AcquireForExecute(c) \/ AcquireForResume(c)
                                \/ EnforceForExecute(c) \/ EnforceForResume(c) \/ LoadRun(c)
                                \/ RetryResume(c) \/ Crash(c) \/ CancelCall(c) \/ Renew(c)
        PROVE  UNCHANGED <<done, excluded>>
      BY <2>4 DEF CreateRun, AcquireForExecute, AcquireForResume, TakeLease, EnforceForExecute,
         EnforceForResume, LoadRun, RetryResume, Crash, CancelCall, Renew, historyVars
  <2>5. ASSUME NEW c \in Calls, \/ ConditionError(c) \/ DeadlineExceeded(c) \/ PersistNode(c)
                                \/ SnapshotNode(c) \/ BuildPlan(c) \/ ReuseNode(c)
                                \/ FailBlockedNode(c) \/ FinishRun(c) \/ CompletionSnapshot(c)
                                \/ CloseCall(c)
        PROVE  UNCHANGED <<done, excluded>>
      BY <2>5 DEF ConditionError, DeadlineExceeded, StopExecution, PersistNode, SnapshotNode,
         BuildPlan, ReuseNode, FailBlockedNode, FollowPlan, FinishRun, CompletionSnapshot,
         CloseCall, historyVars
  <2>6. CASE Tick \/ UNCHANGED vars
      BY <2>6 DEF Tick, vars, historyVars, Grown
  <2> QED
      BY <2>1, <2>3, <2>4, <2>5, <2>6
         DEF Next, Step, ExecuteStep, ResumeStep, SkipBelow, ConditionFalse, Grown
<1>2. CASE reported[d] = "completed"
  <2>1. AllDone(RunOf[d])
      BY <1>2 DEF ReportedIsDone
  <2> QED
      BY <1>0, <1>1, <2>1 DEF AllDone, Grown
<1>3. CASE reported[d] # "completed"
  <2>1. CloseCall(d) /\ overall[d] = "completed"
    <3>1. ASSUME NEW c \in Calls, CloseCall(c) PROVE CloseCall(d) /\ overall[d] = "completed"
        BY <1>0, <1>3, <3>1 DEF CloseCall
    <3>2. ASSUME NEW c \in Calls, AcquireForExecute(c) \/ AcquireForResume(c) \/ EnforceForExecute(c)
                                  \/ EnforceForResume(c) \/ LoadRun(c) \/ RetryResume(c)
          PROVE  FALSE
        BY <1>0, <1>3, <3>2 DEF AcquireForExecute, AcquireForResume, TakeLease, EnforceForExecute,
           EnforceForResume, LoadRun, RetryResume, Raise
    <3>3. ASSUME NEW c \in Calls, \/ CreateRun(c) \/ Crash(c) \/ CancelCall(c) \/ Renew(c)
                                  \/ SkipBelow(c) \/ ConditionFalse(c) \/ ConditionError(c)
                                  \/ DeadlineExceeded(c) \/ PersistNode(c) \/ SnapshotNode(c)
          PROVE  FALSE
        BY <1>3, <3>3
           DEF CreateRun, Crash, CancelCall, Renew, SkipBelow, ConditionFalse, OmitNode,
           ConditionError, DeadlineExceeded, StopExecution, PersistNode, SnapshotNode
    <3>4. ASSUME NEW c \in Calls, \/ BuildPlan(c) \/ ReuseNode(c) \/ FailBlockedNode(c)
                                  \/ FinishRun(c) \/ CompletionSnapshot(c)
          PROVE  FALSE
        BY <1>3, <3>4 DEF BuildPlan, ReuseNode, FailBlockedNode, FollowPlan, FinishRun,
           CompletionSnapshot
    <3>5. ASSUME NEW c \in Calls, NEW outcome \in NodeOutcomes,
                 RunNode(c, outcome) \/ RerunNode(c, outcome)
          PROVE  FALSE
        BY <1>3, <3>5 DEF RunNode, RerunNode, FollowPlan
    <3>6. CASE Tick \/ UNCHANGED vars
        BY <1>3, <3>6 DEF Tick, vars, callVars
    <3> QED
        BY <3>1, <3>2, <3>3, <3>4, <3>5, <3>6 DEF Next, Step, ExecuteStep, ResumeStep
  <2>2. Accounted(d) /\ pc[d] = "closing"
      BY <2>1 DEF OutcomeInv, CloseCall
  <2>3. AllDone(RunOf[d])
      BY <1>0, <2>1, <2>2 DEF Accounted, Settled, AllDone, Nodes
  <2> QED
      BY <1>0, <1>1, <2>3 DEF AllDone, Grown
<1> QED
    BY <1>2, <1>3

(* The same of what a call returns, without the node-level snapshots that  *)
(* say "completed" too early (dag.py:1023-1031, 2049-2057).                *)
THEOREM ReportsAreDone ==
    "interrupted" \notin NodeOutcomes /\ ~SnapshotsEnabled => (Spec => []ReportedIsDone)
<1> SUFFICES ASSUME "interrupted" \notin NodeOutcomes, ~SnapshotsEnabled
             PROVE  Spec => []ReportedIsDone
    OBVIOUS
<1>1. TypeInv /\ OutcomeInv /\ [Next]_vars => OutcomeInv'
    BY OutcomeStep
<1>2. TypeInv /\ OutcomeInv /\ OutcomeInv' /\ ReportedIsDone /\ [Next]_vars => ReportedIsDone'
    BY ReportStep
<1>3. Init => ReportedIsDone
    BY DEF Init, ReportedIsDone
<1> QED
    BY <1>1, <1>2, <1>3, OutcomeInit, DagTypeInit, DagTypeStep, PTL DEF Spec

-----------------------------------------------------------------------------
(* What a call leaves behind.                                              *)
DistinctKeys ==
    \A c, d \in Starters : c # d /\ KeyOf[c] = KeyOf[d] => KeyOf[c] = NoKey

\* Who executes and who resumes.
Sides ==
    \A c \in Calls : /\ pc[c] \in {"created", "leased"} => c \in Starters
                     /\ pc[c] \in {"planning", "planned", "ready"} => c \in Resumers
KeysFree ==
    \A c \in Starters :
        pc[c] \in {"idle", "created", "leased"} /\ KeyOf[c] # NoKey
            => Scoped("execute", c) \notin reserved
Outside(c) == pc[c] \in {"idle", "created", "planning", "planned", "ready", "done", "raised"}
LeavesNothing == \A c \in Calls : Outside(c) => ~Live(RunOf[c], WorkerOf[c])

\* Who began to execute nodes reserved its key.
KeysReserved ==
    \A c \in Starters : KeyOf[c] # NoKey /\ Began(c) => Scoped("execute", c) \in reserved

LEMMA SidesStep == TypeInv /\ Sides /\ [Next]_vars => Sides'
<1> SUFFICES ASSUME TypeInv, Sides, [Next]_vars PROVE Sides'
    OBVIOUS
<1>0. pc \in [Calls -> Phases]
    BY DEF TypeInv, TypeOK
<1> USE DEF Sides, Goto, Resumers
<1>1. ASSUME NEW c \in Calls, CreateRun(c) \/ AcquireForExecute(c) \/ EnforceForExecute(c)
      PROVE  Sides'
    BY <1>0, <1>1 DEF CreateRun, AcquireForExecute, TakeLease, EnforceForExecute, Raise
<1>2. ASSUME NEW c \in Calls, \/ LoadRun(c) \/ BuildPlan(c) \/ EnforceForResume(c)
                              \/ AcquireForResume(c) \/ RetryResume(c)
      PROVE  Sides'
    BY <1>0, <1>2 DEF LoadRun, BuildPlan, EnforceForResume, AcquireForResume, TakeLease,
       RetryResume, Raise
<1>3. ASSUME NEW c \in Calls, \/ SkipBelow(c) \/ ConditionFalse(c) \/ ConditionError(c)
                              \/ DeadlineExceeded(c) \/ ReuseNode(c) \/ FailBlockedNode(c)
      PROVE  Sides'
    BY <1>0, <1>3 DEF SkipBelow, ConditionFalse, OmitNode, ConditionError, DeadlineExceeded,
       StopExecution, ReuseNode, FailBlockedNode, FollowPlan
<1>4. ASSUME NEW c \in Calls, NEW outcome \in NodeOutcomes,
             RunNode(c, outcome) \/ RerunNode(c, outcome)
      PROVE  Sides'
    BY <1>0, <1>4 DEF RunNode, RerunNode, FollowPlan
<1>5. ASSUME NEW c \in Calls, \/ PersistNode(c) \/ SnapshotNode(c) \/ FinishRun(c)
                              \/ CompletionSnapshot(c) \/ CloseCall(c)
                              \/ Renew(c) \/ CancelCall(c) \/ Crash(c)
      PROVE  Sides'
    BY <1>0, <1>5 DEF PersistNode, SnapshotNode, FinishRun, CompletionSnapshot, CloseCall, Renew,
       CancelCall, Crash
<1>6. CASE Tick \/ UNCHANGED vars
    BY <1>6 DEF Tick, vars, callVars
<1> QED
    BY <1>1, <1>2, <1>3, <1>4, <1>5, <1>6 DEF Next, Step, ExecuteStep, ResumeStep

(* A key is reserved by the two enforcing steps and by no other; a call    *)
(* comes to its nodes by one of them.                                      *)
LEMMA KeysStep ==
    ASSUME TypeInv, Sides, [Next]_vars
    PROVE  \/ /\ reserved' = reserved
              /\ \A d \in Starters : Began(d)' => Began(d)
              /\ \A d \in Starters : pc'[d] \in {"idle", "created", "leased"}
                                       => pc[d] \in {"idle", "created", "leased"}
           \/ \E c \in Calls :
                 /\ \/ Reserve("resume", c) /\ c \notin Starters
                    \/ Reserve("execute", c) /\ pc'[c] = "executing" /\ c \in Starters
                 /\ \A d \in Calls \ {c} : pc'[d] = pc[d]
                 /\ pc'[c] \in {"executing", "ready"}
                 /\ pos' = pos
<1>0. pc \in [Calls -> Phases] /\ Starters \subseteq Calls /\ pos \in [Calls -> 1 .. NodeCount + 1]
      /\ NodeCount \in Nat
    BY CallsAssumption, NodesAssumption DEF TypeInv, TypeOK
<1> DEFINE Quiet == /\ reserved' = reserved
                    /\ \A d \in Starters : Began(d)' => Began(d)
                    /\ \A d \in Starters : pc'[d] \in {"idle", "created", "leased"}
                                             => pc[d] \in {"idle", "created", "leased"}
<1>1. ASSUME NEW c \in Calls, EnforceForExecute(c)
      PROVE  Quiet \/ /\ Reserve("execute", c) /\ pc'[c] = "executing" /\ c \in Starters
                      /\ \A d \in Calls \ {c} : pc'[d] = pc[d]
                      /\ pos' = pos
  <2>1. CASE Raise(c, "duplicate") /\ UNCHANGED reserved
      BY <1>0, <1>1, <2>1 DEF EnforceForExecute, Raise, Goto, Began, Executing, loopVars
  <2>2. CASE Reserve("execute", c) /\ Goto(c, "executing")
      BY <1>0, <1>1, <2>2 DEF EnforceForExecute, Goto, Sides, loopVars
  <2> QED
      BY <1>1, <2>1, <2>2 DEF EnforceForExecute
<1>2. ASSUME NEW c \in Calls, EnforceForResume(c)
      PROVE  Quiet \/ /\ Reserve("resume", c) /\ pc'[c] = "ready" /\ c \notin Starters
                      /\ \A d \in Calls \ {c} : pc'[d] = pc[d]
                      /\ pos' = pos
  <2>1. CASE Raise(c, "duplicate") /\ UNCHANGED reserved
      BY <1>0, <1>2, <2>1 DEF EnforceForResume, Raise, Goto, Began, Executing, loopVars
  <2>2. CASE Reserve("resume", c) /\ Goto(c, "ready")
      BY <1>0, <1>2, <2>2 DEF EnforceForResume, Goto, Sides, Resumers, loopVars
  <2> QED
      BY <1>2, <2>1, <2>2 DEF EnforceForResume
<1>3. ASSUME NEW c \in Calls, \/ CreateRun(c) \/ AcquireForExecute(c) \/ AcquireForResume(c)
                              \/ LoadRun(c) \/ BuildPlan(c) \/ RetryResume(c)
      PROVE  Quiet
    BY <1>0, <1>3
       DEF CreateRun, AcquireForExecute, AcquireForResume, TakeLease, LoadRun, BuildPlan,
       RetryResume, Raise, Goto, Began, Executing, Sides, Resumers, loopVars, storeVars
<1>4. ASSUME NEW c \in Calls, \/ SkipBelow(c) \/ ConditionFalse(c) \/ ConditionError(c)
                              \/ DeadlineExceeded(c) \/ ReuseNode(c) \/ FailBlockedNode(c)
      PROVE  Quiet
    BY <1>0, <1>4 DEF SkipBelow, ConditionFalse, OmitNode, ConditionError, DeadlineExceeded,
       StopExecution, ReuseNode, FailBlockedNode, FollowPlan, AtFreeNode, AtNode, Advance, Break,
       Began, Executing, storeVars
<1>5. ASSUME NEW c \in Calls, NEW outcome \in NodeOutcomes,
             RunNode(c, outcome) \/ RerunNode(c, outcome)
      PROVE  Quiet
    BY <1>0, <1>5 DEF RunNode, RerunNode, FollowPlan, AtFreeNode, AtNode, Advance, Goto,
       Began, Executing, storeVars
<1>6. ASSUME NEW c \in Calls, \/ PersistNode(c) \/ SnapshotNode(c) \/ FinishRun(c)
                              \/ CompletionSnapshot(c) \/ CloseCall(c)
      PROVE  Quiet
    BY <1>0, <1>6 DEF PersistNode, SnapshotNode, FinishRun, CompletionSnapshot, CloseCall,
       Advance, Break, Goto, Began, Executing, loopVars, storeVars
<1>7. ASSUME NEW c \in Calls, Renew(c) \/ CancelCall(c) \/ Crash(c)
      PROVE  Quiet
    BY <1>0, <1>7 DEF Renew, CancelCall, Crash, Goto, Began, Executing, loopVars, storeVars
<1>8. CASE Tick \/ UNCHANGED vars
    BY <1>8 DEF Tick, vars, callVars, loopVars, storeVars, Began, Executing
<1> QED
    BY <1>1, <1>2, <1>3, <1>4, <1>5, <1>6, <1>7, <1>8 DEF Next, Step, ExecuteStep, ResumeStep

(* One key, one execution: the key is looked up and written in one step,   *)
(* before the first node, and is never taken back (dag.py:719-733).        *)
THEOREM OneExecutionPerKey == Spec => []KeyUsedOnce
<1> DEFINE Inv == Sides /\ KeysReserved /\ KeyUsedOnce
<1>1. Init => Inv
    BY CallsAssumption DEF Init, Sides, KeysReserved, KeyUsedOnce, Began, Executing
<1>2. ASSUME TypeInv, Inv, [Next]_vars PROVE Inv'
  <2>1. Sides'
      BY <1>2, SidesStep
  <2>2. CASE reserved' = reserved /\ \A d \in Starters : Began(d)' => Began(d)
      BY <1>2, <2>1, <2>2 DEF KeysReserved, KeyUsedOnce, Scoped
  <2>3. ASSUME NEW c \in Calls, Reserve("resume", c), c \notin Starters, pos' = pos,
               \A d \in Calls \ {c} : pc'[d] = pc[d]
        PROVE  Inv'
    <3>1. \A d \in Starters : Began(d)' => Began(d)
        BY <2>3, CallsAssumption DEF Began, Executing
    <3>2. reserved \subseteq reserved'
        BY <2>3 DEF Reserve
    <3> QED
        BY <1>2, <2>1, <3>1, <3>2 DEF KeysReserved, KeyUsedOnce, Scoped
  <2>4. ASSUME NEW c \in Starters, Reserve("execute", c), pos' = pos,
               \A d \in Calls \ {c} : pc'[d] = pc[d]
        PROVE  Inv'
    <3>1. \A d \in Starters \ {c} : Began(d)' => Began(d)
        BY <2>4, CallsAssumption DEF Began, Executing
    <3>2. reserved \subseteq reserved' /\ (KeyOf[c] # NoKey => Scoped("execute", c) \in reserved')
        BY <2>4 DEF Reserve
    <3>3. KeyOf[c] # NoKey => \A d \in Starters \ {c} : KeyOf[d] = KeyOf[c] => ~Began(d)
        BY <1>2, <2>4 DEF KeysReserved, Reserve, KeyTaken, Scoped
    <3>4. KeysReserved'
        BY <1>2, <3>1, <3>2 DEF KeysReserved, Scoped
    <3>5. KeyUsedOnce'
        BY <1>2, <3>1, <3>3 DEF KeyUsedOnce
    <3> QED
        BY <2>1, <3>4, <3>5
  <2> QED
      BY <1>2, <2>2, <2>3, <2>4, KeysStep
<1>3. Inv => KeyUsedOnce
    OBVIOUS
<1> QED
    BY <1>1, <1>2, <1>3, DagTypeInit, DagTypeStep, PTL DEF Spec

-----------------------------------------------------------------------------
LEMMA KeysFreeStep == DistinctKeys /\ TypeInv /\ Sides /\ KeysFree /\ [Next]_vars => KeysFree'
<1> SUFFICES ASSUME DistinctKeys, TypeInv, Sides, KeysFree, [Next]_vars PROVE KeysFree'
    OBVIOUS
<1>1. CASE /\ reserved' = reserved
           /\ \A d \in Starters : pc'[d] \in {"idle", "created", "leased"}
                                    => pc[d] \in {"idle", "created", "leased"}
    BY <1>1 DEF KeysFree, Scoped
<1>2. ASSUME NEW c \in Calls,
             \/ Reserve("resume", c) /\ c \notin Starters
             \/ Reserve("execute", c) /\ pc'[c] = "executing" /\ c \in Starters,
             \A d \in Calls \ {c} : pc'[d] = pc[d]
      PROVE  KeysFree'
  <2> SUFFICES ASSUME NEW d \in Starters, pc'[d] \in {"idle", "created", "leased"}, KeyOf[d] # NoKey
               PROVE  Scoped("execute", d) \notin reserved'
      BY DEF KeysFree, Scoped
  <2>1. d # c /\ pc[d] = pc'[d]
      BY <1>2, CallsAssumption
  <2>2. Scoped("execute", d) \notin reserved
      BY <2>1 DEF KeysFree
  <2>3. Scoped("execute", d) # Scoped("resume", c)
      BY DEF Scoped
  <2>4. c \in Starters /\ KeyOf[c] # NoKey => Scoped("execute", d) # Scoped("execute", c)
      BY <2>1 DEF Scoped, DistinctKeys
  <2> QED
      BY <1>2, <2>2, <2>3, <2>4 DEF Reserve
<1> QED
    BY <1>1, <1>2, KeysStep

\* Nobody gets a live lease but by a grant to his own worker.
LEMMA NotGranted ==
    ASSUME LeaseTypeOK, NEW r \in Runs, NEW w \in Workers, NEW s \in Runs, NEW v \in Workers,
           NEW ttl \in Nat, Grant(s, v, ttl), s # r \/ v # w, ~Live(r, w)
    PROVE  ~Live(r, w)'
<1>1. CASE s # r
  <2>1. lease'[r] = lease[r]
      BY <1>1 DEF Grant, LeaseTypeOK
  <2> QED
      BY <2>1 DEF Live, HeldBy, Held, Expired
<1>2. CASE s = r
  <2>1. lease'[r].owner = v /\ v # w
      BY <1>2 DEF Grant, LeaseTypeOK
  <2> QED
      BY <2>1 DEF Live, HeldBy
<1> QED
    BY <1>1, <1>2

LEMMA NotReleased ==
    ASSUME LeaseTypeOK, NEW r \in Runs, NEW w \in Workers, NEW s \in Runs, NEW v \in Workers,
           ReleaseLease(s, v), ~Live(r, w)
    PROVE  ~Live(r, w)'
<1>1. CASE s # r
  <2>1. lease'[r] = lease[r]
      BY <1>1 DEF ReleaseLease, LeaseTypeOK
  <2> QED
      BY <2>1 DEF Live, HeldBy, Held, Expired
<1>2. CASE s = r
  <2>1. lease[r] \in Lease
      BY <1>2 DEF ReleaseLease, HeldBy, Held, LeaseTypeOK
  <2>2. lease'[r].released
      BY <1>2, <2>1 DEF ReleaseLease, LeaseTypeOK, Lease
  <2> QED
      BY <2>2 DEF Live, HeldBy, Held
<1> QED
    BY <1>1, <1>2

LEMMA NotByTick ==
    ASSUME LeaseTypeOK, NEW r \in Runs, NEW w \in Workers, LeaseTick, ~Live(r, w)
    PROVE  ~Live(r, w)'
<1>1. CASE ~Held(r)
  <2>1. lease'[r] = lease[r]
      BY <1>1 DEF LeaseTick
  <2> QED
      BY <1>1, <2>1 DEF Live, HeldBy, Held
<1>2. CASE Held(r)
  <2>1. lease[r] \in Lease /\ lease'[r] = [lease[r] EXCEPT !.expiresIn = CountDown(@)]
      BY <1>2 DEF LeaseTick, Held, LeaseTypeOK
  <2>2. lease'[r].owner = lease[r].owner /\ lease'[r].expiresIn = CountDown(lease[r].expiresIn)
      BY <2>1 DEF Lease
  <2> QED
      BY <1>2, <2>1, <2>2 DEF Live, HeldBy, Expired, CountDown
<1> QED
    BY <1>1, <1>2

\* The call c moves, and the lease of no other call's worker becomes live.
LEMMA StillNothing ==
    ASSUME LeavesNothing, NEW c \in Calls, \A d \in Calls \ {c} : pc'[d] = pc[d],
           \A d \in Calls \ {c} : ~Live(RunOf[d], WorkerOf[d]) => ~Live(RunOf[d], WorkerOf[d])',
           Outside(c)' => ~Live(RunOf[c], WorkerOf[c])'
    PROVE  LeavesNothing'
BY DEF LeavesNothing, Outside

LEMMA TakenOrDenied ==
    ASSUME DistinctWorkers, TypeInv, LeavesNothing, NEW c \in Calls,
           NEW phase \in {"leased", "executing"}, TakeLease(c, phase)
    PROVE  LeavesNothing'
<1> USE CallsAssumption
<1>0. LeaseTypeOK /\ pc \in [Calls -> Phases]
    BY DEF TypeInv, TypeOK
<1>1. CASE AcquireLease(RunOf[c], WorkerOf[c]) /\ Goto(c, phase)
  <2>1. PICK ttl \in Nat : Grant(RunOf[c], WorkerOf[c], ttl)
      BY <1>1, TtlAssumption DEF AcquireLease, AcquireFresh, AcquireSteal, AcquireRefresh
  <2>2. \A d \in Calls \ {c} : ~Live(RunOf[d], WorkerOf[d]) => ~Live(RunOf[d], WorkerOf[d])'
      BY <1>0, <2>1, NotGranted DEF DistinctWorkers
  <2>3. ~Outside(c)' /\ \A d \in Calls \ {c} : pc'[d] = pc[d]
      BY <1>0, <1>1 DEF Goto, Outside
  <2> QED
      BY <2>2, <2>3, StillNothing
<1>2. CASE /\ AcquireDenied(RunOf[c], WorkerOf[c])
           /\ Raise(c, "lease_denied") /\ UNCHANGED leaseVars
  <2>1. ~Live(RunOf[c], WorkerOf[c])
      BY <1>2 DEF AcquireDenied, Live, HeldBy
  <2>2. \A d \in Calls : ~Live(RunOf[d], WorkerOf[d]) => ~Live(RunOf[d], WorkerOf[d])'
      BY <1>2 DEF leaseVars, Live, HeldBy, Held, Expired
  <2>3. \A d \in Calls \ {c} : pc'[d] = pc[d]
      BY <1>0, <1>2 DEF Raise, Goto
  <2> QED
      BY <2>1, <2>2, <2>3, StillNothing
<1> QED
    BY <1>1, <1>2 DEF TakeLease

\* A step that leaves the lease table alone.
LEMMA LeaseUntouched ==
    ASSUME LeavesNothing, UNCHANGED leaseVars, \A d \in Calls : Outside(d)' => Outside(d)
    PROVE  LeavesNothing'
BY DEF LeavesNothing, leaseVars, Live, HeldBy, Held, Expired

LEMMA LeavesStep ==
    ASSUME DistinctWorkers, TypeInv, Sides, KeysFree, LeavesNothing, [Next]_vars
    PROVE  LeavesNothing'
<1> USE CallsAssumption
<1>0. LeaseTypeOK /\ pc \in [Calls -> Phases]
    BY DEF TypeInv, TypeOK
<1>1. ASSUME NEW c \in Calls, AcquireForExecute(c) \/ AcquireForResume(c) PROVE LeavesNothing'
    BY <1>1, TakenOrDenied DEF AcquireForExecute, AcquireForResume
<1>2. ASSUME NEW c \in Calls, EnforceForExecute(c) PROVE LeavesNothing'
  <2>1. ~KeyTaken("execute", c)
      BY <1>2 DEF EnforceForExecute, KeyTaken, KeysFree, Sides
  <2>2. Goto(c, "executing") /\ UNCHANGED leaseVars
      BY <1>2, <2>1 DEF EnforceForExecute
  <2> QED
      BY <1>0, <2>2, LeaseUntouched DEF Goto, Outside
<1>3. ASSUME NEW c \in Calls, Renew(c) PROVE LeavesNothing'
  <2>1. CASE RenewLease(RunOf[c], WorkerOf[c])
    <3>1. Grant(RunOf[c], WorkerOf[c], RenewTtl) /\ RenewTtl \in Nat
        BY <2>1, TtlAssumption DEF RenewLease
    <3>2. \A d \in Calls \ {c} : ~Live(RunOf[d], WorkerOf[d]) => ~Live(RunOf[d], WorkerOf[d])'
        BY <1>0, <3>1, NotGranted DEF DistinctWorkers
    <3>3. ~Outside(c)' /\ pc' = pc
        BY <1>3 DEF Renew, Executing, Outside
    <3> QED
        BY <3>2, <3>3, StillNothing
  <2>2. CASE UNCHANGED leaseVars
      BY <1>3, <2>2, LeaseUntouched DEF Renew, Outside
  <2> QED
      BY <1>3, <2>1, <2>2 DEF Renew
<1>4. ASSUME NEW c \in Calls, CloseCall(c) PROVE LeavesNothing'
  <2>1. \A d \in Calls \ {c} : pc'[d] = pc[d]
      BY <1>0, <1>4 DEF CloseCall, Goto
  <2>2. CASE ReleaseLease(RunOf[c], WorkerOf[c])
    <3>1. \A d \in Calls : ~Live(RunOf[d], WorkerOf[d]) => ~Live(RunOf[d], WorkerOf[d])'
        BY <1>0, <2>2, NotReleased
    <3>2. ~Live(RunOf[c], WorkerOf[c])'
      <4>1. lease[RunOf[c]] \in Lease
          BY <1>0, <2>2 DEF ReleaseLease, HeldBy, Held, LeaseTypeOK
      <4>2. lease'[RunOf[c]].released
          BY <1>0, <2>2, <4>1 DEF ReleaseLease, LeaseTypeOK, Lease
      <4> QED
          BY <4>2 DEF Live, HeldBy, Held
    <3> QED
        BY <2>1, <3>1, <3>2, StillNothing
  <2>3. CASE ~HeldBy(RunOf[c], WorkerOf[c]) /\ UNCHANGED leaseVars
      BY <2>1, <2>3, StillNothing DEF Live, HeldBy, Held, Expired, leaseVars
  <2> QED
      BY <1>4, <2>2, <2>3 DEF CloseCall
<1>5. CASE Tick
  <2>1. LeaseTick /\ pc' = pc
      BY <1>5 DEF Tick, callVars
  <2> QED
      BY <1>0, <2>1, NotByTick DEF LeavesNothing, Outside
<1>6. ASSUME NEW c \in Calls, \/ CreateRun(c) \/ LoadRun(c) \/ BuildPlan(c)
                              \/ EnforceForResume(c) \/ RetryResume(c)
      PROVE  LeavesNothing'
    BY <1>0, <1>6, LeaseUntouched DEF CreateRun, LoadRun, BuildPlan, EnforceForResume,
       RetryResume, Raise, Goto, Outside
<1>7. ASSUME NEW c \in Calls, \/ SkipBelow(c) \/ ConditionFalse(c) \/ ConditionError(c)
                              \/ DeadlineExceeded(c) \/ ReuseNode(c) \/ FailBlockedNode(c)
      PROVE  LeavesNothing'
    BY <1>7, LeaseUntouched DEF SkipBelow, ConditionFalse, OmitNode, ConditionError,
       DeadlineExceeded, StopExecution, ReuseNode, FailBlockedNode, FollowPlan, Outside
<1>8. ASSUME NEW c \in Calls, NEW outcome \in NodeOutcomes,
             RunNode(c, outcome) \/ RerunNode(c, outcome)
      PROVE  LeavesNothing'
    BY <1>0, <1>8, LeaseUntouched DEF RunNode, RerunNode, FollowPlan, Goto, Outside
<1>9. ASSUME NEW c \in Calls, \/ PersistNode(c) \/ SnapshotNode(c) \/ FinishRun(c)
                              \/ CompletionSnapshot(c) \/ CancelCall(c) \/ Crash(c)
      PROVE  LeavesNothing'
    BY <1>0, <1>9, LeaseUntouched DEF PersistNode, SnapshotNode, FinishRun, CompletionSnapshot,
       CancelCall, Crash, Goto, Outside
<1>10. CASE UNCHANGED vars
    BY <1>10, LeaseUntouched DEF vars, callVars, Outside
<1> QED
    BY <1>1, <1>2, <1>3, <1>4, <1>5, <1>6, <1>7, <1>8, <1>9, <1>10
       DEF Next, Step, ExecuteStep, ResumeStep

(* A call that returned or raised holds no lease, if workers are distinct  *)
(* and no key is given twice: a rejected duplicate does keep its lease     *)
(* (dag.py:714-733, 797-811).                                              *)
THEOREM CallsLeaveNoLease ==
    DistinctWorkers /\ DistinctKeys => (Spec => []NoLeaseAfterCall)
<1> SUFFICES ASSUME DistinctWorkers, DistinctKeys PROVE Spec => []NoLeaseAfterCall
    OBVIOUS
<1>1. Init => Sides /\ KeysFree /\ LeavesNothing
    BY CallsAssumption DEF Init, LeaseInit, Sides, KeysFree, LeavesNothing, Live, HeldBy, Held
<1>2. TypeInv /\ Sides /\ KeysFree /\ LeavesNothing /\ [Next]_vars
        => Sides' /\ KeysFree' /\ LeavesNothing'
    BY SidesStep, KeysFreeStep, LeavesStep
<1>3. LeavesNothing => NoLeaseAfterCall
    BY DEF LeavesNothing, NoLeaseAfterCall, Outside
<1> QED
    BY <1>1, <1>2, <1>3, DagTypeInit, DagTypeStep, PTL DEF Spec
-----------------------------------------------------------------------------
(* An execution by itself: what it knows of the nodes behind it, whatever  *)
(* becomes of its lease and whoever else works on the run.                 *)
Ahead(c) ==
    /\ pc[c] \in {"idle", "created", "leased"} => overall[c] = "completed" /\ pos[c] = 1
    /\ pc[c] \in {"executing", "ran"} /\ pos[c] <= NodeCount => overall[c] = "completed"
    /\ overall[c] = "completed" =>
          \A n \in Nodes : n < pos[c] => n \in done[RunOf[c]] \cup omitted[c]
    /\ pc[c] = "ran" /\ Finished(last[c]) => pos[c] \in done[RunOf[c]]
    /\ pc[c] = "persisted" /\ overall[c] = "completed" => pos[c] \in done[RunOf[c]]
    /\ pc[c] \in {"finished", "closing"} /\ overall[c] = "completed" => pos[c] > NodeCount
    /\ omitted[c] \subseteq excluded[RunOf[c]]
    /\ reported[c] = "completed" =>
          pc[c] = "done" /\ pos[c] > NodeCount /\ overall[c] = "completed"
AheadInv == \A c \in Starters : Ahead(c)

\* A step of c leaves the other executions alone.
Apart(c) ==
    /\ Grown
    /\ \A d \in Calls \ {c} :
          /\ pc'[d] = pc[d] /\ pos'[d] = pos[d] /\ last'[d] = last[d]
          /\ overall'[d] = overall[d] /\ omitted'[d] = omitted[d] /\ reported'[d] = reported[d]

LEMMA OthersAhead ==
    ASSUME AheadInv, NEW c \in Calls, Apart(c), c \in Starters => Ahead(c)'
    PROVE  AheadInv'
<1> SUFFICES ASSUME NEW d \in Starters, d # c PROVE Ahead(d)'
    BY DEF AheadInv
<1>1. /\ d \in Calls \ {c} /\ RunOf[d] \in Runs /\ Ahead(d)
    BY CallsAssumption DEF AheadInv
<1> QED
    BY <1>1 DEF Apart, Grown, Ahead, Nodes

\* Before the first node and after the last one.
LEMMA OutsideAhead ==
    ASSUME TypeInv, Sides, AheadInv, NEW c \in Calls,
           \/ CreateRun(c) \/ AcquireForExecute(c) \/ EnforceForExecute(c)
           \/ FinishRun(c) \/ CompletionSnapshot(c) \/ CloseCall(c)
           \/ CancelCall(c) \/ Crash(c)
    PROVE  AheadInv'
<1>0. /\ pc \in [Calls -> Phases] /\ RunOf[c] \in Runs /\ NodeCount \in Nat
      /\ DOMAIN overall = Calls /\ DOMAIN reported = Calls /\ pos[c] \in 1 .. NodeCount + 1
    BY CallsAssumption, NodesAssumption DEF TypeInv, TypeOK
<1>1. c \in Starters => Ahead(c)
    BY DEF AheadInv
<1>2. CASE CreateRun(c) \/ AcquireForExecute(c)
  <2>1. /\ Apart(c) /\ pc[c] \in {"idle", "created"} /\ UNCHANGED <<loopVars, done, excluded>>
        /\ \/ pc'[c] \in {"created", "leased"} /\ UNCHANGED reported
           \/ pc'[c] = "raised" /\ reported'[c] = "lease_denied"
      BY <1>0, <1>2 DEF CreateRun, AcquireForExecute, TakeLease, Raise, Goto, Apart, Grown,
         loopVars, historyVars
  <2> QED
      BY <1>1, <2>1, OthersAhead DEF Ahead, loopVars
<1>3. CASE EnforceForExecute(c)
  <2>1. /\ Apart(c) /\ pc[c] = "leased" /\ UNCHANGED <<loopVars, done, excluded>>
        /\ \/ pc'[c] = "executing" /\ UNCHANGED reported
           \/ pc'[c] = "raised" /\ reported'[c] = "duplicate"
      BY <1>0, <1>3 DEF EnforceForExecute, Raise, Goto, Apart, Grown, loopVars, historyVars
  <2> QED
      BY <1>1, <2>1, OthersAhead DEF Ahead, loopVars
<1>4. CASE FinishRun(c) \/ CompletionSnapshot(c)
  <2>1. /\ Apart(c) /\ UNCHANGED <<loopVars, reported, done, excluded>>
        /\ \/ pc[c] = "executing" /\ pos[c] > NodeCount /\ pc'[c] = "finished"
           \/ pc[c] = "finished" /\ pc'[c] = "closing"
      BY <1>0, <1>4 DEF FinishRun, CompletionSnapshot, Goto, Apart, Grown, loopVars, historyVars
  <2> QED
      BY <1>1, <2>1, OthersAhead DEF Ahead, loopVars
<1>5. CASE CloseCall(c)
  <2>1. /\ Apart(c) /\ pc[c] = "closing" /\ pc'[c] = "done"
        /\ UNCHANGED <<loopVars, done, excluded>>
        /\ reported'[c] = "completed" => overall[c] = "completed"
      BY <1>0, <1>5 DEF CloseCall, Goto, Apart, Grown, loopVars, historyVars
  <2> QED
      BY <1>1, <2>1, OthersAhead DEF Ahead, loopVars
<1>6. CASE CancelCall(c)
  <2>1. /\ Apart(c) /\ pc'[c] = "closing" /\ overall'[c] = "cancelled" /\ Executing(c)
        /\ UNCHANGED <<pos, last, omitted, reported, done, excluded>>
      BY <1>0, <1>6 DEF CancelCall, SetOverall, Goto, Apart, Grown
  <2>2. c \in Starters => reported[c] # "completed"
      BY <1>1, <2>1 DEF Ahead, Executing
  <2> QED
      BY <1>1, <2>1, <2>2, OthersAhead DEF Ahead
<1>7. CASE Crash(c)
  <2>1. /\ Apart(c) /\ pc[c] # "done" /\ pc'[c] = "dead"
        /\ UNCHANGED <<loopVars, reported, done, excluded>>
      BY <1>0, <1>7 DEF Crash, Goto, Apart, Grown, loopVars
  <2> QED
      BY <1>1, <2>1, OthersAhead DEF Ahead, loopVars
<1> QED
    BY <1>2, <1>3, <1>4, <1>5, <1>6, <1>7

\* One node further.
LEMMA NodeAhead ==
    ASSUME TypeInv, AheadInv, NEW c \in Calls,
           \/ SkipBelow(c) \/ ConditionFalse(c) \/ ConditionError(c) \/ DeadlineExceeded(c)
           \/ (\E outcome \in NodeOutcomes : RunNode(c, outcome))
           \/ PersistNode(c) \/ SnapshotNode(c)
    PROVE  AheadInv'
<1>0. /\ pc \in [Calls -> Phases] /\ RunOf[c] \in Runs /\ NodeCount \in Nat
      /\ DOMAIN overall = Calls /\ DOMAIN pos = Calls /\ pos[c] \in 1 .. NodeCount + 1
      /\ DOMAIN last = Calls /\ omitted \in [Calls -> SUBSET Nodes]
      /\ done \in [Runs -> SUBSET Nodes] /\ excluded \in [Runs -> SUBSET Nodes]
    BY CallsAssumption, NodesAssumption DEF TypeInv, TypeOK
<1>1. c \in Starters => Ahead(c)
    BY DEF AheadInv
<1>2. CASE SkipBelow(c) \/ ConditionFalse(c)
  <2>1. /\ OmitNode(c) /\ pc[c] = "executing" /\ pos[c] \in Nodes
      BY <1>0, <1>2 DEF SkipBelow, ConditionFalse, AtFreeNode, AtNode, Nodes
  <2>2. /\ Apart(c) /\ pos'[c] = pos[c] + 1 /\ UNCHANGED <<pc, last, overall, reported, done>>
        /\ omitted'[c] = omitted[c] \cup {pos[c]}
        /\ excluded'[RunOf[c]] = excluded[RunOf[c]] \cup {pos[c]}
      BY <1>0, <2>1 DEF OmitNode, Advance, Apart, Grown
  <2>3. c \in Starters => Ahead(c)'
      BY <1>0, <1>1, <2>1, <2>2 DEF Ahead, Nodes
  <2> QED
      BY <2>2, <2>3, OthersAhead
<1>3. CASE ConditionError(c) \/ DeadlineExceeded(c)
  <2>1. StopExecution(c)
      BY <1>3 DEF ConditionError, DeadlineExceeded
  <2>2. /\ Apart(c) /\ pos'[c] = NodeCount + 1 /\ overall'[c] = "failed" /\ pc[c] = "executing"
        /\ UNCHANGED <<pc, last, omitted, reported, done, excluded>>
      BY <1>0, <2>1 DEF StopExecution, AtFreeNode, AtNode, Break, SetOverall, Apart, Grown,
         historyVars
  <2>3. c \in Starters => Ahead(c)'
      BY <1>0, <1>1, <2>2 DEF Ahead
  <2> QED
      BY <2>2, <2>3, OthersAhead
<1>4. CASE \E outcome \in NodeOutcomes : RunNode(c, outcome)
  <2>1. PICK outcome \in NodeOutcomes : RunNode(c, outcome)
      BY <1>4
  <2>2. /\ Apart(c) /\ pc[c] = "executing" /\ pc'[c] = "ran" /\ last'[c] = outcome
        /\ UNCHANGED <<pos, overall, omitted, reported, excluded>>
        /\ done[RunOf[c]] \subseteq done'[RunOf[c]]
        /\ Finished(outcome) => pos[c] \in done'[RunOf[c]]
      BY <1>0, <2>1 DEF RunNode, AtFreeNode, AtNode, HandleNode, Goto, Apart, Grown
  <2>3. c \in Starters => Ahead(c)'
      BY <1>0, <1>1, <2>2 DEF Ahead, Finished
  <2> QED
      BY <2>2, <2>3, OthersAhead
<1>5. CASE PersistNode(c)
  <2>1. /\ Apart(c) /\ pc[c] = "ran" /\ pc'[c] = "persisted"
        /\ overall'[c] = IF Finished(last[c]) THEN overall[c] ELSE last[c]
        /\ UNCHANGED <<pos, last, omitted, reported, done, excluded>>
      BY <1>0, <1>5 DEF PersistNode, SetOverall, Goto, Apart, Grown, historyVars
  <2>2. c \in Starters => Ahead(c)'
      BY <1>0, <1>1, <2>1 DEF Ahead, Finished
  <2> QED
      BY <2>1, <2>2, OthersAhead
<1>6. CASE SnapshotNode(c)
  <2>1. /\ Apart(c) /\ pc[c] = "persisted" /\ pc'[c] = "executing"
        /\ pos'[c] = IF overall[c] = "completed" THEN pos[c] + 1 ELSE NodeCount + 1
        /\ UNCHANGED <<last, overall, omitted, reported, done, excluded>>
      BY <1>0, <1>6 DEF SnapshotNode, Advance, Break, Goto, Apart, Grown, historyVars
  <2>2. c \in Starters => Ahead(c)'
      BY <1>0, <1>1, <2>1 DEF Ahead, Nodes
  <2> QED
      BY <2>1, <2>2, OthersAhead
<1> QED
    BY <1>2, <1>3, <1>4, <1>5, <1>6

\* A resume moves no execution.
LEMMA ResumeApart ==
    ASSUME TypeInv, Sides, AheadInv, NEW c \in Calls, ResumeStep(c)
    PROVE  AheadInv'
<1>0. /\ pc \in [Calls -> Phases] /\ RunOf[c] \in Runs /\ done \in [Runs -> SUBSET Nodes]
      /\ DOMAIN reported = Calls /\ DOMAIN pos = Calls /\ DOMAIN last = Calls
      /\ DOMAIN overall = Calls
    BY CallsAssumption DEF TypeInv, TypeOK
<1>1. c \notin Starters
    BY DEF ResumeStep, LoadRun, BuildPlan, EnforceForResume, AcquireForResume, ReuseNode,
       FailBlockedNode, RerunNode, RetryResume, FollowPlan, Sides, Resumers
<1>2. CASE \/ LoadRun(c) \/ BuildPlan(c) \/ EnforceForResume(c) \/ AcquireForResume(c)
           \/ RetryResume(c)
  <2>1. Apart(c)
      BY <1>0, <1>2 DEF LoadRun, BuildPlan, EnforceForResume, AcquireForResume, TakeLease,
         RetryResume, Raise, Goto, Apart, Grown, loopVars, historyVars
  <2> QED
      BY <1>1, <2>1, OthersAhead
<1>3. CASE ReuseNode(c) \/ FailBlockedNode(c)
  <2>1. Apart(c)
      BY <1>0, <1>3 DEF ReuseNode, FailBlockedNode, FollowPlan, Advance, SetOverall, Apart, Grown
  <2> QED
      BY <1>1, <2>1, OthersAhead
<1>4. CASE \E outcome \in NodeOutcomes : RerunNode(c, outcome)
  <2>1. Apart(c)
      BY <1>0, <1>4 DEF RerunNode, FollowPlan, HandleNode, Advance, SetOverall, Apart, Grown
  <2> QED
      BY <1>1, <2>1, OthersAhead
<1> QED
    BY <1>2, <1>3, <1>4 DEF ResumeStep

LEMMA AheadStep == TypeInv /\ Sides /\ AheadInv /\ [Next]_vars => AheadInv'
<1> SUFFICES ASSUME TypeInv, Sides, AheadInv, [Next]_vars PROVE AheadInv'
    OBVIOUS
<1>1. ASSUME \/ Tick \/ UNCHANGED vars \/ \E c \in Calls : Renew(c)
      PROVE  AheadInv'
  <2>1. UNCHANGED <<pc, loopVars, reported, done, excluded>>
      BY <1>1 DEF Tick, vars, Renew, callVars, historyVars
  <2> QED
      BY <2>1 DEF loopVars, AheadInv, Ahead
<1> QED
    BY <1>1, OutsideAhead, NodeAhead, ResumeApart DEF Next, Step, ExecuteStep

LEMMA AheadInvHolds == Spec => [](TypeInv /\ Sides /\ AheadInv)
<1>1. Init => Sides /\ AheadInv
    BY CallsAssumption, NodesAssumption
       DEF Init, Sides, AheadInv, Ahead, Nodes
<1> QED
    BY <1>1, DagTypeInit, DagTypeStep, SidesStep, AheadStep, PTL DEF Spec

\* Only RunNode brings a call to "ran".
LEMMA RanByRunNode ==
    ASSUME TypeInv, [Next]_vars, NEW c \in Calls, pc[c] = "executing", pc'[c] = "ran"
    PROVE  \E outcome \in NodeOutcomes : RunNode(c, outcome)
<1>0. pc \in [Calls -> Phases]
    BY DEF TypeInv, TypeOK
<1>1. ~UNCHANGED pc
    OBVIOUS
<1>2. PICK d \in Calls : Step(d) \/ Renew(d) \/ CancelCall(d) \/ Crash(d)
    BY <1>1 DEF Next, Tick, vars, callVars
<1>3. CASE \/ SkipBelow(d) \/ ConditionFalse(d) \/ ConditionError(d) \/ DeadlineExceeded(d)
           \/ ReuseNode(d) \/ FailBlockedNode(d) \/ Renew(d)
           \/ \E outcome \in NodeOutcomes : RerunNode(d, outcome)
    BY <1>1, <1>3 DEF SkipBelow, ConditionFalse, OmitNode, ConditionError, DeadlineExceeded,
       StopExecution, ReuseNode, FailBlockedNode, RerunNode, FollowPlan, Renew
<1>4. CASE \E outcome \in NodeOutcomes : RunNode(d, outcome)
    BY <1>0, <1>4 DEF RunNode, Goto
<1>5. CASE \/ CreateRun(d) \/ AcquireForExecute(d) \/ EnforceForExecute(d)
           \/ PersistNode(d) \/ SnapshotNode(d) \/ FinishRun(d) \/ CompletionSnapshot(d)
           \/ CloseCall(d) \/ CancelCall(d) \/ Crash(d)
    BY <1>0, <1>5 DEF CreateRun, AcquireForExecute, TakeLease, EnforceForExecute, PersistNode,
       SnapshotNode, FinishRun, CompletionSnapshot, CloseCall, CancelCall, Crash, Raise, Goto
<1>6. CASE \/ LoadRun(d) \/ BuildPlan(d) \/ EnforceForResume(d) \/ AcquireForResume(d)
           \/ RetryResume(d)
    BY <1>0, <1>6 DEF LoadRun, BuildPlan, EnforceForResume, AcquireForResume, TakeLease,
       RetryResume, Raise, Goto
<1> QED
    BY <1>2, <1>3, <1>4, <1>5, <1>6 DEF Step, ExecuteStep, ResumeStep

(* An execution follows depends_on (dag.py:1883-2030, 2738-2774): behind   *)
(* the node at hand everything is done or ruled out, and a node below one  *)
(* that was ruled out is not run.                                          *)
THEOREM DependenciesRunFirst == Spec => DependenciesFirst
<1>1. ASSUME TypeInv, AheadInv, [Next]_vars, NEW c \in Starters,
             pc[c] = "executing", pc'[c] = "ran"
      PROVE  Deps[pos[c]] \subseteq done[RunOf[c]]
  <2>0. /\ c \in Calls /\ pc \in [Calls -> Phases] /\ NodeCount \in Nat
        /\ pos[c] \in 1 .. NodeCount + 1
      BY <1>1, CallsAssumption, NodesAssumption DEF TypeInv, TypeOK
  <2>1. PICK outcome \in NodeOutcomes : RunNode(c, outcome)
      BY <1>1, <2>0, RanByRunNode
  <2>2. pos[c] \in Nodes /\ overall[c] = "completed" /\ Deps[pos[c]] \cap omitted[c] = {}
      BY <1>1, <2>0, <2>1 DEF RunNode, AtFreeNode, AtNode, Upstream, Nodes, AheadInv, Ahead
  <2>3. ASSUME NEW n \in Deps[pos[c]] PROVE n \in done[RunOf[c]]
    <3>1. n \in Nodes /\ n < pos[c]
        BY <2>2, NodesAssumption
    <3> QED
        BY <1>1, <2>2, <3>1 DEF AheadInv, Ahead
  <2> QED
      BY <2>3
<1>2. TypeInv /\ AheadInv /\ [Next]_vars
        => [\A c \in Starters :
               pc[c] = "executing" /\ pc'[c] = "ran" => Deps[pos[c]] \subseteq done[RunOf[c]]]_vars
    BY <1>1
<1> QED
    BY <1>2, AheadInvHolds, PTL DEF Spec, DependenciesFirst

(* What execute returns as completed is done, with no hypothesis: neither  *)
(* an interruption nor a lost lease nor a concurrent resume misleads it    *)
(* (dag.py:1883-2060, 776-811).                                            *)
THEOREM ExecutionsReportTruly ==
    Spec => [](\A c \in Starters : reported[c] = "completed" => AllDone(RunOf[c]))
<1>1. TypeInv /\ AheadInv
        => \A c \in Starters : reported[c] = "completed" => AllDone(RunOf[c])
    BY CallsAssumption, NodesAssumption DEF AheadInv, Ahead, AllDone, Nodes, TypeInv, TypeOK
<1> QED
    BY <1>1, AheadInvHolds, PTL

-----------------------------------------------------------------------------
(* The records of nodes: who writes them, and what a plan may rely on.     *)
Unwritten(c, n) == nodeState[RunOf[c]][n] = "absent"
Recorded(c) ==
    /\ pc[c] \in {"ran", "persisted"} => c \in Starters
    /\ pc[c] = "ran" /\ Finished(last[c]) => pos[c] \in done[RunOf[c]]
    /\ \A n \in Nodes : plan[c][n] = "skip" => n \in done[RunOf[c]]
    /\ pc[c] # "idle" => runStatus[RunOf[c]] # "absent"
    /\ c \in Starters /\ pc[c] \in {"created", "leased", "executing", "ran"} =>
          \A n \in Nodes : pos[c] <= n => Unwritten(c, n)
    /\ c \in Starters /\ pc[c] = "persisted" => \A n \in Nodes : pos[c] < n => Unwritten(c, n)
OneStarter ==
    \A c, d \in Starters :
        RunOf[c] = RunOf[d] /\ pc[c] # "idle" /\ pc[d] # "idle" => c = d
NothingBefore ==
    \A r \in Runs, n \in Nodes : runStatus[r] = "absent" => nodeState[r][n] = "absent"

RecordInv == (\A c \in Calls : Recorded(c)) /\ OneStarter /\ NothingBefore /\ RecordsTrue

\* A step of c that writes no node record.
LEMMA WithoutRecord ==
    ASSUME TypeInv, RecordInv, NEW c \in Calls, Grown, Alone(c), Recorded(c)',
           nodeState' = nodeState, c \in Starters /\ pc[c] = "idle" => pc'[c] = "idle",
           \A r \in Runs : runStatus'[r] = "absent" <=> runStatus[r] = "absent"
    PROVE  RecordInv'
<1>1. ASSUME NEW d \in Calls, d # c PROVE Recorded(d)'
  <2>1. Recorded(d) /\ RunOf[d] \in Runs
      BY CallsAssumption DEF RecordInv
  <2> QED
      BY <1>1, <2>1 DEF Recorded, Unwritten, Grown, Alone
<1>2. OneStarter'
    BY CallsAssumption DEF RecordInv, OneStarter, Alone
<1>3. NothingBefore' /\ RecordsTrue'
    BY DEF RecordInv, NothingBefore, RecordsTrue, Grown
<1> QED
    BY <1>1, <1>2, <1>3 DEF RecordInv

LEMMA RecordStepOutside ==
    ASSUME TypeInv, Sides, RecordInv, NEW c \in Calls,
           \/ AcquireForExecute(c) \/ EnforceForExecute(c) \/ LoadRun(c) \/ EnforceForResume(c)
           \/ AcquireForResume(c) \/ RetryResume(c) \/ FinishRun(c) \/ CompletionSnapshot(c)
           \/ CloseCall(c) \/ CancelCall(c) \/ Crash(c)
    PROVE  RecordInv'
<1>0. /\ pc \in [Calls -> Phases] /\ RunOf[c] \in Runs /\ DOMAIN overall = Calls
      /\ runStatus \in [Runs -> {"absent", "running", "completed", "failed"}]
      /\ Recorded(c) /\ NodeCount \in Nat /\ pos[c] \in 1 .. NodeCount + 1
    BY CallsAssumption, NodesAssumption DEF TypeInv, TypeOK, RecordInv
<1> USE DEF Goto, Grown, Alone
<1>1. CASE AcquireForExecute(c) \/ EnforceForExecute(c)
  <2>1. /\ Grown /\ Alone(c) /\ pc[c] \in {"created", "leased"}
        /\ pc'[c] \in {"leased", "executing", "raised"} /\ c \in Starters
        /\ UNCHANGED <<loopVars, nodeState, runStatus, done, excluded>>
      BY <1>0, <1>1 DEF AcquireForExecute, TakeLease, EnforceForExecute, Raise, loopVars, storeVars,
         historyVars, Sides
  <2>2. Recorded(c)'
      BY <1>0, <2>1 DEF Recorded, Unwritten, loopVars
  <2> QED
      BY <2>1, <2>2, WithoutRecord
<1>2. CASE LoadRun(c) \/ EnforceForResume(c) \/ AcquireForResume(c) \/ RetryResume(c)
  <2>1. /\ Grown /\ Alone(c) /\ pc'[c] \notin {"ran", "persisted"} /\ c \notin Starters
        /\ pc'[c] # "idle" => pc[c] # "idle" \/ runStatus[RunOf[c]] # "absent"
        /\ UNCHANGED <<loopVars, nodeState, runStatus, done, excluded>>
      BY <1>0, <1>2 DEF LoadRun, EnforceForResume, AcquireForResume, TakeLease, RetryResume, Raise,
         loopVars, storeVars, historyVars, Sides, Resumers
  <2>2. Recorded(c)'
      BY <1>0, <2>1 DEF Recorded, loopVars
  <2> QED
      BY <2>1, <2>2, WithoutRecord
<1>3. CASE FinishRun(c)
  <2>1. /\ Grown /\ Alone(c) /\ pc[c] = "executing" /\ pc'[c] = "finished"
        /\ UNCHANGED <<loopVars, nodeState, done, excluded>>
        /\ \A r \in Runs : runStatus'[r] = IF r # RunOf[c] THEN runStatus[r]
              ELSE IF overall[c] = "completed" THEN "completed" ELSE "failed"
      BY <1>0, <1>3 DEF FinishRun, loopVars, historyVars
  <2>2. Recorded(c)'
      BY <1>0, <2>1 DEF Recorded, loopVars
  <2>3. runStatus[RunOf[c]] # "absent"
      BY <1>0, <2>1 DEF Recorded
  <2> QED
      BY <1>0, <2>1, <2>2, <2>3, WithoutRecord
<1>4. CASE CompletionSnapshot(c) \/ CloseCall(c) \/ CancelCall(c) \/ Crash(c)
  <2>1. /\ Grown /\ Alone(c) /\ pc[c] # "idle" /\ pc'[c] \in {"closing", "done", "dead"}
        /\ UNCHANGED <<plan, nodeState, runStatus, done, excluded>>
      BY <1>0, <1>4 DEF CompletionSnapshot, CloseCall, CancelCall, Crash, SetOverall, Executing,
         loopVars, storeVars, historyVars
  <2>2. Recorded(c)'
      BY <1>0, <2>1 DEF Recorded
  <2> QED
      BY <2>1, <2>2, WithoutRecord
<1> QED
    BY <1>1, <1>2, <1>3, <1>4

\* A run is created once, and nothing was recorded of it before.
LEMMA RecordStepCreate ==
    ASSUME TypeInv, RecordInv, NEW c \in Calls, CreateRun(c)
    PROVE  RecordInv'
<1>0. /\ pc \in [Calls -> Phases] /\ RunOf[c] \in Runs /\ Recorded(c) /\ c \in Starters
      /\ runStatus \in [Runs -> {"absent", "running", "completed", "failed"}]
      /\ pc[c] = "idle" /\ runStatus[RunOf[c]] = "absent"
    BY CallsAssumption DEF TypeInv, TypeOK, RecordInv, CreateRun
<1>1. /\ pc' = [pc EXCEPT ![c] = "created"]
      /\ runStatus' = [runStatus EXCEPT ![RunOf[c]] = "running"]
      /\ UNCHANGED <<loopVars, nodeState, done, excluded>>
    BY DEF CreateRun, Goto, historyVars
<1>2. \A n \in Nodes : nodeState[RunOf[c]][n] = "absent"
    BY <1>0 DEF RecordInv, NothingBefore
<1>3. Recorded(c)'
    BY <1>0, <1>1, <1>2 DEF Recorded, Unwritten, loopVars
<1>4. ASSUME NEW d \in Calls, d # c PROVE Recorded(d)'
  <2>1. Recorded(d) /\ RunOf[d] \in Runs
      BY CallsAssumption DEF RecordInv
  <2>2. /\ pc'[d] = pc[d]
        /\ runStatus[RunOf[d]] # "absent" => runStatus'[RunOf[d]] # "absent"
      BY <1>0, <1>1, <1>4, <2>1
  <2> QED
      BY <1>1, <2>1, <2>2 DEF Recorded, Unwritten, loopVars
<1>5. OneStarter'
  <2>1. ASSUME NEW d \in Starters, d # c, RunOf[d] = RunOf[c] PROVE pc[d] = "idle"
      BY <1>0, <2>1, CallsAssumption DEF RecordInv, Recorded
  <2> QED
      BY <1>0, <1>1, <2>1, CallsAssumption DEF RecordInv, OneStarter
<1>6. NothingBefore' /\ RecordsTrue'
    BY <1>0, <1>1 DEF RecordInv, NothingBefore, RecordsTrue
<1> QED
    BY <1>3, <1>4, <1>5, <1>6 DEF RecordInv

\* An execution goes one node further, but for the record.
LEMMA RecordStepNode ==
    ASSUME TypeInv, RecordInv, NEW c \in Calls,
           \/ SkipBelow(c) \/ ConditionFalse(c) \/ ConditionError(c) \/ DeadlineExceeded(c)
           \/ (\E outcome \in NodeOutcomes : RunNode(c, outcome)) \/ SnapshotNode(c)
    PROVE  RecordInv'
<1>0. /\ pc \in [Calls -> Phases] /\ RunOf[c] \in Runs /\ NodeCount \in Nat
      /\ DOMAIN overall = Calls /\ DOMAIN pos = Calls /\ pos[c] \in 1 .. NodeCount + 1
      /\ DOMAIN last = Calls /\ Recorded(c)
      /\ done \in [Runs -> SUBSET Nodes] /\ excluded \in [Runs -> SUBSET Nodes]
    BY CallsAssumption, NodesAssumption DEF TypeInv, TypeOK, RecordInv
<1>1. CASE SkipBelow(c) \/ ConditionFalse(c)
  <2>1. OmitNode(c) /\ pc[c] = "executing"
      BY <1>1 DEF SkipBelow, ConditionFalse, AtFreeNode, AtNode
  <2>2. /\ Grown /\ Alone(c) /\ pos'[c] = pos[c] + 1
        /\ UNCHANGED <<pc, plan, last, nodeState, runStatus, done>>
      BY <1>0, <2>1 DEF OmitNode, Advance, Alone, Grown, storeVars
  <2>3. Recorded(c)'
      BY <1>0, <2>1, <2>2 DEF Recorded, Unwritten, Nodes
  <2> QED
      BY <2>1, <2>2, <2>3, WithoutRecord
<1>2. CASE ConditionError(c) \/ DeadlineExceeded(c)
  <2>1. StopExecution(c) /\ pc[c] = "executing"
      BY <1>2 DEF ConditionError, DeadlineExceeded, StopExecution, AtFreeNode, AtNode
  <2>2. /\ Grown /\ Alone(c) /\ pos'[c] = NodeCount + 1
        /\ UNCHANGED <<pc, plan, last, nodeState, runStatus, done>>
      BY <1>0, <2>1 DEF StopExecution, Break, SetOverall, Alone, Grown, storeVars, historyVars
  <2>3. Recorded(c)'
      BY <1>0, <2>1, <2>2 DEF Recorded, Unwritten, Nodes
  <2> QED
      BY <2>1, <2>2, <2>3, WithoutRecord
<1>3. CASE \E outcome \in NodeOutcomes : RunNode(c, outcome)
  <2>1. PICK outcome \in NodeOutcomes : RunNode(c, outcome)
      BY <1>3
  <2>2. /\ Grown /\ Alone(c) /\ c \in Starters /\ pc[c] = "executing" /\ pc'[c] = "ran"
        /\ last'[c] = outcome
        /\ Finished(outcome) => pos[c] \in done'[RunOf[c]]
        /\ UNCHANGED <<pos, plan, nodeState, runStatus>>
      BY <1>0, <2>1 DEF RunNode, AtFreeNode, AtNode, HandleNode, Goto, Alone, Grown, storeVars
  <2>3. \A n \in Nodes : plan'[c][n] = "skip" => n \in done'[RunOf[c]]
      BY <1>0, <2>2 DEF Recorded, Grown
  <2>4. \A n \in Nodes : pos'[c] <= n => Unwritten(c, n)'
      BY <1>0, <2>2 DEF Recorded, Unwritten
  <2>5. pc'[c] = "ran" /\ Finished(last'[c]) => pos'[c] \in done'[RunOf[c]]
      BY <2>2
  <2>6. Recorded(c)'
      BY <1>0, <2>2, <2>3, <2>4, <2>5 DEF Recorded
  <2> QED
      BY <2>2, <2>6, WithoutRecord
<1>4. CASE SnapshotNode(c)
  <2>1. /\ Grown /\ Alone(c) /\ pc[c] = "persisted" /\ pc'[c] = "executing"
        /\ pos'[c] = IF overall[c] = "completed" THEN pos[c] + 1 ELSE NodeCount + 1
        /\ UNCHANGED <<plan, last, nodeState, runStatus, done>>
      BY <1>0, <1>4 DEF SnapshotNode, Advance, Break, Goto, Alone, Grown, historyVars
  <2>2. Recorded(c)'
      BY <1>0, <2>1 DEF Recorded, Unwritten, Nodes
  <2> QED
      BY <2>1, <2>2, WithoutRecord
<1> QED
    BY <1>1, <1>2, <1>3, <1>4

\* The one action that writes node records.
LEMMA RecordStepPersist ==
    ASSUME TypeInv, RecordInv, NEW c \in Calls, PersistNode(c)
    PROVE  /\ RecordInv'
           /\ c \in Starters /\ pos[c] \in Nodes /\ Unwritten(c, pos[c])
           /\ nodeState' = [nodeState EXCEPT ![RunOf[c]][pos[c]] = last[c]]
<1>0. /\ pc \in [Calls -> Phases] /\ RunOf[c] \in Runs /\ NodeCount \in Nat
      /\ DOMAIN overall = Calls /\ pos[c] \in Nodes /\ pc[c] = "ran"
      /\ nodeState \in [Runs -> [Nodes -> {"absent"} \cup AllOutcomes]]
      /\ Recorded(c) /\ c \in Starters
    BY CallsAssumption, NodesAssumption
       DEF TypeInv, TypeOK, RanIsAtNode, RecordInv, Recorded, PersistNode
<1>1. /\ nodeState' = [nodeState EXCEPT ![RunOf[c]][pos[c]] = last[c]]
      /\ pc' = [pc EXCEPT ![c] = "persisted"]
      /\ UNCHANGED <<pos, plan, last, runStatus, done, excluded>>
    BY DEF PersistNode, Goto, historyVars
<1>2. \A r \in Runs, n \in Nodes :
          nodeState'[r][n] = IF r = RunOf[c] /\ n = pos[c] THEN last[c] ELSE nodeState[r][n]
    BY <1>0, <1>1
<1>3. Unwritten(c, pos[c]) /\ runStatus[RunOf[c]] # "absent"
    BY <1>0 DEF Recorded, Nodes
<1>4. Recorded(c)'
    BY <1>0, <1>1, <1>2 DEF Recorded, Unwritten, Nodes
<1>5. ASSUME NEW d \in Calls, d # c PROVE Recorded(d)'
  <2>1. /\ Recorded(d) /\ RunOf[d] \in Runs /\ pc'[d] = pc[d]
        /\ d \in Starters /\ pc[d] # "idle" => RunOf[d] # RunOf[c]
      BY <1>0, <1>1, <1>5, CallsAssumption DEF RecordInv, OneStarter
  <2> QED
      BY <1>1, <1>2, <2>1 DEF Recorded, Unwritten
<1>6. OneStarter'
    BY <1>0, <1>1, CallsAssumption DEF RecordInv, OneStarter
<1>7. NothingBefore'
    BY <1>1, <1>2, <1>3 DEF RecordInv, NothingBefore
<1>8. RecordsTrue'
    BY <1>0, <1>1, <1>2 DEF RecordInv, RecordsTrue, Recorded, Finished
<1> QED
    BY <1>0, <1>1, <1>3, <1>4, <1>5, <1>6, <1>7, <1>8 DEF RecordInv

\* A plan is built from true records and followed without a new one.
LEMMA RecordStepResume ==
    ASSUME TypeInv, Sides, RecordInv, NEW c \in Calls,
           \/ BuildPlan(c) \/ ReuseNode(c) \/ FailBlockedNode(c)
           \/ (\E outcome \in NodeOutcomes : RerunNode(c, outcome))
    PROVE  RecordInv'
<1>0. /\ pc \in [Calls -> Phases] /\ RunOf[c] \in Runs /\ NodeCount \in Nat
      /\ DOMAIN overall = Calls /\ DOMAIN pos = Calls /\ DOMAIN last = Calls
      /\ DOMAIN plan = Calls /\ Recorded(c) /\ done \in [Runs -> SUBSET Nodes]
      /\ nodeState \in [Runs -> [Nodes -> {"absent"} \cup AllOutcomes]]
    BY CallsAssumption, NodesAssumption DEF TypeInv, TypeOK, RecordInv
<1>1. CASE BuildPlan(c)
  <2>1. /\ Grown /\ Alone(c) /\ pc[c] = "planning" /\ pc'[c] = "planned" /\ c \notin Starters
        /\ UNCHANGED <<pos, last, nodeState, runStatus, done>>
        /\ \A n \in Nodes : plan'[c][n] = Decision(nodeState[RunOf[c]][n])
      BY <1>0, <1>1 DEF BuildPlan, Goto, Alone, Grown, Sides, Resumers, storeVars, historyVars
  <2>2. ASSUME NEW n \in Nodes, plan'[c][n] = "skip" PROVE n \in done'[RunOf[c]]
    <3>1. nodeState[RunOf[c]][n] \in {"absent"} \cup AllOutcomes
        BY <1>0
    <3>2. nodeState[RunOf[c]][n] = "completed"
        BY <2>1, <2>2, <3>1 DEF Decision, AllOutcomes
    <3> QED
        BY <1>0, <2>1, <3>2 DEF RecordInv, RecordsTrue
  <2>3. Recorded(c)'
      BY <1>0, <2>1, <2>2 DEF Recorded
  <2> QED
      BY <2>1, <2>3, WithoutRecord
<1>2. CASE ReuseNode(c) \/ FailBlockedNode(c)
  <2>1. /\ Grown /\ Alone(c) /\ pc[c] = "executing" /\ c \notin Starters
        /\ UNCHANGED <<pc, plan, nodeState, runStatus, done>>
      BY <1>0, <1>2 DEF ReuseNode, FailBlockedNode, FollowPlan, AtNode, Advance, SetOverall,
         Resumers, Alone, Grown, storeVars
  <2>2. Recorded(c)'
      BY <1>0, <2>1 DEF Recorded
  <2> QED
      BY <2>1, <2>2, WithoutRecord
<1>3. CASE \E outcome \in NodeOutcomes : RerunNode(c, outcome)
  <2>1. /\ Grown /\ Alone(c) /\ pc[c] = "executing" /\ c \notin Starters
        /\ UNCHANGED <<pc, plan, nodeState, runStatus>>
      BY <1>0, <1>3 DEF RerunNode, FollowPlan, HandleNode, AtNode, Advance, SetOverall,
         Resumers, Alone, Grown, storeVars
  <2>2. Recorded(c)'
      BY <1>0, <2>1 DEF Recorded, Grown
  <2> QED
      BY <2>1, <2>2, WithoutRecord
<1> QED
    BY <1>1, <1>2, <1>3

LEMMA RecordStep == TypeInv /\ Sides /\ RecordInv /\ [Next]_vars => RecordInv'
<1> SUFFICES ASSUME TypeInv, Sides, RecordInv, [Next]_vars PROVE RecordInv'
    OBVIOUS
<1>1. ASSUME \/ Tick \/ UNCHANGED vars \/ \E c \in Calls : Renew(c)
      PROVE  RecordInv'
  <2>1. UNCHANGED <<pc, loopVars, nodeState, runStatus, done>>
      BY <1>1 DEF Tick, vars, Renew, callVars, storeVars, historyVars
  <2> QED
      BY <2>1 DEF loopVars, RecordInv, Recorded, Unwritten, OneStarter, NothingBefore, RecordsTrue
<1> QED
    BY <1>1, RecordStepOutside, RecordStepCreate, RecordStepNode, RecordStepPersist,
       RecordStepResume DEF Next, Step, ExecuteStep, ResumeStep

LEMMA RecordInvHolds == Spec => [](TypeInv /\ Sides /\ RecordInv)
<1>1. Init => Sides /\ RecordInv
    BY CallsAssumption, NodesAssumption
       DEF Init, Sides, RecordInv, Recorded, Unwritten, OneStarter, NothingBefore, RecordsTrue
<1> QED
    BY <1>1, DagTypeInit, DagTypeStep, SidesStep, RecordStep, PTL DEF Spec

(* A node record is written once.  A call that lost its lease goes on      *)
(* writing (dag.py:2047), but only where nothing was written yet: it never *)
(* takes back what a resume has already relied on.                         *)
THEOREM RecordsWrittenOnce ==
    Spec => [][\A r \in Runs, n \in Nodes :
                  nodeState[r][n] # "absent" => nodeState'[r][n] = nodeState[r][n]]_vars
<1>1. ASSUME TypeInv, Sides, RecordInv, [Next]_vars, NEW r \in Runs, NEW n \in Nodes,
             nodeState[r][n] # "absent"
      PROVE  nodeState'[r][n] = nodeState[r][n]
  <2>1. CASE UNCHANGED nodeState
      BY <2>1
  <2>2. ASSUME NEW c \in Calls, PersistNode(c) PROVE nodeState'[r][n] = nodeState[r][n]
    <3>1. /\ pos[c] \in Nodes /\ Unwritten(c, pos[c])
          /\ nodeState' = [nodeState EXCEPT ![RunOf[c]][pos[c]] = last[c]]
        BY <1>1, <2>2, RecordStepPersist
    <3>2. nodeState \in [Runs -> [Nodes -> {"absent"} \cup AllOutcomes]]
        BY <1>1 DEF TypeInv, TypeOK
    <3> QED
        BY <1>1, <3>1, <3>2 DEF Unwritten
  <2>3. ASSUME NEW c \in Calls, Step(c) \/ Renew(c) \/ CancelCall(c) \/ Crash(c)
        PROVE  PersistNode(c) \/ UNCHANGED nodeState
    <3>1. CASE ExecuteStep(c)
        BY <3>1 DEF ExecuteStep, CreateRun, AcquireForExecute, TakeLease, EnforceForExecute,
           SkipBelow, ConditionFalse, OmitNode, ConditionError, DeadlineExceeded, StopExecution,
           RunNode, SnapshotNode, storeVars
    <3>2. CASE ResumeStep(c)
        BY <3>2 DEF ResumeStep, LoadRun, BuildPlan, EnforceForResume, AcquireForResume, TakeLease,
           ReuseNode, FailBlockedNode, RerunNode, FollowPlan, RetryResume, storeVars
    <3>3. CASE \/ FinishRun(c) \/ CompletionSnapshot(c) \/ CloseCall(c) \/ Renew(c)
               \/ CancelCall(c) \/ Crash(c)
        BY <3>3 DEF FinishRun, CompletionSnapshot, CloseCall, Renew, CancelCall, Crash, storeVars
    <3> QED
        BY <2>3, <3>1, <3>2, <3>3 DEF Step
  <2>4. Tick \/ UNCHANGED vars => UNCHANGED nodeState
      BY DEF Tick, vars, storeVars
  <2> QED
      BY <1>1, <2>1, <2>2, <2>3, <2>4 DEF Next
<1>2. TypeInv /\ Sides /\ RecordInv /\ [Next]_vars
        => [\A r \in Runs, n \in Nodes :
               nodeState[r][n] # "absent" => nodeState'[r][n] = nodeState[r][n]]_vars
    BY <1>1
<1> QED
    BY <1>2, RecordInvHolds, PTL DEF Spec

(* A resume reuses only what was done, however old its plan is: one built  *)
(* before the lease was acquired (dag.py:992) may repeat nodes, but leaves *)
(* none of them out.                                                       *)
THEOREM ReuseIsSound ==
    Spec => [][\A c \in Calls : ReuseNode(c) => pos[c] \in done[RunOf[c]]]_vars
<1>1. ASSUME TypeInv, RecordInv, NEW c \in Calls, ReuseNode(c)
      PROVE  pos[c] \in done[RunOf[c]]
  <2>1. pos[c] \in Nodes /\ plan[c][pos[c]] = "skip" /\ Recorded(c)
      BY <1>1, NodesAssumption
         DEF TypeInv, TypeOK, RecordInv, ReuseNode, FollowPlan, AtNode, Nodes
  <2> QED
      BY <2>1 DEF Recorded
<1>2. TypeInv /\ RecordInv
        => [\A c \in Calls : ReuseNode(c) => pos[c] \in done[RunOf[c]]]_vars
    BY <1>1
<1> QED
    BY <1>2, RecordInvHolds, PTL DEF Spec

=============================================================================
