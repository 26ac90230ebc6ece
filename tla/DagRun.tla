------------------------------- MODULE DagRun -------------------------------
(***************************************************************************)
(* Execution and resumption of DAG workflow runs: DagExecutor.execute      *)
(* (sequential mode) and DagExecutor.resume of agent_app/workflows/dag.py, *)
(* the run, node, snapshot and idempotency tables of                       *)
(* agent_app/runtime/dag_state_store.py they share, the lease backend      *)
(* (RunLease) and the background renewer of each call.                     *)
(*                                                                         *)
(* A call is one invocation with a DagExecutor of its own.  Calls may be   *)
(* coroutines of one process or processes of their own that share a state  *)
(* store and a lease backend; a step ends where another call can run.      *)
(* Nodes are numbered in the order of DagWorkflow.topological_sort.        *)
(* Compensation and parallel mode are not part of this module.             *)
(***************************************************************************)
EXTENDS RunLease

CONSTANTS Calls, Starters,        \* all calls; those that execute, the rest resume
          RunOf, WorkerOf, KeyOf, \* run, worker and idempotency key of a call
          NoKey,                  \* no idempotency key was given
          NodeCount, Deps,        \* nodes 1 .. NodeCount and their depends_on
          Conditional,            \* nodes with a condition
          HasDeadline,            \* dag.deadline_seconds is set
          NodeOutcomes,           \* how node handlers of this workflow may end
          SnapshotsEnabled,       \* _is_snapshot_enabled
          RetryFailed,            \* ResumePolicy.retry_failed
          RenewerKeepsUp,         \* renewals come before the lease runs out
          MaxCrashes              \* bound on crashes plus cancellations

Nodes == 1 .. NodeCount

\* How _execute_node_with_retry ends after its last attempt; a completed node
\* may have produced no output (None).
AllOutcomes == {"completed", "no_output", "failed", "interrupted"}
Finished(outcome) == outcome \in {"completed", "no_output"}

ASSUME CallsAssumption ==
    /\ Starters \subseteq Calls
    /\ RunOf \in [Calls -> Runs] /\ WorkerOf \in [Calls -> Workers]
    /\ DOMAIN KeyOf = Calls
ASSUME NodesAssumption ==
    /\ NodeCount \in Nat
    /\ Deps \in [Nodes -> SUBSET Nodes]
    /\ \A n \in Nodes : \A d \in Deps[n] : d < n
    /\ Conditional \subseteq Nodes
    /\ NodeOutcomes \subseteq AllOutcomes
ASSUME OptionsAssumption ==
    /\ {HasDeadline, SnapshotsEnabled, RetryFailed, RenewerKeepsUp} \subseteq BOOLEAN
    /\ MaxCrashes \in Nat

VARIABLES
    runStatus,  \* workflow_runs.status
    nodeState,  \* workflow_nodes.status, "no_output" when completed without output
    snapshot,   \* status of the latest run snapshot
    reserved,   \* workflow_idempotency: reserved <<operation, key>> pairs
    pc,         \* where each call is
    pos,        \* the node its loop is at
    last,       \* how the node it ran last ended
    overall,    \* its overall_status
    omitted,    \* nodes its results hold as skipped
    plan,       \* the ResumePlan it follows
    lost,       \* its renewer's lease_lost
    reported,   \* what it returned or raised
    done,       \* history: nodes whose handler ran to completion
    excluded,   \* history: nodes that the run's conditions ruled out
    crashes     \* crashes and cancellations so far

storeVars == <<runStatus, nodeState, snapshot, reserved>>
loopVars == <<pos, last, overall, omitted, plan>>
callVars == <<pc, loopVars, lost, reported>>
historyVars == <<done, excluded, crashes>>
vars == <<leaseVars, storeVars, callVars, historyVars>>

Phases == {"idle", "created", "leased", "planning", "planned", "ready", "executing",
           "ran", "persisted", "finished", "closing", "done", "raised", "dead"}

TypeOK ==
    /\ LeaseTypeOK
    /\ runStatus \in [Runs -> {"absent", "running", "completed", "failed"}]
    /\ nodeState \in [Runs -> [Nodes -> {"absent"} \cup AllOutcomes]]
    /\ snapshot \in [Runs -> {"none", "running", "completed", "failed", "interrupted"}]
    /\ reserved \subseteq {"execute", "resume"} \X {KeyOf[c] : c \in Calls}
    /\ pc \in [Calls -> Phases]
    /\ pos \in [Calls -> 1 .. NodeCount + 1]
    /\ last \in [Calls -> AllOutcomes]
    /\ overall \in [Calls -> {"completed", "failed", "interrupted", "cancelled"}]
    /\ omitted \in [Calls -> SUBSET Nodes]
    /\ plan \in [Calls -> [Nodes -> {"run", "skip", "blocked"}]]
    /\ lost \in [Calls -> BOOLEAN]
    /\ reported \in [Calls -> {"nothing", "completed", "failed", "interrupted",
                               "cancelled", "lease_lost", "lease_denied", "duplicate"}]
    /\ done \in [Runs -> SUBSET Nodes]
    /\ excluded \in [Runs -> SUBSET Nodes]
    /\ crashes \in 0 .. MaxCrashes

Init ==
    /\ LeaseInit
    /\ runStatus = [r \in Runs |-> "absent"]
    /\ nodeState = [r \in Runs |-> [n \in Nodes |-> "absent"]]
    /\ snapshot = [r \in Runs |-> "none"]
    /\ reserved = {}
    /\ pc = [c \in Calls |-> "idle"]
    /\ pos = [c \in Calls |-> 1]
    /\ last = [c \in Calls |-> "completed"]
    /\ overall = [c \in Calls |-> "completed"]
    /\ omitted = [c \in Calls |-> {}]
    /\ plan = [c \in Calls |-> [n \in Nodes |-> "run"]]
    /\ lost = [c \in Calls |-> FALSE]
    /\ reported = [c \in Calls |-> "nothing"]
    /\ done = [r \in Runs |-> {}]
    /\ excluded = [r \in Runs |-> {}]
    /\ crashes = 0

----------------------------------------------------------------------------
Resumers == Calls \ Starters
Executing(c) == pc[c] \in {"executing", "ran", "persisted", "finished"}
Working(c) == Executing(c) \/ pc[c] \in {"leased", "closing"}
Goto(c, phase) == pc' = [pc EXCEPT ![c] = phase]
SaveSnapshot(r, status) ==
    snapshot' = IF SnapshotsEnabled THEN [snapshot EXCEPT ![r] = status] ELSE snapshot

\* The call raises: nothing it did is undone.
Raise(c, why) == Goto(c, "raised") /\ reported' = [reported EXCEPT ![c] = why]

\* Mutant of TakeLease: the result of the acquisition is not looked at.
TakeLeaseUnchecked(c, phase) ==
    /\ \/ AcquireLease(RunOf[c], WorkerOf[c])
       \/ AcquireDenied(RunOf[c], WorkerOf[c]) /\ UNCHANGED leaseVars
    /\ Goto(c, phase)
    /\ UNCHANGED <<storeVars, loopVars, lost, reported, historyVars>>

\* _acquire_lease, on success and when it is denied.
TakeLease(c, phase) ==
    /\ \/ /\ AcquireLease(RunOf[c], WorkerOf[c])
          /\ Goto(c, phase)
          /\ UNCHANGED reported
       \/ /\ AcquireDenied(RunOf[c], WorkerOf[c])
          /\ Raise(c, "lease_denied")
          /\ UNCHANGED leaseVars
    /\ UNCHANGED <<storeVars, loopVars, lost, historyVars>>

\* The scope of a key is the operation.
Scoped(operation, c) == <<operation, KeyOf[c]>>
KeyTaken(operation, c) == KeyOf[c] # NoKey /\ Scoped(operation, c) \in reserved
\* Mutant of Reserve: the key is checked but never written.
ReserveUnwritten(operation, c) == ~KeyTaken(operation, c) /\ UNCHANGED reserved

\* _enforce_idempotency: a key is reserved once per operation.
Reserve(operation, c) ==
    /\ ~KeyTaken(operation, c)
    /\ reserved' = IF KeyOf[c] = NoKey THEN reserved
                   ELSE reserved \cup {Scoped(operation, c)}

\* execute: create_run, then _acquire_lease ...
CreateRun(c) ==
    /\ c \in Starters
    /\ pc[c] = "idle"
    /\ runStatus[RunOf[c]] = "absent"
    /\ runStatus' = [runStatus EXCEPT ![RunOf[c]] = "running"]
    /\ Goto(c, "created")
    /\ UNCHANGED <<leaseVars, nodeState, snapshot, reserved, loopVars, lost, reported,
                   historyVars>>

AcquireForExecute(c) == pc[c] = "created" /\ TakeLease(c, "leased")

\* ... then _enforce_idempotency, which raises past the try/finally that
\* releases the lease; otherwise the renewer starts and the "running" snapshot
\* is saved.
EnforceForExecute(c) ==
    /\ pc[c] = "leased"
    /\ \/ /\ KeyTaken("execute", c)
          /\ Raise(c, "duplicate")
          /\ UNCHANGED <<reserved, snapshot>>
       \/ /\ Reserve("execute", c)
          /\ SaveSnapshot(RunOf[c], "running")
          /\ Goto(c, "executing")
          /\ UNCHANGED reported
    /\ UNCHANGED <<leaseVars, runStatus, nodeState, loopVars, lost, historyVars>>

----------------------------------------------------------------------------
\* resume: the run and its latest snapshot are read.  A "completed" snapshot
\* ends the call at once.
LoadRun(c) ==
    LET r == RunOf[c] IN
    /\ c \in Resumers
    /\ pc[c] = "idle"
    /\ runStatus[r] # "absent"
    /\ IF SnapshotsEnabled /\ snapshot[r] = "completed"
       THEN Goto(c, "done") /\ reported' = [reported EXCEPT ![c] = "completed"]
       ELSE Goto(c, "planning") /\ UNCHANGED reported
    /\ UNCHANGED <<leaseVars, storeVars, loopVars, lost, historyVars>>

\* Mutant of Decision: every persisted node counts as completed.
DecisionByPresence(state) == IF state = "absent" THEN "run" ELSE "skip"

\* _build_resume_plan decides per persisted node; a node without a record runs,
\* and "interrupted" is none of the statuses it knows.
Decision(state) ==
    CASE state = "absent" -> "run"
      [] state = "completed" -> "skip"
      [] state = "failed" -> IF RetryFailed THEN "run" ELSE "blocked"
      [] state \in {"no_output", "interrupted"} -> "blocked"

BuildPlan(c) ==
    /\ pc[c] = "planning"
    /\ plan' = [plan EXCEPT ![c] = [n \in Nodes |-> Decision(nodeState[RunOf[c]][n])]]
    /\ Goto(c, "planned")
    /\ UNCHANGED <<leaseVars, storeVars, pos, last, overall, omitted, lost, reported,
                   historyVars>>

EnforceForResume(c) ==
    /\ pc[c] = "planned"
    /\ \/ /\ KeyTaken("resume", c)
          /\ Raise(c, "duplicate")
          /\ UNCHANGED reserved
       \/ /\ Reserve("resume", c)
          /\ Goto(c, "ready")
          /\ UNCHANGED reported
    /\ UNCHANGED <<leaseVars, runStatus, nodeState, snapshot, loopVars, lost, historyVars>>

AcquireForResume(c) == pc[c] = "ready" /\ TakeLease(c, "executing")

\* The caller of a resume that raised asks again, with a new DagExecutor.
RetryResume(c) ==
    /\ c \in Resumers
    /\ pc[c] = "raised"
    /\ Goto(c, "idle")
    /\ reported' = [reported EXCEPT ![c] = "nothing"]
    /\ UNCHANGED <<leaseVars, storeVars, loopVars, lost, historyVars>>

----------------------------------------------------------------------------
AtNode(c) == pc[c] = "executing" /\ pos[c] <= NodeCount
Advance(c) == pos' = [pos EXCEPT ![c] = @ + 1]
\* Mutant of Break: one node too far.
BreakTooFar(c) == pos' = [pos EXCEPT ![c] = NodeCount + 2]
Break(c) == pos' = [pos EXCEPT ![c] = NodeCount + 1]
SetOverall(c, status) == overall' = [overall EXCEPT ![c] = status]

\* Mutant of Upstream: a skip is not passed on.
UpstreamUnseen(c) == FALSE
\* _execute_sequential: a node below a skipped one is skipped ...
Upstream(c) == Deps[pos[c]] \cap omitted[c] # {}
OmitNode(c) ==
    /\ omitted' = [omitted EXCEPT ![c] = @ \cup {pos[c]}]
    /\ excluded' = [excluded EXCEPT ![RunOf[c]] = @ \cup {pos[c]}]
    /\ Advance(c)
    /\ UNCHANGED <<leaseVars, storeVars, pc, last, overall, plan, lost, reported, done,
                   crashes>>
SkipBelow(c) == c \in Starters /\ AtNode(c) /\ Upstream(c) /\ OmitNode(c)

\* ... and so is one whose condition is false; a condition that cannot be
\* evaluated fails the run without a node record ...
AtFreeNode(c) == c \in Starters /\ AtNode(c) /\ ~Upstream(c)
ConditionFalse(c) == AtFreeNode(c) /\ pos[c] \in Conditional /\ OmitNode(c)

\* Mutant of StopExecution: the loop ends and overall_status is not set.
StopSilently(c) ==
    /\ AtFreeNode(c)
    /\ Break(c)
    /\ UNCHANGED <<leaseVars, storeVars, pc, last, overall, omitted, plan, lost,
                   reported, historyVars>>

StopExecution(c) ==
    /\ AtFreeNode(c)
    /\ Break(c)
    /\ SetOverall(c, "failed")
    /\ UNCHANGED <<leaseVars, storeVars, pc, last, omitted, plan, lost, reported,
                   historyVars>>
ConditionError(c) == pos[c] \in Conditional /\ StopExecution(c)

\* ... and past the deadline the rest of the workflow is skipped.
DeadlineExceeded(c) == HasDeadline /\ StopExecution(c)

\* The handler of the node at hand runs, all its attempts in one step.
HandleNode(c, outcome) ==
    /\ last' = [last EXCEPT ![c] = outcome]
    /\ done' = IF Finished(outcome)
               THEN [done EXCEPT ![RunOf[c]] = @ \cup {pos[c]}] ELSE done

RunNode(c, outcome) ==
    /\ AtFreeNode(c)
    /\ HandleNode(c, outcome)
    /\ Goto(c, "ran")
    /\ UNCHANGED <<leaseVars, storeVars, pos, overall, omitted, plan, lost, reported,
                   excluded, crashes>>

\* _persist_node_state and _propagate_status ...
PersistNode(c) ==
    /\ pc[c] = "ran"
    /\ nodeState' = [nodeState EXCEPT ![RunOf[c]][pos[c]] = last[c]]
    /\ SetOverall(c, IF Finished(last[c]) THEN overall[c] ELSE last[c])
    /\ Goto(c, "persisted")
    /\ UNCHANGED <<leaseVars, runStatus, snapshot, reserved, pos, last, omitted, plan, lost,
                   reported, historyVars>>

\* ... then the node-level snapshot, whose status is the overall_status:
\* "completed" as long as nothing failed.
SnapshotNode(c) ==
    /\ pc[c] = "persisted"
    /\ SaveSnapshot(RunOf[c], overall[c])
    /\ IF overall[c] = "completed" THEN Advance(c) ELSE Break(c)
    /\ Goto(c, "executing")
    /\ UNCHANGED <<leaseVars, runStatus, nodeState, reserved, last, overall, omitted, plan,
                   lost, reported, historyVars>>

\* resume follows its plan: it reuses a node, fails a blocked one, or runs the
\* node whatever became of its dependencies; it persists none of them.
FollowPlan(c, decision) ==
    /\ c \in Resumers
    /\ AtNode(c)
    /\ plan[c][pos[c]] = decision
    /\ Advance(c)
    /\ UNCHANGED <<leaseVars, storeVars, pc, omitted, plan, lost, reported, excluded,
                   crashes>>

ReuseNode(c) == FollowPlan(c, "skip") /\ UNCHANGED <<last, overall, done>>

FailBlockedNode(c) ==
    FollowPlan(c, "blocked") /\ SetOverall(c, "failed") /\ UNCHANGED <<last, done>>

\* Mutant of RerunNode: a node that fails on resume does not fail the run.
RerunForgiving(c, outcome) ==
    FollowPlan(c, "run") /\ HandleNode(c, outcome) /\ UNCHANGED overall

RerunNode(c, outcome) ==
    /\ FollowPlan(c, "run")
    /\ HandleNode(c, outcome)
    /\ SetOverall(c, IF outcome = "failed" THEN "failed" ELSE overall[c])

\* update_run with _map_workflow_status, then the completion snapshot of execute.
FinishRun(c) ==
    /\ pc[c] = "executing"
    /\ pos[c] > NodeCount
    /\ runStatus' = [runStatus EXCEPT ![RunOf[c]] =
                       IF overall[c] = "completed" THEN "completed" ELSE "failed"]
    /\ Goto(c, "finished")
    /\ UNCHANGED <<leaseVars, nodeState, snapshot, reserved, loopVars, lost, reported,
                   historyVars>>

CompletionSnapshot(c) ==
    /\ pc[c] = "finished"
    /\ IF c \in Starters THEN SaveSnapshot(RunOf[c], overall[c]) ELSE UNCHANGED snapshot
    /\ Goto(c, "closing")
    /\ UNCHANGED <<leaseVars, runStatus, nodeState, reserved, loopVars, lost, reported,
                   historyVars>>

\* Mutant of CloseCall: the lease is released only after a success.
CloseKeepingLease(c) ==
    LET r == RunOf[c]  w == WorkerOf[c] IN
    /\ pc[c] = "closing"
    /\ IF HeldBy(r, w) /\ overall[c] = "completed"
       THEN ReleaseLease(r, w) ELSE UNCHANGED leaseVars
    /\ reported' = [reported EXCEPT ![c] = overall[c]]
    /\ Goto(c, "done")
    /\ UNCHANGED <<storeVars, loopVars, lost, historyVars>>

\* The finally block: the renewer stops, _release_lease swallows KeyError, and
\* a lost lease is raised unless the call was cancelled.
CloseCall(c) ==
    LET r == RunOf[c]  w == WorkerOf[c] IN
    /\ pc[c] = "closing"
    /\ IF HeldBy(r, w) THEN ReleaseLease(r, w) ELSE UNCHANGED leaseVars
    /\ reported' = [reported EXCEPT ![c] =
                      IF lost[c] /\ overall[c] # "cancelled" THEN "lease_lost"
                      ELSE overall[c]]
    /\ Goto(c, "done")
    /\ UNCHANGED <<storeVars, loopVars, lost, historyVars>>

----------------------------------------------------------------------------
\* LeaseRenewer._renew_loop on a standalone backend: the first failed renewal
\* sets lease_lost and ends the loop.
Renew(c) ==
    LET r == RunOf[c]  w == WorkerOf[c] IN
    /\ Executing(c)
    /\ ~lost[c]
    /\ \/ RenewLease(r, w) /\ UNCHANGED lost
       \/ ~Live(r, w) /\ lost' = [lost EXCEPT ![c] = TRUE] /\ UNCHANGED leaseVars
    /\ UNCHANGED <<storeVars, pc, loopVars, reported, historyVars>>

\* With RenewerKeepsUp no lease runs out while its call works.
InTime(c) ==
    Working(c) /\ Live(RunOf[c], WorkerOf[c]) => lease[RunOf[c]].expiresIn > 1
Tick ==
    /\ RenewerKeepsUp => \A c \in Calls : InTime(c)
    /\ LeaseTick
    /\ UNCHANGED <<storeVars, callVars, historyVars>>

\* The task of a call is cancelled while it awaits a node: the finally block
\* runs, "except Exception" does not see the cancellation.
CancelCall(c) ==
    /\ Executing(c)
    /\ crashes < MaxCrashes
    /\ crashes' = crashes + 1
    /\ SetOverall(c, "cancelled")
    /\ Goto(c, "closing")
    /\ UNCHANGED <<leaseVars, storeVars, pos, last, omitted, plan, lost, reported, done,
                   excluded>>

\* The process of a call dies: its lease stays until it expires.
Crash(c) ==
    /\ pc[c] \notin {"idle", "done", "raised", "dead"}
    /\ crashes < MaxCrashes
    /\ crashes' = crashes + 1
    /\ Goto(c, "dead")
    /\ UNCHANGED <<leaseVars, storeVars, loopVars, lost, reported, done, excluded>>

ExecuteStep(c) ==
    \/ CreateRun(c) \/ AcquireForExecute(c) \/ EnforceForExecute(c)
    \/ SkipBelow(c) \/ ConditionFalse(c) \/ ConditionError(c) \/ DeadlineExceeded(c)
    \/ \E outcome \in NodeOutcomes : RunNode(c, outcome)
    \/ PersistNode(c) \/ SnapshotNode(c)

ResumeStep(c) ==
    \/ LoadRun(c) \/ BuildPlan(c) \/ EnforceForResume(c) \/ AcquireForResume(c)
    \/ ReuseNode(c) \/ FailBlockedNode(c)
    \/ \E outcome \in NodeOutcomes : RerunNode(c, outcome)
    \/ RetryResume(c)

Step(c) ==
    \/ ExecuteStep(c) \/ ResumeStep(c)
    \/ FinishRun(c) \/ CompletionSnapshot(c) \/ CloseCall(c)

Next ==
    \/ \E c \in Calls : Step(c) \/ Renew(c) \/ CancelCall(c) \/ Crash(c)
    \/ Tick

Spec == Init /\ [][Next]_vars

\* A call that can go on does (a resume that raised is asked for again), and
\* time passes.  Crashes, cancellations and renewals are not assumed.
FairSpec == Spec /\ (\A c \in Calls : WF_vars(Step(c))) /\ WF_vars(Tick)

----------------------------------------------------------------------------
\* Calls on one run come from processes of their own.
DistinctWorkers ==
    \A c, d \in Calls : c # d /\ RunOf[c] = RunOf[d] => WorkerOf[c] # WorkerOf[d]

\* While renewals are in time, one call at a time works on a run, from the
\* acquisition of its lease to the end of its finally block: neither a crash,
\* a resume that waits for the lease, nor a late release lets a second in.
OneExecutor ==
    \A c, d \in Calls :
        Working(c) /\ Working(d) /\ RunOf[c] = RunOf[d] => c = d

\* ... and then no call finds out that its lease was lost: LeaseLostError
\* (dag.py:778-786) is only ever the answer to a late renewal.
NeverLostInTime == \A c \in Calls : ~lost[c] /\ reported[c] # "lease_lost"

\* Even when renewals are late, a call that takes over a run from one that
\* still executes finds the promise of that one's last lease object expired.
Enters(c) == pc[c] \in {"created", "ready"} /\ pc'[c] \in {"leased", "executing"}
NoOvertaking ==
    [][\A c, d \in Calls :
          /\ Enters(c)
          /\ Executing(d)
          /\ RunOf[c] = RunOf[d]
          /\ WorkerOf[c] # WorkerOf[d]
          => grant[RunOf[d]][WorkerOf[d]] = 0]_vars

\* A run is recorded as completed, and a call returns "completed", only when
\* each of its nodes ran to completion or was ruled out by a condition, in
\* this call or in an earlier one whose records the plan relies on.
AllDone(r) == Nodes \subseteq done[r] \cup excluded[r]
CompletedIsDone == \A r \in Runs : runStatus[r] = "completed" => AllDone(r)
ReportedIsDone == \A c \in Calls : reported[c] = "completed" => AllDone(RunOf[c])

\* An execution follows depends_on: the handler of a node starts only after
\* those of all its dependencies ran to completion, though nodes fail or are
\* ruled out and other calls work on the run (dag.py:1883-2030, 2738-2774).
DependenciesFirst ==
    [][\A c \in Starters :
          pc[c] = "executing" /\ pc'[c] = "ran" => Deps[pos[c]] \subseteq done[RunOf[c]]]_vars

\* A call that returned or raised leaves no live lease behind on its run.
NoLeaseAfterCall ==
    \A c \in Calls : pc[c] \in {"done", "raised"} => ~Live(RunOf[c], WorkerOf[c])

\* One idempotency key lets one execution at its nodes, even if that one dies:
\* the client that repeats it on another run is rejected.
Began(c) == Executing(c) \/ pos[c] > 1
KeyUsedOnce ==
    \A c, d \in Starters :
        c # d /\ KeyOf[c] = KeyOf[d] /\ KeyOf[c] # NoKey => ~(Began(c) /\ Began(d))

\* Every run that starts ends, whoever dies, as long as a caller of resume
\* outlives the crashes: the dead worker's lease expires and is stolen.
RunFinishes ==
    \A r \in Runs : runStatus[r] = "running" ~> runStatus[r] \in {"completed", "failed"}

----------------------------------------------------------------------------
(* What the documentation says of resume and the code does not keep.       *)

\* README.md:1027, "completed nodes skipped with output reuse": a resume never
\* executes a node whose record says completed.
CompletedNodeNotRerun ==
    [][\A c \in Resumers :
          pos'[c] # pos[c] /\ plan[c][pos[c]] = "run"
             => nodeState[RunOf[c]][pos[c]] # "completed"]_vars
=============================================================================
