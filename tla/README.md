# TLA+ models of the AgentOps framework

This directory holds a formal model of the parts of `agent_app` that keep
protocol state: workflow execution under leases, compensation, human approval of
tool calls, policy rollouts, federated rollouts, and the replay of failed alert
deliveries. It consists of TLA+ modules, TLC configurations that check them on
small instances, and TLAPS proofs of their main properties for all instances.
Paths below are relative to `src/`, or to `src/agent_app` where they begin with
`runtime/`, `workflows/`, `core/` or `adapters/`.

Contents: [what was found](#what-was-found) ·
[the system](#the-system) · [the models](#the-models) · [the runs](#the-runs) ·
[the proofs](#the-proofs) · [what is not covered](#what-is-not-covered) ·
[plan](#plan)

## What was found

What the models and proofs confirm:

- A run never has two tenants, a promise made to a worker is kept to the second,
  and with distinct workers and renewals in time at most one call works on a run.
- A compensation on record as completed did undo every node.
- A tool call that waits for a human runs only after somebody approved that very
  call, and no approval gets lost between two calls that look for pending ones.
- A rollout step that requires approval runs only after a quorum of users other
  than the requester; a plan is "completed" only if every step is; both although
  every call writes back the copy of the plan it read at its start.
- The same of a federated plan and its targets, and a gated operation needs an
  approved request.
- An alert is acknowledged only if it was delivered, or in a dry run; a second
  delivery needs a claim whose lease was reset; whatever is queued is settled.

What fails. One disagreement has a run of its own:

| Run | What happens | Where |
|---|---|---|
| `FederationWaves` | The second wave starts while the child rollout of the first neither completed nor failed, although the wave requires all to succeed: only "failed" and "blocked" targets stop it | `policy_rollout_federation_service.py:610` against `docs/policy_release.md:3622` |

The others are in the models, each visible in the definitions named, and no run
is spent on them.

*Workflow execution*
- The snapshot after a node is saved with status "completed" while nothing has
  failed; after a crash between two nodes `resume` takes it for a finished run and
  answers "completed" (`dag.py:2010`, `dag.py:908-915` against
  `docs/dag_snapshot.md:67`: "saved as "completed" on successful finish").
- A node interrupted during `resume` leaves the run "completed": only failed nodes
  change the status (`dag.py:1116`; `:1154` still asks for "interrupted").
- The resume plan is older than the lease, so nodes the previous holder completed
  run again (`dag.py:992`, `:1010` against `README.md:1027`). The property is
  `CompletedNodeNotRerun` of `DagRun`, which the model violates.
- The renewer ends when it reads the run as failed: a failed run that is resumed
  keeps that status, and a run about to be compensated has it for a moment
  (`lease_renewer.py:187`, `dag.py:3995`). The property is `LastsThroughout` of
  `LeaseRenewal`, a theorem only where the renewer does not read the run.
- `resume` executes a run forward although its compensation is on record; the
  check reads a table nothing writes (`dag_state_store.py:1990` against the
  docstring at `:1970`). The property is `StartedCompensationBlocks`.
- A node recorded as "interrupted" is blocked, not retried (`Decision`;
  `dag_state_store.py:2117` against `README.md:1027`).
- A node below a blocked node runs (`Decision` looks at one node;
  `dag_state_store.py:2009` against the docstring at `:1971`).
- `resume` evaluates no conditions (`FollowPlan`; `dag.py:1066` against
  `docs/release_checklist_v0.10.md:258`) and records none of the nodes it runs
  (`RerunNode`; `dag.py:1111` against `:259`).
- An execution rejected as a duplicate keeps its lease and leaves its run
  "running", open to a resume (`CreateRun`, `EnforceForExecute`;
  `dag.py:703-719`).
- With `ttl_seconds` above 900, a renewal (300 seconds, from a `LeasePolicy()`
  built in the loop, `lease_renewer.py:168`) is shorter than the interval
  (a third of `ttl_seconds`), so the lease expires between two renewals. This is
  the hypothesis `MaxDelay < Slack` of `NeverExpiresMidExecution`.
- `resume` continues a compensation before it has the lease, so two calls may
  run the same handlers (`LoadCompensation`; `dag.py:952`).
- A crash during the last handler leaves an action "running" and none pending,
  and no resume continues that compensation (`Unfinished`; `dag.py:950`).
- A call that lost its lease goes on recording nodes and stores the final status
  although another call has taken over (`FinishRun`; `dag.py:2047`).

*Approval of tool calls*
- `resume` of the application asks neither for the status of the run nor for a
  claim on it, so a resumed run executes its tools again (`MarkFirst`;
  `run_state.py:123-136` says a run is resumable if it is interrupted). The
  property is `ResumedOnlyInterrupted`, which the model violates.
- An expired approval is neither pending nor rejected: `resume` reports the run
  approved and resumed (`Blocking`, `Vetoes`).
- An approval asked for while a native run resumes is not added to the run, so
  its decision is refused as one of another run (`RunTool`, `Admitted`).
- Two processes may both decide one request, the later one overwriting the
  earlier (`ReadApproval`, `WriteDecision`), so a run closed by a rejection can be
  resumed; `RejectedStaysClosed` says that nothing less does it.
- If the backend fails after the last approval, the run stays interrupted, and
  `approve_and_resume` cannot be repeated, since nothing is pending any more
  (`ReadDecisions`, `Open`).

*Rollouts*
- An approval that `run_next_step` creates has one required approver and no
  expiry, whatever the policy of the service or the step (`NewApproval` against
  `docs/release_checklist_phase37.md:64`: "Quorum approval: first approve keeps step
  BLOCKED"). `QuorumOfService` states the documented rule and is not checked.
- Two approvals at a time lose one of the votes, and a decision overwrites a
  rejection made meanwhile (`SelectApproval`, `UpdateApproval`).
- Every write of a plan restores what other calls changed: a cancelled plan gets
  active again, a failed step blocked (`Written`).
- A plan with a skipped step never completes if a step is executed after it, and
  steps that require a skipped one never run (`StatusAfter`, `PrevDone`).
- A step that its gate blocked, or whose approval expired, stays blocked
  (`Runnable`); a rejection on a draft fails the step and leaves the plan a draft.
- A crash between the effect of a step and the write of the plan makes the next
  call carry it out again (`Execute`, `Crash`).

*Federations*
- A blocked federation never goes on: `run_next` wants "active" (`ReadPlan`), and
  nothing unblocks a target. A crash or an exception of the child service leaves
  a target "running" for good (`ChildRaises`).
- `cancel` looks at no status, and a call at work overwrites it (`WritePlan`).
- One approved request authorises all later calls of its action; an expired or
  rejected latest request is never asked again (`CheckApproval`).
- An approved request can be cancelled, and a decision is written whatever the
  request is by then (`Decide`, `WriteDecision`).

*Alert replay*
- A dry run claims items and acknowledges them without delivering them
  (`Rehearse` against `docs/policy_release.md`, "Dry-run reports which attempts
  would be retried without making adapter calls").
- Only completed idempotency records stop a replay; over a record that is not
  "started" `begin` raises, which is ignored, and a slow worker overwrites
  "completed" with "failed" (`BeginReplay`, `WriteRecord` against
  `docs/release_checklist_phase59.md:29`).
- Taking over an expired lock is a read and an unconditional write, so two
  processes may both lead (`ReadLock`, `TakeLockOver`; `phase59.md:34`); fencing
  tokens repeat and nothing compares them.
- `run_once` has no worker id: its lock belongs to "default", which every other
  such call shares, and its claims to nobody, so that ownership is not checked
  (`Owner`, `Claimant`). A requeue checks no owner and has no bound.

*Outside the models, met on the way*: notifications are dispatched without a
claim, so two dispatchers send the same message; the in-process copies of a
notification that get a status are lost with the SQLite store; the `run-once`
command passes an argument the daemon does not take; nothing enqueues into the
priority queue store.

## The system

`agent_app` runs agents and tools under governance. What has protocol state of
its own:

**Workflow-run leases** (`runtime/lease_backend.py`, `lease_redis_backend.py`,
`lease_coordinator.py`; the lease tables of `dag_state_store.py`). State: per run
an owner, an expiry and a release mark. Operations: acquire (fresh, after a
release, by stealing an expired lease, or as a refresh by the owner), renew,
release. Correct when no two workers hold unexpired leases of one run and nobody
but the owner ends a lease early. Hard: a slow owner acts on a lease that was
stolen; SQLite stores cache leases per process; Redis expires in whole seconds.

**Lease renewer** (`runtime/lease_renewer.py`). A background task per call, which
waits an interval, reads the status of the run if it can, renews, and gives up at
the first failure by setting `lease_lost`. The executor looks at the flag once,
at its end. Correct when a lease does not expire under a call that is alive, and
when a loss is noticed.

**DAG executor** (`workflows/dag.py`, class `DagExecutor`). `execute` creates the
run, acquires the lease, reserves the idempotency key, starts the renewer, saves
a "running" snapshot, executes the nodes (sequentially, or in parallel batches),
records each node and a snapshot after it, stores the final status, compensates
if the run failed, saves a completion snapshot, and releases the lease in a
`finally` block. `resume` reads the run and its latest snapshot, finishes
incomplete compensation, builds a plan from the recorded nodes, reserves the key,
acquires the lease and follows the plan. Correct when "completed" means that the
nodes are done, when nodes are not executed twice without need, and when a run
that loses its executor can be finished by another. Hard: crash or cancellation
at every await, several resumes at once, stale reads before the lease is taken.

**Workflow state store** (`runtime/dag_state_store.py`, in memory and SQLite).
Runs, node records, events, compensations, leases, idempotency keys, snapshots;
`_build_resume_plan` decides what a resume does with each node.

**Compensation** (`dag.py:3896-4375`, `runtime/compensation_state.py`,
`compensation_store.py`). Handlers of completed nodes in reverse order of
completion, with an action record per handler that a resume continues from.
Hard: a crash between handler and record; two resumes compensating at once; the
documented rule that started compensation blocks resume reads a table
(`upsert_compensation`) that the executor never writes.

**Recovery** (`runtime/recovery_scanner.py`, `recovery_service.py`,
`recovery_daemon.py`). Finds failed or stale runs, classifies them by lease and
node state, and resumes one on request under a lease acquired in advance.

**Human approval and run state** (`runtime/approval_store.py`,
`approval_resume.py`, `approval_rate_limit.py`, `run_state_store.py`,
`tool_executor.py`, `app_runner.py`, `core/app.py`, `adapters/openai_agents.py`).
A risky tool call parks the run until somebody decides. State: an approval row
per request with a status and an expiry; a run row with its approvals and a
status. Operations: request, approve, reject (of the application, or of the
service, which also resumes or closes the run), resume. Correct when a tool runs
only if it was approved, when one decision stands, when the run is resumed once
and is resumed at all. Hard: the store reads and then writes; several processes;
decisions after the expiry; the resume that runs the model awaits, so calls of
one process interleave there.

**Policy rollout** (`runtime/policy_rollout_service.py`, the stores of plans and
step approvals, `governance/policy_rollout*.py`). State: one row per plan with its
steps in it, one row per approval. Operations: start, run the next step, cancel,
request an approval, approve, reject, expire. Correct when steps run in order,
when approval precedes execution, and when "completed" is true. Hard: a call
works for long on its copy of the plan and then writes all of it.

**Federated rollouts** (`runtime/policy_rollout_federation_service.py`,
`..._approval_service.py` and their stores). A plan with an execution per target,
in the order of the targets or of waves, each by a child rollout; start, run_next
and cancel may need an approved request. Correct when no wave overtakes another,
and when "completed" means that every target was rolled out. Hard: the same, plus
the child in between, which may raise.

**Alert replay** (`runtime/policy_rollout_federation_notification_retry_daemon.py`,
`..._priority_queue_store.py`, `..._replay_idempotency.py`,
`distributed_lock.py`). Daemons, and single runs from the command line, share a
queue with leases on claims, a lock that elects one leader, and idempotency
records. Correct when nothing is acknowledged undelivered, when repetitions have
a reason, and when nothing stays in the queue. Hard: leases that lapse under a
slow worker, crashes at every statement, reads that are stale at the write.

**Policy release, promotion, activation, gates** (other `runtime/policy_*.py`).
Status machines that the steps of a rollout move. **Federation notifications and
alert delivery**: dispatch, deduplication, dead letters.

**Routing, conditions, function registry**: pure. **CLI, console, HTTP adapters,
configuration, observability, evaluation**: input, output and presentation.

Interaction: the executor calls the state store and the lease backend; the
renewer runs beside it on the same event loop and shares the lease backend;
calls in other processes share the store and the backend and nothing else;
recovery calls `resume` through the application. The lease is the only thing
that keeps two calls on one run apart. A federation creates a child rollout per
target and looks at its status only. Rollouts, approvals and federations have
nothing like a lease: their services read a row, decide, and write it back.

## The models

    RunTenancy            what a lease promises
       ^ implemented by
    RunLease              the in-memory lease backend          RunLeaseProofs
       ^ extended by   ^
    LeaseRenewal       DagRun             LeaseRenewalProofs, DagRunProofs
    renewer and call   executors, resumes,
                       store, renewers
                       ^ MCDagRun
    Compensation          one failed run, its executor and     CompensationProofs
       ^ MCCompensation   the calls that resume it

    ToolApproval          the approvals of one run, the calls  ToolApprovalProofs
       ^ MCToolApproval   that decide them and resume it

    RolloutPromise        what the status of a plan promises
       ^ implemented by        ^ each child of a federation is one
    Rollout               Federation                           RolloutProofs,
       ^ MCRollout           ^ MCFederation                    FederationProofs
    AlertReplay           queue, lock, records, processes      AlertReplayProofs

The refinements are written with `INSTANCE ... WITH`: `RunLease` gives
`RunTenancy` the owners of live entries as tenants; `Rollout` gives
`RolloutPromise` the status of its row and the steps that really succeeded or were
skipped; `Federation` instantiates it once per child, whose moves are its moves.

**`RunLease`** is `InMemoryWorkflowLeaseBackend`. `lease` is the `_leases` dict.
`grant` is not in the code: for each worker it is the time for which the last
lease object returned to it is still valid, so it stands for what the client
believes. Each path of `acquire_run_lease` that returns a lease is an action
(`AcquireFresh`, `AcquireSteal`, `AcquireRefresh`), the refusals are the
condition `AcquireDenied`, and `RenewLease` and `ReleaseLease` are the other
methods; calls that raise change nothing. The methods contain no await, so
atomic actions are exact. Time is relative: `expiresIn` is `expires_at - now`,
0 once the lease expired. `LeaseTick` is a second of the wall clock, common to
all processes. Lease versions are never read by a decision and are left out.

**`RunTenancy`** is the contract: a run has at most one tenant, and changes it
only through being free. The tenant of a run is the owner of its live lease.

**`LeaseRenewal`** puts numbers on the renewer: one call (`phase`), its renewer
(`loop`, `timer`, `lease_lost` as `lost`), the `status` of the run as the store
has it, the lease, and rival workers that acquire, renew and release whenever
the backend lets them. The parameters follow the code: the ttl of the
acquisition comes from the lease configuration, the interval from the renewal
configuration, the ttl of a renewal from a `LeasePolicy()` built inside the
loop; whether the loop reads the run's status depends on which backend the
renewer was given (`ChecksRun`). A node that computes without awaiting delays a
renewal, by up to `MaxDelay` seconds. `Slack` is the shorter ttl less the
interval: how late a renewal may be without harm.

**`DagRun`** is `execute` in sequential mode and `resume`, for any number of
calls on any number of runs. A call is one invocation with a `DagExecutor` of
its own; it may share a process with other calls or be alone in one. Its
program counter `pc` names the await it is at:

| `pc` | the call is about to |
|---|---|
| `idle` | start |
| `created` | acquire the lease (`execute`) |
| `leased` | enforce the idempotency key (`execute`) |
| `planning`, `planned`, `ready` | build the plan, enforce the key, acquire the lease (`resume`) |
| `executing` | take the next node, or store the final status |
| `ran`, `persisted` | record the node, save its snapshot |
| `finished`, `closing` | save the completion snapshot, run the `finally` block |
| `done`, `raised`, `dead` | nothing: it returned, it raised, its process died |

`runStatus`, `nodeState`, `snapshot` and `reserved` are the tables of the store,
shared by all calls; `done` and `excluded` are history variables that record
what really happened, against which the status of a run is judged. Node handlers
end in any of the outcomes of `NodeOutcomes`, all retries in one step; a
condition may be true, false or an error; the deadline may pass before any node.
`_build_resume_plan` is `Decision`. A call can crash between any two steps and
be cancelled while it executes; renewals come when they come, unless
`RenewerKeepsUp` says that they are in time. A resume that raised may be asked
for again (`RetryResume`).

Two simplifications: reserving the key in `execute` and saving the first
snapshot are one step, since no reader tells a "running" snapshot from none; and
a crash takes down one call, which includes every crash of a process with
several calls as a sequence of steps.

**`Compensation`** is `_execute_compensation` and `_resume_compensation` for one
run that has failed. The calls are the one that executed it and those that
resume it. `record` is the row of `dag_compensation_states`: its `id` stands for
`compensation_id`, and an action has a status and a number of attempts. Each
call has its own copy (`work`), because the SQLite store serialises what it is
given; `saved` is false when `comp_state` was set to `None` after a failed
write. `StartAction` and `EndAction` are `mark_running` and `mark_completed` or
`mark_failed` with the `update_compensation_action` that follows, in memory and,
if the write succeeds, in the row, whose status `Recomputed` then derives. What
`resume` does besides is three steps: it gets the lease or raises, it executes
the failed nodes, and it succeeds or fails again and then compensates again,
under a new id that replaces the row. The status of the run, which compensation
writes ("compensating") and never reads, is left out. A *fault* is a crash, a failed write, or
an answer lost after its effect (a timeout, or a trace collector that raises);
`MaxFaults` bounds them. Simplifications: the order of handlers is left open;
the lease is the tenancy of `RunTenancy`, which only a dead call loses before it
gives it up (the theorems on `LeaseRenewal` say when that is so); every failure
of the run has the same candidates; an update of an action, which is a read and
a write of the row, is atomic, as it is among the calls of one process.

**`ToolApproval`** is one run that is interrupted: by the SDK (`native`), for
several tool calls and with a backend state, or by the governance pipeline, for
one and without. `approval` and `run` are the rows of the two SQLite stores. A
call is one invocation of `approve_and_resume`, `reject_approval`, `approve`,
`reject` or `resume` in a process, or the call that starts the run (`Runner`), and
its `pc` is the statement it comes to:

| `pc` | next |
|---|---|
| `create`, `save` | insert an approval, save the run (`Runner`) |
| `read`, `write`, `expire` | `SELECT` of the store's approve or reject, its `UPDATE` |
| `pending`, `rejected` | look at the next approval of the run |
| `close` | `mark_completed` after a rejection |
| `markFirst`, `decisions`, `backend`, `mark` | mark the run resumed, collect the decisions, run the model, mark it resumed |

In all of these but `backend` the call holds the event loop of its process, since
neither stores nor audit loggers await; that is `Busy`, and the reason why calls
of one process interleave only there. `Gate` is `ToolExecutor.execute` with every
verdict of its gates open. `executed` and `wrote` record what
happened. Left out: the rate limiter (a choice in `Begin`: a call need not be
made), sessions, streaming.

**`RolloutPromise`** says what a plan promises those who look at its status.
**`Rollout`** is `RolloutService` on one plan. A worker is a process in a call:
`worker[w].plan` is the copy it read, `pc` the statement it comes to, `Written`
the row it writes back. `attempts` counts how often the action of a step was
carried out, `done`, `skipped` and `voted` record what happened; they are what
the properties compare the rows with. A gate is a choice of verdict, an action a
choice of outcome, which includes failing after its effect. Left out: history,
events, permissions; `run_all_available` is a worker that
calls again.

**`Federation`** is `RolloutFederationService` on one federated plan, with the
requests of `FederationApprovalService`. It has the same shape; `child` are the
child rollouts, which move by `RolloutPromise!Advance` while a call waits for
them. Left out: who is authorised to decide, delegation, conflict detection, and
the administration of targets, except that a target may be disabled or missing at
any time.

**`AlertReplay`** is the retry daemon and `run_once` over the queue, the lock and
the idempotency records. `Daemons` have a worker id, `Shots` do not (`Owner`,
`Claimant`). `lapsed` in a row says that its lease is over; that it gets over
while its holder lives is bounded by `MaxSlow`. Each statement is an action
(`ReadLock`, `InsertLock`, `TakeLockOver`, ... `SelectItem`, `UpdateItem`). Left
out: pause and drain, the dead-letter policy, which only words a reason, metrics,
the Redis queue, and the delivery service called last, which has its own store.

**`MCDagRun`**, **`MCCompensation`**, **`MCToolApproval`**, **`MCRollout`** and
**`MCFederation`** give what a `.cfg` file cannot write: who calls what for which
run, small workflows, the order of steps, targets and waves, and the symmetry of
what is alike.

Every operator whose comment starts with "Mutant of" is a plausible bug; the
specifications do not use it. A property is kept only if such a change to the
code model violates it.

## The runs

All runs end in a few minutes.

| Run | Checks | Instance and why it is enough |
|---|---|---|
| `RunLease` | `GrantHonoured`, refinement of `RunTenancy` | 2 runs, 3 workers: one that lost the lease, one that has it, one that wants it; ttls 2 and 3, so that renewing lengthens and acquiring shortens a lease |
| `LeaseRenewal` | type, `LeaseKept`, `LossIsNoticed` (liveness) | ttls 12 and 11 against an interval of 4, the ratio of the defaults; a rival; renewals up to 9 seconds late, two more than they may be, so that leases are lost too |
| `DagTakeover` | type, `CompletedIsDone`, `NoLeaseAfterCall`, `NoOvertaking` | an execution and two resumptions of a chain of two nodes; leases may lapse; one crash or cancellation. Two resumptions are needed for one to take over from the other |
| `DagOutcomes` | `ReportedIsDone`, `DependenciesFirst` (action) | three nodes (a chain of two and one apart), conditions, a deadline, every outcome but interruption, keys on resume |
| `DagPunctual` | `OneExecutor`, `KeyUsedOnce` | an execution and two resumptions of one run, an execution of another under the same key, one crash or cancellation, renewals in time, snapshots on |
| `DagLive` | `RunFinishes` (liveness) | one node, three calls, one crash: a resumer survives |
| `Compensation` | type, `CompletedIsUndone`, `UndoneOnce`, `AttemptsBounded` | two nodes, so that one can be done and one not; two resumptions, so that one continues or replaces what the other left; two attempts; one fault |
| `ToolApproval` | type, `ExecutedWasApproved`, `DecisionsExclusive`, `ResumedOnce`, `ExecutedOnce`, `ResumeNotLost`, `RejectedStaysClosed` (action) | two requests, so that a decision on one meets a look at the other; three calls in two processes, so that two race and a third finds what they left; one crash; both kinds of interruption |
| `Rollout` | type, `ExecutedWasApproved`, `CarriedOutOnce`, `RejectionStands`, refinement of `RolloutPromise` | two steps, the second after the first, one with approval and one with a gate; two workers; a quorum of two of three users, the third being the requester; two approvals; two disturbances, so that a stale write can meet another |
| `Federation` | type, `CompletedMeansRolledOut`, `TargetsRolledOutOnce`, `WavesTakenUpInOrder`, `ActionsApproved` | two targets in two waves, against the order of the targets; two workers, two children, two requests, two disturbances |
| `AlertReplay` | type, `DeliveriesBounded`, `CompletedWasDelivered`, `OneLeaderAtATime`, `Handled` (liveness) | one daemon that is restarted, one `run_once`, one item; one refusal, one slow lease, one fault |
| `FederationWaves` | `NextWaveWaits` (violated) | one worker: no race is needed |

Deadlock is checked wherever time passes for ever. In `Compensation`,
`ToolApproval`, `Rollout`, `Federation` and `AlertReplay` the calls are bounded
and all may have ended, so it is not.

`UndoneOnce` and `AttemptsBounded` except histories in which a resume began
beside another active call (`overlapped`): nothing in the code keeps those
apart. `CompletedIsUndone` holds in them too. In the same way `CarriedOutOnce`,
`RejectionStands` and `TargetsRolledOutOnce` except histories with a `disturbance`
(two calls at a time, or a crash), `ExecutedOnce` two calls that resumed one run, `DeliveriesBounded` counts resets of a lease, `OneLeaderAtATime`
leases of the lock that were over, and `DecisionsExclusive` and `ResumedOnce` are
about one process: they say exactly what has to go wrong first.

Snapshots are off in `DagTakeover`, `DagOutcomes` and `DagLive`, and nodes are
not interrupted there, because with them the disagreements above refute
`ReportedIsDone`, `CompletedIsDone` and, in the case of `DagLive`, let a resume
return without touching the run. `NoLeaseAfterCall` holds without idempotency
keys on `execute` and fails with them, as said above.

Bounds. `MaxCrashes` bounds crashes and cancellations together (in `ToolApproval`
crashes of processes), `MaxFaults` the faults of `Compensation` and `AlertReplay`,
`MaxDelay` the lateness of a renewal, `MaxAttempts` the executions of a step (a
second one is what matters), `MaxDisturbances` overlapping calls and crashes,
`MaxRollouts` and `MaxRequests` the rows of a federation, `MaxRefusals` and
`MaxSlow` failed deliveries and lapsing leases; `Approvals` is the set of ids, and
so the bound on approvals; the other bounds are the numbers of calls, nodes and
seconds of a ttl in the `.cfg` files.

Fairness. `LeaseRenewal`: the renewal task and time go on, and a call that
stored its final status goes on; how long nodes take is left open. `DagRun`: a
call that can go on does, and time passes. Both are what an event loop and a
clock provide. That a caller asks again when its resume was refused is an
assumption about the caller (or about recovery, which scans periodically), and
without it no run whose executor died would finish. `AlertReplay`: a process that
runs goes on, since the loop catches what a run raises; a daemon that ended is
started again (`Restart=on-failure`,
`deploy/systemd/agent-app-daemon.service:42`); leases are times in the rows, so
they end. Nobody is assumed to call `run_once`, and no pause is in force. Crashes,
cancellations, renewals, decisions and lapses of the lease of a living process
are never assumed to happen.

## The proofs

TLAPS checks the proofs for every value of the constants.

`RunLeaseProofs`
- `TypeCorrect`: `LeaseTypeOK` (the runs of `LeaseRenewal` and `DagRun` check it as
  part of their types).
- `PromiseKept`: `GrantHonoured`, which is inductive together with the types: a
  grant is created with the entry it describes, both are counted down together,
  and whoever overwrites the entry needs the grant of everybody else to be 0,
  because the entry is expired, released, or their own.
- `MutualExclusion`: `OneHolder`, from `PromiseKept`: an entry has one owner. No run
  checks it beside the refinement below, of which it is a part.
- `ImplementsTenancy`: `RunLease` implements `RunTenancy`. A steal or a fresh
  acquisition moves a worker in, since nobody is live; a refresh or a renewal
  stutters; a release or a tick frees the runs whose lease ends.

`LeaseRenewalProofs`
- `RenewalTypeCorrect`: `RenewalTypeOK`.
- `RenewalKeepsLease`: `LeaseKept`, for all ttls, intervals and delays: while the
  renewer has had no reason to stop and its renewal is less than `Slack` late,
  the call holds a live lease. `LeaseKept` is not inductive, since it says
  nothing of how long the lease lasts; the invariant is that the lease outlives
  the timer by `Slack` (`AheadOfExpiry`), or the renewal is already `Slack` late.
- `NeverExpiresMidExecution`: if `MaxDelay < Slack` and the renewer does not read
  the run, then `LastsThroughout`: the lease lives from acquisition to the
  `finally` block. A ttl not above the interval, and a renewer that reads the
  status of the run, are what these hypotheses exclude; both occur in the code.
- `RenewalUsesLease`: the module implements `RunLease` and so `RunTenancy`: every
  step of the call, its renewer and the rival is one of the backend or none.
- `LoopOutlastsExecution`: while the call executes a run recorded as running, the
  loop is at work or has set `lease_lost` (`OnWatch`). This is the invariant
  behind the liveness property `LossIsNoticed`, which only TLC checks.

`DagRunProofs`
- `DagTypeCorrect`: `TypeOK`, strengthened by two facts on which it depends: a
  cancelled call saves no more snapshots, and a call that records a node is at
  one.
- `SingleExecutor`: with distinct workers and renewals in time, `OneExecutor`.
  The invariant is `HoldsLease`: each call at work holds the live lease of its
  run. It excludes a second one because every acquisition needs the lease to be
  free, expired or the worker's own. The proof has a lemma for the steps that
  leave leases alone, one for those that hand a lease over, and one for time.
- `NoLossInTime`: under the same hypotheses, `NeverLostInTime`, from
  `HoldsLease`: a renewal under a live lease does not fail. No run checks it.
- `CallsUseLease`: `DagRun` implements `RunLease`; calls touch the lease table
  through its operations only. So the theorems of `RunLeaseProofs` hold of it;
  `RunsAreTenancies` draws the conclusion that matters, that the executor as a
  whole, crashes and stale resumes included, implements `RunTenancy`.
- `TakeoverWaits`: `NoOvertaking`, without those hypotheses: who enters a run that
  another worker's call still executes waited for the last promise to it to
  expire. From `PromiseKept` through `CallsUseLease`.
- `CompletedRunsAreDone`: `CompletedIsDone`, if nodes are not interrupted (a resume
  takes an interrupted node for done with: `RerunNode`). The invariant
  (`OutcomeInv`): a call that has met no failure settled every node behind it, and
  a record or a plan calls a node completed only if it ran to completion. Histories
  only grow, so what other calls do meanwhile cannot make it false.
- `ReportsAreDone`: `ReportedIsDone`, also without node-level snapshots, which say
  "completed" while nodes are left, and from which `LoadRun` answers at once.
- `OneExecutionPerKey`: `KeyUsedOnce`, without hypotheses: who began reserved its key
  (`KeysReserved`), and looking it up and writing it are one step.
- `CallsLeaveNoLease`: `NoLeaseAfterCall`, for distinct workers and keys: a call
  outside its work has no live lease (`LeavesNothing`). Without `DistinctKeys` it is
  false: a rejected duplicate keeps the lease it has just acquired.
- `DependenciesRunFirst`: `DependenciesFirst`, without hypotheses; and
  `ExecutionsReportTruly`: what `execute` returns as completed is done, where
  `ReportsAreDone` needs no interruptions and no snapshots because `resume` does.
  Both rest on `AheadInv`, which is about one execution by itself: as long as it
  met no failure, every node behind it is in `done` or was ruled out by it, and
  what other calls do to the run only adds to `done`.
- `RecordsWrittenOnce`: no step changes a node record that is there, though a call
  that lost its lease goes on writing; `ReuseIsSound`: `resume` leaves out only
  nodes in `done`, though its plan is older than its lease. From `RecordInv`: a
  run has one execution, which is the only call that records nodes and has
  recorded none beyond the one it is at; records and plans say "completed" only
  of nodes in `done`. They tell how far the stale plan and the lost lease can do
  harm: nodes are repeated, none is left out and no record is taken back.

`CompensationProofs`
- `CompTypeCorrect`: `CompTypeOK`.
- `CompletedMeansUndone`: `CompletedIsUndone`, for any number of nodes, resumptions,
  attempts and faults, overlapping calls included. The invariant (`CompInv`) says
  that what is "completed" in the row or in a call's memory took effect under its
  compensation id (`Truthful`), and that a call in its loop has ended every action
  it will not start, except the one whose handler runs. The row may be overwritten
  by anybody; it stays true because effects are never lost.
- `UndoneOnceSerially`: `UndoneOnce`; `AttemptsBoundedSerially`: `AttemptsBounded`. Until
  a resume begins beside another call, one call is active at a time (`Serial`). Who
  repeats a handler found its action in the row, or in the copy it has of it,
  without a completion, and then a fault paid for every effect so far (`Paid`); the
  one action for which this does not hold is that of the handler at work (`AtHand`).
  A compensation has an id of its own (`CreatedInv`), so its counts start at 0.
- `HoldersAreAlone`: calls that execute nodes, or run the handlers of a compensation
  they created, are the one tenant of the run; `LeaseIsGivenBack`: the lease does
  not pass from one call to another without being free in between. `TenantInv`
  says on which side of the lease every place of a call is. What `resume` continues
  before it has the lease is on the other side, and that is where `UndoneOnce` has
  its exception.

`ToolApprovalProofs`
- `ApprovalTypeCorrect`: `ApprovalTypeOK`, from an invariant that also says what a
  call holds where it is (`Orderly`).
- `ApprovedBeforeExecution`: `ExecutedWasApproved`; `OneDecisionPerProcess`:
  `DecisionsExclusive`; `OneResumePerProcess`: `ResumedOnce`;
  `LastApproverResumes`: `ResumeNotLost`; `ClosedRunStaysClosed`:
  `RejectedStaysClosed`. They share one invariant, in layers. `Setup`: the requests
  exist before the run does, and a call past its first checks may rely on both.
  `Settlement`: one call at a time has the event loop of a process (`Alone`); who
  is about to write an approval somebody settled runs elsewhere (`WritersApart`);
  every status is somebody's decision (`Owned`). `Resumption`: what a call has
  seen of the requests while it looked through them (`Looked`), that it runs
  elsewhere than a call that already resumes (`ResumersApart`), and that with
  everything approved some call is on its way to resume (`SomeoneComes`): the last
  approver wrote its decision before it looks, so it finds nothing pending.
- `NothingRunsTwice`: `ExecutedOnce`. A call that executed a request has it no more on
  the list of tools it has still to run and has resumed the run (`Spent`), so each
  further execution has a call of its own (`Counted`); two calls that resume are of
  different processes, or one is `app.resume`, by `ResumedOnce`.

`RolloutProofs`
- `RolloutTypeCorrect`: `RolloutTypeOK`.
- `ImplementsPromise`: `Rollout` implements `RolloutPromise`. The invariant is that
  the row *and every copy in a call* are true: a step said to have succeeded is in
  `done`, a skipped one in `skipped`, and "completed" is said of complete plans
  only. `done` and `skipped` grow, so a stale copy stays true, and writing it back
  loses news but never tells lies.
- `QuorumBeforeExecution`: `ExecutedWasApproved`. The approvers in a row, and in a
  call about to write one, are different users who voted, none the requester
  (`voted` never shrinks, though a racing write takes approvers out of the row); an
  approved row had as many as it requires; a call that executes saw one.
- `CarriedOutOnceUndisturbed`: `CarriedOutOnce`; `RejectionStandsUndisturbed`:
  `RejectionStands`. Without a disturbance one call at a time is at work and its copy
  is the row, so the row, or what the call is about to write, tells which steps were
  carried out and which may not be (`CalmInv`).
- `EndedPlanStaysUndisturbed`: under the same condition the status of a completed,
  failed or cancelled plan does not change. A call starts, cancels or runs only a
  plan whose status allows it, and still finds it so when it writes (`TimelyInv`);
  requests and decisions leave an ended status alone. One overlapping pair of calls
  refutes it: a stale write makes a cancelled plan active again.

`FederationProofs`
- `FederationTypeCorrect`: `FederationTypeOK`.
- `CompletedIsRolledOut`: `CompletedMeansRolledOut`, by the truth of copies as for
  `Rollout`, a child's completion being what `RolloutPromise` makes of it.
- `ActionsAreApproved`: `ActionsApproved`: a call past the check has a request that
  was approved, and `approved` is never taken back.
- `WavesAreInOrder`: `WavesTakenUpInOrder`, for waves that may overlap: in the copy
  a call works on, whatever is not pending was taken up, and the wave it chose is
  the first with something pending.
- `OneRolloutPerTarget`: `TargetsRolledOutOnce`: without a disturbance a target that has
  a child is not pending in the row, and a call about to create one has set its target
  to running and found no child of it (`CalmInv`).

`AlertReplayProofs`
- `ReplayTypeCorrect`: `AlertReplayTypeOK`.
- `CompletedItemsWereDelivered`: `CompletedWasDelivered`: a "completed" record, and
  a call about to settle as "completed", come from a delivery or a dry run.
- `LockElectsOneLeader`: `OneLeaderAtATime`: while the lease of the lock was never
  over, whoever leads, or is about to delete the row, owns the row, and one of
  them does.
- `DeliveriesArePaidFor`: `DeliveriesBounded`, by counting. The right to deliver an
  item is a token: it lies in the queue, or with one process that claimed it, and
  a delivery uses it up; only a reset mints another. The invariant is that
  deliveries and tokens together are at most one more than the resets; it is
  stated over the finite set of processes with `Cardinality`.
- `OneHandlerUntilReset`, `SettledUntilReset`: until the lease of an item is reset, at
  most one process has it in its list or in hand, and a completed or failed item is
  not touched again, although acknowledge, fail and requeue check the status in one
  statement and write it in another. The invariant (`Sole`): who has an item has it
  alone, and its row says "claimed". After a reset neither holds, which is why
  `DeliveriesBounded` counts resets.

Every invariant and every action property of the runs that pass is proved. The
theorems that name no property of a run state an invariant or a step property of
their own. Only model-checked: liveness
(`LossIsNoticed`, `RunFinishes`, `Handled`), which is beyond the prover. What the
theorems about `DagRun` assume of the constants (distinct workers or keys, renewals
in time, no interruptions, no snapshots) is what the runs that check the same
property choose; without it the property is false, each time for the reason given.

The assumptions on constants are named `ASSUME`s in the modules that declare
them: ttls are positive (`LeasePolicy` demands it), nodes are numbered
topologically, calls have runs and workers, the approvals of an interruption
differ, steps and targets are sequences, a quorum is not empty, waves are not
empty, processes are finitely many.

## What is not covered

- The workflow store does not fail, and its methods are atomic. The exceptions
  that `execute` turns into "failed" snapshots are therefore not modelled.
- `DagRun` uses the in-memory lease backend, which is also what an atomic shared
  backend does. What the SQLite and Redis backends do differently is not
  modelled (`lease_redis_backend.py:60` rounds ttls down to whole seconds); nor is
  the backend "memory", which every executor builds anew.
- Compensation with the in-memory store, which every `DagExecutor` builds anew,
  so that a resume finds nothing; the order of handlers (`dag.py:3959` compares
  completion times as strings); updates of one row from two processes at once.
- Parallel mode (the order in which a batch is processed, `dag.py:2064`),
  subworkflows, if/else and switch nodes, and resume policies other than
  `retry_failed`.
- Outputs of nodes beyond whether there is one (`dag.py:873` reads them before the
  plan that decides to skip the node).
- Recovery (`recovery_service.py:190`) adds a scanner to the resumptions that
  `DagRun` has; `RetryResume` stands for it.
- In-memory stores of approvals, plans and federations: objects shared by
  reference, so that what a call sets before it saves is seen by others.
- Notification dispatch has no claim and no protocol between dispatchers; there is
  nothing to check but that messages are sent twice.
- Policy release, promotion and activation: the outcomes of rollout steps.
- Everything else listed as `not_modelled` in `PROJECT.json`: pure evaluation,
  presentation, configuration, I/O.

## Plan

Done: everything in the diagram above. Next, in this order; each item names its
abstract specification or main properties.

1. `DagParallel`: batches of `_execute_parallel`. Properties: a result for every
   node; "completed" only if every node completed or was ruled out; a deadline
   between two batches fails the run; the order in which a batch is processed
   does not change the result.
2. `StateStoreLease`, `SqliteLease`, `RedisLease`: caches, restarts, separate
   read and write. Each against `RunTenancy`, with the refinement proved where
   it holds.
3. `Recovery`: scanner and service on top of `RunLease`. Properties: recovery
   never resumes under somebody's live lease; its own double release is harmless.
4. `PolicyRelease`: the status machines that rollout steps move.
