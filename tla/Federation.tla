----------------------------- MODULE Federation -----------------------------
(***************************************************************************)
(* A federated rollout: RolloutFederationService of agent_app/runtime/     *)
(* policy_rollout_federation_service.py, which rolls a bundle out to one   *)
(* target after the other, each by a child rollout plan, and the requests  *)
(* of FederationApprovalService that its actions may need.                 *)
(*                                                                         *)
(* Workers are processes that share the SQLite stores; every statement on  *)
(* a store is a step.  A child rollout is known only by what RolloutPromise *)
(* says of it: whoever works on it, it moves as that specification allows. *)
(* run_all_available is a worker that calls run_next_target again.         *)
(***************************************************************************)
EXTENDS Integers, FiniteSets, Sequences

CONSTANTS Workers,
          Targets,         \* the targets of the plan, in order
          Waves,           \* the sets of targets of its waves, in order; <<>> if
                           \* the strategy is not WAVE
          RequireAll,      \* require_all_successful of each wave
          ChildSteps,      \* the steps of a child rollout
          NoStep, NoTarget,
          RequireFor,      \* the actions require_approval_for names
          MaxRollouts,     \* bound on child rollouts
          MaxRequests,     \* bound on approval requests
          MaxDisturbances  \* bound on calls begun while another runs, and crashes

TargetSet == {Targets[i] : i \in DOMAIN Targets}
Actions == {"start", "run_next", "cancel"}

ASSUME FederationAssumption ==
    /\ Targets \in Seq(TargetSet) /\ Targets # <<>> /\ NoTarget \notin TargetSet
    /\ Waves \in Seq((SUBSET TargetSet) \ {{}})
    /\ DOMAIN RequireAll = DOMAIN Waves
    /\ RequireFor \subseteq Actions
    /\ {MaxRollouts, MaxRequests, MaxDisturbances} \subseteq Nat

VARIABLES
    plan,        \* the row of the federated plan: its status and its executions
    child,       \* the child rollouts that were created
    request,     \* the approval requests, oldest first
    worker,      \* the call every worker is in
    tried,       \* history: targets whose execution was taken up
    carried,     \* history: actions that changed the plan
    disturbances \* history: calls that began while another was running, crashes

vars == <<plan, child, request, worker, tried, carried, disturbances>>

PlanStatuses == {"draft", "active", "completed", "failed", "cancelled", "blocked"}
ExecStatuses == {"pending", "running", "succeeded", "failed", "blocked", "skipped", "cancelled"}
RequestStatuses == {"pending", "approved", "rejected", "expired", "escalated", "cancelled"}
Plans == [status : PlanStatuses, exec : [TargetSet -> ExecStatuses]]
NewPlan == [status |-> "draft", exec |-> [t \in TargetSet |-> "pending"]]

Rollouts == 1..MaxRollouts
ChildStatuses == {"draft", "active", "completed", "failed", "cancelled"}
NoChild == [target |-> NoTarget, status |-> "draft", done |-> {}, skipped |-> {}]
CreatedRollouts == {r \in Rollouts : child[r].target # NoTarget}

Places == {"idle", "approval", "ask", "read", "running", "create", "child", "write", "decide"}
Idle == [pc |-> "idle", op |-> "none", request |-> 0,
         plan |-> NewPlan, target |-> NoTarget, rollout |-> 0, result |-> "none"]

FederationTypeOK ==
    /\ plan \in Plans
    /\ \A r \in Rollouts :
         /\ child[r].target \in TargetSet \cup {NoTarget}
         /\ child[r].status \in ChildStatuses
         /\ child[r].done \subseteq ChildSteps /\ child[r].skipped \subseteq ChildSteps
    /\ \A i \in DOMAIN request :
         /\ request[i].action \in Actions
         /\ request[i].status \in RequestStatuses
         /\ request[i].approved \in BOOLEAN
    /\ \A w \in Workers :
         /\ worker[w].pc \in Places
         /\ worker[w].plan \in Plans
         /\ worker[w].result \in ExecStatuses \cup {"none"}
    /\ tried \subseteq TargetSet /\ carried \subseteq Actions
    /\ disturbances \in 0..MaxDisturbances

Init ==
    /\ plan = NewPlan
    /\ child = [r \in Rollouts |-> NoChild]
    /\ request = <<>>
    /\ worker = [w \in Workers |-> Idle]
    /\ tried = {} /\ carried = {}
    /\ disturbances = 0

----------------------------------------------------------------------------
(* Approval requests.  Whom _is_authorized_approver lets decide is left    *)
(* out; somebody can.  request.approved is history.                        *)
At(w, place) == worker[w].pc = place
Goto(w, call) == worker' = [worker EXCEPT ![w] = call]
Return(w) == Goto(w, Idle)

Enter(w, call) ==
    /\ At(w, "idle")
    /\ Goto(w, call)
    /\ \/ (\A v \in Workers : At(v, "idle")) /\ UNCHANGED disturbances
       \/ /\ \E v \in Workers : ~At(v, "idle")
          /\ disturbances < MaxDisturbances
          /\ disturbances' = disturbances + 1

NewRequest(action) ==
    [action |-> action, status |-> "pending", approved |-> FALSE]
Requests(action) == {i \in DOMAIN request : request[i].action = action}
Latest(action) == CHOOSE i \in Requests(action) : \A j \in Requests(action) : j <= i

\* create_approval_request, by an operator.
Ask(w) ==
    /\ At(w, "idle")
    /\ Len(request) < MaxRequests
    /\ \E action \in RequireFor : request' = Append(request, NewRequest(action))
    /\ UNCHANGED <<plan, child, worker, tried, carried, disturbances>>

\* approve, reject, escalate, cancel and expire_pending look at the row ...
Admits(op, i) ==
    CASE op \in {"approve", "reject"} -> request[i].status \in {"pending", "escalated"}
      [] op \in {"escalate", "expire"} -> request[i].status = "pending"
      [] op = "withdraw" -> TRUE

Decide(w) ==
    \E i \in DOMAIN request, op \in {"approve", "reject", "escalate", "withdraw", "expire"} :
        /\ Admits(op, i)
        /\ Enter(w, [Idle EXCEPT !.pc = "decide", !.op = op, !.request = i])
        /\ UNCHANGED <<plan, child, request, tried, carried>>

\* ... and then write it, whatever it is by then.
\* Mutant of Decided: a withdrawal is stored as the verb.
DecidedVerb(op) ==
    CASE op = "approve" -> "approved"   [] op = "reject" -> "rejected"
      [] op = "escalate" -> "escalated" [] op = "expire" -> "expired"
      [] op = "withdraw" -> op
Decided(op) ==
    CASE op = "approve" -> "approved"   [] op = "reject" -> "rejected"
      [] op = "escalate" -> "escalated" [] op = "expire" -> "expired"
      [] op = "withdraw" -> "cancelled"

WriteDecision(w) ==
    LET c == worker[w] IN
    /\ At(w, "decide")
    /\ request' = [request EXCEPT ![c.request].status = Decided(c.op),
                                 ![c.request].approved = @ \/ c.op = "approve"]
    /\ Return(w)
    /\ UNCHANGED <<plan, child, tried, carried, disturbances>>

\* An action of the service begins with _check_approval.
Begin(w) ==
    \E action \in Actions :
        /\ Enter(w, [Idle EXCEPT !.op = action,
                                 !.pc = IF action \in RequireFor THEN "approval" ELSE "read"])
        /\ UNCHANGED <<plan, child, request, tried, carried>>

\* Mutant of Blocks: only a rejection stops the action.
RejectedBlocks(i) == request[i].status = "rejected"
Blocks(i) == request[i].status # "approved"

CheckApproval(w) ==
    LET action == worker[w].op
        found == Requests(action)
    IN
    /\ At(w, "approval")
    /\ \/ found = {} /\ Goto(w, [worker[w] EXCEPT !.pc = "ask"])
       \/ found # {} /\ Blocks(Latest(action)) /\ Return(w)
       \/ found # {} /\ ~Blocks(Latest(action)) /\ Goto(w, [worker[w] EXCEPT !.pc = "read"])
    /\ UNCHANGED <<plan, child, request, tried, carried, disturbances>>

AskAndReturn(w) ==
    /\ At(w, "ask")
    /\ Len(request) < MaxRequests
    /\ request' = Append(request, NewRequest(worker[w].op))
    /\ Return(w)
    /\ UNCHANGED <<plan, child, tried, carried, disturbances>>

----------------------------------------------------------------------------
(* The federated plan.                                                     *)
\* _next_execution_index: the set of the next target, or the empty set.
\* Mutant of Pending: a target that was left running is taken up again.
NotDone(p, S) ==
    {i \in DOMAIN Targets : Targets[i] \in S /\ p.exec[Targets[i]] \in {"pending", "running"}}
Pending(p, S) == {i \in DOMAIN Targets : Targets[i] \in S /\ p.exec[Targets[i]] = "pending"}
First(I) == {Targets[i] : i \in {j \in I : \A k \in I : j <= k}}
OpenWaves(p) == {k \in DOMAIN Waves : Pending(p, Waves[k]) # {}}
Halted(p, k) == RequireAll[k] /\ \E t \in Waves[k] : p.exec[t] \in {"failed", "blocked"}

\* Mutant of NextTarget: the strategy is not looked at.
NextSequential(p) == First(Pending(p, TargetSet))
NextTarget(p) ==
    IF Waves = <<>> THEN First(Pending(p, TargetSet))
    ELSE UNION {First(Pending(p, Waves[k])) :
                  k \in {j \in OpenWaves(p) : ~Halted(p, j) /\ \A i \in OpenWaves(p) : j <= i}}

\* _plan_status_from_executions.
\* Mutant of StatusOf: a target that waits for someone counts as done.
StatusIgnoringBlocked(exec) ==
    CASE \A t \in TargetSet : exec[t] \in {"succeeded", "skipped", "blocked"} -> "completed"
      [] \E t \in TargetSet : exec[t] = "failed" -> "failed"
      [] OTHER -> "active"
StatusOf(exec) ==
    IF \A t \in TargetSet : exec[t] \in {"succeeded", "skipped"} THEN "completed"
    ELSE IF \E t \in TargetSet : exec[t] = "failed" THEN "failed"
    ELSE IF \E t \in TargetSet : exec[t] = "blocked" THEN "blocked"
    ELSE "active"

\* The plan is read once; a target is enabled, disabled or missing by now.
ReadPlan(w) ==
    LET c == [worker[w] EXCEPT !.plan = plan] IN
    /\ At(w, "read")
    /\ CASE c.op = "start" /\ plan.status = "draft" -> Goto(w, [c EXCEPT !.pc = "write"])
         [] c.op = "cancel" -> Goto(w, [c EXCEPT !.pc = "write"])
         [] c.op = "run_next" /\ plan.status = "active" /\ NextTarget(plan) # {} ->
              \E t \in NextTarget(plan) :
                 \/ Goto(w, [c EXCEPT !.pc = "running", !.target = t])
                 \/ \E result \in {"skipped", "blocked"} :
                      Goto(w, [c EXCEPT !.pc = "write", !.target = t, !.result = result])
         [] OTHER -> Return(w)
    /\ UNCHANGED <<plan, child, request, tried, carried, disturbances>>

MarkRunning(w) ==
    LET c == worker[w]
        marked == [c.plan EXCEPT !.exec[c.target] = "running"]
    IN
    /\ At(w, "running")
    /\ plan' = marked
    /\ Goto(w, [c EXCEPT !.pc = "create", !.plan = marked])
    /\ tried' = tried \cup {c.target} /\ carried' = carried \cup {c.op}
    /\ UNCHANGED <<child, request, disturbances>>

CreateChild(w) ==
    /\ At(w, "create")
    /\ \E r \in Rollouts \ CreatedRollouts :
         /\ \A q \in Rollouts \ CreatedRollouts : r <= q
         /\ child' = [child EXCEPT ![r].target = worker[w].target]
         /\ Goto(w, [worker[w] EXCEPT !.pc = "child", !.rollout = r])
    /\ UNCHANGED <<plan, request, tried, carried, disturbances>>

\* The child rollout moves while the call waits for it.  Only moves that the
\* federation can tell apart are taken: it sees "cancelled" as "active", and a
\* skipped step of a completed child as one that is done.
Child(r) == INSTANCE RolloutPromise WITH
    Steps <- ChildSteps, Prev <- [s \in ChildSteps |-> NoStep],
    status <- child[r].status, done <- child[r].done, skipped <- child[r].skipped

MoveChild(w) ==
    /\ At(w, "child")
    /\ \E r \in {worker[w].rollout}, st \in {"active", "completed", "failed"},
          d \in SUBSET ChildSteps :
         /\ child' = [child EXCEPT ![r].status = st, ![r].done = d]
         /\ Child(r)!Advance
    /\ UNCHANGED <<plan, request, worker, tried, carried, disturbances>>

\* _execution_status_from_child: unless the child completed or failed, it has a
\* blocked step or it has not.
ChildReturns(w) ==
    LET status == child[worker[w].rollout].status
        results == CASE status = "completed" -> {"succeeded"} [] status = "failed" -> {"failed"}
                     [] OTHER -> {"blocked", "running"}
    IN
    /\ At(w, "child")
    /\ \E result \in results : Goto(w, [worker[w] EXCEPT !.pc = "write", !.result = result])
    /\ UNCHANGED <<plan, child, request, tried, carried, disturbances>>

\* The child service raises, and with it the call.
ChildRaises(w) ==
    /\ At(w, "create") \/ At(w, "child")
    /\ Return(w)
    /\ UNCHANGED <<plan, child, request, tried, carried, disturbances>>

Written(c) ==
    CASE c.op = "start" -> [c.plan EXCEPT !.status = "active"]
      [] c.op = "cancel" ->
           [status |-> "cancelled",
            exec |-> [t \in TargetSet |-> IF c.plan.exec[t] \in {"pending", "running"}
                                          THEN "cancelled" ELSE c.plan.exec[t]]]
      [] c.op = "run_next" ->
           LET exec == [c.plan.exec EXCEPT ![c.target] = c.result]
           IN  [status |-> StatusOf(exec), exec |-> exec]

WritePlan(w) ==
    LET c == worker[w] IN
    /\ At(w, "write")
    /\ plan' = Written(c)
    /\ tried' = IF c.op = "run_next" THEN tried \cup {c.target} ELSE tried
    /\ carried' = carried \cup {c.op}
    /\ Return(w)
    /\ UNCHANGED <<child, request, disturbances>>

\* The process dies in a call that has written something.
Crash(w) ==
    /\ worker[w].op = "run_next" /\ worker[w].pc \in {"create", "child", "write"}
    /\ disturbances < MaxDisturbances
    /\ disturbances' = disturbances + 1
    /\ Return(w)
    /\ UNCHANGED <<plan, child, request, tried, carried>>

Next == \E w \in Workers :
    \/ Ask(w) \/ Decide(w) \/ WriteDecision(w)
    \/ Begin(w) \/ CheckApproval(w) \/ AskAndReturn(w) \/ ReadPlan(w)
    \/ MarkRunning(w) \/ CreateChild(w) \/ MoveChild(w) \/ ChildReturns(w) \/ ChildRaises(w)
    \/ WritePlan(w) \/ Crash(w)

Spec == Init /\ [][Next]_vars

----------------------------------------------------------------------------
(* Properties.                                                             *)

\* A federated plan is COMPLETED only when every target was skipped or has a
\* child rollout all of whose steps succeeded or were skipped; stale writes,
\* crashes and calls on the same target included.
CompletedMeansRolledOut ==
    plan.status = "completed" =>
        \A t \in TargetSet :
            \/ plan.exec[t] = "skipped"
            \/ \E r \in CreatedRollouts : /\ child[r].target = t
                                          /\ child[r].done \cup child[r].skipped = ChildSteps

\* A target gets a second child rollout only where calls overlapped or a process
\* died: an error, a refusal, a cancellation or a child that is left blocked or
\* running is no way back (policy_rollout_federation_service.py:689-971).
TargetsRolledOutOnce ==
    \A q, r \in CreatedRollouts :
        q # r /\ child[q].target = child[r].target => disturbances > 0

\* No target gets a child rollout before every target of the waves that come
\* before its own, the first one that names it, was taken up.
Before(k) == UNION {Waves[j] : j \in 1..(k - 1)}
WavesTakenUpInOrder ==
    \A k \in DOMAIN Waves, r \in CreatedRollouts :
        child[r].target \in Waves[k] \ Before(k) => Before(k) \subseteq tried

\* An action that needs approval changes the plan only after a request for it
\* was approved, whatever becomes of that request later.
ActionsApproved ==
    \A action \in carried \cap RequireFor :
        \E i \in Requests(action) : request[i].approved

\* What docs/policy_release.md says of the wave strategy: a target of a wave is
\* started only when, as far as the call knows, every target of the earlier waves
\* with require_all_successful has succeeded or was skipped.
NextWaveWaits ==
    \A w \in Workers, k \in DOMAIN Waves :
        At(w, "create") /\ worker[w].target \in Waves[k] =>
            \A j \in 1..(k - 1) : RequireAll[j] =>
                \A t \in Waves[j] : worker[w].plan.exec[t] \in {"succeeded", "skipped"}
=============================================================================
