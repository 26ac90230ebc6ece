------------------------------ MODULE Rollout ------------------------------
(***************************************************************************)
(* One rollout plan and the approvals of its steps: RolloutService of      *)
(* agent_app/runtime/policy_rollout_service.py over the SQLite stores of   *)
(* policy_rollout_store.py and policy_rollout_approval_store.py.           *)
(*                                                                         *)
(* Workers are processes (CLI calls, console, daemons) that share the      *)
(* databases.  A call reads the plan once, works, and writes the whole row *)
(* back; nothing tells it that the row changed meanwhile.  Every statement *)
(* on a store and every execution of a step is a step of the model.        *)
(* run_all_available is a worker that calls run_next_step again.           *)
(***************************************************************************)
EXTENDS Integers, FiniteSets, Sequences, SequencesExt

CONSTANTS Workers, Users,
          Steps,          \* the steps, in order
          Prev,           \* require_previous_step of each step, or NoStep
          NeedApproval,   \* steps with requires_approval
          Gated,          \* steps with a simulation gate
          NoStep,
          Approvals,      \* approval ids, the bound on approvals created
          NoApproval,
          Required,       \* required_approvals of the service's approval policy
          MaxAttempts,    \* bound on the executions of a step
          MaxDisturbances \* bound on calls begun while another runs, and crashes

StepSet == {Steps[i] : i \in DOMAIN Steps}

ASSUME RolloutAssumption ==
    /\ Steps \in Seq(StepSet) /\ Steps # <<>>
    /\ Prev \in [StepSet -> StepSet \cup {NoStep}]
    /\ NoStep \notin StepSet /\ NoApproval \notin Approvals
    /\ NeedApproval \subseteq StepSet /\ Gated \subseteq StepSet
    /\ {Required, MaxAttempts, MaxDisturbances} \subseteq Nat /\ Required > 0

VARIABLES
    plan,        \* the row of the plan: status, and status and approval_id of each step
    approval,    \* the rows of the approvals, in the order they were created
    worker,      \* the call every worker is in
    attempts,    \* history: how often the action of a step was carried out
    done,        \* history: steps whose action succeeded
    skipped,     \* history: steps their gate skipped
    voted,       \* history: users whose approve call recorded a decision
    disturbances \* history: how many calls began while another was running,
                 \* and how many processes died

vars == <<plan, approval, worker, attempts, done, skipped, voted, disturbances>>
histVars == <<attempts, done, skipped, voted>>

PlanStatuses == {"draft", "active", "completed", "failed", "cancelled"}
StepStatuses == {"pending", "succeeded", "failed", "skipped", "blocked"}
ApprovalStatuses == {"pending", "approved", "rejected", "expired"}
Plans == [status : PlanStatuses, step : [StepSet -> StepStatuses],
          approval : [StepSet -> Approvals \cup {NoApproval}]]
NewPlan == [status |-> "draft", step |-> [s \in StepSet |-> "pending"],
            approval |-> [s \in StepSet |-> NoApproval]]

\* Where a call is: what it does next.
Places == {"idle", "lookup", "create", "execute", "select", "update", "expire", "write"}
Idle == [pc |-> "idle", op |-> "none", user |-> "none", plan |-> NewPlan,
         step |-> NoStep, approval |-> NoApproval, approvers |-> <<>>, overdue |-> {},
         result |-> "pending"]

Row(a) == approval[CHOOSE i \in DOMAIN approval : approval[i].id = a]
Created == {approval[i].id : i \in DOMAIN approval}

RolloutTypeOK ==
    /\ plan \in Plans
    /\ \A i \in DOMAIN approval :
         /\ approval[i].id \in Approvals
         /\ approval[i].step \in NeedApproval
         /\ approval[i].status \in ApprovalStatuses
         /\ approval[i].required \in {1, Required}
         /\ approval[i].requester \in Users
         /\ \A k \in DOMAIN approval[i].approvers : approval[i].approvers[k] \in Users
         /\ approval[i].ttl \in {"none", "open", "passed"}
    /\ \A w \in Workers :
         /\ worker[w].pc \in Places
         /\ worker[w].plan \in Plans
         /\ worker[w].step \in StepSet \cup {NoStep}
         /\ worker[w].result \in StepStatuses \cup PlanStatuses
    /\ attempts \in [StepSet -> 0..MaxAttempts]
    /\ done \subseteq StepSet /\ skipped \subseteq StepSet
    /\ voted \in [Approvals -> SUBSET Users]
    /\ disturbances \in 0..MaxDisturbances

Init ==
    /\ plan = NewPlan
    /\ approval = <<>>
    /\ worker = [w \in Workers |-> Idle]
    /\ attempts = [s \in StepSet |-> 0]
    /\ done = {} /\ skipped = {}
    /\ voted = [a \in Approvals |-> {}]
    /\ disturbances = 0

----------------------------------------------------------------------------
(* Calls begin by reading the plan, or the approval and its plan.          *)
Enter(w, call) ==
    /\ worker[w].pc = "idle"
    /\ worker' = [worker EXCEPT ![w] = call]
    /\ \/ (\A v \in Workers : worker[v].pc = "idle") /\ UNCHANGED disturbances
       \/ /\ \E v \in Workers : worker[v].pc # "idle"
          /\ disturbances < MaxDisturbances
          /\ disturbances' = disturbances + 1
    /\ UNCHANGED <<plan, approval, histVars>>

Call(op, place) == [Idle EXCEPT !.pc = place, !.op = op, !.plan = plan]

\* _find_next_runnable_step.
PrevDone(p, s) == Prev[s] = NoStep \/ p.step[Prev[s]] = "succeeded"
Runnable(p) == {i \in DOMAIN Steps : p.step[Steps[i]] = "pending" /\ PrevDone(p, Steps[i])}
NextStep(p) == Steps[CHOOSE i \in Runnable(p) : \A j \in Runnable(p) : i <= j]

MayRun(p) == p.status = "active" /\ Runnable(p) # {}

Lookup(s) == IF s \in NeedApproval THEN "lookup" ELSE "execute"

\* run_next_step; the gate either lets the step pass or decides its status.
RunNext(w) ==
    /\ MayRun(plan)
    /\ LET s == NextStep(plan)
           call == [Call("run", Lookup(s)) EXCEPT !.step = s]
       IN  \/ Enter(w, call)
           \/ /\ s \in Gated
              /\ \E verdict \in {"blocked", "failed", "skipped"} :
                    Enter(w, [call EXCEPT !.pc = "write", !.op = "gate", !.result = verdict])

Start(w) ==
    /\ plan.status = "draft"
    /\ Enter(w, [Call("start", "write") EXCEPT !.result = "active"])

Cancel(w) ==
    /\ plan.status \in {"draft", "active"}
    /\ Enter(w, [Call("cancel", "write") EXCEPT !.result = "cancelled"])

\* Mutant of MayAsk: request_step_approval does not look at the step's status.
MayAskAlways(p, s) == s \in NeedApproval
MayAsk(p, s) == s \in NeedApproval /\ p.step[s] \in {"blocked", "pending"}

Request(w) ==
    \E s \in StepSet :
        /\ MayAsk(plan, s)
        /\ Enter(w, [Call("request", "lookup") EXCEPT !.step = s])

\* validate_decision, on the row approve_step and reject_step read first.
\* Mutant of MayDecide: the requester may decide.
RequesterMayDecide(row, u) ==
    row.status = "pending" /\ row.ttl # "passed" /\ ~Contains(row.approvers, u)
MayDecide(row, u) ==
    row.status = "pending" /\ row.ttl # "passed" /\ ~Contains(row.approvers, u) /\ u # row.requester

Decide(w, u) ==
    \E i \in DOMAIN approval, verdict \in {"approve", "reject"} :
        /\ MayDecide(approval[i], u)
        /\ Enter(w, [Call(verdict, "select") EXCEPT !.user = u, !.step = approval[i].step,
                                                    !.approval = approval[i].id])

\* expire_pending looks for the rows ...
Overdue == {a \in Created : Row(a).status = "pending" /\ Row(a).ttl = "passed"}
Sweep(w) ==
    /\ Overdue # {}
    /\ Enter(w, [Idle EXCEPT !.pc = "expire", !.overdue = Overdue])

----------------------------------------------------------------------------
(* Further statements of a call.                                           *)
At(w, place) == worker[w].pc = place
Goto(w, call) == worker' = [worker EXCEPT ![w] = call]
Return(w) == Goto(w, Idle)
Result(w, a, status) ==
    Goto(w, [worker[w] EXCEPT !.pc = "write", !.approval = a, !.result = status])

Pending(s) == {a \in Created : Row(a).step = s /\ Row(a).status = "pending"}

\* The approval _execute_step finds: that of the step, else a pending one.
Existing(w) ==
    LET c == worker[w] IN
    IF c.op = "run" /\ c.plan.approval[c.step] # NoApproval
      THEN {c.plan.approval[c.step]} ELSE Pending(c.step)

\* Mutant of Sanctions: an approval that was not rejected is enough.
NotRejected(a) == Row(a).status # "rejected"
Sanctions(a) == Row(a).status = "approved"

LookUpApproval(w) ==
    /\ At(w, "lookup")
    /\ UNCHANGED <<plan, approval, histVars, disturbances>>
    /\ \/ Existing(w) = {} /\ Goto(w, [worker[w] EXCEPT !.pc = "create"])
       \/ \E a \in Existing(w) :
             IF worker[w].op = "request" THEN Return(w)
             ELSE \/ Sanctions(a) /\ Goto(w, [worker[w] EXCEPT !.pc = "execute"])
                  \/ ~Sanctions(a) /\ Row(a).status = "rejected" /\ Result(w, a, "failed")
                  \/ ~Sanctions(a) /\ Row(a).status # "rejected" /\ Result(w, a, "blocked")

\* request_step_approval applies the policy of the service, with its expiry;
\* an approval that _execute_step creates has the default policy.
NewApproval(w, a, u) ==
    [id |-> a, step |-> worker[w].step, status |-> "pending", requester |-> u,
     required |-> IF worker[w].op = "request" THEN Required ELSE 1,
     ttl |-> IF worker[w].op = "request" THEN "open" ELSE "none",
     approvers |-> <<>>]

CreateApproval(w) ==
    /\ At(w, "create")
    /\ \E a \in Approvals \ Created, u \in Users :
          /\ approval' = Append(approval, NewApproval(w, a, u))
          /\ Result(w, a, "blocked")
    /\ UNCHANGED <<plan, histVars, disturbances>>

\* The action of the step.  It may fail before or after it had an effect.
Execute(w) ==
    LET s == worker[w].step IN
    /\ At(w, "execute")
    /\ \/ /\ attempts[s] < MaxAttempts
          /\ attempts' = [attempts EXCEPT ![s] = @ + 1]
          /\ \/ done' = done \cup {s} /\ Result(w, NoApproval, "succeeded")
             \/ done' = done /\ Result(w, NoApproval, "failed")
       \/ UNCHANGED <<attempts, done>> /\ Result(w, NoApproval, "failed")
    /\ UNCHANGED <<plan, approval, skipped, voted, disturbances>>

\* add_decision reads the row again ...
SelectApproval(w) ==
    LET row == Row(worker[w].approval) IN
    /\ At(w, "select")
    /\ IF row.status = "pending" /\ ~Contains(row.approvers, worker[w].user)
         THEN Goto(w, [worker[w] EXCEPT !.pc = "update", !.approvers = row.approvers])
         ELSE Return(w)
    /\ UNCHANGED <<plan, approval, histVars, disturbances>>

\* ... and writes it with one more decision.
\* Mutant of Evaluated: the decision is stored, not the status.
EvaluatedVerb(op, n, required) == IF n >= required THEN op ELSE "pending"
Evaluated(op, n, required) ==
    IF op = "reject" THEN "rejected" ELSE IF n >= required THEN "approved" ELSE "pending"

UpdateApproval(w) ==
    LET c == worker[w]
        now == IF c.op = "approve" THEN Append(c.approvers, c.user) ELSE c.approvers
        verdict == Evaluated(c.op, Len(now), Row(c.approval).required)
    IN
    /\ At(w, "update")
    /\ approval' = [i \in DOMAIN approval |->
                      IF approval[i].id # c.approval THEN approval[i]
                      ELSE [approval[i] EXCEPT !.approvers = now,
                              !.status = IF verdict = "pending" THEN @ ELSE verdict]]
    /\ voted' = IF c.op = "approve" THEN [voted EXCEPT ![c.approval] = @ \cup {c.user}] ELSE voted
    /\ CASE verdict = "rejected" -> Goto(w, [c EXCEPT !.pc = "write", !.result = "failed"])
         [] verdict = "approved" /\ c.plan.step[c.step] = "blocked"
              -> Goto(w, [c EXCEPT !.pc = "write", !.result = "pending"])
         [] OTHER -> Return(w)
    /\ UNCHANGED <<plan, attempts, done, skipped, disturbances>>

\* ... and marks them, whatever they are by then.
ExpireApproval(w) ==
    /\ At(w, "expire")
    /\ approval' = [i \in DOMAIN approval |->
                      IF approval[i].id \notin worker[w].overdue THEN approval[i]
                      ELSE [approval[i] EXCEPT !.status = "expired"]]
    /\ Return(w)
    /\ UNCHANGED <<plan, histVars, disturbances>>

----------------------------------------------------------------------------
(* A call ends by writing its copy of the plan back, with its change.      *)
All(p, statuses) == \A s \in StepSet : p.step[s] \in statuses

\* Mutant of StatusAfter: the plan completes as soon as nothing is pending.
StatusAfterDrained(call, p) ==
    IF call.op \in {"gate", "run"} /\ All(p, StepStatuses \ {"pending"}) THEN "completed"
    ELSE IF call.op \in {"start", "cancel"} THEN call.result ELSE p.status
StatusAfter(call, p) ==
    CASE call.op \in {"start", "cancel"} -> call.result
      [] call.op \in {"gate", "run"} /\ call.result = "failed" -> "failed"
      [] call.op = "gate" /\ call.result = "skipped" /\ All(p, {"succeeded", "skipped"}) -> "completed"
      [] call.op = "run" /\ All(p, {"succeeded"}) -> "completed"
      [] call.op = "reject" /\ p.status = "active" -> "failed"
      [] OTHER -> p.status

\* The row a call writes: its copy, with the step's status and approval_id.
Written(call) ==
    LET names == call.op \in {"run", "request"} /\ call.approval # NoApproval
        p == IF call.step = NoStep THEN call.plan
             ELSE [call.plan EXCEPT !.step[call.step] = call.result,
                                    !.approval[call.step] = IF names THEN call.approval ELSE @]
    IN  [p EXCEPT !.status = StatusAfter(call, p)]

WritePlan(w) ==
    LET c == worker[w] IN
    /\ At(w, "write")
    /\ plan' = Written(c)
    /\ skipped' = IF c.op = "gate" /\ c.result = "skipped" THEN skipped \cup {c.step} ELSE skipped
    /\ Return(w)
    /\ UNCHANGED <<approval, attempts, done, voted, disturbances>>

\* The process dies before the plan is written; what it wrote so far stays.
\* Dying before any write is not told apart from never having called.
Crash(w) ==
    /\ At(w, "write") /\ worker[w].op \in {"run", "request", "approve", "reject"}
    /\ disturbances < MaxDisturbances
    /\ disturbances' = disturbances + 1
    /\ Return(w)
    /\ UNCHANGED <<plan, approval, histVars>>

\* The expires_at of a pending approval passes.
TimePasses ==
    /\ \E i \in DOMAIN approval :
          /\ approval[i].status = "pending" /\ approval[i].ttl = "open"
          /\ approval' = [approval EXCEPT ![i].ttl = "passed"]
    /\ UNCHANGED <<plan, worker, histVars, disturbances>>

Next ==
    \/ \E w \in Workers :
          \/ Start(w) \/ RunNext(w) \/ Cancel(w) \/ Request(w) \/ Sweep(w)
          \/ \E u \in Users : Decide(w, u)
          \/ LookUpApproval(w) \/ CreateApproval(w) \/ Execute(w) \/ SelectApproval(w)
          \/ UpdateApproval(w) \/ ExpireApproval(w) \/ WritePlan(w) \/ Crash(w)
    \/ TimePasses

Spec == Init /\ [][Next]_vars

----------------------------------------------------------------------------
(* Properties.                                                             *)

\* A step that requires approval is carried out only after as many users as
\* one of its approvals asks for, none of them its requester, approved it;
\* whatever calls interleave and whatever their stale writes restore.
ExecutedWasApproved ==
    \A s \in NeedApproval : attempts[s] > 0 =>
        \E i \in DOMAIN approval :
            /\ approval[i].step = s
            /\ \E S \in SUBSET (voted[approval[i].id] \ {approval[i].requester}) :
                  Cardinality(S) = approval[i].required

\* Calls made one after another carry a step out once, however often it is
\* requested, approved and run; a second time takes two overlapping calls, of
\* which one writes an old copy of the plan, or a crash before the write.
CarriedOutOnce == \A s \in StepSet : attempts[s] > 1 => disturbances > 0

\* A rejection stands: unless calls overlap or one dies half way, no later
\* request, approval or start has the rejected step carried out.
RejectionStands ==
    \A i \in DOMAIN approval :
        approval[i].status = "rejected" /\ attempts[approval[i].step] > 0
            => disturbances > 0

\* The plan keeps the promise of RolloutPromise, stale writes and crashes
\* included: COMPLETED is written only when every step has succeeded or was
\* skipped, and steps succeed in order.
Promise == INSTANCE RolloutPromise WITH
    Steps <- StepSet, status <- plan.status, done <- done, skipped <- skipped
KeepsPromise == Promise!Spec

\* What request_step_approval says of the service's policy: a step is carried
\* out only when as many users as the configured policy requires approved it.
QuorumOfService ==
    \A s \in NeedApproval : attempts[s] > 0 =>
        \E i \in DOMAIN approval :
            approval[i].step = s /\ Cardinality(voted[approval[i].id]) >= Required
=============================================================================
