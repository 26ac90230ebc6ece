-------------------------- MODULE FederationProofs --------------------------
(***************************************************************************)
(* A federated rollout, proved for any number of processes, targets,       *)
(* waves, child rollouts, requests and crashes.                            *)
(***************************************************************************)
EXTENDS Federation, WellFoundedInduction, TLAPS

ChildRecs == [target : TargetSet \cup {NoTarget}, status : ChildStatuses,
              done : SUBSET ChildSteps, skipped : SUBSET ChildSteps]
RequestRecs == [action : Actions, status : RequestStatuses, approved : BOOLEAN]
DecisionOps == {"approve", "reject", "escalate", "withdraw", "expire"}
CallRecs == [pc : Places, op : Actions \cup DecisionOps \cup {"none"}, request : Nat, plan : Plans,
             target : TargetSet \cup {NoTarget}, rollout : Nat, result : ExecStatuses \cup {"none"}]

TypedData ==
    /\ plan \in Plans
    /\ child \in [Rollouts -> ChildRecs]
    /\ request \in Seq(RequestRecs)
    /\ tried \subseteq TargetSet /\ carried \subseteq Actions
    /\ disturbances \in 0..MaxDisturbances

\* What a call holds fits where it is.
InAction == {"approval", "ask", "read", "running", "create", "child", "write"}
Orderly(c) ==
    /\ c \in CallRecs
    /\ c.pc \in InAction => c.op \in Actions
    /\ c.pc = "decide" => c.op \in DecisionOps
    /\ c.pc \in {"running", "create", "child"} => c.op = "run_next" /\ c.target \in TargetSet
    /\ c.pc = "write" /\ c.op = "run_next" => c.target \in TargetSet /\ c.result \in ExecStatuses
TypedWorkers ==
    /\ worker = [w \in Workers |-> worker[w]]
    /\ \A w \in Workers : Orderly(worker[w])
FederationInv == TypedData /\ TypedWorkers

LEMMA NewPlanType == NewPlan \in Plans
BY DEF NewPlan, Plans, PlanStatuses, ExecStatuses

LEMMA IdleType == Idle \in CallRecs
BY NewPlanType DEF Idle, CallRecs, Places

LEMMA InitFederationInv == ASSUME FederationAssumption, Init PROVE FederationInv
<1>1. child \in [Rollouts -> ChildRecs]
  BY DEF Init, NoChild, ChildRecs, ChildStatuses
<1>2. disturbances \in 0..MaxDisturbances
  BY DEF Init, FederationAssumption
<1>3. TypedData
  BY <1>1, <1>2, NewPlanType DEF Init, TypedData
<1>4. Orderly(Idle)
  BY IdleType DEF Orderly, Idle, InAction
<1> QED
  BY <1>3, <1>4 DEF Init, TypedWorkers, FederationInv

LEMMA Moved ==
    ASSUME NEW w \in Workers, NEW c, TypedWorkers, Goto(w, c), Orderly(c)
    PROVE  TypedWorkers' /\ worker'[w] = c /\ \A v \in Workers \ {w} : worker'[v] = worker[v]
<1>1. worker' = [v \in Workers |-> worker'[v]]
  BY DEF TypedWorkers, Goto
<1>2. worker'[w] = c /\ \A v \in Workers \ {w} : worker'[v] = worker[v]
  BY DEF TypedWorkers, Goto
<1> QED
  BY <1>1, <1>2 DEF TypedWorkers

LEMMA NatHasLeast ==
    ASSUME NEW S \in SUBSET Nat, S # {} PROVE \E x \in S : \A y \in S : x <= y
<1> DEFINE R == {ss \in Nat \X Nat : ss[1] < ss[2]}
<1>1. IsWellFoundedOn(R, Nat)
  BY NatLessThanWellFounded, Zenon DEF OpToRel
<1> HIDE DEF R
<1>2. PICK x \in S : \A y \in S : ~ (<<y, x>> \in R)
  BY <1>1, WFMin
<1>3. \A y \in S : ~ (y < x)
  BY <1>2 DEF R
<1> QED
  BY <1>3

(* The latest of the requests there are is one of them.                    *)
LEMMA LatestIsRequest ==
    ASSUME TypedData, NEW action, Requests(action) # {}
    PROVE  Latest(action) \in Requests(action)
<1> DEFINE n == Len(request)
           S == {m \in Nat : n - m \in Requests(action)}
<1>1. n \in Nat /\ Requests(action) \subseteq 1..n
  BY DEF TypedData, Requests
<1>2. S # {}
  <2>1. PICK i \in Requests(action) : i \in 1..n
    BY <1>1
  <2>2. n - i \in Nat /\ n - (n - i) = i
    BY <1>1, <2>1
  <2> QED
    BY <2>1, <2>2
<1>3. PICK m \in S : \A k \in S : m <= k
  <2>1. S \in SUBSET Nat
    OBVIOUS
  <2> HIDE DEF S
  <2> QED
    BY <1>2, <2>1, NatHasLeast
<1>4. ASSUME NEW j \in Requests(action) PROVE j <= n - m
  <2>1. j \in 1..n
    BY <1>1
  <2>2. n - j \in Nat /\ n - (n - j) = j
    BY <1>1, <2>1
  <2>3. m <= n - j
    BY <1>3, <2>2
  <2> QED
    BY <1>1, <1>3, <2>1, <2>3
<1>5. n - m \in Requests(action)
  BY <1>3
<1> HIDE DEF n, S
<1> QED
  BY <1>4, <1>5 DEF Latest

-----------------------------------------------------------------------------
(* Types.                                                                  *)
LEMMA WrittenType ==
    ASSUME NEW c, Orderly(c), c.pc = "write" PROVE Written(c) \in Plans
<1> USE DEF Orderly, CallRecs, InAction
<1>1. c.plan \in Plans /\ c.op \in Actions
  OBVIOUS
<1>2. CASE c.op = "start"
  BY <1>1, <1>2 DEF Written, Plans, PlanStatuses
<1>3. CASE c.op = "cancel"
  BY <1>1, <1>3 DEF Written, Plans, PlanStatuses, ExecStatuses
<1>4. CASE c.op = "run_next"
  <2> DEFINE exec == [c.plan.exec EXCEPT ![c.target] = c.result]
  <2>1. exec \in [TargetSet -> ExecStatuses]
    BY <1>1, <1>4 DEF Plans
  <2>2. Written(c) = [status |-> StatusOf(exec), exec |-> exec]
    BY <1>4 DEF Written
  <2> HIDE DEF exec
  <2>3. StatusOf(exec) \in PlanStatuses
    BY DEF StatusOf, PlanStatuses
  <2> QED
    BY <2>1, <2>2, <2>3 DEF Plans
<1> QED
  BY <1>1, <1>2, <1>3, <1>4 DEF Actions

LEMMA NextTargetType == ASSUME NEW p PROVE NextTarget(p) \subseteq TargetSet
<1>1. \A S : First(Pending(p, S)) \subseteq TargetSet
  BY DEF First, Pending, TargetSet
<1> QED
  BY <1>1 DEF NextTarget

LEMMA StepTypedData ==
    ASSUME FederationAssumption, FederationInv, [Next]_vars
    PROVE  TypedData'
<1> USE DEF FederationInv, TypedData
<1>0. ASSUME NEW w \in Workers PROVE Orderly(worker[w])
  BY DEF TypedWorkers
<1>1. ASSUME NEW w \in Workers, NEW c, Enter(w, c) PROVE disturbances' \in 0..MaxDisturbances
  BY <1>1 DEF Enter, FederationAssumption
<1>2. ASSUME NEW action \in Actions, request' = Append(request, NewRequest(action))
      PROVE  request' \in Seq(RequestRecs)
  <2>1. NewRequest(action) \in RequestRecs
    BY DEF NewRequest, RequestRecs, RequestStatuses
  <2> QED
    BY <1>2, <2>1
<1>3. CASE UNCHANGED vars
  BY <1>3 DEF vars
<1>4. ASSUME NEW w \in Workers, Ask(w) PROVE TypedData'
  BY <1>2, <1>4 DEF Ask, FederationAssumption
<1>5. ASSUME NEW w \in Workers, Decide(w) \/ Begin(w) PROVE TypedData'
  BY <1>1, <1>5 DEF Decide, Begin
<1>6. ASSUME NEW w \in Workers, WriteDecision(w) PROVE TypedData'
  <2> DEFINE c == worker[w]
  <2>1. c.op \in DecisionOps
    BY <1>0, <1>6 DEF WriteDecision, At, Orderly
  <2>2. Decided(c.op) \in RequestStatuses
    BY <2>1 DEF Decided, DecisionOps, RequestStatuses
  <2>3. request' \in Seq(RequestRecs)
    <3>1. CASE c.request \in DOMAIN request
      <4>1. request[c.request] \in RequestRecs
        BY <3>1
      <4>2. [request[c.request] EXCEPT !.status = Decided(c.op), !.approved = @ \/ c.op = "approve"] \in RequestRecs
        BY <2>2, <4>1 DEF RequestRecs
      <4>3. request' = [request EXCEPT ![c.request] =
                         [request[c.request] EXCEPT !.status = Decided(c.op), !.approved = @ \/ c.op = "approve"]]
        BY <1>6 DEF WriteDecision
      <4> QED
        BY <3>1, <4>2, <4>3
    <3>2. CASE c.request \notin DOMAIN request
      <4>1. request \in [1..Len(request) -> RequestRecs] /\ DOMAIN request = 1..Len(request)
        OBVIOUS
      <4>2. request' = [i \in 1..Len(request) |-> request[i]]
        <5>1. \E x : request' = [request EXCEPT ![c.request] = x]
          BY <1>6 DEF WriteDecision
        <5> QED
          BY <3>2, <4>1, <5>1
      <4> QED
        BY <4>1, <4>2
    <3> QED
      BY <3>1, <3>2
  <2> QED
    BY <1>6, <2>3 DEF WriteDecision
<1>7. ASSUME NEW w \in Workers, CheckApproval(w) \/ ReadPlan(w) \/ ChildReturns(w) \/ ChildRaises(w)
      PROVE  TypedData'
  BY <1>7 DEF CheckApproval, ReadPlan, ChildReturns, ChildRaises
<1>8. ASSUME NEW w \in Workers, AskAndReturn(w) PROVE TypedData'
  <2>1. worker[w].op \in Actions
    BY <1>0, <1>8 DEF AskAndReturn, At, Orderly, InAction
  <2> QED
    BY <1>2, <1>8, <2>1 DEF AskAndReturn
<1>9. ASSUME NEW w \in Workers, MarkRunning(w) PROVE TypedData'
  <2>1. worker[w].plan \in Plans /\ worker[w].target \in TargetSet /\ worker[w].op \in Actions
    BY <1>0, <1>9 DEF MarkRunning, At, Orderly, InAction, CallRecs
  <2>2. [worker[w].plan EXCEPT !.exec[worker[w].target] = "running"] \in Plans
    BY <2>1 DEF Plans, ExecStatuses
  <2> QED
    BY <1>9, <2>1, <2>2 DEF MarkRunning
<1>10. ASSUME NEW w \in Workers, CreateChild(w) PROVE TypedData'
  <2>1. worker[w].target \in TargetSet
    BY <1>0, <1>10 DEF CreateChild, At, Orderly
  <2>2. PICK r \in Rollouts : child' = [child EXCEPT ![r].target = worker[w].target]
    BY <1>10 DEF CreateChild
  <2>3. child' \in [Rollouts -> ChildRecs]
    BY <2>1, <2>2 DEF ChildRecs
  <2> QED
    BY <1>10, <2>3 DEF CreateChild
<1>11. ASSUME NEW w \in Workers, MoveChild(w) PROVE TypedData'
  <2>1. PICK r \in {worker[w].rollout}, st \in {"active", "completed", "failed"}, d \in SUBSET ChildSteps :
           child' = [child EXCEPT ![r].status = st, ![r].done = d]
    BY <1>11 DEF MoveChild
  <2>2. child' = [child EXCEPT ![r] = [child[r] EXCEPT !.status = st, !.done = d]]
    BY <2>1
  <2>3. r \in Rollouts => [child[r] EXCEPT !.status = st, !.done = d] \in ChildRecs
    BY DEF ChildRecs, ChildStatuses
  <2>4. child' \in [Rollouts -> ChildRecs]
    BY <2>2, <2>3
  <2> QED
    BY <1>11, <2>4 DEF MoveChild
<1>12. ASSUME NEW w \in Workers, WritePlan(w) PROVE TypedData'
  <2>1. /\ Orderly(worker[w]) /\ worker[w].pc = "write" /\ worker[w].op \in Actions
        /\ worker[w].op = "run_next" => worker[w].target \in TargetSet
    BY <1>0, <1>12 DEF WritePlan, At, Orderly, InAction
  <2> QED
    BY <1>12, <2>1, WrittenType DEF WritePlan
<1>13. ASSUME NEW w \in Workers, Crash(w) PROVE TypedData'
  <2>1. disturbances' \in 0..MaxDisturbances
    BY <1>13 DEF Crash, FederationAssumption
  <2> QED
    BY <1>13, <2>1 DEF Crash
<1> QED
  BY <1>3, <1>4, <1>5, <1>6, <1>7, <1>8, <1>9, <1>10, <1>11, <1>12, <1>13 DEF Next

LEMMA StepTypedWorkers ==
    ASSUME FederationAssumption, FederationInv, [Next]_vars
    PROVE  TypedWorkers'
<1>0. ASSUME NEW w \in Workers PROVE Orderly(worker[w]) /\ worker[w] \in CallRecs
  BY DEF FederationInv, TypedWorkers, Orderly
<1>1. TypedWorkers /\ plan \in Plans
  BY DEF FederationInv, TypedData
<1>2. CASE UNCHANGED worker
  BY <1>1, <1>2 DEF TypedWorkers
<1>3. ASSUME NEW w \in Workers, Return(w) PROVE TypedWorkers'
  <2>1. Orderly(Idle)
    BY IdleType DEF Orderly, Idle, InAction
  <2> QED
    BY <1>1, <1>3, <2>1, Moved DEF Return
<1>4. ASSUME NEW w \in Workers, Decide(w) PROVE TypedWorkers'
  <2>1. PICK i \in DOMAIN request, op \in DecisionOps :
           Goto(w, [Idle EXCEPT !.pc = "decide", !.op = op, !.request = i])
    BY <1>4 DEF Decide, Enter, DecisionOps
  <2>2. i \in Nat
    BY DEF FederationInv, TypedData
  <2>3. Orderly([Idle EXCEPT !.pc = "decide", !.op = op, !.request = i])
    BY <2>2, IdleType DEF Orderly, CallRecs, InAction, Places
  <2> QED
    BY <1>1, <2>1, <2>3, Moved
<1>5. ASSUME NEW w \in Workers, Begin(w) PROVE TypedWorkers'
  <2>1. PICK action \in Actions, place \in {"approval", "read"} :
           Goto(w, [Idle EXCEPT !.op = action, !.pc = place])
    BY <1>5 DEF Begin, Enter
  <2>2. Orderly([Idle EXCEPT !.op = action, !.pc = place])
    BY IdleType DEF Orderly, CallRecs, InAction, Places
  <2> QED
    BY <1>1, <2>1, <2>2, Moved
<1>6. ASSUME NEW w \in Workers, CheckApproval(w) PROVE TypedWorkers'
  <2>1. CASE \E place \in {"ask", "read"} : Goto(w, [worker[w] EXCEPT !.pc = place])
    <3>1. PICK place \in {"ask", "read"} : Goto(w, [worker[w] EXCEPT !.pc = place])
      BY <2>1
    <3>2. Orderly([worker[w] EXCEPT !.pc = place])
      BY <1>0, <1>6 DEF CheckApproval, At, Orderly, CallRecs, InAction, Places
    <3> QED
      BY <1>1, <3>1, <3>2, Moved
  <2> QED
    BY <1>3, <1>6, <2>1 DEF CheckApproval
<1>7. ASSUME NEW w \in Workers, ReadPlan(w) PROVE TypedWorkers'
  <2> DEFINE c == [worker[w] EXCEPT !.plan = plan]
  <2>1. worker[w].pc = "read" /\ worker[w].op \in Actions
    BY <1>0, <1>7 DEF ReadPlan, At, Orderly, InAction
  <2>2. c \in CallRecs /\ c.op = worker[w].op
    BY <1>0, <1>1 DEF CallRecs
  <2>3. \/ Return(w)
        \/ c.op \in {"start", "cancel"} /\ Goto(w, [c EXCEPT !.pc = "write"])
        \/ /\ c.op = "run_next"
           /\ \E t \in NextTarget(plan) :
                 \/ Goto(w, [c EXCEPT !.pc = "running", !.target = t])
                 \/ \E result \in {"skipped", "blocked"} :
                      Goto(w, [c EXCEPT !.pc = "write", !.target = t, !.result = result])
    BY <1>7 DEF ReadPlan
  <2> HIDE DEF c
  <2>4. CASE c.op \in {"start", "cancel"} /\ Goto(w, [c EXCEPT !.pc = "write"])
    <3>1. Orderly([c EXCEPT !.pc = "write"])
      BY <2>2, <2>4 DEF Orderly, CallRecs, InAction, Places, Actions
    <3> QED
      BY <1>1, <2>4, <3>1, Moved
  <2>5. ASSUME c.op = "run_next", NEW t \in NextTarget(plan), Goto(w, [c EXCEPT !.pc = "running", !.target = t])
        PROVE  TypedWorkers'
    <3>1. Orderly([c EXCEPT !.pc = "running", !.target = t])
      BY <2>2, <2>5, NextTargetType DEF Orderly, CallRecs, InAction, Places, Actions
    <3> QED
      BY <1>1, <2>5, <3>1, Moved
  <2>6. ASSUME c.op = "run_next", NEW t \in NextTarget(plan), NEW result \in {"skipped", "blocked"},
               Goto(w, [c EXCEPT !.pc = "write", !.target = t, !.result = result])
        PROVE  TypedWorkers'
    <3>1. t \in TargetSet /\ result \in ExecStatuses
      BY NextTargetType DEF ExecStatuses
    <3>2. Orderly([c EXCEPT !.pc = "write", !.target = t, !.result = result])
      BY <2>2, <2>6, <3>1 DEF Orderly, CallRecs, InAction, Places, Actions
    <3> QED
      BY <1>1, <2>6, <3>2, Moved
  <2> QED
    BY <1>3, <2>3, <2>4, <2>5, <2>6
<1>8. ASSUME NEW w \in Workers, MarkRunning(w) PROVE TypedWorkers'
  <2> DEFINE marked == [worker[w].plan EXCEPT !.exec[worker[w].target] = "running"]
  <2>1. /\ worker[w].plan \in Plans /\ worker[w].target \in TargetSet /\ worker[w].op = "run_next"
        /\ worker[w].pc = "running"
    BY <1>0, <1>8 DEF MarkRunning, At, Orderly, CallRecs
  <2>2. marked \in Plans
    BY <2>1 DEF Plans, ExecStatuses
  <2>3. Goto(w, [worker[w] EXCEPT !.pc = "create", !.plan = marked])
    BY <1>8 DEF MarkRunning
  <2> HIDE DEF marked
  <2>4. Orderly([worker[w] EXCEPT !.pc = "create", !.plan = marked])
    BY <1>0, <2>1, <2>2 DEF Orderly, CallRecs, InAction, Places, Actions
  <2> QED
    BY <1>1, <2>3, <2>4, Moved
<1>9. ASSUME NEW w \in Workers, CreateChild(w) PROVE TypedWorkers'
  <2>1. PICK r \in Rollouts : Goto(w, [worker[w] EXCEPT !.pc = "child", !.rollout = r])
    BY <1>9 DEF CreateChild
  <2>2. r \in Nat
    BY DEF Rollouts
  <2>3. Orderly([worker[w] EXCEPT !.pc = "child", !.rollout = r])
    BY <1>0, <1>9, <2>2 DEF CreateChild, At, Orderly, CallRecs, InAction, Places, Actions
  <2> QED
    BY <1>1, <2>1, <2>3, Moved
<1>10. ASSUME NEW w \in Workers, ChildReturns(w) PROVE TypedWorkers'
  <2>1. PICK result \in ExecStatuses : Goto(w, [worker[w] EXCEPT !.pc = "write", !.result = result])
    BY <1>10 DEF ChildReturns, ExecStatuses
  <2>2. Orderly([worker[w] EXCEPT !.pc = "write", !.result = result])
    BY <1>0, <1>10 DEF ChildReturns, At, Orderly, CallRecs, InAction, Places
  <2> QED
    BY <1>1, <2>1, <2>2, Moved
<1>11. CASE \E w \in Workers : Ask(w) \/ MoveChild(w)
  BY <1>2, <1>11 DEF Ask, MoveChild
<1>12. CASE \E w \in Workers : WriteDecision(w) \/ AskAndReturn(w) \/ ChildRaises(w) \/ WritePlan(w) \/ Crash(w)
  BY <1>3, <1>12 DEF WriteDecision, AskAndReturn, ChildRaises, WritePlan, Crash
<1> QED
  BY <1>2, <1>4, <1>5, <1>6, <1>7, <1>8, <1>9, <1>10, <1>11, <1>12 DEF Next, vars

\* The inductive invariant of the types.
THEOREM FederationInvHolds == Spec => []FederationInv
<1>1. FederationInv /\ [Next]_vars => FederationInv'
  BY FederationAssumption, StepTypedData, StepTypedWorkers DEF FederationInv
<1> QED
  BY <1>1, FederationAssumption, InitFederationInv, PTL DEF Spec

\* Types hold in every reachable state: in particular every row that a stale call
\* writes is a plan with one execution for each target.
THEOREM FederationTypeCorrect == Spec => []FederationTypeOK
<1>1. FederationInv => FederationTypeOK
  <2> SUFFICES ASSUME FederationInv PROVE FederationTypeOK
    OBVIOUS
  <2>1. \A i \in DOMAIN request : request[i] \in RequestRecs
    BY DEF FederationInv, TypedData
  <2>2. \A w \in Workers : worker[w] \in CallRecs
    BY DEF FederationInv, TypedWorkers, Orderly
  <2>3. \A r \in Rollouts : child[r] \in ChildRecs
    BY DEF FederationInv, TypedData
  <2> QED
    BY <2>1, <2>2, <2>3 DEF FederationInv, TypedData, FederationTypeOK, RequestRecs, CallRecs, ChildRecs
<1> QED
  BY <1>1, FederationInvHolds, PTL

-----------------------------------------------------------------------------
(* Approvals.  An approval is never forgotten: requests are only appended, *)
(* and "approved" is history.                                              *)
Sanctioned(action) == \E i \in Requests(action) : request[i].approved
PastApproval == {"read", "running", "create", "child", "write"}

ApprovalInv ==
    /\ \A i \in DOMAIN request : request[i].status = "approved" => request[i].approved
    /\ \A w \in Workers : worker[w].op \in RequireFor /\ worker[w].pc \in PastApproval
                            => Sanctioned(worker[w].op)
    /\ \A action \in carried \cap RequireFor : Sanctioned(action)

LEMMA StepRequests ==
    ASSUME FederationInv, ApprovalInv, [Next]_vars
    PROVE  /\ \A i \in DOMAIN request' : request'[i].status = "approved" => request'[i].approved
           /\ \A action : Sanctioned(action) => Sanctioned(action)'
<1> USE DEF Sanctioned, Requests, ApprovalInv
<1>0. request \in Seq(RequestRecs)
  BY DEF FederationInv, TypedData
<1>1. CASE UNCHANGED request
  BY <1>1
<1>2. ASSUME NEW action \in Actions, request' = Append(request, NewRequest(action))
      PROVE  /\ \A i \in DOMAIN request' : request'[i].status = "approved" => request'[i].approved
             /\ \A a : Sanctioned(a) => Sanctioned(a)'
  <2>1. DOMAIN request = 1..Len(request) /\ DOMAIN request' = 1..(Len(request) + 1)
    BY <1>0, <1>2
  <2>2. /\ \A i \in 1..Len(request) : request'[i] = request[i]
        /\ request'[Len(request) + 1] = NewRequest(action)
    BY <1>0, <1>2
  <2> QED
    BY <2>1, <2>2 DEF NewRequest
<1>3. ASSUME NEW w \in Workers, WriteDecision(w)
      PROVE  /\ \A i \in DOMAIN request' : request'[i].status = "approved" => request'[i].approved
             /\ \A a : Sanctioned(a) => Sanctioned(a)'
  <2> DEFINE c == worker[w]
  <2>1. DOMAIN request' = DOMAIN request
    BY <1>3 DEF WriteDecision
  <2>2. c.op \in DecisionOps
    BY <1>3 DEF WriteDecision, At, FederationInv, TypedWorkers, Orderly
  <2>3. Decided(c.op) = "approved" => c.op = "approve"
    BY <2>2 DEF Decided, DecisionOps
  <2>4. ASSUME NEW i \in DOMAIN request
        PROVE  /\ request'[i].action = request[i].action
               /\ request[i].approved => request'[i].approved
               /\ request'[i].status = "approved" => request'[i].approved
    <3>1. request[i] \in RequestRecs
      BY <1>0
    <3>2. CASE i = c.request
      <4>1. request'[i] = [request[i] EXCEPT !.status = Decided(c.op), !.approved = @ \/ c.op = "approve"]
        BY <1>3, <3>2 DEF WriteDecision
      <4>2. /\ request'[i].action = request[i].action
            /\ request'[i].status = Decided(c.op)
            /\ request'[i].approved = (request[i].approved \/ c.op = "approve")
        BY <3>1, <4>1 DEF RequestRecs
      <4> QED
        BY <2>3, <4>2
    <3>3. CASE i # c.request
      BY <1>3, <3>3 DEF WriteDecision
    <3> QED
      BY <3>2, <3>3
  <2> QED
    BY <2>1, <2>4
<1>4. ASSUME NEW w \in Workers, Ask(w) \/ AskAndReturn(w)
      PROVE  \E action \in Actions : request' = Append(request, NewRequest(action))
  <2>1. CASE Ask(w)
    BY <2>1, FederationAssumption DEF Ask, FederationAssumption
  <2>2. CASE AskAndReturn(w)
    BY <2>2 DEF AskAndReturn, At, FederationInv, TypedWorkers, Orderly, InAction
  <2> QED
    BY <1>4, <2>1, <2>2
<1>5. CASE \E w \in Workers : Ask(w) \/ AskAndReturn(w)
  BY <1>2, <1>4, <1>5
<1>6. CASE \E w \in Workers : WriteDecision(w)
  BY <1>3, <1>6
<1>7. CASE \/ UNCHANGED vars
           \/ \E w \in Workers : \/ Decide(w) \/ Begin(w) \/ CheckApproval(w) \/ ReadPlan(w) \/ MarkRunning(w)
                                 \/ CreateChild(w) \/ MoveChild(w) \/ ChildReturns(w) \/ ChildRaises(w)
                                 \/ WritePlan(w) \/ Crash(w)
  BY <1>1, <1>7 DEF vars, Decide, Begin, CheckApproval, ReadPlan, MarkRunning, CreateChild, MoveChild,
     ChildReturns, ChildRaises, WritePlan, Crash
<1> QED
  BY <1>5, <1>6, <1>7 DEF Next

Step(w) ==
    \/ Ask(w) \/ Decide(w) \/ WriteDecision(w)
    \/ Begin(w) \/ CheckApproval(w) \/ AskAndReturn(w) \/ ReadPlan(w)
    \/ MarkRunning(w) \/ CreateChild(w) \/ MoveChild(w) \/ ChildReturns(w) \/ ChildRaises(w)
    \/ WritePlan(w) \/ Crash(w)

(* A call moves no other worker.                                           *)
LEMMA OthersStay ==
    ASSUME FederationInv, NEW w \in Workers, NEW v \in Workers \ {w}, Step(w)
    PROVE  worker'[v] = worker[v]
<1>1. UNCHANGED worker \/ \E c : Goto(w, c)
  <2>1. CASE Ask(w) \/ MoveChild(w)
    BY <2>1 DEF Ask, MoveChild
  <2>2. CASE Decide(w) \/ Begin(w)
    BY <2>2 DEF Decide, Begin, Enter
  <2>3. CASE WriteDecision(w) \/ AskAndReturn(w) \/ ChildRaises(w) \/ WritePlan(w) \/ Crash(w)
    BY <2>3 DEF WriteDecision, AskAndReturn, ChildRaises, WritePlan, Crash, Return
  <2>4. CASE CheckApproval(w)
    BY <2>4 DEF CheckApproval, Return
  <2>5. CASE ReadPlan(w)
    BY <2>5 DEF ReadPlan, Return
  <2>6. CASE MarkRunning(w) \/ CreateChild(w) \/ ChildReturns(w)
    BY <2>6 DEF MarkRunning, CreateChild, ChildReturns
  <2> QED
    BY <2>1, <2>2, <2>3, <2>4, <2>5, <2>6 DEF Step
<1>2. CASE UNCHANGED worker
  BY <1>2
<1>3. CASE \E c : Goto(w, c)
  BY <1>3 DEF Goto, FederationInv, TypedWorkers
<1> QED
  BY <1>1, <1>2, <1>3

LEMMA StepSanctioned ==
    ASSUME FederationInv, ApprovalInv, NEW w \in Workers, Step(w),
           worker'[w].op \in RequireFor, worker'[w].pc \in PastApproval
    PROVE  Sanctioned(worker'[w].op)
<1>0. Orderly(worker[w]) /\ worker[w] \in CallRecs /\ worker = [v \in Workers |-> worker[v]]
  BY DEF FederationInv, TypedWorkers, Orderly
<1>1. worker[w].op \in RequireFor /\ worker[w].pc \in PastApproval => Sanctioned(worker[w].op)
  BY DEF ApprovalInv
<1>2. CASE UNCHANGED worker
  BY <1>1, <1>2
<1>3. CASE Return(w)
  BY <1>0, <1>3 DEF Return, Goto, Idle, PastApproval
<1>4. CASE Decide(w)
  <2>1. PICK i, op : Goto(w, [Idle EXCEPT !.pc = "decide", !.op = op, !.request = i])
    BY <1>4 DEF Decide, Enter
  <2>2. worker'[w] = [Idle EXCEPT !.pc = "decide", !.op = op, !.request = i]
    BY <1>0, <2>1 DEF Goto
  <2>3. worker'[w].pc = "decide"
    BY <2>2 DEF Idle
  <2> QED
    BY <2>3 DEF PastApproval
<1>5. CASE Begin(w)
  <2>1. PICK action \in Actions :
           Goto(w, [Idle EXCEPT !.op = action, !.pc = IF action \in RequireFor THEN "approval" ELSE "read"])
    BY <1>5 DEF Begin, Enter
  <2>2. worker'[w].op = action /\ worker'[w].pc = IF action \in RequireFor THEN "approval" ELSE "read"
    BY <1>0, <2>1, IdleType DEF Goto, CallRecs
  <2> QED
    BY <2>2 DEF PastApproval
<1>6. CASE CheckApproval(w)
  <2> DEFINE action == worker[w].op
  <2>1. CASE Requests(action) # {} /\ ~Blocks(Latest(action)) /\ Goto(w, [worker[w] EXCEPT !.pc = "read"])
    <3>1. Latest(action) \in Requests(action)
      BY <2>1, LatestIsRequest DEF FederationInv
    <3>2. Sanctioned(action)
      BY <2>1, <3>1 DEF Blocks, Sanctioned, Requests, ApprovalInv
    <3>3. worker'[w].op = action
      BY <1>0, <2>1 DEF Goto, CallRecs
    <3> QED
      BY <3>2, <3>3
  <2>2. CASE Goto(w, [worker[w] EXCEPT !.pc = "ask"])
    BY <1>0, <2>2 DEF Goto, CallRecs, PastApproval
  <2> QED
    BY <1>3, <1>6, <2>1, <2>2 DEF CheckApproval
<1>7. CASE worker'[w].op = worker[w].op /\ worker[w].pc \in PastApproval
  BY <1>1, <1>7
<1>8. CASE ReadPlan(w)
  <2> DEFINE c == [worker[w] EXCEPT !.plan = plan]
  <2>1. worker[w].pc \in PastApproval
    BY <1>8 DEF ReadPlan, At, PastApproval
  <2>2. c \in CallRecs /\ c.op = worker[w].op
    BY <1>0 DEF CallRecs, FederationInv, TypedData
  <2>3. \/ Return(w)
        \/ Goto(w, [c EXCEPT !.pc = "write"])
        \/ \E t : \/ Goto(w, [c EXCEPT !.pc = "running", !.target = t])
                 \/ \E result : Goto(w, [c EXCEPT !.pc = "write", !.target = t, !.result = result])
    BY <1>8 DEF ReadPlan
  <2> HIDE DEF c
  <2>4. Return(w) \/ worker'[w].op = c.op
    BY <1>0, <2>2, <2>3 DEF Goto, CallRecs
  <2> QED
    BY <1>3, <1>7, <2>1, <2>2, <2>4
<1>9. CASE MarkRunning(w)
  <2>1. PICK p : Goto(w, [worker[w] EXCEPT !.pc = "create", !.plan = p])
    BY <1>9 DEF MarkRunning
  <2>2. worker'[w].op = worker[w].op /\ worker[w].pc \in PastApproval
    BY <1>0, <1>9, <2>1 DEF MarkRunning, At, Goto, CallRecs, PastApproval
  <2> QED
    BY <1>7, <2>2
<1>10. CASE CreateChild(w)
  <2>1. PICK r : Goto(w, [worker[w] EXCEPT !.pc = "child", !.rollout = r])
    BY <1>10 DEF CreateChild
  <2>2. worker'[w].op = worker[w].op /\ worker[w].pc \in PastApproval
    BY <1>0, <1>10, <2>1 DEF CreateChild, At, Goto, CallRecs, PastApproval
  <2> QED
    BY <1>7, <2>2
<1>11. CASE ChildReturns(w)
  <2>1. PICK result : Goto(w, [worker[w] EXCEPT !.pc = "write", !.result = result])
    BY <1>11 DEF ChildReturns
  <2>2. worker'[w].op = worker[w].op /\ worker[w].pc \in PastApproval
    BY <1>0, <1>11, <2>1 DEF ChildReturns, At, Goto, CallRecs, PastApproval
  <2> QED
    BY <1>7, <2>2
<1>12. CASE Ask(w) \/ MoveChild(w)
  BY <1>2, <1>12 DEF Ask, MoveChild
<1>13. CASE WriteDecision(w) \/ AskAndReturn(w) \/ ChildRaises(w) \/ WritePlan(w) \/ Crash(w)
  BY <1>3, <1>13 DEF WriteDecision, AskAndReturn, ChildRaises, WritePlan, Crash
<1> QED
  BY <1>4, <1>5, <1>6, <1>8, <1>9, <1>10, <1>11, <1>12, <1>13 DEF Step

LEMMA StepCarried ==
    ASSUME FederationInv, ApprovalInv, NEW w \in Workers, Step(w), NEW action \in carried' \cap RequireFor
    PROVE  Sanctioned(action)
<1>1. CASE action \in carried
  BY <1>1 DEF ApprovalInv
<1>2. CASE action \notin carried
  <2>1. MarkRunning(w) \/ WritePlan(w)
    BY <1>2 DEF Step, Ask, Decide, WriteDecision, Begin, CheckApproval, AskAndReturn, ReadPlan, CreateChild,
       MoveChild, ChildReturns, ChildRaises, Crash
  <2>2. carried' = carried \cup {worker[w].op}
    BY <2>1 DEF MarkRunning, WritePlan
  <2>3. worker[w].pc \in PastApproval
    BY <2>1 DEF MarkRunning, WritePlan, At, PastApproval
  <2> QED
    BY <1>2, <2>2, <2>3 DEF ApprovalInv
<1> QED
  BY <1>1, <1>2

\* Nothing that needs approval changes the plan without a request for it having
\* been approved, whatever races, expiries, withdrawals and crashes there are.
THEOREM ActionsAreApproved == Spec => []ActionsApproved
<1>1. Init => ApprovalInv
  BY DEF Init, ApprovalInv, Idle, PastApproval
<1>2. FederationInv /\ ApprovalInv /\ [Next]_vars => ApprovalInv'
  <2> SUFFICES ASSUME FederationInv, ApprovalInv, [Next]_vars PROVE ApprovalInv'
    OBVIOUS
  <2>1. CASE UNCHANGED vars
    BY <2>1 DEF vars, ApprovalInv, Sanctioned, Requests
  <2>2. ASSUME NEW w \in Workers, Step(w) PROVE ApprovalInv'
    <3>1. ASSUME NEW v \in Workers, worker'[v].op \in RequireFor, worker'[v].pc \in PastApproval
          PROVE  Sanctioned(worker[v].op)'
      <4>1. Sanctioned(worker'[v].op)
        <5>1. CASE v = w
          BY <2>2, <3>1, <5>1, StepSanctioned
        <5>2. CASE v # w
          BY <2>2, <3>1, <5>2, OthersStay DEF ApprovalInv
        <5> QED
          BY <5>1, <5>2
      <4> QED
        BY <4>1, StepRequests DEF Sanctioned, Requests
    <3>2. \A action \in carried' \cap RequireFor : Sanctioned(action)'
      BY <2>2, StepRequests, StepCarried
    <3> QED
      BY <3>1, <3>2, StepRequests DEF ApprovalInv
  <2> QED
    BY <2>1, <2>2 DEF Next, Step
<1>3. ApprovalInv => ActionsApproved
  BY DEF ApprovalInv, ActionsApproved, Sanctioned
<1> QED
  BY <1>1, <1>2, <1>3, FederationInvHolds, PTL DEF Spec

-----------------------------------------------------------------------------
(* The plan and its copies.  What they say of a target is true, however    *)
(* old the copy: a child rollout that is done stays done, and a target     *)
(* that was taken up stays so.                                             *)
RolledOut(t) ==
    \E r \in CreatedRollouts : child[r].target = t /\ child[r].done \cup child[r].skipped = ChildSteps
InOrder(t) == \A k \in DOMAIN Waves : t \in Waves[k] \ Before(k) => Before(k) \subseteq tried

TrueOf(t, status) ==
    /\ status = "succeeded" => RolledOut(t)
    /\ status \notin {"pending", "cancelled"} => t \in tried
TruePlan(p) ==
    /\ \A t \in TargetSet : TrueOf(t, p.exec[t])
    /\ p.status # "cancelled" => \A t \in TargetSet : p.exec[t] # "cancelled"
Finished(p) == p.status = "completed" => \A t \in TargetSet : p.exec[t] \in {"succeeded", "skipped"}

\* What a call knows.
Informed(c) ==
    /\ TruePlan(c.plan)
    /\ c.pc = "write" /\ c.op = "start" => c.plan.status = "draft"
    /\ c.op = "run_next" /\ c.pc \in {"running", "create", "child", "write"}
         => c.plan.status = "active" /\ InOrder(c.target)
    /\ c.pc \in {"create", "child"} => c.target \in tried
    /\ c.pc = "child" => c.rollout \in CreatedRollouts /\ child[c.rollout].target = c.target
    /\ c.pc = "write" /\ c.op = "run_next"
         => c.result # "cancelled" /\ (c.result = "succeeded" => RolledOut(c.target))

ChildrenInv ==
    /\ \A r \in Rollouts : child[r].status = "completed" => child[r].done \cup child[r].skipped = ChildSteps
    /\ \A r \in CreatedRollouts : child[r].target \in tried
PlanInv == TruePlan(plan) /\ Finished(plan) /\ \A t \in tried : InOrder(t)
CallsInv == \A w \in Workers : Informed(worker[w])
TruthInv == ChildrenInv /\ PlanInv /\ CallsInv

\* The first open wave is the only one whose target may be next, and every
\* target before it has been taken up.
LEMMA NextIsInOrder ==
    ASSUME FederationAssumption, FederationInv, TruePlan(plan), plan.status # "cancelled",
           NEW t \in NextTarget(plan)
    PROVE  InOrder(t)
<1> SUFFICES ASSUME NEW n \in DOMAIN Waves, t \in Waves[n], t \notin Before(n),
                    NEW u \in Before(n)
             PROVE  u \in tried
  BY DEF InOrder
<1>1. PICK k \in OpenWaves(plan) : t \in First(Pending(plan, Waves[k])) /\ \A j \in OpenWaves(plan) : k <= j
  BY DEF NextTarget
<1>2. t \in Waves[k] /\ t \in TargetSet /\ plan.exec[t] = "pending"
  BY <1>1 DEF First, Pending, TargetSet
<1>3. n \in OpenWaves(plan)
  BY <1>2 DEF OpenWaves, Pending, TargetSet
<1>4. Waves \in Seq((SUBSET TargetSet) \ {{}}) /\ k \in DOMAIN Waves
  BY DEF FederationAssumption, OpenWaves
<1>5. k \in Nat /\ n \in Nat /\ k <= n /\ n <= Len(Waves) /\ k > 0
  BY <1>1, <1>3, <1>4
<1>6. k = n
  <2>1. k < n => k \in 1..(n - 1)
    BY <1>5
  <2>2. k < n => t \in Before(n)
    BY <1>2, <2>1 DEF Before
  <2> QED
    BY <1>5, <2>2
<1>7. PICK j \in 1..(n - 1) : u \in Waves[j]
  BY DEF Before
<1>8. j \in DOMAIN Waves /\ j < n
  BY <1>4, <1>5, <1>7
<1>9. u \in TargetSet
  BY <1>4, <1>7, <1>8
<1>10. j \notin OpenWaves(plan)
  BY <1>1, <1>5, <1>6, <1>8
<1>11. plan.exec[u] # "pending"
  BY <1>7, <1>8, <1>9, <1>10 DEF OpenWaves, Pending, TargetSet
<1> QED
  BY <1>9, <1>11 DEF TruePlan, TrueOf

\* How one step of a child moves it.
LEMMA ChildMoves ==
    ASSUME FederationInv, NEW w \in Workers, MoveChild(w)
    PROVE  \A q \in Rollouts :
              /\ child'[q].target = child[q].target /\ child'[q].skipped = child[q].skipped
              /\ child[q].done \subseteq child'[q].done
              /\ child'[q].status = "completed" =>
                    child[q].status = "completed" \/ child'[q].done \cup child'[q].skipped = ChildSteps
<1>1. PICK r \in {worker[w].rollout}, st \in {"active", "completed", "failed"}, d \in SUBSET ChildSteps :
         child' = [child EXCEPT ![r].status = st, ![r].done = d] /\ Child(r)!Advance
  BY DEF MoveChild
<1>2. child' = [child EXCEPT ![r] = [child[r] EXCEPT !.status = st, !.done = d]]
  BY <1>1
<1>3. child \in [Rollouts -> ChildRecs]
  BY DEF FederationInv, TypedData
<1>4. CASE r \in Rollouts
  <2>1. child[r].done \subseteq child'[r].done
    BY <1>1 DEF Child!Advance
  <2>2. child'[r].status = "completed" =>
           child[r].status = "completed" \/ child'[r].done \cup child'[r].skipped = ChildSteps
    BY <1>1 DEF Child!Advance
  <2>3. child'[r].target = child[r].target /\ child'[r].skipped = child[r].skipped
    BY <1>2, <1>3, <1>4 DEF ChildRecs
  <2>4. \A q \in Rollouts \ {r} : child'[q] = child[q]
    BY <1>2, <1>3
  <2> QED
    BY <2>1, <2>2, <2>3, <2>4
<1>5. CASE r \notin Rollouts
  BY <1>2, <1>3, <1>5
<1> QED
  BY <1>4, <1>5

LEMMA TruthGrows ==
    ASSUME FederationAssumption, FederationInv, TruthInv, [Next]_vars
    PROVE  /\ tried \subseteq tried'
           /\ \A r \in CreatedRollouts : r \in CreatedRollouts' /\ child'[r].target = child[r].target
           /\ \A t : RolledOut(t) => RolledOut(t)'
<1>1. CASE UNCHANGED <<tried, child>>
  BY <1>1 DEF RolledOut, CreatedRollouts
<1>2. ASSUME NEW w \in Workers, MarkRunning(w) \/ WritePlan(w)
      PROVE  tried \subseteq tried' /\ UNCHANGED child
  BY <1>2 DEF MarkRunning, WritePlan
<1>3. CASE tried \subseteq tried' /\ UNCHANGED child
  BY <1>3 DEF RolledOut, CreatedRollouts
<1>4. ASSUME NEW w \in Workers, CreateChild(w)
      PROVE  UNCHANGED tried /\ \A r \in CreatedRollouts : child'[r] = child[r]
  BY <1>4 DEF CreateChild, FederationInv, TypedData
<1>5. CASE \E w \in Workers : CreateChild(w)
  BY <1>4, <1>5 DEF RolledOut, CreatedRollouts
<1>6. CASE \E w \in Workers : MoveChild(w)
  <2>1. UNCHANGED tried
    BY <1>6 DEF MoveChild
  <2>2. \A r \in CreatedRollouts : r \in CreatedRollouts' /\ child'[r].target = child[r].target
    BY <1>6, ChildMoves DEF CreatedRollouts
  <2>3. \A r \in CreatedRollouts : child[r].done \cup child[r].skipped = ChildSteps =>
           child'[r].done \cup child'[r].skipped = ChildSteps
    <3>1. child' \in [Rollouts -> ChildRecs]
      BY <1>6, StepTypedData DEF TypedData, Next
    <3>2. \A r \in Rollouts : child'[r].done \subseteq ChildSteps /\ child'[r].skipped \subseteq ChildSteps
      BY <3>1 DEF ChildRecs
    <3> QED
      BY <1>6, <3>2, ChildMoves DEF CreatedRollouts
  <2> QED
    BY <2>1, <2>2, <2>3 DEF RolledOut
<1>7. CASE \/ UNCHANGED vars
           \/ \E w \in Workers : \/ Ask(w) \/ Decide(w) \/ WriteDecision(w) \/ Begin(w) \/ CheckApproval(w)
                                 \/ AskAndReturn(w) \/ ReadPlan(w) \/ ChildReturns(w) \/ ChildRaises(w) \/ Crash(w)
  BY <1>1, <1>7 DEF vars, Ask, Decide, WriteDecision, Begin, CheckApproval, AskAndReturn, ReadPlan, ChildReturns,
     ChildRaises, Crash
<1>8. CASE \E w \in Workers : MarkRunning(w) \/ WritePlan(w)
  BY <1>2, <1>3, <1>8
<1> QED
  BY <1>5, <1>6, <1>7, <1>8 DEF Next

LEMMA TruePlanStays ==
    ASSUME FederationAssumption, FederationInv, TruthInv, [Next]_vars, NEW p, TruePlan(p)
    PROVE  TruePlan(p)'
BY TruthGrows DEF TruePlan, TrueOf

LEMMA InOrderStays ==
    ASSUME FederationAssumption, FederationInv, TruthInv, [Next]_vars, NEW t, InOrder(t)
    PROVE  InOrder(t)'
BY TruthGrows DEF InOrder, Before

LEMMA InformedStays ==
    ASSUME FederationAssumption, FederationInv, TruthInv, [Next]_vars, NEW c, Informed(c)
    PROVE  Informed(c)'
<1>1. TruePlan(c.plan)'
  BY TruePlanStays DEF Informed
<1>2. c.op = "run_next" /\ c.pc \in {"running", "create", "child", "write"}
         => c.plan.status = "active" /\ InOrder(c.target)'
  BY InOrderStays DEF Informed
<1>3. c.pc = "child" => (c.rollout \in CreatedRollouts)' /\ child'[c.rollout].target = c.target
  BY TruthGrows DEF Informed
<1>4. c.result = "succeeded" /\ c.pc = "write" /\ c.op = "run_next" => RolledOut(c.target)'
  BY TruthGrows DEF Informed
<1> QED
  BY <1>1, <1>2, <1>3, <1>4, TruthGrows DEF Informed

(* A copy stays true when the execution of a target that was taken up     *)
(* changes in it.                                                          *)
LEMMA TruePlanUpdated ==
    ASSUME FederationAssumption, FederationInv, TruthInv, [Next]_vars,
           NEW p \in Plans, TruePlan(p), p.status = "active",
           NEW t \in TargetSet, t \in tried', NEW result, result # "cancelled",
           result = "succeeded" => RolledOut(t),
           NEW m, m.exec = [p.exec EXCEPT ![t] = result]
    PROVE  TruePlan(m)' /\ \A u \in TargetSet : m.exec[u] # "cancelled"
<1>1. \A u \in TargetSet : m.exec[u] = IF u = t THEN result ELSE p.exec[u]
  BY DEF Plans
<1>2. TruePlan(p)'
  BY TruePlanStays
<1>3. result = "succeeded" => RolledOut(t)'
  BY TruthGrows
<1>4. \A u \in TargetSet : TrueOf(u, m.exec[u])'
  BY <1>1, <1>2, <1>3 DEF TruePlan, TrueOf
<1>5. \A u \in TargetSet : m.exec[u] # "cancelled"
  BY <1>1 DEF TruePlan
<1> QED
  BY <1>4, <1>5 DEF TruePlan

LEMMA StepChildren ==
    ASSUME FederationAssumption, FederationInv, TruthInv, [Next]_vars
    PROVE  ChildrenInv'
<1> USE DEF TruthInv, ChildrenInv
<1>0. child \in [Rollouts -> ChildRecs]
  BY DEF FederationInv, TypedData
<1>1. CASE UNCHANGED child
  BY <1>1, TruthGrows DEF CreatedRollouts
<1>2. ASSUME NEW w \in Workers, CreateChild(w) PROVE ChildrenInv'
  <2>1. PICK r \in Rollouts : child' = [child EXCEPT ![r].target = worker[w].target]
    BY <1>2 DEF CreateChild
  <2>2. worker[w].target \in tried /\ UNCHANGED tried
    BY <1>2 DEF CreateChild, At, CallsInv, Informed
  <2>3. \A q \in Rollouts : /\ child'[q].status = child[q].status /\ child'[q].done = child[q].done
                            /\ child'[q].skipped = child[q].skipped
    BY <1>0, <2>1 DEF ChildRecs
  <2>4. \A q \in Rollouts : child'[q].target = child[q].target \/ child'[q].target = worker[w].target
    BY <1>0, <2>1 DEF ChildRecs
  <2> QED
    BY <2>2, <2>3, <2>4 DEF CreatedRollouts
<1>3. ASSUME NEW w \in Workers, MoveChild(w) PROVE ChildrenInv'
  <2>1. child' \in [Rollouts -> ChildRecs] /\ UNCHANGED tried
    BY <1>3, StepTypedData DEF TypedData, Next, MoveChild
  <2>2. \A r \in Rollouts : child'[r].done \subseteq ChildSteps /\ child'[r].skipped \subseteq ChildSteps
    BY <2>1 DEF ChildRecs
  <2> QED
    BY <1>3, <2>1, <2>2, ChildMoves DEF CreatedRollouts
<1>4. CASE \/ UNCHANGED vars
           \/ \E w \in Workers : \/ Ask(w) \/ Decide(w) \/ WriteDecision(w) \/ Begin(w) \/ CheckApproval(w)
                                 \/ AskAndReturn(w) \/ ReadPlan(w) \/ MarkRunning(w) \/ ChildReturns(w)
                                 \/ ChildRaises(w) \/ WritePlan(w) \/ Crash(w)
  BY <1>1, <1>4 DEF vars, Ask, Decide, WriteDecision, Begin, CheckApproval, AskAndReturn, ReadPlan, MarkRunning,
     ChildReturns, ChildRaises, WritePlan, Crash
<1> QED
  BY <1>2, <1>3, <1>4 DEF Next

\* What a call knows after a step of its own.
LEMMA StepInformed ==
    ASSUME FederationAssumption, FederationInv, TruthInv, NEW w \in Workers, Step(w), [Next]_vars
    PROVE  Informed(worker[w])'
<1>0. /\ Orderly(worker[w]) /\ worker[w] \in CallRecs /\ worker = [v \in Workers |-> worker[v]]
      /\ Informed(worker[w])
  BY DEF FederationInv, TypedWorkers, Orderly, TruthInv, CallsInv
<1>1. CASE UNCHANGED worker
  BY <1>0, <1>1, InformedStays DEF Informed
<1>2. TruePlan(NewPlan)
  BY DEF TruePlan, TrueOf, NewPlan
<1>3. CASE Return(w)
  <2>1. worker'[w] = Idle
    BY <1>0, <1>3 DEF Return, Goto
  <2>2. TruePlan(NewPlan)'
    BY <1>2, TruePlanStays
  <2> QED
    BY <2>1, <2>2 DEF Informed, Idle, TruePlan, TrueOf, RolledOut, CreatedRollouts
<1>4. CASE Decide(w) \/ Begin(w)
  <2>1. worker'[w].plan = NewPlan /\ worker'[w].pc \in {"decide", "approval", "read"}
    <3>1. CASE Decide(w)
      <4>1. PICK i, op : Goto(w, [Idle EXCEPT !.pc = "decide", !.op = op, !.request = i])
        BY <3>1 DEF Decide, Enter
      <4> QED
        BY <1>0, <4>1 DEF Goto, Idle
    <3>2. CASE Begin(w)
      <4>1. PICK action \in Actions, place \in {"approval", "read"} : Goto(w, [Idle EXCEPT !.op = action, !.pc = place])
        BY <3>2 DEF Begin, Enter
      <4> QED
        BY <1>0, <4>1 DEF Goto, Idle
    <3> QED
      BY <1>4, <3>1, <3>2
  <2>2. TruePlan(NewPlan)'
    BY <1>2, TruePlanStays
  <2> QED
    BY <2>1, <2>2 DEF Informed, TruePlan, TrueOf, RolledOut, CreatedRollouts
<1>5. CASE CheckApproval(w)
  <2>1. CASE \E place \in {"ask", "read"} : Goto(w, [worker[w] EXCEPT !.pc = place])
    <3>1. worker'[w].pc \in {"ask", "read"} /\ worker'[w].plan = worker[w].plan
      BY <1>0, <2>1 DEF Goto, CallRecs
    <3>2. TruePlan(worker[w].plan)
      BY <1>0 DEF Informed
    <3>3. TruePlan(worker'[w].plan) /\ UNCHANGED <<child, tried>>
      BY <1>5, <3>1, <3>2 DEF CheckApproval
    <3> QED
      BY <3>1, <3>3 DEF Informed, TruePlan, TrueOf, RolledOut, CreatedRollouts
  <2> QED
    BY <1>3, <1>5, <2>1 DEF CheckApproval
<1>6. CASE ReadPlan(w)
  <2> DEFINE c == [worker[w] EXCEPT !.plan = plan]
  <2>1. TruePlan(plan) /\ plan \in Plans /\ UNCHANGED <<child, tried>>
    BY <1>6 DEF TruthInv, PlanInv, FederationInv, TypedData, ReadPlan
  <2>2. c \in CallRecs /\ c.op = worker[w].op /\ c.plan = plan
    BY <1>0, <2>1 DEF CallRecs
  <2>3. \/ Return(w)
        \/ /\ \/ c.op = "start" /\ plan.status = "draft"
              \/ c.op = "cancel"
           /\ Goto(w, [c EXCEPT !.pc = "write"])
        \/ /\ c.op = "run_next" /\ plan.status = "active"
           /\ \E t \in NextTarget(plan) :
                 \/ Goto(w, [c EXCEPT !.pc = "running", !.target = t])
                 \/ \E result \in {"skipped", "blocked"} :
                      Goto(w, [c EXCEPT !.pc = "write", !.target = t, !.result = result])
    BY <1>6 DEF ReadPlan
  <2> HIDE DEF c
  <2> USE DEF Goto, CallRecs
  <2>4. ASSUME NEW d, Goto(w, d), Informed(d) PROVE Informed(worker[w])'
    BY <1>0, <2>1, <2>4 DEF Informed, TruePlan, TrueOf, RolledOut, CreatedRollouts, InOrder, Before
  <2>5. CASE /\ (c.op = "start" /\ plan.status = "draft") \/ c.op = "cancel"
             /\ Goto(w, [c EXCEPT !.pc = "write"])
    <3>1. Informed([c EXCEPT !.pc = "write"])
      BY <2>1, <2>2, <2>5 DEF Informed
    <3> QED
      BY <2>4, <2>5, <3>1
  <2>6. ASSUME c.op = "run_next", plan.status = "active", NEW t \in NextTarget(plan),
               Goto(w, [c EXCEPT !.pc = "running", !.target = t])
        PROVE  Informed(worker[w])'
    <3>1. InOrder(t)
      BY <2>1, <2>6, NextIsInOrder
    <3>2. Informed([c EXCEPT !.pc = "running", !.target = t])
      BY <2>1, <2>2, <2>6, <3>1 DEF Informed
    <3> QED
      BY <2>4, <2>6, <3>2
  <2>7. ASSUME c.op = "run_next", plan.status = "active", NEW t \in NextTarget(plan),
               NEW result \in {"skipped", "blocked"},
               Goto(w, [c EXCEPT !.pc = "write", !.target = t, !.result = result])
        PROVE  Informed(worker[w])'
    <3>1. InOrder(t)
      BY <2>1, <2>7, NextIsInOrder
    <3>2. Informed([c EXCEPT !.pc = "write", !.target = t, !.result = result])
      BY <2>1, <2>2, <2>7, <3>1 DEF Informed
    <3> QED
      BY <2>4, <2>7, <3>2
  <2> QED
    BY <1>3, <2>3, <2>5, <2>6, <2>7
<1>7. CASE MarkRunning(w)
  <2>1. /\ worker[w].plan \in Plans /\ worker[w].target \in TargetSet /\ worker[w].op = "run_next"
        /\ worker[w].plan.status = "active" /\ InOrder(worker[w].target) /\ TruePlan(worker[w].plan)
    BY <1>0, <1>7 DEF MarkRunning, At, Orderly, CallRecs, Informed
  <2>2. PICK m : /\ m = [worker[w].plan EXCEPT !.exec[worker[w].target] = "running"]
                 /\ Goto(w, [worker[w] EXCEPT !.pc = "create", !.plan = m])
    BY <1>7 DEF MarkRunning
  <2>3. tried' = tried \cup {worker[w].target}
    BY <1>7 DEF MarkRunning
  <2>4. m.status = "active" /\ m.exec = [worker[w].plan.exec EXCEPT ![worker[w].target] = "running"]
    BY <2>1, <2>2 DEF Plans
  <2>5. TruePlan(m)'
    BY <2>1, <2>3, <2>4, TruePlanUpdated, ZenonT(60)
  <2>6. /\ worker'[w].pc = "create" /\ worker'[w].plan = m /\ worker'[w].op = "run_next"
        /\ worker'[w].target = worker[w].target
    BY <1>0, <2>1, <2>2 DEF Goto, CallRecs
  <2>7. PICK t : t = worker[w].target
    OBVIOUS
  <2>8. InOrder(t)'
    BY <2>1, <2>7, InOrderStays
  <2> QED
    BY <2>3, <2>4, <2>5, <2>6, <2>7, <2>8 DEF Informed, TruePlan, TrueOf, RolledOut, CreatedRollouts, InOrder, Before
<1>8. CASE CreateChild(w)
  <2>1. PICK r \in Rollouts : /\ child' = [child EXCEPT ![r].target = worker[w].target]
                              /\ Goto(w, [worker[w] EXCEPT !.pc = "child", !.rollout = r])
    BY <1>8 DEF CreateChild
  <2>2. PICK c : c = worker[w]
    OBVIOUS
  <2>3. worker'[w] = [c EXCEPT !.pc = "child", !.rollout = r]
    BY <1>0, <2>1, <2>2 DEF Goto
  <2>4. /\ worker'[w].pc = "child" /\ worker'[w].rollout = r /\ worker'[w].plan = c.plan
        /\ worker'[w].target = c.target /\ worker'[w].op = c.op
    BY <1>0, <2>2, <2>3 DEF CallRecs
  <2>5. Informed(c)' /\ c.pc = "create" /\ c.op = "run_next" /\ c.target \in TargetSet
    BY <1>0, <1>8, <2>2, InformedStays DEF CreateChild, At, Orderly
  <2>6. child'[r].target = c.target
    BY <2>1, <2>2 DEF FederationInv, TypedData, ChildRecs
  <2>7. r \in CreatedRollouts'
    BY <2>5, <2>6 DEF CreatedRollouts, FederationAssumption
  <2> QED
    BY <2>4, <2>5, <2>6, <2>7 DEF Informed, TruePlan, TrueOf, RolledOut, CreatedRollouts, InOrder, Before
<1>9. CASE ChildReturns(w)
  <2>1. PICK result \in {"succeeded", "failed", "blocked", "running"} :
           /\ Goto(w, [worker[w] EXCEPT !.pc = "write", !.result = result])
           /\ result = "succeeded" => child[worker[w].rollout].status = "completed"
    BY <1>9 DEF ChildReturns
  <2>2. PICK c : c = worker[w]
    OBVIOUS
  <2>3. worker'[w] = [c EXCEPT !.pc = "write", !.result = result]
    BY <1>0, <2>1, <2>2 DEF Goto
  <2>4. /\ worker'[w].pc = "write" /\ worker'[w].result = result /\ worker'[w].plan = c.plan
        /\ worker'[w].target = c.target /\ worker'[w].op = c.op
    BY <1>0, <2>2, <2>3 DEF CallRecs
  <2>5. Informed(c)' /\ c.pc = "child" /\ c.op = "run_next"
    BY <1>0, <1>9, <2>2, InformedStays DEF ChildReturns, At, Orderly
  <2>6. result = "succeeded" => RolledOut(c.target)
    <3>1. c.rollout \in CreatedRollouts /\ child[c.rollout].target = c.target
      BY <1>0, <2>2, <2>5 DEF Informed
    <3> QED
      BY <2>1, <2>2, <3>1 DEF RolledOut, TruthInv, ChildrenInv, CreatedRollouts
  <2>7. result = "succeeded" => RolledOut(c.target)'
    BY <2>6, TruthGrows
  <2> QED
    BY <2>4, <2>5, <2>7 DEF Informed, TruePlan, TrueOf, RolledOut, CreatedRollouts, InOrder, Before
<1>10. CASE Ask(w) \/ MoveChild(w)
  BY <1>1, <1>10 DEF Ask, MoveChild
<1>11. CASE WriteDecision(w) \/ AskAndReturn(w) \/ ChildRaises(w) \/ WritePlan(w) \/ Crash(w)
  BY <1>3, <1>11 DEF WriteDecision, AskAndReturn, ChildRaises, WritePlan, Crash
<1> QED
  BY <1>4, <1>5, <1>6, <1>7, <1>8, <1>9, <1>10, <1>11 DEF Step

LEMMA StepWritten ==
    ASSUME FederationAssumption, FederationInv, TruthInv, NEW w \in Workers, WritePlan(w), [Next]_vars
    PROVE  TruePlan(plan)' /\ Finished(plan')
<1> PICK c : c = worker[w]
  OBVIOUS
<1>1. /\ Orderly(c) /\ c \in CallRecs /\ c.plan \in Plans /\ Informed(c) /\ c.pc = "write" /\ c.op \in Actions
  BY DEF FederationInv, TypedWorkers, Orderly, CallRecs, TruthInv, CallsInv, WritePlan, At, InAction
<1>2. plan' = Written(c) /\ (c.op = "run_next" => c.target \in tried')
  BY DEF WritePlan
<1>3. TruePlan(c.plan)'
  BY <1>1, TruePlanStays DEF Informed
<1>4. PICK p : p = Written(c)
  OBVIOUS
<1>5. SUFFICES TruePlan(p)' /\ Finished(p)
  BY <1>2, <1>4 DEF TruePlan, TrueOf, RolledOut, CreatedRollouts
<1>6. CASE c.op = "start"
  <2>1. p.status = "active" /\ p.exec = c.plan.exec
    BY <1>1, <1>4, <1>6 DEF Written, Plans
  <2>2. c.plan.status = "draft"
    BY <1>1, <1>6 DEF Informed
  <2> QED
    BY <1>3, <2>1, <2>2 DEF TruePlan, Finished
<1>7. CASE c.op = "cancel"
  <2>1. /\ p.status = "cancelled"
        /\ \A t \in TargetSet : p.exec[t] = IF c.plan.exec[t] \in {"pending", "running"}
                                          THEN "cancelled" ELSE c.plan.exec[t]
    BY <1>4, <1>7 DEF Written
  <2> QED
    BY <1>3, <2>1 DEF TruePlan, TrueOf, Finished
<1>8. CASE c.op = "run_next"
  <2>1. PICK exec : exec = [c.plan.exec EXCEPT ![c.target] = c.result]
    OBVIOUS
  <2>2. p.exec = exec /\ p.status = StatusOf(exec)
    BY <1>4, <1>8, <2>1 DEF Written
  <2>3. /\ c.plan.status = "active" /\ c.target \in TargetSet
        /\ c.result # "cancelled" /\ (c.result = "succeeded" => RolledOut(c.target)) /\ TruePlan(c.plan)
    BY <1>1, <1>8 DEF Informed, Orderly
  <2>4. TruePlan(p)'
    <3>1. PICK q, t, result : q = c.plan /\ t = c.target /\ result = c.result
      OBVIOUS
    <3>2. /\ q \in Plans /\ TruePlan(q) /\ q.status = "active" /\ t \in TargetSet /\ result # "cancelled"
          /\ result = "succeeded" => RolledOut(t)
      BY <1>1, <2>3, <3>1 DEF TruePlan, TrueOf, RolledOut, CreatedRollouts
    <3>3. t \in tried'
      BY <1>2, <1>8, <3>1
    <3>4. p.exec = [q.exec EXCEPT ![t] = result]
      BY <2>1, <2>2, <3>1
    <3> QED
      BY <3>2, <3>3, <3>4, TruePlanUpdated
  <2>5. Finished(p)
    BY <2>2 DEF Finished, StatusOf
  <2> QED
    BY <2>4, <2>5
<1> QED
  BY <1>1, <1>6, <1>7, <1>8 DEF Actions

LEMMA StepPlan ==
    ASSUME FederationAssumption, FederationInv, TruthInv, [Next]_vars
    PROVE  PlanInv'
<1>1. ASSUME UNCHANGED plan
      PROVE  TruePlan(plan)' /\ Finished(plan')
  <2>1. TruePlan(plan)'
    <3>1. PICK p : p = plan
      OBVIOUS
    <3>2. TruePlan(p)'
      BY <3>1, TruePlanStays DEF TruthInv, PlanInv
    <3> QED
      BY <1>1, <3>1, <3>2 DEF TruePlan, TrueOf, RolledOut, CreatedRollouts
  <2> QED
    BY <1>1, <2>1 DEF TruthInv, PlanInv, Finished
<1>2. ASSUME NEW w \in Workers, MarkRunning(w)
      PROVE  TruePlan(plan)' /\ Finished(plan')
  <2>1. /\ worker[w].plan \in Plans /\ worker[w].target \in TargetSet
        /\ worker[w].plan.status = "active" /\ TruePlan(worker[w].plan)
    BY <1>2 DEF MarkRunning, At, FederationInv, TypedWorkers, Orderly, CallRecs, TruthInv, CallsInv, Informed
  <2>2. PICK m : m = [worker[w].plan EXCEPT !.exec[worker[w].target] = "running"] /\ plan' = m
    BY <1>2 DEF MarkRunning
  <2>3. worker[w].target \in tried'
    BY <1>2 DEF MarkRunning
  <2>4. m.status = "active" /\ m.exec = [worker[w].plan.exec EXCEPT ![worker[w].target] = "running"]
    BY <2>1, <2>2 DEF Plans
  <2>5. TruePlan(m)'
    BY <2>1, <2>3, <2>4, TruePlanUpdated, ZenonT(60)
  <2> QED
    BY <2>2, <2>4, <2>5 DEF Finished, TruePlan, TrueOf, RolledOut, CreatedRollouts
<1>3. \A t \in tried' : InOrder(t)'
  <2>1. ASSUME NEW t \in tried' PROVE InOrder(t)
    <3>1. CASE t \in tried
      BY <3>1 DEF TruthInv, PlanInv
    <3>2. CASE t \notin tried
      <4>1. PICK w \in Workers : MarkRunning(w) \/ (WritePlan(w) /\ worker[w].op = "run_next")
        BY <3>2 DEF Next, vars, Ask, Decide, WriteDecision, Begin, CheckApproval, AskAndReturn, ReadPlan,
           CreateChild, MoveChild, ChildReturns, ChildRaises, WritePlan, Crash
      <4>2. t = worker[w].target
        BY <3>2, <4>1 DEF MarkRunning, WritePlan
      <4>3. /\ worker[w].op = "run_next" /\ worker[w].pc \in {"running", "write"} /\ Informed(worker[w])
        BY <4>1 DEF MarkRunning, WritePlan, At, FederationInv, TypedWorkers, Orderly, TruthInv, CallsInv
      <4> QED
        BY <4>2, <4>3 DEF Informed
    <3> QED
      BY <3>1, <3>2
  <2> QED
    BY <2>1, InOrderStays
<1>4. CASE \E w \in Workers : MarkRunning(w)
  BY <1>2, <1>3, <1>4 DEF PlanInv, Finished
<1>5. CASE \E w \in Workers : WritePlan(w)
  BY <1>3, <1>5, StepWritten DEF PlanInv, Finished
<1>6. CASE \/ UNCHANGED vars
           \/ \E w \in Workers : \/ Ask(w) \/ Decide(w) \/ WriteDecision(w) \/ Begin(w) \/ CheckApproval(w)
                                 \/ AskAndReturn(w) \/ ReadPlan(w) \/ CreateChild(w) \/ MoveChild(w)
                                 \/ ChildReturns(w) \/ ChildRaises(w) \/ Crash(w)
  <2>1. UNCHANGED plan
    BY <1>6 DEF vars, Ask, Decide, WriteDecision, Begin, CheckApproval, AskAndReturn, ReadPlan, CreateChild, MoveChild,
       ChildReturns, ChildRaises, Crash
  <2> QED
    BY <1>1, <1>3, <2>1 DEF PlanInv
<1> QED
  BY <1>4, <1>5, <1>6 DEF Next

LEMMA StepCalls ==
    ASSUME FederationAssumption, FederationInv, TruthInv, [Next]_vars
    PROVE  CallsInv'
<1>1. ASSUME NEW v \in Workers, worker'[v] = worker[v] PROVE Informed(worker[v])'
  <2>1. PICK c : c = worker[v]
    OBVIOUS
  <2>2. Informed(c)'
    BY <2>1, InformedStays DEF TruthInv, CallsInv
  <2> QED
    BY <1>1, <2>1, <2>2 DEF Informed, TruePlan, TrueOf, RolledOut, CreatedRollouts, InOrder, Before
<1>2. CASE UNCHANGED vars
  BY <1>1, <1>2 DEF vars, CallsInv
<1>3. ASSUME NEW w \in Workers, Step(w), NEW v \in Workers PROVE Informed(worker[v])'
  <2>1. CASE v = w
    BY <1>3, <2>1, StepInformed
  <2>2. CASE v # w
    BY <1>1, <1>3, <2>2, OthersStay
  <2> QED
    BY <2>1, <2>2
<1>4. CASE \E w \in Workers : Step(w)
  BY <1>3, <1>4 DEF CallsInv
<1> QED
  BY <1>2, <1>4 DEF Next, Step

LEMMA TruthInvHolds == Spec => []TruthInv
<1>1. Init => TruthInv
  <2> SUFFICES ASSUME Init PROVE TruthInv
    OBVIOUS
  <2>1. TruePlan(NewPlan) /\ Finished(NewPlan)
    BY DEF TruePlan, TrueOf, NewPlan, Finished
  <2>2. ChildrenInv
    BY DEF Init, ChildrenInv, CreatedRollouts, NoChild
  <2> QED
    BY <2>1, <2>2 DEF Init, TruthInv, PlanInv, CallsInv, Informed, Idle
<1>2. FederationInv /\ TruthInv /\ [Next]_vars => TruthInv'
  BY FederationAssumption, StepChildren, StepPlan, StepCalls DEF TruthInv
<1> QED
  BY <1>1, <1>2, FederationInvHolds, PTL DEF Spec

\* COMPLETED is true of the targets: each was skipped or has a child rollout that
\* is done, whichever stale copy of the plan was written last.
THEOREM CompletedIsRolledOut == Spec => []CompletedMeansRolledOut
<1>1. TruthInv => CompletedMeansRolledOut
  BY DEF TruthInv, PlanInv, Finished, TruePlan, TrueOf, RolledOut, CompletedMeansRolledOut
<1> QED
  BY <1>1, TruthInvHolds, PTL

\* Waves are taken up in order, for any number of targets and waves, overlapping
\* ones included, and however many processes run targets at the same time.
THEOREM WavesAreInOrder == Spec => []WavesTakenUpInOrder
<1>1. TruthInv => WavesTakenUpInOrder
  BY DEF TruthInv, PlanInv, ChildrenInv, InOrder, WavesTakenUpInOrder
<1> QED
  BY <1>1, TruthInvHolds, PTL

-----------------------------------------------------------------------------
(* Calls one after another.  As long as none overlaps another and none     *)
(* dies, the copy of the plan a call writes is the latest one.             *)
Current(c) ==
    /\ c.pc \in {"running", "create", "child", "write"} => c.plan = plan
    /\ c.pc = "running" => plan.exec[c.target] = "pending"
    /\ c.pc = "create" => /\ plan.exec[c.target] # "pending"
                          /\ \A r \in CreatedRollouts : child[r].target # c.target
    /\ c.pc = "write" /\ c.op = "run_next" => c.result # "pending"

TakenUp == \A r \in CreatedRollouts : plan.exec[child[r].target] # "pending"
OneEach == \A q, r \in CreatedRollouts : child[q].target = child[r].target => q = r
Calm ==
    /\ \A v, w \in Workers : ~At(v, "idle") /\ ~At(w, "idle") => v = w
    /\ \A w \in Workers : Current(worker[w])
    /\ TakenUp /\ OneEach
CalmInv == disturbances = 0 => Calm

LEMMA NextIsPending ==
    ASSUME NEW p, NEW t \in NextTarget(p) PROVE t \in TargetSet /\ p.exec[t] = "pending"
<1>1. \A S : \A u \in First(Pending(p, S)) : u \in TargetSet /\ p.exec[u] = "pending"
  BY DEF First, Pending, TargetSet
<1> QED
  BY <1>1 DEF NextTarget

LEMMA CalmAfter ==
    ASSUME FederationInv, NEW w \in Workers, TakenUp', OneEach', Current(worker[w])',
           \A v \in Workers \ {w} : worker'[v] = worker[v] /\ At(v, "idle")
    PROVE  Calm'
<1>1. ASSUME NEW v \in Workers, v # w PROVE Current(worker[v])' /\ At(v, "idle")'
  BY <1>1 DEF Current, At
<1>2. \A v \in Workers : v = w \/ At(v, "idle")'
  BY <1>1
<1>3. \A v \in Workers : Current(worker[v])'
  BY <1>1
<1> QED
  BY <1>2, <1>3 DEF Calm

\* A step of a call, whose worker then is at d, that leaves plan and children alone.
LEMMA CalmMove ==
    ASSUME FederationInv, Calm, NEW w \in Workers, NEW d, Goto(w, d), UNCHANGED <<plan, child>>,
           Current(d), \A v \in Workers \ {w} : At(v, "idle")
    PROVE  Calm'
<1>1. worker'[w] = d /\ \A v \in Workers \ {w} : worker'[v] = worker[v]
  BY DEF Goto, FederationInv, TypedWorkers
<1>2. TakenUp' /\ OneEach' /\ Current(worker[w])'
  BY <1>1 DEF Calm, TakenUp, OneEach, Current, CreatedRollouts
<1> QED
  BY <1>1, <1>2, CalmAfter

LEMMA CalmStepOnPlan ==
    ASSUME FederationInv, Calm, NEW w \in Workers, MarkRunning(w) \/ WritePlan(w),
           \A v \in Workers \ {w} : At(v, "idle")
    PROVE  Calm'
<1> PICK c : c = worker[w]
  OBVIOUS
<1>0. /\ Orderly(c) /\ c \in CallRecs /\ Current(c) /\ TakenUp /\ OneEach /\ plan \in Plans
      /\ \A r \in CreatedRollouts : child[r].target \in TargetSet
  BY DEF FederationInv, TypedWorkers, TypedData, Orderly, Calm, CreatedRollouts, ChildRecs
<1>1. CASE MarkRunning(w)
  <2>1. PICK marked : marked = [c.plan EXCEPT !.exec[c.target] = "running"]
    OBVIOUS
  <2>2. PICK d : d = [c EXCEPT !.pc = "create", !.plan = marked]
    OBVIOUS
  <2>3. plan' = marked /\ UNCHANGED child /\ worker' = [worker EXCEPT ![w] = d] /\ c.pc = "running"
    BY <1>1, <2>1, <2>2 DEF MarkRunning, Goto, At
  <2>4. /\ c.plan = plan /\ c.target \in TargetSet /\ plan.exec[c.target] = "pending"
        /\ d.pc = "create" /\ d.plan = marked /\ d.target = c.target
    BY <1>0, <2>2, <2>3 DEF Current, Orderly, CallRecs
  <2>5. /\ worker'[w] = d
        /\ \A v \in Workers \ {w} : worker'[v] = worker[v]
    BY <2>3 DEF FederationInv, TypedWorkers
  <2>6. \A t \in TargetSet : plan'.exec[t] = IF t = c.target THEN "running" ELSE plan.exec[t]
    BY <1>0, <2>1, <2>3, <2>4 DEF Plans
  <2>7. TakenUp' /\ OneEach'
    BY <1>0, <2>3, <2>6 DEF TakenUp, OneEach, CreatedRollouts
  <2>8. \A r \in CreatedRollouts : child[r].target # c.target
    BY <1>0, <2>4 DEF TakenUp
  <2>9. Current(worker[w])'
    BY <2>3, <2>4, <2>5, <2>6, <2>8 DEF Current, CreatedRollouts
  <2> QED
    BY <2>5, <2>7, <2>9, CalmAfter
<1>2. CASE WritePlan(w)
  <2>1. plan' = Written(c) /\ UNCHANGED child /\ c.pc = "write" /\ Return(w) /\ c.plan = plan
    BY <1>0, <1>2 DEF WritePlan, At, Current
  <2>2. worker'[w] = Idle /\ \A v \in Workers \ {w} : worker'[v] = worker[v]
    BY <2>1 DEF Return, Goto, FederationInv, TypedWorkers
  <2>3. ASSUME NEW t \in TargetSet, plan.exec[t] # "pending" PROVE plan'.exec[t] # "pending"
    <3>1. CASE c.op = "start"
      BY <1>0, <2>1, <2>3, <3>1 DEF Written, Plans
    <3>2. CASE c.op = "cancel"
      BY <1>0, <2>1, <2>3, <3>2 DEF Written, Plans
    <3>3. CASE c.op = "run_next"
      <4>1. PICK exec : exec = [c.plan.exec EXCEPT ![c.target] = c.result]
        OBVIOUS
      <4>2. plan'.exec = exec
        BY <2>1, <3>3, <4>1 DEF Written
      <4>3. c.result # "pending"
        BY <1>0, <2>1, <3>3 DEF Current
      <4> QED
        BY <1>0, <2>1, <2>3, <4>1, <4>2, <4>3 DEF Plans
    <3> QED
      BY <1>0, <2>1, <3>1, <3>2, <3>3 DEF Orderly, InAction, Actions
  <2>4. TakenUp' /\ OneEach'
    BY <1>0, <2>1, <2>3 DEF TakenUp, OneEach, CreatedRollouts
  <2>5. Current(worker[w])'
    BY <2>2 DEF Current, Idle
  <2> QED
    BY <2>2, <2>4, <2>5, CalmAfter
<1> QED
  BY <1>1, <1>2

LEMMA CalmStepOnChild ==
    ASSUME FederationInv, Calm, NEW w \in Workers, CreateChild(w) \/ MoveChild(w),
           \A v \in Workers \ {w} : At(v, "idle")
    PROVE  Calm'
<1> PICK c : c = worker[w]
  OBVIOUS
<1>0. /\ Orderly(c) /\ c \in CallRecs /\ Current(c) /\ TakenUp /\ OneEach
      /\ child \in [Rollouts -> ChildRecs] /\ CreatedRollouts \subseteq Rollouts
  BY DEF FederationInv, TypedWorkers, TypedData, Orderly, Calm, CreatedRollouts
<1>1. CASE CreateChild(w)
  <2>1. PICK r \in Rollouts \ CreatedRollouts :
           /\ child' = [child EXCEPT ![r].target = c.target]
           /\ Goto(w, [c EXCEPT !.pc = "child", !.rollout = r])
    BY <1>1 DEF CreateChild
  <2>2. UNCHANGED plan /\ c.pc = "create" /\ c.plan = plan
    BY <1>0, <1>1 DEF CreateChild, At, Current
  <2>3. /\ c.target \in TargetSet /\ plan.exec[c.target] # "pending"
        /\ \A q \in CreatedRollouts : child[q].target # c.target
    BY <1>0, <2>2 DEF Orderly, Current
  <2>4. /\ child'[r].target = c.target /\ CreatedRollouts' \subseteq CreatedRollouts \cup {r}
        /\ \A q \in CreatedRollouts : child'[q].target = child[q].target
    BY <1>0, <2>1 DEF ChildRecs, CreatedRollouts
  <2>5. TakenUp'
    BY <1>0, <2>2, <2>3, <2>4 DEF TakenUp
  <2>6. OneEach'
    BY <1>0, <2>3, <2>4 DEF OneEach
  <2>7. PICK d : d = [c EXCEPT !.pc = "child", !.rollout = r]
    OBVIOUS
  <2>8. worker'[w] = d /\ \A v \in Workers \ {w} : worker'[v] = worker[v]
    BY <2>1, <2>7 DEF Goto, FederationInv, TypedWorkers
  <2>9. Current(worker[w])'
    BY <1>0, <2>2, <2>7, <2>8 DEF Current, CallRecs
  <2> QED
    BY <2>5, <2>6, <2>8, <2>9, CalmAfter
<1>2. CASE MoveChild(w)
  <2>1. c.pc = "child" /\ UNCHANGED <<plan, worker>>
    BY <1>2 DEF MoveChild, At
  <2>2. \A q \in Rollouts : child'[q].target = child[q].target
    BY <1>2, ChildMoves
  <2>3. CreatedRollouts' = CreatedRollouts
    BY <2>2 DEF CreatedRollouts
  <2>4. TakenUp' /\ OneEach'
    BY <1>0, <2>1, <2>2, <2>3 DEF TakenUp, OneEach
  <2>5. Current(worker[w])'
    BY <1>0, <2>1 DEF Current
  <2> QED
    BY <2>1, <2>4, <2>5, CalmAfter
<1> QED
  BY <1>1, <1>2

LEMMA CalmStep == FederationInv /\ CalmInv /\ [Next]_vars => CalmInv'
<1> SUFFICES ASSUME FederationInv, CalmInv, [Next]_vars, disturbances' = 0 PROVE Calm'
  BY DEF CalmInv
<1>1. disturbances \in Nat
  BY DEF FederationInv, TypedData
<1>2. CASE UNCHANGED <<plan, child, worker, disturbances>>
  BY <1>2 DEF CalmInv, Calm, Current, TakenUp, OneEach, CreatedRollouts, At
<1>3. ASSUME NEW w \in Workers, Decide(w) \/ Begin(w) PROVE Calm'
  <2>1. PICK d : Enter(w, d) /\ d.pc \in {"decide", "approval", "read"}
    <3>1. CASE Decide(w)
      <4>1. PICK i \in DOMAIN request, op \in DecisionOps :
               Enter(w, [Idle EXCEPT !.pc = "decide", !.op = op, !.request = i])
        BY <3>1 DEF Decide, DecisionOps
      <4>2. [Idle EXCEPT !.pc = "decide", !.op = op, !.request = i].pc = "decide"
        BY DEF Idle
      <4> QED
        BY <4>1, <4>2
    <3>2. CASE Begin(w)
      <4>1. PICK op \in Actions, place \in {"approval", "read"} : Enter(w, [Idle EXCEPT !.op = op, !.pc = place])
        BY <3>2 DEF Begin
      <4>2. [Idle EXCEPT !.op = op, !.pc = place].pc = place
        BY DEF Idle
      <4> QED
        BY <4>1, <4>2
    <3> QED
      BY <1>3, <3>1, <3>2
  <2>2. UNCHANGED <<plan, child>>
    BY <1>3 DEF Decide, Begin
  <2>3. disturbances = 0 /\ \A v \in Workers : At(v, "idle")
    BY <1>1, <2>1 DEF Enter
  <2> QED
    BY <2>1, <2>2, <2>3, CalmMove DEF Enter, Current, CalmInv
<1>4. ASSUME NEW w \in Workers, ~At(w, "idle"), disturbances = 0, Step(w) PROVE Calm'
  <2>1. Calm /\ \A v \in Workers \ {w} : At(v, "idle")
    BY <1>4 DEF CalmInv, Calm
  <2>2. Current(worker[w]) /\ worker[w] \in CallRecs /\ plan \in Plans /\ Orderly(worker[w])
    BY <2>1 DEF Calm, FederationInv, TypedWorkers, TypedData, Orderly
  <2>3. ASSUME UNCHANGED <<plan, child>>, NEW d, Goto(w, d), Current(d) PROVE Calm'
    BY <2>1, <2>3, CalmMove
  <2>4. ASSUME UNCHANGED <<plan, child>>, Return(w) PROVE Calm'
    BY <2>3, <2>4 DEF Return, Current, Idle
  <2>5. CASE WriteDecision(w) \/ AskAndReturn(w) \/ ChildRaises(w)
    BY <2>4, <2>5 DEF WriteDecision, AskAndReturn, ChildRaises
  <2>6. CASE CheckApproval(w)
    <3>1. UNCHANGED <<plan, child>>
      BY <2>6 DEF CheckApproval
    <3>2. ASSUME NEW place \in {"ask", "read"}, Goto(w, [worker[w] EXCEPT !.pc = place]) PROVE Calm'
      <4>1. Current([worker[w] EXCEPT !.pc = place])
        BY <2>2 DEF Current, CallRecs
      <4> QED
        BY <2>3, <3>1, <3>2, <4>1
    <3> QED
      BY <2>4, <2>6, <3>1, <3>2 DEF CheckApproval
  <2>7. CASE ReadPlan(w)
    <3> PICK c : c = [worker[w] EXCEPT !.plan = plan]
      OBVIOUS
    <3>1. UNCHANGED <<plan, child>> /\ c \in CallRecs /\ c.plan = plan
      BY <2>2, <2>7 DEF ReadPlan, CallRecs
    <3>2. \/ Return(w)
          \/ c.op \in {"start", "cancel"} /\ Goto(w, [c EXCEPT !.pc = "write"])
          \/ \E t \in NextTarget(plan) :
                \/ Goto(w, [c EXCEPT !.pc = "running", !.target = t])
                \/ \E result \in {"skipped", "blocked"} :
                     Goto(w, [c EXCEPT !.pc = "write", !.target = t, !.result = result])
      BY <2>7 DEF ReadPlan
    <3>3. ASSUME c.op \in {"start", "cancel"}, Goto(w, [c EXCEPT !.pc = "write"]) PROVE Calm'
      <4>1. Current([c EXCEPT !.pc = "write"])
        BY <3>1, <3>3 DEF Current, CallRecs
      <4> QED
        BY <2>3, <3>1, <3>3, <4>1
    <3>4. ASSUME NEW t \in NextTarget(plan), Goto(w, [c EXCEPT !.pc = "running", !.target = t]) PROVE Calm'
      <4>1. Current([c EXCEPT !.pc = "running", !.target = t])
        BY <3>1, NextIsPending DEF Current, CallRecs
      <4> QED
        BY <2>3, <3>1, <3>4, <4>1
    <3>5. ASSUME NEW t \in NextTarget(plan), NEW result \in {"skipped", "blocked"},
                 Goto(w, [c EXCEPT !.pc = "write", !.target = t, !.result = result])
          PROVE  Calm'
      <4>1. Current([c EXCEPT !.pc = "write", !.target = t, !.result = result])
        BY <3>1 DEF Current, CallRecs
      <4> QED
        BY <2>3, <3>1, <3>5, <4>1
    <3> QED
      BY <2>4, <3>1, <3>2, <3>3, <3>4, <3>5
  <2>8. CASE MarkRunning(w) \/ WritePlan(w)
    BY <2>1, <2>8, CalmStepOnPlan
  <2>9. CASE CreateChild(w) \/ MoveChild(w)
    BY <2>1, <2>9, CalmStepOnChild
  <2>10. CASE ChildReturns(w)
    <3>1. PICK result \in {"succeeded", "failed", "blocked", "running"} :
             Goto(w, [worker[w] EXCEPT !.pc = "write", !.result = result])
      BY <2>10 DEF ChildReturns
    <3>2. UNCHANGED <<plan, child>> /\ worker[w].pc = "child"
      BY <2>10 DEF ChildReturns, At
    <3>3. Current([worker[w] EXCEPT !.pc = "write", !.result = result])
      BY <2>2, <3>2 DEF Current, CallRecs
    <3> QED
      BY <2>3, <3>1, <3>2, <3>3
  <2>11. CASE Decide(w) \/ Begin(w)
    BY <1>3, <2>11
  <2>12. CASE Crash(w)
    BY <1>1, <2>12 DEF Crash
  <2>13. CASE Ask(w)
    BY <1>2, <2>13 DEF Ask
  <2> QED
    BY <1>4, <2>5, <2>6, <2>7, <2>8, <2>9, <2>10, <2>11, <2>12, <2>13 DEF Step
<1>5. ASSUME NEW w \in Workers, Step(w), ~(Decide(w) \/ Begin(w) \/ Ask(w) \/ Crash(w))
      PROVE  ~At(w, "idle") /\ disturbances = 0
  BY <1>5 DEF Step, At, WriteDecision, CheckApproval, AskAndReturn, ReadPlan, MarkRunning, CreateChild,
     MoveChild, ChildReturns, ChildRaises, WritePlan
<1>6. ASSUME NEW w \in Workers, Ask(w) \/ Crash(w) PROVE Calm'
  BY <1>1, <1>2, <1>6 DEF Ask, Crash
<1> QED
  BY <1>2, <1>3, <1>4, <1>5, <1>6 DEF Next, Step, vars

\* Calls one after another give each target one child rollout at most, for any
\* number of targets, waves, errors and refusals: a second one takes calls that
\* overlap, of which one writes an old copy of the plan, or a crash
\* (policy_rollout_federation_service.py:689-971).
THEOREM OneRolloutPerTarget == Spec => []TargetsRolledOutOnce
<1>1. Init => CalmInv
  BY DEF Init, CalmInv, Calm, Current, TakenUp, OneEach, CreatedRollouts, NoChild, At, Idle
<1>2. FederationInv /\ CalmInv => TargetsRolledOutOnce
  BY DEF FederationInv, TypedData, CalmInv, Calm, OneEach, TargetsRolledOutOnce
<1> QED
  BY <1>1, <1>2, CalmStep, FederationInvHolds, PTL DEF Spec
=============================================================================
