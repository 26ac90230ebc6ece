--------------------------- MODULE RolloutProofs ---------------------------
(***************************************************************************)
(* A rollout plan and the approvals of its steps, proved for any number of *)
(* processes, users, steps, approvals, attempts and crashes.               *)
(***************************************************************************)
EXTENDS Rollout, FiniteSetTheorems, WellFoundedInduction, TLAPS

ApprovalRecs == [id : Approvals, step : NeedApproval, status : ApprovalStatuses, requester : Users,
                 required : {1, Required}, ttl : {"none", "open", "passed"}, approvers : Seq(Users)]
Changes == {"run", "gate", "request", "approve", "reject"}
CallRecs == [pc : Places, op : Changes \cup {"start", "cancel", "none"}, user : Users \cup {"none"},
             plan : Plans, step : StepSet \cup {NoStep}, approval : Approvals \cup {NoApproval},
             approvers : Seq(Users), overdue : SUBSET Approvals, result : StepStatuses \cup PlanStatuses]

TypedData ==
    /\ plan \in Plans
    /\ approval \in Seq(ApprovalRecs)
    /\ attempts \in [StepSet -> 0..MaxAttempts]
    /\ done \subseteq StepSet /\ skipped \subseteq StepSet
    /\ voted \in [Approvals -> SUBSET Users]
    /\ disturbances \in 0..MaxDisturbances

\* What a call holds fits where it is.
Orderly(c) ==
    /\ c \in CallRecs
    /\ c.pc \in {"lookup", "create"} => c.op \in {"run", "request"} /\ c.step \in NeedApproval
    /\ c.pc = "execute" => c.op = "run" /\ c.step \in StepSet
    /\ c.pc \in {"select", "update"} =>
         c.op \in {"approve", "reject"} /\ c.step \in StepSet /\ c.user \in Users /\ c.approval \in Approvals
    /\ c.pc = "write" => \/ c.op \in {"start", "cancel"} /\ c.step = NoStep /\ c.result \in {"active", "cancelled"}
                         \/ c.op \in Changes /\ c.step \in StepSet /\ c.result \in StepStatuses
TypedWorkers ==
    /\ worker = [w \in Workers |-> worker[w]]
    /\ \A w \in Workers : Orderly(worker[w])
\* A decision is about an approval there is.
Known(c) == c.pc \in {"select", "update"} => c.approval \in Created
RolloutInv == TypedData /\ TypedWorkers /\ \A w \in Workers : Known(worker[w])

LEMMA NewPlanType == NewPlan \in Plans
BY DEF NewPlan, Plans, PlanStatuses, StepStatuses

LEMMA IdleType == Idle \in CallRecs
BY NewPlanType DEF Idle, CallRecs, Places, StepStatuses

LEMMA IdleIsOrderly == Orderly(Idle)
BY IdleType DEF Orderly, Idle

LEMMA CallType == ASSUME NEW op, NEW place, TypedData, op \in Changes \cup {"start", "cancel"}, place \in Places
                  PROVE  /\ Call(op, place) \in CallRecs
                         /\ Call(op, place).pc = place /\ Call(op, place).op = op /\ Call(op, place).plan = plan
                         /\ Call(op, place).step = NoStep /\ Call(op, place).approval = NoApproval
BY IdleType DEF TypedData, Call, CallRecs, Idle

LEMMA InitRolloutInv == ASSUME RolloutAssumption, Init PROVE RolloutInv
<1>1. disturbances \in 0..MaxDisturbances /\ attempts \in [StepSet -> 0..MaxAttempts]
  BY DEF Init, RolloutAssumption
<1>2. TypedData
  BY <1>1, NewPlanType DEF Init, TypedData
<1> QED
  BY <1>2, IdleIsOrderly DEF Init, TypedWorkers, RolloutInv, Known, Idle

LEMMA Moved ==
    ASSUME NEW w \in Workers, NEW c, TypedWorkers, Goto(w, c), Orderly(c)
    PROVE  TypedWorkers' /\ worker'[w] = c /\ \A v \in Workers \ {w} : worker'[v] = worker[v]
<1>1. worker' = [v \in Workers |-> worker'[v]]
  BY DEF TypedWorkers, Goto
<1>2. worker'[w] = c /\ \A v \in Workers \ {w} : worker'[v] = worker[v]
  BY DEF TypedWorkers, Goto
<1> QED
  BY <1>1, <1>2 DEF TypedWorkers

LEMMA NatHasLeast ==
    ASSUME NEW S \in SUBSET Nat, S # {} PROVE \E x \in S : \A y \in S : x <= y
<1> DEFINE R == {ss \in Nat \X Nat : ss[1] < ss[2]}
<1>1. IsWellFoundedOn(R, Nat)
  BY NatLessThanWellFounded, Zenon DEF OpToRel
<1> HIDE DEF R
<1>2. PICK x \in S : \A y \in S : ~ (<<y, x>> \in R)
  BY <1>1, WFMin
<1>3. \A y \in S : ~ (y < x)
  BY <1>2 DEF R
<1> QED
  BY <1>3

\* The row of an approval there is, is one of the rows.
LEMMA RowIsThere ==
    ASSUME NEW a \in Created
    PROVE  \E i \in DOMAIN approval : approval[i].id = a /\ Row(a) = approval[i]
BY DEF Created, Row

LEMMA RowTypes == ASSUME TypedData, NEW i \in DOMAIN approval PROVE approval[i] \in ApprovalRecs
BY DEF TypedData

LEMMA CreatedIsApproval == ASSUME TypedData, NEW a \in Created PROVE a \in Approvals
BY RowTypes DEF Created, ApprovalRecs

-----------------------------------------------------------------------------
(* Types.                                                                  *)
LEMMA WrittenType ==
    ASSUME NEW c, Orderly(c), c.pc = "write", RolloutAssumption PROVE Written(c) \in Plans
<1>0. c \in CallRecs /\ c.plan \in Plans
  BY DEF Orderly, CallRecs
<1>1. CASE c.op \in {"start", "cancel"} /\ c.step = NoStep /\ c.result \in {"active", "cancelled"}
  <2>1. Written(c) = [c.plan EXCEPT !.status = StatusAfter(c, c.plan)]
    BY <1>1 DEF Written
  <2>2. StatusAfter(c, c.plan) \in PlanStatuses
    BY <1>1 DEF StatusAfter, PlanStatuses
  <2> QED
    BY <1>0, <2>1, <2>2 DEF Plans
<1>2. CASE c.op \in Changes /\ c.step \in StepSet /\ c.result \in StepStatuses
  <2>1. c.step # NoStep
    BY <1>2 DEF RolloutAssumption
  <2>2. PICK a \in Approvals \cup {NoApproval} :
           a = IF c.op \in {"run", "request"} /\ c.approval # NoApproval THEN c.approval
               ELSE c.plan.approval[c.step]
    BY <1>0, <1>2 DEF CallRecs, Plans
  <2>3. PICK p : p = [c.plan EXCEPT !.step[c.step] = c.result, !.approval[c.step] = a]
    OBVIOUS
  <2>4. p \in Plans
    BY <1>0, <1>2, <2>2, <2>3 DEF Plans
  <2>5. Written(c) = [p EXCEPT !.status = StatusAfter(c, p)]
    BY <1>0, <1>2, <2>1, <2>2, <2>3 DEF Written, Plans
  <2>6. StatusAfter(c, p) \in PlanStatuses
    BY <1>2, <2>4 DEF StatusAfter, PlanStatuses, Plans, Changes
  <2> QED
    BY <2>4, <2>5, <2>6 DEF Plans
<1> QED
  BY <1>1, <1>2 DEF Orderly

LEMMA NewApprovalType ==
    ASSUME RolloutAssumption, NEW w \in Workers, Orderly(worker[w]), worker[w].pc = "create",
           NEW a \in Approvals, NEW u \in Users
    PROVE  NewApproval(w, a, u) \in ApprovalRecs
BY DEF NewApproval, ApprovalRecs, ApprovalStatuses, Orderly

\* The rows after a decision.
Updated(c, now, verdict) ==
    [i \in DOMAIN approval |->
       IF approval[i].id # c.approval THEN approval[i]
       ELSE [approval[i] EXCEPT !.approvers = now, !.status = IF verdict = "pending" THEN @ ELSE verdict]]

LEMMA SameLengthRows ==
    ASSUME TypedData, NEW rows, DOMAIN rows = DOMAIN approval, rows = [i \in DOMAIN approval |-> rows[i]],
           \A i \in DOMAIN approval : rows[i] \in ApprovalRecs
    PROVE  rows \in Seq(ApprovalRecs)
<1>1. DOMAIN approval = 1..Len(approval) /\ Len(approval) \in Nat
  BY DEF TypedData
<1>2. rows \in [1..Len(approval) -> ApprovalRecs]
  BY <1>1
<1> QED
  BY <1>1, <1>2

LEMMA StepTypedData ==
    ASSUME RolloutAssumption, RolloutInv, [Next]_vars
    PROVE  TypedData'
<1> USE DEF RolloutInv, TypedData
<1>0. ASSUME NEW w \in Workers PROVE Orderly(worker[w])
  BY DEF TypedWorkers
<1>1. ASSUME NEW w \in Workers, NEW c, Enter(w, c) PROVE TypedData'
  BY <1>1 DEF Enter, histVars, RolloutAssumption
<1>2. CASE UNCHANGED vars
  BY <1>2 DEF vars, histVars
<1>3. ASSUME NEW w \in Workers, \/ Start(w) \/ RunNext(w) \/ Cancel(w) \/ Request(w) \/ Sweep(w)
                                \/ \E u \in Users : Decide(w, u)
      PROVE  TypedData'
  BY <1>1, <1>3 DEF Start, RunNext, Cancel, Request, Sweep, Decide
<1>4. ASSUME NEW w \in Workers, LookUpApproval(w) \/ SelectApproval(w) PROVE TypedData'
  BY <1>4 DEF LookUpApproval, SelectApproval, histVars
<1>5. ASSUME NEW w \in Workers, CreateApproval(w) PROVE TypedData'
  <2>1. PICK a \in Approvals, u \in Users : approval' = Append(approval, NewApproval(w, a, u))
    BY <1>5 DEF CreateApproval
  <2>2. NewApproval(w, a, u) \in ApprovalRecs
    BY <1>0, <1>5, NewApprovalType DEF CreateApproval, At
  <2>3. approval' \in Seq(ApprovalRecs)
    BY <2>1, <2>2
  <2> QED
    BY <1>5, <2>3 DEF CreateApproval, histVars
<1>6. ASSUME NEW w \in Workers, Execute(w) PROVE TypedData'
  <2>1. worker[w].step \in StepSet
    BY <1>0, <1>6 DEF Execute, At, Orderly
  <2>2. attempts' \in [StepSet -> 0..MaxAttempts]
    BY <1>6, <2>1 DEF Execute, RolloutAssumption
  <2> QED
    BY <1>6, <2>1, <2>2 DEF Execute
<1>7. ASSUME NEW w \in Workers, UpdateApproval(w) PROVE TypedData'
  <2>1. PICK c : c = worker[w]
    OBVIOUS
  <2>2. /\ c \in CallRecs /\ c.op \in {"approve", "reject"} /\ c.user \in Users /\ c.approval \in Approvals
    BY <1>0, <1>7, <2>1 DEF UpdateApproval, At, Orderly
  <2>3. PICK now : now = IF c.op = "approve" THEN Append(c.approvers, c.user) ELSE c.approvers
    OBVIOUS
  <2>4. now \in Seq(Users)
    BY <2>2, <2>3 DEF CallRecs
  <2>5. PICK verdict : verdict = Evaluated(c.op, Len(now), Row(c.approval).required)
    OBVIOUS
  <2>6. verdict \in ApprovalStatuses
    BY <2>5 DEF Evaluated, ApprovalStatuses
  <2>7. approval' = Updated(c, now, verdict)
    BY <1>7, <2>1, <2>3, <2>5 DEF UpdateApproval, Updated
  <2>8. voted' = IF c.op = "approve" THEN [voted EXCEPT ![c.approval] = @ \cup {c.user}] ELSE voted
    BY <1>7, <2>1 DEF UpdateApproval
  <2>9. approval' \in Seq(ApprovalRecs)
    <3>1. \A i \in DOMAIN approval : Updated(c, now, verdict)[i] \in ApprovalRecs
      BY <2>4, <2>6, RowTypes DEF Updated, ApprovalRecs
    <3>2. /\ DOMAIN Updated(c, now, verdict) = DOMAIN approval
          /\ Updated(c, now, verdict) = [i \in DOMAIN approval |-> Updated(c, now, verdict)[i]]
      BY DEF Updated
    <3> QED
      BY <2>7, <3>1, <3>2, SameLengthRows
  <2>10. voted' \in [Approvals -> SUBSET Users]
    BY <2>2, <2>8
  <2> QED
    BY <1>7, <2>9, <2>10 DEF UpdateApproval
<1>8. ASSUME NEW w \in Workers, ExpireApproval(w) PROVE TypedData'
  <2>1. PICK rows : rows = [i \in DOMAIN approval |->
                              IF approval[i].id \notin worker[w].overdue THEN approval[i]
                              ELSE [approval[i] EXCEPT !.status = "expired"]]
    OBVIOUS
  <2>2. \A i \in DOMAIN approval : rows[i] \in ApprovalRecs
    BY <2>1, RowTypes DEF ApprovalRecs, ApprovalStatuses
  <2>3. rows \in Seq(ApprovalRecs)
    BY <2>1, <2>2, SameLengthRows
  <2> QED
    BY <1>8, <2>1, <2>3 DEF ExpireApproval, histVars
<1>9. ASSUME NEW w \in Workers, WritePlan(w) PROVE TypedData'
  <2>1. Orderly(worker[w]) /\ worker[w].pc = "write"
    BY <1>0, <1>9 DEF WritePlan, At
  <2>2. plan' \in Plans
    BY <1>9, <2>1, WrittenType DEF WritePlan
  <2>3. skipped' \subseteq StepSet
    BY <1>9, <2>1 DEF WritePlan, Orderly
  <2> QED
    BY <1>9, <2>2, <2>3 DEF WritePlan
<1>10. ASSUME NEW w \in Workers, Crash(w) PROVE TypedData'
  BY <1>10 DEF Crash, histVars, RolloutAssumption
<1>11. CASE TimePasses
  <2>1. PICK i \in DOMAIN approval : approval' = [approval EXCEPT ![i].ttl = "passed"]
    BY <1>11 DEF TimePasses
  <2>2. approval' = [approval EXCEPT ![i] = [approval[i] EXCEPT !.ttl = "passed"]]
    BY <2>1
  <2>3. [approval[i] EXCEPT !.ttl = "passed"] \in ApprovalRecs
    BY RowTypes DEF ApprovalRecs
  <2>4. approval' \in Seq(ApprovalRecs)
    BY <2>2, <2>3
  <2> QED
    BY <1>11, <2>4 DEF TimePasses, histVars
<1> QED
  BY <1>2, <1>3, <1>4, <1>5, <1>6, <1>7, <1>8, <1>9, <1>10, <1>11 DEF Next

\* What a call that begins holds.
Started(c) ==
    \/ c = [Call("start", "write") EXCEPT !.result = "active"] /\ plan.status = "draft"
    \/ c = [Call("cancel", "write") EXCEPT !.result = "cancelled"]
    \/ \E s \in StepSet :
          \/ c = [Call("run", Lookup(s)) EXCEPT !.step = s] /\ PrevDone(plan, s)
          \/ \E verdict \in {"blocked", "failed", "skipped"} :
                c = [[Call("run", Lookup(s)) EXCEPT !.step = s]
                       EXCEPT !.pc = "write", !.op = "gate", !.result = verdict] /\ PrevDone(plan, s)
          \/ c = [Call("request", "lookup") EXCEPT !.step = s] /\ s \in NeedApproval
    \/ \E i \in DOMAIN approval, u \in Users, verdict \in {"approve", "reject"} :
          /\ c = [Call(verdict, "select") EXCEPT !.user = u, !.step = approval[i].step,
                                                 !.approval = approval[i].id]
          /\ u # approval[i].requester
    \/ c = [Idle EXCEPT !.pc = "expire", !.overdue = Overdue]

Entry(w) == \/ Start(w) \/ RunNext(w) \/ Cancel(w) \/ Request(w) \/ Sweep(w)
            \/ \E u \in Users : Decide(w, u)

LEMMA NextStepRuns ==
    ASSUME RolloutAssumption, NEW p, Runnable(p) # {}
    PROVE  NextStep(p) \in StepSet /\ PrevDone(p, NextStep(p)) /\ p.step[NextStep(p)] = "pending"
<1>1. Runnable(p) \in SUBSET Nat
  BY DEF Runnable, RolloutAssumption
<1>2. PICK i \in Runnable(p) : \A j \in Runnable(p) : i <= j
  BY <1>1, NatHasLeast
<1>3. (CHOOSE k \in Runnable(p) : \A j \in Runnable(p) : k <= j) \in Runnable(p)
  BY <1>2
<1> QED
  BY <1>3 DEF NextStep, Runnable, StepSet

LEMMA EntryStarts ==
    ASSUME RolloutAssumption, NEW w \in Workers, Entry(w)
    PROVE  \E c : Enter(w, c) /\ Started(c)
<1>1. CASE Start(w)
  BY <1>1 DEF Start, Started
<1>2. CASE RunNext(w)
  <2>1. PICK s : s = NextStep(plan)
    OBVIOUS
  <2>2. s \in StepSet /\ PrevDone(plan, s)
    BY <1>2, <2>1, NextStepRuns DEF RunNext, MayRun
  <2>3. PICK call : call = [Call("run", Lookup(s)) EXCEPT !.step = s]
    OBVIOUS
  <2>4. \/ Enter(w, call)
        \/ \E verdict \in {"blocked", "failed", "skipped"} :
              Enter(w, [call EXCEPT !.pc = "write", !.op = "gate", !.result = verdict])
    BY <1>2, <2>1, <2>3 DEF RunNext
  <2>5. CASE Enter(w, call)
    BY <2>2, <2>3, <2>5 DEF Started
  <2>6. ASSUME NEW verdict \in {"blocked", "failed", "skipped"},
               Enter(w, [call EXCEPT !.pc = "write", !.op = "gate", !.result = verdict])
        PROVE  \E c : Enter(w, c) /\ Started(c)
    BY <2>2, <2>3, <2>6 DEF Started
  <2> QED
    BY <2>4, <2>5, <2>6
<1>3. CASE Cancel(w)
  BY <1>3 DEF Cancel, Started
<1>4. CASE Request(w)
  BY <1>4 DEF Request, MayAsk, Started
<1>5. CASE Sweep(w)
  BY <1>5 DEF Sweep, Started
<1>6. CASE \E u \in Users : Decide(w, u)
  <2>1. PICK u \in Users, i \in DOMAIN approval, verdict \in {"approve", "reject"} :
           /\ MayDecide(approval[i], u)
           /\ Enter(w, [Call(verdict, "select") EXCEPT !.user = u, !.step = approval[i].step,
                                                       !.approval = approval[i].id])
    BY <1>6 DEF Decide
  <2>2. u # approval[i].requester
    BY <2>1 DEF MayDecide
  <2> QED
    BY <2>1, <2>2 DEF Started
<1> QED
  BY <1>1, <1>2, <1>3, <1>4, <1>5, <1>6 DEF Entry

LEMMA StartedIsOrderly ==
    ASSUME RolloutAssumption, TypedData, NEW c, Started(c)
    PROVE  Orderly(c)
<1> USE DEF Places
<1>1. CASE c = [Call("start", "write") EXCEPT !.result = "active"]
  BY <1>1, CallType DEF Orderly, CallRecs, PlanStatuses
<1>2. CASE c = [Call("cancel", "write") EXCEPT !.result = "cancelled"]
  BY <1>2, CallType DEF Orderly, CallRecs, PlanStatuses
<1>3. ASSUME NEW s \in StepSet
      PROVE  /\ Call("run", Lookup(s)) \in CallRecs
             /\ Call("run", Lookup(s)).op = "run"
             /\ Call("run", Lookup(s)).pc = Lookup(s)
  BY CallType DEF Lookup, Changes
<1>4. ASSUME NEW s \in StepSet, c = [Call("run", Lookup(s)) EXCEPT !.step = s] PROVE Orderly(c)
  <2>1. c \in CallRecs /\ c.op = "run" /\ c.pc = Lookup(s) /\ c.step = s
    BY <1>3, <1>4 DEF CallRecs
  <2> QED
    BY <2>1 DEF Orderly, Lookup
<1>5. ASSUME NEW s \in StepSet, NEW verdict \in {"blocked", "failed", "skipped"},
             c = [[Call("run", Lookup(s)) EXCEPT !.step = s]
                    EXCEPT !.pc = "write", !.op = "gate", !.result = verdict]
      PROVE  Orderly(c)
  <2>1. PICK d : d = [Call("run", Lookup(s)) EXCEPT !.step = s]
    OBVIOUS
  <2>2. d \in CallRecs /\ d.step = s
    BY <1>3, <2>1, SMTT(30) DEF CallRecs
  <2>3. c = [d EXCEPT !.pc = "write", !.op = "gate", !.result = verdict]
    BY <1>5, <2>1
  <2> QED
    BY <2>2, <2>3 DEF Orderly, CallRecs, Changes, StepStatuses
<1>6. ASSUME NEW s \in StepSet, c = [Call("request", "lookup") EXCEPT !.step = s], s \in NeedApproval
      PROVE  Orderly(c)
  BY <1>6, CallType, SMTT(20) DEF Orderly, CallRecs, Changes
<1>7. ASSUME NEW i \in DOMAIN approval, NEW u \in Users, NEW verdict \in {"approve", "reject"},
             c = [Call(verdict, "select") EXCEPT !.user = u, !.step = approval[i].step,
                                                 !.approval = approval[i].id]
      PROVE  Orderly(c)
  <2>1. approval[i].step \in StepSet /\ approval[i].id \in Approvals
    BY RowTypes DEF ApprovalRecs, RolloutAssumption
  <2>2. Call(verdict, "select") \in CallRecs /\ Call(verdict, "select").op = verdict
        /\ Call(verdict, "select").pc = "select"
    BY CallType DEF Changes
  <2> QED
    BY <1>7, <2>1, <2>2 DEF Orderly, CallRecs
<1>8. CASE c = [Idle EXCEPT !.pc = "expire", !.overdue = Overdue]
  <2>1. Overdue \subseteq Approvals
    BY CreatedIsApproval DEF Overdue
  <2> QED
    BY <1>8, <2>1, IdleType DEF Orderly, CallRecs
<1> QED
  BY <1>1, <1>2, <1>4, <1>5, <1>6, <1>7, <1>8 DEF Started

\* The approvals a call may find.
Found(c) == IF c.op = "run" /\ c.plan.approval[c.step] # NoApproval
            THEN {c.plan.approval[c.step]} ELSE Pending(c.step)

\* Where a call goes on: back to idle, or on with what it holds.
Continued(c, d) ==
    \/ d = Idle
    \/ c.pc = "lookup" /\ d = [c EXCEPT !.pc = "create"]
    \/ /\ c.pc = "lookup" /\ c.op = "run" /\ d = [c EXCEPT !.pc = "execute"]
       /\ \E a \in Found(c) : Row(a).status = "approved"
    \/ /\ c.pc \in {"lookup", "create"}
       /\ \E a \in Approvals, status \in {"failed", "blocked"} :
             /\ d = [c EXCEPT !.pc = "write", !.approval = a, !.result = status]
             /\ c.pc = "lookup" => a \in Found(c)
             /\ c.pc = "create" => \E i \in DOMAIN approval' : approval'[i].id = a /\ approval'[i].step = c.step
    \/ /\ c.pc = "execute"
       /\ \E status \in {"succeeded", "failed"} :
             /\ d = [c EXCEPT !.pc = "write", !.approval = NoApproval, !.result = status]
             /\ status = "succeeded" => c.step \in done'
    \/ /\ c.pc = "select" /\ d = [c EXCEPT !.pc = "update", !.approvers = Row(c.approval).approvers]
       /\ ~Contains(Row(c.approval).approvers, c.user)
    \/ /\ c.pc = "update"
       /\ \E status \in {"failed", "pending"} : d = [c EXCEPT !.pc = "write", !.result = status]

Step(w) == \/ LookUpApproval(w) \/ CreateApproval(w) \/ Execute(w) \/ SelectApproval(w)
           \/ UpdateApproval(w) \/ ExpireApproval(w) \/ WritePlan(w) \/ Crash(w)

\* Every step of a call but its first moves it on.
LEMMA StepsContinue ==
    ASSUME RolloutAssumption, TypedData, NEW w \in Workers, Orderly(worker[w]), Step(w)
    PROVE  \E d : Goto(w, d) /\ Continued(worker[w], d)
<1>1. PICK c : c = worker[w]
  OBVIOUS
<1>2. c \in CallRecs /\ (c.pc \in {"lookup", "create"} => c.op \in {"run", "request"} /\ c.step \in NeedApproval)
  BY <1>1 DEF Orderly
<1>3. CASE Return(w)
  BY <1>3 DEF Return, Continued
<1>4. ASSUME NEW a \in Approvals, NEW status \in {"failed", "blocked"}, Result(w, a, status),
             c.pc \in {"lookup", "create"}, c.pc = "lookup" => a \in Found(c),
             c.pc = "create" => \E i \in DOMAIN approval' : approval'[i].id = a /\ approval'[i].step = c.step
      PROVE  \E d : Goto(w, d) /\ Continued(c, d)
  <2>1. PICK d : d = [c EXCEPT !.pc = "write", !.approval = a, !.result = status]
    OBVIOUS
  <2>2. Goto(w, d)
    BY <1>1, <1>4, <2>1 DEF Result
  <2>3. Continued(c, d)
    BY <1>4, <2>1 DEF Continued
  <2> QED
    BY <2>2, <2>3
<1>5. CASE LookUpApproval(w)
  <2>1. c.pc = "lookup" /\ Existing(w) = Found(c)
    BY <1>1, <1>5 DEF LookUpApproval, At, Existing, Found
  <2>2. Found(c) \subseteq Approvals
    <3>1. c.op = "run" /\ c.plan.approval[c.step] # NoApproval => c.plan.approval[c.step] \in Approvals
      BY <1>2, <2>1 DEF CallRecs, Plans, RolloutAssumption
    <3>2. Pending(c.step) \subseteq Approvals
      BY CreatedIsApproval DEF Pending
    <3> QED
      BY <3>1, <3>2 DEF Found
  <2>3. \/ Goto(w, [c EXCEPT !.pc = "create"])
        \/ \E a \in Found(c) : \/ Return(w)
                               \/ /\ c.op # "request" /\ Sanctions(a) /\ Goto(w, [c EXCEPT !.pc = "execute"])
                               \/ Result(w, a, "failed") \/ Result(w, a, "blocked")
    BY <1>1, <1>5, <2>1 DEF LookUpApproval
  <2>4. CASE Goto(w, [c EXCEPT !.pc = "create"])
    <3>1. PICK d : d = [c EXCEPT !.pc = "create"]
      OBVIOUS
    <3>2. Goto(w, d) /\ Continued(c, d)
      BY <2>1, <2>4, <3>1 DEF Continued
    <3> QED
      BY <1>1, <3>2
  <2>5. ASSUME NEW a \in Found(c), c.op # "request", Sanctions(a), Goto(w, [c EXCEPT !.pc = "execute"])
        PROVE  \E d : Goto(w, d) /\ Continued(c, d)
    BY <1>2, <2>1, <2>5 DEF Continued, Sanctions
  <2>6. ASSUME NEW a \in Found(c), Result(w, a, "failed") \/ Result(w, a, "blocked")
        PROVE  \E d : Goto(w, d) /\ Continued(c, d)
    BY <1>4, <2>1, <2>2, <2>6
  <2> QED
    BY <1>1, <1>3, <2>3, <2>4, <2>5, <2>6
<1>6. CASE CreateApproval(w)
  <2>1. PICK a \in Approvals \ Created, u \in Users :
           approval' = Append(approval, NewApproval(w, a, u)) /\ Result(w, a, "blocked")
    BY <1>6 DEF CreateApproval
  <2>2. c.pc = "create"
    BY <1>1, <1>6 DEF CreateApproval, At
  <2>3. PICK new : new = NewApproval(w, a, u)
    OBVIOUS
  <2>4. new.id = a /\ new.step = c.step
    BY <1>1, <2>3 DEF NewApproval
  <2>5. Len(approval) + 1 \in DOMAIN approval' /\ approval'[Len(approval) + 1] = new
    BY <2>1, <2>3 DEF TypedData
  <2> QED
    BY <1>1, <1>4, <2>1, <2>2, <2>4, <2>5
<1>7. CASE Execute(w)
  <2>1. PICK status \in {"succeeded", "failed"} :
           Result(w, NoApproval, status) /\ (status = "succeeded" => c.step \in done')
    BY <1>1, <1>7 DEF Execute
  <2>2. PICK d : d = [c EXCEPT !.pc = "write", !.approval = NoApproval, !.result = status]
    OBVIOUS
  <2>3. Goto(w, d) /\ c.pc = "execute"
    BY <1>1, <1>7, <2>1, <2>2 DEF Result, Execute, At
  <2> QED
    BY <1>1, <2>1, <2>2, <2>3 DEF Continued
<1>8. CASE SelectApproval(w)
  <2>1. PICK row : row = Row(c.approval)
    OBVIOUS
  <2>2. \/ Return(w)
        \/ ~Contains(row.approvers, c.user) /\ Goto(w, [c EXCEPT !.pc = "update", !.approvers = row.approvers])
    BY <1>1, <1>8, <2>1 DEF SelectApproval
  <2>3. c.pc = "select"
    BY <1>1, <1>8 DEF SelectApproval, At
  <2>4. CASE ~Contains(row.approvers, c.user) /\ Goto(w, [c EXCEPT !.pc = "update", !.approvers = row.approvers])
    BY <1>1, <2>1, <2>3, <2>4 DEF Continued
  <2> QED
    BY <1>3, <2>2, <2>4
<1>9. CASE UpdateApproval(w)
  <2>1. c.pc = "update"
    BY <1>1, <1>9 DEF UpdateApproval, At
  <2>2. Return(w) \/ \E status \in {"failed", "pending"} : Goto(w, [c EXCEPT !.pc = "write", !.result = status])
    BY <1>1, <1>9 DEF UpdateApproval
  <2>3. CASE \E status \in {"failed", "pending"} : Goto(w, [c EXCEPT !.pc = "write", !.result = status])
    BY <1>1, <2>1, <2>3 DEF Continued
  <2> QED
    BY <1>3, <2>2, <2>3
<1>10. CASE ExpireApproval(w) \/ WritePlan(w) \/ Crash(w)
  BY <1>3, <1>10 DEF ExpireApproval, WritePlan, Crash
<1> QED
  BY <1>5, <1>6, <1>7, <1>8, <1>9, <1>10 DEF Step

LEMMA ContinuedIsOrderly ==
    ASSUME RolloutAssumption, TypedData, NEW c, NEW d, Orderly(c), Continued(c, d),
           c.pc = "select" => c.approval \in Created
    PROVE  Orderly(d)
<1> USE DEF Orderly, CallRecs, Places
<1>1. CASE d = Idle
  BY <1>1, IdleIsOrderly
<1>2. CASE c.pc = "lookup" /\ d = [c EXCEPT !.pc = "create"]
  BY <1>2
<1>3. CASE c.pc = "lookup" /\ c.op = "run" /\ d = [c EXCEPT !.pc = "execute"]
  BY <1>3 DEF RolloutAssumption
<1>4. ASSUME c.pc \in {"lookup", "create"}, NEW a \in Approvals, NEW status \in {"failed", "blocked"},
             d = [c EXCEPT !.pc = "write", !.approval = a, !.result = status]
      PROVE  Orderly(d)
  BY <1>4 DEF RolloutAssumption, Changes, StepStatuses
<1>5. ASSUME c.pc = "execute", NEW status \in {"succeeded", "failed"},
             d = [c EXCEPT !.pc = "write", !.approval = NoApproval, !.result = status]
      PROVE  Orderly(d)
  BY <1>5 DEF Changes, StepStatuses
<1>6. CASE c.pc = "select" /\ d = [c EXCEPT !.pc = "update", !.approvers = Row(c.approval).approvers]
  <2>1. Row(c.approval).approvers \in Seq(Users)
    BY <1>6, RowIsThere, RowTypes DEF ApprovalRecs
  <2> QED
    BY <1>6, <2>1
<1>7. ASSUME c.pc = "update", NEW status \in {"failed", "pending"}, d = [c EXCEPT !.pc = "write", !.result = status]
      PROVE  Orderly(d)
  BY <1>7 DEF Changes, StepStatuses
<1> QED
  BY <1>1, <1>2, <1>3, <1>4, <1>5, <1>6, <1>7 DEF Continued

\* Approvals are only added, and keep what they are about.
LEMMA RowsStay ==
    ASSUME RolloutAssumption, RolloutInv, [Next]_vars
    PROVE  /\ \A i \in DOMAIN approval :
                 /\ i \in DOMAIN approval' /\ approval'[i].id = approval[i].id /\ approval'[i].step = approval[i].step
                 /\ approval'[i].requester = approval[i].requester /\ approval'[i].required = approval[i].required
           /\ Created \subseteq Created'
<1> SUFFICES ASSUME NEW i \in DOMAIN approval
             PROVE  /\ i \in DOMAIN approval' /\ approval'[i].id = approval[i].id
                    /\ approval'[i].step = approval[i].step
                    /\ approval'[i].requester = approval[i].requester /\ approval'[i].required = approval[i].required
  BY DEF Created
<1>0. TypedData /\ approval[i] \in ApprovalRecs
  BY RowTypes DEF RolloutInv
<1>1. CASE UNCHANGED approval
  BY <1>1
<1>2. CASE \E new : approval' = Append(approval, new)
  BY <1>0, <1>2 DEF TypedData
<1>3. ASSUME NEW S, NEW now, NEW status, approval' = [j \in DOMAIN approval |->
                 IF approval[j].id \notin S THEN approval[j]
                 ELSE [approval[j] EXCEPT !.approvers = now, !.status = status]]
      PROVE  /\ i \in DOMAIN approval' /\ approval'[i].id = approval[i].id
             /\ approval'[i].step = approval[i].step
             /\ approval'[i].requester = approval[i].requester /\ approval'[i].required = approval[i].required
  BY <1>0, <1>3 DEF ApprovalRecs
<1>4. ASSUME NEW w \in Workers, UpdateApproval(w)
      PROVE  /\ i \in DOMAIN approval' /\ approval'[i].id = approval[i].id
             /\ approval'[i].step = approval[i].step
             /\ approval'[i].requester = approval[i].requester /\ approval'[i].required = approval[i].required
  <2>1. PICK c : c = worker[w]
    OBVIOUS
  <2>2. PICK now : now = IF c.op = "approve" THEN Append(c.approvers, c.user) ELSE c.approvers
    OBVIOUS
  <2>3. PICK verdict : verdict = Evaluated(c.op, Len(now), Row(c.approval).required)
    OBVIOUS
  <2>4. approval' = Updated(c, now, verdict)
    BY <1>4, <2>1, <2>2, <2>3 DEF UpdateApproval, Updated
  <2> QED
    BY <1>0, <2>4 DEF ApprovalRecs, Updated
<1>5. CASE \E w \in Workers : UpdateApproval(w)
  BY <1>4, <1>5
<1>6. CASE \E w \in Workers : ExpireApproval(w)
  BY <1>0, <1>6 DEF ExpireApproval, ApprovalRecs
<1>7. CASE TimePasses
  BY <1>0, <1>7 DEF TimePasses, ApprovalRecs, TypedData
<1>8. CASE \E w \in Workers : CreateApproval(w)
  BY <1>2, <1>8 DEF CreateApproval
<1>9. CASE \E w \in Workers : Entry(w)
  BY <1>1, <1>9, EntryStarts DEF Enter
<1>10. CASE \/ UNCHANGED vars
            \/ \E w \in Workers : LookUpApproval(w) \/ Execute(w) \/ SelectApproval(w) \/ WritePlan(w) \/ Crash(w)
  BY <1>1, <1>10 DEF vars, LookUpApproval, Execute, SelectApproval, WritePlan, Crash
<1> QED
  BY <1>5, <1>6, <1>7, <1>8, <1>9, <1>10 DEF Next, Entry

\* What a step does to the call of a worker and to those of the others.
LEMMA StepMoves ==
    ASSUME RolloutAssumption, RolloutInv, NEW w \in Workers, Entry(w) \/ Step(w)
    PROVE  \E d : /\ Goto(w, d) /\ Orderly(d) /\ worker'[w] = d
                  /\ \A v \in Workers \ {w} : worker'[v] = worker[v]
                  /\ Started(d) \/ Continued(worker[w], d)
                  /\ TypedWorkers'
<1>1. TypedData /\ TypedWorkers /\ Orderly(worker[w]) /\ (worker[w].pc = "select" => worker[w].approval \in Created)
  BY DEF RolloutInv, TypedWorkers, Known
<1>2. PICK d : Goto(w, d) /\ Orderly(d) /\ (Started(d) \/ Continued(worker[w], d))
  <2>1. CASE Entry(w)
    BY <1>1, <2>1, EntryStarts, StartedIsOrderly DEF Enter, Goto
  <2>2. CASE Step(w)
    BY <1>1, <2>2, StepsContinue, ContinuedIsOrderly
  <2> QED
    BY <2>1, <2>2
<1>3. worker'[w] = d /\ TypedWorkers' /\ \A v \in Workers \ {w} : worker'[v] = worker[v]
  BY <1>1, <1>2, Moved
<1> QED
  BY <1>2, <1>3

LEMMA StepWorkers ==
    ASSUME RolloutAssumption, RolloutInv, [Next]_vars
    PROVE  TypedWorkers' /\ \A w \in Workers : Known(worker[w])'
<1>1. CASE UNCHANGED worker
  BY <1>1, RowsStay DEF RolloutInv, TypedWorkers, Known
<1>2. ASSUME NEW w \in Workers, Entry(w) \/ Step(w)
      PROVE  TypedWorkers' /\ \A v \in Workers : Known(worker[v])'
  <2>1. PICK d : /\ worker'[w] = d /\ \A v \in Workers \ {w} : worker'[v] = worker[v]
                 /\ Started(d) \/ Continued(worker[w], d)
                 /\ TypedWorkers'
    BY <1>2, StepMoves
  <2>2. Known(d)
    <3>1. ASSUME Started(d), d.pc \in {"select", "update"} PROVE d.approval \in Created
      <4>1. ASSUME NEW i \in DOMAIN approval, NEW u \in Users, NEW verdict \in {"approve", "reject"},
                   d = [Call(verdict, "select") EXCEPT !.user = u, !.step = approval[i].step,
                                                       !.approval = approval[i].id]
            PROVE  d.approval = approval[i].id
        BY <4>1 DEF Call, Idle
      <4>2. \E i \in DOMAIN approval, u \in Users, verdict \in {"approve", "reject"} :
               d = [Call(verdict, "select") EXCEPT !.user = u, !.step = approval[i].step,
                                                   !.approval = approval[i].id]
        BY <3>1, ZenonT(40) DEF Started, Call, Idle, Lookup
      <4> QED
        BY <4>1, <4>2 DEF Created
    <3>2. ASSUME Continued(worker[w], d), d.pc \in {"select", "update"}
          PROVE  d.approval \in Created
      <4>1. PICK c : c = worker[w]
        OBVIOUS
      <4>2. c \in CallRecs /\ (c.pc = "select" => c.approval \in Created)
        BY <4>1 DEF RolloutInv, TypedWorkers, Orderly, Known
      <4>3. CASE c.pc = "select" /\ \E x : d = [c EXCEPT !.pc = "update", !.approvers = x]
        BY <4>2, <4>3 DEF CallRecs
      <4>4. CASE d = Idle
        BY <3>2, <4>4 DEF Idle
      <4>5. CASE \E place \in {"create", "execute"} : d = [c EXCEPT !.pc = place]
        BY <3>2, <4>2, <4>5 DEF CallRecs
      <4>6. CASE \E a, status : d = [c EXCEPT !.pc = "write", !.approval = a, !.result = status]
        BY <3>2, <4>2, <4>6 DEF CallRecs
      <4>7. CASE \E status : d = [c EXCEPT !.pc = "write", !.result = status]
        BY <3>2, <4>2, <4>7 DEF CallRecs
      <4> QED
        BY <3>2, <4>1, <4>3, <4>4, <4>5, <4>6, <4>7 DEF Continued
    <3> QED
      BY <2>1, <3>1, <3>2 DEF Known
  <2>3. Known(worker[w])'
    BY <2>1, <2>2, RowsStay, <1>2 DEF Known, Next, Entry, Step
  <2>4. ASSUME NEW v \in Workers \ {w} PROVE Known(worker[v])'
    BY <2>1, RowsStay, <1>2 DEF Known, Next, Entry, Step, RolloutInv
  <2> QED
    BY <2>1, <2>3, <2>4
<1>3. CASE TimePasses \/ UNCHANGED vars
  BY <1>1, <1>3 DEF TimePasses, vars
<1> QED
  BY <1>2, <1>3 DEF Next, Entry, Step

\* The inductive invariant of the types.
THEOREM RolloutInvHolds == Spec => []RolloutInv
<1>1. RolloutInv /\ [Next]_vars => RolloutInv'
  BY RolloutAssumption, StepTypedData, StepWorkers DEF RolloutInv
<1> QED
  BY <1>1, RolloutAssumption, InitRolloutInv, PTL DEF Spec

\* Types hold in every reachable state: every row that a stale call writes back
\* is a plan, and every decision leaves an approval.
THEOREM RolloutTypeCorrect == Spec => []RolloutTypeOK
<1>1. RolloutInv => RolloutTypeOK
  <2> SUFFICES ASSUME RolloutInv PROVE RolloutTypeOK
    OBVIOUS
  <2>1. \A i \in DOMAIN approval : approval[i] \in ApprovalRecs
    BY RowTypes DEF RolloutInv
  <2>2. \A w \in Workers : worker[w] \in CallRecs
    BY DEF RolloutInv, TypedWorkers, Orderly
  <2> QED
    BY <2>1, <2>2 DEF RolloutInv, TypedData, RolloutTypeOK, ApprovalRecs, CallRecs
<1> QED
  BY <1>1, RolloutInvHolds, PTL

-----------------------------------------------------------------------------
(* The plan and its copies.  What they say of a step is true, however old  *)
(* the copy: a step that succeeded or was skipped stays so.                *)
TruePlan(p) ==
    /\ \A s \in StepSet : /\ p.step[s] = "succeeded" => s \in done
                          /\ p.step[s] = "skipped" => s \in skipped
    /\ p.status = "completed" => done \cup skipped = StepSet

CanRun(s) == Prev[s] \in done \cup {NoStep}

\* What a call knows.
Informed(c) ==
    /\ TruePlan(c.plan)
    /\ c.op = "run" /\ c.pc \in {"lookup", "create", "execute"} => CanRun(c.step)
    /\ c.pc = "write" /\ c.result = "succeeded" => c.step \in done
    /\ c.pc = "write" /\ c.result = "skipped" => c.op = "gate" /\ CanRun(c.step)

TruthInv == TruePlan(plan) /\ \A w \in Workers : Informed(worker[w])

LEMMA TruthGrows ==
    ASSUME RolloutAssumption, RolloutInv, [Next]_vars
    PROVE  /\ done \subseteq done' /\ skipped \subseteq skipped'
           /\ done' \subseteq StepSet /\ skipped' \subseteq StepSet
<1>1. done' \subseteq StepSet /\ skipped' \subseteq StepSet
  BY StepTypedData DEF TypedData
<1>2. CASE UNCHANGED <<done, skipped>>
  BY <1>1, <1>2
<1>3. CASE \E w \in Workers : Execute(w)
  BY <1>1, <1>3 DEF Execute
<1>4. CASE \E w \in Workers : WritePlan(w)
  BY <1>1, <1>4 DEF WritePlan
<1>5. CASE \E w \in Workers : Entry(w)
  BY <1>2, <1>5, EntryStarts DEF Enter, histVars
<1>6. CASE \/ UNCHANGED vars
           \/ TimePasses
           \/ \E w \in Workers : \/ LookUpApproval(w) \/ CreateApproval(w) \/ SelectApproval(w)
                                 \/ UpdateApproval(w) \/ ExpireApproval(w) \/ Crash(w)
  BY <1>2, <1>6 DEF vars, histVars, TimePasses, LookUpApproval, CreateApproval, SelectApproval,
     UpdateApproval,
     ExpireApproval, Crash
<1> QED
  BY <1>3, <1>4, <1>5, <1>6 DEF Next, Entry

LEMMA TrueStays ==
    ASSUME RolloutAssumption, RolloutInv, [Next]_vars, NEW p, TruePlan(p)
    PROVE  TruePlan(p)'
BY TruthGrows DEF TruePlan

LEMMA StartedIsInformed ==
    ASSUME RolloutAssumption, RolloutInv, TruthInv, NEW d, Started(d)
    PROVE  Informed(d)
<1> USE DEF Informed
<1>1. TruePlan(plan) /\ TypedData
  BY DEF TruthInv, RolloutInv
<1>2. TruePlan(NewPlan)
  BY DEF TruePlan, NewPlan
<1>3. ASSUME NEW s \in StepSet, PrevDone(plan, s) PROVE CanRun(s)
  BY <1>1, <1>3 DEF PrevDone, CanRun, TruePlan, RolloutAssumption
<1>4. CASE \/ d = [Call("start", "write") EXCEPT !.result = "active"]
           \/ d = [Call("cancel", "write") EXCEPT !.result = "cancelled"]
  BY <1>1, <1>4 DEF Call, Idle
<1>5. ASSUME NEW s \in StepSet, PrevDone(plan, s), d = [Call("run", Lookup(s)) EXCEPT !.step = s]
      PROVE  Informed(d)
  BY <1>1, <1>3, <1>5 DEF Call, Idle, Lookup
<1>6. ASSUME NEW s \in StepSet, PrevDone(plan, s), NEW verdict \in {"blocked", "failed", "skipped"},
             d = [[Call("run", Lookup(s)) EXCEPT !.step = s]
                    EXCEPT !.pc = "write", !.op = "gate", !.result = verdict]
      PROVE  Informed(d)
  BY <1>1, <1>3, <1>6 DEF Call, Idle
<1>7. ASSUME NEW s \in StepSet, d = [Call("request", "lookup") EXCEPT !.step = s]
      PROVE  Informed(d)
  BY <1>1, <1>7 DEF Call, Idle
<1>8. ASSUME NEW i \in DOMAIN approval, NEW u \in Users, NEW verdict \in {"approve", "reject"},
             d = [Call(verdict, "select") EXCEPT !.user = u, !.step = approval[i].step,
                                                 !.approval = approval[i].id]
      PROVE  Informed(d)
  BY <1>1, <1>8 DEF Call, Idle
<1>9. CASE d = [Idle EXCEPT !.pc = "expire", !.overdue = Overdue]
  BY <1>2, <1>9 DEF Idle
<1> QED
  BY <1>4, <1>5, <1>6, <1>7, <1>8, <1>9 DEF Started

LEMMA ContinuedIsInformed ==
    ASSUME RolloutAssumption, RolloutInv, TruthInv, [Next]_vars, NEW c \in CallRecs, Informed(c), NEW d, Continued(c, d)
    PROVE  Informed(d)'
<1>1. TruePlan(c.plan)' /\ TruePlan(NewPlan)' /\ (CanRun(c.step) => CanRun(c.step)')
  BY TrueStays, TruthGrows DEF Informed, TruePlan, NewPlan, CanRun
<1>2. CASE d = Idle
  BY <1>1, <1>2 DEF Informed, Idle
<1>3. ASSUME NEW place \in {"create", "execute"}, c.pc = "lookup", d = [c EXCEPT !.pc = place]
      PROVE  Informed(d)'
  <2>1. d.plan = c.plan /\ d.op = c.op /\ d.step = c.step /\ d.pc = place
    BY <1>3 DEF CallRecs
  <2> QED
    BY <1>1, <1>3, <2>1 DEF Informed, TruePlan, CanRun
<1>4. ASSUME NEW a, NEW status \in {"failed", "blocked"},
             d = [c EXCEPT !.pc = "write", !.approval = a, !.result = status]
      PROVE  Informed(d)'
  <2>1. d.plan = c.plan /\ d.pc = "write" /\ d.result = status
    BY <1>4 DEF CallRecs
  <2> QED
    BY <1>1, <2>1 DEF Informed, TruePlan
<1>5. ASSUME NEW status \in {"succeeded", "failed"}, status = "succeeded" => c.step \in done',
             d = [c EXCEPT !.pc = "write", !.approval = NoApproval, !.result = status]
      PROVE  Informed(d)'
  <2>1. d.plan = c.plan /\ d.pc = "write" /\ d.result = status /\ d.step = c.step
    BY <1>5 DEF CallRecs
  <2> QED
    BY <1>1, <1>5, <2>1 DEF Informed, TruePlan
<1>6. ASSUME NEW x, d = [c EXCEPT !.pc = "update", !.approvers = x]
      PROVE  Informed(d)'
  <2>1. d.plan = c.plan /\ d.pc = "update"
    BY <1>6 DEF CallRecs
  <2> QED
    BY <1>1, <2>1 DEF Informed, TruePlan
<1>7. ASSUME NEW status \in {"failed", "pending"}, d = [c EXCEPT !.pc = "write", !.result = status]
      PROVE  Informed(d)'
  <2>1. d.plan = c.plan /\ d.pc = "write" /\ d.result = status
    BY <1>7 DEF CallRecs
  <2> QED
    BY <1>1, <2>1 DEF Informed, TruePlan
<1> QED
  BY <1>2, <1>3, <1>4, <1>5, <1>6, <1>7 DEF Continued

\* What a call writes is as true as what it read.
LEMMA WrittenIsTrue ==
    ASSUME RolloutAssumption, RolloutInv, TruthInv, [Next]_vars, NEW w \in Workers, WritePlan(w)
    PROVE  TruePlan(plan)'
<1>1. PICK c : c = worker[w]
  OBVIOUS
<1>2. Orderly(c) /\ c \in CallRecs /\ c.plan \in Plans /\ c.pc = "write" /\ Informed(c)
  BY <1>1 DEF RolloutInv, TypedWorkers, Orderly, CallRecs, TruthInv, WritePlan, At
<1>3. /\ plan' = Written(c)
      /\ skipped' = IF c.op = "gate" /\ c.result = "skipped" THEN skipped \cup {c.step} ELSE skipped
  BY <1>1 DEF WritePlan
<1>4. TruePlan(c.plan)'
  BY <1>2, TrueStays DEF Informed
<1>5. PICK p : p = plan'
  OBVIOUS
<1>6. CASE c.op \in {"start", "cancel"} /\ c.step = NoStep /\ c.result \in {"active", "cancelled"}
  <2>1. p.step = c.plan.step /\ p.status = c.result
    BY <1>2, <1>3, <1>5, <1>6 DEF Written, StatusAfter, Plans
  <2> QED
    BY <1>4, <1>5, <1>6, <2>1 DEF TruePlan
<1>7. CASE c.op \in Changes /\ c.step \in StepSet /\ c.result \in StepStatuses
  <2>1. c.step # NoStep
    BY <1>7 DEF RolloutAssumption
  <2>2. PICK a : a = IF c.op \in {"run", "request"} /\ c.approval # NoApproval THEN c.approval
                     ELSE c.plan.approval[c.step]
    OBVIOUS
  <2>3. PICK q : q = [c.plan EXCEPT !.step[c.step] = c.result, !.approval[c.step] = a]
    OBVIOUS
  <2>4. /\ \A s \in StepSet : q.step[s] = IF s = c.step THEN c.result ELSE c.plan.step[s]
        /\ q.status = c.plan.status
    BY <1>2, <1>7, <2>3 DEF Plans
  <2>5. /\ p = [q EXCEPT !.status = StatusAfter(c, q)]
        /\ p.step = q.step /\ p.status = StatusAfter(c, q)
    <3>1. p = [q EXCEPT !.status = StatusAfter(c, q)]
      BY <1>2, <1>3, <1>5, <2>1, <2>2, <2>3 DEF Written, Plans
    <3> QED
      BY <1>2, <2>3, <3>1 DEF Plans
  <2>6. \A s \in StepSet : /\ p.step[s] = "succeeded" => s \in done'
                           /\ p.step[s] = "skipped" => s \in skipped'
    BY <1>2, <1>3, <1>4, <2>4, <2>5, TruthGrows DEF Informed, TruePlan
  <2>7. p.status = "completed" => done' \cup skipped' = StepSet
    <3>1. ASSUME p.status = "completed"
          PROVE  q.status = "completed" \/ All(q, {"succeeded", "skipped"})
      BY <1>7, <2>5, <3>1 DEF StatusAfter, All, StepStatuses
    <3>2. All(q, {"succeeded", "skipped"}) => done' \cup skipped' = StepSet
      BY <2>5, <2>6, TruthGrows DEF All
    <3> QED
      BY <1>4, <2>4, <3>1, <3>2 DEF TruePlan
  <2> QED
    BY <1>5, <2>6, <2>7 DEF TruePlan
<1> QED
  BY <1>2, <1>6, <1>7 DEF Orderly

LEMMA PlanStaysTrue ==
    ASSUME RolloutAssumption, RolloutInv, TruthInv, [Next]_vars
    PROVE  TruePlan(plan)'
<1>1. CASE UNCHANGED plan
  <2>1. PICK p : p = plan
    OBVIOUS
  <2>2. TruePlan(p)'
    BY <2>1, TrueStays DEF TruthInv
  <2> QED
    BY <1>1, <2>1, <2>2 DEF TruePlan
<1>2. CASE \E w \in Workers : WritePlan(w)
  BY <1>2, WrittenIsTrue
<1>3. CASE \E w \in Workers : Entry(w)
  BY <1>1, <1>3, EntryStarts DEF Enter
<1>4. CASE \/ UNCHANGED vars
           \/ TimePasses
           \/ \E w \in Workers : \/ LookUpApproval(w) \/ CreateApproval(w) \/ Execute(w) \/ SelectApproval(w)
                                 \/ UpdateApproval(w) \/ ExpireApproval(w) \/ Crash(w)
  BY <1>1, <1>4
     DEF vars, histVars, TimePasses, LookUpApproval, CreateApproval, Execute, SelectApproval,
     UpdateApproval, ExpireApproval, Crash
<1> QED
  BY <1>2, <1>3, <1>4 DEF Next, Entry

LEMMA CallsStayInformed ==
    ASSUME RolloutAssumption, RolloutInv, TruthInv, [Next]_vars, NEW v \in Workers
    PROVE  Informed(worker[v])'
<1>1. PICK c : c = worker[v]
  OBVIOUS
<1>2. Informed(c) /\ c \in CallRecs
  BY <1>1 DEF TruthInv, RolloutInv, TypedWorkers, Orderly
<1>3. Informed(c)'
  BY <1>2, TrueStays, TruthGrows DEF Informed, CanRun
<1>4. CASE worker'[v] = c
  BY <1>3, <1>4 DEF Informed, TruePlan, CanRun
<1>5. ASSUME NEW w \in Workers, Entry(w) \/ Step(w) PROVE Informed(worker[v])'
  <2>1. PICK d : /\ worker'[w] = d /\ \A u \in Workers \ {w} : worker'[u] = worker[u]
                 /\ Started(d) \/ Continued(worker[w], d)
    BY <1>5, StepMoves
  <2>2. CASE v # w
    BY <1>1, <1>4, <2>1, <2>2
  <2>3. CASE v = w /\ Continued(c, d)
    <3>1. Informed(d)'
      BY <1>2, <2>3, ContinuedIsInformed
    <3> QED
      BY <2>1, <2>3, <3>1 DEF Informed, TruePlan, CanRun
  <2>4. CASE v = w /\ Started(d)
    <3>1. Informed(d)
      BY <2>4, StartedIsInformed
    <3>2. Informed(d)'
      BY <3>1, TrueStays, TruthGrows DEF Informed, CanRun
    <3> QED
      BY <2>1, <2>4, <3>2 DEF Informed, TruePlan, CanRun
  <2> QED
    BY <1>1, <2>1, <2>2, <2>3, <2>4
<1>6. CASE UNCHANGED worker
  BY <1>1, <1>4, <1>6
<1> QED
  BY <1>5, <1>6 DEF Next, Entry, Step, TimePasses, vars

LEMMA TruthInvHolds == Spec => []TruthInv
<1>1. Init => TruthInv
  BY DEF Init, TruthInv, TruePlan, Informed, NewPlan, Idle
<1>2. RolloutInv /\ TruthInv /\ [Next]_vars => TruthInv'
  BY RolloutAssumption, PlanStaysTrue, CallsStayInformed DEF TruthInv
<1> QED
  BY <1>1, <1>2, RolloutInvHolds, PTL DEF Spec

LEMMA StepKeepsPromise ==
    ASSUME RolloutAssumption, RolloutInv, TruthInv, [Next]_vars
    PROVE  [Promise!Advance]_<<plan.status, done, skipped>>
<1>1. TruePlan(plan)' /\ TypedData'
  BY PlanStaysTrue, StepTypedData
<1>2. plan'.status \in Promise!Statuses
  BY <1>1 DEF TypedData, Plans, PlanStatuses, Promise!Statuses
<1>3. plan'.status = "completed" => done' \cup skipped' = StepSet
  BY <1>1 DEF TruePlan
<1>4. CASE UNCHANGED <<done, skipped>>
  <2>1. \E s \in StepSet : TRUE
    BY DEF StepSet, RolloutAssumption
  <2> QED
    BY <1>2, <1>3, <1>4, <2>1 DEF Promise!Advance
<1>5. ASSUME NEW w \in Workers, Execute(w) PROVE Promise!Advance \/ UNCHANGED <<done, skipped>>
  <2>1. worker[w].step \in StepSet /\ CanRun(worker[w].step)
    BY <1>5 DEF Execute, At, TruthInv, Informed, RolloutInv, TypedWorkers, Orderly
  <2>2. skipped' = skipped /\ (done' = done \/ done' = done \cup {worker[w].step})
    BY <1>5 DEF Execute
  <2> QED
    BY <1>2, <1>3, <2>1, <2>2 DEF Promise!Advance, Promise!Ready, CanRun
<1>6. ASSUME NEW w \in Workers, WritePlan(w) PROVE Promise!Advance \/ UNCHANGED <<done, skipped>>
  <2>1. /\ done' = done
        /\ \/ skipped' = skipped
           \/ worker[w].result = "skipped" /\ skipped' = skipped \cup {worker[w].step}
    BY <1>6 DEF WritePlan
  <2>2. worker[w].result = "skipped" => worker[w].step \in StepSet /\ CanRun(worker[w].step)
    BY <1>6 DEF WritePlan, At, TruthInv, Informed, RolloutInv, TypedWorkers, Orderly, Changes
  <2> QED
    BY <1>2, <1>3, <2>1, <2>2 DEF Promise!Advance, Promise!Ready, CanRun
<1>7. CASE \E w \in Workers : Entry(w)
  BY <1>4, <1>7, EntryStarts DEF Enter, histVars
<1>8. CASE \/ UNCHANGED vars
           \/ TimePasses
           \/ \E w \in Workers : \/ LookUpApproval(w) \/ CreateApproval(w) \/ SelectApproval(w)
                                 \/ UpdateApproval(w) \/ ExpireApproval(w) \/ Crash(w)
  BY <1>4, <1>8 DEF vars, histVars, TimePasses, LookUpApproval, CreateApproval, SelectApproval,
     UpdateApproval,
     ExpireApproval, Crash
<1> QED
  BY <1>4, <1>5, <1>6, <1>7, <1>8 DEF Next, Entry

\* The rollout keeps the promise on which federations rely, for any plan and any
\* interleaving: completed is written only of steps that succeeded or were
\* skipped, and no step does so before the one it requires has succeeded.
THEOREM ImplementsPromise == Spec => KeepsPromise
<1>1. Init => Promise!Init
  BY DEF Init, NewPlan, Promise!Init
<1>2. RolloutInv /\ TruthInv /\ [Next]_vars => [Promise!Advance]_<<plan.status, done, skipped>>
  BY RolloutAssumption, StepKeepsPromise
<1> QED
  BY <1>1, <1>2, RolloutInvHolds, TruthInvHolds, PTL DEF Spec, KeepsPromise, Promise!Spec

-----------------------------------------------------------------------------
(* Approvals.  The approvers that the row of an approval names are         *)
(* different users who voted, and not its requester; so a row that says    *)
(* approved has a quorum, and votes are never taken back.                  *)
Names(a, s) == \E i \in DOMAIN approval : approval[i].id = a /\ approval[i].step = s
Voters(i) == voted[approval[i].id] \ {approval[i].requester}
Quorum(i) == \E S \in SUBSET Voters(i) : Cardinality(S) = approval[i].required
Sanctioned(s) == \E i \in DOMAIN approval : approval[i].step = s /\ Quorum(i)

Honest(i, users) ==
    /\ \A k \in DOMAIN users : users[k] \in Voters(i)
    /\ \A k, l \in DOMAIN users : users[k] = users[l] => k = l

RowHonest(i) == Honest(i, approval[i].approvers)
RowsInv ==
    /\ \A i, j \in DOMAIN approval : approval[i].id = approval[j].id => i = j
    /\ \A i \in DOMAIN approval : /\ RowHonest(i)
                                  /\ approval[i].status = "approved" => Quorum(i)

Linked(p) == \A s \in StepSet : p.approval[s] # NoApproval => Names(p.approval[s], s)

\* What a call knows of approvals.
Decides(c, i) == /\ approval[i].id = c.approval /\ c.user # approval[i].requester
                 /\ c.pc = "update" => Honest(i, c.approvers) /\ ~Contains(c.approvers, c.user)
Aware(c) ==
    /\ Linked(c.plan)
    /\ c.pc = "write" /\ c.op \in {"run", "request"} /\ c.approval # NoApproval => Names(c.approval, c.step)
    /\ c.pc \in {"select", "update"} => \E i \in DOMAIN approval : Decides(c, i)
    /\ c.pc = "execute" /\ c.step \in NeedApproval => Sanctioned(c.step)

BallotInv ==
    /\ RowsInv
    /\ Linked(plan)
    /\ \A w \in Workers : Aware(worker[w])
    /\ \A s \in NeedApproval : attempts[s] > 0 => Sanctioned(s)

LEMMA RowOf ==
    ASSUME RowsInv, NEW i \in DOMAIN approval
    PROVE  approval[i].id \in Created /\ Row(approval[i].id) = approval[i]
BY DEF RowsInv, Created, Row

LEMMA VotesGrow ==
    ASSUME RolloutAssumption, RolloutInv, [Next]_vars, NEW a \in Approvals
    PROVE  voted[a] \subseteq voted'[a]
<1>1. CASE UNCHANGED voted
  BY <1>1
<1>2. CASE \E w \in Workers : UpdateApproval(w)
  <2>1. PICK x, u : voted' = voted \/ voted' = [voted EXCEPT ![x] = @ \cup {u}]
    BY <1>2 DEF UpdateApproval
  <2> QED
    BY <2>1 DEF RolloutInv, TypedData
<1>3. CASE \E w \in Workers : Entry(w)
  BY <1>1, <1>3, EntryStarts DEF Enter, histVars
<1>4. CASE \/ UNCHANGED vars
           \/ TimePasses
           \/ \E w \in Workers : \/ LookUpApproval(w) \/ CreateApproval(w) \/ Execute(w) \/ SelectApproval(w)
                                 \/ ExpireApproval(w) \/ WritePlan(w) \/ Crash(w)
  BY <1>1, <1>4
     DEF vars, histVars, TimePasses, LookUpApproval, CreateApproval, Execute, SelectApproval,
     ExpireApproval, WritePlan, Crash
<1> QED
  BY <1>2, <1>3, <1>4 DEF Next, Entry

\* What was once true of an approval stays so.
LEMMA ApprovalsStay ==
    ASSUME RolloutAssumption, RolloutInv, [Next]_vars
    PROVE  /\ \A i \in DOMAIN approval : i \in DOMAIN approval' /\ (Quorum(i) => Quorum(i)')
           /\ \A i \in DOMAIN approval : \A users : Honest(i, users) => Honest(i, users)'
           /\ \A a, s : Names(a, s) => Names(a, s)'
           /\ \A s : Sanctioned(s) => Sanctioned(s)'
<1>1. \A i \in DOMAIN approval :
          /\ i \in DOMAIN approval' /\ approval'[i].id = approval[i].id /\ approval'[i].step = approval[i].step
          /\ approval'[i].requester = approval[i].requester /\ approval'[i].required = approval[i].required
  BY RowsStay
<1>2. \A i \in DOMAIN approval : Voters(i) \subseteq Voters(i)'
  <2> SUFFICES ASSUME NEW i \in DOMAIN approval PROVE Voters(i) \subseteq Voters(i)'
    OBVIOUS
  <2>1. approval[i].id \in Approvals
    BY RowTypes DEF ApprovalRecs, RolloutInv
  <2> QED
    BY <1>1, <2>1, VotesGrow DEF Voters
<1>3. \A i \in DOMAIN approval : i \in DOMAIN approval' /\ (Quorum(i) => Quorum(i)')
  BY <1>1, <1>2 DEF Quorum
<1>4. \A i \in DOMAIN approval : \A users : Honest(i, users) => Honest(i, users)'
  BY <1>2 DEF Honest
<1>5. \A a, s : Names(a, s) => Names(a, s)'
  BY <1>1 DEF Names
<1>6. \A s : Sanctioned(s) => Sanctioned(s)'
  BY <1>1, <1>3 DEF Sanctioned
<1> QED
  BY <1>3, <1>4, <1>5, <1>6

LEMMA LinkedStays ==
    ASSUME RolloutAssumption, RolloutInv, [Next]_vars, NEW p, Linked(p)
    PROVE  Linked(p)'
BY ApprovalsStay DEF Linked

LEMMA AwareStays ==
    ASSUME RolloutAssumption, RolloutInv, [Next]_vars, NEW c, Aware(c)
    PROVE  Aware(c)'
<1>1. Linked(c.plan)'
  BY LinkedStays DEF Aware
<1>2. ASSUME NEW i \in DOMAIN approval, Decides(c, i) PROVE Decides(c, i)'
  BY <1>2, RowsStay, ApprovalsStay DEF Decides
<1>3. \A i \in DOMAIN approval : i \in DOMAIN approval'
  BY ApprovalsStay
<1>4. (\E i \in DOMAIN approval : Decides(c, i)) => (\E i \in DOMAIN approval : Decides(c, i))'
  BY <1>2, <1>3
<1>5. Names(c.approval, c.step) => Names(c.approval, c.step)'
  BY ApprovalsStay
<1>6. Sanctioned(c.step) => Sanctioned(c.step)'
  BY ApprovalsStay
<1> QED
  BY <1>1, <1>4, <1>5, <1>6 DEF Aware

\* As many different approvers as required are enough.
LEMMA DifferentUsers ==
    ASSUME NEW V, NEW n \in Nat, NEW users \in Seq(Users), n <= Len(users),
           \A k \in DOMAIN users : users[k] \in V,
           \A k, l \in DOMAIN users : users[k] = users[l] => k = l
    PROVE  \E S \in SUBSET V : Cardinality(S) = n
<1>1. PICK S : S = {users[k] : k \in 1..n}
  OBVIOUS
<1>2. \A k \in 1..n : k \in DOMAIN users
  OBVIOUS
<1>3. S \subseteq V
  BY <1>1, <1>2
<1>4. PICK f : f = [k \in 1..n |-> users[k]]
  OBVIOUS
<1>5. f \in [1..n -> S] /\ \A y \in S : \E k \in 1..n : f[k] = y
  BY <1>1, <1>4
<1>6. \A k, l \in 1..n : f[k] = f[l] => k = l
  BY <1>2, <1>4
<1>7. f \in Bijection(1..n, S)
  BY <1>5, <1>6 DEF Bijection, Injection, Surjection, IsInjective
<1>8. IsFiniteSet(1..n) /\ Cardinality(1..n) = n
  BY FS_Interval
<1>9. Cardinality(S) = n
  BY <1>7, <1>8, FS_Bijection DEF ExistsBijection
<1> QED
  BY <1>3, <1>9

LEMMA QuorumOfHonestRow ==
    ASSUME NEW i, NEW users \in Seq(Users), Honest(i, users)', approval'[i].required \in Nat,
           Len(users) >= approval'[i].required
    PROVE  Quorum(i)'
<1>1. PICK V : V = Voters(i)'
  OBVIOUS
<1>2. PICK n \in Nat : n = approval'[i].required
  OBVIOUS
<1>3. n <= Len(users)
  BY <1>2
<1>4. (\A k \in DOMAIN users : users[k] \in V) /\ (\A k, l \in DOMAIN users : users[k] = users[l] => k = l)
  BY <1>1 DEF Honest
<1>5. \E S \in SUBSET V : Cardinality(S) = n
  BY <1>3, <1>4, DifferentUsers
<1> QED
  BY <1>1, <1>2, <1>5 DEF Quorum

LEMMA UpdatedRows ==
    ASSUME RolloutAssumption, RolloutInv, BallotInv, [Next]_vars, NEW w \in Workers, UpdateApproval(w),
           NEW i \in DOMAIN approval
    PROVE  /\ RowHonest(i)'
           /\ approval'[i].status = "approved" => Quorum(i)'
<1>0. TypedData /\ approval[i] \in ApprovalRecs
  BY RowTypes DEF RolloutInv
<1>1. PICK c : c = worker[w]
  OBVIOUS
<1>2. /\ c \in CallRecs /\ c.op \in {"approve", "reject"} /\ c.user \in Users /\ c.approval \in Approvals
      /\ Aware(c) /\ c.pc = "update"
  BY <1>1 DEF UpdateApproval, At, RolloutInv, TypedWorkers, Orderly, BallotInv
<1>3. PICK now : now = IF c.op = "approve" THEN Append(c.approvers, c.user) ELSE c.approvers
  OBVIOUS
<1>4. PICK verdict : verdict = Evaluated(c.op, Len(now), Row(c.approval).required)
  OBVIOUS
<1>5. approval' = Updated(c, now, verdict)
  BY <1>1, <1>3, <1>4 DEF UpdateApproval, Updated
<1>6. Quorum(i) => Quorum(i)'
  BY ApprovalsStay
<1>7. CASE approval[i].id # c.approval
  <2>1. approval'[i] = approval[i]
    BY <1>5, <1>7 DEF Updated
  <2>2. PICK users : users = approval[i].approvers
    OBVIOUS
  <2>3. Honest(i, users)'
    BY <2>2, ApprovalsStay DEF BallotInv, RowsInv, RowHonest
  <2>4. RowHonest(i)'
    BY <2>1, <2>2, <2>3 DEF RowHonest, Honest
  <2> QED
    BY <1>6, <2>1, <2>4 DEF BallotInv, RowsInv
<1>8. CASE approval[i].id = c.approval
  <2>1. Row(c.approval) = approval[i]
    BY <1>8, RowOf DEF BallotInv
  <2>2. Decides(c, i)
    BY <1>2, <1>8 DEF Aware, Decides, BallotInv, RowsInv
  <2>3. /\ approval'[i].approvers = now /\ approval'[i].requester = approval[i].requester
        /\ approval'[i].id = c.approval /\ approval'[i].required = approval[i].required
        /\ approval'[i].status = IF verdict = "pending" THEN approval[i].status ELSE verdict
    BY <1>0, <1>5, <1>8 DEF Updated, ApprovalRecs
  <2>4. now \in Seq(Users) /\ c.approvers \in Seq(Users)
    BY <1>2, <1>3 DEF CallRecs
  <2>5. Honest(i, c.approvers)'
    BY <1>2, <2>2, ApprovalsStay DEF Decides
  <2>6. Honest(i, now)'
    <3>1. CASE c.op = "approve"
      <4>1. c.user \in Voters(i)'
        <5>1. c.user \in voted'[c.approval]
          BY <1>0, <1>1, <1>2, <3>1 DEF UpdateApproval, TypedData
        <5> QED
          BY <2>2, <2>3, <5>1 DEF Decides, Voters
      <4>2. now = Append(c.approvers, c.user)
        BY <1>3, <3>1
      <4>3. /\ DOMAIN now = 1..(Len(c.approvers) + 1)
            /\ \A k \in 1..Len(c.approvers) : now[k] = c.approvers[k] /\ k \in DOMAIN c.approvers
            /\ now[Len(c.approvers) + 1] = c.user
        BY <1>2, <2>4, <4>2
      <4>4. \A k \in 1..Len(c.approvers) : c.approvers[k] # c.user
        BY <1>2, <2>2 DEF Decides, Contains
      <4>5. Len(c.approvers) \in Nat
        BY <2>4
      <4>6. PICK n \in Nat : n = Len(c.approvers)
        BY <4>5
      <4>7. \A k \in DOMAIN now : now[k] \in Voters(i)'
        BY <2>5, <4>1, <4>3, <4>5 DEF Honest
      <4>8. ASSUME NEW k \in DOMAIN now, NEW l \in DOMAIN now, now[k] = now[l] PROVE k = l
        <5>1. CASE k \in 1..n /\ l \in 1..n
          BY <2>5, <4>3, <4>6, <4>8, <5>1 DEF Honest
        <5>2. CASE k = n + 1 \/ l = n + 1
          BY <4>3, <4>4, <4>6, <4>8, <5>2
        <5> QED
          BY <4>3, <4>6, <5>1, <5>2
      <4> QED
        BY <4>7, <4>8 DEF Honest
    <3>2. CASE c.op = "reject"
      <4>1. now = c.approvers
        BY <1>3, <3>2
      <4> QED
        BY <2>5, <4>1
    <3> QED
      BY <1>2, <3>1, <3>2
  <2>7. verdict = "approved" => Quorum(i)'
    <3> SUFFICES ASSUME verdict = "approved" PROVE Quorum(i)'
      OBVIOUS
    <3>1. Len(now) >= approval[i].required
      BY <1>4, <2>1 DEF Evaluated
    <3>2. approval'[i].required \in Nat /\ Len(now) >= approval'[i].required
      BY <1>0, <2>3, <3>1 DEF ApprovalRecs, RolloutAssumption
    <3>3. Honest(i, now)' /\ now \in Seq(Users)
      BY <2>4, <2>6
    <3> QED
      BY <3>2, <3>3, QuorumOfHonestRow
  <2>8. approval'[i].status = "approved" => Quorum(i)'
    BY <1>6, <2>3, <2>7 DEF BallotInv, RowsInv
  <2>9. RowHonest(i)'
    BY <2>3, <2>6 DEF RowHonest, Honest
  <2> QED
    BY <2>8, <2>9
<1> QED
  BY <1>7, <1>8

LEMMA RowsStayHonest ==
    ASSUME RolloutAssumption, RolloutInv, BallotInv, [Next]_vars
    PROVE  RowsInv'
<1>0. TypedData /\ RowsInv
  BY DEF RolloutInv, BallotInv
<1>1. \A i \in DOMAIN approval : approval'[i].id = approval[i].id
  BY RowsStay
<1>2. ASSUME NEW i \in DOMAIN approval, approval'[i].approvers = approval[i].approvers,
             approval'[i].status = "approved" => approval[i].status = "approved"
      PROVE  RowHonest(i)' /\ (approval'[i].status = "approved" => Quorum(i)')
  <2>1. PICK users : users = approval[i].approvers
    OBVIOUS
  <2>2. Honest(i, users)' /\ (approval[i].status = "approved" => Quorum(i)')
    BY <1>0, <2>1, ApprovalsStay DEF RowsInv, RowHonest
  <2>3. RowHonest(i)'
    BY <1>2, <2>1, <2>2 DEF RowHonest, Honest
  <2> QED
    BY <1>2, <2>2, <2>3
<1>3. ASSUME DOMAIN approval' = DOMAIN approval,
             \A i \in DOMAIN approval : /\ approval'[i].approvers = approval[i].approvers
                                        /\ approval'[i].status = "approved" => approval[i].status = "approved"
      PROVE  RowsInv'
  BY <1>0, <1>1, <1>2, <1>3 DEF RowsInv
<1>4. CASE UNCHANGED approval
  BY <1>3, <1>4
<1>5. ASSUME NEW w \in Workers, CreateApproval(w) PROVE RowsInv'
  <2>1. PICK a \in Approvals \ Created, u \in Users : approval' = Append(approval, NewApproval(w, a, u))
    BY <1>5 DEF CreateApproval
  <2>2. PICK new : new = NewApproval(w, a, u)
    OBVIOUS
  <2>3. new.id = a /\ new.approvers = <<>> /\ new.status = "pending"
    BY <2>2 DEF NewApproval
  <2>4. PICK n \in Nat : n = Len(approval) + 1
    BY <1>0 DEF TypedData
  <2>5. /\ DOMAIN approval' = DOMAIN approval \cup {n} /\ n \notin DOMAIN approval /\ approval'[n] = new
        /\ \A i \in DOMAIN approval : approval'[i] = approval[i]
    BY <1>0, <2>1, <2>2, <2>4 DEF TypedData
  <2>6. \A i, j \in DOMAIN approval' : approval'[i].id = approval'[j].id => i = j
    BY <1>0, <2>1, <2>3, <2>5 DEF RowsInv, Created
  <2>7. RowHonest(n)' /\ (approval'[n].status = "approved" => Quorum(n)')
    BY <2>3, <2>5 DEF RowHonest, Honest
  <2> QED
    BY <1>2, <2>5, <2>6, <2>7 DEF RowsInv
<1>6. ASSUME NEW w \in Workers, UpdateApproval(w) PROVE RowsInv'
  <2>1. DOMAIN approval' = DOMAIN approval
    BY <1>6 DEF UpdateApproval
  <2> QED
    BY <1>0, <1>1, <1>6, <2>1, UpdatedRows DEF RowsInv
<1>7. ASSUME NEW w \in Workers, ExpireApproval(w) PROVE RowsInv'
  <2>1. DOMAIN approval' = DOMAIN approval
    BY <1>7 DEF ExpireApproval
  <2>2. ASSUME NEW i \in DOMAIN approval
        PROVE  /\ approval'[i].approvers = approval[i].approvers
               /\ approval'[i].status = "approved" => approval[i].status = "approved"
    BY <1>0, <1>7, RowTypes DEF ExpireApproval, ApprovalRecs
  <2> QED
    BY <1>3, <2>1, <2>2
<1>8. CASE TimePasses
  <2>1. PICK k \in DOMAIN approval : approval' = [approval EXCEPT ![k].ttl = "passed"]
    BY <1>8 DEF TimePasses
  <2>2. ASSUME NEW i \in DOMAIN approval
        PROVE  /\ approval'[i].approvers = approval[i].approvers
               /\ approval'[i].status = "approved" => approval[i].status = "approved"
    BY <1>0, <2>1, RowTypes DEF ApprovalRecs
  <2> QED
    BY <1>3, <2>1, <2>2
<1>9. CASE \E w \in Workers : Entry(w)
  BY <1>4, <1>9, EntryStarts DEF Enter
<1>10. CASE \/ UNCHANGED vars
            \/ \E w \in Workers : LookUpApproval(w) \/ Execute(w) \/ SelectApproval(w) \/ WritePlan(w) \/ Crash(w)
  BY <1>4, <1>10 DEF vars, LookUpApproval, Execute, SelectApproval, WritePlan, Crash
<1> QED
  BY <1>5, <1>6, <1>7, <1>8, <1>9, <1>10 DEF Next, Entry

LEMMA StartedIsAware ==
    ASSUME RolloutAssumption, RolloutInv, BallotInv, NEW d, Started(d)
    PROVE  Aware(d)
<1>1. Linked(plan) /\ Linked(NewPlan)
  BY DEF BallotInv, Linked, NewPlan
<1>2. CASE \/ d = [Call("start", "write") EXCEPT !.result = "active"]
           \/ d = [Call("cancel", "write") EXCEPT !.result = "cancelled"]
           \/ d = [Idle EXCEPT !.pc = "expire", !.overdue = Overdue]
  BY <1>1, <1>2 DEF Call, Idle, Aware
<1>3. ASSUME NEW s \in StepSet, NEW op \in {"run", "request"}, d = [Call(op, Lookup(s)) EXCEPT !.step = s]
      PROVE  Aware(d)
  <2>1. d.plan = plan /\ d.step = s /\ d.pc = Lookup(s) /\ d.approval = NoApproval
    BY <1>3 DEF Call, Idle
  <2> QED
    BY <1>1, <2>1 DEF Aware, Lookup
<1>4. ASSUME NEW s \in StepSet, NEW verdict \in {"blocked", "failed", "skipped"},
             d = [[Call("run", Lookup(s)) EXCEPT !.step = s]
                    EXCEPT !.pc = "write", !.op = "gate", !.result = verdict]
      PROVE  Aware(d)
  BY <1>1, <1>4 DEF Call, Idle, Aware
<1>5. ASSUME NEW i \in DOMAIN approval, NEW u \in Users, NEW verdict \in {"approve", "reject"},
             d = [Call(verdict, "select") EXCEPT !.user = u, !.step = approval[i].step,
                                                 !.approval = approval[i].id],
             u # approval[i].requester
      PROVE  Aware(d)
  <2>1. d.plan = plan /\ d.user = u /\ d.approval = approval[i].id /\ d.pc = "select"
    BY <1>5 DEF Call, Idle
  <2>2. Decides(d, i)
    BY <1>5, <2>1 DEF Decides
  <2> QED
    BY <1>1, <2>1, <2>2 DEF Aware
<1>6. ASSUME NEW s \in StepSet, s \in NeedApproval, d = [Call("request", "lookup") EXCEPT !.step = s]
      PROVE  Aware(d)
  BY <1>3, <1>6 DEF Lookup
<1> QED
  BY <1>2, <1>3, <1>4, <1>5, <1>6 DEF Started

\* An approval that a call finds is one of its step, and so is its quorum.
LEMMA FoundIsOfStep ==
    ASSUME RolloutAssumption, RolloutInv, BallotInv, NEW c, Aware(c), c.step \in StepSet, NEW a \in Found(c)
    PROVE  /\ Names(a, c.step)
           /\ Row(a).status = "approved" => Sanctioned(c.step)
<1>1. Names(a, c.step)
  <2>1. CASE a = c.plan.approval[c.step] /\ c.plan.approval[c.step] # NoApproval
    BY <2>1 DEF Aware, Linked
  <2>2. CASE a \in Pending(c.step)
    BY <2>2, RowIsThere DEF Pending, Names
  <2> QED
    BY <2>1, <2>2 DEF Found
<1>2. PICK i \in DOMAIN approval : approval[i].id = a /\ approval[i].step = c.step
  BY <1>1 DEF Names
<1>3. Row(a) = approval[i]
  BY <1>2, RowOf DEF BallotInv
<1> QED
  BY <1>1, <1>2, <1>3 DEF BallotInv, RowsInv, Sanctioned

LEMMA ContinuedIsAware ==
    ASSUME RolloutAssumption, RolloutInv, BallotInv, [Next]_vars,
           NEW c, Orderly(c), Aware(c), NEW d, Continued(c, d)
    PROVE  Aware(d)'
<1>0. c \in CallRecs /\ (c.pc = "lookup" => c.step \in StepSet)
  BY DEF Orderly, RolloutAssumption
<1>1. Linked(c.plan)' /\ Linked(NewPlan)'
  BY LinkedStays DEF Aware, Linked, NewPlan
<1>2. CASE d = Idle
  BY <1>1, <1>2 DEF Aware, Idle
<1>3. CASE d = [c EXCEPT !.pc = "create"]
  <2>1. d.plan = c.plan /\ d.pc = "create"
    BY <1>0, <1>3 DEF CallRecs
  <2> QED
    BY <1>1, <2>1 DEF Aware, Linked
<1>4. ASSUME c.pc = "lookup", d = [c EXCEPT !.pc = "execute"], NEW a \in Found(c), Row(a).status = "approved"
      PROVE  Aware(d)'
  <2>1. d.plan = c.plan /\ d.pc = "execute" /\ d.step = c.step
    BY <1>0, <1>4 DEF CallRecs
  <2>2. Sanctioned(c.step)'
    BY <1>0, <1>4, FoundIsOfStep, ApprovalsStay
  <2> QED
    BY <1>1, <2>1, <2>2 DEF Aware, Linked, Sanctioned
<1>5. ASSUME c.pc \in {"lookup", "create"}, NEW a \in Approvals, NEW status \in {"failed", "blocked"},
             d = [c EXCEPT !.pc = "write", !.approval = a, !.result = status],
             c.pc = "lookup" => a \in Found(c),
             c.pc = "create" => \E i \in DOMAIN approval' : approval'[i].id = a /\ approval'[i].step = c.step
      PROVE  Aware(d)'
  <2>1. d.plan = c.plan /\ d.pc = "write" /\ d.step = c.step /\ d.approval = a
    BY <1>0, <1>5 DEF CallRecs
  <2>2. Names(a, c.step)'
    <3>1. CASE c.pc = "lookup"
      BY <1>0, <1>5, <3>1, FoundIsOfStep, ApprovalsStay
    <3>2. CASE c.pc = "create"
      BY <1>5, <3>2 DEF Names
    <3> QED
      BY <1>5, <3>1, <3>2
  <2> QED
    BY <1>1, <2>1, <2>2 DEF Aware, Linked, Names
<1>6. ASSUME NEW status, d = [c EXCEPT !.pc = "write", !.approval = NoApproval, !.result = status]
      PROVE  Aware(d)'
  <2>1. d.plan = c.plan /\ d.pc = "write" /\ d.approval = NoApproval
    BY <1>0, <1>6 DEF CallRecs
  <2> QED
    BY <1>1, <2>1 DEF Aware, Linked
<1>7. ASSUME c.pc = "select", d = [c EXCEPT !.pc = "update", !.approvers = Row(c.approval).approvers],
             ~Contains(Row(c.approval).approvers, c.user)
      PROVE  Aware(d)'
  <2>1. PICK i \in DOMAIN approval : approval[i].id = c.approval /\ c.user # approval[i].requester
    BY <1>7 DEF Aware, Decides
  <2>2. Row(c.approval) = approval[i]
    BY <2>1, RowOf DEF BallotInv
  <2>3. PICK users : users = approval[i].approvers
    OBVIOUS
  <2>4. /\ d.plan = c.plan /\ d.pc = "update" /\ d.approval = c.approval /\ d.user = c.user
        /\ d.approvers = users
    BY <1>0, <1>7, <2>2, <2>3 DEF CallRecs
  <2>5. Honest(i, users)
    BY <2>3 DEF BallotInv, RowsInv, RowHonest
  <2>6. Decides(d, i)
    BY <1>7, <2>1, <2>2, <2>3, <2>4, <2>5 DEF Decides
  <2>7. Aware(d)
    BY <2>4, <2>6 DEF Aware, Linked
  <2> QED
    BY <2>7, AwareStays
<1>8. ASSUME c.pc = "update", NEW status, d = [c EXCEPT !.pc = "write", !.result = status]
      PROVE  Aware(d)'
  <2>1. d.plan = c.plan /\ d.pc = "write" /\ d.op \notin {"run", "request"}
    BY <1>0, <1>8 DEF CallRecs, Orderly
  <2> QED
    BY <1>1, <2>1 DEF Aware, Linked
<1> QED
  BY <1>2, <1>3, <1>4, <1>5, <1>6, <1>7, <1>8 DEF Continued

LEMMA CallsStayAware ==
    ASSUME RolloutAssumption, RolloutInv, BallotInv, [Next]_vars, NEW v \in Workers
    PROVE  Aware(worker[v])'
<1>1. PICK c : c = worker[v]
  OBVIOUS
<1>2. Aware(c) /\ Orderly(c)
  BY <1>1 DEF BallotInv, RolloutInv, TypedWorkers
<1>3. ASSUME NEW d, Aware(d)', worker'[v] = d PROVE Aware(worker[v])'
  BY <1>3 DEF Aware, Linked, Decides, Honest, Sanctioned, Names
<1>4. CASE worker'[v] = c
  BY <1>2, <1>3, <1>4, AwareStays
<1>5. ASSUME NEW w \in Workers, Entry(w) \/ Step(w) PROVE Aware(worker[v])'
  <2>1. PICK d : /\ worker'[w] = d /\ \A u \in Workers \ {w} : worker'[u] = worker[u]
                 /\ Started(d) \/ Continued(worker[w], d)
    BY <1>5, StepMoves
  <2>2. CASE v # w
    BY <1>1, <1>4, <2>1, <2>2
  <2>3. CASE v = w /\ Continued(c, d)
    BY <1>2, <1>3, <2>1, <2>3, ContinuedIsAware
  <2>4. CASE v = w /\ Started(d)
    BY <1>3, <2>1, <2>4, StartedIsAware, AwareStays
  <2> QED
    BY <1>1, <2>1, <2>2, <2>3, <2>4
<1>6. CASE UNCHANGED worker
  BY <1>1, <1>4, <1>6
<1> QED
  BY <1>5, <1>6 DEF Next, Entry, Step, TimePasses, vars

LEMMA PlanStaysLinked ==
    ASSUME RolloutAssumption, RolloutInv, BallotInv, [Next]_vars
    PROVE  Linked(plan)'
<1>1. ASSUME NEW p, Linked(p)', plan' = p PROVE Linked(plan)'
  BY <1>1 DEF Linked, Names
<1>2. CASE UNCHANGED plan
  <2>1. PICK p : p = plan
    OBVIOUS
  <2> QED
    BY <1>1, <1>2, <2>1, LinkedStays DEF BallotInv
<1>3. ASSUME NEW w \in Workers, WritePlan(w) PROVE Linked(plan)'
  <2>1. PICK c : c = worker[w]
    OBVIOUS
  <2>2. Orderly(c) /\ c \in CallRecs /\ c.plan \in Plans /\ c.pc = "write" /\ Aware(c) /\ plan' = Written(c)
    BY <1>3, <2>1 DEF RolloutInv, TypedWorkers, Orderly, CallRecs, BallotInv, WritePlan, At
  <2>3. /\ Linked(c.plan)'
        /\ c.op \in {"run", "request"} /\ c.approval # NoApproval => Names(c.approval, c.step)'
    BY <2>2, LinkedStays, ApprovalsStay DEF Aware
  <2>4. PICK p : p = plan'
    OBVIOUS
  <2>5. CASE c.step = NoStep
    <3>1. p.approval = c.plan.approval
      BY <2>2, <2>4, <2>5 DEF Written, Plans
    <3> QED
      BY <2>3, <2>4, <3>1 DEF Linked, Names
  <2>6. CASE c.step \in StepSet
    <3>1. c.step # NoStep
      BY <2>6 DEF RolloutAssumption
    <3>2. PICK a : a = IF c.op \in {"run", "request"} /\ c.approval # NoApproval THEN c.approval
                       ELSE c.plan.approval[c.step]
      OBVIOUS
    <3>3. PICK q : q = [c.plan EXCEPT !.step[c.step] = c.result, !.approval[c.step] = a]
      OBVIOUS
    <3>4. \A s \in StepSet : q.approval[s] = IF s = c.step THEN a ELSE c.plan.approval[s]
      BY <2>2, <2>6, <3>3 DEF Plans
    <3>5. p = [q EXCEPT !.status = StatusAfter(c, q)]
      BY <2>2, <2>4, <3>1, <3>2, <3>3 DEF Written, Plans
    <3>6. p.approval = q.approval
      BY <2>2, <3>3, <3>5 DEF Plans
    <3>7. a # NoApproval => Names(a, c.step)'
      BY <2>3, <2>6, <3>2 DEF Linked
    <3>8. Linked(p)'
      BY <2>3, <3>4, <3>6, <3>7 DEF Linked
    <3> QED
      BY <1>1, <2>4, <3>8
  <2> QED
    BY <2>2, <2>5, <2>6 DEF Orderly
<1>4. CASE \E w \in Workers : Entry(w)
  BY <1>2, <1>4, EntryStarts DEF Enter
<1>5. CASE \/ UNCHANGED vars
           \/ TimePasses
           \/ \E w \in Workers : \/ LookUpApproval(w) \/ CreateApproval(w) \/ Execute(w) \/ SelectApproval(w)
                                 \/ UpdateApproval(w) \/ ExpireApproval(w) \/ Crash(w)
  BY <1>2, <1>5
     DEF vars, histVars, TimePasses, LookUpApproval, CreateApproval, Execute, SelectApproval,
     UpdateApproval, ExpireApproval, Crash
<1> QED
  BY <1>3, <1>4, <1>5 DEF Next, Entry

LEMMA AttemptsStaySanctioned ==
    ASSUME RolloutAssumption, RolloutInv, BallotInv, [Next]_vars, NEW s \in NeedApproval, attempts'[s] > 0
    PROVE  Sanctioned(s)'
<1>0. s \in StepSet
  BY DEF RolloutAssumption
<1>1. Sanctioned(s) => Sanctioned(s)'
  BY ApprovalsStay
<1>2. CASE UNCHANGED attempts
  BY <1>1, <1>2 DEF BallotInv
<1>3. ASSUME NEW w \in Workers, Execute(w) PROVE Sanctioned(s)
  <2>1. CASE worker[w].step = s
    BY <1>3, <2>1 DEF Execute, At, BallotInv, Aware
  <2>2. CASE worker[w].step # s
    <3>1. attempts'[s] = attempts[s]
      BY <1>0, <1>3, <2>2 DEF Execute, RolloutInv, TypedData
    <3> QED
      BY <3>1 DEF BallotInv
  <2> QED
    BY <2>1, <2>2
<1>4. CASE \E w \in Workers : Entry(w)
  BY <1>2, <1>4, EntryStarts DEF Enter, histVars
<1>5. CASE \/ UNCHANGED vars
           \/ TimePasses
           \/ \E w \in Workers : \/ LookUpApproval(w) \/ CreateApproval(w) \/ SelectApproval(w)
                                 \/ UpdateApproval(w) \/ ExpireApproval(w) \/ WritePlan(w) \/ Crash(w)
  BY <1>2, <1>5 DEF vars, histVars, TimePasses, LookUpApproval, CreateApproval, SelectApproval,
     UpdateApproval,
     ExpireApproval, WritePlan, Crash
<1> QED
  BY <1>1, <1>3, <1>4, <1>5 DEF Next, Entry

LEMMA BallotInvHolds == Spec => []BallotInv
<1>1. Init => BallotInv
  <2> SUFFICES ASSUME Init PROVE BallotInv
    OBVIOUS
  <2>1. RowsInv
    BY DEF Init, RowsInv
  <2>2. Linked(NewPlan) /\ Aware(Idle)
    BY DEF Linked, Aware, NewPlan, Idle
  <2>3. \A s \in NeedApproval : ~(attempts[s] > 0)
    BY RolloutAssumption DEF Init, RolloutAssumption
  <2> QED
    BY <2>1, <2>2, <2>3 DEF Init, BallotInv
<1>2. RolloutInv /\ BallotInv /\ [Next]_vars => BallotInv'
  BY RolloutAssumption, RowsStayHonest, PlanStaysLinked, CallsStayAware, AttemptsStaySanctioned
     DEF BallotInv
<1> QED
  BY <1>1, <1>2, RolloutInvHolds, PTL DEF Spec

\* No step that requires approval is carried out without a quorum of users who
\* are not its requester, whatever calls race, decisions get lost and stale rows
\* are written back.
THEOREM QuorumBeforeExecution == Spec => []ExecutedWasApproved
<1>1. BallotInv => ExecutedWasApproved
  BY DEF BallotInv, ExecutedWasApproved, Sanctioned, Quorum, Voters
<1> QED
  BY <1>1, BallotInvHolds, PTL
-----------------------------------------------------------------------------
(* Without a disturbance.  One call is at work at a time, and its copy of  *)
(* the plan is the row; so it is enough to say of the row, or of what the  *)
(* call is about to make of it, that it tells what happened.               *)
NonePending(s) == \A i \in DOMAIN approval : approval[i].step = s => approval[i].status # "pending"
TellsOf(p, s) ==
    /\ attempts[s] \in {0, 1}
    /\ attempts[s] = 1 => p.step[s] \in {"succeeded", "failed"}
    /\ \A i \in DOMAIN approval : approval[i].step = s =>
         /\ approval[i].status = "pending" => attempts[s] = 0 /\ p.approval[s] = approval[i].id
         /\ approval[i].status = "rejected" => attempts[s] = 0 /\ p.step[s] = "failed"
Tells(p) == \A s \in StepSet : TellsOf(p, s)

\* What a call relies on.
Fresh(c) ==
    /\ c.pc \notin {"idle", "expire"} => c.plan = plan
    /\ c.pc \in {"lookup", "create", "execute"} => plan.step[c.step] \in {"pending", "blocked"}
    /\ c.pc \in {"create", "execute"} => NonePending(c.step)
    /\ c.pc \in {"select", "update"} =>
         \E i \in DOMAIN approval : /\ approval[i].id = c.approval /\ approval[i].step = c.step
                                    /\ approval[i].status = "pending"
Calm ==
    /\ \A v, w \in Workers : v = w \/ worker[v].pc = "idle" \/ worker[w].pc = "idle"
    /\ \A w \in Workers : Fresh(worker[w]) /\ (worker[w].pc = "write" => Tells(Written(worker[w])))
    /\ (\A w \in Workers : worker[w].pc # "write") => Tells(plan)
CalmInv == disturbances = 0 => Calm

LEMMA IdIsApproval ==
    ASSUME RolloutAssumption, RolloutInv, NEW i \in DOMAIN approval
    PROVE  /\ approval[i].id \in Approvals /\ approval[i].id # NoApproval
           /\ approval[i].step \in NeedApproval /\ approval[i].step \in StepSet
BY RowTypes DEF ApprovalRecs, RolloutInv, RolloutAssumption

\* The row a call writes, step by step.
LEMMA WrittenRow ==
    ASSUME RolloutAssumption, NEW d, Orderly(d), d.pc = "write", NEW s \in StepSet
    PROVE  /\ s # d.step => /\ Written(d).step[s] = d.plan.step[s]
                            /\ Written(d).approval[s] = d.plan.approval[s]
           /\ s = d.step => /\ Written(d).step[s] = d.result
                            /\ Written(d).approval[s] =
                                 IF d.op \in {"run", "request"} /\ d.approval # NoApproval THEN d.approval
                                 ELSE d.plan.approval[s]
<1>0. d \in CallRecs /\ d.plan \in Plans
  BY DEF Orderly, CallRecs
<1>1. CASE d.step = NoStep
  <2>1. Written(d) = [d.plan EXCEPT !.status = StatusAfter(d, d.plan)]
    BY <1>1 DEF Written
  <2>2. Written(d).step = d.plan.step /\ Written(d).approval = d.plan.approval
    BY <1>0, <2>1 DEF Plans
  <2> QED
    BY <1>1, <2>2 DEF RolloutAssumption
<1>2. CASE d.step # NoStep
  <2>1. d.step \in StepSet
    BY <1>0, <1>2 DEF CallRecs
  <2>2. PICK a : a = IF d.op \in {"run", "request"} /\ d.approval # NoApproval THEN d.approval
                     ELSE d.plan.approval[d.step]
    OBVIOUS
  <2>3. PICK q : q = [d.plan EXCEPT !.step[d.step] = d.result, !.approval[d.step] = a]
    OBVIOUS
  <2>4. Written(d) = [q EXCEPT !.status = StatusAfter(d, q)]
    BY <1>0, <1>2, <2>2, <2>3 DEF Written, Plans
  <2>5. Written(d).step = q.step /\ Written(d).approval = q.approval
    BY <1>0, <2>3, <2>4 DEF Plans
  <2>6. /\ q.step[s] = IF s = d.step THEN d.result ELSE d.plan.step[s]
        /\ q.approval[s] = IF s = d.step THEN a ELSE d.plan.approval[s]
    BY <1>0, <2>1, <2>3 DEF Plans
  <2> QED
    BY <2>2, <2>5, <2>6
<1> QED
  BY <1>1, <1>2

\* What is told of a step stays true while the rows of its approvals do, or
\* are no longer pending.
LEMMA TellsStays ==
    ASSUME NEW p, NEW s, TellsOf(p, s), attempts'[s] = attempts[s], DOMAIN approval' = DOMAIN approval,
           \A i \in DOMAIN approval :
              /\ approval'[i].id = approval[i].id /\ approval'[i].step = approval[i].step
              /\ approval[i].step = s => \/ approval'[i].status = approval[i].status
                                         \/ approval'[i].status \notin {"pending", "rejected"}
    PROVE  TellsOf(p, s)'
BY DEF TellsOf

\* A call is alone, and so is what it turns into.
LEMMA CalmAfter ==
    ASSUME NEW w \in Workers, NEW d, worker'[w] = d,
           \A v \in Workers \ {w} : worker[v].pc = "idle" /\ worker'[v] = worker[v],
           Fresh(d)', d.pc = "write" => Tells(Written(d))', d.pc # "write" => Tells(plan)'
    PROVE  Calm'
<1>1. \A v \in Workers \ {w} : Fresh(worker[v])' /\ worker'[v].pc = "idle"
  BY DEF Fresh
<1>2. Fresh(worker[w])'
  BY DEF Fresh, NonePending
<1>3. worker'[w].pc = "write" => Tells(Written(worker[w]))'
  <2> SUFFICES ASSUME worker'[w].pc = "write" PROVE Tells(Written(worker[w]))'
    OBVIOUS
  <2>1. PICK p : p = Written(d)
    OBVIOUS
  <2>2. Tells(p)' /\ Written(worker[w])' = p
    BY <2>1 DEF Tells, TellsOf, Written, StatusAfter, All
  <2> QED
    BY <2>2 DEF Tells, TellsOf
<1> QED
  BY <1>1, <1>2, <1>3 DEF Calm

\* A call that begins when nothing else runs.
LEMMA EntryIsCalm ==
    ASSUME RolloutAssumption, RolloutInv, BallotInv, Calm, NEW w \in Workers, Entry(w), disturbances' = 0
    PROVE  Calm'
<1> USE DEF Places
<1>1. /\ \A v \in Workers : worker[v].pc = "idle"
      /\ UNCHANGED <<plan, approval, attempts>>
      /\ worker = [v \in Workers |-> worker[v]]
  <2>1. disturbances \in Nat
    BY RolloutAssumption DEF RolloutInv, TypedData, RolloutAssumption
  <2>2. PICK d : Enter(w, d)
    BY EntryStarts
  <2> QED
    BY <2>1, <2>2 DEF Enter, histVars, RolloutInv, TypedWorkers
<1>2. Tells(plan) /\ plan \in Plans
  BY <1>1 DEF Calm, RolloutInv, TypedData
<1>3. Tells(plan)'
  BY <1>1, <1>2 DEF Tells, TellsOf
<1>4. ASSUME NEW d, Enter(w, d), Fresh(d), d.pc = "write" => Tells(Written(d)) PROVE Calm'
  <2>1. worker'[w] = d /\ \A v \in Workers \ {w} : worker'[v] = worker[v]
    BY <1>1, <1>4 DEF Enter
  <2>2. Fresh(d)'
    BY <1>1, <1>4 DEF Fresh, NonePending
  <2>3. d.pc = "write" => Tells(Written(d))'
    BY <1>1, <1>4 DEF Tells, TellsOf
  <2> QED
    BY <1>1, <1>3, <2>1, <2>2, <2>3, CalmAfter
<1>5. ASSUME NEW op \in {"start", "cancel"}, NEW status,
             status = IF op = "start" THEN "active" ELSE "cancelled",
             Enter(w, [Call(op, "write") EXCEPT !.result = status])
      PROVE  Calm'
  <2>1. PICK d : d = [Call(op, "write") EXCEPT !.result = status]
    OBVIOUS
  <2>2. d.plan = plan /\ d.pc = "write" /\ d.step = NoStep /\ d.op = op /\ d.result = status
    BY <2>1 DEF Call, Idle
  <2>3. Orderly(d)
    BY <1>5, <2>1, <2>2, CallType, SMTT(20) DEF Orderly, CallRecs, PlanStatuses, RolloutInv
  <2>4. \A s \in StepSet : s # d.step
    BY <2>2 DEF RolloutAssumption
  <2>5. Tells(Written(d))
    BY <1>2, <2>2, <2>3, <2>4, WrittenRow DEF Tells, TellsOf
  <2>6. Fresh(d)
    BY <2>2 DEF Fresh
  <2> QED
    BY <1>4, <1>5, <2>1, <2>5, <2>6
<1>6. CASE RunNext(w)
  <2>1. PICK s : s = NextStep(plan)
    OBVIOUS
  <2>2. s \in StepSet /\ PrevDone(plan, s) /\ plan.step[s] = "pending"
    BY <1>6, <2>1, NextStepRuns DEF RunNext, MayRun
  <2>3. PICK call : call = [Call("run", Lookup(s)) EXCEPT !.step = s]
    OBVIOUS
  <2>4. call.plan = plan /\ call.pc = Lookup(s) /\ call.step = s /\ call.op = "run"
    BY <2>3 DEF Call, Idle
  <2>5. CASE Enter(w, call)
    <3>1. call.pc = "execute" => NonePending(s)
      BY <2>4, IdIsApproval DEF Lookup, NonePending
    <3>2. Fresh(call) /\ call.pc # "write"
      BY <2>2, <2>4, <3>1 DEF Fresh, Lookup
    <3> QED
      BY <1>4, <2>5, <3>2
  <2>6. ASSUME NEW verdict \in {"blocked", "failed", "skipped"},
               Enter(w, [call EXCEPT !.pc = "write", !.op = "gate", !.result = verdict])
        PROVE  Calm'
    <3>1. PICK d : d = [call EXCEPT !.pc = "write", !.op = "gate", !.result = verdict]
      OBVIOUS
    <3>2. d.plan = plan /\ d.pc = "write" /\ d.step = s /\ d.op = "gate" /\ d.result = verdict
      BY <2>3, <3>1 DEF Call, Idle
    <3>3. Started(d)
      BY <2>2, <2>3, <3>1 DEF Started
    <3>4. Orderly(d)
      BY <3>3, StartedIsOrderly DEF RolloutInv
    <3>5. Fresh(d)
      BY <3>2 DEF Fresh
    <3>6. \A t \in StepSet : /\ Written(d).approval[t] = plan.approval[t]
                             /\ t # s => Written(d).step[t] = plan.step[t]
      BY <3>2, <3>4, WrittenRow
    <3>7. TellsOf(plan, s)
      BY <1>2, <2>2 DEF Tells
    <3>8. TellsOf(Written(d), s)
      BY <2>2, <3>6, <3>7 DEF TellsOf
    <3>9. ASSUME NEW t \in StepSet, t # s PROVE TellsOf(Written(d), t)
      BY <1>2, <3>6, <3>9 DEF Tells, TellsOf
    <3>10. Tells(Written(d))
      BY <3>8, <3>9 DEF Tells
    <3> QED
      BY <1>4, <2>6, <3>1, <3>5, <3>10
  <2> QED
    BY <1>6, <2>1, <2>3, <2>5, <2>6 DEF RunNext
<1>7. CASE Request(w)
  <2>1. PICK s \in StepSet : /\ s \in NeedApproval /\ plan.step[s] \in {"blocked", "pending"}
                             /\ Enter(w, [Call("request", "lookup") EXCEPT !.step = s])
    BY <1>7 DEF Request, MayAsk
  <2>2. PICK d : d = [Call("request", "lookup") EXCEPT !.step = s]
    OBVIOUS
  <2>3. d.plan = plan /\ d.pc = "lookup" /\ d.step = s
    BY <2>2 DEF Call, Idle
  <2>4. Fresh(d)
    BY <2>1, <2>3 DEF Fresh
  <2> QED
    BY <1>4, <2>1, <2>2, <2>3, <2>4
<1>8. CASE \E u \in Users : Decide(w, u)
  <2>1. PICK u \in Users, i \in DOMAIN approval, verdict \in {"approve", "reject"} :
           /\ approval[i].status = "pending"
           /\ Enter(w, [Call(verdict, "select") EXCEPT !.user = u, !.step = approval[i].step,
                                                       !.approval = approval[i].id])
    BY <1>8 DEF Decide, MayDecide
  <2>2. PICK d : d = [Call(verdict, "select") EXCEPT !.user = u, !.step = approval[i].step,
                                                     !.approval = approval[i].id]
    OBVIOUS
  <2>3. d.plan = plan /\ d.pc = "select" /\ d.step = approval[i].step /\ d.approval = approval[i].id
    BY <2>2 DEF Call, Idle
  <2>4. Fresh(d)
    BY <2>1, <2>3 DEF Fresh
  <2> QED
    BY <1>4, <2>1, <2>2, <2>3, <2>4
<1>9. CASE Sweep(w)
  <2>1. PICK d : d = [Idle EXCEPT !.pc = "expire", !.overdue = Overdue]
    OBVIOUS
  <2>2. d.pc = "expire"
    BY <2>1 DEF Idle
  <2>3. Fresh(d)
    BY <2>2 DEF Fresh
  <2> QED
    BY <1>4, <1>9, <2>1, <2>2, <2>3 DEF Sweep
<1>10. CASE Start(w) \/ Cancel(w)
  BY <1>5, <1>10 DEF Start, Cancel
<1> QED
  BY <1>6, <1>7, <1>8, <1>9, <1>10 DEF Entry

\* A call at work is alone, so the row is as it read it, and tells the truth
\* unless the call is about to write it.
LEMMA CallIsAlone ==
    ASSUME RolloutInv, Calm, NEW w \in Workers, Step(w)
    PROVE  /\ \A v \in Workers \ {w} : worker[v].pc = "idle"
           /\ worker[w].pc # "write" => Tells(plan)
           /\ Fresh(worker[w]) /\ Orderly(worker[w]) /\ worker[w] \in CallRecs
           /\ plan \in Plans
<1>1. worker[w].pc # "idle"
  BY DEF Step, LookUpApproval, CreateApproval, Execute, SelectApproval, UpdateApproval,
     ExpireApproval,
     WritePlan, Crash, At
<1>2. \A v \in Workers \ {w} : worker[v].pc = "idle"
  BY <1>1 DEF Calm
<1>3. worker[w].pc # "write" => \A v \in Workers : worker[v].pc # "write"
  BY <1>2
<1> QED
  BY <1>2, <1>3 DEF Calm, RolloutInv, TypedWorkers, TypedData, Orderly

LEMMA CalmMoves ==
    ASSUME RolloutInv, Calm, NEW w \in Workers, Step(w), NEW d, Goto(w, d), Fresh(d)',
           d.pc = "write" => Tells(Written(d))', d.pc # "write" => Tells(plan)'
    PROVE  Calm'
<1>1. worker'[w] = d /\ \A v \in Workers \ {w} : worker'[v] = worker[v]
  BY DEF Goto, RolloutInv, TypedWorkers
<1> QED
  BY <1>1, CallIsAlone, CalmAfter

LEMMA CalmReturns ==
    ASSUME RolloutInv, Calm, NEW w \in Workers, Step(w), Return(w), Tells(plan)'
    PROVE  Calm'
<1>1. PICK d : d = Idle
  OBVIOUS
<1>2. d.pc = "idle"
  BY <1>1 DEF Idle
<1> QED
  BY <1>1, <1>2, CalmMoves DEF Return, Fresh

\* A call is about to write its copy, and has changed no other step.
LEMMA CalmWrites ==
    ASSUME RolloutAssumption, RolloutInv, Calm, NEW w \in Workers, Step(w), NEW d, Goto(w, d), Orderly(d),
           d.pc = "write", d.plan = plan, UNCHANGED plan, d.step \in StepSet,
           \A s \in StepSet \ {d.step} : TellsOf(plan, s) => TellsOf(plan, s)',
           worker[w].pc # "write", TellsOf(Written(d), d.step)'
    PROVE  Calm'
<1>1. Fresh(d)'
  BY DEF Fresh
<1>2. PICK p : p = Written(d)
  OBVIOUS
<1>3. ASSUME NEW s \in StepSet, s # d.step PROVE TellsOf(p, s)'
  <2>1. p.step[s] = plan'.step[s] /\ p.approval[s] = plan'.approval[s]
    BY <1>2, <1>3, WrittenRow
  <2>2. TellsOf(plan, s)'
    BY <1>3, CallIsAlone DEF Tells
  <2> QED
    BY <2>1, <2>2 DEF TellsOf
<1>4. Tells(p)'
  BY <1>2, <1>3 DEF Tells, TellsOf
<1> QED
  BY <1>1, <1>2, <1>4, CalmMoves DEF Tells, TellsOf

LEMMA LookUpIsCalm ==
    ASSUME RolloutAssumption, RolloutInv, BallotInv, Calm, NEW w \in Workers, LookUpApproval(w)
    PROVE  Calm'
<1>1. PICK c : c = worker[w]
  OBVIOUS
<1>2. PICK s : s = c.step
  OBVIOUS
<1>3. /\ Step(w) /\ Orderly(c) /\ c \in CallRecs /\ c.pc = "lookup" /\ c.plan = plan
      /\ plan.step[s] \in {"pending", "blocked"} /\ TellsOf(plan, s) /\ s \in StepSet
      /\ c.op \in {"run", "request"} /\ plan \in Plans /\ Tells(plan)
  <2>1. Step(w) /\ c.pc = "lookup"
    BY <1>1 DEF Step, LookUpApproval, At
  <2>2. Fresh(c) /\ Orderly(c) /\ c \in CallRecs /\ plan \in Plans /\ Tells(plan)
    BY <1>1, <2>1, CallIsAlone
  <2>3. s \in StepSet
    BY <1>2, <2>1, <2>2 DEF Orderly, RolloutAssumption
  <2> QED
    BY <1>2, <2>1, <2>2, <2>3 DEF Fresh, Orderly, Tells
<1>4. UNCHANGED <<plan, approval, attempts>>
  BY DEF LookUpApproval, histVars
<1>5. \A p, t : TellsOf(p, t) => TellsOf(p, t)'
  BY <1>4 DEF TellsOf
<1>6. Tells(plan)'
  BY <1>3, <1>4, <1>5 DEF Tells, TellsOf
<1>7. ASSUME NEW i \in DOMAIN approval, approval[i].step = s, approval[i].status = "pending"
      PROVE  Found(c) = {approval[i].id} \/ (c.op = "request" /\ Found(c) # {})
  <2>1. plan.approval[s] = approval[i].id /\ approval[i].id # NoApproval
    BY <1>3, <1>7, IdIsApproval DEF TellsOf
  <2>2. c.op = "request" => approval[i].id \in Found(c)
    BY <1>2, <1>7, RowOf DEF Found, Pending, BallotInv
  <2> QED
    BY <1>2, <1>3, <2>1, <2>2 DEF Found
<1>8. /\ Existing(w) = Found(c)
      /\ \/ Found(c) = {} /\ Goto(w, [c EXCEPT !.pc = "create"])
         \/ \E a \in Found(c) :
               \/ Return(w)
               \/ Sanctions(a) /\ c.op # "request" /\ Goto(w, [c EXCEPT !.pc = "execute"])
               \/ \E status \in {"failed", "blocked"} : c.op # "request" /\ Result(w, a, status)
  BY <1>1 DEF LookUpApproval, Existing, Found
<1>9. CASE Return(w)
  BY <1>3, <1>6, <1>9, CalmReturns
<1>10. ASSUME NEW place \in {"create", "execute"}, NonePending(s), Goto(w, [c EXCEPT !.pc = place])
       PROVE  Calm'
  <2>1. PICK d : d = [c EXCEPT !.pc = place]
    OBVIOUS
  <2>2. d.plan = plan /\ d.step = s /\ d.pc = place
    BY <1>2, <1>3, <2>1 DEF CallRecs
  <2>3. Fresh(d)
    BY <1>3, <1>10, <2>2 DEF Fresh
  <2>4. Fresh(d)'
    BY <1>4, <2>3 DEF Fresh, NonePending
  <2> QED
    BY <1>3, <1>6, <1>10, <2>1, <2>2, <2>4, CalmMoves
<1>11. CASE Found(c) = {} /\ Goto(w, [c EXCEPT !.pc = "create"])
  <2>1. NonePending(s)
    BY <1>7, <1>11 DEF NonePending
  <2> QED
    BY <1>10, <1>11, <2>1
<1>12. ASSUME NEW a \in Found(c), Sanctions(a), c.op # "request", Goto(w, [c EXCEPT !.pc = "execute"])
       PROVE  Calm'
  <2>1. NonePending(s)
    <3> SUFFICES ASSUME NEW i \in DOMAIN approval, approval[i].step = s, approval[i].status = "pending"
                 PROVE  FALSE
      BY DEF NonePending
    <3>1. a = approval[i].id
      BY <1>7, <1>12
    <3>2. Row(a) = approval[i]
      BY <3>1, RowOf DEF BallotInv
    <3> QED
      BY <1>12, <3>2 DEF Sanctions
  <2> QED
    BY <1>10, <1>12, <2>1
<1>13. ASSUME NEW a \in Found(c), NEW status \in {"failed", "blocked"}, c.op # "request", Result(w, a, status)
       PROVE  Calm'
  <2>1. PICK d : d = [c EXCEPT !.pc = "write", !.approval = a, !.result = status]
    OBVIOUS
  <2>2. Goto(w, d)
    BY <1>1, <1>13, <2>1 DEF Result
  <2>3. /\ d.plan = plan /\ d.step = s /\ d.pc = "write" /\ d.approval = a /\ d.result = status /\ d.op = "run"
        /\ d \in CallRecs /\ a \in Approvals
    <3>1. a \in Approvals
      <4>1. a \in Pending(s) => a \in Approvals
        BY CreatedIsApproval DEF Pending, RolloutInv
      <4>2. plan.approval[s] # NoApproval => plan.approval[s] \in Approvals
        BY <1>3 DEF Plans
      <4> QED
        BY <1>2, <1>3, <1>13, <4>1, <4>2 DEF Found
    <3>2. status \in StepStatuses
      BY DEF StepStatuses
    <3> QED
      BY <1>2, <1>3, <1>13, <2>1, <3>1, <3>2 DEF CallRecs, Places
  <2>4. Orderly(d)
    BY <1>3, <2>3 DEF Orderly, Changes, StepStatuses
  <2>5. a # NoApproval
    BY <2>3 DEF RolloutAssumption
  <2>6. Written(d).step[s] = status /\ Written(d).approval[s] = a
    BY <1>3, <2>3, <2>4, <2>5, WrittenRow
  <2>7. attempts[s] = 0
    BY <1>3 DEF TellsOf
  <2>8. TellsOf(Written(d), s)
    BY <1>3, <1>7, <1>13, <2>6, <2>7 DEF TellsOf
  <2>9. TellsOf(Written(d), s)'
    BY <1>5, <2>8 DEF TellsOf
  <2> QED
    BY <1>1, <1>3, <1>4, <1>5, <2>2, <2>3, <2>4, <2>9, CalmWrites DEF TellsOf
<1> QED
  BY <1>8, <1>9, <1>11, <1>12, <1>13

LEMMA CreateIsCalm ==
    ASSUME RolloutAssumption, RolloutInv, BallotInv, Calm, NEW w \in Workers, CreateApproval(w)
    PROVE  Calm'
<1>1. PICK c : c = worker[w]
  OBVIOUS
<1>2. PICK s : s = c.step
  OBVIOUS
<1>3. /\ Step(w) /\ Orderly(c) /\ c \in CallRecs /\ c.pc = "create" /\ c.plan = plan
      /\ plan.step[s] \in {"pending", "blocked"} /\ TellsOf(plan, s) /\ s \in StepSet
      /\ c.op \in {"run", "request"} /\ plan \in Plans /\ NonePending(s)
  <2>1. Step(w) /\ c.pc = "create"
    BY <1>1 DEF Step, CreateApproval, At
  <2>2. Fresh(c) /\ Orderly(c) /\ c \in CallRecs /\ plan \in Plans /\ Tells(plan)
    BY <1>1, <2>1, CallIsAlone
  <2>3. s \in StepSet
    BY <1>2, <2>1, <2>2 DEF Orderly, RolloutAssumption
  <2> QED
    BY <1>2, <2>1, <2>2, <2>3 DEF Fresh, Orderly, Tells
<1>4. UNCHANGED <<plan, attempts>>
  BY DEF CreateApproval, histVars
<1>5. PICK a \in Approvals, u \in Users :
         approval' = Append(approval, NewApproval(w, a, u)) /\ Result(w, a, "blocked")
  BY DEF CreateApproval
<1>6. PICK new : new = NewApproval(w, a, u)
  OBVIOUS
<1>7. new.id = a /\ new.step = s /\ new.status = "pending"
  BY <1>1, <1>2, <1>6 DEF NewApproval
<1>8. PICK n \in Nat : n = Len(approval) + 1
  BY DEF RolloutInv, TypedData
<1>9. /\ DOMAIN approval' = DOMAIN approval \cup {n} /\ approval'[n] = new
      /\ \A i \in DOMAIN approval : approval'[i] = approval[i]
  BY <1>5, <1>6, <1>8 DEF RolloutInv, TypedData
<1>10. \A t \in StepSet \ {s} : TellsOf(plan, t) => TellsOf(plan, t)'
  BY <1>4, <1>7, <1>9 DEF TellsOf
<1>11. PICK d : d = [c EXCEPT !.pc = "write", !.approval = a, !.result = "blocked"]
  OBVIOUS
<1>12. Goto(w, d)
  BY <1>1, <1>5, <1>11 DEF Result
<1>13. /\ d.plan = plan /\ d.step = s /\ d.pc = "write" /\ d.approval = a /\ d.result = "blocked"
       /\ d.op \in {"run", "request"} /\ d \in CallRecs
  <2>1. "blocked" \in StepStatuses
    BY DEF StepStatuses
  <2> QED
    BY <1>2, <1>3, <1>11, <2>1 DEF CallRecs, Places
<1>14. Orderly(d)
  BY <1>3, <1>13 DEF Orderly, Changes, StepStatuses
<1>15. Written(d).step[s] = "blocked" /\ Written(d).approval[s] = a
  <2>1. a # NoApproval
    BY DEF RolloutAssumption
  <2> QED
    BY <1>3, <1>13, <1>14, <2>1, WrittenRow
<1>16. PICK p : p = Written(d)
  OBVIOUS
<1>17. attempts[s] = 0 /\ \A i \in DOMAIN approval : approval[i].step = s => approval[i].status # "rejected"
  BY <1>3 DEF TellsOf
<1>18. TellsOf(p, s)'
  BY <1>3, <1>4, <1>7, <1>9, <1>15, <1>16, <1>17 DEF TellsOf, NonePending
<1>19. TellsOf(Written(d), s)'
  BY <1>16, <1>18 DEF TellsOf
<1> QED
  BY <1>1, <1>3, <1>4, <1>10, <1>12, <1>13, <1>14, <1>19, CalmWrites DEF TellsOf

LEMMA ExecuteIsCalm ==
    ASSUME RolloutAssumption, RolloutInv, Calm, NEW w \in Workers, Execute(w)
    PROVE  Calm'
<1>1. PICK c : c = worker[w]
  OBVIOUS
<1>2. PICK s : s = c.step
  OBVIOUS
<1>3. /\ Step(w) /\ Orderly(c) /\ c \in CallRecs /\ c.pc = "execute" /\ c.plan = plan
      /\ plan.step[s] \in {"pending", "blocked"} /\ TellsOf(plan, s) /\ s \in StepSet
      /\ c.op = "run" /\ plan \in Plans /\ NonePending(s)
  <2>1. Step(w) /\ c.pc = "execute"
    BY <1>1 DEF Step, Execute, At
  <2>2. Fresh(c) /\ Orderly(c) /\ c \in CallRecs /\ plan \in Plans /\ Tells(plan)
    BY <1>1, <2>1, CallIsAlone
  <2>3. s \in StepSet
    BY <1>2, <2>1, <2>2 DEF Orderly
  <2> QED
    BY <1>2, <2>1, <2>2, <2>3 DEF Fresh, Orderly, Tells
<1>4. UNCHANGED <<plan, approval>>
  BY DEF Execute
<1>5. attempts[s] = 0 /\ \A i \in DOMAIN approval : approval[i].step = s => approval[i].status # "rejected"
  BY <1>3 DEF TellsOf
<1>6. attempts'[s] \in {0, 1} /\ \A t \in StepSet \ {s} : attempts'[t] = attempts[t]
  BY <1>1, <1>2, <1>3, <1>5 DEF Execute, RolloutInv, TypedData
<1>7. \A t \in StepSet \ {s} : TellsOf(plan, t) => TellsOf(plan, t)'
  BY <1>4, <1>6 DEF TellsOf
<1>8. PICK status \in {"succeeded", "failed"} : Result(w, NoApproval, status)
  BY DEF Execute
<1>9. PICK d : d = [c EXCEPT !.pc = "write", !.approval = NoApproval, !.result = status]
  OBVIOUS
<1>10. Goto(w, d)
  BY <1>1, <1>8, <1>9 DEF Result
<1>11. /\ d.plan = plan /\ d.step = s /\ d.pc = "write" /\ d.result = status /\ d.op = "run" /\ d \in CallRecs
  <2>1. status \in StepStatuses
    BY DEF StepStatuses
  <2> QED
    BY <1>2, <1>3, <1>9, <2>1 DEF CallRecs, Places
<1>12. Orderly(d)
  BY <1>3, <1>11 DEF Orderly, Changes, StepStatuses
<1>13. PICK p : p = Written(d)
  OBVIOUS
<1>14. p.step[s] = status
  BY <1>3, <1>11, <1>12, <1>13, WrittenRow
<1>15. TellsOf(p, s)'
  BY <1>3, <1>4, <1>5, <1>6, <1>14 DEF TellsOf, NonePending
<1>16. TellsOf(Written(d), s)'
  BY <1>13, <1>15 DEF TellsOf
<1> QED
  BY <1>1, <1>3, <1>4, <1>7, <1>10, <1>11, <1>12, <1>16, CalmWrites DEF TellsOf

LEMMA SelectIsCalm ==
    ASSUME RolloutAssumption, RolloutInv, Calm, NEW w \in Workers, SelectApproval(w)
    PROVE  Calm'
<1>1. PICK c : c = worker[w]
  OBVIOUS
<1>2. Step(w) /\ c \in CallRecs /\ c.pc = "select" /\ Fresh(c) /\ Tells(plan)
  <2>1. Step(w) /\ c.pc = "select"
    BY <1>1 DEF Step, SelectApproval, At
  <2> QED
    BY <1>1, <2>1, CallIsAlone
<1>3. UNCHANGED <<plan, approval, attempts>>
  BY DEF SelectApproval, histVars
<1>4. Tells(plan)'
  BY <1>2, <1>3 DEF Tells, TellsOf
<1>5. Return(w) \/ \E users : Goto(w, [c EXCEPT !.pc = "update", !.approvers = users])
  BY <1>1 DEF SelectApproval
<1>6. ASSUME NEW users, Goto(w, [c EXCEPT !.pc = "update", !.approvers = users]) PROVE Calm'
  <2>1. PICK d : d = [c EXCEPT !.pc = "update", !.approvers = users]
    OBVIOUS
  <2>2. d.plan = c.plan /\ d.step = c.step /\ d.approval = c.approval /\ d.pc = "update"
    BY <1>2, <2>1 DEF CallRecs
  <2>3. Fresh(d)'
    BY <1>2, <1>3, <2>2 DEF Fresh
  <2> QED
    BY <1>2, <1>4, <1>6, <2>1, <2>2, <2>3, CalmMoves
<1> QED
  BY <1>2, <1>4, <1>5, <1>6, CalmReturns

LEMMA UpdateIsCalm ==
    ASSUME RolloutAssumption, RolloutInv, BallotInv, Calm, NEW w \in Workers, UpdateApproval(w)
    PROVE  Calm'
<1>1. PICK c : c = worker[w]
  OBVIOUS
<1>2. PICK s : s = c.step
  OBVIOUS
<1>3. /\ Step(w) /\ Orderly(c) /\ c \in CallRecs /\ c.pc = "update" /\ c.plan = plan
      /\ TellsOf(plan, s) /\ s \in StepSet /\ c.op \in {"approve", "reject"} /\ plan \in Plans /\ Tells(plan)
      /\ \E i \in DOMAIN approval : approval[i].id = c.approval /\ approval[i].step = s /\ approval[i].status = "pending"
  <2>1. Step(w) /\ c.pc = "update"
    BY <1>1 DEF Step, UpdateApproval, At
  <2>2. Fresh(c) /\ Orderly(c) /\ c \in CallRecs /\ plan \in Plans /\ Tells(plan)
    BY <1>1, <2>1, CallIsAlone
  <2> QED
    BY <1>2, <2>1, <2>2 DEF Fresh, Orderly, Tells
<1>4. PICK k \in DOMAIN approval :
         approval[k].id = c.approval /\ approval[k].step = s /\ approval[k].status = "pending"
  BY <1>3
<1>5. UNCHANGED <<plan, attempts>>
  BY DEF UpdateApproval
<1>6. PICK now : now = IF c.op = "approve" THEN Append(c.approvers, c.user) ELSE c.approvers
  OBVIOUS
<1>7. PICK verdict : verdict = Evaluated(c.op, Len(now), Row(c.approval).required)
  OBVIOUS
<1>8. /\ DOMAIN approval' = DOMAIN approval
      /\ \A i \in DOMAIN approval : /\ approval'[i].id = approval[i].id /\ approval'[i].step = approval[i].step
                                    /\ i # k => approval'[i].status = approval[i].status
      /\ approval'[k].status = verdict
  <2>1. approval' = Updated(c, now, verdict)
    BY <1>1, <1>6, <1>7 DEF UpdateApproval, Updated
  <2>2. \A i \in DOMAIN approval : approval[i] \in ApprovalRecs /\ (approval[i].id = c.approval <=> i = k)
    BY <1>4, RowTypes DEF RolloutInv, BallotInv, RowsInv
  <2> QED
    BY <1>4, <2>1, <2>2 DEF Updated, ApprovalRecs
<1>9. verdict \in {"approved", "pending", "rejected"} /\ (verdict = "rejected" <=> c.op = "reject")
  BY <1>3, <1>7 DEF Evaluated
<1>10. attempts[s] = 0
  BY <1>3, <1>4 DEF TellsOf
<1>11. \A t \in StepSet \ {s} : TellsOf(plan, t) => TellsOf(plan, t)'
  BY <1>4, <1>5, <1>8 DEF TellsOf
<1>12. \/ Return(w) /\ verdict # "rejected"
       \/ verdict = "rejected" /\ Goto(w, [c EXCEPT !.pc = "write", !.result = "failed"])
       \/ /\ verdict = "approved" /\ plan.step[s] = "blocked"
          /\ Goto(w, [c EXCEPT !.pc = "write", !.result = "pending"])
  BY <1>1, <1>2, <1>3, <1>6, <1>7, <1>9 DEF UpdateApproval
<1>13. CASE Return(w) /\ verdict # "rejected"
  <2>1. TellsOf(plan, s)'
    BY <1>3, <1>4, <1>5, <1>8, <1>9, <1>13 DEF TellsOf
  <2>2. Tells(plan)'
    BY <1>3, <1>5, <1>11, <2>1 DEF Tells, TellsOf
  <2> QED
    BY <1>3, <1>13, <2>2, CalmReturns
<1>14. ASSUME NEW status \in {"failed", "pending"}, Goto(w, [c EXCEPT !.pc = "write", !.result = status]),
              status = "failed" => verdict = "rejected",
              status = "pending" => verdict = "approved" /\ plan.step[s] = "blocked"
       PROVE  Calm'
  <2>1. PICK d : d = [c EXCEPT !.pc = "write", !.result = status]
    OBVIOUS
  <2>2. /\ d.plan = plan /\ d.step = s /\ d.pc = "write" /\ d.result = status /\ d.op = c.op /\ d \in CallRecs
    <3>1. status \in StepStatuses
      BY DEF StepStatuses
    <3> QED
      BY <1>2, <1>3, <2>1, <3>1 DEF CallRecs, Places
  <2>3. Orderly(d)
    BY <1>3, <2>2 DEF Orderly, Changes, StepStatuses
  <2>4. PICK p : p = Written(d)
    OBVIOUS
  <2>5. p.step[s] = status /\ p.approval[s] = plan.approval[s]
    BY <1>3, <2>2, <2>3, <2>4, WrittenRow
  <2>6. TellsOf(p, s)'
    <3>1. ASSUME NEW i \in DOMAIN approval', approval'[i].step = s, approval'[i].status = "pending"
          PROVE  p.approval[s] = approval'[i].id
      BY <1>3, <1>4, <1>8, <1>14, <2>5, <3>1 DEF TellsOf
    <3>2. ASSUME NEW i \in DOMAIN approval', approval'[i].step = s, approval'[i].status = "rejected"
          PROVE  p.step[s] = "failed"
      BY <1>3, <1>8, <1>14, <2>5, <3>2 DEF TellsOf
    <3> QED
      BY <1>5, <1>10, <3>1, <3>2 DEF TellsOf
  <2>7. TellsOf(Written(d), s)'
    BY <2>4, <2>6 DEF TellsOf
  <2> QED
    BY <1>1, <1>3, <1>5, <1>11, <1>14, <2>1, <2>2, <2>3, <2>7, CalmWrites, ZenonT(40) DEF TellsOf
<1> QED
  BY <1>12, <1>13, <1>14

LEMMA ExpireIsCalm ==
    ASSUME RolloutAssumption, RolloutInv, Calm, NEW w \in Workers, ExpireApproval(w)
    PROVE  Calm'
<1>1. Step(w) /\ worker[w].pc = "expire" /\ Return(w) /\ UNCHANGED <<plan, attempts>>
  BY DEF Step, ExpireApproval, At, histVars
<1>2. Tells(plan)
  BY <1>1, CallIsAlone
<1>3. \A i \in DOMAIN approval : approval[i] \in ApprovalRecs
  BY RowTypes DEF RolloutInv
<1>4. /\ DOMAIN approval' = DOMAIN approval
      /\ \A i \in DOMAIN approval :
            /\ approval'[i].id = approval[i].id /\ approval'[i].step = approval[i].step
            /\ approval'[i].status = approval[i].status \/ approval'[i].status = "expired"
  BY <1>3 DEF ExpireApproval, ApprovalRecs
<1>5. Tells(plan)'
  BY <1>1, <1>2, <1>4 DEF Tells, TellsOf
<1> QED
  BY <1>1, <1>5, CalmReturns

LEMMA WriteIsCalm ==
    ASSUME RolloutAssumption, RolloutInv, Calm, NEW w \in Workers, WritePlan(w)
    PROVE  Calm'
<1>1. /\ Step(w) /\ worker[w].pc = "write" /\ Return(w) /\ UNCHANGED <<approval, attempts>>
      /\ plan' = Written(worker[w])
  BY DEF Step, WritePlan, At
<1>2. PICK p : p = Written(worker[w])
  OBVIOUS
<1>3. Tells(p) /\ plan' = p
  BY <1>1, <1>2 DEF Calm
<1>4. Tells(plan)'
  BY <1>1, <1>3 DEF Tells, TellsOf
<1> QED
  BY <1>1, <1>4, CalmReturns

LEMMA TimeIsCalm ==
    ASSUME RolloutAssumption, RolloutInv, Calm, TimePasses
    PROVE  Calm'
<1>1. UNCHANGED <<plan, worker, attempts>>
  BY DEF TimePasses, histVars
<1>2. PICK k \in DOMAIN approval : approval' = [approval EXCEPT ![k].ttl = "passed"]
  BY DEF TimePasses
<1>3. \A i \in DOMAIN approval : approval[i] \in ApprovalRecs
  BY RowTypes DEF RolloutInv
<1>4. /\ DOMAIN approval' = DOMAIN approval
      /\ \A i \in DOMAIN approval :
            /\ approval'[i].id = approval[i].id /\ approval'[i].step = approval[i].step
            /\ approval'[i].status = approval[i].status
  BY <1>2, <1>3 DEF ApprovalRecs
<1>5. \A p : Tells(p) => Tells(p)'
  BY <1>1, <1>4 DEF Tells, TellsOf
<1>6. \A c : Fresh(c) => Fresh(c)'
  BY <1>1, <1>4 DEF Fresh, NonePending
<1>7. ASSUME NEW w \in Workers
      PROVE  Fresh(worker[w])' /\ (worker'[w].pc = "write" => Tells(Written(worker[w]))')
  <2>1. PICK c : c = worker[w]
    OBVIOUS
  <2>2. PICK p : p = Written(c)
    OBVIOUS
  <2>3. Fresh(c)' /\ (c.pc = "write" => Tells(p)')
    BY <1>5, <1>6, <2>1, <2>2 DEF Calm
  <2>4. worker'[w] = c
    BY <1>1, <2>1
  <2>5. Written(worker[w])' = p
    BY <2>2, <2>4, SMTT(20) DEF Written, StatusAfter, All
  <2> QED
    BY <2>3, <2>4, <2>5 DEF Fresh, NonePending, Tells, TellsOf
<1>8. Tells(plan) => Tells(plan)'
  BY <1>1, <1>5 DEF Tells, TellsOf
<1> QED
  BY <1>1, <1>7, <1>8 DEF Calm

LEMMA CalmInvHolds == Spec => []CalmInv
<1>1. Init => CalmInv
  <2> SUFFICES ASSUME Init PROVE Calm
    BY DEF CalmInv
  <2>1. \A w \in Workers : worker[w].pc = "idle"
    BY DEF Init, Idle
  <2>2. \A s \in StepSet : TellsOf(plan, s)
    BY DEF Init, TellsOf
  <2> QED
    BY <2>1, <2>2 DEF Calm, Fresh, Tells
<1>2. RolloutInv /\ BallotInv /\ CalmInv /\ [Next]_vars => CalmInv'
  <2> SUFFICES ASSUME RolloutInv, BallotInv, CalmInv, [Next]_vars, disturbances' = 0 PROVE Calm'
    BY DEF CalmInv
  <2> USE RolloutAssumption
  <2>1. disturbances \in Nat
    BY DEF RolloutInv, TypedData, RolloutAssumption
  <2>2. CASE UNCHANGED vars
    <3>1. Calm
      BY <2>2 DEF vars, CalmInv
    <3> QED
      BY <2>2, <3>1
         DEF vars, histVars, Calm, Fresh, NonePending, Tells, TellsOf, Written, StatusAfter, All
  <2>3. ASSUME NEW w \in Workers, Entry(w) PROVE Calm'
    <3>1. disturbances = 0
      BY <2>1, <2>3, EntryStarts DEF Enter
    <3> QED
      BY <2>3, <3>1, EntryIsCalm DEF CalmInv
  <2>4. ASSUME NEW w \in Workers, Crash(w) PROVE FALSE
    BY <2>1, <2>4 DEF Crash
  <2>5. ASSUME NEW w \in Workers, \/ LookUpApproval(w) \/ CreateApproval(w) \/ Execute(w) \/ SelectApproval(w)
                                  \/ UpdateApproval(w) \/ ExpireApproval(w) \/ WritePlan(w)
        PROVE  Calm'
    <3>1. disturbances = 0
      BY <2>5 DEF LookUpApproval, CreateApproval, Execute, SelectApproval, UpdateApproval,
         ExpireApproval, WritePlan
    <3>2. Calm
      BY <3>1 DEF CalmInv
    <3> QED
      BY <2>5, <3>2, LookUpIsCalm, CreateIsCalm, ExecuteIsCalm, SelectIsCalm, UpdateIsCalm,
         ExpireIsCalm, WriteIsCalm
  <2>6. CASE TimePasses
    BY <2>6, TimeIsCalm DEF TimePasses, CalmInv
  <2> QED
    BY <2>2, <2>3, <2>4, <2>5, <2>6 DEF Next, Entry
<1> QED
  BY <1>1, <1>2, RolloutInvHolds, BallotInvHolds, PTL DEF Spec

\* What happened is what the row says, or is about to say.
LEMMA CalmIsTold == ASSUME RolloutInv, Calm PROVE \E p : Tells(p)
<1>1. CASE \E w \in Workers : worker[w].pc = "write"
  BY <1>1 DEF Calm
<1>2. CASE \A w \in Workers : worker[w].pc # "write"
  BY <1>2 DEF Calm
<1> QED
  BY <1>1, <1>2

\* Calls made one after another carry a step out at most once: for any number of
\* steps, users, approvals and calls, the second time takes calls that overlap or
\* one that dies.
THEOREM CarriedOutOnceUndisturbed == Spec => []CarriedOutOnce
<1>1. RolloutInv /\ CalmInv => CarriedOutOnce
  <2> SUFFICES ASSUME RolloutInv, CalmInv, NEW s \in StepSet, attempts[s] > 1, ~(disturbances > 0)
               PROVE  FALSE
    BY DEF CarriedOutOnce
  <2>1. disturbances = 0
    BY RolloutAssumption DEF RolloutInv, TypedData, RolloutAssumption
  <2>2. PICK p : TellsOf(p, s)
    BY <2>1, CalmIsTold DEF CalmInv, Tells
  <2> QED
    BY <2>2 DEF TellsOf
<1> QED
  BY <1>1, RolloutInvHolds, CalmInvHolds, PTL

\* And then a rejection stands: the rejected step is never carried out, neither
\* before nor after, whatever is requested, approved, started or run later.
THEOREM RejectionStandsUndisturbed == Spec => []RejectionStands
<1>1. RolloutInv /\ CalmInv => RejectionStands
  <2> SUFFICES ASSUME RolloutInv, CalmInv, NEW i \in DOMAIN approval, approval[i].status = "rejected",
                      attempts[approval[i].step] > 0, ~(disturbances > 0)
               PROVE  FALSE
    BY DEF RejectionStands
  <2>1. disturbances = 0 /\ approval[i].step \in StepSet
    BY RolloutAssumption, IdIsApproval DEF RolloutInv, TypedData, RolloutAssumption
  <2>2. PICK p : TellsOf(p, approval[i].step)
    BY <2>1, CalmIsTold DEF CalmInv, Tells
  <2> QED
    BY <2>2 DEF TellsOf
<1> QED
  BY <1>1, RolloutInvHolds, CalmInvHolds, PTL

-----------------------------------------------------------------------------
(* And then a plan that has ended has ended.  A call starts, cancels or    *)
(* runs only a plan whose status allows it, and finds it so when it writes. *)
Timely(c) ==
    c.pc # "idle" =>
        /\ c.op = "start" => plan.status = "draft"
        /\ c.op = "cancel" => plan.status \in {"draft", "active"}
        /\ c.op \in {"run", "gate"} => plan.status = "active"
TimelyInv == disturbances = 0 => \A w \in Workers : Timely(worker[w])

LEMMA EntryIsTimely ==
    ASSUME RolloutAssumption, RolloutInv, NEW w \in Workers, Entry(w)
    PROVE  \E c : Enter(w, c) /\ Timely(c)
<1>0. TypedData
  BY DEF RolloutInv
<1>1. CASE Start(w)
  <2>1. PICK c : c = [Call("start", "write") EXCEPT !.result = "active"]
    OBVIOUS
  <2>2. c.op = "start"
    BY <2>1 DEF Call, Idle
  <2> QED
    BY <1>1, <2>1, <2>2 DEF Start, Timely
<1>2. CASE Cancel(w)
  <2>1. PICK c : c = [Call("cancel", "write") EXCEPT !.result = "cancelled"]
    OBVIOUS
  <2>2. c.op = "cancel"
    BY <2>1 DEF Call, Idle
  <2> QED
    BY <1>2, <2>1, <2>2 DEF Cancel, Timely
<1>3. CASE RunNext(w)
  <2>1. PICK s : s = NextStep(plan)
    OBVIOUS
  <2>2. PICK call : call = [Call("run", Lookup(s)) EXCEPT !.step = s]
    OBVIOUS
  <2>3. call.op = "run" /\ plan.status = "active"
    BY <1>3, <2>2 DEF RunNext, MayRun, Call, Idle
  <2>4. CASE Enter(w, call)
    BY <2>3, <2>4 DEF Timely
  <2>5. ASSUME NEW verdict \in {"blocked", "failed", "skipped"},
               Enter(w, [call EXCEPT !.pc = "write", !.op = "gate", !.result = verdict])
        PROVE  \E c : Enter(w, c) /\ Timely(c)
    <3>1. PICK c : c = [call EXCEPT !.pc = "write", !.op = "gate", !.result = verdict]
      OBVIOUS
    <3>2. c.op = "gate"
      BY <2>2, <3>1 DEF Call, Idle
    <3> QED
      BY <2>3, <2>5, <3>1, <3>2 DEF Timely
  <2> QED
    BY <1>3, <2>1, <2>2, <2>4, <2>5 DEF RunNext
<1>4. CASE Request(w)
  <2>1. PICK s \in StepSet : Enter(w, [Call("request", "lookup") EXCEPT !.step = s])
    BY <1>4 DEF Request
  <2>2. PICK c : c = [Call("request", "lookup") EXCEPT !.step = s]
    OBVIOUS
  <2>3. c.op = "request"
    BY <2>2 DEF Call, Idle
  <2> QED
    BY <2>1, <2>2, <2>3 DEF Timely
<1>5. CASE Sweep(w)
  <2>1. PICK c : c = [Idle EXCEPT !.pc = "expire", !.overdue = Overdue]
    OBVIOUS
  <2>2. c.op = "none"
    BY <2>1 DEF Idle
  <2> QED
    BY <1>5, <2>1, <2>2 DEF Sweep, Timely
<1>6. CASE \E u \in Users : Decide(w, u)
  <2>1. PICK u \in Users, i \in DOMAIN approval, verdict \in {"approve", "reject"} :
           Enter(w, [Call(verdict, "select") EXCEPT !.user = u, !.step = approval[i].step,
                                                    !.approval = approval[i].id])
    BY <1>6 DEF Decide
  <2>2. PICK c : c = [Call(verdict, "select") EXCEPT !.user = u, !.step = approval[i].step,
                                                     !.approval = approval[i].id]
    OBVIOUS
  <2>3. c.op = verdict
    BY <2>2 DEF Call, Idle
  <2> QED
    BY <2>1, <2>2, <2>3 DEF Timely
<1> QED
  BY <1>1, <1>2, <1>3, <1>4, <1>5, <1>6 DEF Entry

\* A call that goes on keeps what it is about.
LEMMA GoesOnWithOp ==
    ASSUME NEW c \in CallRecs, NEW d, Continued(c, d)
    PROVE  d.pc = "idle" \/ d.op = c.op
<1>1. CASE d = Idle
  BY <1>1 DEF Idle
<1>2. CASE \E place \in {"create", "execute"} : d = [c EXCEPT !.pc = place]
  BY <1>2 DEF CallRecs
<1>3. CASE \E a, status : d = [c EXCEPT !.pc = "write", !.approval = a, !.result = status]
  BY <1>3 DEF CallRecs
<1>4. CASE \E l : d = [c EXCEPT !.pc = "update", !.approvers = l]
  BY <1>4 DEF CallRecs
<1>5. CASE \E status : d = [c EXCEPT !.pc = "write", !.result = status]
  BY <1>5 DEF CallRecs
<1>6. ASSUME NEW place, c.pc = place, place \in {"lookup", "create"}, d # Idle
      PROVE  \/ \E next \in {"create", "execute"} : d = [c EXCEPT !.pc = next]
             \/ \E a, status : d = [c EXCEPT !.pc = "write", !.approval = a, !.result = status]
  BY <1>6, ZenonT(40) DEF Continued
<1>7. ASSUME c.pc \notin {"lookup", "create"}, d # Idle
      PROVE  \/ \E a, status : d = [c EXCEPT !.pc = "write", !.approval = a, !.result = status]
             \/ \E l : d = [c EXCEPT !.pc = "update", !.approvers = l]
             \/ \E status : d = [c EXCEPT !.pc = "write", !.result = status]
  BY <1>7, ZenonT(40) DEF Continued
<1> QED
  BY <1>1, <1>2, <1>3, <1>4, <1>5, <1>6, <1>7

LEMMA TimelyInvHolds == Spec => []TimelyInv
<1> USE RolloutAssumption
<1>1. Init => TimelyInv
  BY DEF Init, TimelyInv, Timely, Idle
<1>2. RolloutInv /\ CalmInv /\ TimelyInv /\ [Next]_vars => TimelyInv'
  <2> SUFFICES ASSUME RolloutInv, CalmInv, TimelyInv, [Next]_vars, disturbances' = 0, NEW v \in Workers
               PROVE  Timely(worker[v])'
    BY DEF TimelyInv
  <2>1. disturbances \in Nat
    BY DEF RolloutInv, TypedData, RolloutAssumption
  <2>2. CASE UNCHANGED vars
    BY <2>2 DEF vars, TimelyInv, Timely
  <2>3. ASSUME NEW w \in Workers, Entry(w) PROVE Timely(worker[v])'
    <3>1. PICK c : Enter(w, c) /\ Timely(c)
      BY <2>3, EntryIsTimely
    <3>2. UNCHANGED plan /\ worker' = [worker EXCEPT ![w] = c] /\ disturbances = 0
      BY <2>1, <3>1 DEF Enter
    <3>3. worker'[v] = c \/ worker'[v] = worker[v]
      BY <3>2 DEF RolloutInv, TypedWorkers
    <3> QED
      BY <3>1, <3>2, <3>3 DEF TimelyInv, Timely
  <2>4. ASSUME NEW w \in Workers, Step(w) PROVE Timely(worker[v])'
    <3>1. disturbances = 0
      <4>1. CASE Crash(w)
        BY <2>1, <4>1 DEF Crash
      <4>2. CASE ~Crash(w)
        BY <2>4, <4>2 DEF Step, LookUpApproval, CreateApproval, Execute, SelectApproval,
           UpdateApproval, ExpireApproval, WritePlan
      <4> QED
        BY <4>1, <4>2
    <3>2. \A u \in Workers \ {w} : worker'[u] = worker[u]
      BY <2>4, StepMoves
    <3>3. PICK e : Goto(w, e) /\ Continued(worker[w], e)
      BY <2>4, StepsContinue DEF RolloutInv, TypedWorkers
    <3>4. worker'[w] = e
      BY <3>3 DEF Goto, RolloutInv, TypedWorkers
    <3>5. worker[w] \in CallRecs /\ (\A u \in Workers \ {w} : worker[u].pc = "idle")
      BY <2>4, <3>1, CallIsAlone DEF CalmInv
    <3>6. CASE v # w
      BY <3>2, <3>5, <3>6 DEF Timely
    <3>7. CASE v = w /\ UNCHANGED plan
      <4>1. e.pc = "idle" \/ (e.op = worker[w].op /\ worker[w].pc # "idle")
        BY <2>4, <3>3, <3>5, GoesOnWithOp DEF Step, LookUpApproval, CreateApproval, Execute,
           SelectApproval, UpdateApproval, ExpireApproval, WritePlan, Crash, At
      <4> QED
        BY <3>1, <3>4, <3>7, <4>1 DEF TimelyInv, Timely
    <3>8. CASE v = w /\ WritePlan(w)
      BY <3>8, Moved DEF WritePlan, Return, Goto, Idle, Timely, RolloutInv, TypedWorkers
    <3> QED
      BY <2>4, <3>6, <3>7, <3>8 DEF Step, LookUpApproval, CreateApproval, Execute,
         SelectApproval, UpdateApproval, ExpireApproval, Crash
  <2>5. CASE TimePasses
    BY <2>5 DEF TimePasses, histVars, TimelyInv, Timely
  <2> QED
    BY <2>2, <2>3, <2>4, <2>5 DEF Next, Entry, Step
<1> QED
  BY <1>1, <1>2, RolloutInvHolds, CalmInvHolds, PTL DEF Spec

\* The status of an ended plan does not change, unless calls overlapped.
EndedPlanStays ==
    [][disturbances = 0 /\ plan.status \in {"completed", "failed", "cancelled"}
          => plan'.status = plan.status]_vars

\* policy_rollout_service.py:204-1195: while calls come one after another and none
\* dies, a plan that is completed, failed or cancelled stays so; no approval,
\* rejection, request or run that comes later changes its status.  A stale
\* write may: that is why disturbances counts the calls that overlap.
THEOREM EndedPlanStaysUndisturbed == Spec => EndedPlanStays
<1>1. RolloutInv /\ CalmInv /\ TimelyInv /\ [Next]_vars =>
        [disturbances = 0 /\ plan.status \in {"completed", "failed", "cancelled"}
            => plan'.status = plan.status]_vars
  <2> SUFFICES ASSUME RolloutInv, CalmInv, TimelyInv, [Next]_vars, disturbances = 0,
                      plan.status \in {"completed", "failed", "cancelled"}
               PROVE  plan'.status = plan.status
    OBVIOUS
  <2>1. ASSUME NEW w \in Workers, WritePlan(w)
        PROVE  plan'.status = plan.status
    <3>1. PICK c : c = worker[w]
      OBVIOUS
    <3>2. c.plan = plan /\ c.pc = "write" /\ c \in CallRecs /\ c.op \in Changes \cup {"start", "cancel"}
      BY <2>1, <3>1, CallIsAlone DEF Step, WritePlan, At, CalmInv, Fresh, Orderly
    <3>3. c.op \in {"request", "approve", "reject"}
      BY <3>1, <3>2 DEF TimelyInv, Timely, Changes
    <3>4. plan \in Plans /\ plan.status # "active"
      BY DEF RolloutInv, TypedData
    <3>5. PICK p : p = IF c.step = NoStep THEN c.plan
                       ELSE [c.plan EXCEPT !.step[c.step] = c.result,
                               !.approval[c.step] = IF c.op \in {"run", "request"} /\ c.approval # NoApproval
                                                    THEN c.approval ELSE @]
      OBVIOUS
    <3>6. p.status = plan.status /\ "status" \in DOMAIN p
      BY <3>2, <3>4, <3>5 DEF Plans
    <3>7. StatusAfter(c, p) = p.status
      BY <3>3, <3>4, <3>6 DEF StatusAfter
    <3>8. Written(c) = [p EXCEPT !.status = StatusAfter(c, p)]
      BY <3>5 DEF Written
    <3>9. plan' = Written(c)
      BY <2>1, <3>1 DEF WritePlan
    <3> QED
      BY <3>6, <3>7, <3>8, <3>9
  <2>2. CASE UNCHANGED plan
    BY <2>2
  <2>3. UNCHANGED plan \/ \E w \in Workers : WritePlan(w)
    BY DEF Next, vars, Start, RunNext, Cancel, Request, Sweep, Decide, Enter, LookUpApproval,
       CreateApproval, Execute, SelectApproval, UpdateApproval, ExpireApproval, Crash, TimePasses
  <2> QED
    BY <2>1, <2>2, <2>3
<1> QED
  BY <1>1, RolloutInvHolds, CalmInvHolds, TimelyInvHolds, PTL DEF Spec, EndedPlanStays
=============================================================================
