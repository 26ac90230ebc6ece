------------------------- MODULE ToolApprovalProofs -------------------------
(***************************************************************************)
(* The approval of tool calls, proved for any number of API calls,         *)
(* processes, requests of one interruption and crashes.                    *)
(***************************************************************************)
EXTENDS ToolApproval, TLAPS

CallRecs == [op : Ops, id : AllApprovals, proc : Procs, pc : Places, at : 1..Len(ApprovalIds),
             tools : SUBSET Requested, wrote : Statuses, resumes : BOOLEAN]
All == Calls \cup {Runner}

\* What a call holds fits where it is.
RunnersPlaces == {"create", "save", "done", "dead"}
Orderly(e) ==
    /\ e \in CallRecs
    /\ e.at \in 1..Len(Ids)
    /\ e.pc = "idle" => e.wrote = "none" /\ e.tools = {} /\ e.resumes = FALSE
    /\ e.pc \in {"read", "write", "expire"} => e.op \in Deciding /\ e.wrote = "none"
    /\ e.pc = "markFirst" => e.op = "resume"
TypedData ==
    /\ native \in BOOLEAN
    /\ approval \in [AllApprovals -> Statuses]
    /\ run \in {"none", "interrupted", "resumed", "completed"}
    /\ ttlPassed \in BOOLEAN
    /\ executed \in [Requested -> Nat]
    /\ crashes \in 0..MaxCrashes
TypedCalls ==
    /\ call = [c \in All |-> call[c]]
    /\ \A c \in All : Orderly(call[c])
    /\ call[Runner].pc \in RunnersPlaces
ApprovalInv == TypedData /\ TypedCalls

LEMMA IdsFacts ==
    ASSUME ToolApprovalAssumption, TypedData
    PROVE  /\ Len(Ids) \in Nat /\ Len(Ids) > 0 /\ Len(Ids) <= Len(ApprovalIds) /\ Len(ApprovalIds) \in Nat
           /\ \A i \in 1..Len(Ids) : Ids[i] = ApprovalIds[i] /\ Ids[i] \in Requested
           /\ \A i, j \in 1..Len(Ids) : Ids[i] = Ids[j] => i = j
           /\ IdSet \subseteq Requested /\ Late \notin Requested
<1>1. Len(ApprovalIds) \in Nat
  BY DEF ToolApprovalAssumption
<1>2. /\ Len(Ids) \in Nat /\ Len(Ids) > 0 /\ Len(Ids) <= Len(ApprovalIds)
      /\ \A i \in 1..Len(Ids) : Ids[i] = ApprovalIds[i]
  BY <1>1 DEF Ids, TypedData, ToolApprovalAssumption
<1>3. \A i \in 1..Len(Ids) : Ids[i] \in Requested
  BY <1>1, <1>2 DEF Requested
<1>4. \A i, j \in 1..Len(Ids) : Ids[i] = Ids[j] => i = j
  BY <1>1, <1>2 DEF ToolApprovalAssumption
<1>5. IdSet \subseteq Requested
  BY <1>3 DEF IdSet
<1>6. Late \notin Requested
  BY DEF ToolApprovalAssumption, Requested
<1> QED
  BY <1>1, <1>2, <1>3, <1>4, <1>5, <1>6

LEMMA IdleType == ASSUME ToolApprovalAssumption, TypedData, NEW p \in Procs
                  PROVE  Orderly([Idle EXCEPT !.proc = p]) /\ Orderly([Idle EXCEPT !.pc = "create", !.proc = p])
<1>1. ApprovalIds[1] \in AllApprovals /\ 1 \in 1..Len(Ids) /\ 1 \in 1..Len(ApprovalIds)
  BY IdsFacts DEF AllApprovals
<1> QED
  BY <1>1 DEF Idle, Orderly, CallRecs, Ops, Places, Holding, Over, Statuses

LEMMA InitApprovalInv == ASSUME ToolApprovalAssumption, Init PROVE ApprovalInv
<1>1. TypedData
  <2>1. executed \in [Requested -> Nat] /\ approval \in [AllApprovals -> Statuses]
    BY DEF Init, Statuses
  <2>2. crashes \in 0..MaxCrashes
    BY DEF Init, ToolApprovalAssumption
  <2> QED
    BY <2>1, <2>2 DEF Init, TypedData
<1>2. PICK p \in Procs : call = [c \in All |-> IF c = Runner THEN [Idle EXCEPT !.pc = "create", !.proc = p] ELSE Idle]
  BY DEF Init, All
<1>3. Orderly(Idle) /\ Orderly([Idle EXCEPT !.pc = "create", !.proc = p])
  <2>1. PICK q : q = CHOOSE x \in Procs : TRUE
    OBVIOUS
  <2>2. q \in Procs
    BY <1>2, <2>1
  <2>3. Idle.proc = q
    BY <2>1 DEF Idle
  <2>4. Idle = [Idle EXCEPT !.proc = q]
    BY <2>3 DEF Idle
  <2> QED
    BY <1>1, <2>2, <2>4, IdleType
<1>4. call[Runner].pc = "create"
  BY <1>2 DEF All, Idle
<1> QED
  BY <1>1, <1>2, <1>3, <1>4 DEF ApprovalInv, TypedCalls, RunnersPlaces

\* How a call goes on, and what it does to the stores.
Stays == UNCHANGED <<approval, run, executed>>
Continued(e, d) ==
    \/ e.pc = "read" /\ d = [e EXCEPT !.pc = "done", !.at = 1] /\ Stays
    \/ /\ e.pc = "read" /\ Open(e.id) /\ Stays
       /\ \E place \in {"write", "expire"} : d = [e EXCEPT !.pc = place, !.at = 1]
    \/ /\ e.pc = "write" /\ d = [e EXCEPT !.pc = AfterDecision(e.op), !.wrote = Decision(e.op)]
       /\ approval' = [approval EXCEPT ![e.id] = Decision(e.op)] /\ UNCHANGED <<run, executed>>
    \/ /\ e.pc = "expire" /\ d = [e EXCEPT !.pc = "done", !.wrote = "expired"]
       /\ approval' = [approval EXCEPT ![e.id] = "expired"] /\ UNCHANGED <<run, executed>>
    \/ /\ e.pc = "pending" /\ Blocking(Ids[e.at]) /\ d = [e EXCEPT !.pc = "done", !.at = 1] /\ Stays
    \/ /\ e.pc = "pending" /\ ~Blocking(Ids[e.at]) /\ Stays
       /\ \/ e.at < Len(Ids) /\ d = [e EXCEPT !.at = @ + 1]
          \/ e.at = Len(Ids) /\ d = [e EXCEPT !.pc = "rejected", !.at = 1]
    \/ /\ e.pc = "rejected" /\ Vetoes(Ids[e.at]) /\ d = [e EXCEPT !.pc = "close", !.at = 1] /\ Stays
    \/ /\ e.pc = "rejected" /\ ~Vetoes(Ids[e.at]) /\ Stays
       /\ \/ e.at < Len(Ids) /\ d = [e EXCEPT !.at = @ + 1]
          \/ /\ e.at = Len(Ids) /\ e.op = "resume"
             /\ d = [e EXCEPT !.pc = "markFirst", !.at = 1, !.resumes = TRUE]
          \/ /\ e.at = Len(Ids) /\ e.op # "resume" /\ native
             /\ d = [e EXCEPT !.pc = "decisions", !.at = 1, !.resumes = TRUE]
          \/ /\ e.at = Len(Ids) /\ e.op # "resume" /\ ~native
             /\ d = [e EXCEPT !.pc = "done", !.at = 1, !.resumes = FALSE]
    \/ /\ e.pc = "close" /\ d = [e EXCEPT !.pc = "done", !.at = 1]
       /\ run' = IF run = "none" THEN run ELSE "completed"
       /\ UNCHANGED <<approval, executed>>
    \/ /\ e.pc = "markFirst" /\ run' = "resumed" /\ UNCHANGED <<approval, executed>>
       /\ \E place \in {"decisions", "done"} : d = [e EXCEPT !.pc = place, !.at = 1]
    \/ /\ e.pc = "decisions" /\ Stays
       /\ \E place \in {"decisions", "backend", "done"}, k \in 1..Len(Ids), tools \in SUBSET Requested :
             /\ d = [e EXCEPT !.pc = place, !.at = k, !.tools = tools]
             /\ \A a \in tools \ e.tools : approval[a] = "approved"
    \/ /\ e.pc = "backend" /\ UNCHANGED run
       /\ \E a \in e.tools :
             /\ d = [e EXCEPT !.tools = e.tools \ {a}]
             /\ executed' = executed \/ executed' = [executed EXCEPT ![a] = @ + 1]
             /\ \/ UNCHANGED approval
                \/ approval[Late] = "none" /\ approval' = [approval EXCEPT ![Late] = "pending"]
    \/ /\ e.pc = "backend" /\ Stays /\ \E place \in {"done", "mark"} : d = [e EXCEPT !.pc = place, !.tools = {}]
       /\ d.pc \in Holding => ~Busy(e.proc)
    \/ /\ e.pc = "mark" /\ run' = "resumed" /\ d = [e EXCEPT !.pc = "done", !.at = 1]
       /\ UNCHANGED <<approval, executed>>

LEMMA StepsContinue ==
    ASSUME ToolApprovalAssumption, ApprovalInv, NEW c \in Calls, Step(c)
    PROVE  /\ \E d : call' = [call EXCEPT ![c] = d] /\ Continued(call[c], d)
           /\ UNCHANGED <<native, ttlPassed, crashes>>
<1>1. PICK e : e = call[c]
  OBVIOUS
<1>2. e \in CallRecs /\ e.at \in 1..Len(Ids) /\ c \in All /\ TypedData /\ Orderly(e)
  BY <1>1 DEF ApprovalInv, TypedCalls, Orderly, All
<1>3. ASSUME NEW place PROVE Goto(c, place) => call' = [call EXCEPT ![c] = [e EXCEPT !.pc = place, !.at = 1]]
  BY <1>1, <1>2 DEF Goto, ApprovalInv, TypedCalls
<1>4. CASE ReadApproval(c)
  <2>1. e.pc = "read" /\ Stays /\ UNCHANGED <<native, ttlPassed, crashes>>
    BY <1>1, <1>4 DEF ReadApproval, Stays
  <2>2. Goto(c, "done") \/ (Open(e.id) /\ (Goto(c, "expire") \/ Goto(c, "write")))
    BY <1>1, <1>4 DEF ReadApproval
  <2> QED
    BY <1>1, <1>3, <2>1, <2>2 DEF Continued
<1>5. CASE WriteDecision(c)
  <2>1. PICK d : d = [e EXCEPT !.pc = AfterDecision(e.op), !.wrote = Decision(e.op)]
    OBVIOUS
  <2>2. call' = [call EXCEPT ![c] = d]
    BY <1>1, <1>5, <2>1 DEF WriteDecision, ApprovalInv, TypedCalls
  <2> QED
    BY <1>1, <1>5, <2>1, <2>2 DEF Continued, WriteDecision
<1>6. CASE WriteExpired(c)
  <2>1. PICK d : d = [e EXCEPT !.pc = "done", !.wrote = "expired"]
    OBVIOUS
  <2>2. call' = [call EXCEPT ![c] = d]
    BY <1>1, <1>6, <2>1 DEF WriteExpired, ApprovalInv, TypedCalls
  <2> QED
    BY <1>1, <1>6, <2>1, <2>2 DEF Continued, WriteExpired
<1>7. CASE LookForPending(c)
  <2>1. e.pc = "pending" /\ Stays /\ UNCHANGED <<native, ttlPassed, crashes>>
    BY <1>1, <1>7 DEF LookForPending, Stays
  <2>2. PICK d : d = [e EXCEPT !.at = @ + 1]
    OBVIOUS
  <2>3. CASE Blocking(Ids[e.at])
    BY <1>1, <1>3, <1>7, <2>1, <2>3 DEF Continued, LookForPending, Current
  <2>4. CASE ~Blocking(Ids[e.at]) /\ e.at < Len(Ids)
    <3>1. call' = [call EXCEPT ![c] = d]
      BY <1>1, <1>7, <2>2, <2>4 DEF LookForPending, Current, GoOn, ApprovalInv, TypedCalls
    <3> QED
      BY <1>1, <2>1, <2>2, <2>4, <3>1 DEF Continued
  <2>5. CASE ~Blocking(Ids[e.at]) /\ e.at = Len(Ids)
    <3>1. Goto(c, "rejected")
      BY <1>1, <1>7, <2>5, IdsFacts, <1>2 DEF LookForPending, Current, GoOn
    <3> QED
      BY <1>1, <1>3, <2>1, <2>5, <3>1 DEF Continued
  <2> QED
    BY <1>2, <2>3, <2>4, <2>5, IdsFacts
<1>8. CASE LookForRejection(c)
  <2>1. e.pc = "rejected" /\ Stays /\ UNCHANGED <<native, ttlPassed, crashes>>
    BY <1>1, <1>8 DEF LookForRejection, Stays
  <2>2. CASE Vetoes(Ids[e.at])
    BY <1>1, <1>3, <1>8, <2>1, <2>2 DEF Continued, LookForRejection, Current
  <2>3. CASE ~Vetoes(Ids[e.at]) /\ e.at < Len(Ids)
    <3>1. PICK d : d = [e EXCEPT !.at = @ + 1]
      OBVIOUS
    <3>2. call' = [call EXCEPT ![c] = d]
      BY <1>1, <1>8, <2>3, <3>1 DEF LookForRejection, Current, GoOn, ApprovalInv, TypedCalls
    <3> QED
      BY <1>1, <2>1, <2>3, <3>1, <3>2 DEF Continued
  <2>4. CASE ~Vetoes(Ids[e.at]) /\ e.at = Len(Ids)
    <3>1. PICK next : next = IF e.op = "resume" THEN "markFirst" ELSE IF native THEN "decisions" ELSE "done"
      OBVIOUS
    <3>2. PICK d : d = [e EXCEPT !.pc = next, !.at = 1, !.resumes = next # "done"]
      OBVIOUS
    <3>3. ~(e.at < Len(Ids))
      BY <1>2, <2>4, IdsFacts
    <3>4. call' = [call EXCEPT ![c] = d]
      BY <1>1, <1>8, <2>4, <3>1, <3>2, <3>3 DEF LookForRejection, Current, ApprovalInv, TypedCalls
    <3>5. \/ e.op = "resume" /\ d = [e EXCEPT !.pc = "markFirst", !.at = 1, !.resumes = TRUE]
          \/ e.op # "resume" /\ native /\ d = [e EXCEPT !.pc = "decisions", !.at = 1, !.resumes = TRUE]
          \/ e.op # "resume" /\ ~native /\ d = [e EXCEPT !.pc = "done", !.at = 1, !.resumes = FALSE]
      BY <3>1, <3>2
    <3> QED
      BY <1>1, <2>1, <2>4, <3>4, <3>5 DEF Continued
  <2> QED
    BY <1>2, <2>2, <2>3, <2>4, IdsFacts
<1>9. CASE CloseRun(c)
  BY <1>1, <1>3, <1>9 DEF CloseRun, Continued
<1>10. CASE MarkFirst(c)
  BY <1>1, <1>3, <1>10 DEF MarkFirst, Continued
<1>11. CASE ReadDecisions(c)
  <2>1. e.pc = "decisions" /\ Stays /\ UNCHANGED <<native, ttlPassed, crashes>>
    BY <1>1, <1>11 DEF ReadDecisions, Stays
  <2>2. PICK next \in {"backend", "done"} :
          call' = [call EXCEPT
                     ![c].tools = IF approval[Current(c)] = "approved"
                                  THEN @ \cup {Current(c)} ELSE @,
                     ![c].pc = IF call[c].at = Len(Ids) THEN next ELSE @,
                     ![c].at = IF call[c].at = Len(Ids) THEN 1 ELSE @ + 1]
    BY <1>11 DEF ReadDecisions
  <2>3. PICK tools, place, k : /\ tools = IF approval[Ids[e.at]] = "approved" THEN e.tools \cup {Ids[e.at]} ELSE e.tools
                               /\ place = IF e.at = Len(Ids) THEN next ELSE e.pc
                               /\ k = IF e.at = Len(Ids) THEN 1 ELSE e.at + 1
    OBVIOUS
  <2>4. PICK d : d = [e EXCEPT !.pc = place, !.at = k, !.tools = tools]
    OBVIOUS
  <2>5. call' = [call EXCEPT ![c] = d]
    BY <1>1, <1>2, <2>2, <2>3, <2>4, ZenonT(60) DEF Current, ApprovalInv, TypedCalls, CallRecs
  <2>6. /\ k \in 1..Len(Ids) /\ tools \in SUBSET Requested /\ place \in {"decisions", "backend", "done"}
        /\ \A a \in tools \ e.tools : approval[a] = "approved"
    BY <1>2, <2>1, <2>3, IdsFacts DEF CallRecs
  <2>7. \E p \in {"decisions", "backend", "done"}, n \in 1..Len(Ids), t \in SUBSET Requested :
           /\ d = [e EXCEPT !.pc = p, !.at = n, !.tools = t]
           /\ \A a \in t \ e.tools : approval[a] = "approved"
    BY <2>4, <2>6, Zenon
  <2>8. Continued(e, d)
    BY <2>1, <2>7, Zenon DEF Continued
  <2> QED
    BY <1>1, <2>1, <2>5, <2>8
<1>12. ASSUME NEW a \in Requested, RunTool(c, a)
       PROVE  /\ \E d : call' = [call EXCEPT ![c] = d] /\ Continued(call[c], d)
              /\ UNCHANGED <<native, ttlPassed, crashes>>
  <2>1. PICK d : d = [e EXCEPT !.tools = e.tools \ {a}]
    OBVIOUS
  <2>2. call' = [call EXCEPT ![c] = d]
    BY <1>1, <1>12, <2>1 DEF RunTool, Popped, ApprovalInv, TypedCalls
  <2>3. /\ e.pc = "backend" /\ a \in e.tools /\ UNCHANGED run
        /\ executed' = executed \/ executed' = [executed EXCEPT ![a] = @ + 1]
        /\ \/ UNCHANGED approval
           \/ approval[Late] = "none" /\ approval' = [approval EXCEPT ![Late] = "pending"]
    BY <1>1, <1>12 DEF RunTool
  <2> QED
    BY <1>1, <1>12, <2>1, <2>2, <2>3 DEF Continued, RunTool
<1>13. CASE BackendReturns(c)
  <2>1. PICK place \in {"done", "mark"} : place = IF e.op = "resume" THEN "done" ELSE "mark"
    OBVIOUS
  <2>2. PICK d : d = [e EXCEPT !.pc = place, !.tools = {}]
    OBVIOUS
  <2>3. call' = [call EXCEPT ![c] = d]
    BY <1>1, <1>13, <2>1, <2>2 DEF BackendReturns, ApprovalInv, TypedCalls
  <2>4. e.pc = "backend" /\ ~Busy(e.proc) /\ Stays /\ UNCHANGED <<native, ttlPassed, crashes>>
    BY <1>1, <1>13 DEF BackendReturns, Stays
  <2> QED
    BY <1>1, <2>2, <2>3, <2>4 DEF Continued
<1>14. CASE MarkResumed(c)
  BY <1>1, <1>3, <1>14 DEF MarkResumed, Continued
<1> QED
  BY <1>4, <1>5, <1>6, <1>7, <1>8, <1>9, <1>10, <1>11, <1>12, <1>13, <1>14 DEF Step

\* How a call begins.
Begun(e, d) ==
    /\ e.pc = "idle"
    /\ \E op \in Ops \ {"run"}, a \in AllApprovals, p \in Procs :
          /\ ~Busy(p) /\ Admitted(op, a)
          /\ d = [e EXCEPT !.op = op, !.id = a, !.proc = p, !.pc = IF op \in Deciding THEN "read" ELSE "pending"]

Quiet == UNCHANGED <<native, approval, run, executed>>
Moves(c, d) == c \in Calls /\ call' = [call EXCEPT ![c] = d]
Dies == /\ Quiet /\ call' = [c \in All |-> call'[c]]
        /\ \A c \in All :
              \/ call'[c] = call[c]
              \/ call[c].pc \notin {"idle", "done"} /\ call'[c] = [call[c] EXCEPT !.pc = "dead"]

\* The steps there are.
LEMMA StepKinds ==
    ASSUME ToolApprovalAssumption, ApprovalInv, [Next]_vars
    PROVE  \/ Quiet /\ UNCHANGED call
           \/ CreateApproval
           \/ SaveRun
           \/ \E c \in Calls : \E d : Moves(c, d) /\ Begun(call[c], d) /\ Quiet
           \/ \E c \in Calls : \E d : Moves(c, d) /\ Continued(call[c], d) /\ UNCHANGED native
           \/ Dies
<1>1. ASSUME NEW c \in Calls, NEW op \in Ops \ {"run"}, NEW a \in AllApprovals, NEW p \in Procs, Begin(c, op, a, p)
      PROVE  \E d : Moves(c, d) /\ Begun(call[c], d) /\ Quiet
  <2>1. PICK e : e = call[c]
    OBVIOUS
  <2>2. PICK d : d = [e EXCEPT !.op = op, !.id = a, !.proc = p, !.pc = IF op \in Deciding THEN "read" ELSE "pending"]
    OBVIOUS
  <2>3. call' = [call EXCEPT ![c] = d]
    BY <1>1, <2>1, <2>2 DEF Begin, ApprovalInv, TypedCalls
  <2>4. Begun(e, d)
    BY <1>1, <2>1, <2>2 DEF Begin, Begun
  <2> QED
    BY <1>1, <2>1, <2>3, <2>4 DEF Begin, Moves, Quiet
<1>2. ASSUME NEW c \in Calls, Step(c) PROVE \E d : Moves(c, d) /\ Continued(call[c], d) /\ UNCHANGED native
  BY <1>2, StepsContinue DEF Moves
<1>3. ASSUME NEW p \in Procs, Crash(p) PROVE Dies
  <2> DEFINE active == {c \in All : call[c].proc = p /\ call[c].pc \notin Over \cup {"idle"}}
  <2>1. /\ call' = [c \in All |-> IF c \in active THEN [call[c] EXCEPT !.pc = "dead"] ELSE call[c]]
        /\ \A c \in active : call[c].pc \notin {"idle", "done"}
    BY <1>3 DEF Crash, All, Over
  <2> HIDE DEF active
  <2>2. \A c \in All : call'[c] = IF c \in active THEN [call[c] EXCEPT !.pc = "dead"] ELSE call[c]
    BY <2>1
  <2> QED
    BY <1>3, <2>1, <2>2 DEF Crash, Dies, Quiet
<1>4. CASE TtlPasses \/ UNCHANGED vars
  BY <1>4 DEF TtlPasses, vars, Quiet
<1> QED
  BY <1>1, <1>2, <1>3, <1>4 DEF Next

LEMMA BegunIsOrderly ==
    ASSUME ToolApprovalAssumption, TypedData, NEW e, Orderly(e), NEW d, Begun(e, d)
    PROVE  Orderly(d)
BY ZenonT(60) DEF Begun, Orderly, CallRecs, Places, Holding, Deciding, Ops

LEMMA ContinuedIsOrderly ==
    ASSUME ToolApprovalAssumption, TypedData, NEW e, Orderly(e), NEW d, Continued(e, d)
    PROVE  Orderly(d) /\ d.op = e.op /\ d.id = e.id /\ d.proc = e.proc
<1> DEFINE Goal == Orderly(d) /\ d.op = e.op /\ d.id = e.id /\ d.proc = e.proc
<1>0. e \in CallRecs /\ 1 \in 1..Len(Ids) /\ Len(Ids) \in Nat /\ 1..Len(Ids) \subseteq 1..Len(ApprovalIds)
  BY IdsFacts DEF Orderly
<1>1. ASSUME NEW place \in {"done", "rejected", "close", "decisions", "write", "expire"},
             d = [e EXCEPT !.pc = place, !.at = 1],
             place \in {"write", "expire"} => e.pc = "read"
      PROVE  Goal
  BY <1>0, <1>1 DEF Orderly, CallRecs, Places, Holding, Over
<1>2. CASE e.pc = "write" /\ d = [e EXCEPT !.pc = AfterDecision(e.op), !.wrote = Decision(e.op)]
  <2>1. /\ AfterDecision(e.op) \in {"pending", "close", "done"}
        /\ Decision(e.op) \in {"approved", "rejected"}
    BY <1>2 DEF AfterDecision, Decision
  <2> QED
    BY <1>0, <1>2, <2>1 DEF Orderly, CallRecs, Places, Holding, Over, Statuses
<1>3. CASE e.pc = "expire" /\ d = [e EXCEPT !.pc = "done", !.wrote = "expired"]
  BY <1>0, <1>3 DEF Orderly, CallRecs, Places, Over, Statuses
<1>4. CASE e.pc \in {"pending", "rejected"} /\ e.at < Len(Ids) /\ d = [e EXCEPT !.at = @ + 1]
  <2>1. e.at + 1 \in 1..Len(Ids)
    BY <1>0, <1>4 DEF Orderly
  <2> QED
    BY <1>0, <1>4, <2>1 DEF Orderly, CallRecs
<1>5. ASSUME NEW place \in {"markFirst", "decisions", "done"}, NEW r \in BOOLEAN, place = "markFirst" => e.op = "resume",
             d = [e EXCEPT !.pc = place, !.at = 1, !.resumes = r]
      PROVE  Goal
  BY <1>0, <1>5 DEF Orderly, CallRecs, Places, Holding, Over
<1>6. ASSUME NEW place \in {"decisions", "backend", "done"}, NEW k \in 1..Len(Ids), NEW tools \in SUBSET Requested,
             d = [e EXCEPT !.pc = place, !.at = k, !.tools = tools]
      PROVE  Goal
  BY <1>0, <1>6 DEF Orderly, CallRecs, Places, Holding, Over
<1>7. ASSUME e.pc = "backend", NEW a, d = [e EXCEPT !.tools = e.tools \ {a}]
      PROVE  Goal
  BY <1>0, <1>7 DEF Orderly, CallRecs
<1>8. ASSUME NEW place \in {"done", "mark"}, d = [e EXCEPT !.pc = place, !.tools = {}]
      PROVE  Goal
  BY <1>0, <1>8 DEF Orderly, CallRecs, Places, Holding, Over
<1> QED
  BY <1>1, <1>2, <1>3, <1>4, <1>5, <1>6, <1>7, <1>8 DEF Continued

LEMMA StepTypedData ==
    ASSUME ToolApprovalAssumption, ApprovalInv, [Next]_vars
    PROVE  TypedData'
<1>0. TypedData
  BY DEF ApprovalInv
<1>1. /\ ttlPassed' \in BOOLEAN /\ crashes' \in 0..MaxCrashes
  <2>1. CASE UNCHANGED <<ttlPassed, crashes>>
    BY <1>0, <2>1 DEF TypedData
  <2>2. CASE \E p \in Procs : Crash(p)
    BY <1>0, <2>2 DEF Crash, TypedData, ToolApprovalAssumption
  <2>3. CASE TtlPasses
    BY <1>0, <2>3 DEF TtlPasses, TypedData
  <2>4. CASE \E c \in Calls : Step(c)
    BY <2>1, <2>4, StepsContinue
  <2>5. CASE CreateApproval \/ SaveRun \/ UNCHANGED vars
    BY <2>1, <2>5 DEF CreateApproval, SaveRun, vars
  <2>6. ASSUME NEW c \in Calls, NEW op, NEW a, NEW p, Begin(c, op, a, p)
        PROVE  ttlPassed' \in BOOLEAN /\ crashes' \in 0..MaxCrashes
    BY <2>1, <2>6 DEF Begin
  <2> QED
    BY <2>2, <2>3, <2>4, <2>5, <2>6 DEF Next
<1>2. native' \in BOOLEAN /\ approval' \in [AllApprovals -> Statuses]
      /\ run' \in {"none", "interrupted", "resumed", "completed"} /\ executed' \in [Requested -> Nat]
  <2>1. CASE Quiet
    BY <1>0, <2>1 DEF Quiet, TypedData
  <2>2. CASE CreateApproval
    BY <1>0, <2>2 DEF CreateApproval, TypedData, Statuses
  <2>3. CASE SaveRun
    BY <1>0, <2>3 DEF SaveRun, TypedData
  <2>4. ASSUME NEW c \in Calls, NEW d, Continued(call[c], d), UNCHANGED native
        PROVE  native' \in BOOLEAN /\ approval' \in [AllApprovals -> Statuses]
               /\ run' \in {"none", "interrupted", "resumed", "completed"} /\ executed' \in [Requested -> Nat]
    <3>1. run' \in {run, "resumed", "completed"}
      BY <2>4 DEF Continued, Stays
    <3>2. PICK e : e = call[c]
      OBVIOUS
    <3>3. UNCHANGED executed \/ \E a : executed' = [executed EXCEPT ![a] = @ + 1]
      BY <2>4 DEF Continued, Stays
    <3>4. UNCHANGED approval \/ \E a : \E status \in {Decision(e.op), "expired", "pending"} :
                                   approval' = [approval EXCEPT ![a] = status]
      BY <2>4, <3>2 DEF Continued, Stays
    <3>5. executed' \in [Requested -> Nat]
      BY <1>0, <3>3 DEF TypedData
    <3>6. approval' \in [AllApprovals -> Statuses]
      BY <1>0, <3>4 DEF TypedData, Statuses, Decision
    <3> QED
      BY <1>0, <2>4, <3>1, <3>5, <3>6 DEF TypedData
  <2> QED
    BY <2>1, <2>2, <2>3, <2>4, StepKinds DEF Dies
<1> QED
  BY <1>1, <1>2 DEF TypedData

\* What becomes of the calls.
LEMMA StepTypedCalls ==
    ASSUME ToolApprovalAssumption, ApprovalInv, [Next]_vars
    PROVE  TypedCalls'
<1>0. TypedData /\ TypedCalls /\ Runner \in All /\ Runner \notin Calls
  BY DEF ApprovalInv, All, ToolApprovalAssumption
<1>1. native' = native
  BY StepKinds DEF Quiet, CreateApproval, SaveRun, Dies
<1>2. \A e : Orderly(e) => Orderly(e)'
  BY <1>1 DEF Orderly, Ids
<1>3. CASE UNCHANGED call
  BY <1>0, <1>2, <1>3 DEF TypedCalls
<1>4. ASSUME NEW c \in All, NEW d, call' = [call EXCEPT ![c] = d], Orderly(d), c = Runner => d.pc \in RunnersPlaces
      PROVE  TypedCalls'
  <2>1. call' = [v \in All |-> call'[v]] /\ call'[c] = d /\ \A v \in All \ {c} : call'[v] = call[v]
    BY <1>0, <1>4 DEF TypedCalls
  <2>2. \A v \in All : Orderly(call'[v])
    BY <1>0, <1>4, <2>1 DEF TypedCalls
  <2>3. \A v \in All : Orderly(call[v])'
    <3> SUFFICES ASSUME NEW v \in All PROVE Orderly(call[v])'
      OBVIOUS
    <3>1. PICK e : e = call'[v]
      OBVIOUS
    <3>2. Orderly(e)'
      BY <1>2, <2>2, <3>1
    <3> QED
      BY <3>1, <3>2 DEF Orderly, Ids
  <2> QED
    BY <1>0, <1>4, <2>1, <2>3 DEF TypedCalls
<1>5. ASSUME NEW c \in Calls, NEW d, Moves(c, d), Orderly(d) PROVE TypedCalls'
  BY <1>0, <1>4, <1>5 DEF Moves, All
<1>6. CASE CreateApproval \/ SaveRun
  <2>1. PICK e : e = call[Runner]
    OBVIOUS
  <2>2. Orderly(e) /\ e \in CallRecs /\ 1 \in 1..Len(Ids) /\ Len(Ids) \in Nat /\ 1..Len(Ids) \subseteq 1..Len(ApprovalIds)
    BY <1>0, <2>1, IdsFacts DEF TypedCalls, Orderly
  <2>3. CASE \E place \in {"save", "done"} : Goto(Runner, place)
    <3>1. PICK place \in {"save", "done"} : Goto(Runner, place)
      BY <2>3
    <3>2. PICK d : d = [e EXCEPT !.pc = place, !.at = 1]
      OBVIOUS
    <3>3. call' = [call EXCEPT ![Runner] = d]
      BY <1>0, <2>1, <3>1, <3>2 DEF Goto, TypedCalls
    <3>4. Orderly(d) /\ d.pc \in RunnersPlaces
      BY <2>2, <3>2 DEF Orderly, CallRecs, Places, Holding, Over, RunnersPlaces
    <3> QED
      BY <1>0, <1>4, <3>3, <3>4
  <2>4. CASE e.pc = "create" /\ e.at < Len(Ids) /\ call' = [call EXCEPT ![Runner].at = @ + 1]
    <3>1. PICK d : d = [e EXCEPT !.at = @ + 1]
      OBVIOUS
    <3>2. call' = [call EXCEPT ![Runner] = d]
      BY <1>0, <2>1, <2>4, <3>1 DEF TypedCalls
    <3>3. e.at + 1 \in 1..Len(Ids)
      BY <2>2, <2>4 DEF Orderly
    <3>4. Orderly(d) /\ d.pc \in RunnersPlaces
      BY <2>2, <2>4, <3>1, <3>3 DEF Orderly, CallRecs, RunnersPlaces
    <3> QED
      BY <1>0, <1>4, <3>2, <3>4
  <2> QED
    BY <1>6, <2>1, <2>3, <2>4 DEF CreateApproval, SaveRun, GoOn
<1>7. CASE Dies
  <2>1. \A c \in All : Orderly([call[c] EXCEPT !.pc = "dead"])
    BY <1>0, ZenonT(60) DEF TypedCalls, Orderly, CallRecs, Places, Over
  <2>2. \A v \in All : Orderly(call'[v])
    BY <1>0, <1>7, <2>1 DEF Dies, TypedCalls
  <2>3. \A v \in All : Orderly(call[v])'
    <3> SUFFICES ASSUME NEW v \in All PROVE Orderly(call[v])'
      OBVIOUS
    <3>1. PICK e : e = call'[v]
      OBVIOUS
    <3>2. Orderly(e)'
      BY <1>2, <2>2, <3>1
    <3> QED
      BY <3>1, <3>2 DEF Orderly, Ids
  <2>4. call'[Runner].pc \in RunnersPlaces
    BY <1>0, <1>7 DEF Dies, TypedCalls, RunnersPlaces, Orderly, CallRecs
  <2> QED
    BY <1>7, <2>3, <2>4 DEF Dies, TypedCalls
<1>8. ASSUME NEW c \in Calls, NEW d, Moves(c, d), Begun(call[c], d) \/ Continued(call[c], d)
      PROVE  TypedCalls'
  <2>1. PICK e : e = call[c]
    OBVIOUS
  <2>2. Orderly(e)
    BY <1>0, <2>1 DEF TypedCalls, All
  <2>3. Orderly(d)
    BY <1>0, <1>8, <2>1, <2>2, BegunIsOrderly, ContinuedIsOrderly
  <2> QED
    BY <1>5, <1>8, <2>3
<1> QED
  BY <1>3, <1>6, <1>7, <1>8, StepKinds

\* The inductive invariant of the types.
THEOREM ApprovalInvHolds == Spec => []ApprovalInv
<1>1. ApprovalInv /\ [Next]_vars => ApprovalInv'
  BY ToolApprovalAssumption, StepTypedData, StepTypedCalls DEF ApprovalInv
<1> QED
  BY <1>1, ToolApprovalAssumption, InitApprovalInv, PTL DEF Spec

\* Types hold in every reachable state: no decision, expiry or crash leaves an
\* approval, a run or a call in a state the code has no name for.
THEOREM ApprovalTypeCorrect == Spec => []ApprovalTypeOK
<1>1. ApprovalInv => ApprovalTypeOK
  <2> SUFFICES ASSUME ApprovalInv PROVE ApprovalTypeOK
    OBVIOUS
  <2>1. call \in [All -> CallRecs]
    BY DEF ApprovalInv, TypedCalls, Orderly
  <2> QED
    BY <2>1 DEF ApprovalInv, TypedData, ApprovalTypeOK, CallRecs, All
<1> QED
  BY <1>1, ApprovalInvHolds, PTL
----------------------------------------------------------------------------
(* What a step does to one call and to the rows.                           *)
LEMMA CallSteps ==
    ASSUME ToolApprovalAssumption, ApprovalInv, [Next]_vars, NEW c \in Calls
    PROVE  \/ call'[c] = call[c]
           \/ call[c].pc \notin {"idle", "done"} /\ call'[c] = [call[c] EXCEPT !.pc = "dead"]
           \/ Begun(call[c], call'[c]) /\ Quiet
           \/ Continued(call[c], call'[c])
<1>0. call = [v \in All |-> call[v]] /\ c \in All /\ Runner \in All /\ c # Runner
  BY DEF ApprovalInv, TypedCalls, All, ToolApprovalAssumption
<1>1. CASE CreateApproval \/ SaveRun
  BY <1>0, <1>1 DEF CreateApproval, SaveRun, GoOn, Goto
<1>2. ASSUME NEW v \in Calls, NEW d, Moves(v, d) PROVE call'[c] = IF v = c THEN d ELSE call[c]
  BY <1>0, <1>2 DEF Moves
<1>3. CASE Dies
  BY <1>0, <1>3 DEF Dies
<1> QED
  BY <1>1, <1>2, <1>3, StepKinds

LEMMA SameIds ==
    ASSUME ToolApprovalAssumption, ApprovalInv, [Next]_vars
    PROVE  native' = native /\ Ids' = Ids /\ IdSet' = IdSet
<1>1. native' = native
  BY StepKinds DEF Quiet, CreateApproval, SaveRun, Dies
<1> QED
  BY <1>1 DEF Ids, IdSet

\* The writer of a decision, or of an expiry.
Settles(c, s) ==
    /\ call[c].pc = IF s = "expired" THEN "expire" ELSE "write"
    /\ approval' = [approval EXCEPT ![call[c].id] = s]
    /\ call'[c].wrote = s /\ call'[c].id = call[c].id /\ call'[c].op = call[c].op
    /\ call'[c].proc = call[c].proc
    /\ s = "approved" => call[c].op \in {"approve", "approve_and_resume"}
    /\ s = "approved" /\ call[c].op = "approve_and_resume" => call'[c].pc = "pending"

LEMMA ContinuedSettles ==
    ASSUME ToolApprovalAssumption, ApprovalInv, NEW c \in Calls, Continued(call[c], call'[c])
    PROVE  /\ call[c].pc \notin {"write", "expire"} => call'[c].wrote = call[c].wrote
           /\ call[c].pc \in {"write", "expire"} =>
                 call[c].wrote = "none" /\ \E s \in {"approved", "rejected", "expired"} : Settles(c, s)
<1>1. PICK e, d : e = call[c] /\ d = call'[c]
  OBVIOUS
<1>2. Continued(e, d) /\ Orderly(e) /\ e \in CallRecs /\ d.id = e.id /\ d.op = e.op /\ d.proc = e.proc
  BY <1>1, ContinuedIsOrderly DEF ApprovalInv, TypedCalls, All, Orderly
<1>3. CASE e.pc = "write"
  <2>1. /\ d = [e EXCEPT !.pc = AfterDecision(e.op), !.wrote = Decision(e.op)]
        /\ approval' = [approval EXCEPT ![e.id] = Decision(e.op)]
    BY <1>2, <1>3 DEF Continued
  <2>2. d.pc = AfterDecision(e.op) /\ d.wrote = Decision(e.op) /\ e.wrote = "none"
    BY <1>2, <1>3, <2>1 DEF CallRecs, Orderly
  <2>3. Decision(e.op) \in {"approved", "rejected"}
    BY DEF Decision
  <2>4. Settles(c, Decision(e.op))
    BY <1>1, <1>2, <1>3, <2>1, <2>2, <2>3 DEF Settles, Decision, AfterDecision
  <2>5. \E s \in {"approved", "rejected", "expired"} : Settles(c, s)
    BY <2>3, <2>4
  <2> QED
    BY <1>1, <1>3, <2>2, <2>5
<1>4. CASE e.pc = "expire"
  <2>1. d = [e EXCEPT !.pc = "done", !.wrote = "expired"] /\ approval' = [approval EXCEPT ![e.id] = "expired"]
    BY <1>2, <1>4 DEF Continued
  <2>2. d.wrote = "expired" /\ e.wrote = "none"
    BY <1>2, <1>4, <2>1 DEF CallRecs, Orderly
  <2>3. Settles(c, "expired")
    BY <1>1, <1>2, <1>4, <2>1, <2>2 DEF Settles
  <2>4. \E s \in {"approved", "rejected", "expired"} : Settles(c, s)
    BY <2>3
  <2> QED
    BY <1>1, <1>4, <2>2, <2>4
<1>5. CASE e.pc \notin {"write", "expire"}
  BY <1>1, <1>2, <1>5 DEF Continued, CallRecs
<1> QED
  BY <1>3, <1>4, <1>5

LEMMA RowSteps ==
    ASSUME ToolApprovalAssumption, ApprovalInv, [Next]_vars
    PROVE  \/ UNCHANGED approval
           \/ CreateApproval
           \/ \E c \in Calls, s \in {"approved", "rejected", "expired"} : Settles(c, s)
           \/ /\ \E c \in Calls : call[c].pc = "backend"
              /\ approval[Late] = "none" /\ approval' = [approval EXCEPT ![Late] = "pending"]
<1>1. CASE \E c \in Calls : \E d : Moves(c, d) /\ Continued(call[c], d)
  <2>1. PICK c \in Calls : \E d : Moves(c, d) /\ Continued(call[c], d)
    BY <1>1
  <2>2. Continued(call[c], call'[c])
    BY <2>1 DEF Moves, ApprovalInv, TypedCalls, All
  <2>3. CASE call[c].pc \in {"write", "expire"}
    BY <2>2, <2>3, ContinuedSettles
  <2>4. CASE call[c].pc \notin {"write", "expire"}
    BY <2>2, <2>4 DEF Continued, Stays
  <2> QED
    BY <2>3, <2>4
<1> QED
  BY <1>1, StepKinds DEF Quiet, SaveRun, Dies

\* The requests of the run, in the order of its life.
Decided(a) == approval[a] \notin {"none", "pending"}
Rows ==
    /\ \A a \in AllApprovals : approval[a] # "none" => a \in IdSet \cup {Late}
    /\ approval[Late] # "none" => run # "none"
    /\ run # "none" => /\ call[Runner].pc \in {"done", "dead"}
                       /\ \A i \in 1..Len(Ids) : approval[Ids[i]] # "none"
    /\ call[Runner].pc = "create" =>
          \A i \in 1..Len(Ids) : (approval[Ids[i]] = "none") <=> i >= call[Runner].at
    /\ call[Runner].pc = "save" => \A i \in 1..Len(Ids) : approval[Ids[i]] # "none"

\* What a call that has begun may rely on.
Fits(e) ==
    /\ e.pc \in {"pending", "rejected", "markFirst", "decisions", "backend", "mark"}
          => e.op \in {"approve_and_resume", "resume"}
    /\ e.pc \in {"markFirst", "decisions", "backend", "mark"} => e.resumes
    /\ e.resumes => e.pc \in {"markFirst", "decisions", "backend", "mark", "done", "dead"}
    /\ e.pc # "idle" =>
          /\ e.op \in {"approve_and_resume", "resume"} => run # "none"
          /\ e.op \in {"approve_and_resume", "reject_approval"} => e.id \in IdSet
          /\ e.op \in Deciding => approval[e.id] # "none"
    /\ e.pc = "close" => e.op \in {"approve_and_resume", "resume", "reject_approval"}
    /\ e.pc = "close" /\ e.op = "reject_approval" => e.wrote = "rejected"
Setup == Rows /\ \A c \in Calls : Fits(call[c])

LEMMA RowsMonotone ==
    ASSUME ToolApprovalAssumption, ApprovalInv, Rows, [Next]_vars
    PROVE  /\ \A a \in AllApprovals : approval[a] # "none" => approval'[a] # "none"
           /\ \A a \in AllApprovals : Decided(a) => approval'[a] \notin {"none", "pending"}
           /\ run # "none" => run' # "none"
<1>0. TypedData /\ approval \in [AllApprovals -> Statuses] /\ Late \in AllApprovals
  BY DEF ApprovalInv, TypedData, AllApprovals
<1>1. CASE CreateApproval
  <2>1. PICK k : k = call[Runner].at
    OBVIOUS
  <2>2. k \in 1..Len(Ids) /\ call[Runner].pc = "create"
    BY <1>1, <2>1 DEF ApprovalInv, TypedCalls, Orderly, All, CreateApproval
  <2>3. approval[Ids[k]] = "none" /\ approval' = [approval EXCEPT ![Ids[k]] = "pending"] /\ run' = run
    BY <1>0, <1>1, <2>1, <2>2, IdsFacts DEF Rows, CreateApproval, Current
  <2> QED
    BY <1>0, <2>3 DEF Decided
<1>2. ASSUME NEW c \in Calls, NEW s \in {"approved", "rejected", "expired"}, Settles(c, s)
      PROVE  \A a \in AllApprovals : approval'[a] = approval[a] \/ approval'[a] = s
  BY <1>0, <1>2 DEF Settles
<1>3. run # "none" => run' # "none"
  BY StepKinds, ZenonT(60) DEF Quiet, CreateApproval, SaveRun, Dies, Continued, Stays
<1>4. ASSUME approval[Late] = "none", approval' = [approval EXCEPT ![Late] = "pending"]
      PROVE  \A a \in AllApprovals : a # Late => approval'[a] = approval[a]
  BY <1>0, <1>4
<1> QED
  BY <1>1, <1>2, <1>3, <1>4, RowSteps DEF Decided

LEMMA FitsGoesOn ==
    ASSUME ToolApprovalAssumption, TypedData, NEW e, Orderly(e), Fits(e), NEW d,
           Begun(e, d) \/ Continued(e, d),
           approval[Late] # "none" => run # "none",
           \A a \in AllApprovals : approval[a] # "none" => a \in IdSet \cup {Late}
    PROVE  Fits(d)
<1>0. e \in CallRecs
  BY DEF Orderly
<1>1. ASSUME Begun(e, d) PROVE Fits(d)
  <2>1. PICK op \in Ops \ {"run"}, a \in AllApprovals, p \in Procs :
          /\ Admitted(op, a) /\ e.pc = "idle"
          /\ d = [e EXCEPT !.op = op, !.id = a, !.proc = p, !.pc = IF op \in Deciding THEN "read" ELSE "pending"]
    BY <1>1 DEF Begun
  <2>2. d.op = op /\ d.id = a /\ d.pc = (IF op \in Deciding THEN "read" ELSE "pending") /\ d.resumes = FALSE
    BY <1>0, <2>1 DEF Orderly, CallRecs
  <2>3. /\ op \in {"approve_and_resume", "resume"} => run # "none"
        /\ op \in {"approve_and_resume", "reject_approval"} => a \in IdSet
        /\ op \in Deciding => approval[a] # "none"
    BY <2>1 DEF Admitted, Deciding
  <2> QED
    BY <2>1, <2>2, <2>3 DEF Fits, Ops, Deciding
<1>2. ASSUME Continued(e, d) PROVE Fits(d)
  <2>0. d.op = e.op /\ d.id = e.id /\ e.pc # "idle" /\ d.pc # "idle"
    BY <1>0, <1>2, ContinuedIsOrderly DEF Continued, AfterDecision, CallRecs
  <2>1. CASE e.pc = "write"
    <3>1. d.pc = AfterDecision(e.op) /\ d.wrote = Decision(e.op) /\ d.resumes = e.resumes /\ e.op \in Deciding
      BY <1>0, <1>2, <2>1 DEF Continued, CallRecs, Orderly
    <3> QED
      BY <2>0, <2>1, <3>1 DEF Fits, AfterDecision, Decision, Deciding
  <2>2. CASE e.pc # "write"
    <3>1. d.wrote = e.wrote \/ d.pc = "done"
      BY <1>0, <1>2, <2>2 DEF Continued, CallRecs
    <3>2. \/ d.pc = e.pc /\ d.resumes = e.resumes
          \/ d.pc = "done"
          \/ e.pc = "read" /\ d.pc \in {"write", "expire"} /\ d.resumes = e.resumes
          \/ e.pc = "pending" /\ d.pc = "rejected" /\ d.resumes = e.resumes
          \/ e.pc = "rejected" /\ d.pc = "close" /\ d.resumes = e.resumes
          \/ e.pc = "rejected" /\ d.pc \in {"markFirst", "decisions"} /\ d.resumes
          \/ e.pc = "markFirst" /\ d.pc = "decisions" /\ d.resumes = e.resumes
          \/ e.pc = "decisions" /\ d.pc = "backend" /\ d.resumes = e.resumes
          \/ e.pc = "backend" /\ d.pc = "mark" /\ d.resumes = e.resumes
      <4>1. CASE e.pc \in {"read", "expire", "close", "mark", "pending"}
        BY <1>0, <1>2, <4>1 DEF Continued, CallRecs
      <4>2. CASE e.pc = "rejected"
        BY <1>0, <1>2, <4>2 DEF Continued, CallRecs
      <4>3. CASE e.pc = "markFirst"
        BY <1>0, <1>2, <4>3 DEF Continued, CallRecs
      <4>4. CASE e.pc = "decisions"
        BY <1>0, <1>2, <4>4 DEF Continued, CallRecs
      <4>5. CASE e.pc = "backend"
        BY <1>0, <1>2, <4>5 DEF Continued, CallRecs
      <4> QED
        BY <1>2, <2>2, <4>1, <4>2, <4>3, <4>4, <4>5 DEF Continued
    <3> QED
      BY <2>0, <2>2, <3>1, <3>2 DEF Fits
  <2> QED
    BY <2>1, <2>2
<1> QED
  BY <1>1, <1>2

\* What the call that starts the run does.
LEMMA RunnerSteps ==
    ASSUME ToolApprovalAssumption, ApprovalInv, [Next]_vars
    PROVE  /\ CreateApproval => \/ call[Runner].at < Len(Ids) /\ call'[Runner].pc = "create" /\ call'[Runner].at = call[Runner].at + 1
                                \/ call[Runner].at = Len(Ids) /\ call'[Runner].pc = "save"
           /\ SaveRun => call'[Runner].pc = "done"
           /\ ~CreateApproval /\ ~SaveRun =>
                 call'[Runner] = call[Runner] \/ call'[Runner].pc = "dead"
           /\ call'[Runner].proc = call[Runner].proc
<1>0. call = [v \in All |-> call[v]] /\ Runner \in All /\ Runner \notin Calls /\ Orderly(call[Runner])
  BY DEF ApprovalInv, TypedCalls, All, ToolApprovalAssumption
<1>1. PICK e : e = call[Runner]
  OBVIOUS
<1>2. e \in CallRecs /\ e.at \in 1..Len(Ids) /\ Len(Ids) \in Nat
  BY <1>0, <1>1, IdsFacts DEF Orderly, ApprovalInv
<1>3. ASSUME NEW place PROVE Goto(Runner, place) => call'[Runner] = [e EXCEPT !.pc = place, !.at = 1]
  BY <1>0, <1>1 DEF Goto
<1>4. ASSUME CreateApproval
      PROVE  \/ e.at < Len(Ids) /\ call'[Runner] = [e EXCEPT !.at = e.at + 1] /\ e.pc = "create"
             \/ e.at = Len(Ids) /\ call'[Runner] = [e EXCEPT !.pc = "save", !.at = 1]
  <2>1. CASE e.at < Len(Ids)
    BY <1>0, <1>1, <1>4, <2>1 DEF CreateApproval, GoOn
  <2>2. CASE e.at = Len(Ids)
    <3>1. Goto(Runner, "save")
      BY <1>1, <1>2, <1>4, <2>2 DEF CreateApproval, GoOn
    <3> QED
      BY <1>3, <2>2, <3>1
  <2> QED
    BY <1>2, <2>1, <2>2
<1>5. SaveRun => call'[Runner] = [e EXCEPT !.pc = "done", !.at = 1]
  BY <1>3 DEF SaveRun
<1>6. ASSUME ~CreateApproval, ~SaveRun PROVE call'[Runner] = e \/ call'[Runner] = [e EXCEPT !.pc = "dead"]
  <2>1. ASSUME NEW c \in Calls, NEW d, Moves(c, d) PROVE call'[Runner] = e
    BY <1>0, <1>1, <2>1 DEF Moves
  <2>2. CASE Dies
    BY <1>0, <1>1, <2>2 DEF Dies
  <2> QED
    BY <1>1, <1>6, <2>1, <2>2, StepKinds
<1> QED
  BY <1>1, <1>2, <1>4, <1>5, <1>6 DEF CallRecs

LEMMA StepRows ==
    ASSUME ToolApprovalAssumption, ApprovalInv, Setup, [Next]_vars
    PROVE  Rows'
<1>0. /\ TypedData /\ approval \in [AllApprovals -> Statuses] /\ Late \in AllApprovals /\ Late \notin IdSet
      /\ Requested \subseteq AllApprovals /\ Rows /\ IdSet' = IdSet /\ Ids' = Ids
  BY SameIds, IdsFacts DEF ApprovalInv, TypedData, AllApprovals, Setup
<1>1. PICK k : k = call[Runner].at
  OBVIOUS
<1>2. /\ k \in 1..Len(Ids) /\ Len(Ids) \in Nat
      /\ \A i \in 1..Len(Ids) : Ids[i] \in AllApprovals /\ Ids[i] # Late /\ Ids[i] \in IdSet
      /\ \A i, j \in 1..Len(Ids) : Ids[i] = Ids[j] => i = j
  BY <1>0, <1>1, IdsFacts DEF ApprovalInv, TypedCalls, Orderly, All, IdSet
<1>3. CreateApproval => /\ call[Runner].pc = "create" /\ run' = run
                        /\ \A a \in AllApprovals : approval'[a] = IF a = Ids[k] THEN "pending" ELSE approval[a]
  BY <1>0, <1>1 DEF CreateApproval, Current
<1>4. ASSUME ~CreateApproval
      PROVE  /\ \A a \in AllApprovals : a # Late /\ approval[a] = "none" => approval'[a] = "none"
             /\ approval[Late] = "none" /\ approval'[Late] # "none" => run # "none"
  <2>1. ASSUME NEW c \in Calls, NEW s, Settles(c, s)
        PROVE  \A a \in AllApprovals : approval[a] = "none" => approval'[a] = "none"
    <3>1. PICK e : e = call[c]
      OBVIOUS
    <3>2. e.pc \in {"write", "expire"} /\ Orderly(e) /\ Fits(e)
      BY <2>1, <3>1 DEF Settles, Setup, ApprovalInv, TypedCalls, All
    <3>3. approval[e.id] # "none"
      BY <3>2 DEF Orderly, Fits
    <3> QED
      BY <1>0, <2>1, <3>1, <3>3 DEF Settles
  <2>2. ASSUME NEW c \in Calls, call[c].pc = "backend" PROVE run # "none"
    BY <2>2 DEF Setup, Fits
  <2> QED
    BY <1>0, <1>4, <2>1, <2>2, RowSteps
<1>5. ASSUME run = "none", run' # "none" PROVE SaveRun
  <2>1. ASSUME NEW c \in Calls, NEW d, Continued(call[c], d) PROVE FALSE
    <3>1. PICK e : e = call[c]
      OBVIOUS
    <3>2. Fits(e) /\ Continued(e, d)
      BY <2>1, <3>1 DEF Setup
    <3>3. e.pc \in {"markFirst", "mark"}
      BY <1>5, <3>2 DEF Continued, Stays
    <3> QED
      BY <1>5, <3>2, <3>3 DEF Fits
  <2> QED
    BY <1>5, <2>1, StepKinds DEF Quiet, CreateApproval, Dies
<1>6. SaveRun => call[Runner].pc = "save" /\ UNCHANGED approval
  BY DEF SaveRun
<1>7. \A a \in AllApprovals : approval'[a] # "none" => a \in IdSet \cup {Late}
  BY <1>0, <1>2, <1>3, <1>4 DEF Rows
<1>8. approval'[Late] # "none" => run' # "none"
  BY <1>0, <1>2, <1>3, <1>4, RowsMonotone DEF Rows
<1>9. ASSUME run' # "none"
      PROVE  call'[Runner].pc \in {"done", "dead"} /\ \A i \in 1..Len(Ids) : approval'[Ids[i]] # "none"
  <2>1. CASE run # "none"
    <3>1. ~CreateApproval /\ ~SaveRun
      BY <1>0, <2>1 DEF Rows, CreateApproval, SaveRun
    <3> QED
      BY <1>0, <1>2, <2>1, <3>1, RunnerSteps, RowsMonotone DEF Rows
  <2>2. CASE run = "none"
    BY <1>0, <1>5, <1>6, <1>9, <2>2, RunnerSteps DEF Rows
  <2> QED
    BY <2>1, <2>2
<1>10. ASSUME call'[Runner].pc = "create", NEW i \in 1..Len(Ids)
       PROVE  (approval'[Ids[i]] = "none") <=> i >= call'[Runner].at
  <2>1. CASE CreateApproval
    <3>1. k < Len(Ids) /\ call'[Runner].at = k + 1
      BY <1>1, <1>10, <2>1, RunnerSteps
    <3>2. (approval[Ids[i]] = "none") <=> i >= k
      BY <1>0, <1>1, <1>3, <2>1 DEF Rows
    <3>3. approval'[Ids[i]] = IF i = k THEN "pending" ELSE approval[Ids[i]]
      BY <1>2, <1>3, <2>1
    <3> QED
      BY <1>2, <3>1, <3>2, <3>3
  <2>2. CASE ~CreateApproval
    <3>1. call'[Runner] = call[Runner]
      BY <1>10, <2>2, RunnerSteps
    <3>2. (approval[Ids[i]] = "none") <=> i >= k
      BY <1>0, <1>1, <1>10, <3>1 DEF Rows
    <3>3. (approval'[Ids[i]] = "none") <=> (approval[Ids[i]] = "none")
      BY <1>0, <1>2, <1>4, <2>2, RowsMonotone
    <3> QED
      BY <1>1, <3>1, <3>2, <3>3
  <2> QED
    BY <2>1, <2>2
<1>11. ASSUME call'[Runner].pc = "save", NEW i \in 1..Len(Ids)
       PROVE  approval'[Ids[i]] # "none"
  <2>1. CASE CreateApproval
    <3>1. k = Len(Ids)
      BY <1>1, <1>11, <2>1, RunnerSteps
    <3>2. i < k => approval[Ids[i]] # "none"
      BY <1>0, <1>1, <1>2, <1>3, <2>1 DEF Rows
    <3> QED
      BY <1>2, <1>3, <2>1, <3>1, <3>2
  <2>2. CASE ~CreateApproval
    <3>1. call[Runner].pc = "save"
      BY <1>11, <2>2, RunnerSteps
    <3> QED
      BY <1>0, <1>2, <3>1, RowsMonotone DEF Rows
  <2> QED
    BY <2>1, <2>2
<1> QED
  BY <1>0, <1>7, <1>8, <1>9, <1>10, <1>11 DEF Rows

LEMMA FitsStays ==
    ASSUME ToolApprovalAssumption, ApprovalInv, Rows, [Next]_vars, NEW e, Orderly(e), Fits(e)
    PROVE  Fits(e)'
<1>1. e.id \in AllApprovals
  BY DEF Orderly, CallRecs
<1> QED
  BY <1>1, SameIds, RowsMonotone DEF Fits

LEMMA StepSetup ==
    ASSUME ToolApprovalAssumption, ApprovalInv, Setup, [Next]_vars
    PROVE  Setup'
<1>1. ASSUME NEW c \in Calls PROVE Fits(call[c])'
  <2>1. PICK e, d : e = call[c] /\ d = call'[c]
    OBVIOUS
  <2>2. Orderly(e) /\ Fits(e) /\ TypedData /\ Rows /\ e \in CallRecs
    BY <1>1, <2>1 DEF Setup, ApprovalInv, TypedCalls, All, Orderly
  <2>3. CASE d = e \/ (e.pc # "idle" /\ d = [e EXCEPT !.pc = "dead"])
    <3>1. Orderly(d)
      BY <2>2, <2>3 DEF Orderly, CallRecs, Places, Over
    <3>2. Fits(d)
      BY <2>2, <2>3 DEF CallRecs, Fits
    <3>3. Fits(d)'
      BY <2>2, <3>1, <3>2, FitsStays
    <3> QED
      BY <2>1, <3>3 DEF Fits
  <2>4. CASE Begun(e, d) \/ Continued(e, d)
    <3>1. Orderly(d)
      BY <2>2, <2>4, BegunIsOrderly, ContinuedIsOrderly
    <3>2. Fits(d)
      BY <2>2, <2>4, FitsGoesOn DEF Rows
    <3>3. Fits(d)'
      BY <2>2, <3>1, <3>2, FitsStays
    <3> QED
      BY <2>1, <3>3 DEF Fits
  <2> QED
    BY <2>1, <2>3, <2>4, CallSteps
<1> QED
  BY <1>1, StepRows DEF Setup

LEMMA InitSetup == ASSUME ToolApprovalAssumption, Init PROVE Setup
<1>1. PICK p \in Procs : call = [c \in All |-> IF c = Runner THEN [Idle EXCEPT !.pc = "create", !.proc = p] ELSE Idle]
  BY DEF Init, All
<1>2. call[Runner].pc = "create" /\ call[Runner].at = 1 /\ \A c \in Calls : call[c] = Idle
  BY <1>1 DEF All, Idle, ToolApprovalAssumption
<1>3. TypedData
  BY InitApprovalInv DEF ApprovalInv
<1>4. /\ \A a \in AllApprovals : approval[a] = "none"
      /\ \A i \in 1..Len(Ids) : approval[Ids[i]] = "none"
      /\ run = "none" /\ approval[Late] = "none" /\ Len(Ids) \in Nat
  BY <1>3, IdsFacts DEF Init, AllApprovals
<1>5. Fits(Idle)
  BY DEF Fits, Idle
<1> QED
  BY <1>2, <1>4, <1>5 DEF Setup, Rows
----------------------------------------------------------------------------
(* Who settled an approval.                                                *)
LEMMA SettlerSteps ==
    ASSUME ToolApprovalAssumption, ApprovalInv, [Next]_vars, NEW c \in Calls
    PROVE  \/ /\ call'[c].wrote = call[c].wrote
              /\ call[c].wrote # "none" => /\ call'[c].id = call[c].id
                                           /\ call'[c].op = call[c].op
                                           /\ call'[c].proc = call[c].proc
           \/ call[c].wrote = "none" /\ \E s \in {"approved", "rejected", "expired"} : Settles(c, s)
<1>1. PICK e, d : e = call[c] /\ d = call'[c]
  OBVIOUS
<1>2. Orderly(e) /\ e \in CallRecs /\ TypedData
  BY <1>1 DEF ApprovalInv, TypedCalls, All, Orderly
<1>3. CASE d = e \/ d = [e EXCEPT !.pc = "dead"]
  BY <1>1, <1>2, <1>3 DEF CallRecs
<1>4. CASE Begun(e, d)
  <2>1. d.wrote = e.wrote /\ e.wrote = "none"
    BY <1>2, <1>4 DEF Begun, Orderly, CallRecs
  <2> QED
    BY <1>1, <2>1
<1>5. CASE Continued(e, d)
  BY <1>1, <1>2, <1>5, ContinuedSettles, ContinuedIsOrderly
<1> QED
  BY <1>1, <1>3, <1>4, <1>5, CallSteps

\* A call gets hold of the event loop of its process only when nobody has it.
LEMMA HoldingSteps ==
    ASSUME ToolApprovalAssumption, ApprovalInv, [Next]_vars, NEW c \in All, call'[c].pc \in Holding
    PROVE  \/ call[c].pc \in Holding /\ call'[c].proc = call[c].proc
           \/ ~Busy(call'[c].proc) /\ \A d \in All \ {c} : call'[d] = call[d]
<1>1. PICK e, d : e = call[c] /\ d = call'[c]
  OBVIOUS
<1>2. Orderly(e) /\ e \in CallRecs /\ TypedData /\ call = [v \in All |-> call[v]]
  BY <1>1 DEF ApprovalInv, TypedCalls, Orderly
<1>3. CASE c = Runner
  <2>1. CASE CreateApproval \/ SaveRun
    BY <1>3, <2>1, RunnerSteps DEF CreateApproval, SaveRun, Holding
  <2>2. CASE call'[c] = call[c]
    BY <2>2
  <2> QED
    BY <1>3, <2>1, <2>2, RunnerSteps DEF Holding
<1>4. CASE c # Runner
  <2>1. c \in Calls
    BY <1>4 DEF All
  <2>2. ASSUME NEW v \in Calls, NEW w, Moves(v, w) PROVE \A x \in All : call'[x] = IF x = v THEN w ELSE call[x]
    BY <1>2, <2>2 DEF Moves
  <2>3. ASSUME d # e, \A x \in All \ {c} : call'[x] = call[x], Begun(e, d)
        PROVE  ~Busy(d.proc)
    BY <1>2, <2>3 DEF Begun, CallRecs
  <2>4. ASSUME Continued(e, d), d.pc \in Holding
        PROVE  d.proc = e.proc /\ (e.pc \in Holding \/ ~Busy(d.proc))
    <3>1. d.proc = e.proc
      BY <1>2, <2>4, ContinuedIsOrderly
    <3>2. CASE e.pc = "backend"
      BY <1>2, <2>4, <3>1, <3>2 DEF Continued, CallRecs, Holding
    <3>3. CASE e.pc # "backend"
      BY <2>4, <3>1, <3>3 DEF Continued, Holding
    <3> QED
      BY <3>2, <3>3
  <2>5. CASE Dies
    BY <1>1, <1>2, <2>5 DEF Dies, CallRecs, Holding
  <2>6. CASE CreateApproval \/ SaveRun
    BY <1>2, <1>4, <2>6 DEF CreateApproval, SaveRun, GoOn, Goto
  <2>7. ASSUME NEW v \in Calls, NEW w, Moves(v, w), Begun(call[v], w) \/ Continued(call[v], w)
        PROVE  \/ call[c].pc \in Holding /\ call'[c].proc = call[c].proc
               \/ ~Busy(call'[c].proc) /\ \A x \in All \ {c} : call'[x] = call[x]
    <3>1. CASE v # c
      BY <2>2, <2>7, <3>1
    <3>2. CASE v = c
      BY <1>1, <2>2, <2>3, <2>4, <2>7, <3>2
    <3> QED
      BY <3>1, <3>2
  <2> QED
    BY <2>5, <2>6, <2>7, StepKinds
<1> QED
  BY <1>3, <1>4

\* One call at a time has the event loop of a process.
Alone == \A c, d \in All : c # d /\ call[c].pc \in Holding /\ call[d].pc \in Holding => call[c].proc # call[d].proc

SettledOnes == \A c \in Calls : call[c].wrote # "none" => Decided(call[c].id)

\* A call about to write what another one already settled runs elsewhere.
WritersApart ==
    \A c, d \in Calls :
        c # d /\ call[c].pc \in {"write", "expire"} /\ call[d].wrote # "none" /\ call[c].id = call[d].id
            => call[c].proc # call[d].proc

\* Every decision is somebody's.
Owned ==
    \A a \in AllApprovals : Decided(a) =>
        \E c \in SettlersOf(a) :
            /\ call[c].wrote = approval[a]
            /\ approval[a] = "approved" => call[c].op \in {"approve", "approve_and_resume"}
Settlement == Alone /\ SettledOnes /\ WritersApart /\ Owned /\ DecisionsExclusive

LEMMA StepAlone ==
    ASSUME ToolApprovalAssumption, ApprovalInv, Alone, [Next]_vars
    PROVE  Alone'
<1> SUFFICES ASSUME NEW c \in All, NEW d \in All, c # d, call'[c].pc \in Holding, call'[d].pc \in Holding
             PROVE  call'[c].proc # call'[d].proc
  BY DEF Alone
<1>1. CASE /\ call[c].pc \in Holding /\ call'[c].proc = call[c].proc
           /\ call[d].pc \in Holding /\ call'[d].proc = call[d].proc
  BY <1>1 DEF Alone
<1>2. CASE ~Busy(call'[c].proc) /\ call'[d] = call[d]
  BY <1>2 DEF Busy, All
<1>3. CASE ~Busy(call'[d].proc) /\ call'[c] = call[c]
  BY <1>3 DEF Busy, All
<1> QED
  BY <1>1, <1>2, <1>3, HoldingSteps

LEMMA StepSettlement ==
    ASSUME ToolApprovalAssumption, ApprovalInv, Setup, Settlement, [Next]_vars
    PROVE  Settlement'
<1>0. /\ TypedData /\ approval \in [AllApprovals -> Statuses] /\ Rows /\ Calls \subseteq All
      /\ \A c \in Calls : call[c].id \in AllApprovals
  BY DEF ApprovalInv, TypedData, TypedCalls, Orderly, CallRecs, Setup, All
<1>1. Alone'
  BY StepAlone DEF Settlement
<1>2. ASSUME NEW c \in Calls, NEW s, Settles(c, s) PROVE call[c].pc \in {"write", "expire"} /\ call[c].pc \in Holding
  BY <1>2 DEF Settles, Holding
<1>3. SettledOnes'
  <2> SUFFICES ASSUME NEW c \in Calls, call'[c].wrote # "none" PROVE approval'[call'[c].id] \notin {"none", "pending"}
    BY DEF SettledOnes, Decided
  <2>1. CASE call[c].wrote # "none" /\ call'[c].id = call[c].id
    BY <1>0, <2>1, RowsMonotone DEF Settlement, SettledOnes
  <2>2. CASE \E s \in {"approved", "rejected", "expired"} : Settles(c, s)
    BY <1>0, <2>2 DEF Settles
  <2> QED
    BY <2>1, <2>2, SettlerSteps
<1>4. WritersApart'
  <2> SUFFICES ASSUME NEW c \in Calls, NEW d \in Calls, c # d, call'[c].pc \in {"write", "expire"},
                      call'[d].wrote # "none", call'[c].id = call'[d].id
               PROVE  call'[c].proc # call'[d].proc
    BY DEF WritersApart
  <2>1. ASSUME NEW s, Settles(d, s), call[d].wrote = "none" PROVE call'[c].proc # call'[d].proc
    <3>1. call'[d] # call[d]
      BY <2>1
    <3>2. call[c].pc \in Holding /\ call'[c].proc = call[c].proc
      BY <1>0, <3>1, HoldingSteps DEF Holding
    <3> QED
      BY <1>0, <1>2, <2>1, <3>2 DEF Settlement, Alone, Settles
  <2>2. CASE call[d].wrote # "none" /\ call'[d].id = call[d].id /\ call'[d].proc = call[d].proc
    <3>1. PICK e, f : e = call[c] /\ f = call'[c]
      OBVIOUS
    <3>2. e \in CallRecs /\ Orderly(e)
      BY <1>0, <3>1 DEF ApprovalInv, TypedCalls, Orderly
    <3>3. CASE f = e
      BY <2>2, <3>1, <3>3 DEF Settlement, WritersApart
    <3>4. CASE Continued(e, f)
      <4>1. e.pc = "read" /\ Open(e.id) /\ f.id = e.id
        BY <1>0, <3>1, <3>2, <3>4, ContinuedIsOrderly, ZenonT(60) DEF Continued, CallRecs, AfterDecision
      <4>2. Decided(e.id)
        BY <2>2, <3>1, <4>1 DEF Settlement, SettledOnes
      <4> QED
        BY <4>1, <4>2 DEF Open, Decided
    <3>5. CASE Begun(e, f) \/ f = [e EXCEPT !.pc = "dead"]
      <4>1. f.pc \in {"read", "pending", "dead"}
        BY <3>2, <3>5 DEF Begun, CallRecs
      <4> QED
        BY <3>1, <4>1
    <3> QED
      BY <3>1, <3>3, <3>4, <3>5, CallSteps
  <2> QED
    BY <2>1, <2>2, SettlerSteps
<1>5. Owned'
  <2> SUFFICES ASSUME NEW a \in AllApprovals, approval'[a] \notin {"none", "pending"}
               PROVE  \E c \in Calls : /\ call'[c].wrote # "none" /\ call'[c].id = a
                                       /\ call'[c].wrote = approval'[a]
                                       /\ approval'[a] = "approved" => call'[c].op \in {"approve", "approve_and_resume"}
    BY DEF Owned, SettlersOf, Decided
  <2>1. CASE approval'[a] = approval[a]
    <3>1. PICK c \in Calls : /\ call[c].wrote # "none" /\ call[c].id = a /\ call[c].wrote = approval[a]
                             /\ approval[a] = "approved" => call[c].op \in {"approve", "approve_and_resume"}
      BY <2>1 DEF Settlement, Owned, SettlersOf, Decided
    <3> QED
      BY <2>1, <3>1, SettlerSteps
  <2>2. ASSUME NEW c \in Calls, NEW s \in {"approved", "rejected", "expired"}, Settles(c, s), call[c].id = a
        PROVE  \E v \in Calls : /\ call'[v].wrote # "none" /\ call'[v].id = a
                                /\ call'[v].wrote = approval'[a]
                                /\ approval'[a] = "approved" => call'[v].op \in {"approve", "approve_and_resume"}
    BY <1>0, <2>2 DEF Settles
  <2>3. ASSUME NEW b, approval' = [approval EXCEPT ![b] = "pending"] PROVE approval'[a] = approval[a]
    BY <1>0, <2>3
  <2>4. ASSUME NEW c \in Calls, NEW s, Settles(c, s), call[c].id # a PROVE approval'[a] = approval[a]
    BY <1>0, <2>4 DEF Settles
  <2> QED
    BY <2>1, <2>2, <2>3, <2>4, RowSteps DEF CreateApproval
<1>6. DecisionsExclusive'
  <2> SUFFICES ASSUME NEW c \in Calls, NEW d \in Calls, c # d, call'[c].wrote # "none", call'[d].wrote # "none",
                      call'[c].id = call'[d].id
               PROVE  call'[c].proc # call'[d].proc
    BY DEF DecisionsExclusive, SettlersOf
  <2>1. ASSUME NEW v \in Calls, NEW w \in Calls, v # w, NEW s, Settles(v, s), call'[v].id = call'[w].id,
               call[w].wrote # "none", call'[w].id = call[w].id, call'[w].proc = call[w].proc
        PROVE  call'[v].proc # call'[w].proc
    <3>1. call[v].pc \in {"write", "expire"} /\ call'[v].id = call[v].id /\ call'[v].proc = call[v].proc
      BY <1>2, <2>1 DEF Settles
    <3> QED
      BY <2>1, <3>1 DEF Settlement, WritersApart
  <2>2. ASSUME NEW s, NEW t, Settles(c, s), Settles(d, t) PROVE call'[c].proc # call'[d].proc
    <3>1. call[c].pc \in Holding /\ call[d].pc \in Holding
      BY <1>2, <2>2
    <3> QED
      BY <1>0, <2>2, <3>1 DEF Settlement, Alone, Settles
  <2>3. CASE /\ call[c].wrote # "none" /\ call'[c].id = call[c].id /\ call'[c].proc = call[c].proc
             /\ call[d].wrote # "none" /\ call'[d].id = call[d].id /\ call'[d].proc = call[d].proc
    <3>1. call[c].id \in AllApprovals /\ call[c].id = call[d].id
      BY <1>0, <2>3
    <3> QED
      BY <2>3, <3>1 DEF Settlement, DecisionsExclusive, SettlersOf
  <2> QED
    BY <2>1, <2>2, <2>3, SettlerSteps
<1> QED
  BY <1>1, <1>3, <1>4, <1>5, <1>6 DEF Settlement

LEMMA InitSettlement == ASSUME ToolApprovalAssumption, Init PROVE Settlement
<1>1. PICK p \in Procs : call = [c \in All |-> IF c = Runner THEN [Idle EXCEPT !.pc = "create", !.proc = p] ELSE Idle]
  BY DEF Init, All
<1>2. /\ \A c \in Calls : call[c] = Idle
      /\ \A c \in All : c # Runner => call[c] = Idle
  BY <1>1 DEF All, ToolApprovalAssumption
<1>3. \A a \in AllApprovals : ~Decided(a)
  BY DEF Init, Decided
<1>4. Idle.wrote = "none" /\ Idle.pc = "idle" /\ "idle" \notin Holding
  BY DEF Idle, Holding
<1> QED
  BY <1>2, <1>3, <1>4 DEF Settlement, Alone, SettledOnes, WritersApart, Owned, DecisionsExclusive, SettlersOf
----------------------------------------------------------------------------
(* From the decisions to the resumed run.                                  *)
Approver(a) == \E c \in SettlersOf(a) : call[c].op \in {"approve", "approve_and_resume"}
ToolsAllowed ==
    /\ \A c \in Calls : \A a \in call[c].tools : Approver(a)
    /\ ExecutedWasApproved

\* Somebody settled a request otherwise than by a rejection, or by one.
Kept(a) == \E c \in SettlersOf(a) : call[c].wrote # "rejected"
Denied(a) == \E c \in SettlersOf(a) : call[c].wrote = "rejected"

\* What a call has seen while it looked through the requests.
Looked(e) ==
    /\ e.pc \in {"idle", "read", "write"} => e.at = 1
    /\ e.pc = "pending" => \A i \in 1..Len(Ids) : i < e.at => Decided(Ids[i])
    /\ e.pc = "rejected" => /\ \A i \in 1..Len(Ids) : Decided(Ids[i])
                            /\ \A i \in 1..Len(Ids) : i < e.at => Kept(Ids[i])
    /\ e.resumes => \A i \in 1..Len(Ids) : Decided(Ids[i]) /\ Kept(Ids[i])
    /\ e.pc = "close" => \E i \in 1..Len(Ids) : Denied(Ids[i])

\* A call on its way to resume runs in another process than one that resumes.
ResumersApart ==
    \A c, d \in Calls :
        (/\ c # d /\ call[c].resumes
         /\ call[c].op = "approve_and_resume" /\ call[d].op = "approve_and_resume"
         /\ call[d].pc \in {"write", "pending", "rejected"})
            => call[c].proc # call[d].proc

\* Once every request is approved some call is on its way to resume.
Approved ==
    /\ native /\ run # "none"
    /\ \A a \in IdSet : approval[a] = "approved"
    /\ \A c \in Calls : call[c].wrote # "none" => call[c].op # "approve"
OnItsWay(e) ==
    \/ e.resumes
    \/ e.pc = "dead"
    \/ e.op = "approve_and_resume" /\ e.pc \in {"pending", "rejected"}
SomeoneComes == Approved => \E c \in Calls : OnItsWay(call[c])

Resumption ==
    /\ ToolsAllowed
    /\ \A c \in Calls : Looked(call[c])
    /\ ResumersApart
    /\ ResumedOnce
    /\ run = "completed" => \E i \in 1..Len(Ids) : Denied(Ids[i])
    /\ SomeoneComes
Whole == ApprovalInv /\ Setup /\ Settlement

LEMMA SettlersStay ==
    ASSUME ToolApprovalAssumption, ApprovalInv, [Next]_vars, NEW a
    PROVE  /\ Approver(a) => Approver(a)'
           /\ Kept(a) => Kept(a)'
           /\ Denied(a) => Denied(a)'
<1>1. ASSUME NEW c \in SettlersOf(a)
      PROVE  c \in SettlersOf(a)' /\ call'[c].op = call[c].op /\ call'[c].wrote = call[c].wrote
  BY <1>1, SettlerSteps DEF SettlersOf
<1> QED
  BY <1>1 DEF Approver, Kept, Denied

LEMMA StepToolsAllowed ==
    ASSUME ToolApprovalAssumption, Whole, ToolsAllowed, [Next]_vars
    PROVE  ToolsAllowed'
<1>0. /\ TypedData /\ Calls \subseteq All /\ executed \in [Requested -> Nat] /\ Requested \subseteq AllApprovals
      /\ ApprovalInv
  BY DEF Whole, ApprovalInv, TypedData, All, AllApprovals
<1>1. \A a : Approver(a) => Approver(a)'
  BY <1>0, SettlersStay
<1>2. \A a \in Requested : approval[a] = "approved" => Approver(a)
  BY <1>0 DEF Whole, Settlement, Owned, Approver, Decided
<1>3. ASSUME NEW c \in Calls, NEW a \in call'[c].tools PROVE Approver(a)
  <2>1. PICK e, d : e = call[c] /\ d = call'[c]
    OBVIOUS
  <2>2. e \in CallRecs /\ Orderly(e)
    BY <1>0, <2>1 DEF ApprovalInv, TypedCalls, Orderly
  <2>3. CASE d = e \/ d = [e EXCEPT !.pc = "dead"] \/ Begun(e, d)
    <3>1. d.tools = e.tools
      BY <2>2, <2>3 DEF CallRecs, Begun
    <3> QED
      BY <1>3, <2>1, <3>1 DEF ToolsAllowed
  <2>4. CASE Continued(e, d)
    <3>1. CASE e.pc = "decisions"
      <4>1. PICK tools \in SUBSET Requested : /\ d.tools = tools
                                              /\ \A b \in tools \ e.tools : approval[b] = "approved"
        BY <2>2, <2>4, <3>1 DEF Continued, CallRecs
      <4> QED
        BY <1>2, <1>3, <2>1, <4>1 DEF ToolsAllowed
    <3>2. CASE e.pc # "decisions"
      <4>1. d.tools \subseteq e.tools
        <5>1. CASE e.pc = "backend"
          BY <2>2, <2>4, <5>1, ZenonT(60) DEF Continued, CallRecs
        <5>2. CASE e.pc # "backend"
          BY <2>2, <2>4, <3>2, <5>2 DEF Continued, CallRecs
        <5> QED
          BY <5>1, <5>2
      <4> QED
        BY <1>3, <2>1, <4>1 DEF ToolsAllowed
    <3> QED
      BY <3>1, <3>2
  <2> QED
    BY <1>0, <2>1, <2>3, <2>4, CallSteps
<1>4. ASSUME NEW a \in Requested, executed'[a] > 0 PROVE Approver(a)
  <2>1. CASE executed'[a] = executed[a]
    BY <1>4, <2>1 DEF ToolsAllowed, ExecutedWasApproved, Approver
  <2>2. ASSUME NEW c \in Calls, NEW b \in call[c].tools, executed' = [executed EXCEPT ![b] = @ + 1]
        PROVE  Approver(a)
    <3>1. CASE b = a
      BY <2>2, <3>1 DEF ToolsAllowed
    <3>2. CASE b # a
      <4>1. executed'[a] = executed[a]
        BY <1>0, <2>2, <3>2
      <4> QED
        BY <2>1, <4>1
    <3> QED
      BY <3>1, <3>2
  <2>3. UNCHANGED executed \/ \E c \in Calls : \E b \in call[c].tools : executed' = [executed EXCEPT ![b] = @ + 1]
    <3>1. ASSUME NEW c \in Calls, NEW d, Continued(call[c], d)
          PROVE  UNCHANGED executed \/ \E b \in call[c].tools : executed' = [executed EXCEPT ![b] = @ + 1]
      BY <3>1 DEF Continued, Stays
    <3> QED
      BY <1>0, <3>1, StepKinds DEF Quiet, CreateApproval, SaveRun, Dies
  <2> QED
    BY <2>1, <2>2, <2>3
<1> QED
  BY <1>1, <1>3, <1>4 DEF ToolsAllowed, ExecutedWasApproved, Approver

LEMMA StepLooked ==
    ASSUME ToolApprovalAssumption, Whole, NEW c \in Calls, Looked(call[c]), [Next]_vars
    PROVE  Looked(call[c])'
<1>1. PICK e, d : e = call[c] /\ d = call'[c]
  OBVIOUS
<1>2. /\ e \in CallRecs /\ Orderly(e) /\ TypedData /\ Fits(e) /\ Looked(e) /\ Ids' = Ids /\ ApprovalInv /\ Rows
      /\ Len(Ids) \in Nat /\ e.at \in 1..Len(Ids)
      /\ \A i \in 1..Len(Ids) : Ids[i] \in AllApprovals
  BY <1>1, SameIds, IdsFacts DEF Whole, Setup, ApprovalInv, TypedCalls, All, Orderly, AllApprovals
<1>3. \A i \in 1..Len(Ids) : /\ Decided(Ids[i]) => approval'[Ids[i]] \notin {"none", "pending"}
                             /\ Kept(Ids[i]) => Kept(Ids[i])'
                             /\ Denied(Ids[i]) => Denied(Ids[i])'
  <2> SUFFICES ASSUME NEW i \in 1..Len(Ids)
               PROVE  /\ Decided(Ids[i]) => approval'[Ids[i]] \notin {"none", "pending"}
                      /\ Kept(Ids[i]) => Kept(Ids[i])'
                      /\ Denied(Ids[i]) => Denied(Ids[i])'
    OBVIOUS
  <2>1. PICK a : a = Ids[i] /\ a = Ids'[i]
    BY <1>2
  <2>2. (Kept(a) => Kept(a)') /\ (Denied(a) => Denied(a)')
    BY <1>2, SettlersStay
  <2>3. Decided(a) => approval'[a] \notin {"none", "pending"}
    BY <1>2, <2>1, RowsMonotone
  <2> QED
    BY <2>1, <2>2, <2>3 DEF Kept, Denied, SettlersOf
<1>4. \A i \in 1..Len(Ids) : Decided(Ids[i]) /\ approval[Ids[i]] # "rejected" => Kept(Ids[i])
  BY <1>2 DEF Whole, Settlement, Owned, Kept
<1>5. \A i \in 1..Len(Ids) : approval[Ids[i]] = "rejected" => Denied(Ids[i])
  BY <1>2 DEF Whole, Settlement, Owned, Denied, Decided
<1>6. ASSUME Looked(d) PROVE Looked(d)'
  BY <1>2, <1>3, <1>6 DEF Looked, Decided
<1>7. CASE d = e \/ d = [e EXCEPT !.pc = "dead"] \/ Begun(e, d)
  <2>1. \/ d = e
        \/ d.pc = "dead" /\ d.resumes = e.resumes
        \/ d.pc \in {"read", "pending"} /\ d.at = 1 /\ d.resumes = FALSE
    BY <1>2, <1>7 DEF Looked, CallRecs, Begun, Orderly
  <2>2. Looked(d)
    BY <1>2, <2>1 DEF Looked
  <2> QED
    BY <1>1, <1>6, <2>2 DEF Looked
<1>8. CASE Continued(e, d) /\ ~(e.pc = "write" /\ d.pc = "close")
  <2> SUFFICES Looked(d)
    BY <1>1, <1>6 DEF Looked
  <2>1. CASE e.pc \in {"read", "write", "expire", "close", "mark", "markFirst", "backend"}
    <3>1. /\ d.at = 1 \/ d.pc \notin {"idle", "read", "write", "pending", "rejected"}
          /\ d.resumes = e.resumes /\ d.pc \notin {"rejected", "close"}
      <4>1. CASE e.pc = "backend"
        BY <1>2, <1>8, <4>1 DEF Continued, CallRecs
      <4>2. CASE e.pc = "write"
        BY <1>2, <1>8, <4>2 DEF Continued, CallRecs, AfterDecision, Looked
      <4>3. CASE e.pc \notin {"backend", "write"}
        BY <1>2, <1>8, <2>1, <4>3 DEF Continued, CallRecs
      <4> QED
        BY <4>1, <4>2, <4>3
    <3> QED
      BY <1>2, <3>1 DEF Looked
  <2>2. CASE e.pc = "pending"
    <3>1. CASE Blocking(Ids[e.at])
      BY <1>2, <1>8, <2>2, <3>1 DEF Looked, CallRecs, Continued
    <3>2. CASE ~Blocking(Ids[e.at])
      <4>1. \/ e.at < Len(Ids) /\ d = [e EXCEPT !.at = @ + 1]
            \/ e.at = Len(Ids) /\ d = [e EXCEPT !.pc = "rejected", !.at = 1]
        BY <1>8, <2>2, <3>2 DEF Continued
      <4>2. Decided(Ids[e.at])
        <5>1. approval[Ids[e.at]] # "none"
          BY <1>2, <2>2 DEF Fits, Rows
        <5> QED
          BY <3>2, <5>1 DEF Blocking, Decided
      <4>3. \A i \in 1..Len(Ids) : i < e.at + 1 => Decided(Ids[i])
        BY <1>2, <2>2, <4>2 DEF Looked
      <4>4. \/ d.pc = "pending" /\ d.at = e.at + 1 /\ d.resumes = e.resumes
            \/ d.pc = "rejected" /\ d.at = 1 /\ e.at = Len(Ids) /\ d.resumes = e.resumes
        BY <1>2, <2>2, <4>1 DEF CallRecs
      <4> QED
        BY <1>2, <4>3, <4>4 DEF Looked
    <3> QED
      BY <3>1, <3>2
  <2>3. CASE e.pc = "rejected"
    <3>1. CASE Vetoes(Ids[e.at])
      <4>1. Denied(Ids[e.at])
        BY <1>2, <1>5, <3>1 DEF Vetoes
      <4>2. d.pc = "close" /\ d.resumes = e.resumes
        BY <1>2, <1>8, <2>3, <3>1 DEF Continued, CallRecs
      <4> QED
        BY <1>2, <4>1, <4>2 DEF Looked
    <3>2. CASE ~Vetoes(Ids[e.at])
      <4>1. Kept(Ids[e.at])
        BY <1>2, <1>4, <2>3, <3>2 DEF Looked, Vetoes
      <4>2. \A i \in 1..Len(Ids) : Decided(Ids[i]) /\ (i < e.at + 1 => Kept(Ids[i]))
        BY <1>2, <2>3, <4>1 DEF Looked
      <4>3. \/ d.pc = "rejected" /\ d.at = e.at + 1 /\ d.resumes = e.resumes
            \/ d.pc \in {"markFirst", "decisions", "done"} /\ e.at = Len(Ids)
        BY <1>2, <1>8, <2>3, <3>2 DEF Continued, CallRecs
      <4> QED
        BY <1>2, <4>2, <4>3 DEF Looked
    <3> QED
      BY <3>1, <3>2
  <2>4. CASE e.pc = "decisions"
    <3>1. d.pc \in {"decisions", "backend", "done"} /\ d.resumes = e.resumes
      BY <1>2, <1>8, <2>4 DEF Continued, CallRecs
    <3> QED
      BY <1>2, <3>1 DEF Looked
  <2> QED
    BY <1>8, <2>1, <2>2, <2>3, <2>4 DEF Continued
<1>9. CASE Continued(e, d) /\ e.pc = "write" /\ d.pc = "close"
  <2>1. d.op = e.op /\ d.id = e.id /\ e.op = "reject_approval" /\ e.id \in IdSet /\ d.wrote = "rejected" /\ ~d.resumes
    BY <1>2, <1>9, ContinuedIsOrderly DEF Continued, CallRecs, AfterDecision, Decision, Fits
  <2>2. PICK i \in 1..Len(Ids) : e.id = Ids[i]
    BY <2>1 DEF IdSet
  <2>3. Denied(Ids[i])'
    BY <1>1, <1>2, <2>1, <2>2 DEF Denied, SettlersOf
  <2> QED
    BY <1>1, <1>2, <1>9, <2>1, <2>3 DEF Looked
<1> QED
  BY <1>1, <1>2, <1>7, <1>8, <1>9, CallSteps

\* How a call comes to be on its way, and to resume.
LEMMA ResumeSteps ==
    ASSUME ToolApprovalAssumption, Whole, NEW c \in Calls, Looked(call[c]), [Next]_vars
    PROVE  /\ call'[c].resumes /\ ~call[c].resumes => call[c].pc = "rejected" /\ call'[c].op = call[c].op /\ call'[c].proc = call[c].proc
           /\ call[c].resumes => call'[c].resumes /\ call'[c].op = call[c].op /\ call'[c].proc = call[c].proc
           /\ call'[c].pc \in {"write", "pending", "rejected"} /\ call'[c].op = "approve_and_resume" =>
                 /\ call'[c].op = call[c].op /\ call'[c].proc = call[c].proc /\ call[c].id \in IdSet
                 /\ call[c].pc \in {"write", "pending", "rejected"} \/ (call[c].pc = "read" /\ Open(call[c].id))
<1>1. PICK e, d : e = call[c] /\ d = call'[c]
  OBVIOUS
<1>2. e \in CallRecs /\ Orderly(e) /\ TypedData /\ Fits(e) /\ ApprovalInv
  BY <1>1 DEF Whole, Setup, ApprovalInv, TypedCalls, All, Orderly
<1>3. CASE d = e \/ d = [e EXCEPT !.pc = "dead"]
  BY <1>1, <1>2, <1>3 DEF CallRecs, Fits
<1>4. CASE Begun(e, d)
  <2>1. /\ d.resumes = FALSE /\ e.resumes = FALSE /\ d.pc \in {"read", "pending"}
        /\ d.op = "approve_and_resume" => d.pc = "read"
    BY <1>2, <1>4 DEF CallRecs, Orderly, Begun, Deciding
  <2> QED
    BY <1>1, <2>1
<1>5. CASE Continued(e, d)
  <2>1. d.op = e.op /\ d.proc = e.proc
    BY <1>2, <1>5, ContinuedIsOrderly
  <2>2. CASE e.pc = "rejected"
    <3>1. ~e.resumes
      BY <1>2, <2>2 DEF Fits
    <3> QED
      BY <1>1, <1>2, <2>1, <2>2, <3>1 DEF Fits
  <2>3. CASE e.pc # "rejected"
    <3>1. /\ d.resumes = e.resumes
          /\ d.pc \in {"write", "pending", "rejected"} =>
                e.pc \in {"write", "pending", "rejected"} \/ (e.pc = "read" /\ Open(e.id))
      <4>1. CASE e.pc = "backend"
        BY <1>2, <1>5, <4>1 DEF Continued, CallRecs
      <4>2. CASE e.pc # "backend"
        BY <1>2, <1>5, <2>3, <4>2 DEF Continued, CallRecs
      <4> QED
        BY <4>1, <4>2
    <3> QED
      BY <1>1, <1>2, <2>1, <3>1 DEF Fits
  <2> QED
    BY <2>2, <2>3
<1> QED
  BY <1>1, <1>2, <1>3, <1>4, <1>5, CallSteps

LEMMA StepResumers ==
    ASSUME ToolApprovalAssumption, Whole, \A c \in Calls : Looked(call[c]), ResumersApart, ResumedOnce, [Next]_vars
    PROVE  ResumersApart' /\ ResumedOnce'
<1>0. Alone /\ Calls \subseteq All
  BY DEF Whole, Settlement, All
<1>1. ASSUME NEW c \in Calls, NEW d \in Calls, c # d, call'[c].resumes,
             call'[c].op = "approve_and_resume", call'[d].op = "approve_and_resume",
             call'[d].pc \in {"write", "pending", "rejected"}
      PROVE  call'[c].proc # call'[d].proc
  <2>1. /\ call'[d].op = call[d].op /\ call'[d].proc = call[d].proc /\ call[d].id \in IdSet
        /\ call[d].pc \in {"write", "pending", "rejected"} \/ (call[d].pc = "read" /\ Open(call[d].id))
        /\ call[d].pc \in Holding
    BY <1>1, ResumeSteps DEF Holding
  <2>2. CASE call[c].resumes
    <3>1. call'[c].op = call[c].op /\ call'[c].proc = call[c].proc
      BY <2>2, ResumeSteps
    <3>2. ~Open(call[d].id)
      <4>1. PICK i \in 1..Len(Ids) : call[d].id = Ids[i]
        BY <2>1 DEF IdSet
      <4>2. Decided(Ids[i])
        BY <2>2 DEF Looked
      <4> QED
        BY <4>1, <4>2 DEF Decided, Open
    <3> QED
      BY <1>1, <2>1, <2>2, <3>1, <3>2 DEF ResumersApart
  <2>3. CASE ~call[c].resumes
    <3>1. call[c].pc \in Holding /\ call'[c].proc = call[c].proc
      BY <1>1, <2>3, ResumeSteps DEF Holding
    <3> QED
      BY <1>0, <1>1, <2>1, <3>1 DEF Alone
  <2> QED
    BY <2>2, <2>3
<1>2. ASSUME NEW c \in Calls, NEW d \in Calls, c # d, call'[c].resumes, call'[d].resumes,
             call'[c].op = "approve_and_resume", call'[d].op = "approve_and_resume"
      PROVE  call'[c].proc # call'[d].proc
  <2>1. ASSUME NEW v \in Calls, NEW w \in Calls, v # w, call[v].resumes, ~call[w].resumes,
               call'[v].op = "approve_and_resume", call'[w].op = "approve_and_resume", call'[w].resumes
        PROVE  call'[v].proc # call'[w].proc
    <3>1. call[w].pc = "rejected" /\ call'[w].op = call[w].op /\ call'[w].proc = call[w].proc
      BY <2>1, ResumeSteps
    <3>2. call'[v].op = call[v].op /\ call'[v].proc = call[v].proc
      BY <2>1, ResumeSteps
    <3> QED
      BY <2>1, <3>1, <3>2 DEF ResumersApart
  <2>2. CASE ~call[c].resumes /\ ~call[d].resumes
    <3>1. /\ call[c].pc \in Holding /\ call'[c].proc = call[c].proc
          /\ call[d].pc \in Holding /\ call'[d].proc = call[d].proc
      BY <1>2, <2>2, ResumeSteps DEF Holding
    <3> QED
      BY <1>0, <1>2, <3>1 DEF Alone
  <2>3. CASE call[c].resumes /\ call[d].resumes
    <3>1. /\ call'[c].op = call[c].op /\ call'[c].proc = call[c].proc
          /\ call'[d].op = call[d].op /\ call'[d].proc = call[d].proc
      BY <2>3, ResumeSteps
    <3> QED
      BY <1>2, <2>3, <3>1 DEF ResumedOnce, Resuming
  <2> QED
    BY <1>2, <2>1, <2>2, <2>3
<1> QED
  BY <1>1, <1>2 DEF ResumersApart, ResumedOnce, Resuming

\* A run is closed by a rejection.
LEMMA StepClosed ==
    ASSUME ToolApprovalAssumption, Whole, \A c \in Calls : Looked(call[c]),
           run = "completed" => \E i \in 1..Len(Ids) : Denied(Ids[i]), [Next]_vars
    PROVE  run' = "completed" => \E i \in 1..Len(Ids') : Denied(Ids[i])'
<1> SUFFICES ASSUME run' = "completed" PROVE \E i \in 1..Len(Ids) : Denied(Ids[i])'
  BY SameIds DEF Whole
<1>0. ApprovalInv
  BY DEF Whole
<1>1. \E i \in 1..Len(Ids) : Denied(Ids[i])
  <2>1. ASSUME NEW c \in Calls, NEW d, Continued(call[c], d), run # "completed" PROVE call[c].pc = "close"
    BY <2>1 DEF Continued, Stays
  <2>2. run = "completed" \/ \E c \in Calls : call[c].pc = "close"
    BY <1>0, <2>1, StepKinds DEF Quiet, CreateApproval, SaveRun, Dies
  <2> QED
    BY <2>2 DEF Looked
<1>2. PICK i \in 1..Len(Ids) : Denied(Ids[i])
  BY <1>1
<1>3. PICK a : a = Ids[i]
  OBVIOUS
<1>4. Denied(a)' /\ a = Ids'[i]
  BY <1>0, <1>2, <1>3, SettlersStay, SameIds
<1> QED
  BY <1>2, <1>3, <1>4 DEF Denied, SettlersOf

LEMMA StepSomeoneComes ==
    ASSUME ToolApprovalAssumption, Whole, \A c \in Calls : Looked(call[c]), SomeoneComes, [Next]_vars
    PROVE  SomeoneComes'
<1> SUFFICES ASSUME Approved' PROVE \E c \in Calls : OnItsWay(call'[c])
  BY DEF SomeoneComes, OnItsWay
<1>0. /\ ApprovalInv /\ TypedData /\ Rows /\ approval \in [AllApprovals -> Statuses] /\ IdSet' = IdSet /\ native' = native
      /\ IdSet \subseteq AllApprovals /\ \A i \in 1..Len(Ids) : Ids[i] \in IdSet
      /\ 1 \in 1..Len(Ids) /\ Late \notin IdSet /\ Len(Ids) \in Nat
  BY SameIds, IdsFacts DEF Whole, ApprovalInv, TypedData, Setup, AllApprovals, IdSet
<1>1. ASSUME NEW c \in Calls, call[c].wrote # "none" PROVE call[c].op # "approve"
  BY <1>0, <1>1, SettlerSteps DEF Approved
<1>2. CASE run = "none"
  <2>1. UNCHANGED approval
    <3>1. ASSUME NEW c \in Calls, NEW d, Continued(call[c], d) PROVE run' = "none"
      <4>1. Fits(call[c])
        BY DEF Whole, Setup
      <4> QED
        BY <1>2, <3>1, <4>1 DEF Continued, Stays, Fits
    <3>2. run' # "none"
      BY DEF Approved
    <3> QED
      BY <1>0, <1>2, <3>1, <3>2, StepKinds DEF Quiet, CreateApproval, SaveRun, Dies
  <2>2. approval[Ids[1]] = "approved"
    BY <1>0, <2>1 DEF Approved
  <2>3. PICK c \in SettlersOf(Ids[1]) : call[c].op \in {"approve", "approve_and_resume"}
    BY <1>0, <2>2 DEF Whole, Settlement, Owned, Decided
  <2>4. c \in Calls /\ call[c].op = "approve_and_resume" /\ call[c].wrote # "none"
    BY <1>1, <2>3 DEF SettlersOf
  <2>5. Fits(call[c]) /\ Orderly(call[c])
    BY <2>4 DEF Whole, Setup, ApprovalInv, TypedCalls, All
  <2> QED
    BY <1>2, <2>4, <2>5 DEF Fits, Orderly
<1>3. CASE \E a \in IdSet : approval[a] # "approved"
  <2>1. PICK a \in IdSet : approval[a] # "approved"
    BY <1>3
  <2>2. approval'[a] = "approved"
    BY <1>0 DEF Approved
  <2>3. PICK c \in Calls, s \in {"approved", "rejected", "expired"} : Settles(c, s)
    <3>1. ASSUME NEW b, approval' = [approval EXCEPT ![b] = "pending"] PROVE FALSE
      BY <1>0, <2>1, <2>2, <3>1
    <3> QED
      BY <1>0, <2>1, <2>2, <3>1, RowSteps DEF CreateApproval
  <2>4. s = "approved"
    BY <1>0, <2>1, <2>2, <2>3 DEF Settles
  <2>5. call'[c].op # "approve"
    BY <2>3, <2>4 DEF Settles, Approved
  <2> QED
    BY <2>3, <2>4, <2>5 DEF Settles, OnItsWay
<1>4. CASE run # "none" /\ \A a \in IdSet : approval[a] = "approved"
  <2>1. Approved
    BY <1>0, <1>1, <1>4 DEF Approved
  <2>2. PICK c \in Calls : OnItsWay(call[c])
    BY <2>1 DEF SomeoneComes
  <2>3. PICK e, d : e = call[c] /\ d = call'[c]
    OBVIOUS
  <2>4. e \in CallRecs /\ Orderly(e) /\ Fits(e) /\ OnItsWay(e) /\ e.at \in 1..Len(Ids)
    BY <2>2, <2>3 DEF Whole, Setup, ApprovalInv, TypedCalls, All, Orderly
  <2>5. CASE d = e \/ d = [e EXCEPT !.pc = "dead"]
    <3>1. OnItsWay(d)
      BY <2>4, <2>5 DEF OnItsWay, CallRecs
    <3> QED
      BY <2>3, <3>1
  <2>6. CASE Begun(e, d)
    BY <2>4, <2>6 DEF Begun, OnItsWay, Orderly
  <2>7. CASE Continued(e, d)
    <3>1. CASE e.resumes
      BY <2>3, <3>1, ResumeSteps DEF OnItsWay
    <3>2. CASE e.pc = "dead"
      BY <2>7, <3>2 DEF Continued
    <3>3. CASE e.op = "approve_and_resume" /\ e.pc \in {"pending", "rejected"}
      <4>1. approval[Ids[e.at]] = "approved" /\ native
        BY <1>0, <1>4, <2>1, <2>4 DEF Approved
      <4>2. OnItsWay(d)
        BY <2>4, <2>7, <3>3, <4>1 DEF Continued, Blocking, Vetoes, OnItsWay, CallRecs
      <4> QED
        BY <2>3, <4>2
    <3> QED
      BY <2>4, <3>1, <3>2, <3>3 DEF OnItsWay
  <2> QED
    BY <1>0, <2>3, <2>5, <2>6, <2>7, CallSteps
<1> QED
  BY <1>2, <1>3, <1>4

LEMMA InitResumption == ASSUME ToolApprovalAssumption, Init PROVE Resumption
<1>1. PICK p \in Procs : call = [c \in All |-> IF c = Runner THEN [Idle EXCEPT !.pc = "create", !.proc = p] ELSE Idle]
  BY DEF Init, All
<1>2. \A c \in Calls : call[c] = Idle
  BY <1>1 DEF All, ToolApprovalAssumption
<1>3. Idle.tools = {} /\ Idle.resumes = FALSE /\ Idle.pc = "idle" /\ Idle.at = 1
  BY DEF Idle
<1>4. run = "none" /\ \A a \in Requested : executed[a] = 0
  BY DEF Init
<1>5. ToolsAllowed /\ ResumersApart /\ ResumedOnce /\ SomeoneComes
  <2>1. ToolsAllowed
    BY <1>2, <1>3, <1>4 DEF ToolsAllowed, ExecutedWasApproved
  <2>2. ResumersApart /\ ResumedOnce
    <3>1. \A c \in Calls : call[c].resumes = FALSE
      BY <1>2, <1>3
    <3>2. Resuming = {}
      BY <3>1 DEF Resuming
    <3>3. ResumersApart
      BY <3>1 DEF ResumersApart
    <3>4. ResumedOnce
      BY <3>2 DEF ResumedOnce
    <3> QED
      BY <3>3, <3>4
  <2>3. SomeoneComes
    BY <1>4 DEF SomeoneComes, Approved
  <2> QED
    BY <2>1, <2>2, <2>3
<1>6. Looked(Idle)
  BY <1>3 DEF Looked
<1> QED
  BY <1>2, <1>4, <1>5, <1>6 DEF Resumption

\* The inductive invariant of the decisions and of what follows from them.
THEOREM ResumptionHolds == Spec => [](Whole /\ Resumption)
<1>1. Init => Whole /\ Resumption
  BY ToolApprovalAssumption, InitApprovalInv, InitSetup, InitSettlement, InitResumption DEF Whole
<1>2. Whole /\ Resumption /\ [Next]_vars => Whole' /\ Resumption'
  <2> SUFFICES ASSUME Whole, Resumption, [Next]_vars PROVE Whole' /\ Resumption'
    OBVIOUS
  <2>1. Whole'
    BY ToolApprovalAssumption, StepTypedData, StepTypedCalls, StepSetup, StepSettlement DEF Whole, ApprovalInv
  <2>2. ToolsAllowed' /\ ResumersApart' /\ ResumedOnce' /\ SomeoneComes'
    BY ToolApprovalAssumption, StepToolsAllowed, StepResumers, StepSomeoneComes DEF Resumption
  <2>3. \A c \in Calls : Looked(call[c])'
    BY ToolApprovalAssumption, StepLooked DEF Resumption
  <2>4. run' = "completed" => \E i \in 1..Len(Ids') : Denied(Ids[i])'
    BY ToolApprovalAssumption, StepClosed DEF Resumption
  <2> QED
    BY <2>1, <2>2, <2>3, <2>4 DEF Resumption
<1> QED
  BY <1>1, <1>2, PTL DEF Spec

\* A tool call that waits for a human runs only if a call approved that very
\* request: the tools a backend gets were read as approved, and every approved
\* row was written by an approving call (approval_resume.py:278-373).
THEOREM ApprovedBeforeExecution == Spec => []ExecutedWasApproved
<1>1. Resumption => ExecutedWasApproved
  BY DEF Resumption, ToolsAllowed
<1> QED
  BY <1>1, ResumptionHolds, PTL

\* Calls of one process never both settle an approval, since none gives up the
\* event loop between the SELECT and the UPDATE (approval_store.py:115-181).
THEOREM OneDecisionPerProcess == Spec => []DecisionsExclusive
<1>1. Whole => DecisionsExclusive
  BY DEF Whole, Settlement
<1> QED
  BY <1>1, ResumptionHolds, PTL

\* Of the calls of one process that approve the requests of an interruption at
\* most one resumes the run (approval_resume.py:278-373).
THEOREM OneResumePerProcess == Spec => []ResumedOnce
<1>1. Resumption => ResumedOnce
  BY DEF Resumption
<1> QED
  BY <1>1, ResumptionHolds, PTL

\* Whoever approves the last request sees it: with everything approved and
\* nobody at work, some call has resumed the run (approval_resume.py:278-330).
THEOREM LastApproverResumes == Spec => []ResumeNotLost
<1>1. Whole /\ Resumption => ResumeNotLost
  <2> SUFFICES ASSUME Whole, Resumption, Approved, \A c \in Calls : call[c].pc \in {"idle", "done"}
               PROVE  Resuming # {}
    BY DEF ResumeNotLost, Approved
  <2>1. PICK c \in Calls : OnItsWay(call[c])
    BY DEF Resumption, SomeoneComes
  <2>2. call[c].resumes
    BY <2>1 DEF OnItsWay
  <2> QED
    BY <2>1, <2>2 DEF Resuming
<1> QED
  BY <1>1, ResumptionHolds, PTL

\* A closed run is resumed only where two calls settled a request differently:
\* whoever resumes has seen every request settled other than by a rejection,
\* and whoever closed the run has seen a rejection (approval_resume.py:332-345).
THEOREM ClosedRunStaysClosed == Spec => RejectedStaysClosed
<1>1. ASSUME Whole, Resumption, [Next]_vars, run = "completed", run' = "resumed"
      PROVE  \E a \in IdSet : \E c, d \in SettlersOf(a) : call[c].wrote # call[d].wrote
  <2>1. ASSUME NEW c \in Calls, NEW d, Continued(call[c], d) PROVE call[c].resumes
    <3>1. call[c].pc \in {"markFirst", "mark"}
      BY <1>1, <2>1 DEF Continued, Stays
    <3> QED
      BY <1>1, <3>1 DEF Whole, Setup, Fits
  <2>2. PICK c \in Calls : call[c].resumes
    BY <1>1, <2>1, StepKinds, ToolApprovalAssumption DEF Whole, Quiet, CreateApproval, SaveRun, Dies
  <2>3. PICK i \in 1..Len(Ids) : Denied(Ids[i])
    BY <1>1 DEF Resumption
  <2>4. Kept(Ids[i]) /\ Ids[i] \in IdSet
    BY <1>1, <2>2 DEF Resumption, Looked, IdSet
  <2> QED
    BY <2>3, <2>4 DEF Kept, Denied
<1>2. Whole /\ Resumption /\ [Next]_vars
        => [run = "completed" /\ run' = "resumed" =>
              \E a \in IdSet : \E c, d \in SettlersOf(a) : call[c].wrote # call[d].wrote]_vars
  BY <1>1
<1> QED
  BY <1>2, ResumptionHolds, PTL DEF Spec, RejectedStaysClosed

-----------------------------------------------------------------------------
(* How often a tool call runs.                                             *)

\* The call has resumed the run and has nothing left to do for this request.
Spent(e, a) ==
    /\ e.resumes /\ e.op \in {"approve_and_resume", "resume"}
    /\ e.pc \in {"backend", "mark", "done", "dead"} /\ a \notin e.tools
Counted ==
    \A a \in Requested :
        /\ executed[a] > 0 => \E c \in Calls : Spent(call[c], a)
        /\ executed[a] > 1 =>
              \E c, d \in Calls : c # d /\ Spent(call[c], a) /\ Spent(call[d], a)

LEMMA SpentStays ==
    ASSUME ToolApprovalAssumption, Whole, NEW c \in Calls, NEW a, Spent(call[c], a), [Next]_vars
    PROVE  Spent(call'[c], a)
<1>1. PICK e, d : e = call[c] /\ d = call'[c]
  OBVIOUS
<1>2. e \in CallRecs /\ ApprovalInv /\ Spent(e, a)
  BY <1>1 DEF Whole, ApprovalInv, TypedCalls, All, Orderly
<1>3. CASE d = e \/ d = [e EXCEPT !.pc = "dead"]
  BY <1>1, <1>2, <1>3 DEF Spent, CallRecs
<1>4. CASE Begun(e, d)
  BY <1>2, <1>4 DEF Spent, Begun
<1>5. CASE Continued(e, d)
  <2>1. CASE e.pc = "backend"
    <3>1. /\ d.tools \subseteq e.tools /\ d.resumes = e.resumes /\ d.op = e.op
          /\ d.pc \in {"backend", "done", "mark"}
      BY <1>2, <1>5, <2>1, ZenonT(60) DEF Continued, CallRecs
    <3> QED
      BY <1>1, <1>2, <3>1 DEF Spent
  <2>2. CASE e.pc = "mark"
    <3>1. d.tools = e.tools /\ d.resumes = e.resumes /\ d.op = e.op /\ d.pc = "done"
      BY <1>2, <1>5, <2>2 DEF Continued, CallRecs
    <3> QED
      BY <1>1, <1>2, <3>1 DEF Spent
  <2>3. CASE e.pc \in {"done", "dead"}
    BY <1>5, <2>3 DEF Continued
  <2> QED
    BY <1>2, <2>1, <2>2, <2>3 DEF Spent
<1> QED
  BY <1>1, <1>2, <1>3, <1>4, <1>5, CallSteps

\* Who runs a tool call had it to do, and has not any more.
LEMMA ExecutionSteps ==
    ASSUME ToolApprovalAssumption, Whole, [Next]_vars
    PROVE  \/ UNCHANGED executed
           \/ \E c \in Calls : \E b \in Requested :
                 /\ b \in call[c].tools /\ Spent(call'[c], b)
                 /\ executed' = [executed EXCEPT ![b] = @ + 1]
<1>0. ApprovalInv /\ call = [c \in All |-> call[c]] /\ Calls \subseteq All
  BY DEF Whole, ApprovalInv, TypedCalls, All
<1>1. ASSUME NEW c \in Calls, NEW d, Moves(c, d), Continued(call[c], d), ~UNCHANGED executed
      PROVE  \E b \in Requested : /\ b \in call[c].tools /\ Spent(call'[c], b)
                                  /\ executed' = [executed EXCEPT ![b] = @ + 1]
  <2>1. PICK e : e = call[c]
    OBVIOUS
  <2>2. e \in CallRecs /\ Fits(e) /\ call'[c] = d
    BY <1>0, <1>1, <2>1 DEF Whole, Setup, ApprovalInv, TypedCalls, Orderly, Moves
  <2>3. PICK b \in e.tools : /\ e.pc = "backend" /\ d = [e EXCEPT !.tools = e.tools \ {b}]
                             /\ executed' = [executed EXCEPT ![b] = @ + 1]
    BY <1>1, <2>1 DEF Continued, Stays
  <2>4. Spent(d, b) /\ b \in Requested
    BY <2>2, <2>3 DEF Spent, Fits, CallRecs
  <2> QED
    BY <2>1, <2>2, <2>3, <2>4
<1> QED
  BY <1>0, <1>1, StepKinds DEF Quiet, CreateApproval, SaveRun, Dies

LEMMA StepCounted ==
    ASSUME ToolApprovalAssumption, Whole, Counted, [Next]_vars
    PROVE  Counted'
<1>0. executed \in [Requested -> Nat]
  BY DEF Whole, ApprovalInv, TypedData
<1>1. ASSUME NEW a \in Requested, executed'[a] = executed[a]
      PROVE  /\ executed'[a] > 0 => \E c \in Calls : Spent(call'[c], a)
             /\ executed'[a] > 1 =>
                   \E c, d \in Calls : c # d /\ Spent(call'[c], a) /\ Spent(call'[d], a)
  <2>1. \A c \in Calls : Spent(call[c], a) => Spent(call'[c], a)
    BY SpentStays
  <2> QED
    BY <1>1, <2>1 DEF Counted
<1>2. ASSUME NEW c \in Calls, NEW b \in Requested, b \in call[c].tools, Spent(call'[c], b),
             executed' = [executed EXCEPT ![b] = @ + 1], NEW a \in Requested
      PROVE  /\ executed'[a] > 0 => \E v \in Calls : Spent(call'[v], a)
             /\ executed'[a] > 1 =>
                   \E v, w \in Calls : v # w /\ Spent(call'[v], a) /\ Spent(call'[w], a)
  <2>1. CASE a # b
    BY <1>0, <1>1, <1>2, <2>1
  <2>2. CASE a = b /\ executed[a] > 0
    <3>1. PICK v \in Calls : Spent(call[v], a)
      BY <2>2 DEF Counted
    <3>2. v # c /\ Spent(call'[v], a)
      BY <1>2, <2>2, <3>1, SpentStays DEF Spent
    <3> QED
      BY <1>2, <2>2, <3>2
  <2>3. CASE a = b /\ ~(executed[a] > 0)
    <3>1. executed'[a] = 1
      BY <1>0, <1>2, <2>3
    <3> QED
      BY <1>2, <2>3, <3>1
  <2> QED
    BY <2>1, <2>2, <2>3
<1> QED
  BY <1>1, <1>2, ExecutionSteps DEF Counted

\* What was approved is executed once: a second time takes a second call that
\* resumes the run, and of two such calls one is app.resume or they are of
\* different processes (app.py:1268-1392, openai_agents.py:1574-1585).
THEOREM NothingRunsTwice == Spec => []ExecutedOnce
<1>1. Init => Counted
  BY DEF Init, Counted
<1>2. Whole /\ Counted /\ [Next]_vars => Counted'
  BY StepCounted, ToolApprovalAssumption
<1>3. Whole /\ Resumption /\ Counted => ExecutedOnce
  <2> SUFFICES ASSUME Whole, Resumption, Counted, NEW a \in Requested, executed[a] > 1
               PROVE  \E c, d \in Resuming :
                         c # d /\ ("resume" \in {call[c].op, call[d].op} \/ call[c].proc # call[d].proc)
    BY DEF ExecutedOnce
  <2>1. PICK c, d \in Calls : c # d /\ Spent(call[c], a) /\ Spent(call[d], a)
    BY DEF Counted
  <2>2. c \in Resuming /\ d \in Resuming
    BY <2>1 DEF Spent, Resuming
  <2>3. call[c].op \in {"approve_and_resume", "resume"} /\ call[d].op \in {"approve_and_resume", "resume"}
    BY <2>1 DEF Spent
  <2>4. CASE call[c].op = "approve_and_resume" /\ call[d].op = "approve_and_resume"
    BY <2>1, <2>2, <2>4 DEF Resumption, ResumedOnce
  <2> QED
    BY <2>1, <2>2, <2>3, <2>4
<1> QED
  BY <1>1, <1>2, <1>3, ResumptionHolds, PTL DEF Spec
=============================================================================
