------------------------- MODULE AlertReplayProofs -------------------------
(***************************************************************************)
(* The replay of failed deliveries, proved for any number of daemons,      *)
(* run_once calls, items, refusals, slow workers and faults.               *)
(***************************************************************************)
EXTENDS AlertReplay, FiniteSetTheorems, TLAPS

Rows == [status : ItemStatuses, by : Daemons \cup {NoOne}, lapsed : BOOLEAN]
Locks == [owner : Daemons \cup {"default", NoOne}, lapsed : BOOLEAN]
Procs == [pc : Places, leads : BOOLEAN, dry : BOOLEAN, found : SUBSET Items,
          todo : SUBSET Items, item : Items \cup {NoItem}, outcome : Outcomes \cup {"none"}]

TypedRows ==
    /\ queue \in [Items -> Rows]
    /\ \A i \in Items : queue[i].lapsed => queue[i].status = "claimed"
    /\ record \in [Items -> {"none", "started", "completed", "failed"}]
    /\ lock \in Locks

TypedHistory ==
    /\ delivered \in [Items -> Nat]
    /\ resets \in [Items -> Nat]
    /\ rehearsed \subseteq Items
    /\ refusals \in 0..MaxRefusals /\ slow \in 0..MaxSlow /\ faults \in 0..MaxFaults
    /\ lockLapsed \in BOOLEAN

\* Places where a worker has an item in hand, and where it has its outcome.
Judged == {"record", "select", "update"}
InHand == Judged \cup {"deliver"}
InRun == InHand \cup {"reset", "restore", "claim", "work"}

\* What a worker holds fits where it is.
Orderly(w, p) ==
    /\ p \in Procs
    /\ p.pc = "work" => p.item = NoItem
    /\ p.pc \in InHand => p.item \in Items \ p.todo
    /\ p.pc \notin InHand \cup {"work"} => p.item = NoItem /\ p.todo = {}
    /\ p.pc \in Judged => p.outcome \in Outcomes
    /\ p.pc \in {"lead", "renew"} => w \in Daemons
    /\ p.pc \in {"lead", "renew", "release", "delete"} => p.leads
    /\ w \in Daemons /\ p.pc \in InRun => p.leads

TypedProcs ==
    /\ proc = [w \in Workers |-> proc[w]]
    /\ \A w \in Workers : Orderly(w, proc[w])

ReplayInv == TypedRows /\ TypedHistory /\ TypedProcs

LEMMA BoundsAreNat ==
    ASSUME ReplayAssumption PROVE MaxRefusals \in Nat /\ MaxSlow \in Nat /\ MaxFaults \in Nat
BY DEF ReplayAssumption

LEMMA LockRowType ==
    /\ LockRow(NoOne) \in Locks
    /\ \A w \in Workers : LockRow(Owner(w)) \in Locks
BY DEF Owner, LockRow, Locks

-----------------------------------------------------------------------------
LEMMA OffIsOrderly == ASSUME NEW w \in Workers PROVE Orderly(w, Off)
BY DEF Orderly, Procs, Off, Places, Outcomes, InHand, InRun, Judged

LEMMA InitReplayInv == ASSUME ReplayAssumption, Init PROVE ReplayInv
<1>1. TypedRows
  BY DEF ReplayAssumption, Init, TypedRows, Rows, Locks, Row, LockRow, ItemStatuses, Waiting
<1>2. TypedHistory
  <2>1. lockLapsed \in BOOLEAN
    BY DEF Init
  <2>2. refusals \in 0..MaxRefusals /\ slow \in 0..MaxSlow /\ faults \in 0..MaxFaults
    BY BoundsAreNat DEF Init
  <2> QED
    BY <2>1, <2>2 DEF Init, TypedHistory
<1>3. TypedProcs
  BY OffIsOrderly DEF Init, TypedProcs
<1> QED
  BY <1>1, <1>2, <1>3 DEF ReplayInv

(* A step that gives worker w the orderly record p leaves all in order.    *)
LEMMA Moved ==
    ASSUME NEW w \in Workers, NEW p, TypedProcs, Orderly(w, p),
           proc' = [proc EXCEPT ![w] = p]
    PROVE  TypedProcs'
<1>1. proc' = [v \in Workers |-> proc'[v]]
  BY DEF TypedProcs
<1>2. ASSUME NEW v \in Workers PROVE Orderly(v, proc'[v])
  <2>1. CASE v = w
    BY <2>1 DEF TypedProcs
  <2>2. CASE v # w
    BY <2>2 DEF TypedProcs
  <2> QED
    BY <2>1, <2>2
<1> QED
  BY <1>1, <1>2 DEF TypedProcs

LEMMA GotoStep ==
    ASSUME NEW w \in Workers, NEW place \in Places, TypedProcs, Goto(w, place),
           Orderly(w, [proc[w] EXCEPT !.pc = place])
    PROVE  TypedProcs'
BY Moved DEF Goto

LEMMA StepRows ==
    ASSUME ReplayAssumption, ReplayInv, [Next]_vars
    PROVE  TypedRows'
<1> USE DEF ReplayInv, TypedRows, Rows, Row, ItemStatuses, Waiting, histVars
<1>1. CASE UNCHANGED vars
  BY <1>1 DEF vars
<1>2. ASSUME NEW w \in Workers,
             Start(w) \/ ReadLock(w) \/ LeaderGoesOn(w) \/ Interrupt(w) \/ ReadForRelease(w)
             \/ FindLapsed(w) \/ Deliver(w) \/ SelectItem(w) \/ Fault(w)
      PROVE  TypedRows'
  BY <1>2 DEF Start, ReadLock, LeaderGoesOn, Interrupt, ReadForRelease, FindLapsed, Deliver, SelectItem, Fault
<1>3. ASSUME NEW w \in Workers, InsertLock(w) \/ TakeLockOver(w) \/ RenewLock(w) \/ DeleteLock(w)
      PROVE  TypedRows'
  <2>1. lock' \in Locks
    <3>1. CASE lock' = lock \/ lock' = LockRow(Owner(w)) \/ lock' = LockRow(NoOne)
      BY <3>1, LockRowType DEF TypedRows
    <3>2. CASE lock' = [lock EXCEPT !.lapsed = FALSE]
      BY <3>2 DEF Locks
    <3>3. \/ lock' = lock \/ lock' = LockRow(Owner(w)) \/ lock' = LockRow(NoOne)
          \/ lock' = [lock EXCEPT !.lapsed = FALSE]
      BY <1>3 DEF InsertLock, TakeLockOver, RenewLock, DeleteLock
    <3> QED
      BY <3>1, <3>2, <3>3
  <2> QED
    BY <1>3, <2>1 DEF InsertLock, TakeLockOver, RenewLock, DeleteLock
<1>4. ASSUME NEW w \in Workers, ResetLapsed(w) PROVE TypedRows'
  BY <1>4 DEF ResetLapsed
<1>5. ASSUME NEW w \in Workers, Claim(w) PROVE TypedRows'
  BY <1>5 DEF Claim, Claimant
<1>6. ASSUME NEW w \in Workers, Work(w) PROVE TypedRows'
  BY <1>6 DEF Work, EndRun, TakeUnknown, Rehearse, RateLimited, BeginReplay
<1>7. ASSUME NEW w \in Workers, WriteRecord(w) PROVE TypedRows'
  BY <1>7 DEF WriteRecord
<1>8. ASSUME NEW w \in Workers, UpdateItem(w) PROVE TypedRows'
  <2>1. proc[w].outcome \in ItemStatuses
    BY <1>8 DEF UpdateItem, At, TypedProcs, Orderly, Judged, Outcomes
  <2> QED
    BY <1>8, <2>1 DEF UpdateItem, Settled
<1>9. ASSUME NEW i \in Items, ClaimLapses(i) PROVE TypedRows'
  BY <1>9 DEF ClaimLapses
<1>10. ASSUME NEW i \in Items, Prune(i) PROVE TypedRows'
  BY <1>10 DEF Prune
<1>11. ASSUME LockLapses PROVE TypedRows'
  BY <1>11 DEF LockLapses, Locks
<1> QED
  BY <1>1, <1>2, <1>3, <1>4, <1>5, <1>6, <1>7, <1>8, <1>9, <1>10, <1>11 DEF Next, Step

LEMMA StepHistory ==
    ASSUME ReplayAssumption, ReplayInv, [Next]_vars
    PROVE  TypedHistory'
<1> USE BoundsAreNat DEF ReplayInv, TypedHistory, histVars
<1>1. CASE UNCHANGED vars
  BY <1>1 DEF vars
<1>2. ASSUME NEW w \in Workers, 
             Start(w) \/ ReadLock(w) \/ InsertLock(w) \/ TakeLockOver(w) \/ LeaderGoesOn(w)
             \/ RenewLock(w) \/ ReadForRelease(w) \/ DeleteLock(w) \/ FindLapsed(w) \/ Claim(w)
             \/ WriteRecord(w) \/ SelectItem(w) \/ UpdateItem(w)
      PROVE  TypedHistory'
  BY <1>2 DEF Start, ReadLock, InsertLock, TakeLockOver, LeaderGoesOn, RenewLock, ReadForRelease,
     DeleteLock, FindLapsed, Claim, WriteRecord, SelectItem, UpdateItem
<1>3. ASSUME NEW w \in Workers, Interrupt(w) \/ Fault(w) PROVE TypedHistory'
  BY <1>3 DEF Interrupt, Fault
<1>4. ASSUME NEW w \in Workers, ResetLapsed(w) PROVE TypedHistory'
  BY <1>4 DEF ResetLapsed
<1>5. ASSUME NEW w \in Workers, Work(w) PROVE TypedHistory'
  BY <1>5 DEF Work, EndRun, TakeUnknown, Rehearse, RateLimited, BeginReplay, TypedProcs, Orderly, Procs
<1>6. ASSUME NEW w \in Workers, Deliver(w) PROVE TypedHistory'
  <2>1. PICK o \in Outcomes :
           /\ refusals' = IF o = "requeued" THEN refusals + 1 ELSE refusals
           /\ o = "requeued" => refusals < MaxRefusals
    BY <1>6 DEF Deliver
  <2>2. refusals' \in 0..MaxRefusals
    <3>1. CASE o = "requeued"
      BY <2>1, <3>1
    <3>2. CASE o # "requeued"
      BY <2>1, <3>2
    <3> QED
      BY <3>1, <3>2
  <2>3. delivered' = delivered \/ delivered' = [delivered EXCEPT ![proc[w].item] = @ + 1]
    BY <1>6 DEF Deliver
  <2>4. delivered' \in [Items -> Nat]
    BY <2>3
  <2> QED
    BY <1>6, <2>2, <2>4 DEF Deliver
<1>7. ASSUME NEW i \in Items, ClaimLapses(i) \/ Prune(i) PROVE TypedHistory'
  BY <1>7 DEF ClaimLapses, Prune
<1>8. ASSUME LockLapses PROVE TypedHistory'
  BY <1>8 DEF LockLapses
<1> QED
  BY <1>1, <1>2, <1>3, <1>4, <1>5, <1>6, <1>7, <1>8 DEF Next, Step

LEMMA StepProcs ==
    ASSUME ReplayAssumption, ReplayInv, [Next]_vars
    PROVE  TypedProcs'
<1> USE DEF ReplayInv
<1>0. ASSUME NEW w \in Workers PROVE Orderly(w, proc[w]) /\ proc[w] \in Procs
  BY DEF TypedProcs, Orderly
<1>1. CASE UNCHANGED vars
  BY <1>1 DEF vars, TypedProcs
<1>2. ASSUME NEW w \in Workers, Start(w) PROVE TypedProcs'
  <2>1. PICK d \in BOOLEAN : proc' = [proc EXCEPT ![w] = [Off EXCEPT !.pc = "acquire", !.dry = d]]
    BY <1>2 DEF Start
  <2>2. Orderly(w, [Off EXCEPT !.pc = "acquire", !.dry = d])
    BY DEF Orderly, Procs, Off, Places, Outcomes, InHand, InRun, Judged
  <2> QED
    BY <2>1, <2>2, Moved
<1>3. ASSUME NEW w \in Workers, ReadLock(w) PROVE TypedProcs'
  <2>1. PICK place \in {"insert", "takeover", "off", "reset"} :
           Goto(w, place) /\ (place = "reset" => w \in Shots)
    BY <1>3 DEF ReadLock
  <2>2. Orderly(w, [proc[w] EXCEPT !.pc = place])
    BY <1>0, <1>3, <2>1 DEF ReadLock, At, Orderly, Procs, Places, InHand, InRun, Judged, ReplayAssumption
  <2> QED
    BY <2>1, <2>2, GotoStep DEF Places
<1>4. ASSUME NEW w \in Workers, Lead(w), At(w, "insert") \/ At(w, "takeover") PROVE TypedProcs'
  <2> DEFINE p == [proc[w] EXCEPT !.leads = TRUE, !.pc = IF w \in Daemons THEN "lead" ELSE "reset"]
  <2>1. proc' = [proc EXCEPT ![w] = p]
    BY <1>4 DEF Lead
  <2>2. Orderly(w, p)
    BY <1>0, <1>4, ZenonT(60) DEF At, Orderly, Procs, Places, InHand, InRun, Judged
  <2> QED
    BY <2>1, <2>2, Moved
<1>5. ASSUME NEW w \in Workers, InsertLock(w) PROVE TypedProcs'
  <2>1. CASE MayInsert
    BY <1>4, <1>5, <2>1 DEF InsertLock
  <2>2. CASE ~MayInsert
    <3>1. PICK place \in {"acquire", "reset"} : Goto(w, place) /\ (place = "reset" => w \notin Daemons)
      BY <1>5, <2>2 DEF InsertLock
    <3>2. Orderly(w, [proc[w] EXCEPT !.pc = place])
      BY <1>0, <1>5, <3>1 DEF InsertLock, At, Orderly, Procs, Places, InHand, InRun, Judged
    <3> QED
      BY <3>1, <3>2, GotoStep DEF Places
  <2> QED
    BY <2>1, <2>2
<1>6. ASSUME NEW w \in Workers, TakeLockOver(w) PROVE TypedProcs'
  BY <1>4, <1>6 DEF TakeLockOver
<1>7. ASSUME NEW w \in Workers, LeaderGoesOn(w) \/ RenewLock(w) \/ Interrupt(w) PROVE TypedProcs'
  <2>1. CASE \E place \in {"reset", "renew", "release"} : Goto(w, place)
    <3>1. PICK place \in {"reset", "renew", "release"} : Goto(w, place)
      BY <2>1
    <3>2. Orderly(w, [proc[w] EXCEPT !.pc = place])
      BY <1>0, <1>7, <3>1 DEF LeaderGoesOn, RenewLock, Interrupt, At, Orderly, Procs, Places, InHand, InRun, Judged
    <3> QED
      BY <3>1, <3>2, GotoStep DEF Places
  <2>2. CASE proc' = [proc EXCEPT ![w] = [Off EXCEPT !.pc = "acquire"]]
    <3>1. Orderly(w, [Off EXCEPT !.pc = "acquire"])
      BY DEF Orderly, Procs, Off, Places, Outcomes, InHand, InRun, Judged
    <3> QED
      BY <2>2, <3>1, Moved
  <2> QED
    BY <1>7, <2>1, <2>2 DEF LeaderGoesOn, RenewLock, Interrupt
<1>8. ASSUME NEW w \in Workers, Released(w) PROVE TypedProcs'
  <2>1. PICK place \in {"off", "acquire"} : proc' = [proc EXCEPT ![w] = [Off EXCEPT !.pc = place]]
    BY <1>8 DEF Released
  <2>2. Orderly(w, [Off EXCEPT !.pc = place])
    BY DEF Orderly, Procs, Off, Places, Outcomes, InHand, InRun, Judged
  <2> QED
    BY <2>1, <2>2, Moved
<1>9. ASSUME NEW w \in Workers, ReadForRelease(w) \/ DeleteLock(w) PROVE TypedProcs'
  <2>1. CASE Released(w)
    BY <1>8, <2>1
  <2>2. CASE At(w, "release") /\ Goto(w, "delete")
    <3>1. Orderly(w, [proc[w] EXCEPT !.pc = "delete"])
      BY <1>0, <2>2 DEF At, Orderly, Procs, Places, InHand, InRun, Judged
    <3> QED
      BY <2>2, <3>1, GotoStep DEF Places
  <2> QED
    BY <1>9, <2>1, <2>2 DEF ReadForRelease, DeleteLock
<1>10. ASSUME NEW w \in Workers, NEW S \in SUBSET Items, NEW place \in {"claim", "restore"},
             At(w, "reset") \/ At(w, "restore"),
             proc' = [proc EXCEPT ![w].found = S, ![w].pc = place]
      PROVE  TypedProcs'
  <2>1. Orderly(w, [proc[w] EXCEPT !.found = S, !.pc = place])
    BY <1>0, <1>10, ZenonT(60) DEF At, Orderly, Procs, Places, InHand, InRun, Judged
  <2> QED
    BY <1>10, <2>1, Moved
<1>11. ASSUME NEW w \in Workers, FindLapsed(w) PROVE TypedProcs'
  BY <1>10, <1>11 DEF FindLapsed
<1>12. ASSUME NEW w \in Workers, ResetLapsed(w) PROVE TypedProcs'
  BY <1>10, <1>12 DEF ResetLapsed
<1>13. ASSUME NEW w \in Workers, Claim(w) PROVE TypedProcs'
  <2>1. PICK S \in SUBSET Items : proc' = [proc EXCEPT ![w].todo = S, ![w].pc = "work"]
    BY <1>13 DEF Claim, Claimable
  <2>2. Orderly(w, [proc[w] EXCEPT !.todo = S, !.pc = "work"])
    <3>1. proc[w].pc = "claim"
      BY <1>13 DEF Claim, At
    <3> QED
      BY <1>0, <3>1, ZenonT(60) DEF Orderly, Procs, Places, InHand, InRun, Judged
  <2> QED
    BY <2>1, <2>2, Moved
<1>14. ASSUME NEW w \in Workers, Work(w) PROVE TypedProcs'
  <2>1. CASE EndRun(w)
    <3>1. PICK place \in {"lead", "release", "off"} :
             /\ Goto(w, place)
             /\ place = "lead" => w \in Daemons
             /\ place = "release" => proc[w].leads
      BY <2>1 DEF EndRun
    <3>2. Orderly(w, [proc[w] EXCEPT !.pc = place])
      BY <1>0, <1>14, <2>1, <3>1 DEF Work, EndRun, At, Orderly, Procs, Places, InHand, InRun, Judged
    <3> QED
      BY <3>1, <3>2, GotoStep DEF Places
  <2>2. CASE ~EndRun(w)
    <3>1. PICK i \in proc[w].todo, place \in {"select", "deliver"}, o \in Outcomes \cup {"none"} :
             Take(w, i, place, o) /\ (place = "select" => o \in Outcomes)
      BY <1>14, <2>2 DEF Work, TakeUnknown, Rehearse, RateLimited, BeginReplay, Outcomes
    <3> DEFINE p == [proc[w] EXCEPT !.pc = place, !.todo = @ \ {i}, !.item = i, !.outcome = o]
    <3>2. proc' = [proc EXCEPT ![w] = p]
      BY <3>1 DEF Take
    <3>3. p \in Procs /\ p.pc = place /\ p.todo = proc[w].todo \ {i} /\ p.item = i /\ p.outcome = o
          /\ p.leads = proc[w].leads
      BY <1>0, <3>1, ZenonT(60) DEF Orderly, Procs, Places
    <3>4. i \in Items /\ (w \in Daemons => proc[w].leads)
      BY <1>0, <1>14, <3>1 DEF Work, At, Orderly, Procs, InRun
    <3>5. Orderly(w, p)
      <4> HIDE DEF p
      <4> QED
        BY <3>1, <3>3, <3>4 DEF Orderly, InHand, InRun, Judged
    <3> QED
      BY <3>2, <3>5, Moved
  <2> QED
    BY <2>1, <2>2
<1>15. ASSUME NEW w \in Workers, Deliver(w) PROVE TypedProcs'
  <2>1. PICK o \in Outcomes : proc' = [proc EXCEPT ![w].outcome = o, ![w].pc = "record"]
    BY <1>15 DEF Deliver
  <2>2. PICK q : q = [proc[w] EXCEPT !.outcome = o, !.pc = "record"]
    OBVIOUS
  <2>3. proc[w].pc = "deliver" /\ Orderly(w, proc[w]) /\ proc[w] \in Procs
    BY <1>0, <1>15 DEF Deliver, At, Orderly
  <2>4. /\ q \in Procs /\ q.pc = "record" /\ q.outcome = o
        /\ q.item = proc[w].item /\ q.todo = proc[w].todo /\ q.leads = proc[w].leads
    BY <2>2, <2>3 DEF Procs, Places
  <2>5. Orderly(w, q)
    BY <2>3, <2>4 DEF Orderly, InHand, InRun, Judged
  <2> QED
    BY <2>1, <2>2, <2>5, Moved
<1>16. ASSUME NEW w \in Workers, WriteRecord(w) PROVE TypedProcs'
  <2>1. Orderly(w, [proc[w] EXCEPT !.pc = "select"])
    BY <1>0, <1>16 DEF WriteRecord, At, Orderly, Procs, Places, InHand, InRun, Judged
  <2> QED
    BY <1>16, <2>1, GotoStep DEF WriteRecord, Places
<1>17. ASSUME NEW w \in Workers, NextItem(w), proc[w].item # NoItem PROVE TypedProcs'
  <2>1. Orderly(w, [proc[w] EXCEPT !.pc = "work", !.item = NoItem, !.outcome = "none"])
    BY <1>0, <1>17, ZenonT(60) DEF Orderly, Procs, Places, InHand, InRun, Judged
  <2> QED
    BY <1>17, <2>1, Moved DEF NextItem
<1>18. ASSUME NEW w \in Workers, SelectItem(w) \/ UpdateItem(w) PROVE TypedProcs'
  <2>1. proc[w].item # NoItem
    BY <1>0, <1>18 DEF SelectItem, UpdateItem, At, Orderly, InHand, Judged, ReplayAssumption
  <2>2. CASE At(w, "select") /\ Goto(w, "update")
    <3>1. Orderly(w, [proc[w] EXCEPT !.pc = "update"])
      BY <1>0, <2>2 DEF At, Orderly, Procs, Places, InHand, InRun, Judged
    <3> QED
      BY <2>2, <3>1, GotoStep DEF Places
  <2> QED
    BY <1>17, <1>18, <2>1, <2>2 DEF SelectItem, UpdateItem
<1>19. ASSUME NEW w \in Workers, Fault(w) PROVE TypedProcs'
  <2>1. CASE proc' = [proc EXCEPT ![w] = Off]
    BY <2>1, OffIsOrderly, Moved
  <2> QED
    BY <1>17, <1>19, <2>1 DEF Fault
<1>20. ASSUME UNCHANGED proc PROVE TypedProcs'
  BY <1>20 DEF TypedProcs
<1>21. ASSUME LockLapses \/ \E i \in Items : ClaimLapses(i) \/ Prune(i) PROVE TypedProcs'
  BY <1>20, <1>21 DEF LockLapses, ClaimLapses, Prune
<1> QED
  BY <1>1, <1>2, <1>3, <1>5, <1>6, <1>7, <1>9, <1>11, <1>12, <1>13, <1>14, <1>15, <1>16, <1>18,
     <1>19, <1>21 DEF Next, Step

\* The inductive invariant of the types: every row, record and process keeps its
\* type through every step of the daemon.
THEOREM ReplayInvHolds == ASSUME ReplayAssumption PROVE Spec => []ReplayInv
<1>1. ReplayInv /\ [Next]_vars => ReplayInv'
  BY StepRows, StepHistory, StepProcs DEF ReplayInv
<1> QED
  BY InitReplayInv, <1>1, PTL DEF Spec

\* Types hold in every reachable state: no step sends a row, a record, the lock
\* or a process anywhere that the code has no name for.
THEOREM ReplayTypeCorrect == Spec => []AlertReplayTypeOK
<1>1. ReplayInv => AlertReplayTypeOK
  BY DEF ReplayInv, TypedRows, TypedHistory, TypedProcs, Orderly, Rows, Locks, Procs, AlertReplayTypeOK
<1> QED
  BY <1>1, ReplayInvHolds, ReplayAssumption, PTL

-----------------------------------------------------------------------------
(* What counts as completed was delivered: the records say so, and so does *)
(* the outcome a worker has in hand.                                       *)
Done(i) == delivered[i] > 0
DoneOrRehearsed(i) == Done(i) \/ i \in rehearsed

DeliveredInv ==
    /\ \A i \in Items : record[i] = "completed" => Done(i)
    /\ \A i \in Items : queue[i].status = "completed" => DoneOrRehearsed(i)
    /\ \A w \in Workers : proc[w].pc = "record" /\ proc[w].outcome = "completed" => Done(proc[w].item)
    /\ \A w \in Workers : proc[w].pc \in {"select", "update"} /\ proc[w].outcome = "completed"
                            => DoneOrRehearsed(proc[w].item)

LEMMA HistoryGrows ==
    ASSUME ReplayInv, [Next]_vars
    PROVE  \A i \in Items : (Done(i) => Done(i)') /\ (DoneOrRehearsed(i) => DoneOrRehearsed(i)')
<1> USE DEF Done, DoneOrRehearsed, histVars
<1>1. CASE UNCHANGED <<delivered, rehearsed>>
  BY <1>1
<1>2. ASSUME NEW w \in Workers, Work(w)
      PROVE  UNCHANGED delivered /\ rehearsed \subseteq rehearsed'
  BY <1>2 DEF Work, EndRun, TakeUnknown, Rehearse, RateLimited, BeginReplay
<1>3. ASSUME NEW w \in Workers, Deliver(w)
      PROVE  /\ UNCHANGED rehearsed
             /\ delivered' = delivered \/ delivered' = [delivered EXCEPT ![proc[w].item] = @ + 1]
  BY <1>3 DEF Deliver
<1>4. CASE \E w \in Workers : Work(w)
  BY <1>2, <1>4
<1>5. CASE \E w \in Workers : Deliver(w)
  BY <1>3, <1>5 DEF ReplayInv, TypedHistory
<1>6. CASE \/ UNCHANGED vars \/ LockLapses
           \/ \E i \in Items : ClaimLapses(i) \/ Prune(i)
           \/ \E w \in Workers :
                 Start(w) \/ ReadLock(w) \/ InsertLock(w) \/ TakeLockOver(w) \/ LeaderGoesOn(w)
                 \/ RenewLock(w) \/ ReadForRelease(w) \/ DeleteLock(w) \/ FindLapsed(w) \/ ResetLapsed(w)
                 \/ Claim(w) \/ WriteRecord(w) \/ SelectItem(w) \/ UpdateItem(w) \/ Interrupt(w) \/ Fault(w)
  BY <1>1, <1>6 DEF vars, Start, ReadLock, InsertLock, TakeLockOver, LeaderGoesOn, RenewLock, ReadForRelease,
     DeleteLock, FindLapsed, ResetLapsed, Claim, WriteRecord, SelectItem, UpdateItem, Interrupt, Fault,
     LockLapses, ClaimLapses, Prune
<1> QED
  BY <1>4, <1>5, <1>6 DEF Next, Step

(* A worker does not move the others.                                      *)
LEMMA OthersStay ==
    ASSUME ReplayInv, NEW v \in Workers, NEW w \in Workers, v # w,
           Start(v) \/ Step(v) \/ Interrupt(v) \/ Fault(v)
    PROVE  proc'[w] = proc[w]
<1>0. proc \in [Workers -> Procs]
  BY DEF ReplayInv, TypedProcs, Orderly
<1> USE <1>0 DEF Goto, NextItem
<1>1. CASE Start(v)
  BY <1>1 DEF Start
<1>2. CASE ReadLock(v) \/ InsertLock(v) \/ TakeLockOver(v)
  BY <1>2 DEF ReadLock, InsertLock, TakeLockOver, Lead
<1>3. CASE LeaderGoesOn(v) \/ RenewLock(v) \/ Interrupt(v)
  BY <1>3 DEF LeaderGoesOn, RenewLock, Interrupt
<1>4. CASE ReadForRelease(v) \/ DeleteLock(v)
  BY <1>4 DEF ReadForRelease, DeleteLock, Released
<1>5. CASE FindLapsed(v) \/ ResetLapsed(v) \/ Claim(v)
  BY <1>5 DEF FindLapsed, ResetLapsed, Claim
<1>6. CASE Work(v)
  BY <1>6 DEF Work, EndRun, TakeUnknown, Rehearse, RateLimited, BeginReplay, Take
<1>7. CASE Deliver(v) \/ WriteRecord(v) \/ SelectItem(v) \/ UpdateItem(v)
  BY <1>7 DEF Deliver, WriteRecord, SelectItem, UpdateItem
<1>8. CASE Fault(v)
  BY <1>8 DEF Fault
<1> QED
  BY <1>1, <1>2, <1>3, <1>4, <1>5, <1>6, <1>7, <1>8 DEF Step

LEMMA StepRecordDelivered ==
    ASSUME ReplayInv, DeliveredInv, [Next]_vars
    PROVE  \A i \in Items : record'[i] = "completed" => Done(i)'
<1>1. CASE UNCHANGED record
  BY <1>1, HistoryGrows DEF DeliveredInv
<1>2. ASSUME NEW w \in Workers, WriteRecord(w), NEW i \in Items, record'[i] = "completed"
      PROVE  Done(i)
  BY <1>2 DEF WriteRecord, At, DeliveredInv, ReplayInv, TypedRows
<1>3. ASSUME NEW w \in Workers, NEW j \in Items, BeginReplay(w, j) \/ Prune(j)
      PROVE  \A i \in Items : record'[i] = "completed" => record[i] = "completed"
  BY <1>3 DEF BeginReplay, Prune, ReplayInv, TypedRows
<1>4. CASE \/ UNCHANGED vars \/ LockLapses
           \/ \E i \in Items : ClaimLapses(i)
           \/ \E w \in Workers :
                 Start(w) \/ ReadLock(w) \/ InsertLock(w) \/ TakeLockOver(w) \/ LeaderGoesOn(w)
                 \/ RenewLock(w) \/ ReadForRelease(w) \/ DeleteLock(w) \/ FindLapsed(w) \/ ResetLapsed(w)
                 \/ Claim(w) \/ Deliver(w) \/ SelectItem(w) \/ UpdateItem(w) \/ Interrupt(w) \/ Fault(w)
  BY <1>1, <1>4 DEF vars, Start, ReadLock, InsertLock, TakeLockOver, LeaderGoesOn, RenewLock, ReadForRelease,
     DeleteLock, FindLapsed, ResetLapsed, Claim, Deliver, SelectItem, UpdateItem, Interrupt, Fault,
     LockLapses, ClaimLapses
<1>5. CASE \E w \in Workers : Work(w)
  <2>1. PICK w \in Workers : Work(w)
    BY <1>5
  <2>2. UNCHANGED record \/ \E j \in proc[w].todo : BeginReplay(w, j)
    BY <2>1 DEF Work, EndRun, TakeUnknown, Rehearse, RateLimited
  <2>3. proc[w].todo \subseteq Items
    BY DEF ReplayInv, TypedProcs, Orderly, Procs
  <2> QED
    BY <1>1, <1>3, <2>2, <2>3, HistoryGrows DEF DeliveredInv
<1>6. CASE \E w \in Workers : WriteRecord(w)
  BY <1>2, <1>6, HistoryGrows
<1>7. CASE \E i \in Items : Prune(i)
  <2>1. PICK j \in Items : Prune(j)
    BY <1>7
  <2>2. \A i \in Items : record'[i] = "completed" => record[i] = "completed"
    BY <2>1 DEF Prune, ReplayInv, TypedRows
  <2> QED
    BY <2>2, HistoryGrows DEF DeliveredInv
<1> QED
  BY <1>4, <1>5, <1>6, <1>7 DEF Next, Step

\* What a worker knows of the item whose outcome it is about to write.
Truthful(w) ==
    /\ proc[w].pc = "record" /\ proc[w].outcome = "completed" => Done(proc[w].item)
    /\ proc[w].pc \in {"select", "update"} /\ proc[w].outcome = "completed"
         => DoneOrRehearsed(proc[w].item)

LEMMA StepTruthful ==
    ASSUME ReplayInv, DeliveredInv, NEW w \in Workers, [Next]_vars
    PROVE  Truthful(w)'
<1>0. Orderly(w, proc[w]) /\ proc[w] \in Procs /\ proc \in [Workers -> Procs]
  BY DEF ReplayInv, TypedProcs, Orderly
<1>1. Truthful(w)
  BY DEF DeliveredInv, Truthful
<1>2. CASE proc'[w] = proc[w]
  BY <1>0, <1>1, <1>2, HistoryGrows DEF Truthful, Orderly, InHand, Judged
<1>3. CASE proc'[w].pc \notin Judged
  BY <1>3 DEF Truthful, Judged
<1>4. CASE Work(w)
  <2>1. ASSUME NEW i \in proc[w].todo, TakeUnknown(w, i) \/ RateLimited(w, i) PROVE Truthful(w)'
    BY <1>0, <2>1 DEF TakeUnknown, RateLimited, Take, Truthful, Procs
  <2>2. ASSUME NEW i \in proc[w].todo, Rehearse(w, i) PROVE Truthful(w)'
    BY <1>0, <2>2 DEF Rehearse, Take, Truthful, Procs, DoneOrRehearsed
  <2>3. ASSUME NEW i \in proc[w].todo, BeginReplay(w, i) PROVE Truthful(w)'
    BY <1>0, <2>3, HistoryGrows DEF BeginReplay, Stops, Take, Truthful, Procs, DeliveredInv, DoneOrRehearsed, Done, histVars
  <2>4. ASSUME EndRun(w) PROVE Truthful(w)'
    BY <1>0, <1>3, <2>4 DEF EndRun, Goto, Procs, Judged
  <2> QED
    BY <1>4, <2>1, <2>2, <2>3, <2>4 DEF Work
<1>5. CASE Deliver(w)
  <2>1. /\ proc'[w].pc = "record" /\ proc'[w].item = proc[w].item
        /\ proc'[w].outcome = "completed" => delivered' = [delivered EXCEPT ![proc[w].item] = @ + 1]
    BY <1>0, <1>5 DEF Deliver, Procs
  <2>2. proc[w].item \in Items
    BY <1>0, <1>5 DEF Deliver, At, Orderly, InHand
  <2> QED
    BY <2>1, <2>2 DEF Truthful, Done, ReplayInv, TypedHistory
<1>6. CASE WriteRecord(w) \/ SelectItem(w)
  <2>1. \/ proc'[w].pc \notin Judged
        \/ /\ proc'[w].pc # "record" /\ proc[w].pc \in Judged
           /\ proc'[w].item = proc[w].item /\ proc'[w].outcome = proc[w].outcome
    BY <1>0, <1>6 DEF WriteRecord, SelectItem, Goto, NextItem, At, Judged, Procs
  <2>2. proc[w].pc \in Judged => proc[w].item \in Items
    BY <1>0 DEF Orderly, InHand
  <2> QED
    BY <1>1, <1>3, <2>1, <2>2, HistoryGrows DEF Truthful, Judged, DoneOrRehearsed
<1>7. CASE \/ Start(w) \/ ReadLock(w) \/ InsertLock(w) \/ TakeLockOver(w) \/ LeaderGoesOn(w)
           \/ RenewLock(w) \/ ReadForRelease(w) \/ DeleteLock(w) \/ FindLapsed(w) \/ ResetLapsed(w)
           \/ Claim(w) \/ UpdateItem(w) \/ Interrupt(w)
  <2> USE <1>0 DEF Goto, Off, Judged, Procs
  <2>0. CASE Start(w)
    BY <1>3, <2>0 DEF Start
  <2>1. CASE ReadLock(w) \/ InsertLock(w) \/ TakeLockOver(w)
    <3>1. CASE Lead(w)
      BY <1>3, <3>1 DEF Lead
    <3>2. CASE \E place \in Places \ Judged : Goto(w, place)
      BY <1>3, <3>2
    <3> QED
      BY <2>1, <3>1, <3>2 DEF ReadLock, InsertLock, TakeLockOver, Places
  <2>2. CASE LeaderGoesOn(w) \/ RenewLock(w) \/ Interrupt(w)
    BY <1>3, <2>2 DEF LeaderGoesOn, RenewLock, Interrupt
  <2>3. CASE ReadForRelease(w) \/ DeleteLock(w)
    BY <1>3, <2>3 DEF ReadForRelease, DeleteLock, Released
  <2>4. CASE FindLapsed(w) \/ ResetLapsed(w)
    BY <1>3, <2>4 DEF FindLapsed, ResetLapsed
  <2>5. CASE Claim(w)
    BY <1>3, <2>5 DEF Claim
  <2>6. CASE UpdateItem(w)
    BY <1>3, <2>6 DEF UpdateItem, NextItem
  <2> QED
    BY <1>7, <2>0, <2>1, <2>2, <2>3, <2>4, <2>5, <2>6
<1>8. CASE Fault(w)
  <2>1. proc'[w].pc \notin Judged
    BY <1>0, <1>8 DEF Fault, NextItem, Off, Judged, Procs
  <2> QED
    BY <1>3, <2>1
<1>9. CASE \/ UNCHANGED vars \/ LockLapses \/ \E i \in Items : ClaimLapses(i) \/ Prune(i)
  BY <1>2, <1>9 DEF vars, LockLapses, ClaimLapses, Prune
<1>10. ASSUME NEW v \in Workers, v # w, Start(v) \/ Step(v) \/ Interrupt(v) \/ Fault(v)
       PROVE  proc'[w] = proc[w]
  BY <1>10, OthersStay
<1> QED
  BY <1>2, <1>4, <1>5, <1>6, <1>7, <1>8, <1>9, <1>10 DEF Next, Step
LEMMA StepQueueDelivered ==
    ASSUME ReplayInv, DeliveredInv, [Next]_vars
    PROVE  \A i \in Items : queue'[i].status = "completed" => DoneOrRehearsed(i)'
<1>1. ASSUME NEW i \in Items, queue'[i].status = "completed" => queue[i].status = "completed"
      PROVE  queue'[i].status = "completed" => DoneOrRehearsed(i)'
  BY <1>1, HistoryGrows DEF DeliveredInv
<1>2. CASE UNCHANGED queue
  BY <1>1, <1>2
<1>3. ASSUME NEW w \in Workers, ResetLapsed(w) \/ Claim(w), NEW i \in Items
      PROVE  queue'[i].status = "completed" => queue[i].status = "completed"
  <2>1. CASE ResetLapsed(w)
    BY <2>1 DEF ResetLapsed, Row
  <2>2. CASE Claim(w)
    BY <2>2 DEF Claim, Row
  <2> QED
    BY <1>3, <2>1, <2>2
<1>4. ASSUME NEW w \in Workers, UpdateItem(w), NEW i \in Items
      PROVE  queue'[i].status = "completed" => DoneOrRehearsed(i)'
  <2>1. CASE proc[w].item = i /\ proc[w].outcome = "completed"
    BY <1>4, <2>1, HistoryGrows DEF UpdateItem, At, DeliveredInv
  <2>2. CASE ~(proc[w].item = i /\ proc[w].outcome = "completed")
    <3>1. queue'[i].status = "completed" => queue[i].status = "completed"
      BY <1>4, <2>2 DEF UpdateItem, Settled, Row, ReplayInv, TypedRows
    <3> QED
      BY <1>1, <3>1
  <2> QED
    BY <2>1, <2>2
<1>5. ASSUME NEW j \in Items, ClaimLapses(j), NEW i \in Items
      PROVE  queue'[i].status = "completed" => queue[i].status = "completed"
  BY <1>5 DEF ClaimLapses, ReplayInv, TypedRows, Rows
<1>6. CASE \/ UNCHANGED vars \/ LockLapses \/ \E i \in Items : Prune(i)
           \/ \E w \in Workers :
                 Start(w) \/ ReadLock(w) \/ InsertLock(w) \/ TakeLockOver(w) \/ LeaderGoesOn(w)
                 \/ RenewLock(w) \/ ReadForRelease(w) \/ DeleteLock(w) \/ FindLapsed(w)
                 \/ Deliver(w) \/ WriteRecord(w) \/ SelectItem(w) \/ Interrupt(w) \/ Fault(w)
  BY <1>2, <1>6 DEF vars, Start, ReadLock, InsertLock, TakeLockOver, LeaderGoesOn, RenewLock, ReadForRelease,
     DeleteLock, FindLapsed, Deliver, WriteRecord, SelectItem, Interrupt, Fault, LockLapses, Prune
<1>7. CASE \E w \in Workers : Work(w)
  BY <1>2, <1>7 DEF Work, EndRun, TakeUnknown, Rehearse, RateLimited, BeginReplay
<1>8. CASE \E i \in Items : ClaimLapses(i)
  BY <1>1, <1>5, <1>8
<1>9. CASE \E w \in Workers : ResetLapsed(w) \/ Claim(w)
  BY <1>1, <1>3, <1>9
<1> QED
  BY <1>4, <1>6, <1>7, <1>8, <1>9 DEF Next, Step

\* No item leaves the queue as completed without having been delivered, except by
\* a dry run: neither a replay that another process died in nor a record that was
\* pruned or overwritten is taken for a delivery.
THEOREM CompletedItemsWereDelivered == Spec => []CompletedWasDelivered
<1>1. Init /\ ReplayInv => DeliveredInv
  BY DEF Init, DeliveredInv, Row, Off, ReplayInv, TypedRows
<1>2. ReplayInv /\ DeliveredInv /\ [Next]_vars => DeliveredInv'
  BY StepRecordDelivered, StepTruthful, StepQueueDelivered DEF DeliveredInv, Truthful
<1>3. DeliveredInv => CompletedWasDelivered
  BY DEF DeliveredInv, CompletedWasDelivered, Done, DoneOrRehearsed
<1> QED
  BY <1>1, <1>2, <1>3, ReplayInvHolds, ReplayAssumption, PTL DEF Spec
-----------------------------------------------------------------------------
(* Until the lease of the lock is over for the first time, who leads owns  *)
(* the row, nobody else leads, and nobody is about to take the row over.   *)
LockInv ==
    ~lockLapsed =>
        /\ ~lock.lapsed
        /\ \A w \in Workers : proc[w].leads => lock.owner = Owner(w)
        /\ \A v, w \in Workers : proc[v].leads /\ proc[w].leads => v = w
        /\ \A w \in Workers : proc[w].pc # "takeover"

LEMMA OwnerIsSomeone == ASSUME ReplayAssumption, NEW w \in Workers PROVE Owner(w) # NoOne
BY DEF ReplayAssumption, Owner

\* A step of w that keeps the row, does not make w lead and does not send it to
\* take the row over.
LEMMA LockKept ==
    ASSUME LockInv, NEW w \in Workers, \A v \in Workers \ {w} : proc'[v] = proc[v],
           ~lockLapsed' => ~lockLapsed,
           ~lockLapsed => lock' = lock,
           proc'[w].leads => proc[w].leads,
           ~lockLapsed => proc'[w].pc # "takeover"
    PROVE  LockInv'
<1> SUFFICES ASSUME ~lockLapsed'
             PROVE  /\ ~lock'.lapsed
                    /\ \A u \in Workers : proc'[u].leads => lock'.owner = Owner(u)
                    /\ \A u, v \in Workers : proc'[u].leads /\ proc'[v].leads => u = v
                    /\ \A u \in Workers : proc'[u].pc # "takeover"
  BY DEF LockInv
<1>1. \A u \in Workers : (proc'[u].leads => proc[u].leads)
  OBVIOUS
<1>2. \A u \in Workers : proc'[u].pc # "takeover"
  BY DEF LockInv
<1> QED
  BY <1>1, <1>2 DEF LockInv

LEMMA StepLock ==
    ASSUME ReplayAssumption, ReplayInv, LockInv, [Next]_vars
    PROVE  LockInv'
<1>0. ASSUME NEW w \in Workers PROVE Orderly(w, proc[w]) /\ proc[w] \in Procs /\ proc \in [Workers -> Procs]
  BY DEF ReplayInv, TypedProcs, Orderly
<1>1. ASSUME NEW w \in Workers, Start(w) \/ Step(w) \/ Interrupt(w) \/ Fault(w)
      PROVE  \A v \in Workers \ {w} : proc'[v] = proc[v]
  BY <1>1, OthersStay
<1>2. ASSUME NEW w \in Workers, Start(w) PROVE LockInv'
  <2>1. ~proc'[w].leads /\ proc'[w].pc # "takeover"
    BY <1>0, <1>2 DEF Start, Off
  <2> QED
    BY <1>1, <1>2, <2>1, LockKept DEF Start, histVars
<1>3. ASSUME NEW w \in Workers, ReadLock(w) PROVE LockInv'
  <2>1. (proc'[w].leads => proc[w].leads) /\ (proc'[w].pc = "takeover" => lock.lapsed)
    BY <1>0, <1>3 DEF ReadLock, Goto, Procs
  <2> QED
    BY <1>1, <1>3, <2>1, LockKept DEF ReadLock, histVars, LockInv, Step
<1>4. ASSUME NEW w \in Workers, InsertLock(w) PROVE LockInv'
  <2>1. CASE ~MayInsert
    <3>1. (proc'[w].leads => proc[w].leads) /\ proc'[w].pc # "takeover"
      BY <1>0, <1>4, <2>1 DEF InsertLock, Goto, Procs
    <3> QED
      BY <1>1, <1>4, <2>1, <3>1, LockKept DEF InsertLock, histVars, Step
  <2>2. CASE MayInsert
    <3>1. lock' = LockRow(Owner(w)) /\ proc'[w].pc # "takeover" /\ UNCHANGED lockLapsed
      BY <1>0, <1>4, <2>2 DEF InsertLock, Lead, Procs, histVars
    <3>2. ~lockLapsed => \A v \in Workers \ {w} : ~proc'[v].leads
      BY <1>1, <1>4, <2>2, OwnerIsSomeone DEF LockInv, MayInsert, Step
    <3> QED
      BY <1>1, <1>4, <3>1, <3>2 DEF LockInv, LockRow, Step
  <2> QED
    BY <2>1, <2>2
<1>5. ASSUME NEW w \in Workers, TakeLockOver(w) PROVE LockInv'
  BY <1>5 DEF TakeLockOver, At, LockInv, histVars
<1>6. ASSUME NEW w \in Workers, LeaderGoesOn(w) \/ Interrupt(w) PROVE LockInv'
  <2>1. (proc'[w].leads => proc[w].leads) /\ proc'[w].pc # "takeover"
    BY <1>0, <1>6 DEF LeaderGoesOn, Interrupt, Goto, Procs, Off
  <2> QED
    BY <1>1, <1>6, <2>1, LockKept DEF LeaderGoesOn, Interrupt, histVars, Step
<1>7. ASSUME NEW w \in Workers, RenewLock(w) PROVE LockInv'
  <2>1. (proc'[w].leads => proc[w].leads) /\ proc'[w].pc # "takeover"
    BY <1>0, <1>7 DEF RenewLock, Goto, Procs
  <2>2. ~lockLapsed => lock' = lock
    BY <1>7 DEF RenewLock, LockInv, ReplayInv, TypedRows, Locks
  <2> QED
    BY <1>1, <1>7, <2>1, <2>2, LockKept DEF RenewLock, histVars, Step
<1>8. ASSUME NEW w \in Workers, ReadForRelease(w) PROVE LockInv'
  <2>1. (proc'[w].leads => proc[w].leads) /\ proc'[w].pc # "takeover"
    BY <1>0, <1>8 DEF ReadForRelease, Released, Goto, Procs, Off
  <2> QED
    BY <1>1, <1>8, <2>1, LockKept DEF ReadForRelease, histVars, Step
<1>9. ASSUME NEW w \in Workers, DeleteLock(w) PROVE LockInv'
  <2>1. ~proc'[w].leads /\ proc'[w].pc # "takeover"
    BY <1>0, <1>9 DEF DeleteLock, Released, Off
  <2>2. proc[w].leads
    BY <1>0, <1>9 DEF DeleteLock, At, Orderly
  <2>3. ~lockLapsed => \A v \in Workers \ {w} : ~proc[v].leads
    BY <2>2 DEF LockInv
  <2> QED
    BY <1>1, <1>9, <2>1, <2>3 DEF DeleteLock, LockRow, LockInv, histVars, Step
<1>10. ASSUME NEW w \in Workers, FindLapsed(w) \/ ResetLapsed(w) PROVE LockInv'
  <2>1. (proc'[w].leads => proc[w].leads) /\ proc'[w].pc # "takeover"
    BY <1>0, <1>10 DEF FindLapsed, ResetLapsed, Procs
  <2> QED
    BY <1>1, <1>10, <2>1, LockKept DEF FindLapsed, ResetLapsed, histVars, Step
<1>11. ASSUME NEW w \in Workers, Claim(w) PROVE LockInv'
  <2>1. (proc'[w].leads => proc[w].leads) /\ proc'[w].pc # "takeover"
    BY <1>0, <1>11 DEF Claim, Procs
  <2> QED
    BY <1>1, <1>11, <2>1, LockKept DEF Claim, histVars, Step
<1>12. ASSUME NEW w \in Workers, Work(w) PROVE LockInv'
  <2>1. (proc'[w].leads => proc[w].leads) /\ proc'[w].pc # "takeover"
    <3>1. CASE EndRun(w)
      BY <1>0, <3>1 DEF EndRun, Goto, Procs
    <3>2. CASE \E i \in proc[w].todo, place \in {"select", "deliver"}, o \in Outcomes \cup {"none"} :
                 Take(w, i, place, o)
      BY <1>0, <3>2 DEF Take, Procs
    <3>3. EndRun(w) \/ \E i \in proc[w].todo, place \in {"select", "deliver"}, o \in Outcomes \cup {"none"} :
                 Take(w, i, place, o)
      BY <1>12 DEF Work, TakeUnknown, Rehearse, RateLimited, BeginReplay, Outcomes
    <3> QED
      BY <3>1, <3>2, <3>3
  <2>2. UNCHANGED <<lock, lockLapsed>>
    BY <1>12 DEF Work, EndRun, TakeUnknown, Rehearse, RateLimited, BeginReplay, histVars
  <2> QED
    BY <1>1, <1>12, <2>1, <2>2, LockKept DEF Step
<1>13. ASSUME NEW w \in Workers, Deliver(w) \/ WriteRecord(w) PROVE LockInv'
  <2>1. (proc'[w].leads => proc[w].leads) /\ proc'[w].pc # "takeover"
    <3>1. CASE Deliver(w)
      BY <1>0, <3>1 DEF Deliver, Procs
    <3>2. CASE WriteRecord(w)
      BY <1>0, <3>2 DEF WriteRecord, Goto, Procs
    <3> QED
      BY <1>13, <3>1, <3>2
  <2>2. UNCHANGED <<lock, lockLapsed>>
    BY <1>13 DEF Deliver, WriteRecord, histVars
  <2> QED
    BY <1>1, <1>13, <2>1, <2>2, LockKept DEF Step
<1>14. ASSUME NEW w \in Workers, SelectItem(w) \/ UpdateItem(w) PROVE LockInv'
  <2>1. (proc'[w].leads => proc[w].leads) /\ proc'[w].pc # "takeover"
    BY <1>0, <1>14 DEF SelectItem, UpdateItem, NextItem, Goto, Procs
  <2> QED
    BY <1>1, <1>14, <2>1, LockKept DEF SelectItem, UpdateItem, histVars, Step
<1>15. ASSUME NEW w \in Workers, Fault(w) PROVE LockInv'
  <2>1. (proc'[w].leads => proc[w].leads) /\ proc'[w].pc # "takeover"
    BY <1>0, <1>15 DEF Fault, NextItem, Off, Procs
  <2> QED
    BY <1>1, <1>15, <2>1, LockKept DEF Fault
<1>16. CASE LockLapses
  BY <1>16 DEF LockLapses, LockInv
<1>17. CASE UNCHANGED vars \/ \E i \in Items : ClaimLapses(i) \/ Prune(i)
  BY <1>17 DEF vars, ClaimLapses, Prune, LockInv, histVars
<1> QED
  BY <1>2, <1>3, <1>4, <1>5, <1>6, <1>7, <1>8, <1>9, <1>10, <1>11, <1>12, <1>13, <1>14, <1>15,
     <1>16, <1>17 DEF Next, Step

\* The lock elects one leader: INSERT, renew and release give it to nobody else
\* as long as its lease was never over, whoever races for the row.
THEOREM LockElectsOneLeader == Spec => []OneLeaderAtATime
<1>1. Init => LockInv
  BY DEF Init, LockInv, LockRow, Off
<1>2. LockInv => OneLeaderAtATime
  BY DEF LockInv, OneLeaderAtATime
<1> QED
  BY <1>1, <1>2, StepLock, ReplayInvHolds, ReplayAssumption, PTL DEF Spec
-----------------------------------------------------------------------------
(* Every delivery of an item is paid for.  The right to one more is a      *)
(* token: the queue has it while the item waits, and then the worker that  *)
(* claimed it, until it has delivered the item or given up on it.  Only    *)
(* the reset of a lease mints a token.                                     *)
Holds(p, i) ==
    \/ i \in p.todo
    \/ p.item = i /\ (p.pc = "deliver" \/ (p.pc \in Judged /\ p.outcome = "requeued"))
Holders(i) == {w \in Workers : Holds(proc[w], i)}
Waits(i) == IF queue[i].status \in Waiting THEN 1 ELSE 0
Paid(i) == delivered[i] + Cardinality(Holders(i)) + Waits(i) <= 1 + resets[i]

LEMMA HoldersFinite ==
    ASSUME ReplayAssumption, NEW i
    PROVE  /\ IsFiniteSet(Holders(i)) /\ Cardinality(Holders(i)) \in Nat
           /\ IsFiniteSet(Holders(i)') /\ Cardinality(Holders(i)') \in Nat
<1>1. Holders(i) \in SUBSET Workers /\ Holders(i)' \in SUBSET Workers
  BY DEF Holders
<1>2. IsFiniteSet(Workers)
  BY DEF ReplayAssumption
<1>3. IsFiniteSet(Holders(i)) /\ IsFiniteSet(Holders(i)')
  BY <1>1, <1>2, FS_Subset
<1> QED
  BY <1>3, FS_CardinalityType

\* How the number of tokens in hand changes when only w moves.
LEMMA TokensOfOne ==
    ASSUME ReplayAssumption, NEW w \in Workers, \A v \in Workers \ {w} : proc'[v] = proc[v], NEW i
    PROVE  /\ Cardinality(Holders(i)') <= Cardinality(Holders(i)) + 1
           /\ (Holds(proc'[w], i) => Holds(proc[w], i))
                => Cardinality(Holders(i)') <= Cardinality(Holders(i))
           /\ Holds(proc[w], i) /\ ~Holds(proc'[w], i)
                => Cardinality(Holders(i)') = Cardinality(Holders(i)) - 1
<1> DEFINE H == Holders(i)
           G == Holders(i)'
<1>1. G = {v \in Workers : Holds(proc'[v], i)}
  BY DEF Holders, Holds
<1>2. \A v \in Workers : v # w => (v \in G <=> v \in H)
  BY <1>1 DEF Holders
<1>3. /\ w \in G <=> Holds(proc'[w], i)
      /\ w \in H <=> Holds(proc[w], i)
  BY <1>1 DEF Holders
<1>4. H \subseteq Workers /\ G \subseteq Workers
  BY <1>1 DEF Holders
<1>5. IsFiniteSet(H) /\ Cardinality(H) \in Nat /\ IsFiniteSet(G) /\ Cardinality(G) \in Nat
  BY HoldersFinite
<1> HIDE DEF H, G
<1>6. G \in SUBSET (H \cup {w})
  BY <1>2, <1>4
<1>7. Cardinality(G) <= Cardinality(H) + 1
  <2>0. IsFiniteSet(H)
    BY <1>5
  <2>1. /\ IsFiniteSet(H \cup {w})
        /\ Cardinality(H \cup {w}) = IF w \in H THEN Cardinality(H) ELSE Cardinality(H) + 1
    BY <2>0, FS_AddElement, Zenon
  <2>2. Cardinality(H \cup {w}) \in Nat
    BY <2>1, FS_CardinalityType
  <2>3. Cardinality(G) <= Cardinality(H \cup {w})
    BY <1>6, <2>1, FS_Subset
  <2> QED
    BY <1>5, <2>1, <2>2, <2>3
<1>8. ASSUME w \in G => w \in H PROVE Cardinality(G) <= Cardinality(H)
  <2>1. G \in SUBSET H
    BY <1>6, <1>8
  <2> QED
    BY <1>5, <2>1, FS_Subset
<1>9. ASSUME w \in H, w \notin G PROVE Cardinality(G) = Cardinality(H) - 1
  <2>1. G = H \ {w}
    BY <1>2, <1>4, <1>9
  <2> QED
    BY <1>5, <1>9, <2>1, FS_RemoveElement
<1> QED
  BY <1>3, <1>7, <1>8, <1>9 DEF H, G

\* A step of w that takes no token, and after which the item waits only if it did.
LEMMA PaidKept ==
    ASSUME ReplayAssumption, ReplayInv, NEW w \in Workers, NEW i \in Items, Paid(i),
           \A v \in Workers \ {w} : proc'[v] = proc[v],
           Holds(proc'[w], i) => Holds(proc[w], i),
           queue'[i].status \in Waiting => queue[i].status \in Waiting,
           delivered'[i] = delivered[i], resets'[i] = resets[i]
    PROVE  Paid(i)'
<1>1. Cardinality(Holders(i)') <= Cardinality(Holders(i))
  BY TokensOfOne
<1>2. Waits(i)' <= Waits(i) /\ Waits(i) \in {0, 1} /\ Waits(i)' \in {0, 1}
  BY DEF Waits
<1>3. delivered[i] \in Nat /\ resets[i] \in Nat
  BY DEF ReplayInv, TypedHistory
<1> QED
  BY <1>1, <1>2, <1>3, HoldersFinite DEF Paid

LEMMA StepPaid ==
    ASSUME ReplayAssumption, ReplayInv, [Next]_vars, NEW i \in Items, Paid(i)
    PROVE  Paid(i)'
<1>0. ASSUME NEW w \in Workers PROVE Orderly(w, proc[w]) /\ proc[w] \in Procs /\ proc \in [Workers -> Procs]
  BY DEF ReplayInv, TypedProcs, Orderly
<1>1. ASSUME NEW w \in Workers, Start(w) \/ Step(w) \/ Interrupt(w) \/ Fault(w)
      PROVE  \A v \in Workers \ {w} : proc'[v] = proc[v]
  BY <1>1, OthersStay
<1>2. delivered[i] \in Nat /\ resets[i] \in Nat /\ i # NoItem
  BY DEF ReplayInv, TypedHistory, ReplayAssumption
<1>3. Waits(i) \in {0, 1} /\ Waits(i)' \in {0, 1}
  BY DEF Waits
<1>4. CASE UNCHANGED vars \/ LockLapses \/ \E j \in Items : ClaimLapses(j) \/ Prune(j)
  <2>1. UNCHANGED <<proc, delivered, resets>> /\ queue'[i].status = queue[i].status
    BY <1>4 DEF vars, LockLapses, ClaimLapses, Prune, histVars, ReplayInv, TypedRows, Rows
  <2> QED
    BY <2>1 DEF Paid, Holders, Waits
<1>5. ASSUME NEW w \in Workers, Start(w) \/ Fault(w) PROVE Paid(i)'
  <2>1. Holds(proc'[w], i) => Holds(proc[w], i)
    <3>1. CASE Start(w)
      BY <1>0, <1>2, <3>1 DEF Start, Off, Holds
    <3>2. CASE Fault(w)
      BY <1>0, <1>2, <3>2 DEF Fault, NextItem, Off, Holds, Procs
    <3> QED
      BY <1>5, <3>1, <3>2
  <2>2. UNCHANGED <<queue, delivered, resets>>
    BY <1>5 DEF Start, Fault, histVars
  <2> QED
    BY <1>1, <1>5, <2>1, <2>2, PaidKept
<1>6. ASSUME NEW w \in Workers,
             \/ ReadLock(w) \/ InsertLock(w) \/ TakeLockOver(w) \/ LeaderGoesOn(w) \/ RenewLock(w)
             \/ Interrupt(w) \/ ReadForRelease(w) \/ DeleteLock(w)
      PROVE  Paid(i)'
  <2>0. proc[w].item = NoItem /\ proc[w].todo = {} /\ proc[w].pc \notin InHand
    BY <1>0, <1>6 DEF ReadLock, InsertLock, TakeLockOver, LeaderGoesOn, RenewLock, Interrupt, ReadForRelease,
       DeleteLock, At, Orderly, InHand, Judged
  <2>1. \/ \E place \in Places : Goto(w, place) \/ proc' = [proc EXCEPT ![w] = [Off EXCEPT !.pc = place]]
        \/ Lead(w)
    BY <1>6 DEF ReadLock, InsertLock, TakeLockOver, LeaderGoesOn, RenewLock, Interrupt, ReadForRelease,
       DeleteLock, Released, Places
  <2>2. ~Holds(proc'[w], i)
    BY <1>0, <1>2, <2>0, <2>1 DEF Goto, Lead, Off, Holds, Procs
  <2>3. UNCHANGED <<queue, delivered, resets>>
    BY <1>6 DEF ReadLock, InsertLock, TakeLockOver, LeaderGoesOn, RenewLock, Interrupt, ReadForRelease,
       DeleteLock, histVars
  <2> QED
    BY <1>1, <1>6, <2>2, <2>3, PaidKept DEF Step
<1>7. ASSUME NEW w \in Workers, FindLapsed(w) PROVE Paid(i)'
  <2>1. ~Holds(proc'[w], i)
    BY <1>0, <1>2, <1>7 DEF FindLapsed, At, Orderly, InHand, Judged, Holds, Procs
  <2> QED
    BY <1>1, <1>7, <2>1, PaidKept DEF FindLapsed, histVars, Step
<1>8. ASSUME NEW w \in Workers, ResetLapsed(w) PROVE Paid(i)'
  <2>1. ~Holds(proc'[w], i)
    BY <1>0, <1>2, <1>8 DEF ResetLapsed, At, Orderly, InHand, Judged, Holds, Procs
  <2>2. delivered' = delivered
    BY <1>8 DEF ResetLapsed
  <2>3. CASE i \in proc[w].found
    <3>1. resets'[i] = resets[i] + 1
      BY <1>8, <2>3 DEF ResetLapsed
    <3>2. Cardinality(Holders(i)') <= Cardinality(Holders(i))
      BY <1>1, <1>8, <2>1, TokensOfOne DEF Step
    <3> QED
      BY <1>2, <1>3, <2>2, <3>1, <3>2, HoldersFinite DEF Paid
  <2>4. CASE i \notin proc[w].found
    <3>1. queue'[i] = queue[i] /\ resets'[i] = resets[i]
      BY <1>8, <2>4 DEF ResetLapsed
    <3> QED
      BY <1>1, <1>8, <2>1, <2>2, <3>1, PaidKept DEF Step
  <2> QED
    BY <2>3, <2>4
<1>9. ASSUME NEW w \in Workers, Claim(w) PROVE Paid(i)'
  <2>1. PICK S \in SUBSET Claimable :
           /\ queue' = [j \in Items |-> IF j \in S THEN Row("claimed", Claimant(w)) ELSE queue[j]]
           /\ proc' = [proc EXCEPT ![w].todo = S, ![w].pc = "work"]
    BY <1>9 DEF Claim
  <2>2. proc'[w].todo = S /\ proc'[w].pc = "work" /\ proc'[w].item = proc[w].item
    BY <1>0, <2>1 DEF Procs
  <2>3. UNCHANGED <<delivered, resets>>
    BY <1>9 DEF Claim, histVars
  <2>4. CASE i \in S
    <3>1. Waits(i) = 1
      BY <2>4 DEF Claimable, Waits
    <3>2. Waits(i)' = 0
      BY <2>1, <2>4 DEF Waits, Waiting, Row
    <3>3. Cardinality(Holders(i)') <= Cardinality(Holders(i)) + 1
      BY <1>1, <1>9, TokensOfOne DEF Step
    <3> QED
      BY <1>2, <2>3, <3>1, <3>2, <3>3, HoldersFinite DEF Paid
  <2>5. CASE i \notin S
    <3>1. queue'[i] = queue[i]
      BY <2>1, <2>5
    <3>2. ~Holds(proc'[w], i)
      BY <2>2, <2>5 DEF Holds, Judged
    <3> QED
      BY <1>1, <1>9, <2>3, <3>1, <3>2, PaidKept DEF Step
  <2> QED
    BY <2>4, <2>5
<1>10. ASSUME NEW w \in Workers, Work(w) PROVE Paid(i)'
  <2>1. Holds(proc'[w], i) => Holds(proc[w], i)
    <3>1. CASE EndRun(w)
      BY <1>0, <3>1 DEF EndRun, Goto, Holds, Judged, Procs
    <3>2. CASE \E j \in proc[w].todo, place \in {"select", "deliver"}, o \in Outcomes \cup {"none"} :
                 Take(w, j, place, o)
      BY <1>0, <3>2 DEF Take, Holds, Procs
    <3>3. EndRun(w) \/ \E j \in proc[w].todo, place \in {"select", "deliver"}, o \in Outcomes \cup {"none"} :
                 Take(w, j, place, o)
      BY <1>10 DEF Work, TakeUnknown, Rehearse, RateLimited, BeginReplay, Outcomes
    <3> QED
      BY <3>1, <3>2, <3>3
  <2>2. UNCHANGED <<queue, delivered, resets>>
    BY <1>10 DEF Work, EndRun, TakeUnknown, Rehearse, RateLimited, BeginReplay, histVars
  <2> QED
    BY <1>1, <1>10, <2>1, <2>2, PaidKept DEF Step
<1>11. ASSUME NEW w \in Workers, Deliver(w) PROVE Paid(i)'
  <2>1. /\ proc[w].pc = "deliver" /\ proc[w].item \in Items \ proc[w].todo
        /\ proc'[w].pc = "record" /\ proc'[w].item = proc[w].item /\ proc'[w].todo = proc[w].todo
    BY <1>0, <1>11 DEF Deliver, At, Orderly, InHand, Procs
  <2>2. UNCHANGED <<queue, resets>>
    BY <1>11 DEF Deliver
  <2>3. CASE delivered'[i] = delivered[i]
    <3>1. Holds(proc'[w], i) => Holds(proc[w], i)
      BY <2>1 DEF Holds
    <3> QED
      BY <1>1, <1>11, <2>2, <2>3, <3>1, PaidKept DEF Step
  <2>4. CASE delivered'[i] # delivered[i]
    <3>0. PICK o \in Outcomes :
             /\ proc' = [proc EXCEPT ![w].outcome = o, ![w].pc = "record"]
             /\ delivered' = IF o = "completed" THEN [delivered EXCEPT ![proc[w].item] = @ + 1] ELSE delivered
      BY <1>11 DEF Deliver
    <3>1. /\ i = proc[w].item /\ o = "completed"
          /\ delivered' = [delivered EXCEPT ![i] = @ + 1]
      BY <3>0, <2>4 DEF ReplayInv, TypedHistory
    <3>2. Holds(proc[w], i) /\ ~Holds(proc'[w], i)
      <4>1. proc'[w].outcome = "completed"
        BY <1>0, <3>0, <3>1 DEF Procs
      <4>2. Holds(proc[w], i)
        BY <2>1, <3>1 DEF Holds
      <4>3. ~Holds(proc'[w], i)
        BY <2>1, <3>1, <4>1 DEF Holds
      <4> QED
        BY <4>2, <4>3
    <3>3. Cardinality(Holders(i)') = Cardinality(Holders(i)) - 1
      BY <1>1, <1>11, <3>2, TokensOfOne DEF Step
    <3>4. delivered'[i] = delivered[i] + 1
      BY <3>1 DEF ReplayInv, TypedHistory
    <3>5. Waits(i)' = Waits(i)
      BY <2>2 DEF Waits
    <3> QED
      BY <1>2, <1>3, <2>2, <3>3, <3>4, <3>5, HoldersFinite DEF Paid
  <2> QED
    BY <2>3, <2>4
<1>12. ASSUME NEW w \in Workers, WriteRecord(w) \/ SelectItem(w) PROVE Paid(i)'
  <2>1. proc[w].pc \in Judged
    BY <1>12 DEF WriteRecord, SelectItem, At, Judged
  <2>2. Holds(proc'[w], i) => Holds(proc[w], i)
    <3>1. CASE NextItem(w)
      BY <1>0, <1>2, <3>1 DEF NextItem, Holds, Judged, Procs
    <3>2. CASE \E place \in Judged : Goto(w, place)
      BY <1>0, <2>1, <3>2 DEF Goto, Holds, Judged, Procs
    <3> QED
      BY <1>12, <3>1, <3>2 DEF WriteRecord, SelectItem, Judged
  <2>3. UNCHANGED <<queue, delivered, resets>>
    BY <1>12 DEF WriteRecord, SelectItem, histVars
  <2> QED
    BY <1>1, <1>12, <2>2, <2>3, PaidKept DEF Step
<1>13. ASSUME NEW w \in Workers, UpdateItem(w) PROVE Paid(i)'
  <2>1. Holds(proc'[w], i) => Holds(proc[w], i)
    BY <1>0, <1>2, <1>13 DEF UpdateItem, NextItem, Holds, Judged, Procs
  <2>2. UNCHANGED <<delivered, resets>>
    BY <1>13 DEF UpdateItem, histVars
  <2>3. CASE queue'[i].status \in Waiting => queue[i].status \in Waiting
    BY <1>1, <1>13, <2>1, <2>2, <2>3, PaidKept DEF Step
  <2>4. CASE queue'[i].status \in Waiting /\ queue[i].status \notin Waiting
    <3>1. i = proc[w].item /\ proc[w].outcome = "requeued"
      BY <1>13, <2>4 DEF UpdateItem, Settled, Row, Waiting, ReplayInv, TypedRows, At, TypedProcs, Orderly, Judged, Outcomes
    <3>2. Holds(proc[w], i)
      BY <1>13, <3>1 DEF UpdateItem, At, Holds, Judged
    <3>3. ~Holds(proc'[w], i)
      BY <1>0, <1>2, <1>13, <3>1 DEF UpdateItem, NextItem, At, Orderly, InHand, Holds, Judged, Procs
    <3>4. Cardinality(Holders(i)') = Cardinality(Holders(i)) - 1
      BY <1>1, <1>13, <3>2, <3>3, TokensOfOne DEF Step
    <3>5. Waits(i) = 0 /\ Waits(i)' = 1
      BY <2>4 DEF Waits
    <3> QED
      BY <1>2, <2>2, <3>4, <3>5, HoldersFinite DEF Paid
  <2> QED
    BY <2>3, <2>4
<1> QED
  BY <1>4, <1>5, <1>6, <1>7, <1>8, <1>9, <1>10, <1>11, <1>12, <1>13 DEF Next, Step

\* However often an item is claimed, requeued, retried and faulted, beyond the
\* first time it is delivered only as often as its lease was reset.
THEOREM DeliveriesArePaidFor == Spec => []DeliveriesBounded
<1> DEFINE AllPaid == \A i \in Items : Paid(i)
<1>1. Init => AllPaid
  <2> SUFFICES ASSUME Init, NEW i \in Items PROVE Paid(i)
    OBVIOUS
  <2>1. Holders(i) = {}
    BY ReplayAssumption DEF Init, Off, Holders, Holds, Judged, ReplayAssumption
  <2>2. Waits(i) = 1
    BY DEF Init, Row, Waits, Waiting
  <2> QED
    BY <2>1, <2>2, FS_EmptySet DEF Init, Paid
<1>2. ReplayInv /\ AllPaid /\ [Next]_vars => AllPaid'
  BY StepPaid, ReplayAssumption
<1>3. ReplayInv /\ AllPaid => DeliveriesBounded
  <2> SUFFICES ASSUME ReplayInv, AllPaid, NEW i \in Items PROVE delivered[i] <= 1 + resets[i]
    BY DEF DeliveriesBounded
  <2>1. Waits(i) \in {0, 1} /\ Cardinality(Holders(i)) \in Nat
    BY HoldersFinite, ReplayAssumption DEF Waits
  <2> QED
    BY <2>1 DEF Paid, ReplayInv, TypedHistory
<1> HIDE DEF AllPaid
<1> QED
  BY <1>1, <1>2, <1>3, ReplayInvHolds, ReplayAssumption, PTL DEF Spec

-----------------------------------------------------------------------------
(* Until its lease is reset, an item has one handler, and nobody once it   *)
(* is settled.                                                             *)
Sole(i) ==
    resets[i] = 0 =>
        \A w \in Workers : Handles(w, i) =>
            queue[i].status = "claimed" /\ \A v \in Workers : Handles(v, i) => v = w

\* A step of w that leaves the row of i, or ends what w does with it.
LEMMA SoleKept ==
    ASSUME NEW w \in Workers, NEW i \in Items, Sole(i), resets'[i] = 0 => resets[i] = 0,
           \A v \in Workers \ {w} : proc'[v] = proc[v],
           Handles(w, i)' => Handles(w, i),
           \/ queue'[i].status = queue[i].status
           \/ Handles(w, i) /\ ~Handles(w, i)'
    PROVE  Sole(i)'
<1>1. \A v \in Workers : Handles(v, i)' => Handles(v, i)
  BY DEF Handles
<1> QED
  BY <1>1 DEF Sole

LEMMA StepSole ==
    ASSUME ReplayAssumption, ReplayInv, [Next]_vars, NEW i \in Items, Sole(i)
    PROVE  Sole(i)'
<1>0. ASSUME NEW w \in Workers PROVE Orderly(w, proc[w]) /\ proc[w] \in Procs /\ proc \in [Workers -> Procs]
  BY DEF ReplayInv, TypedProcs, Orderly
<1>1. ASSUME NEW w \in Workers, Start(w) \/ Step(w) \/ Interrupt(w) \/ Fault(w)
      PROVE  \A v \in Workers \ {w} : proc'[v] = proc[v]
  BY <1>1, OthersStay
<1>2. resets[i] \in Nat /\ i # NoItem
  BY DEF ReplayInv, TypedHistory, ReplayAssumption
<1>3. CASE UNCHANGED vars \/ LockLapses \/ \E j \in Items : ClaimLapses(j) \/ Prune(j)
  <2>1. UNCHANGED <<proc, resets>> /\ queue'[i].status = queue[i].status
    BY <1>3 DEF vars, LockLapses, ClaimLapses, Prune, histVars, ReplayInv, TypedRows, Rows
  <2> QED
    BY <2>1 DEF Sole, Handles
<1>4. ASSUME NEW w \in Workers, Start(w) \/ Fault(w) PROVE Sole(i)'
  <2>1. Handles(w, i)' => Handles(w, i)
    <3>1. CASE Start(w)
      BY <1>0, <1>2, <3>1 DEF Start, Off, Handles
    <3>2. CASE Fault(w)
      BY <1>0, <1>2, <3>2 DEF Fault, NextItem, Off, Handles, Procs
    <3> QED
      BY <1>4, <3>1, <3>2
  <2>2. UNCHANGED <<queue, resets>>
    BY <1>4 DEF Start, Fault, histVars
  <2> QED
    BY <1>1, <1>4, <2>1, <2>2, SoleKept
<1>5. ASSUME NEW w \in Workers,
             \/ ReadLock(w) \/ InsertLock(w) \/ TakeLockOver(w) \/ LeaderGoesOn(w) \/ RenewLock(w)
             \/ Interrupt(w) \/ ReadForRelease(w) \/ DeleteLock(w)
      PROVE  Sole(i)'
  <2>1. \/ \E place \in Places : Goto(w, place) \/ proc' = [proc EXCEPT ![w] = [Off EXCEPT !.pc = place]]
        \/ Lead(w)
    BY <1>5 DEF ReadLock, InsertLock, TakeLockOver, LeaderGoesOn, RenewLock, Interrupt, ReadForRelease,
       DeleteLock, Released, Places
  <2>2. Handles(w, i)' => Handles(w, i)
    BY <1>0, <1>2, <2>1 DEF Goto, Lead, Off, Handles, Procs
  <2>3. UNCHANGED <<queue, resets>>
    BY <1>5 DEF ReadLock, InsertLock, TakeLockOver, LeaderGoesOn, RenewLock, Interrupt, ReadForRelease,
       DeleteLock, histVars
  <2> QED
    BY <1>1, <1>5, <2>2, <2>3, SoleKept DEF Step
<1>6. ASSUME NEW w \in Workers, FindLapsed(w) \/ ResetLapsed(w) PROVE Sole(i)'
  <2>1. Handles(w, i)' => Handles(w, i)
    BY <1>0, <1>6 DEF FindLapsed, ResetLapsed, Handles, Procs
  <2>2. resets'[i] = 0 => resets[i] = 0 /\ queue'[i].status = queue[i].status
    BY <1>2, <1>6 DEF FindLapsed, ResetLapsed, histVars
  <2> QED
    BY <1>1, <1>6, <2>1, <2>2, SoleKept DEF Step, Sole
<1>7. ASSUME NEW w \in Workers, Claim(w) PROVE Sole(i)'
  <2>1. PICK S \in SUBSET Claimable :
           /\ queue' = [j \in Items |-> IF j \in S THEN Row("claimed", Claimant(w)) ELSE queue[j]]
           /\ proc' = [proc EXCEPT ![w].todo = S, ![w].pc = "work"]
    BY <1>7 DEF Claim
  <2>2. proc'[w].todo = S /\ proc'[w].item = proc[w].item /\ proc[w].item = NoItem
    BY <1>0, <1>7, <2>1 DEF Claim, At, Orderly, InHand, Judged, Procs
  <2>3. UNCHANGED resets
    BY <1>7 DEF Claim, histVars
  <2>4. CASE i \in S
    <3>1. queue[i].status \in Waiting /\ queue'[i].status = "claimed"
      BY <2>1, <2>4 DEF Claimable, Row
    <3>2. resets[i] = 0 => \A v \in Workers \ {w} : ~Handles(v, i)'
      BY <1>1, <1>7, <3>1 DEF Step, Sole, Handles, Waiting
    <3> QED
      BY <2>3, <3>1, <3>2 DEF Sole
  <2>5. CASE i \notin S
    BY <1>1, <1>2, <1>7, <2>1, <2>2, <2>3, <2>5, SoleKept DEF Step, Handles
  <2> QED
    BY <2>4, <2>5
<1>8. ASSUME NEW w \in Workers, Work(w) PROVE Sole(i)'
  <2>1. Handles(w, i)' => Handles(w, i)
    <3>1. CASE EndRun(w)
      BY <1>0, <3>1 DEF EndRun, Goto, Handles, Procs
    <3>2. CASE \E j \in proc[w].todo, place \in {"select", "deliver"}, o \in Outcomes \cup {"none"} :
                 Take(w, j, place, o)
      BY <1>0, <3>2 DEF Take, Handles, Procs
    <3>3. EndRun(w) \/ \E j \in proc[w].todo, place \in {"select", "deliver"}, o \in Outcomes \cup {"none"} :
                 Take(w, j, place, o)
      BY <1>8 DEF Work, TakeUnknown, Rehearse, RateLimited, BeginReplay, Outcomes
    <3> QED
      BY <3>1, <3>2, <3>3
  <2>2. UNCHANGED <<queue, resets>>
    BY <1>8 DEF Work, EndRun, TakeUnknown, Rehearse, RateLimited, BeginReplay, histVars
  <2> QED
    BY <1>1, <1>8, <2>1, <2>2, SoleKept DEF Step
<1>9. ASSUME NEW w \in Workers, Deliver(w) \/ WriteRecord(w) \/ SelectItem(w) PROVE Sole(i)'
  <2>1. Handles(w, i)' => Handles(w, i)
    <3>1. CASE Deliver(w)
      BY <1>0, <3>1 DEF Deliver, Handles, Procs
    <3>2. CASE NextItem(w)
      BY <1>0, <1>2, <3>2 DEF NextItem, Handles, Procs
    <3>3. CASE \E place \in Judged : Goto(w, place)
      BY <1>0, <3>3 DEF Goto, Handles, Procs
    <3> QED
      BY <1>9, <3>1, <3>2, <3>3 DEF WriteRecord, SelectItem, Judged
  <2>2. UNCHANGED <<queue, resets>>
    BY <1>9 DEF Deliver, WriteRecord, SelectItem, histVars
  <2> QED
    BY <1>1, <1>9, <2>1, <2>2, SoleKept DEF Step
<1>10. ASSUME NEW w \in Workers, UpdateItem(w) PROVE Sole(i)'
  <2>1. /\ proc[w].item \in Items \ proc[w].todo
        /\ proc'[w].item = NoItem /\ proc'[w].todo = proc[w].todo
    BY <1>0, <1>10 DEF UpdateItem, NextItem, At, Orderly, InHand, Judged, Procs
  <2>2. UNCHANGED resets
    BY <1>10 DEF UpdateItem, histVars
  <2>3. queue'[i] = queue[i] \/ i = proc[w].item
    BY <1>10 DEF UpdateItem, ReplayInv, TypedRows
  <2> QED
    BY <1>1, <1>2, <1>10, <2>1, <2>2, <2>3, SoleKept DEF Step, Handles
<1> QED
  BY <1>3, <1>4, <1>5, <1>6, <1>7, <1>8, <1>9, <1>10 DEF Next, Step

LEMMA SoleHolds == Spec => [](ReplayInv /\ \A i \in Items : Sole(i))
<1> DEFINE AllSole == \A i \in Items : Sole(i)
<1>1. Init => AllSole
  BY ReplayAssumption DEF Init, Off, Sole, Handles, ReplayAssumption
<1>2. ReplayInv /\ AllSole /\ [Next]_vars => AllSole'
  BY StepSole, ReplayAssumption
<1> HIDE DEF AllSole
<1>3. Spec => [](ReplayInv /\ AllSole)
  BY <1>1, <1>2, ReplayInvHolds, ReplayAssumption, PTL DEF Spec
<1> QED
  BY <1>3 DEF AllSole

\* ..._alert_priority_queue_store.py:581-812: until the lease of an item is reset, at most one
\* process has it, however many claim, crash and retry.
THEOREM OneHandlerUntilReset ==
    Spec => [](\A i \in Items : resets[i] = 0 =>
                  \A v, w \in Workers : Handles(v, i) /\ Handles(w, i) => v = w)
<1>1. (ReplayInv /\ \A i \in Items : Sole(i)) =>
        \A i \in Items : resets[i] = 0 => \A v, w \in Workers : Handles(v, i) /\ Handles(w, i) => v = w
  BY DEF Sole
<1> QED
  BY <1>1, SoleHolds, PTL

\* Likewise an item that is completed or failed stays so: no late acknowledge, fail
\* or requeue, whose check and write are two statements, touches it again.
THEOREM SettledUntilReset ==
    Spec => [][\A i \in Items : queue[i].status \in {"completed", "failed"}
                                  => queue'[i] = queue[i] \/ resets'[i] > 0]_vars
<1>1. (ReplayInv /\ \A i \in Items : Sole(i)) /\ [Next]_vars =>
        [\A i \in Items : queue[i].status \in {"completed", "failed"}
                            => queue'[i] = queue[i] \/ resets'[i] > 0]_vars
  <2> SUFFICES ASSUME ReplayInv, NEW i \in Items, Sole(i), Next,
                      queue[i].status \in {"completed", "failed"}, queue'[i] # queue[i]
               PROVE  resets'[i] > 0
    OBVIOUS
  <2>0. queue \in [Items -> Rows] /\ resets[i] \in Nat
    BY DEF ReplayInv, TypedRows, TypedHistory
  <2>1. ASSUME NEW w \in Workers, ResetLapsed(w) PROVE resets'[i] > 0
    BY <2>0, <2>1 DEF ResetLapsed
  <2>2. ASSUME NEW w \in Workers, Claim(w) PROVE FALSE
    BY <2>0, <2>2 DEF Claim, Claimable, Waiting
  <2>3. ASSUME NEW w \in Workers, UpdateItem(w) PROVE resets'[i] > 0
    <3>1. Handles(w, i)
      BY <2>0, <2>3 DEF UpdateItem, Handles
    <3> QED
      BY <2>0, <2>3, <3>1 DEF Sole, UpdateItem, histVars
  <2>4. ASSUME NEW j \in Items, ClaimLapses(j) PROVE FALSE
    BY <2>0, <2>4 DEF ClaimLapses
  <2> QED
    BY <2>1, <2>2, <2>3, <2>4 DEF Next, Step, Start, Interrupt, Fault, Prune, LockLapses, ReadLock,
       InsertLock, TakeLockOver, LeaderGoesOn, RenewLock, ReadForRelease, DeleteLock, FindLapsed,
       Work, EndRun, TakeUnknown, Rehearse, RateLimited, BeginReplay, Deliver, WriteRecord, SelectItem
<1> QED
  BY <1>1, SoleHolds, PTL DEF Spec
=============================================================================
