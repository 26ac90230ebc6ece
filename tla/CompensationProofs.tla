------------------------- MODULE CompensationProofs -------------------------
(***************************************************************************)
(* Proofs about Compensation for any number of nodes, resumptions,         *)
(* attempts and faults: a compensation on record as completed has undone   *)
(* every node; and with one call at a time none is undone twice or tried   *)
(* too often, but for what faults pay for.                                 *)
(***************************************************************************)
EXTENDS Compensation, TLAPS

InHandler == {"handling", "handled", "errored"}
InLoop == InHandler \cup {"looping", "broken"}
Ended == {"completed", "failed"}

\* What is on record or in memory as completed took effect.
Truthful(state, effects) ==
    \A n \in Nodes : state.acts[n].status = "completed" => effects[state.id][n] > 0

\* c runs the handler of n: it has ended every other action it will not start.
Handling(c, n) ==
    /\ n \in Nodes \ todo[c]
    /\ work[c].acts[n].status = "running"
    /\ \A m \in Nodes \ todo[c] : m # n => work[c].acts[m].status \in Ended
    /\ pc[c] = "handled" => applied[work[c].id][n] > 0

CallInv(c) ==
    /\ pc[c] \in InLoop \cup {"continuing"}
          => work[c] \in States /\ Truthful(work[c], applied)
    /\ pc[c] \in InHandler => \E n \in Nodes : Handling(c, n)
    /\ pc[c] = "looping" => \A n \in Nodes \ todo[c] : work[c].acts[n].status \in Ended
    /\ pc[c] = "broken" => Some(work[c].acts, {"failed"})

RecordInv ==
    /\ record # NoRecord => Truthful(record, applied)
    /\ CompletedIsUndone

Typed ==
    /\ record \in States \cup {NoRecord}
    /\ pc \in [Calls -> Phases]
    /\ work \in [Calls -> States \cup {NoRecord}]
    /\ saved \in [Calls -> BOOLEAN]
    /\ resumed \in [Calls -> BOOLEAN]
    /\ todo \in [Calls -> SUBSET Nodes]
    /\ applied \in [Calls -> [Nodes -> Nat]]

CompInv == Typed /\ RecordInv /\ \A c \in Calls : CallInv(c)

----------------------------------------------------------------------------
\* Effects only grow, so what was true of a state stays true.
Grows == \A c \in Calls, n \in Nodes : applied[c][n] > 0 => applied'[c][n] > 0

\* A call of which neither its own variables change nor effects disappear
\* keeps its part of the invariant.
LEMMA OthersKeep ==
    ASSUME NEW c \in Calls, CallInv(c), Typed, Grows,
           pc'[c] = pc[c], work'[c] = work[c], todo'[c] = todo[c]
    PROVE  CallInv(c)'
<1>1. work[c] \in States => work[c].id \in Calls
  BY DEF States
<1>2. pc[c] \in InHandler => work[c] \in States
  BY DEF CallInv, InLoop
<1>3. ASSUME pc[c] \in InHandler
      PROVE  \E n \in Nodes : Handling(c, n)'
  <2>1. PICK n \in Nodes : Handling(c, n)
    BY <1>3 DEF CallInv
  <2>2. Handling(c, n)'
    BY <1>1, <1>2, <1>3, <2>1 DEF Handling, Grows
  <2> QED BY <2>2
<1>4. pc[c] \in InLoop \cup {"continuing"} => Truthful(work[c], applied)'
  BY <1>1 DEF CallInv, Truthful, Grows
<1> QED BY <1>1, <1>2, <1>3, <1>4 DEF CallInv, Some

\* A record that is not written keeps its part.
LEMMA RecordKeeps ==
    ASSUME RecordInv, Typed, Grows, UNCHANGED record
    PROVE  RecordInv'
BY DEF RecordInv, Typed, Grows, Truthful, CompletedIsUndone, States

\* So does a record replaced by a truthful one, if it does not claim to be complete.
LEMMA RecordReplaced ==
    ASSUME NEW state \in States, Typed, Truthful(state, applied), UNCHANGED applied,
           state.status = "completed" => \A n \in Nodes : applied[state.id][n] > 0,
           record' = state
    PROVE  RecordInv'
BY DEF RecordInv, Truthful, CompletedIsUndone

\* What _recompute_status leaves standing is complete.
LEMMA RecomputedComplete ==
    ASSUME NEW state \in States
    PROVE  /\ Recomputed(state) \in {"running", "completed", "partial_failed", "failed"}
           /\ Recomputed(state) = "completed"
                => state.status = "completed"
                   \/ \A n \in Nodes : state.acts[n].status = "completed"
BY DEF Recomputed, Some, States, Actions, ActionStatus

\* An action in memory and in the row changes: its new status is truthful.
LEMMA ActionUpdated ==
    ASSUME NEW c \in Calls, NEW n \in Nodes, NEW act \in [status : ActionStatus, attempts : Nat],
           Typed, RecordInv, work[c] \in States, UNCHANGED applied,
           Truthful(work[c], applied),
           act.status = "completed" => applied[work[c].id][n] > 0,
           SetAction(c, n, act)
    PROVE  /\ record' \in States \cup {NoRecord}
           /\ RecordInv'
           /\ work' \in [Calls -> States \cup {NoRecord}]
           /\ work'[c] = [work[c] EXCEPT !.acts[n] = act]
           /\ work'[c] \in States
           /\ Truthful(work'[c], applied')
           /\ \A d \in Calls : d # c => work'[d] = work[d]
<1> DEFINE mem == [work[c] EXCEPT !.acts[n] = act]
           updated == [record EXCEPT !.acts[n] = act]
           new == [updated EXCEPT !.status = Recomputed(updated)]
<1>1. mem \in States /\ mem.id = work[c].id
  BY DEF States, Actions
<1>2. \A m \in Nodes : mem.acts[m] = IF m = n THEN act ELSE work[c].acts[m]
  BY DEF States, Actions
<1>3. Truthful(mem, applied)
  BY <1>1, <1>2 DEF Truthful
<1>4. work' = [work EXCEPT ![c] = mem]
  BY DEF SetAction, Typed
<1>5. CASE UNCHANGED record
  BY <1>1, <1>3, <1>4, <1>5, RecordKeeps DEF Typed, Grows
<1>6. CASE record # NoRecord /\ record.id = work[c].id /\ record' = new
  <2>1. record \in States
    BY <1>6 DEF Typed
  <2>2. updated \in States /\ updated.id = record.id /\ updated.status = record.status
    BY <2>1 DEF States, Actions
  <2>3. \A m \in Nodes : updated.acts[m] = IF m = n THEN act ELSE record.acts[m]
    BY <2>1 DEF States, Actions
  <2>4. Truthful(updated, applied)
    BY <1>6, <2>2, <2>3 DEF Truthful, RecordInv
  <2>5. /\ new \in States
        /\ new.id = updated.id
        /\ new.acts = updated.acts
        /\ new.status = Recomputed(updated)
    <3> HIDE DEF updated
    <3> QED BY <2>2, RecomputedComplete DEF States
  <2>6. Truthful(new, applied)
    BY <2>4, <2>5 DEF Truthful
  <2>7. new.status = "completed" => \A m \in Nodes : applied[new.id][m] > 0
    <3>1. CASE updated.status = "completed"
      BY <1>6, <2>2, <2>5, <3>1 DEF RecordInv, CompletedIsUndone
    <3>2. CASE \A m \in Nodes : updated.acts[m].status = "completed"
      BY <2>4, <2>5, <3>2 DEF Truthful
    <3> HIDE DEF updated, new
    <3> QED BY <2>2, <2>5, <3>1, <3>2, RecomputedComplete
  <2>8. RecordInv'
    <3> HIDE DEF new
    <3> QED BY <1>6, <2>5, <2>6, <2>7, RecordReplaced
  <2>9. record' \in States
    <3> HIDE DEF new
    <3> QED BY <1>6, <2>5
  <2>10. work'[c] = mem /\ \A d \in Calls : d # c => work'[d] = work[d]
    <3> HIDE DEF mem
    <3> QED BY <1>4 DEF Typed
  <2>11. work' \in [Calls -> States \cup {NoRecord}]
    <3> HIDE DEF mem
    <3> QED BY <1>1, <1>4 DEF Typed
  <2>12. Truthful(mem, applied')
    BY <1>3
  <2> QED BY <1>1, <2>8, <2>9, <2>10, <2>11, <2>12
<1> QED BY <1>5, <1>6 DEF SetAction, UpdateAction, Save, SaveFails

----------------------------------------------------------------------------
\* A step of c preserves the invariant if it does for c and the record.
LEMMA StepOfOne ==
    ASSUME NEW c \in Calls, CompInv, Typed', RecordInv', CallInv(c)', Grows,
           \A d \in Calls : d # c => /\ pc'[d] = pc[d]
                                    /\ work'[d] = work[d]
                                    /\ todo'[d] = todo[d]
    PROVE  CompInv'
BY OthersKeep DEF CompInv

LEMMA InitComp == Init => CompInv
BY CompensationAssumption
   DEF Init, CompInv, Typed, RecordInv, CallInv, CompletedIsUndone, Truthful, InLoop,
       InHandler, Calls, Phases

\* A step of c that changes no record, effect or state in memory, and enters no
\* part of the loop, preserves it.
LEMMA PlainStep ==
    ASSUME NEW c \in Calls, CompInv, NEW phase \in Phases, Goto(c, phase),
           phase \notin InLoop \cup {"continuing"},
           UNCHANGED <<record, work, saved, resumed, todo, applied>>
    PROVE  CompInv'
<1>1. Typed'
  BY DEF CompInv, Typed, Goto
<1>2. RecordInv'
  BY RecordKeeps DEF CompInv, Grows
<1>3. CallInv(c)'
  BY DEF CompInv, CallInv, Typed, Goto, Truthful, InLoop, InHandler
<1> QED BY <1>1, <1>2, <1>3, StepOfOne DEF Grows, Goto, CompInv, Typed

\* So does one that forgets the state in memory, if the record stays right.
LEMMA DiscardStep ==
    ASSUME NEW c \in Calls, CompInv, NEW phase \in Phases, Discard(c, phase),
           phase \notin InLoop \cup {"continuing"},
           record' \in States \cup {NoRecord}, RecordInv', UNCHANGED applied
    PROVE  CompInv'
<1>1. Typed'
  BY DEF CompInv, Typed, Discard, Goto
<1>2. CallInv(c)'
  BY DEF CompInv, CallInv, Typed, Discard, Goto, InLoop, InHandler
<1> QED BY <1>1, <1>2, StepOfOne DEF Grows, Discard, Goto, CompInv, Typed

----------------------------------------------------------------------------
\* A state that is saved is on record; a save that fails leaves the record alone.
LEMMA SavedRecord ==
    ASSUME CompInv, NEW state \in States, Truthful(state, applied), UNCHANGED applied,
           state.status = "completed" => \A n \in Nodes : applied[state.id][n] > 0,
           Save(state) \/ UNCHANGED record
    PROVE  record' \in States \cup {NoRecord} /\ RecordInv'
<1>1. CASE Save(state)
  BY <1>1, RecordReplaced DEF CompInv, Save
<1>2. CASE UNCHANGED record
  BY <1>2, RecordKeeps DEF CompInv, Typed, Grows
<1> QED BY <1>1, <1>2

LEMMA OpenStep ==
    ASSUME CompInv, NEW c \in Calls, OpenCompensation(c)
    PROVE  CompInv'
<1> DEFINE state == [id |-> c, status |-> "running",
                     acts |-> [n \in Nodes |-> [status |-> "pending", attempts |-> 0]]]
<1>1. state \in States /\ Truthful(state, applied) /\ state.status # "completed"
  BY DEF States, Actions, ActionStatus, Truthful
<1>2. /\ work' = [work EXCEPT ![c] = state]
      /\ todo' = [todo EXCEPT ![c] = Nodes]
      /\ pc' = [pc EXCEPT ![c] = "looping"]
      /\ UNCHANGED applied
      /\ resumed' = [resumed EXCEPT ![c] = FALSE]
      /\ saved' \in [Calls -> BOOLEAN]
      /\ Save(state) \/ UNCHANGED record
  BY DEF OpenCompensation, Goto, SaveFails, historyVars, CompInv, Typed
<1> HIDE DEF state
<1>3. record' \in States \cup {NoRecord} /\ RecordInv'
  BY <1>1, <1>2, SavedRecord
<1>4. Typed'
  BY <1>1, <1>2, <1>3 DEF CompInv, Typed, Phases
<1>5. CallInv(c)'
  BY <1>1, <1>2 DEF CompInv, Typed, CallInv, InLoop, InHandler
<1> QED BY <1>2, <1>3, <1>4, <1>5, StepOfOne DEF Grows, CompInv, Typed

LEMMA LoadStep ==
    ASSUME CompInv, NEW c \in Calls, LoadCompensation(c)
    PROVE  CompInv'
<1>1. CASE /\ record # NoRecord
           /\ pc' = [pc EXCEPT ![c] = "continuing"]
           /\ work' = [work EXCEPT ![c] = record]
  <2>1. UNCHANGED <<record, saved, resumed, todo, applied>>
    BY DEF LoadCompensation
  <2>2. Typed'
    BY <1>1, <2>1 DEF CompInv, Typed, Phases
  <2>3. RecordInv'
    BY <2>1, RecordKeeps DEF CompInv, Grows
  <2>4. CallInv(c)'
    BY <1>1, <2>1 DEF CompInv, Typed, CallInv, RecordInv, InLoop, InHandler, Truthful
  <2> QED BY <1>1, <2>1, <2>2, <2>3, <2>4, StepOfOne DEF Grows, CompInv, Typed
<1>2. CASE Goto(c, "waiting") /\ UNCHANGED work
  BY <1>2, PlainStep DEF LoadCompensation, Phases, InLoop, InHandler
<1> QED BY <1>1, <1>2 DEF LoadCompensation, Goto

LEMMA ContinueStep ==
    ASSUME CompInv, NEW c \in Calls, ContinueCompensation(c)
    PROVE  CompInv'
<1> DEFINE state == [work[c] EXCEPT !.status = "running"]
<1>1. work[c] \in States /\ Truthful(work[c], applied)
  BY DEF ContinueCompensation, CompInv, CallInv
<1>2. /\ state \in States
      /\ state.acts = work[c].acts
      /\ state.status = "running"
      /\ Truthful(state, applied)
  BY <1>1 DEF States, Truthful
<1>3. UNCHANGED applied
  BY DEF ContinueCompensation, historyVars
<1>4. CASE /\ Save(state)
           /\ Goto(c, "looping")
           /\ work' = [work EXCEPT ![c] = state]
           /\ saved' = [saved EXCEPT ![c] = TRUE]
           /\ todo' = [todo EXCEPT ![c] = {n \in Nodes : Outstanding(state.acts[n])}]
           /\ resumed' = [resumed EXCEPT ![c] = TRUE]
  <2> HIDE DEF state
  <2>1. record' \in States \cup {NoRecord} /\ RecordInv'
    BY <1>2, <1>3, <1>4, SavedRecord
  <2>2. Typed'
    BY <1>2, <1>3, <1>4, <2>1 DEF CompInv, Typed, Goto, Phases
  <2>3. \A n \in Nodes : state.acts[n].status \in ActionStatus
    BY <1>2 DEF States, Actions
  <2>4. \A n \in Nodes \ todo'[c] : state.acts[n].status \in Ended
    BY <1>4, <2>3 DEF CompInv, Typed, Outstanding, Ended, ActionStatus
  <2>5. work'[c] = state /\ pc'[c] = "looping"
    BY <1>4 DEF CompInv, Typed, Goto
  <2>6. CallInv(c)'
    BY <1>2, <1>3, <2>4, <2>5 DEF CallInv, InLoop, InHandler
  <2> QED BY <1>3, <1>4, <2>1, <2>2, <2>6, StepOfOne DEF Grows, Goto, CompInv, Typed
<1>5. CASE SaveFails /\ Discard(c, "over")
  BY <1>2, <1>3, <1>5, SavedRecord, DiscardStep DEF SaveFails, Phases, InLoop, InHandler
<1> QED BY <1>4, <1>5 DEF ContinueCompensation

LEMMA StartActionStep ==
    ASSUME CompInv, NEW c \in Calls, NEW n \in Nodes, StartAction(c, n)
    PROVE  CompInv'
<1> DEFINE act == [status |-> "running", attempts |-> work[c].acts[n].attempts + 1]
<1>1. work[c] \in States /\ Truthful(work[c], applied)
  BY DEF StartAction, CompInv, CallInv, InLoop
<1>2. act \in [status : ActionStatus, attempts : Nat] /\ act.status = "running"
  BY <1>1 DEF States, Actions, ActionStatus
<1>3. /\ SetAction(c, n, act)
      /\ pc[c] = "looping"
      /\ n \in todo[c]
      /\ todo' = [todo EXCEPT ![c] = @ \ {n}]
      /\ Goto(c, "handling")
      /\ UNCHANGED <<saved, resumed, applied>>
  BY DEF StartAction, historyVars
<1> HIDE DEF act
<1>4. /\ record' \in States \cup {NoRecord}
      /\ RecordInv'
      /\ work' \in [Calls -> States \cup {NoRecord}]
      /\ work'[c] = [work[c] EXCEPT !.acts[n] = act]
      /\ work'[c] \in States
      /\ Truthful(work'[c], applied')
      /\ \A d \in Calls : d # c => work'[d] = work[d]
  BY <1>1, <1>2, <1>3, ActionUpdated DEF CompInv
<1>5. Typed'
  BY <1>3, <1>4 DEF CompInv, Typed, Goto, Phases
<1>6. \A m \in Nodes : work'[c].acts[m] = IF m = n THEN act ELSE work[c].acts[m]
  BY <1>1, <1>4 DEF States, Actions
<1>7. Handling(c, n)'
  BY <1>2, <1>3, <1>6 DEF Handling, CompInv, CallInv, Typed, Goto
<1>8. CallInv(c)'
  BY <1>3, <1>4, <1>7 DEF CallInv, CompInv, Typed, Goto, InLoop, InHandler
<1> QED BY <1>3, <1>4, <1>5, <1>8, StepOfOne DEF Grows, Goto, CompInv, Typed

\* The action whose handler runs is the one the state in memory tells.
LEMMA CurrentHandled ==
    ASSUME NEW c \in Calls, CompInv, pc[c] \in InHandler
    PROVE  Handling(c, Current(c))
<1>1. PICK n \in Nodes : Handling(c, n)
  BY DEF CompInv, CallInv
<1>2. \A m \in Nodes \ todo[c] : work[c].acts[m].status = "running" => m = n
  BY <1>1 DEF Handling, Ended
<1>3. Current(c) = n
  BY <1>1, <1>2 DEF Current, Handling
<1> QED BY <1>1, <1>3

LEMMA HandlerStep ==
    ASSUME CompInv, NEW c \in Calls, RunHandler(c)
    PROVE  CompInv'
<1>0. PICK n \in Nodes : n = Current(c) /\ Handling(c, n)
  BY CurrentHandled DEF RunHandler, InHandler, Handling
<1>1. pc[c] = "handling" /\ Handling(c, n)
  BY <1>0 DEF RunHandler
<1>2. work[c] \in States /\ work[c].id \in Calls /\ n \in Nodes
  BY <1>1 DEF CompInv, CallInv, InLoop, InHandler, States, Handling
<1>3. UNCHANGED <<record, work, saved, resumed, todo>>
  BY DEF RunHandler
<1>4. /\ applied' = [applied EXCEPT ![work[c].id][n] = @ + 1]
      /\ pc' = [pc EXCEPT ![c] = "handled"] \/ pc' = [pc EXCEPT ![c] = "errored"]
  BY <1>0 DEF RunHandler, Goto
<1>5. /\ applied' \in [Calls -> [Nodes -> Nat]]
      /\ Grows
      /\ pc'[c] = "handled" => applied'[work[c].id][n] > 0
  <2>1. applied \in [Calls -> [Nodes -> Nat]] /\ pc \in [Calls -> Phases]
    BY DEF CompInv, Typed
  <2> DEFINE id == work[c].id
  <2>2. id \in Calls /\ n \in Nodes
    BY <1>2
  <2> HIDE DEF id
  <2>3. applied' = [applied EXCEPT ![id][n] = applied[id][n] + 1]
    BY <1>4 DEF id
  <2>4. \A d \in Calls, m \in Nodes :
            applied'[d][m] = IF d = id /\ m = n THEN applied[d][m] + 1 ELSE applied[d][m]
    BY <2>1, <2>2, <2>3
  <2>5. applied' \in [Calls -> [Nodes -> Nat]]
    BY <2>1, <2>2, <2>3
  <2>6. applied'[id][n] > 0
    BY <2>1, <2>2, <2>4
  <2>7. Grows
    BY <2>1, <2>4 DEF Grows
  <2> QED BY <2>5, <2>6, <2>7 DEF id
<1>6. Typed'
  BY <1>3, <1>4, <1>5 DEF CompInv, Typed, Phases
<1>7. RecordInv'
  BY <1>3, <1>5, RecordKeeps DEF CompInv
<1>8. Handling(c, n)'
  BY <1>1, <1>3, <1>5 DEF Handling
<1>9. Truthful(work[c], applied)'
  BY <1>2, <1>3, <1>5, <1>1 DEF CompInv, CallInv, Truthful, Grows, InLoop, InHandler
<1>10. pc'[c] \in {"handled", "errored"}
  BY <1>4 DEF CompInv, Typed
<1>11. CallInv(c)'
  BY <1>2, <1>3, <1>8, <1>9, <1>10 DEF CallInv, InLoop, InHandler
<1> QED BY <1>3, <1>4, <1>5, <1>6, <1>7, <1>11, StepOfOne DEF CompInv, Typed

LEMMA EndActionStep ==
    ASSUME CompInv, NEW c \in Calls, NEW status \in Ended, NEW phase \in {"looping", "broken"},
           EndAction(c, status, phase), pc[c] \in InHandler,
           status = "completed" => pc[c] = "handled",
           phase = "broken" => status = "failed"
    PROVE  CompInv'
<1> DEFINE n == Current(c)
           act == [work[c].acts[n] EXCEPT !.status = status]
<1>1. Handling(c, n) /\ n \in Nodes \ todo[c]
  BY CurrentHandled DEF Handling
<1>2. work[c] \in States /\ Truthful(work[c], applied)
  BY DEF CompInv, CallInv, InLoop
<1>3. act \in [status : ActionStatus, attempts : Nat] /\ act.status = status
  BY <1>1, <1>2 DEF States, Actions, ActionStatus, Ended
<1>4. SetAction(c, n, act) /\ Goto(c, phase) /\ UNCHANGED <<saved, resumed, todo, applied>>
  BY DEF EndAction, historyVars
<1>5. status = "completed" => applied[work[c].id][n] > 0
  BY <1>1 DEF Handling
<1> HIDE DEF n, act
<1>6. /\ record' \in States \cup {NoRecord}
      /\ RecordInv'
      /\ work' \in [Calls -> States \cup {NoRecord}]
      /\ work'[c] = [work[c] EXCEPT !.acts[n] = act]
      /\ work'[c] \in States
      /\ Truthful(work'[c], applied')
      /\ \A d \in Calls : d # c => work'[d] = work[d]
  BY <1>1, <1>2, <1>3, <1>4, <1>5, ActionUpdated DEF CompInv
<1>7. Typed'
  BY <1>4, <1>6 DEF CompInv, Typed, Goto, Phases
<1>8. \A m \in Nodes : work'[c].acts[m] = IF m = n THEN act ELSE work[c].acts[m]
  BY <1>2, <1>6 DEF States, Actions
<1>9. \A m \in Nodes \ todo'[c] : work'[c].acts[m].status \in Ended
  BY <1>1, <1>3, <1>4, <1>8 DEF Handling
<1>10. phase = "broken" => Some(work'[c].acts, {"failed"})
  BY <1>1, <1>3, <1>8 DEF Some
<1>11. pc'[c] = phase
  BY <1>4 DEF Goto, CompInv, Typed
<1>12. CallInv(c)'
  BY <1>6, <1>9, <1>10, <1>11 DEF CallInv, InLoop, InHandler, Some
<1> QED BY <1>4, <1>6, <1>7, <1>12, StepOfOne DEF Grows, Goto, CompInv, Typed

\* The final state is truthful and complete only if every handler took effect.
LEMMA FinalState ==
    ASSUME CompInv, NEW c \in Calls, LoopIsOver(c),
           NEW state, state = [work[c] EXCEPT !.status = FinalStatus(c)]
    PROVE  /\ state \in States
           /\ Truthful(state, applied)
           /\ state.status = "completed" => \A n \in Nodes : applied[state.id][n] > 0
<1>1. work[c] \in States /\ Truthful(work[c], applied)
  BY DEF LoopIsOver, CompInv, CallInv, InLoop
<1>2. FinalStatus(c) \in {"completed", "failed", "partial_failed"}
  BY DEF FinalStatus
<1>3. /\ state \in States
      /\ state.id = work[c].id
      /\ state.acts = work[c].acts
      /\ state.status = FinalStatus(c)
  BY <1>1, <1>2 DEF States
<1>4. ASSUME FinalStatus(c) = "completed", NEW n \in Nodes
      PROVE  work[c].acts[n].status = "completed"
  <2>1. ~Some(work[c].acts, {"failed"})
    BY <1>4 DEF FinalStatus
  <2>2. pc[c] = "looping" /\ todo[c] = {}
    BY <2>1 DEF LoopIsOver, CompInv, CallInv
  <2> QED BY <2>1, <2>2 DEF CompInv, CallInv, Some, Ended
<1> QED BY <1>1, <1>3, <1>4 DEF Truthful

LEMMA FinishStep ==
    ASSUME CompInv, NEW c \in Calls, FinishCompensation(c) \/ FinishContinuation(c)
    PROVE  CompInv'
<1> DEFINE state == [work[c] EXCEPT !.status = FinalStatus(c)]
<1>1. LoopIsOver(c) /\ UNCHANGED applied
  BY DEF FinishCompensation, FinishContinuation, historyVars
<1>2. Save(state) \/ UNCHANGED record
  BY DEF FinishCompensation, FinishContinuation, SaveFails
<1>3. \E phase \in {"closing", "waiting", "over"} : Discard(c, phase)
  BY DEF FinishCompensation, FinishContinuation
<1>4. /\ state \in States
      /\ Truthful(state, applied)
      /\ state.status = "completed" => \A n \in Nodes : applied[state.id][n] > 0
  BY <1>1, FinalState
<1> HIDE DEF state
<1>5. record' \in States \cup {NoRecord} /\ RecordInv'
  BY <1>1, <1>2, <1>4, SavedRecord
<1> QED BY <1>1, <1>3, <1>5, DiscardStep DEF Phases, InLoop, InHandler

LEMMA StepComp == CompInv /\ [Next]_vars => CompInv'
<1> SUFFICES ASSUME CompInv, [Next]_vars
             PROVE  CompInv'
  OBVIOUS
<1>1. CASE UNCHANGED vars
  BY <1>1 DEF CompInv, Typed, RecordInv, CallInv, CompletedIsUndone, Truthful, Handling, Some,
              vars, callVars, historyVars
<1>2. ASSUME NEW c \in Calls, CompleteAction(c) \/ FailAction(c)
      PROVE  CompInv'
  BY <1>2, EndActionStep DEF CompleteAction, FailAction, InHandler, Ended
<1>3. ASSUME NEW c \in Calls, AcquireForResume(c) \/ GoForward(c) \/ CloseCall(c)
      PROVE  CompInv'
  <2>1. UNCHANGED <<record, work, saved, resumed, todo, applied>>
    BY <1>3 DEF AcquireForResume, GoForward, CloseCall, historyVars
  <2>2. \E phase \in {"forward", "over", "closing", "failed"} : Goto(c, phase)
    BY <1>3 DEF AcquireForResume, GoForward, CloseCall
  <2> QED BY <2>1, <2>2, PlainStep DEF Phases, InLoop, InHandler
<1>4. ASSUME NEW c \in Calls, Crash(c)
      PROVE  CompInv'
  <2>1. Discard(c, "over") /\ UNCHANGED <<record, applied>>
    BY <1>4 DEF Crash, historyVars
  <2>2. RecordInv'
    BY <2>1, RecordKeeps DEF CompInv, Grows
  <2> QED BY <2>1, <2>2, DiscardStep DEF CompInv, Typed, Phases, InLoop, InHandler
<1>5. ASSUME NEW c \in Calls, LeaseExpires(c)
      PROVE  CompInv'
  BY <1>5 DEF LeaseExpires, CompInv, Typed, RecordInv, CallInv, CompletedIsUndone, Truthful,
              Handling, Some, callVars, historyVars
<1> QED BY <1>1, <1>2, <1>3, <1>4, <1>5, OpenStep, LoadStep, ContinueStep,
           StartActionStep, HandlerStep, FinishStep DEF Next

\* dag.py:4132-4146, 4307-4316 and _recompute_status: whoever crashed, resumed
\* the compensation or wrote over its row, a completed one has undone all nodes.
THEOREM CompletedMeansUndone == Spec => []CompletedIsUndone
<1>1. CompInv => CompletedIsUndone
  BY DEF CompInv, RecordInv
<1> QED BY <1>1, InitComp, StepComp, PTL DEF Spec

----------------------------------------------------------------------------
\* What CompTypeOK says beyond Typed.
RestTyped ==
    /\ continueOnFailure \in BOOLEAN
    /\ tenant \in SUBSET Calls
    /\ overlapped \in BOOLEAN
    /\ faults \in 0 .. MaxFaults

LEMMA RestTypedStep == RestTyped /\ [Next]_vars => RestTyped'
<1> SUFFICES ASSUME RestTyped, [Next]_vars
             PROVE  RestTyped'
  OBVIOUS
<1> USE CompensationAssumption
<1>1. UNCHANGED vars => RestTyped'
  BY DEF RestTyped, vars, callVars, historyVars
<1>2. Fault => faults' \in 0 .. MaxFaults
  BY DEF Fault, RestTyped
<1>3. ASSUME NEW c \in Calls, NEW n, NEW act, SetAction(c, n, act)
      PROVE  faults' \in 0 .. MaxFaults
  BY <1>2, <1>3 DEF SetAction, UpdateAction, Save, SaveFails, RestTyped
<1>4. ASSUME NEW c \in Calls, NEW n \in Nodes, StartAction(c, n)
      PROVE  RestTyped'
  <2>1. faults' \in 0 .. MaxFaults
    BY <1>3, <1>4 DEF StartAction
  <2> QED BY <1>4, <2>1 DEF StartAction, RestTyped, historyVars
<1>5. ASSUME NEW c \in Calls, RunHandler(c)
      PROVE  RestTyped'
  BY <1>2, <1>5 DEF RunHandler, RestTyped
<1>6. ASSUME NEW c \in Calls, OpenCompensation(c) \/ ContinueCompensation(c)
      PROVE  RestTyped'
  BY <1>2, <1>6 DEF OpenCompensation, ContinueCompensation, Save, SaveFails, RestTyped,
                    historyVars
<1>7. ASSUME NEW c \in Calls, FinishCompensation(c) \/ FinishContinuation(c)
      PROVE  RestTyped'
  BY <1>2, <1>7 DEF FinishCompensation, FinishContinuation, Save, SaveFails, RestTyped,
                    historyVars
<1>8. ASSUME NEW c \in Calls, LoadCompensation(c) \/ AcquireForResume(c) \/ GoForward(c)
                               \/ CloseCall(c) \/ Crash(c) \/ LeaseExpires(c)
      PROVE  RestTyped'
  BY <1>2, <1>8 DEF LoadCompensation, AcquireForResume, GoForward, CloseCall, Crash,
                    LeaseExpires, RestTyped, callVars, historyVars
<1>9. ASSUME NEW c \in Calls, NEW status, NEW phase, EndAction(c, status, phase)
      PROVE  RestTyped'
  <2>1. faults' \in 0 .. MaxFaults
    BY <1>3, <1>9 DEF EndAction
  <2> QED BY <1>9, <2>1 DEF EndAction, RestTyped, historyVars
<1> QED BY <1>1, <1>4, <1>5, <1>6, <1>7, <1>8, <1>9 DEF Next, CompleteAction, FailAction

\* The store, the calls' memories and the bound on faults keep their types.
THEOREM CompTypeCorrect == Spec => []CompTypeOK
<1>1. Init => RestTyped
  <2>1. {Executor} \in SUBSET Calls /\ 0 \in 0 .. MaxFaults
    BY CompensationAssumption DEF Calls
  <2> QED BY <2>1 DEF Init, RestTyped
<1>2. CompInv /\ RestTyped => CompTypeOK
  BY DEF CompInv, Typed, RestTyped, CompTypeOK
<1> QED BY <1>1, <1>2, InitComp, StepComp, RestTypedStep, PTL DEF Spec

----------------------------------------------------------------------------
(* One call at a time.  Whoever runs a handler again after it took effect  *)
(* found its action on record without its completion, and a fault paid for *)
(* that: the crash, the failed write or the lost answer.  So does whoever  *)
(* starts an action it found running.                                      *)
Counted(act) ==
    /\ act.status = "pending" => act.attempts = 0
    /\ act.attempts <= MaxAttempts + faults
Paid(state, n) ==
    /\ state.acts[n].status # "completed" => applied[state.id][n] <= faults
    /\ state.acts[n].status = "running" => state.acts[n].attempts < MaxAttempts + faults

\* c runs the handler of n.
AtHand(c, n) == pc[c] \in InHandler /\ n \notin todo[c] /\ work[c].acts[n].status = "running"

\* c has not created a compensation yet.
Uncreated(c) ==
    \/ pc[c] \in {"idle", "continuing", "waiting", "forward", "failed"}
    \/ pc[c] \in InLoop /\ resumed[c]
Carries(c) == pc[c] \in InLoop \cup {"continuing"}

CarriedInv(c) ==
    /\ \A n \in Nodes : /\ Counted(work[c].acts[n])
                        /\ ~AtHand(c, n) => Paid(work[c], n)
                        /\ AtHand(c, n) /\ pc[c] # "handled" => applied[work[c].id][n] <= faults
    /\ pc[c] \in InLoop => \A n \in todo[c] : Outstanding(work[c].acts[n])
    /\ pc[c] \in InLoop /\ ~saved[c] /\ record # NoRecord => record.id # work[c].id
WrittenInv ==
    record # NoRecord =>
        \A n \in Nodes :
            /\ Counted(record.acts[n])
            /\ Paid(record, n) \/ \E c \in Calls : AtHand(c, n) /\ work[c].id = record.id
CreatedInv ==
    \A c \in Calls : Uncreated(c) =>
        /\ record # NoRecord => record.id # c
        /\ \A n \in Nodes : applied[c][n] = 0
        /\ \A d \in Calls : Carries(d) => work[d].id # c

Serial ==
    /\ \A c, d \in Calls : c = d \/ ~Active(c) \/ ~Active(d)
    /\ \A c \in Calls, n \in Nodes : applied[c][n] <= 1 + faults
    /\ \A c \in Calls : Carries(c) => CarriedInv(c)
    /\ WrittenInv
    /\ CreatedInv
SerialInv == ~overlapped => Serial

LEMMA FaultsAreNat ==
    ASSUME RestTyped
    PROVE  faults \in Nat /\ MaxAttempts \in Nat /\ MaxAttempts > 0
BY CompensationAssumption DEF RestTyped

\* Who is at work is alone.
LEMMA AloneAtWork ==
    ASSUME CompInv, Serial, NEW c \in Calls, Active(c)
    PROVE  \A d \in Calls : d # c => ~Active(d) /\ ~Carries(d) /\ \A n \in Nodes : ~AtHand(d, n)
BY DEF Serial, Active, Carries, AtHand, InLoop, InHandler

LEMMA OneAtHand ==
    ASSUME CompInv, NEW c \in Calls
    PROVE  /\ pc[c] \notin InHandler => \A n \in Nodes : ~AtHand(c, n)
           /\ pc[c] \in InHandler => /\ Current(c) \in Nodes \ todo[c] /\ AtHand(c, Current(c))
                                     /\ \A n \in Nodes : AtHand(c, n) => n = Current(c)
<1>1. CASE pc[c] \notin InHandler
  BY <1>1 DEF AtHand
<1>2. CASE pc[c] \in InHandler
  <2>1. Handling(c, Current(c))
    BY <1>2, CurrentHandled
  <2> QED BY <1>2, <2>1 DEF Handling, AtHand, Ended
<1> QED BY <1>1, <1>2

\* A step of c, seen from the other calls.
LEMMA SerialOfOne ==
    ASSUME CompInv, Serial, NEW c \in Calls, \A d \in Calls : d # c => ~Active(d) /\ pc'[d] = pc[d],
           \A d \in Calls, n \in Nodes : applied'[d][n] <= 1 + faults',
           Carries(c)' => CarriedInv(c)', WrittenInv', CreatedInv'
    PROVE  Serial'
<1>1. \A d \in Calls : d # c => ~Active(d)' /\ ~Carries(d)'
  BY DEF Active, Carries, InLoop, InHandler
<1> QED BY <1>1 DEF Serial

\* The record, when nobody is in a handler, and after a fault.
LEMMA WrittenQuiet ==
    ASSUME Serial, \A c \in Calls, n \in Nodes : ~AtHand(c, n), record # NoRecord, NEW n \in Nodes
    PROVE  Counted(record.acts[n]) /\ Paid(record, n)
BY DEF Serial, WrittenInv

LEMMA WrittenStays ==
    ASSUME Serial, \A c \in Calls, n \in Nodes : ~AtHand(c, n), UNCHANGED <<record, applied, faults>>
    PROVE  WrittenInv'
<1> SUFFICES ASSUME record # NoRecord, NEW n \in Nodes
             PROVE  Counted(record.acts[n])' /\ Paid(record, n)'
  BY DEF WrittenInv
<1>1. Counted(record.acts[n]) /\ Paid(record, n)
  BY WrittenQuiet
<1> QED BY <1>1 DEF Counted, Paid

LEMMA WrittenAfterFault ==
    ASSUME CompInv, RestTyped, Serial, UNCHANGED <<record, applied>>, faults' = faults + 1
    PROVE  WrittenInv'
<1> SUFFICES ASSUME record # NoRecord, NEW n \in Nodes
             PROVE  Counted(record.acts[n])' /\ Paid(record, n)'
  BY DEF WrittenInv
<1>1. /\ record.id \in Calls /\ record.acts[n].attempts \in Nat
      /\ applied[record.id][n] \in Nat /\ applied[record.id][n] <= 1 + faults
  BY DEF CompInv, Typed, States, Actions, Serial
<1>2. Counted(record.acts[n])
  BY DEF Serial, WrittenInv
<1>3. Counted(record.acts[n])' /\ (record.acts[n].status = "running" => record.acts[n].attempts < MaxAttempts + faults')
  BY <1>1, <1>2, FaultsAreNat DEF Counted
<1> QED BY <1>1, <1>3, FaultsAreNat DEF Paid

\* Nothing is created: what was true of the calls that have created none stays.
LEMMA CreatedStays ==
    ASSUME Serial, \A d \in Calls : Uncreated(d)' => Uncreated(d), UNCHANGED applied,
           \A d \in Calls : Carries(d)' => \/ Carries(d) /\ work'[d].id = work[d].id
                                           \/ record # NoRecord /\ work'[d].id = record.id,
           record' # NoRecord => \/ record # NoRecord /\ record'.id = record.id
                                 \/ \E d \in Calls : Carries(d) /\ record'.id = work[d].id
    PROVE  CreatedInv'
BY DEF Serial, CreatedInv

\* c leaves its compensation, or is outside it.
LEMMA SerialLeaves ==
    ASSUME CompInv, CompInv', RestTyped, Serial, NEW c \in Calls, Active(c),
           \A d \in Calls : d # c => pc'[d] = pc[d] /\ resumed'[d] = resumed[d] /\ work'[d] = work[d],
           pc'[c] \in {"closing", "waiting", "over", "forward", "failed"},
           pc'[c] \in {"waiting", "forward", "failed"} => Uncreated(c),
           UNCHANGED applied, faults' \in {faults, faults + 1}, WrittenInv',
           record' # NoRecord => \/ record # NoRecord /\ record'.id = record.id
                                 \/ Carries(c) /\ record'.id = work[c].id
    PROVE  Serial'
<1>1. ~Carries(c)' /\ (Uncreated(c)' => Uncreated(c))
  BY DEF Carries, Uncreated, InLoop, InHandler
<1>2. \A d \in Calls : d # c => (Uncreated(d)' => Uncreated(d)) /\ (Carries(d)' => Carries(d))
  BY DEF Uncreated, Carries
<1>3. CreatedInv'
  BY <1>1, <1>2, CreatedStays
<1>4. \A d \in Calls, n \in Nodes : applied'[d][n] <= 1 + faults'
  BY FaultsAreNat DEF Serial, CompInv, Typed
<1> QED BY <1>1, <1>3, <1>4, AloneAtWork, SerialOfOne

LEMMA DiscardMoves ==
    ASSUME CompInv, NEW c \in Calls, NEW phase, Discard(c, phase)
    PROVE  /\ pc'[c] = phase
           /\ \A d \in Calls : d # c => pc'[d] = pc[d] /\ resumed'[d] = resumed[d] /\ work'[d] = work[d]
BY DEF Discard, Goto, CompInv, Typed

LEMMA CrashIsSerial ==
    ASSUME CompInv, CompInv', RestTyped, Serial, NEW c \in Calls, Crash(c)
    PROVE  Serial'
<1>1. Discard(c, "over") /\ UNCHANGED <<record, applied>> /\ faults' = faults + 1 /\ Active(c)
  BY DEF Crash, historyVars, Fault
<1>2. WrittenInv'
  BY <1>1, WrittenAfterFault
<1> QED BY <1>1, <1>2, DiscardMoves, SerialLeaves

LEMMA MoveIsSerial ==
    ASSUME CompInv, CompInv', RestTyped, Serial, NEW c \in Calls,
           AcquireForResume(c) \/ GoForward(c) \/ CloseCall(c)
    PROVE  Serial'
<1>1. /\ UNCHANGED <<record, work, resumed, applied, faults>>
      /\ pc[c] \in {"waiting", "forward", "closing"}
      /\ \E phase \in {"forward", "over", "closing", "failed"} :
            Goto(c, phase) /\ (phase \in {"forward", "failed"} => pc[c] \in {"waiting", "forward"})
  BY DEF AcquireForResume, GoForward, CloseCall, historyVars
<1>2. Active(c) /\ \A n \in Nodes : ~AtHand(c, n)
  BY <1>1 DEF Active, AtHand, InHandler
<1>3. WrittenInv'
  BY <1>1, <1>2, AloneAtWork, WrittenStays
<1>4. /\ \A d \in Calls : d # c => pc'[d] = pc[d] /\ resumed'[d] = resumed[d] /\ work'[d] = work[d]
      /\ pc'[c] \in {"closing", "waiting", "over", "forward", "failed"}
      /\ pc'[c] \in {"waiting", "forward", "failed"} => Uncreated(c)
  BY <1>1 DEF Goto, CompInv, Typed, Uncreated
<1> QED BY <1>1, <1>2, <1>3, <1>4, SerialLeaves

LEMMA FinishIsSerial ==
    ASSUME CompInv, CompInv', RestTyped, Serial, NEW c \in Calls,
           FinishCompensation(c) \/ FinishContinuation(c)
    PROVE  Serial'
<1>1. PICK state : state = [work[c] EXCEPT !.status = FinalStatus(c)]
  OBVIOUS
<1>2. /\ LoopIsOver(c) /\ UNCHANGED applied
      /\ \/ record' = state /\ UNCHANGED faults
         \/ UNCHANGED <<record, faults>>
         \/ UNCHANGED record /\ faults' = faults + 1
      /\ \E phase \in {"closing", "waiting", "over"} : Discard(c, phase) /\ (phase = "waiting" => resumed[c])
  BY <1>1 DEF FinishCompensation, FinishContinuation, historyVars, Save, SaveFails, Fault
<1>3. pc[c] \in {"looping", "broken"} /\ pc[c] \in InLoop /\ Carries(c) /\ Active(c) /\ \A n \in Nodes : ~AtHand(c, n)
  BY <1>2 DEF LoopIsOver, InLoop, InHandler, Carries, Active, AtHand
<1>4. state.id = work[c].id /\ state.acts = work[c].acts
  <2>1. work[c] \in States
    BY <1>3 DEF CompInv, CallInv
  <2> QED BY <1>1, <2>1 DEF States
<1>5. WrittenInv'
  <2>1. CASE record' = state /\ UNCHANGED faults
    <3>1. \A n \in Nodes : Counted(work[c].acts[n]) /\ Paid(work[c], n)
      BY <1>3 DEF Serial, CarriedInv
    <3>2. \A n \in Nodes : Counted(record.acts[n])' /\ Paid(record, n)'
      BY <1>2, <1>4, <2>1, <3>1 DEF Counted, Paid
    <3> QED BY <3>2 DEF WrittenInv
  <2>2. CASE UNCHANGED <<record, faults>>
    BY <1>2, <1>3, <2>2, AloneAtWork, WrittenStays
  <2>3. CASE UNCHANGED record /\ faults' = faults + 1
    BY <1>2, <2>3, WrittenAfterFault
  <2> QED BY <1>2, <2>1, <2>2, <2>3
<1>6. PICK phase \in {"closing", "waiting", "over"} : Discard(c, phase) /\ (phase = "waiting" => Uncreated(c))
  BY <1>2, <1>3 DEF Uncreated
<1> QED BY <1>2, <1>3, <1>4, <1>5, <1>6, DiscardMoves, SerialLeaves

LEMMA LoadIsSerial ==
    ASSUME CompInv, CompInv', RestTyped, Serial, NEW c \in Calls, LoadCompensation(c), ~overlapped'
    PROVE  Serial'
<1>1. (\A d \in Calls : ~Active(d)) /\ UNCHANGED <<record, applied, faults, saved, resumed, todo>> /\ pc[c] = "idle"
  BY DEF LoadCompensation
<1>2. \A d \in Calls : ~Carries(d) /\ \A n \in Nodes : ~AtHand(d, n)
  BY <1>1 DEF Active, AtHand, Carries, InLoop, InHandler
<1>3. WrittenInv'
  BY <1>1, <1>2, WrittenStays
<1>4. /\ pc'[c] \in {"continuing", "waiting"}
      /\ pc'[c] = "continuing" => work'[c] = record /\ record # NoRecord
      /\ \A d \in Calls : d # c => pc'[d] = pc[d] /\ work'[d] = work[d]
  BY DEF LoadCompensation, Goto, CompInv, Typed
<1>5. \A d \in Calls : (Uncreated(d)' => Uncreated(d)) /\ (Carries(d)' => d = c /\ pc'[c] = "continuing")
  <2>1. ASSUME NEW d \in Calls, d # c
        PROVE  (Uncreated(d)' => Uncreated(d)) /\ ~Carries(d)'
    BY <1>1, <1>2, <1>4, <2>1 DEF Uncreated, Carries
  <2>2. Uncreated(c) /\ (Carries(c)' => pc'[c] = "continuing")
    BY <1>1, <1>4 DEF Uncreated, Carries, InLoop, InHandler
  <2> QED BY <2>1, <2>2
<1>6. CreatedInv'
  BY <1>1, <1>4, <1>5, CreatedStays
<1>7. ASSUME Carries(c)' PROVE CarriedInv(c)'
  <2>1. work'[c] = record /\ record # NoRecord /\ pc'[c] = "continuing"
    BY <1>4, <1>5, <1>7
  <2>2. \A n \in Nodes : Counted(record.acts[n]) /\ Paid(record, n)
    BY <1>2, <2>1, WrittenQuiet
  <2>3. pc'[c] \notin InLoop /\ pc'[c] \notin InHandler
    BY <2>1 DEF InLoop, InHandler
  <2> QED BY <1>1, <2>1, <2>2, <2>3 DEF CarriedInv, Counted, Paid, AtHand
<1>8. \A d \in Calls, n \in Nodes : applied'[d][n] <= 1 + faults'
  BY <1>1 DEF Serial
<1> QED BY <1>1, <1>3, <1>4, <1>6, <1>7, <1>8, SerialOfOne

LEMMA OpenIsSerial ==
    ASSUME CompInv, CompInv', RestTyped, Serial, NEW c \in Calls, OpenCompensation(c)
    PROVE  Serial'
<1> DEFINE state == [id |-> c, status |-> "running",
                     acts |-> [n \in Nodes |-> [status |-> "pending", attempts |-> 0]]]
<1>1. /\ state.id = c
      /\ \A n \in Nodes : state.acts[n].status = "pending" /\ state.acts[n].attempts = 0
  OBVIOUS
<1>2. /\ pc[c] = "failed"
      /\ pc' = [pc EXCEPT ![c] = "looping"]
      /\ work' = [work EXCEPT ![c] = state]
      /\ todo' = [todo EXCEPT ![c] = Nodes]
      /\ resumed' = [resumed EXCEPT ![c] = FALSE]
      /\ UNCHANGED applied
      /\ \/ record' = state /\ UNCHANGED faults /\ saved' = [saved EXCEPT ![c] = TRUE]
         \/ UNCHANGED record /\ faults' = faults + 1 /\ saved' = [saved EXCEPT ![c] = FALSE]
  BY DEF OpenCompensation, Goto, historyVars, Save, SaveFails, Fault
<1> HIDE DEF state
<1>3. /\ pc'[c] = "looping" /\ work'[c] = state /\ todo'[c] = Nodes /\ resumed'[c] = FALSE
      /\ \A d \in Calls : d # c => pc'[d] = pc[d] /\ work'[d] = work[d] /\ resumed'[d] = resumed[d]
      /\ saved'[c] \/ UNCHANGED record
  BY <1>2 DEF CompInv, Typed
<1>4. Active(c) /\ Uncreated(c) /\ ~Uncreated(c)'
  BY <1>2, <1>3 DEF Active, Uncreated, InLoop, InHandler
<1>5. /\ record # NoRecord => record.id # c
      /\ \A n \in Nodes : applied[c][n] = 0
  BY <1>4 DEF Serial, CreatedInv
<1>6. faults' \in Nat /\ faults' >= faults
  BY <1>2, FaultsAreNat
<1>7. \A n \in Nodes : Counted(state.acts[n])' /\ Paid(state, n)'
  BY <1>1, <1>2, <1>5, <1>6, FaultsAreNat DEF Counted, Paid
<1>8. WrittenInv'
  <2>1. CASE record' = state
    BY <1>7, <2>1 DEF WrittenInv, Counted, Paid
  <2>2. CASE UNCHANGED record /\ faults' = faults + 1
    BY <1>2, <2>2, WrittenAfterFault
  <2> QED BY <1>2, <2>1, <2>2
<1>9. CarriedInv(c)'
  <2>1. \A n \in Nodes : ~AtHand(c, n)'
    BY <1>3 DEF AtHand, InHandler
  <2>2. \A n \in Nodes : Counted(work[c].acts[n])' /\ Paid(work[c], n)'
    BY <1>3, <1>7 DEF Counted, Paid
  <2>3. \A n \in todo'[c] : Outstanding(work[c].acts[n])'
    BY <1>1, <1>3 DEF Outstanding
  <2>4. ~saved'[c] /\ record' # NoRecord => record'.id # work'[c].id
    BY <1>1, <1>3, <1>5
  <2> QED BY <2>1, <2>2, <2>3, <2>4 DEF CarriedInv
<1>10. CreatedInv'
  <2>1. ASSUME NEW d \in Calls, Uncreated(d)'
        PROVE  d # c /\ Uncreated(d)
    BY <1>3, <1>4, <2>1 DEF Uncreated
  <2>2. \A d \in Calls : d # c => (Carries(d)' => Carries(d))
    BY <1>3 DEF Carries
  <2> QED BY <1>1, <1>2, <1>3, <2>1, <2>2 DEF Serial, CreatedInv
<1>11. \A d \in Calls, n \in Nodes : applied'[d][n] <= 1 + faults'
  BY <1>2, <1>6, FaultsAreNat DEF Serial, CompInv, Typed
<1> QED BY <1>3, <1>4, <1>8, <1>9, <1>10, <1>11, AloneAtWork, SerialOfOne

LEMMA ContinueIsSerial ==
    ASSUME CompInv, CompInv', RestTyped, Serial, NEW c \in Calls, ContinueCompensation(c)
    PROVE  Serial'
<1>1. /\ pc[c] = "continuing" /\ UNCHANGED applied
      /\ Active(c) /\ Carries(c) /\ Uncreated(c) /\ \A n \in Nodes : ~AtHand(c, n)
  BY DEF ContinueCompensation, historyVars, Active, Carries, Uncreated, AtHand, InHandler
<1>2. \A n \in Nodes : Counted(work[c].acts[n]) /\ Paid(work[c], n)
  BY <1>1 DEF Serial, CarriedInv
<1>3. PICK state : state = [work[c] EXCEPT !.status = "running"]
  OBVIOUS
<1>4. state.id = work[c].id /\ state.acts = work[c].acts
  <2>1. work[c] \in States
    BY <1>1 DEF CompInv, CallInv
  <2> QED BY <1>3, <2>1 DEF States
<1>5. CASE /\ Save(state)
           /\ Goto(c, "looping")
           /\ work' = [work EXCEPT ![c] = state]
           /\ saved' = [saved EXCEPT ![c] = TRUE]
           /\ todo' = [todo EXCEPT ![c] = {n \in Nodes : Outstanding(state.acts[n])}]
           /\ resumed' = [resumed EXCEPT ![c] = TRUE]
  <2>1. /\ record' = state /\ UNCHANGED faults
        /\ pc'[c] = "looping" /\ work'[c] = state /\ saved'[c] /\ resumed'[c]
        /\ todo'[c] = {n \in Nodes : Outstanding(state.acts[n])}
        /\ \A d \in Calls : d # c => pc'[d] = pc[d] /\ work'[d] = work[d] /\ resumed'[d] = resumed[d]
    BY <1>5 DEF Save, Goto, CompInv, Typed
  <2>2. \A n \in Nodes : Counted(state.acts[n])' /\ Paid(state, n)'
    BY <1>1, <1>2, <1>4, <2>1 DEF Counted, Paid
  <2>3. WrittenInv'
    BY <2>1, <2>2 DEF WrittenInv, Counted, Paid
  <2>4. CarriedInv(c)'
    <3>1. \A n \in Nodes : ~AtHand(c, n)'
      BY <2>1 DEF AtHand, InHandler
    <3>2. \A n \in Nodes : Counted(work[c].acts[n])' /\ Paid(work[c], n)'
      BY <2>1, <2>2 DEF Counted, Paid
    <3>3. \A n \in todo'[c] : Outstanding(work[c].acts[n])'
      BY <2>1 DEF Outstanding, CanRetry
    <3> QED BY <2>1, <3>1, <3>2, <3>3 DEF CarriedInv
  <2>5. \A d \in Calls : (Uncreated(d)' => Uncreated(d)) /\ (d # c => (Carries(d)' => Carries(d)))
    BY <1>1, <2>1 DEF Uncreated, Carries
  <2>6. CreatedInv'
    BY <1>1, <1>4, <2>1, <2>5, CreatedStays
  <2>7. \A d \in Calls, n \in Nodes : applied'[d][n] <= 1 + faults'
    BY <1>1, <2>1 DEF Serial
  <2> QED BY <1>1, <2>1, <2>3, <2>4, <2>6, <2>7, AloneAtWork, SerialOfOne
<1>6. CASE SaveFails /\ Discard(c, "over")
  <2>1. UNCHANGED record /\ faults' = faults + 1
    BY <1>6 DEF SaveFails, Fault
  <2>2. WrittenInv'
    BY <1>1, <2>1, WrittenAfterFault
  <2> QED BY <1>1, <1>6, <2>1, <2>2, DiscardMoves, SerialLeaves
<1> QED BY <1>3, <1>5, <1>6 DEF ContinueCompensation

\* An action of the call's own copy changes, and the row with it, unless the
\* row is of another compensation or the write fails.
LEMMA ActionCases ==
    ASSUME CompInv, RestTyped, NEW c \in Calls, NEW n \in Nodes,
           NEW act \in [status : ActionStatus, attempts : Nat],
           work[c] \in States, SetAction(c, n, act)
    PROVE  /\ work'[c].id = work[c].id
           /\ \A m \in Nodes : work'[c].acts[m] = IF m = n THEN act ELSE work[c].acts[m]
           /\ \A d \in Calls : d # c => work'[d] = work[d]
           /\ faults' \in Nat /\ faults' >= faults
           /\ \/ /\ UNCHANGED <<record, faults>>
                 /\ saved[c] /\ record # NoRecord => record.id # work[c].id
              \/ /\ saved[c] /\ record # NoRecord /\ record.id = work[c].id
                 /\ record'.id = record.id
                 /\ \A m \in Nodes : record'.acts[m] = IF m = n THEN act ELSE record.acts[m]
                 /\ UNCHANGED faults
              \/ UNCHANGED record /\ faults' = faults + 1
<1> DEFINE mem == [work[c] EXCEPT !.acts[n] = act]
           updated == [record EXCEPT !.acts[n] = act]
           new == [updated EXCEPT !.status = Recomputed(updated)]
           mine == saved[c] /\ record # NoRecord /\ record.id = work[c].id
<1>1. mem.id = work[c].id /\ \A m \in Nodes : mem.acts[m] = IF m = n THEN act ELSE work[c].acts[m]
  BY DEF States, Actions
<1>2. work' = [work EXCEPT ![c] = mem]
  BY DEF SetAction, CompInv, Typed
<1>3. ASSUME mine
      PROVE  new.id = record.id /\ \A m \in Nodes : new.acts[m] = IF m = n THEN act ELSE record.acts[m]
  <2>1. record \in States
    BY <1>3 DEF CompInv, Typed
  <2>2. /\ updated \in States /\ updated.id = record.id
        /\ \A m \in Nodes : updated.acts[m] = IF m = n THEN act ELSE record.acts[m]
    BY <2>1 DEF States, Actions
  <2>3. new.id = updated.id /\ new.acts = updated.acts
    <3> HIDE DEF updated
    <3> QED BY <2>2 DEF States
  <2> HIDE DEF updated, new
  <2> QED BY <2>2, <2>3
<1>4. \/ mine /\ record' = new /\ UNCHANGED faults
      \/ ~mine /\ UNCHANGED <<record, faults>>
      \/ UNCHANGED record /\ faults' = faults + 1
  BY DEF SetAction, UpdateAction, Save, SaveFails, Fault
<1>5. work'[c] = mem /\ \A d \in Calls : d # c => work'[d] = work[d]
  <2> HIDE DEF mem
  <2> QED BY <1>2 DEF CompInv, Typed
<1>6. faults' \in Nat /\ faults' >= faults
  BY <1>4, FaultsAreNat
<1> HIDE DEF mem, new
<1>7. work'[c].id = work[c].id /\ \A m \in Nodes : work'[c].acts[m] = IF m = n THEN act ELSE work[c].acts[m]
  BY <1>1, <1>5
<1>8. CASE mine /\ record' = new /\ UNCHANGED faults
  BY <1>3, <1>5, <1>6, <1>7, <1>8
<1>9. CASE ~mine /\ UNCHANGED <<record, faults>>
  BY <1>5, <1>6, <1>7, <1>9
<1>10. CASE UNCHANGED record /\ faults' = faults + 1
  BY <1>5, <1>6, <1>7, <1>10
<1> QED BY <1>4, <1>8, <1>9, <1>10

\* The row after a step of c in its loop that sets the action of n, n being the
\* only node that was at hand: what holds of c's own action holds of the row's.
LEMMA ActionWritten ==
    ASSUME CompInv, RestTyped, Serial, NEW c \in Calls, pc[c] \in InLoop, NEW n \in Nodes,
           NEW act \in [status : ActionStatus, attempts : Nat],
           work[c] \in States, SetAction(c, n, act), UNCHANGED applied,
           \A m \in Nodes : AtHand(c, m) => m = n,
           Counted(act)', Paid(work[c], n)' \/ AtHand(c, n)'
    PROVE  WrittenInv'
<1>1. /\ Active(c) /\ Carries(c)
      /\ ~saved[c] /\ record # NoRecord => record.id # work[c].id
  <2>1. Active(c) /\ Carries(c)
    BY DEF Active, Carries, InLoop, InHandler
  <2> QED BY <2>1 DEF Serial, CarriedInv
<1>2. /\ work'[c].id = work[c].id
      /\ work'[c].acts[n] = act
  BY ActionCases
<1>3. CASE UNCHANGED <<record, faults>> /\ (record # NoRecord => record.id # work[c].id)
  <2> SUFFICES ASSUME record # NoRecord, NEW m \in Nodes
               PROVE  Counted(record.acts[m])' /\ Paid(record, m)'
    BY <1>3 DEF WrittenInv
  <2>1. Counted(record.acts[m]) /\ Paid(record, m)
    BY <1>1, <1>3, AloneAtWork DEF Serial, WrittenInv
  <2> QED BY <1>3, <2>1 DEF Counted, Paid
<1>4. CASE /\ record # NoRecord /\ record.id = work[c].id /\ record'.id = record.id
           /\ \A m \in Nodes : record'.acts[m] = IF m = n THEN act ELSE record.acts[m]
           /\ UNCHANGED faults
  <2>1. ASSUME NEW m \in Nodes, m # n
        PROVE  Counted(record.acts[m])' /\ Paid(record, m)'
    <3>1. Counted(record.acts[m]) /\ Paid(record, m)
      BY <1>1, <1>4, <2>1, AloneAtWork DEF Serial, WrittenInv
    <3> QED BY <1>4, <2>1, <3>1 DEF Counted, Paid
  <2>2. Counted(record.acts[n])'
    BY <1>4 DEF Counted
  <2>3. Paid(work[c], n)' => Paid(record, n)'
    BY <1>2, <1>4 DEF Paid
  <2>4. AtHand(c, n)' => \E d \in Calls : AtHand(d, n)' /\ work'[d].id = record'.id
    BY <1>2, <1>4
  <2> QED BY <2>1, <2>2, <2>3, <2>4 DEF WrittenInv
<1>5. CASE UNCHANGED record /\ faults' = faults + 1
  BY <1>5, WrittenAfterFault
<1> QED BY <1>1, <1>3, <1>4, <1>5, ActionCases

LEMMA StartIsSerial ==
    ASSUME CompInv, CompInv', RestTyped, Serial, NEW c \in Calls, NEW n \in Nodes, StartAction(c, n)
    PROVE  Serial'
<1>0. PICK act : act = [status |-> "running", attempts |-> work[c].acts[n].attempts + 1]
  OBVIOUS
<1>1. /\ pc[c] = "looping" /\ n \in todo[c] /\ UNCHANGED <<saved, resumed, applied>>
      /\ pc' = [pc EXCEPT ![c] = "handling"]
      /\ todo' = [todo EXCEPT ![c] = @ \ {n}]
      /\ SetAction(c, n, act)
  BY <1>0 DEF StartAction, Goto, historyVars
<1>2. /\ Active(c) /\ Carries(c) /\ pc[c] \in InLoop /\ work[c] \in States
      /\ \A m \in Nodes : ~AtHand(c, m)
  BY <1>1 DEF Active, Carries, InLoop, InHandler, AtHand, CompInv, CallInv
<1>3. /\ \A m \in Nodes : Counted(work[c].acts[m]) /\ Paid(work[c], m)
      /\ Outstanding(work[c].acts[n])
      /\ ~saved[c] /\ record # NoRecord => record.id # work[c].id
  BY <1>1, <1>2 DEF Serial, CarriedInv
<1>4. work[c].id \in Calls /\ work[c].acts[n].attempts \in Nat
  BY <1>2 DEF States, Actions
<1>5. act \in [status : ActionStatus, attempts : Nat] /\ act.status = "running"
  BY <1>0, <1>4 DEF ActionStatus
<1>6. /\ act.attempts <= MaxAttempts + faults
      /\ applied[work[c].id][n] <= faults
  <2>1. CASE work[c].acts[n].status = "pending"
    BY <1>0, <1>3, <1>4, <2>1, FaultsAreNat DEF Counted, Paid
  <2>2. CASE work[c].acts[n].status = "running"
    BY <1>0, <1>3, <1>4, <2>2, FaultsAreNat DEF Paid
  <2>3. CASE CanRetry(work[c].acts[n])
    BY <1>0, <1>3, <1>4, <2>3, FaultsAreNat DEF CanRetry, Paid
  <2> QED BY <1>3, <2>1, <2>2, <2>3 DEF Outstanding
<1>7. /\ work'[c].id = work[c].id
      /\ \A m \in Nodes : work'[c].acts[m] = IF m = n THEN act ELSE work[c].acts[m]
      /\ \A d \in Calls : d # c => work'[d] = work[d] /\ pc'[d] = pc[d]
      /\ pc'[c] = "handling" /\ todo'[c] = todo[c] \ {n}
      /\ faults' \in Nat /\ faults' >= faults
  BY <1>1, <1>2, <1>5, ActionCases DEF CompInv, Typed
<1>8. Counted(act)' /\ AtHand(c, n)'
  BY <1>5, <1>6, <1>7, FaultsAreNat DEF Counted, AtHand, InHandler
<1>9. WrittenInv'
  BY <1>1, <1>2, <1>5, <1>8, ActionWritten
<1>10. CarriedInv(c)'
  <2>1. ASSUME NEW m \in Nodes, m # n
        PROVE  Counted(work[c].acts[m])' /\ Paid(work[c], m)'
    <3>1. /\ applied[work[c].id][m] \in Nat /\ work[c].acts[m].attempts \in Nat
          /\ work'[c].acts[m] = work[c].acts[m]
      BY <1>2, <1>4, <1>7, <2>1 DEF CompInv, Typed, States, Actions
    <3> QED BY <1>1, <1>3, <1>7, <3>1, FaultsAreNat DEF Counted, Paid
  <2>2. Counted(work[c].acts[n])'
    BY <1>7, <1>8 DEF Counted
  <2>3. applied'[work'[c].id][n] <= faults'
    <3>1. applied[work[c].id][n] \in Nat
      BY <1>4 DEF CompInv, Typed
    <3> QED BY <1>1, <1>6, <1>7, <3>1, FaultsAreNat
  <2>4. \A m \in Nodes : AtHand(c, m)' => m = n \/ applied'[work'[c].id][m] <= faults'
    BY <2>1, <1>7 DEF Paid, AtHand
  <2>5. \A m \in todo'[c] : Outstanding(work[c].acts[m])'
    <3>1. \A m \in todo[c] : Outstanding(work[c].acts[m])
      BY <1>2 DEF Serial, CarriedInv
    <3>2. todo[c] \in SUBSET Nodes
      BY DEF CompInv, Typed
    <3> QED BY <1>7, <3>1, <3>2 DEF Outstanding, CanRetry
  <2>6. ~saved'[c] /\ record' # NoRecord => record'.id # work'[c].id
    BY <1>1, <1>2, <1>3, <1>5, <1>7, ActionCases
  <2> QED BY <1>8, <2>1, <2>2, <2>3, <2>4, <2>5, <2>6 DEF CarriedInv
<1>11. CreatedInv'
  <2>1. \A d \in Calls : (Uncreated(d)' => Uncreated(d)) /\ (Carries(d)' => Carries(d) /\ work'[d].id = work[d].id)
    BY <1>1, <1>2, <1>7 DEF Uncreated, Carries, InLoop, InHandler
  <2>2. record' # NoRecord => record # NoRecord /\ record'.id = record.id
    BY <1>1, <1>2, <1>5, ActionCases
  <2> QED BY <1>1, <2>1, <2>2, CreatedStays
<1>12. \A d \in Calls, m \in Nodes : applied'[d][m] <= 1 + faults'
  BY <1>1, <1>7, FaultsAreNat DEF Serial, CompInv, Typed
<1> QED BY <1>2, <1>7, <1>9, <1>10, <1>11, <1>12, AloneAtWork, SerialOfOne

LEMMA EndIsSerial ==
    ASSUME CompInv, CompInv', RestTyped, Serial, NEW c \in Calls,
           NEW status \in Ended, NEW phase \in {"looping", "broken"},
           EndAction(c, status, phase), pc[c] \in InHandler,
           status = "failed" => pc[c] # "handled"
    PROVE  Serial'
<1>0. PICK n, act : n = Current(c) /\ act = [work[c].acts[n] EXCEPT !.status = status]
  OBVIOUS
<1>1. /\ n \in Nodes \ todo[c] /\ AtHand(c, n)
      /\ \A m \in Nodes : AtHand(c, m) => m = n
  BY <1>0, OneAtHand
<1>2. /\ SetAction(c, n, act) /\ UNCHANGED <<saved, resumed, todo, applied>>
      /\ pc' = [pc EXCEPT ![c] = phase]
  BY <1>0 DEF EndAction, Goto, historyVars
<1>3. /\ Active(c) /\ Carries(c) /\ pc[c] \in InLoop /\ work[c] \in States
  BY DEF Active, Carries, InLoop, InHandler, CompInv, CallInv
<1>4. /\ \A m \in Nodes : /\ Counted(work[c].acts[m])
                          /\ m # n => Paid(work[c], m)
      /\ status = "failed" => applied[work[c].id][n] <= faults
      /\ ~saved[c] /\ record # NoRecord => record.id # work[c].id
  BY <1>1, <1>3 DEF Serial, CarriedInv
<1>5. work[c].id \in Calls /\ work[c].acts[n].attempts \in Nat
  BY <1>1, <1>3 DEF States, Actions
<1>6. /\ act \in [status : ActionStatus, attempts : Nat]
      /\ act.status = status /\ act.attempts = work[c].acts[n].attempts
  BY <1>0, <1>1, <1>3 DEF States, Actions, ActionStatus, Ended
<1>7. /\ work'[c].id = work[c].id
      /\ \A m \in Nodes : work'[c].acts[m] = IF m = n THEN act ELSE work[c].acts[m]
      /\ \A d \in Calls : d # c => work'[d] = work[d] /\ pc'[d] = pc[d]
      /\ pc'[c] = phase
      /\ faults' \in Nat /\ faults' >= faults
  BY <1>1, <1>2, <1>3, <1>6, ActionCases DEF CompInv, Typed
<1>8. Counted(act)' /\ Paid(work[c], n)'
  <2>1. applied[work[c].id][n] \in Nat
    BY <1>1, <1>5 DEF CompInv, Typed
  <2>2. Counted(act)'
    BY <1>1, <1>4, <1>5, <1>6, <1>7, FaultsAreNat DEF Counted, Ended
  <2>3. status = "failed" => applied'[work'[c].id][n] <= faults'
    BY <1>2, <1>4, <1>7, <2>1, FaultsAreNat
  <2>4. work'[c].acts[n].status = status
    BY <1>1, <1>6, <1>7
  <2> QED BY <2>2, <2>3, <2>4 DEF Paid, Ended
<1>9. WrittenInv'
  BY <1>1, <1>2, <1>3, <1>6, <1>8, ActionWritten
<1>10. CarriedInv(c)'
  <2>1. ASSUME NEW m \in Nodes, m # n
        PROVE  Counted(work[c].acts[m])' /\ Paid(work[c], m)'
    <3>1. /\ applied[work[c].id][m] \in Nat /\ work[c].acts[m].attempts \in Nat
          /\ work'[c].acts[m] = work[c].acts[m]
      BY <1>3, <1>5, <1>7, <2>1 DEF CompInv, Typed, States, Actions
    <3> QED BY <1>2, <1>4, <1>7, <2>1, <3>1, FaultsAreNat DEF Counted, Paid
  <2>2. Counted(work[c].acts[n])'
    BY <1>1, <1>7, <1>8 DEF Counted
  <2>3. \A m \in Nodes : ~AtHand(c, m)'
    BY <1>7 DEF AtHand, InHandler
  <2>4. \A m \in todo'[c] : Outstanding(work[c].acts[m])'
    <3>1. \A m \in todo[c] : Outstanding(work[c].acts[m])
      BY <1>3 DEF Serial, CarriedInv
    <3>2. todo[c] \in SUBSET Nodes
      BY DEF CompInv, Typed
    <3> QED BY <1>1, <1>2, <1>7, <3>1, <3>2 DEF Outstanding, CanRetry
  <2>5. ~saved'[c] /\ record' # NoRecord => record'.id # work'[c].id
    BY <1>1, <1>2, <1>3, <1>4, <1>6, <1>7, ActionCases
  <2> QED BY <1>8, <2>1, <2>2, <2>3, <2>4, <2>5 DEF CarriedInv
<1>11. CreatedInv'
  <2>1. \A d \in Calls : (Uncreated(d)' => Uncreated(d)) /\ (Carries(d)' => Carries(d) /\ work'[d].id = work[d].id)
    BY <1>2, <1>3, <1>7 DEF Uncreated, Carries, InLoop, InHandler
  <2>2. record' # NoRecord => record # NoRecord /\ record'.id = record.id
    BY <1>1, <1>2, <1>3, <1>6, ActionCases
  <2> QED BY <1>2, <2>1, <2>2, CreatedStays
<1>12. \A d \in Calls, m \in Nodes : applied'[d][m] <= 1 + faults'
  BY <1>2, <1>7, FaultsAreNat DEF Serial, CompInv, Typed
<1> QED BY <1>3, <1>7, <1>9, <1>10, <1>11, <1>12, AloneAtWork, SerialOfOne

LEMMA HandlerIsSerial ==
    ASSUME CompInv, CompInv', RestTyped, Serial, NEW c \in Calls, RunHandler(c)
    PROVE  Serial'
<1> DEFINE n == Current(c)
           id == work[c].id
<1>1. /\ pc[c] = "handling" /\ UNCHANGED <<record, work, saved, resumed, todo>>
      /\ applied' = [applied EXCEPT ![id][n] = @ + 1]
      /\ \/ pc' = [pc EXCEPT ![c] = "handled"] /\ UNCHANGED faults
         \/ pc' = [pc EXCEPT ![c] = "errored"] /\ faults' = faults + 1
  BY DEF RunHandler, Goto, Fault
<1>2. Active(c) /\ Carries(c) /\ pc[c] \in InLoop /\ pc[c] \in InHandler /\ work[c] \in States
  BY <1>1 DEF Active, Carries, InLoop, InHandler, CompInv, CallInv
<1>3. /\ n \in Nodes /\ n \notin todo[c] /\ AtHand(c, n)
      /\ \A m \in Nodes : AtHand(c, m) => m = n
  BY <1>2, OneAtHand
<1>4. id \in Calls
  BY <1>2 DEF States
<1> HIDE DEF n, id
<1>5. /\ \A d \in Calls, m \in Nodes :
             /\ applied[d][m] \in Nat
             /\ applied'[d][m] = IF d = id /\ m = n THEN applied[d][m] + 1 ELSE applied[d][m]
      /\ \A d \in Calls : d # id => applied'[d] = applied[d]
  <2>1. applied \in [Calls -> [Nodes -> Nat]]
    BY DEF CompInv, Typed
  <2>2. applied' = [applied EXCEPT ![id][n] = applied[id][n] + 1]
    BY <1>1
  <2> QED BY <1>3, <1>4, <2>1, <2>2
<1>6. /\ faults' \in Nat /\ faults' >= faults
      /\ pc'[c] = "handled" \/ (pc'[c] = "errored" /\ faults' = faults + 1)
      /\ \A d \in Calls : d # c => pc'[d] = pc[d]
  BY <1>1, FaultsAreNat DEF CompInv, Typed
<1>7. applied[id][n] <= faults
  BY <1>1, <1>2, <1>3 DEF Serial, CarriedInv, id
<1>8. \A d \in Calls, m \in Nodes : applied'[d][m] <= 1 + faults'
  BY <1>3, <1>4, <1>5, <1>6, <1>7, FaultsAreNat DEF Serial
<1>9. \A m \in Nodes : AtHand(c, m)' <=> AtHand(c, m)
  BY <1>1, <1>2, <1>6 DEF AtHand, InHandler
<1>10. ASSUME NEW state \in States, NEW m \in Nodes, Counted(state.acts[m])
       PROVE  /\ Counted(state.acts[m])'
              /\ Paid(state, m) /\ (state.id # id \/ m # n) => Paid(state, m)'
  <2>1. state.id \in Calls /\ state.acts[m].attempts \in Nat
    BY <1>10 DEF States, Actions
  <2>2. Counted(state.acts[m])'
    BY <1>6, <1>10, <2>1, FaultsAreNat DEF Counted
  <2>3. ASSUME Paid(state, m), state.id # id \/ m # n
        PROVE  Paid(state, m)'
    BY <1>5, <1>6, <2>1, <2>3, FaultsAreNat DEF Paid
  <2> QED BY <2>2, <2>3
<1>11. CarriedInv(c)'
  <2>1. /\ \A m \in Nodes : Counted(work[c].acts[m]) /\ (m # n => Paid(work[c], m))
        /\ \A m \in todo[c] : Outstanding(work[c].acts[m])
        /\ ~saved[c] /\ record # NoRecord => record.id # work[c].id
    BY <1>2, <1>3 DEF Serial, CarriedInv
  <2>2. \A m \in Nodes : Counted(work[c].acts[m])' /\ (m # n => Paid(work[c], m)')
    <3> SUFFICES ASSUME NEW m \in Nodes
                 PROVE  Counted(work[c].acts[m])' /\ (m # n => Paid(work[c], m)')
      OBVIOUS
    <3>1. Counted(work[c].acts[m]) /\ (m # n => Paid(work[c], m))
      BY <2>1
    <3>2. Counted(work[c].acts[m])' /\ (Paid(work[c], m) /\ m # n => Paid(work[c], m)')
      BY <1>1, <1>2, <1>10, <3>1 DEF Counted, Paid
    <3> QED BY <3>1, <3>2
  <2>3. pc'[c] # "handled" => applied'[work'[c].id][n] <= faults'
    BY <1>1, <1>3, <1>4, <1>5, <1>6, <1>7, FaultsAreNat DEF id
  <2>4. \A m \in todo'[c] : Outstanding(work[c].acts[m])'
    BY <1>1, <2>1 DEF Outstanding, CanRetry
  <2>5. ~saved'[c] /\ record' # NoRecord => record'.id # work'[c].id
    BY <1>1, <2>1
  <2> QED BY <1>3, <1>9, <2>2, <2>3, <2>4, <2>5 DEF CarriedInv
<1>12. WrittenInv'
  <2> SUFFICES ASSUME record # NoRecord, NEW m \in Nodes
               PROVE  /\ Counted(record.acts[m])'
                      /\ Paid(record, m)' \/ (AtHand(c, m)' /\ work'[c].id = record'.id)
    BY <1>1 DEF WrittenInv
  <2>1. /\ Counted(record.acts[m])
        /\ Paid(record, m) \/ (AtHand(c, m) /\ work[c].id = record.id)
    BY <1>2, AloneAtWork DEF Serial, WrittenInv
  <2>2. record \in States
    BY DEF CompInv, Typed
  <2>3. Counted(record.acts[m])' /\ (Paid(record, m) /\ (record.id # id \/ m # n) => Paid(record, m)')
    BY <1>1, <1>10, <2>1, <2>2 DEF Counted, Paid
  <2> QED BY <1>1, <1>3, <1>9, <2>1, <2>3 DEF id
<1>13. CreatedInv'
  <2>1. \A d \in Calls : (Uncreated(d)' => Uncreated(d)) /\ (Carries(d)' => Carries(d))
    BY <1>1, <1>2, <1>6 DEF Uncreated, Carries, InLoop, InHandler
  <2>2. \A d \in Calls : Uncreated(d) => d # id
    BY <1>2 DEF Serial, CreatedInv, id
  <2> QED BY <1>1, <1>5, <2>1, <2>2 DEF Serial, CreatedInv
<1> QED BY <1>2, <1>6, <1>8, <1>11, <1>12, <1>13, AloneAtWork, SerialOfOne

----------------------------------------------------------------------------
LEMMA InitSerial == Init => SerialInv
BY CompensationAssumption
   DEF Init, SerialInv, Serial, CarriedInv, WrittenInv, CreatedInv, Active, Carries, Calls,
       InLoop, InHandler

LEMMA StepSerial == CompInv /\ CompInv' /\ RestTyped /\ SerialInv /\ [Next]_vars => SerialInv'
<1> SUFFICES ASSUME CompInv, CompInv', RestTyped, SerialInv, [Next]_vars, ~overlapped'
             PROVE  Serial'
  BY DEF SerialInv
<1>1. CASE UNCHANGED vars
  BY <1>1 DEF vars, callVars, historyVars, SerialInv, Serial, CarriedInv, WrittenInv, CreatedInv,
              Active, Carries, Uncreated, AtHand, Counted, Paid, Outstanding, CanRetry
<1>2. CASE Next
  <2>1. Serial
    <3>1. overlapped => overlapped'
      BY <1>2 DEF Next, OpenCompensation, LoadCompensation, ContinueCompensation, StartAction,
                  RunHandler, CompleteAction, FailAction, EndAction, FinishCompensation,
                  FinishContinuation, AcquireForResume, GoForward, CloseCall, Crash,
                  LeaseExpires, historyVars
    <3> QED BY <3>1 DEF SerialInv
  <2>2. ASSUME NEW c \in Calls, CompleteAction(c) \/ FailAction(c)
        PROVE  Serial'
    BY <2>1, <2>2, EndIsSerial DEF CompleteAction, FailAction, InHandler, Ended
  <2>3. ASSUME NEW c \in Calls, LeaseExpires(c)
        PROVE  Serial'
    BY <2>1, <2>3 DEF LeaseExpires, callVars, historyVars, Serial, CarriedInv, WrittenInv,
              CreatedInv, Active, Carries, Uncreated, AtHand, Counted, Paid, Outstanding, CanRetry
  <2> QED BY <1>2, <2>1, <2>2, <2>3, OpenIsSerial, LoadIsSerial, ContinueIsSerial, StartIsSerial,
             HandlerIsSerial, FinishIsSerial, MoveIsSerial, CrashIsSerial DEF Next
<1> QED BY <1>1, <1>2

LEMMA SerialInvHolds == Spec => [](CompInv /\ RestTyped /\ SerialInv)
<1>1. Init => RestTyped
  <2>1. {Executor} \in SUBSET Calls /\ 0 \in 0 .. MaxFaults
    BY CompensationAssumption DEF Calls
  <2> QED BY <2>1 DEF Init, RestTyped
<1> QED BY <1>1, InitComp, StepComp, RestTypedStep, InitSerial, StepSerial, PTL DEF Spec

\* dag.py:4009-4153 and :4180-4332: unless a resume began beside another call, a
\* handler takes effect once in a compensation, but for a crash, a failed write
\* or a lost answer.
THEOREM UndoneOnceSerially == Spec => []UndoneOnce
<1>1. SerialInv => UndoneOnce
  BY DEF SerialInv, Serial, UndoneOnce
<1> QED BY <1>1, SerialInvHolds, PTL

\* DagCompensationConfig.max_attempts: nor has an action on record more attempts.
THEOREM AttemptsBoundedSerially == Spec => []AttemptsBounded
<1>1. SerialInv => AttemptsBounded
  BY DEF SerialInv, Serial, WrittenInv, Counted, AttemptsBounded
<1> QED BY <1>1, SerialInvHolds, PTL

----------------------------------------------------------------------------
(* The lease.  A compensation that follows a failed execution, and the     *)
(* nodes that resume executes, are the lease holder's; a compensation that *)
(* resume continues is nobody's.                                           *)
HasLease(c) ==
    \/ pc[c] \in {"failed", "closing", "forward"}
    \/ pc[c] \in InLoop /\ ~resumed[c]

HasNoLease(c) ==
    \/ pc[c] \in {"idle", "continuing", "waiting"}
    \/ pc[c] \in InLoop /\ resumed[c]

TenantInv ==
    /\ \A c \in Calls : HasLease(c) => tenant = {c}
    /\ \A c \in tenant : ~HasNoLease(c)
    /\ \A c, d \in tenant : c = d

\* A step of c that leaves the lease alone, and c on the same side of it.
LEMMA SameTenant ==
    ASSUME NEW c \in Calls, TenantInv, UNCHANGED tenant, tenant \in SUBSET Calls,
           HasLease(c)' => HasLease(c), HasNoLease(c)' => HasNoLease(c),
           \A d \in Calls : d # c => pc'[d] = pc[d] /\ resumed'[d] = resumed[d]
    PROVE  TenantInv'
<1>1. \A d \in Calls : (HasLease(d)' => HasLease(d)) /\ (HasNoLease(d)' => HasNoLease(d))
  BY DEF HasLease, HasNoLease
<1> QED BY <1>1 DEF TenantInv

LEMMA StepTenant == CompInv /\ RestTyped /\ TenantInv /\ [Next]_vars => TenantInv'
<1> SUFFICES ASSUME CompInv, RestTyped, TenantInv, [Next]_vars PROVE TenantInv'
  OBVIOUS
<1>0. /\ pc \in [Calls -> Phases] /\ resumed \in [Calls -> BOOLEAN]
      /\ tenant \in SUBSET Calls
  BY DEF CompInv, Typed, RestTyped
<1>1. CASE UNCHANGED vars
  BY <1>1 DEF vars, callVars, TenantInv, HasLease, HasNoLease
<1>2. ASSUME NEW c \in Calls, OpenCompensation(c)
      PROVE  TenantInv'
  BY <1>0, <1>2, SameTenant DEF OpenCompensation, Goto, HasLease, HasNoLease, InLoop, InHandler
<1>3. ASSUME NEW c \in Calls, LoadCompensation(c)
      PROVE  TenantInv'
  BY <1>0, <1>3, SameTenant DEF LoadCompensation, Goto, HasLease, HasNoLease, InLoop, InHandler
<1>4. ASSUME NEW c \in Calls, ContinueCompensation(c)
      PROVE  TenantInv'
  BY <1>0, <1>4, SameTenant
     DEF ContinueCompensation, Discard, Goto, HasLease, HasNoLease, InLoop, InHandler
<1>5. ASSUME NEW c \in Calls, NEW n \in Nodes, StartAction(c, n)
      PROVE  TenantInv'
  BY <1>0, <1>5, SameTenant DEF StartAction, Goto, HasLease, HasNoLease, InLoop, InHandler
<1>6. ASSUME NEW c \in Calls, RunHandler(c)
      PROVE  TenantInv'
  BY <1>0, <1>6, SameTenant DEF RunHandler, Goto, HasLease, HasNoLease, InLoop, InHandler
<1>7. ASSUME NEW c \in Calls, CompleteAction(c) \/ FailAction(c)
      PROVE  TenantInv'
  BY <1>0, <1>7, SameTenant
     DEF CompleteAction, FailAction, EndAction, Goto, HasLease, HasNoLease, InLoop, InHandler
<1>8. ASSUME NEW c \in Calls, FinishCompensation(c) \/ FinishContinuation(c)
      PROVE  TenantInv'
  BY <1>0, <1>8, SameTenant
     DEF FinishCompensation, FinishContinuation, LoopIsOver, Discard, Goto, HasLease,
         HasNoLease, InLoop, InHandler
<1>9. ASSUME NEW c \in Calls, AcquireForResume(c)
      PROVE  TenantInv'
  <2>1. CASE tenant = {} /\ tenant' = {c} /\ Goto(c, "forward")
    <3>1. \A d \in Calls : d # c => ~HasLease(d)'
      <4>1. \A d \in Calls : ~HasLease(d)
        BY <2>1 DEF TenantInv
      <4> QED BY <1>0, <1>9, <2>1, <4>1 DEF AcquireForResume, Goto, HasLease
    <3>2. ~HasNoLease(c)'
      BY <1>0, <2>1 DEF Goto, HasNoLease, InLoop, InHandler
    <3> QED BY <2>1, <3>1, <3>2 DEF TenantInv
  <2>2. CASE UNCHANGED tenant /\ Goto(c, "over")
    BY <1>0, <1>9, <2>2, SameTenant
       DEF AcquireForResume, Goto, HasLease, HasNoLease, InLoop, InHandler
  <2> QED BY <1>9, <2>1, <2>2 DEF AcquireForResume
<1>10. ASSUME NEW c \in Calls, GoForward(c)
       PROVE  TenantInv'
  BY <1>0, <1>10, SameTenant DEF GoForward, Goto, HasLease, HasNoLease, InLoop, InHandler
<1>11. ASSUME NEW c \in Calls, CloseCall(c) \/ LeaseExpires(c)
       PROVE  TenantInv'
  <2>1. /\ tenant' = tenant \ {c}
        /\ UNCHANGED resumed
        /\ pc[c] \in {"closing", "over"} /\ pc'[c] = "over"
        /\ \A d \in Calls : d # c => pc'[d] = pc[d]
    BY <1>0, <1>11 DEF CloseCall, LeaseExpires, callVars, Goto
  <2>2. \A d \in Calls : (HasLease(d)' => HasLease(d) /\ d # c) /\ (HasNoLease(d)' => HasNoLease(d))
    BY <2>1 DEF HasLease, HasNoLease, InLoop, InHandler
  <2>3. \A d \in Calls : d # c /\ tenant = {d} => tenant' = {d}
    BY <2>1
  <2> QED BY <1>0, <2>1, <2>2, <2>3 DEF TenantInv
<1>12. ASSUME NEW c \in Calls, Crash(c)
       PROVE  TenantInv'
  BY <1>0, <1>12, SameTenant DEF Crash, Discard, Goto, HasLease, HasNoLease, InLoop, InHandler
<1> QED BY <1>1, <1>2, <1>3, <1>4, <1>5, <1>6, <1>7, <1>8, <1>9, <1>10, <1>11, <1>12 DEF Next

LEMMA TenantInvHolds == Spec => [](CompInv /\ RestTyped /\ SerialInv /\ TenantInv)
<1>1. Init => TenantInv
  BY CompensationAssumption DEF Init, TenantInv, HasLease, HasNoLease, InLoop, InHandler, Calls
<1> QED BY <1>1, SerialInvHolds, StepTenant, PTL DEF Spec

\* dag.py:714 and :1010: whatever crashes, no two calls execute nodes, or the
\* handlers of a compensation they created, at the same time: each of them is
\* the one tenant of the run.
THEOREM HoldersAreAlone ==
    Spec => [](\A c, d \in Calls : HasLease(c) /\ HasLease(d) => c = d /\ tenant = {c})
<1>1. TenantInv => \A c, d \in Calls : HasLease(c) /\ HasLease(d) => c = d /\ tenant = {c}
  BY DEF TenantInv
<1> QED BY <1>1, TenantInvHolds, PTL

\* lease_backend.py: nor does the lease pass from one call to another without
\* being given back or expiring in between.
THEOREM LeaseIsGivenBack == Spec => [][tenant = {} \/ tenant' = {}]_tenant
<1>1. CompInv /\ RestTyped /\ TenantInv /\ [Next]_vars => [tenant = {} \/ tenant' = {}]_tenant
  <2> SUFFICES ASSUME CompInv, RestTyped, TenantInv, [Next]_vars, tenant' # tenant
               PROVE  tenant = {} \/ tenant' = {}
    OBVIOUS
  <2>1. ASSUME NEW c \in Calls, CloseCall(c) \/ LeaseExpires(c)
        PROVE  tenant' = {}
    BY <2>1 DEF CloseCall, LeaseExpires, TenantInv
  <2>2. ASSUME NEW c \in Calls, AcquireForResume(c)
        PROVE  tenant = {}
    BY <2>2 DEF AcquireForResume
  <2> QED BY <2>1, <2>2 DEF Next, vars, OpenCompensation, LoadCompensation, ContinueCompensation,
             StartAction, RunHandler, CompleteAction, FailAction, EndAction, FinishCompensation,
             FinishContinuation, GoForward, Crash
<1> QED BY <1>1, TenantInvHolds, PTL DEF Spec
=============================================================================
