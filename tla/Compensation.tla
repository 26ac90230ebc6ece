---------------------------- MODULE Compensation ----------------------------
(***************************************************************************)
(* Compensation of a failed workflow run: _execute_compensation and        *)
(* _resume_compensation of agent_app/workflows/dag.py with the records of  *)
(* agent_app/runtime/compensation_state.py, kept in the SQLite store of    *)
(* compensation_store.py that all calls share.                             *)
(*                                                                         *)
(* One run, one call that executes it (it has just failed) and calls that  *)
(* resume it.  A call is reduced to its compensation: the nodes it runs    *)
(* forward are one step, its lease is the tenancy of RunTenancy; the       *)
(* status of the run, which compensation writes and never reads, is left   *)
(* out.  Handlers run in the order of their completion times compared as   *)
(* strings; here in any.  An update of an action reads the row and         *)
(* replaces it: in one process no other call comes between, and it is one  *)
(* step here.                                                              *)
(***************************************************************************)
EXTENDS Integers

CONSTANTS Nodes,        \* completed nodes with a compensate handler
          Executor,     \* the call that executes the run
          Resumers,     \* the calls that resume it
          MaxAttempts,  \* DagCompensationConfig.max_attempts
          NoRecord,     \* no row for the run
          MaxFaults     \* bound on crashes, failed writes and answers lost after an effect

ASSUME CompensationAssumption ==
    /\ Nodes # {}  \* with none, no state is created
    /\ Executor \notin Resumers
    /\ MaxAttempts \in Nat \ {0}
    /\ MaxFaults \in Nat

Calls == {Executor} \cup Resumers

VARIABLES
    continueOnFailure,  \* of the workflow's compensation configuration
    record,      \* the row of dag_compensation_states, NoRecord before it exists
    tenant,      \* the calls that hold the lease of the run
    pc,          \* where each call is; "over" once it returned, raised or died
    work,        \* its own copy of the compensation state
    saved,       \* it keeps that state in the store
    resumed,     \* it runs _resume_compensation, not _execute_compensation
    todo,        \* nodes whose handlers it has still to start
    applied,     \* history: how often a handler took effect, per compensation
    overlapped,  \* history: a resume began while another call was active
    faults       \* crashes, failed writes and lost answers so far

callVars == <<pc, work, saved, resumed, todo>>
historyVars == <<applied, overlapped>>
vars == <<continueOnFailure, record, tenant, callVars, historyVars, faults>>

ActionStatus == {"pending", "running", "completed", "failed"}
Actions == [Nodes -> [status : ActionStatus, attempts : Nat]]

\* The compensation_id of a state is the call that created it.
States == [id : Calls, status : {"running", "completed", "partial_failed", "failed"},
           acts : Actions]
Phases == {"idle", "failed", "continuing", "looping", "handling", "handled",
           "errored", "broken", "waiting", "forward", "closing", "over"}

CompTypeOK ==
    /\ continueOnFailure \in BOOLEAN
    /\ record \in States \cup {NoRecord}
    /\ tenant \in SUBSET Calls
    /\ pc \in [Calls -> Phases]
    /\ work \in [Calls -> States \cup {NoRecord}]
    /\ saved \in [Calls -> BOOLEAN]
    /\ resumed \in [Calls -> BOOLEAN]
    /\ todo \in [Calls -> SUBSET Nodes]
    /\ applied \in [Calls -> [Nodes -> Nat]]
    /\ overlapped \in BOOLEAN
    /\ faults \in 0 .. MaxFaults

\* The run has just failed and compensation is to follow.
Init ==
    /\ continueOnFailure \in BOOLEAN
    /\ record = NoRecord
    /\ tenant = {Executor}
    /\ pc = [c \in Calls |-> IF c = Executor THEN "failed" ELSE "idle"]
    /\ work = [c \in Calls |-> NoRecord]
    /\ saved = [c \in Calls |-> FALSE]
    /\ resumed = [c \in Calls |-> FALSE]
    /\ todo = [c \in Calls |-> {}]
    /\ applied = [c \in Calls |-> [n \in Nodes |-> 0]]
    /\ overlapped = FALSE
    /\ faults = 0

----------------------------------------------------------------------------
Goto(c, phase) == pc' = [pc EXCEPT ![c] = phase]

\* The call goes on without the compensation state it had in memory.
Discard(c, phase) ==
    /\ Goto(c, phase)
    /\ work' = [work EXCEPT ![c] = NoRecord]
    /\ saved' = [saved EXCEPT ![c] = FALSE]
    /\ resumed' = [resumed EXCEPT ![c] = FALSE]
    /\ todo' = [todo EXCEPT ![c] = {}]

\* The node whose handler c runs.
Current(c) == CHOOSE n \in Nodes \ todo[c] : work[c].acts[n].status = "running"

Fault == faults < MaxFaults /\ faults' = faults + 1

\* save_compensation_state replaces the row of the run, whoever wrote it.
Save(state) == record' = state /\ UNCHANGED faults
SaveFails == UNCHANGED record /\ Fault

Some(acts, statuses) == \E n \in Nodes : acts[n].status \in statuses

\* Mutant of Recomputed: an action still open makes the whole run pending.
RecomputedPending(state) ==
    IF Some(state.acts, {"pending", "running"}) THEN "pending" ELSE "completed"

\* _recompute_status
Recomputed(state) ==
    LET completed == Some(state.acts, {"completed"})
        failed == Some(state.acts, {"failed"})
        open == Some(state.acts, {"pending", "running"})
    IN  CASE ~failed /\ ~open /\ completed -> "completed"
          [] failed /\ open -> "partial_failed"
          [] failed /\ ~open /\ ~completed -> "failed"
          [] OTHER -> state.status

\* update_compensation_action writes one action into the row, if the row is of
\* the same compensation; every error is swallowed.
UpdateAction(c, n, act) ==
    LET updated == [record EXCEPT !.acts[n] = act]
        mine == saved[c] /\ record # NoRecord /\ record.id = work[c].id
    IN  \/ mine /\ Save([updated EXCEPT !.status = Recomputed(updated)])
        \/ ~mine /\ UNCHANGED <<record, faults>>
        \/ mine /\ SaveFails

\* The action of n changes in the call's own copy and in the row.
SetAction(c, n, act) ==
    /\ work' = [work EXCEPT ![c].acts[n] = act]
    /\ UpdateAction(c, n, act)

----------------------------------------------------------------------------
\* _execute_compensation saves a new state, with an action per node; if that
\* fails the handlers run without.
OpenCompensation(c) ==
    LET state == [id |-> c, status |-> "running",
                  acts |-> [n \in Nodes |-> [status |-> "pending", attempts |-> 0]]]
    IN
    /\ pc[c] = "failed"
    /\ \/ Save(state) /\ saved' = [saved EXCEPT ![c] = TRUE]
       \/ SaveFails /\ saved' = [saved EXCEPT ![c] = FALSE]
    /\ work' = [work EXCEPT ![c] = state]
    /\ todo' = [todo EXCEPT ![c] = Nodes]
    /\ resumed' = [resumed EXCEPT ![c] = FALSE]
    /\ Goto(c, "looping")
    /\ UNCHANGED <<continueOnFailure, tenant, historyVars>>

\* Mutant of CanRetry: one attempt too many.
CanRetryMore(act) == act.status = "failed" /\ act.attempts <= MaxAttempts
CanRetry(act) == act.status = "failed" /\ act.attempts < MaxAttempts

\* Mutant of Outstanding: completed actions are run again.
OutstandingAll(act) == act.status # "failed" \/ CanRetry(act)
\* What the loop of _resume_compensation executes; the rest it only counts.
Outstanding(act) == act.status \in {"pending", "running"} \/ CanRetry(act)

\* resume continues a compensation that is running or partly failed and has
\* pending or retryable actions ...
Unfinished(state) ==
    /\ state.status \in {"running", "partial_failed"}
    /\ \E n \in Nodes : state.acts[n].status = "pending" \/ CanRetry(state.acts[n])

Active(c) == pc[c] \notin {"idle", "over"}

LoadCompensation(c) ==
    /\ c \in Resumers
    /\ pc[c] = "idle"
    /\ IF record # NoRecord /\ Unfinished(record)
       THEN Goto(c, "continuing") /\ work' = [work EXCEPT ![c] = record]
       ELSE Goto(c, "waiting") /\ UNCHANGED work
    /\ overlapped' = (overlapped \/ \E d \in Calls : Active(d))
    /\ UNCHANGED <<continueOnFailure, record, tenant, saved, resumed, todo,
                   applied, faults>>

\* ... before it has the lease: the state is saved as running, or resume raises.
ContinueCompensation(c) ==
    LET state == [work[c] EXCEPT !.status = "running"] IN
    /\ pc[c] = "continuing"
    /\ \/ /\ Save(state)
          /\ Goto(c, "looping")
          /\ work' = [work EXCEPT ![c] = state]
          /\ saved' = [saved EXCEPT ![c] = TRUE]
          /\ todo' = [todo EXCEPT ![c] = {n \in Nodes : Outstanding(state.acts[n])}]
          /\ resumed' = [resumed EXCEPT ![c] = TRUE]
       \/ SaveFails /\ Discard(c, "over")
    /\ UNCHANGED <<continueOnFailure, tenant, historyVars>>

----------------------------------------------------------------------------
\* mark_running, before the handler is awaited.
StartAction(c, n) ==
    /\ pc[c] = "looping"
    /\ n \in todo[c]
    /\ SetAction(c, n, [status |-> "running", attempts |-> work[c].acts[n].attempts + 1])
    /\ todo' = [todo EXCEPT ![c] = @ \ {n}]
    /\ Goto(c, "handling")
    /\ UNCHANGED <<continueOnFailure, tenant, saved, resumed, historyVars>>

\* The handler takes effect and returns; or it times out after its effect, or
\* the trace collector fails to record that it returned.
RunHandler(c) ==
    /\ pc[c] = "handling"
    /\ applied' = [applied EXCEPT ![work[c].id][Current(c)] = @ + 1]
    /\ \/ Goto(c, "handled") /\ UNCHANGED faults
       \/ Goto(c, "errored") /\ Fault
    /\ UNCHANGED <<continueOnFailure, record, tenant, work, saved, resumed, todo, overlapped>>

\* mark_completed; or, the handler having raised, with or without an effect,
\* mark_failed, which ends the loop unless it is to go on.
EndAction(c, status, phase) ==
    LET n == Current(c) IN
    /\ SetAction(c, n, [work[c].acts[n] EXCEPT !.status = status])
    /\ Goto(c, phase)
    /\ UNCHANGED <<continueOnFailure, tenant, saved, resumed, todo, historyVars>>
CompleteAction(c) == pc[c] = "handled" /\ EndAction(c, "completed", "looping")
FailAction(c) ==
    /\ pc[c] \in {"handling", "errored"}
    /\ EndAction(c, "failed", IF continueOnFailure THEN "looping" ELSE "broken")

\* Mutant of FinalStatus: a failed handler does not count.
FinalStatusBlind(c) == "completed"

\* The status of the state once the loop is over.
FinalStatus(c) ==
    LET failed == Some(work[c].acts, {"failed"})
        completed == Some(work[c].acts, {"completed"})
    IN  CASE ~failed -> "completed"
          [] failed /\ resumed[c] /\ (pc[c] = "broken" \/ ~completed) -> "failed"
          [] OTHER -> "partial_failed"

LoopIsOver(c) == pc[c] = "broken" \/ (pc[c] = "looping" /\ todo[c] = {})

\* _execute_compensation saves the final state as best it can and returns ...
FinishCompensation(c) ==
    /\ LoopIsOver(c)
    /\ ~resumed[c]
    /\ \/ saved[c] /\ Save([work[c] EXCEPT !.status = FinalStatus(c)])
       \/ saved[c] /\ SaveFails
       \/ ~saved[c] /\ UNCHANGED <<record, faults>>
    /\ Discard(c, "closing")
    /\ UNCHANGED <<continueOnFailure, tenant, historyVars>>

\* ... while after _resume_compensation, whatever its result, resume goes on.
FinishContinuation(c) ==
    /\ LoopIsOver(c)
    /\ resumed[c]
    /\ \/ Save([work[c] EXCEPT !.status = FinalStatus(c)]) /\ Discard(c, "waiting")
       \/ SaveFails /\ Discard(c, "over")
    /\ UNCHANGED <<continueOnFailure, tenant, historyVars>>

----------------------------------------------------------------------------
\* The rest of resume: it acquires the lease, which nobody who is alive loses, ...
AcquireForResume(c) ==
    /\ pc[c] = "waiting"
    /\ \/ tenant = {} /\ tenant' = {c} /\ Goto(c, "forward")
       \/ tenant # {} /\ UNCHANGED tenant /\ Goto(c, "over")
    /\ UNCHANGED <<continueOnFailure, record, work, saved, resumed, todo,
                   historyVars, faults>>

\* ... executes the failed nodes, and completes the run or fails it again.
GoForward(c) ==
    /\ pc[c] = "forward"
    /\ Goto(c, "closing") \/ Goto(c, "failed")
    /\ UNCHANGED <<continueOnFailure, record, tenant, work, saved, resumed, todo,
                   historyVars, faults>>

CloseCall(c) ==
    /\ pc[c] = "closing"
    /\ tenant' = tenant \ {c}
    /\ Goto(c, "over")
    /\ UNCHANGED <<continueOnFailure, record, work, saved, resumed, todo,
                   historyVars, faults>>

\* The process of a call dies, and in time its lease expires.
Crash(c) ==
    /\ Active(c)
    /\ Fault
    /\ Discard(c, "over")
    /\ UNCHANGED <<continueOnFailure, record, tenant, historyVars>>

LeaseExpires(c) ==
    /\ c \in tenant
    /\ pc[c] = "over"
    /\ tenant' = tenant \ {c}
    /\ UNCHANGED <<continueOnFailure, record, callVars, historyVars, faults>>

Next ==
    \E c \in Calls :
        \/ OpenCompensation(c) \/ LoadCompensation(c) \/ ContinueCompensation(c)
        \/ \E n \in Nodes : StartAction(c, n)
        \/ RunHandler(c) \/ CompleteAction(c) \/ FailAction(c)
        \/ FinishCompensation(c) \/ FinishContinuation(c)
        \/ AcquireForResume(c) \/ GoForward(c) \/ CloseCall(c)
        \/ Crash(c) \/ LeaseExpires(c)

Spec == Init /\ [][Next]_vars

----------------------------------------------------------------------------
\* A compensation on record as completed has undone every node: its handlers
\* all took effect, whoever crashed, resumed it or wrote over its record.
CompletedIsUndone ==
    record # NoRecord /\ record.status = "completed"
        => \A n \in Nodes : applied[record.id][n] > 0

\* Unless a resume began beside another call, no handler takes effect twice in
\* one compensation except for a crash, a failed write or a lost answer after it.
UndoneOnce ==
    ~overlapped => \A c \in Calls, n \in Nodes : applied[c][n] <= 1 + faults

\* Likewise max_attempts bounds the attempts, except that an action which was
\* running in a crash is run again.
AttemptsBounded ==
    ~overlapped /\ record # NoRecord
        => \A n \in Nodes : record.acts[n].attempts <= MaxAttempts + faults

\* docs/release_checklist_v0.10.md:254, resume "blocks if compensation started":
\* nodes are executed only while no compensation is on record.
StartedCompensationBlocks ==
    [][\A c \in Resumers : pc[c] = "waiting" /\ pc'[c] = "forward" => record = NoRecord]_vars
=============================================================================
