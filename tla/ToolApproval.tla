---------------------------- MODULE ToolApproval ----------------------------
(***************************************************************************)
(* Human approval of tool calls: ApprovalResumeService of                  *)
(* agent_app/runtime/approval_resume.py, approve, reject and resume of     *)
(* agent_app/core/app.py, the SQLite stores of runtime/approval_store.py   *)
(* and runtime/run_state_store.py that several processes share, the        *)
(* governance pipeline of runtime/tool_executor.py and the native resume   *)
(* of adapters/openai_agents.py.                                           *)
(*                                                                         *)
(* One run.  It is interrupted either by the SDK, for one or more tool     *)
(* calls and with a backend state (native), or by the governance pipeline, *)
(* for one tool call and without one.  Every statement on a store is a     *)
(* step.  A coroutine gives up the event loop of its process only while    *)
(* backend.resume waits for the model, since the stores and audit loggers  *)
(* block; so calls of one process interleave there and nowhere else.       *)
(***************************************************************************)
EXTENDS Integers, Sequences

CONSTANTS Calls,        \* API calls, each made once
          Runner,       \* the call that starts the run
          Procs,        \* processes that serve the calls
          ApprovalIds,  \* the approvals of the interruption, in order
          Late,         \* an approval requested while the run resumes
          MaxCrashes    \* bound on process crashes

ASSUME ToolApprovalAssumption ==
    /\ Runner \notin Calls
    /\ ApprovalIds \in Seq({ApprovalIds[i] : i \in DOMAIN ApprovalIds})
    /\ Len(ApprovalIds) > 0
    /\ \A i, j \in 1..Len(ApprovalIds) : ApprovalIds[i] = ApprovalIds[j] => i = j
    /\ Late \notin {ApprovalIds[i] : i \in 1..Len(ApprovalIds)}
    /\ MaxCrashes \in Nat

VARIABLES
    native,      \* the interruption came from the SDK, with a backend state
    approval,    \* the row of each approval: its status, "none" before it exists
    run,         \* the status of the row of the run, "none" before it is saved
    ttlPassed,   \* the expires_at of the approvals lies in the past
    call,        \* every call and how far it got
    executed,    \* history: how often the tool call of an approval ran
    crashes

vars == <<native, approval, run, ttlPassed, call, executed, crashes>>

Requested == {ApprovalIds[i] : i \in 1..Len(ApprovalIds)}
AllApprovals == Requested \cup {Late}

\* The approval_ids of the run.
Ids == IF native THEN ApprovalIds ELSE <<ApprovalIds[1]>>
IdSet == {Ids[i] : i \in 1..Len(Ids)}

Statuses == {"none", "pending", "approved", "rejected", "expired"}
Ops == {"run", "approve_and_resume", "reject_approval", "approve", "reject", "resume"}
Deciding == {"approve_and_resume", "reject_approval", "approve", "reject"}

\* Where a call is.  It holds the event loop of its process in the Holding ones.
Holding == {"create", "save", "read", "write", "expire", "pending", "rejected",
            "close", "markFirst", "decisions", "mark"}
Over == {"done", "dead"}
Places == Holding \cup Over \cup {"idle", "backend"}

Idle == [op |-> "run", id |-> ApprovalIds[1], proc |-> CHOOSE p \in Procs : TRUE,
         pc |-> "idle", at |-> 1, tools |-> {}, wrote |-> "none", resumes |-> FALSE]

ApprovalTypeOK ==
    /\ native \in BOOLEAN
    /\ approval \in [AllApprovals -> Statuses]
    /\ run \in {"none", "interrupted", "resumed", "completed"}
    /\ ttlPassed \in BOOLEAN
    /\ call \in [Calls \cup {Runner} ->
                   [op : Ops, id : AllApprovals, proc : Procs, pc : Places,
                    at : 1..Len(ApprovalIds), tools : SUBSET Requested,
                    wrote : Statuses,   \* the status it gave its approval
                    resumes : BOOLEAN]] \* it found the run free to resume
    /\ executed \in [Requested -> Nat]
    /\ crashes \in 0..MaxCrashes

Init ==
    /\ native \in BOOLEAN
    /\ approval = [a \in AllApprovals |-> "none"]
    /\ run = "none"
    /\ ttlPassed = FALSE
    /\ \E p \in Procs :
          call = [c \in Calls \cup {Runner} |->
                    IF c = Runner THEN [Idle EXCEPT !.pc = "create", !.proc = p] ELSE Idle]
    /\ executed = [a \in Requested |-> 0]
    /\ crashes = 0

----------------------------------------------------------------------------
(* Steps of calls.                                                         *)
Busy(p) == \E c \in Calls \cup {Runner} : call[c].proc = p /\ call[c].pc \in Holding

Goto(c, place) == call' = [call EXCEPT ![c].pc = place, ![c].at = 1]
Current(c) == Ids[call[c].at]

\* The loop over approval_ids goes on, or ends at place after.
GoOn(c, after) ==
    IF call[c].at < Len(Ids) THEN call' = [call EXCEPT ![c].at = @ + 1]
                             ELSE Goto(c, after)

Expired == ttlPassed /\ ~native

\* adapters/openai_agents.py run: an approval request per interruption, and
\* then app_runner.py saves the run.  Approvals of the SDK have no TTL.
CreateApproval ==
    /\ call[Runner].pc = "create"
    /\ approval' = [approval EXCEPT ![Current(Runner)] = "pending"]
    /\ GoOn(Runner, "save")
    /\ UNCHANGED <<native, run, ttlPassed, executed, crashes>>

SaveRun ==
    /\ call[Runner].pc = "save"
    /\ run' = "interrupted"
    /\ Goto(Runner, "done")
    /\ UNCHANGED <<native, approval, ttlPassed, executed, crashes>>

\* Checks before the first write; a call that fails one changes nothing.  A
\* policy may also turn approve_and_resume away.
Admitted(op, a) ==
    CASE op = "approve_and_resume" ->
            approval[a] # "none" /\ ~Expired /\ run # "none" /\ a \in IdSet
      [] op = "reject_approval"  -> approval[a] # "none" /\ (run = "none" \/ a \in IdSet)
      [] op \in {"approve", "reject"} -> approval[a] # "none"
      [] op = "resume" -> run # "none" /\ a = ApprovalIds[1]

Begin(c, op, a, p) ==
    /\ call[c].pc = "idle"
    /\ ~Busy(p)
    /\ Admitted(op, a)
    /\ call' = [call EXCEPT ![c].op = op, ![c].id = a, ![c].proc = p,
                            ![c].pc = IF op \in Deciding THEN "read" ELSE "pending"]
    /\ UNCHANGED <<native, approval, run, ttlPassed, executed, crashes>>

\* Mutant of Open: the status is not checked.
OpenAlways(a) == approval[a] # "none"
Open(a) == approval[a] = "pending"

\* approve and reject of the store read the row ...
ReadApproval(c) ==
    /\ call[c].pc = "read"
    /\ Goto(c, IF ~Open(call[c].id) THEN "done" ELSE IF Expired THEN "expire" ELSE "write")
    /\ UNCHANGED <<native, approval, run, ttlPassed, executed, crashes>>

\* ... and write it in another statement, whatever it then is.
\* Mutants of Decision: reject is a copy of approve; the operation is stored,
\* not the status.
AlwaysApproved(op) == "approved"
StoredVerb(op) == op
Decision(op) == IF op \in {"approve", "approve_and_resume"} THEN "approved" ELSE "rejected"

AfterDecision(op) ==
    CASE op = "approve_and_resume" -> "pending"
      [] op = "reject_approval" -> "close"
      [] OTHER -> "done"

WriteDecision(c) ==
    /\ call[c].pc = "write"
    /\ approval' = [approval EXCEPT ![call[c].id] = Decision(call[c].op)]
    /\ call' = [call EXCEPT ![c].pc = AfterDecision(call[c].op),
                            ![c].wrote = Decision(call[c].op)]
    /\ UNCHANGED <<native, run, ttlPassed, executed, crashes>>

WriteExpired(c) ==
    /\ call[c].pc = "expire"
    /\ approval' = [approval EXCEPT ![call[c].id] = "expired"]
    /\ call' = [call EXCEPT ![c].pc = "done", ![c].wrote = "expired"]
    /\ UNCHANGED <<native, run, ttlPassed, executed, crashes>>

\* Mutants of Blocking: an approved request counts as open, too; none does.
BlockingUnlessDenied(a) == approval[a] \in {"pending", "approved"}
Unchecked(a) == FALSE
Blocking(a) == approval[a] = "pending"

\* _pending_approvals and _check_pending_approvals.
LookForPending(c) ==
    /\ call[c].pc = "pending"
    /\ IF Blocking(Current(c)) THEN Goto(c, "done") ELSE GoOn(c, "rejected")
    /\ UNCHANGED <<native, approval, run, ttlPassed, executed, crashes>>

\* Unchecked is a mutant of this one, too.
Vetoes(a) == approval[a] = "rejected"

\* _has_rejection and _check_rejected_approvals.  Without a backend state
\* approve_and_resume stops here.
LookForRejection(c) ==
    LET next == IF call[c].op = "resume" THEN "markFirst"
                ELSE IF native THEN "decisions" ELSE "done"
    IN /\ call[c].pc = "rejected"
       /\ IF Vetoes(Current(c)) THEN Goto(c, "close")
          ELSE IF call[c].at < Len(Ids) THEN GoOn(c, next)
          ELSE call' = [call EXCEPT ![c].pc = next, ![c].at = 1,
                                    ![c].resumes = next # "done"]
       /\ UNCHANGED <<native, approval, run, ttlPassed, executed, crashes>>

\* mark_completed: an UPDATE that finds no row changes nothing.
CloseRun(c) ==
    /\ call[c].pc = "close"
    /\ run' = IF run = "none" THEN run ELSE "completed"
    /\ Goto(c, "done")
    /\ UNCHANGED <<native, approval, ttlPassed, executed, crashes>>

\* app.resume marks the run resumed before the backend resumes it, and without
\* a backend state reports it approved and resumed at once.
MarkFirst(c) ==
    /\ call[c].pc = "markFirst"
    /\ run' = "resumed"
    /\ Goto(c, IF native THEN "decisions" ELSE "done")
    /\ UNCHANGED <<native, approval, ttlPassed, executed, crashes>>

\* The decisions are read once more, and backend.resume marks the tool calls
\* approved in them.  It may fail before the model is called.
ReadDecisions(c) ==
    /\ call[c].pc = "decisions"
    /\ \E next \in {"backend", "done"} :
          call' = [call EXCEPT
                     ![c].tools = IF approval[Current(c)] = "approved"
                                  THEN @ \cup {Current(c)} ELSE @,
                     ![c].pc = IF call[c].at = Len(Ids) THEN next ELSE @,
                     ![c].at = IF call[c].at = Len(Ids) THEN 1 ELSE @ + 1]
    /\ UNCHANGED <<native, approval, run, ttlPassed, executed, crashes>>

----------------------------------------------------------------------------
(* ToolExecutor.execute.                                                   *)
Verdicts == [policy : {"allow", "deny", "approve"}, permitted : BOOLEAN,
             enforcement : {"allow", "deny", "approve"}, limited : BOOLEAN,
             risky : BOOLEAN]  \* requires_tool_approval of the tool

\* The outcome of the gates, in their order, for a call that carries a valid
\* approval marker or not.
Gate(v, marked) ==
    CASE v.policy = "deny" -> "failed"
      [] v.policy = "approve" -> "interrupted"
      [] v.policy = "allow" /\ ~v.permitted -> "failed"
      [] v.policy = "allow" /\ v.permitted /\ v.enforcement = "deny" -> "failed"
      [] OTHER ->
            IF v.enforcement = "approve" /\ ~(v.risky /\ ~marked) THEN "interrupted"
            ELSE IF ~(v.risky /\ ~marked) THEN "executed"
            ELSE IF v.limited THEN "failed" ELSE "interrupted"

MarkedOutcomes == {Gate(v, TRUE) : v \in Verdicts}

\* Mutant of Popped: what was executed stays to be done.
KeptThere(tools, a) == tools
Popped(tools, a) == tools \ {a}

\* While backend.resume runs the model, an approved tool call goes through the
\* gates; one of them may ask for an approval of its own.
RunTool(c, a) ==
    /\ call[c].pc = "backend"
    /\ ~Busy(call[c].proc)
    /\ a \in call[c].tools
    /\ \E outcome \in MarkedOutcomes :
          /\ executed' = IF outcome = "executed" THEN [executed EXCEPT ![a] = @ + 1]
                         ELSE executed
          /\ approval' = IF outcome = "interrupted" /\ approval[Late] = "none"
                         THEN [approval EXCEPT ![Late] = "pending"] ELSE approval
    /\ call' = [call EXCEPT ![c].tools = Popped(@, a)]
    /\ UNCHANGED <<native, run, ttlPassed, crashes>>

\* backend.resume returns, and that with the tools it did not come to undone.
BackendReturns(c) ==
    /\ call[c].pc = "backend"
    /\ ~Busy(call[c].proc)
    /\ call' = [call EXCEPT ![c].tools = {},
                            ![c].pc = IF call[c].op = "resume" THEN "done" ELSE "mark"]
    /\ UNCHANGED <<native, approval, run, ttlPassed, executed, crashes>>

\* approve_and_resume marks the run resumed, whatever the result says.
MarkResumed(c) ==
    /\ call[c].pc = "mark"
    /\ run' = "resumed"
    /\ Goto(c, "done")
    /\ UNCHANGED <<native, approval, ttlPassed, executed, crashes>>

TtlPasses ==
    /\ ~native /\ ~ttlPassed /\ approval[ApprovalIds[1]] # "none"
    /\ ttlPassed' = TRUE
    /\ UNCHANGED <<native, approval, run, call, executed, crashes>>

\* A process dies with its calls; another one of the same name takes over.
Crash(p) ==
    LET active == {c \in Calls \cup {Runner} :
                     call[c].proc = p /\ call[c].pc \notin Over \cup {"idle"}}
    IN /\ crashes < MaxCrashes
       /\ active # {}
       /\ call' = [c \in Calls \cup {Runner} |->
                     IF c \in active THEN [call[c] EXCEPT !.pc = "dead"] ELSE call[c]]
       /\ crashes' = crashes + 1
       /\ UNCHANGED <<native, approval, run, ttlPassed, executed>>

Step(c) ==
    \/ ReadApproval(c)
    \/ WriteDecision(c)
    \/ WriteExpired(c)
    \/ LookForPending(c)
    \/ LookForRejection(c)
    \/ CloseRun(c)
    \/ MarkFirst(c)
    \/ ReadDecisions(c)
    \/ \E a \in Requested : RunTool(c, a)
    \/ BackendReturns(c)
    \/ MarkResumed(c)

Next ==
    \/ CreateApproval
    \/ SaveRun
    \/ \E c \in Calls, op \in Ops \ {"run"}, a \in AllApprovals, p \in Procs :
          Begin(c, op, a, p)
    \/ \E c \in Calls : Step(c)
    \/ TtlPasses
    \/ \E p \in Procs : Crash(p)

Spec == Init /\ [][Next]_vars
----------------------------------------------------------------------------
SettlersOf(a) == {c \in Calls : call[c].wrote # "none" /\ call[c].id = a}
Resuming == {c \in Calls : call[c].resumes}

\* A tool call that waits for a human runs only after somebody approved that
\* very call, whoever resumes the run and however the decisions, the TTL and
\* the crashes fall (approval_resume.py:278-373, openai_agents.py:855-877).
ExecutedWasApproved ==
    \A a \in Requested : executed[a] > 0 =>
        \E c \in SettlersOf(a) : call[c].op \in {"approve", "approve_and_resume"}

\* Two calls that both settled one approval (approved, rejected or found it
\* expired), which the store allows between its SELECT and its UPDATE, were
\* served by different processes
\* (approval_store.py:115-147, 149-181).
DecisionsExclusive ==
    \A a \in AllApprovals : \A c, d \in SettlersOf(a) :
        c # d => call[c].proc # call[d].proc

\* Of the calls that approve the requests of an interruption one resumes the
\* run, not two; only calls in different processes may each find nothing left
\* to decide (approval_resume.py:278-373).
ResumedOnce ==
    \A c, d \in Resuming :
        c # d /\ call[c].op = "approve_and_resume" /\ call[d].op = "approve_and_resume"
            => call[c].proc # call[d].proc

\* A call does what was approved at most once: a tool call ran twice only if two
\* calls resumed the run, and of those one was app.resume, which does not look
\* whether the run is still interrupted, or they are of different processes
\* (app.py:1268-1392, approval_resume.py:278-373, tool_executor.py:79-420).
ExecutedOnce ==
    \A a \in Requested : executed[a] > 1 =>
        \E c, d \in Resuming :
            c # d /\ ("resume" \in {call[c].op, call[d].op} \/ call[c].proc # call[d].proc)

\* No approval gets lost: once all requests of an SDK interruption are
\* approved by approve_and_resume and no call is active, or died, one of the
\* calls went on to resume the run.  Each of them writes its decision before
\* it looks for pending ones (approval_resume.py:278-330).
ResumeNotLost ==
    (/\ native /\ run # "none"
     /\ \A a \in IdSet : approval[a] = "approved"
     /\ \A c \in Calls : call[c].pc \in {"idle", "done"}
     /\ \A c \in Calls : call[c].wrote # "none" => call[c].op # "approve")
        => Resuming # {}

\* A run that a rejection closed is resumed only if two calls settled a request
\* of it, each its own way (approval_resume.py:332-345, app.py:1299-1331).
RejectedStaysClosed ==
    [][run = "completed" /\ run' = "resumed" =>
          \E a \in IdSet : \E c, d \in SettlersOf(a) : call[c].wrote # call[d].wrote]_vars

\* run_state.py:123-136, InterruptedRun.is_resumable: a run is resumable if it
\* is in INTERRUPTED status.
ResumedOnlyInterrupted ==
    [][\A c \in Calls : ~call[c].resumes /\ call'[c].resumes => run = "interrupted"]_vars
=============================================================================
