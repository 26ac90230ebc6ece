---------------------------- MODULE LeaseRenewal ----------------------------
(***************************************************************************)
(* The timing of agent_app/runtime/lease_renewer.py: one DagExecutor call  *)
(* that holds the lease of a run and its LeaseRenewer, against workers     *)
(* that want the run.  The call acquires with LeasePolicy.ttl_seconds of   *)
(* the lease configuration (AcquireTtl); the renewer wakes every Interval  *)
(* seconds and renews with a LeasePolicy of its own (RenewTtl).            *)
(*                                                                         *)
(* Renewer and call share an event loop: a node that computes without      *)
(* awaiting delays a renewal that is due, here by up to MaxDelay seconds.  *)
(***************************************************************************)
EXTENDS RunLease

CONSTANTS run, holder,  \* the run and the worker of the call
          Interval,     \* _interval_seconds
          MaxDelay,     \* bound on the lateness of a renewal
          ChecksRun     \* the renewer was given a state store to read the run from

ASSUME RenewalAssumption ==
    /\ run \in Runs
    /\ holder \in Workers
    /\ Interval \in Nat \ {0}
    /\ MaxDelay \in Nat
    /\ ChecksRun \in BOOLEAN

VARIABLES phase,   \* of the call: idle, executing nodes, finished, compensating, closed
          status,  \* workflow_runs.status; completed and failed are "terminal"
          loop,    \* of _renew_loop: off, waiting, ended
          timer,   \* seconds until the next renewal is due, negative when it is late
          lost     \* lease_lost

renewerVars == <<phase, status, loop, timer, lost>>
vars == <<leaseVars, renewerVars>>

RenewalTypeOK ==
    /\ LeaseTypeOK
    /\ phase \in {"idle", "executing", "finished", "compensating", "closed"}
    /\ status \in {"running", "terminal", "compensating"}
    /\ loop \in {"off", "waiting", "ended"}
    /\ timer \in -MaxDelay .. Interval
    /\ lost \in BOOLEAN

\* A call that executes has just created its run as "running"; one that resumes
\* finds the run as an earlier call left it.
Init ==
    /\ LeaseInit
    /\ phase = "idle"
    /\ status \in {"running", "terminal"}
    /\ loop = "off"
    /\ timer = 0
    /\ lost = FALSE

----------------------------------------------------------------------------
\* Mutant of StartWork: the loop is started before the lease is acquired, and
\* what it acquires is not looked at.
StartWorkDenied ==
    /\ phase = "idle"
    /\ IF AcquireDenied(run, holder) THEN UNCHANGED leaseVars ELSE AcquireLease(run, holder)
    /\ phase' = "executing"
    /\ loop' = "waiting"
    /\ timer' = Interval
    /\ UNCHANGED <<status, lost>>

\* _acquire_lease, then LeaseRenewer.start: the loop waits before it renews.
\* Neither execute nor resume writes the status of the run here.
StartWork ==
    /\ phase = "idle"
    /\ AcquireLease(run, holder)
    /\ phase' = "executing"
    /\ loop' = "waiting"
    /\ timer' = Interval
    /\ UNCHANGED <<status, lost>>

\* The node loop is over: update_run makes the run terminal.  If nodes failed,
\* _execute_compensation soon makes it "compensating" and runs handlers, still
\* under the lease.
FinishNodes ==
    /\ phase = "executing"
    /\ phase' = "finished"
    /\ status' = "terminal"
    /\ UNCHANGED <<leaseVars, loop, timer, lost>>

StartCompensation ==
    /\ phase = "finished"
    /\ phase' = "compensating"
    /\ status' = "compensating"
    /\ UNCHANGED <<leaseVars, loop, timer, lost>>

Working == phase \in {"executing", "finished", "compensating"}

\* The finally block, reached by an exception as well: LeaseRenewer.stop, then
\* _release_lease.
EndWork ==
    /\ Working
    /\ IF HeldBy(run, holder) THEN ReleaseLease(run, holder) ELSE UNCHANGED leaseVars
    /\ phase' = "closed"
    /\ loop' = "off"
    /\ UNCHANGED <<status, timer, lost>>

\* One round of _renew_loop.  It ends when the run is terminal, which only a
\* renewer with a state store can tell, ...
Due == loop = "waiting" /\ timer <= 0
RunIsTerminal == ChecksRun /\ status = "terminal"

NoticeTerminal ==
    /\ Due
    /\ RunIsTerminal
    /\ loop' = "ended"
    /\ UNCHANGED <<leaseVars, phase, status, timer, lost>>

\* Mutant of NoticeLoss: the failed renewal ends the loop without a word.
EndSilently ==
    /\ Due
    /\ ~RunIsTerminal
    /\ ~Live(run, holder)
    /\ loop' = "ended"
    /\ UNCHANGED <<leaseVars, phase, status, timer, lost>>

\* ... it renews and waits again ...
RenewOnTime ==
    /\ Due
    /\ ~RunIsTerminal
    /\ RenewLease(run, holder)
    /\ timer' = Interval
    /\ UNCHANGED <<phase, status, loop, lost>>

\* ... or it fails to, and ends.
NoticeLoss ==
    /\ Due
    /\ ~RunIsTerminal
    /\ ~Live(run, holder)
    /\ lost' = TRUE
    /\ loop' = "ended"
    /\ UNCHANGED <<leaseVars, phase, status, timer>>

\* Other workers acquire, renew and release as they please.
Rival(w) ==
    /\ w # holder
    /\ AcquireLease(run, w) \/ RenewLease(run, w) \/ ReleaseLease(run, w)
    /\ UNCHANGED renewerVars

\* A "finished" call goes on within the second.
Tick ==
    /\ loop = "waiting" => timer > -MaxDelay
    /\ phase # "finished"
    /\ LeaseTick
    /\ timer' = IF loop = "waiting" THEN timer - 1 ELSE timer
    /\ UNCHANGED <<phase, status, loop, lost>>

Renewer == NoticeTerminal \/ RenewOnTime \/ NoticeLoss

Next ==
    \/ StartWork \/ FinishNodes \/ StartCompensation \/ EndWork
    \/ Renewer
    \/ \E w \in Workers : Rival(w)
    \/ Tick

Spec == Init /\ [][Next]_vars

\* The renewal task is scheduled, time passes, and a finished call goes on; how
\* long nodes and compensation handlers take is left open.
FairSpec ==
    /\ Spec
    /\ WF_vars(Renewer) /\ WF_vars(Tick)
    /\ WF_vars(phase = "finished" /\ (StartCompensation \/ EndWork))

----------------------------------------------------------------------------
\* How late a renewal may be: the shorter ttl less the interval.
Slack == (IF AcquireTtl < RenewTtl THEN AcquireTtl ELSE RenewTtl) - Interval

\* While the run is "running", or the renewer does not look, a call holds an
\* unexpired lease for as long as its renewal is not Slack seconds late; whoever
\* else asks for the run is denied (lease_renewer.py:152-228).
LeaseKept ==
    Working /\ (ChecksRun => status = "running") /\ timer > -Slack => Live(run, holder)

\* A call that loses its lease while it executes nodes finds out, if it goes on
\* for long enough: lease_lost is set, and stays set until the executor looks.
LossIsNoticed ==
    phase = "executing" /\ status = "running" /\ ~Live(run, holder)
        ~> lost \/ phase # "executing"

\* lease_renewer.py:5, "extending the lease so it doesn't expire mid-execution":
\* with a prompt event loop (MaxDelay = 0) the lease lasts from its acquisition
\* to the finally block.
LastsThroughout == Working => Live(run, holder)
=============================================================================
