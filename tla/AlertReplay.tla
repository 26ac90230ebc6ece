---------------------------- MODULE AlertReplay ----------------------------
(***************************************************************************)
(* The replay of failed alert deliveries: daemons and run_once calls       *)
(* (agent_app/runtime/policy_rollout_federation_notification_retry_daemon) *)
(* that share, in SQLite, the priority queue of the deliveries, the        *)
(* idempotency records and the lock that elects the leading daemon.        *)
(*                                                                         *)
(* Every statement on a database is a step; a store that reads a row and   *)
(* then writes it takes two.  The dead-letter policy, which only words the *)
(* reason of a failure, key rotation and metrics are left out, and so are  *)
(* the renewal inside a run, which follows that of the loop at once, and   *)
(* the delivery service that a run calls in the end: it has its own store. *)
(***************************************************************************)
EXTENDS Integers, FiniteSets

CONSTANTS Daemons,     \* processes that run the loop, each with a worker_id
          Shots,       \* processes that call run_once, without a worker_id
          Items,       \* the deliveries that were enqueued
          NoOne, NoItem,
          MaxRefusals, \* bound on deliveries that fail for now or are rate limited
          MaxSlow,     \* bound on leases that lapse while their holder lives
          MaxFaults    \* bound on crashes, stops, release_lock commands and
                       \* statements that fail

Workers == Daemons \cup Shots
Owner(w) == IF w \in Daemons THEN w ELSE "default"   \* of the lock
Claimant(w) == IF w \in Daemons THEN w ELSE NoOne    \* of an item

ASSUME ReplayAssumption ==
    /\ NoOne \notin Daemons \cup {"default"} /\ "default" \notin Daemons
    /\ Daemons \cap Shots = {} /\ NoItem \notin Items
    /\ IsFiniteSet(Workers)
    /\ {MaxRefusals, MaxSlow, MaxFaults} \subseteq Nat

VARIABLES
    queue,      \* the row of every item: status, claimed_by, is its lease over?
    record,     \* the idempotency record of every item
    lock,       \* the row of the lock: its owner, NoOne without a row, is its lease over?
    proc,       \* what every process does
    delivered,  \* history: how often an item was delivered
    resets,     \* history: how often its lease was reset
    rehearsed,  \* history: items that a dry run took from the queue
    refusals, slow, faults, \* history: counted against the bounds
    lockLapsed  \* history: was the lease of the lock ever over?

vars == <<queue, record, lock, proc, delivered, resets, rehearsed,
          refusals, slow, faults, lockLapsed>>
histVars == <<delivered, resets, rehearsed, refusals, slow, faults, lockLapsed>>

Waiting == {"queued", "requeued"}
ItemStatuses == Waiting \cup {"claimed", "completed", "failed"}
Outcomes == {"completed", "requeued", "failed"}
Places == {"off", "acquire", "insert", "takeover", "lead", "renew", "reset", "restore", "claim",
           "work", "deliver", "record", "select", "update", "release", "delete"}
Off == [pc |-> "off", leads |-> FALSE, dry |-> FALSE, found |-> {}, todo |-> {},
        item |-> NoItem, outcome |-> "none"]

AlertReplayTypeOK ==
    /\ \A i \in Items :
         /\ queue[i].status \in ItemStatuses
         /\ queue[i].by \in Daemons \cup {NoOne}
         /\ queue[i].lapsed => queue[i].status = "claimed"
    /\ record \in [Items -> {"none", "started", "completed", "failed"}]
    /\ lock.owner \in Daemons \cup {"default", NoOne}
    /\ \A w \in Workers :
         /\ proc[w].pc \in Places
         /\ proc[w].found \subseteq Items /\ proc[w].todo \subseteq Items
         /\ proc[w].item \in Items \cup {NoItem}
         /\ proc[w].outcome \in Outcomes \cup {"none"}
    /\ refusals \in 0..MaxRefusals /\ slow \in 0..MaxSlow /\ faults \in 0..MaxFaults

Row(status, by) == [status |-> status, by |-> by, lapsed |-> FALSE]
LockRow(owner) == [owner |-> owner, lapsed |-> FALSE]

Init ==
    /\ queue = [i \in Items |-> Row("queued", NoOne)]
    /\ record = [i \in Items |-> "none"]
    /\ lock = LockRow(NoOne)
    /\ proc = [w \in Workers |-> Off]
    /\ delivered = [i \in Items |-> 0]
    /\ resets = [i \in Items |-> 0]
    /\ rehearsed = {}
    /\ refusals = 0 /\ slow = 0 /\ faults = 0 /\ lockLapsed = FALSE

At(w, place) == proc[w].pc = place
Goto(w, place) == proc' = [proc EXCEPT ![w].pc = place]

----------------------------------------------------------------------------
(* The lock.  acquire and renew compare the lease of the row they read     *)
(* with the clock, and then write the row of that name.                    *)
Start(w) ==
    /\ At(w, "off")
    /\ \E dry \in IF w \in Shots THEN BOOLEAN ELSE {FALSE} :
          proc' = [proc EXCEPT ![w] = [Off EXCEPT !.pc = "acquire", !.dry = dry]]
    /\ UNCHANGED <<queue, record, lock, histVars>>

\* A daemon that is denied tries again; run_once returns.  If the lock store
\* raises, run_once goes on without the lock.
ReadLock(w) ==
    /\ At(w, "acquire")
    /\ \/ lock.owner = NoOne /\ Goto(w, "insert")
       \/ lock.owner # NoOne /\ lock.lapsed /\ Goto(w, "takeover")
       \/ lock.owner # NoOne /\ ~lock.lapsed /\ w \in Shots /\ Goto(w, "off")
       \/ w \in Shots /\ Goto(w, "reset")
    /\ UNCHANGED <<queue, record, lock, histVars>>

Lead(w) ==
    proc' = [proc EXCEPT ![w].leads = TRUE, ![w].pc = IF w \in Daemons THEN "lead" ELSE "reset"]

\* Mutant of MayInsert: the row is replaced if there is one.
MayReplace == TRUE
MayInsert == lock.owner = NoOne
InsertLock(w) ==
    /\ At(w, "insert")
    /\ \/ MayInsert /\ lock' = LockRow(Owner(w)) /\ Lead(w)
       \/ ~MayInsert /\ lock' = lock /\ Goto(w, IF w \in Daemons THEN "acquire" ELSE "reset")
    /\ UNCHANGED <<queue, record, histVars>>

TakeLockOver(w) ==
    /\ At(w, "takeover")
    /\ lock' = IF lock.owner = NoOne THEN lock ELSE LockRow(Owner(w))
    /\ Lead(w)
    /\ UNCHANGED <<queue, record, histVars>>

\* The loop renews the lock when it is due, and then does a run.
LeaderGoesOn(w) ==
    /\ At(w, "lead")
    /\ \/ Goto(w, "reset")
       \/ lock.owner = Owner(w) /\ Goto(w, "renew")
       \/ lock.owner # Owner(w) /\ proc' = [proc EXCEPT ![w] = [Off EXCEPT !.pc = "acquire"]]
    /\ UNCHANGED <<queue, record, lock, histVars>>

RenewLock(w) ==
    /\ At(w, "renew")
    /\ lock' = [lock EXCEPT !.lapsed = FALSE]
    /\ Goto(w, "reset")
    /\ UNCHANGED <<queue, record, histVars>>

\* stop and the release_lock command, between two runs.
Interrupt(w) ==
    /\ At(w, "lead")
    /\ faults < MaxFaults
    /\ faults' = faults + 1
    /\ Goto(w, "release")
    /\ UNCHANGED <<queue, record, lock, delivered, resets, rehearsed, refusals, slow, lockLapsed>>

\* A daemon that released the lock is stopped or tries to get it again.
Released(w) ==
    \E place \in IF w \in Daemons THEN {"off", "acquire"} ELSE {"off"} :
        proc' = [proc EXCEPT ![w] = [Off EXCEPT !.pc = place]]

ReadForRelease(w) ==
    /\ At(w, "release")
    /\ \/ lock.owner = Owner(w) /\ Goto(w, "delete")
       \/ lock.owner # Owner(w) /\ Released(w)
    /\ UNCHANGED <<queue, record, lock, histVars>>

DeleteLock(w) ==
    /\ At(w, "delete")
    /\ lock' = LockRow(NoOne)
    /\ Released(w)
    /\ UNCHANGED <<queue, record, histVars>>

----------------------------------------------------------------------------
(* A run: leases that are over are reset, items are claimed ...            *)
FindLapsed(w) ==
    LET found == {i \in Items : queue[i].lapsed} IN
    /\ At(w, "reset")
    /\ proc' = [proc EXCEPT ![w].found = found,
                            ![w].pc = IF found = {} THEN "claim" ELSE "restore"]
    /\ UNCHANGED <<queue, record, lock, histVars>>

ResetLapsed(w) ==
    LET found == proc[w].found IN
    /\ At(w, "restore")
    /\ queue' = [i \in Items |-> IF i \in found THEN Row("queued", NoOne) ELSE queue[i]]
    /\ resets' = [i \in Items |-> IF i \in found THEN resets[i] + 1 ELSE resets[i]]
    /\ proc' = [proc EXCEPT ![w].found = {}, ![w].pc = "claim"]
    /\ UNCHANGED <<record, lock, delivered, rehearsed, refusals, slow, faults, lockLapsed>>

\* The items whose status is still right when claim_next updates them.
\* Mutant of Claimable: an item that was requeued is not found again.
NeverClaimed == {i \in Items : queue[i].status = "queued"}
\* Mutant of Claimable: the update does not look at the status again.
ClaimableAlways == {i \in Items : queue[i].status \in Waiting \cup {"claimed"}}
Claimable == {i \in Items : queue[i].status \in Waiting}
Claim(w) ==
    /\ At(w, "claim")
    /\ \E S \in SUBSET Claimable :
          /\ S # {} \/ Claimable = {}
          /\ queue' = [i \in Items |-> IF i \in S THEN Row("claimed", Claimant(w)) ELSE queue[i]]
          /\ proc' = [proc EXCEPT ![w].todo = S, ![w].pc = "work"]
    /\ UNCHANGED <<record, lock, histVars>>

----------------------------------------------------------------------------
(* ... and each is taken up, delivered and settled.                        *)
Take(w, i, place, outcome) ==
    proc' = [proc EXCEPT ![w].pc = place, ![w].todo = @ \ {i}, ![w].item = i,
                         ![w].outcome = outcome]

\* The attempt, its target or its adapter is missing.
TakeUnknown(w, i) ==
    /\ Take(w, i, "select", "failed")
    /\ UNCHANGED <<queue, record, lock, histVars>>

\* A dry run acknowledges what it claimed.
Rehearse(w, i) ==
    /\ proc[w].dry
    /\ Take(w, i, "select", "completed")
    /\ rehearsed' = rehearsed \cup {i}
    /\ UNCHANGED <<queue, record, lock, delivered, resets, refusals, slow, faults, lockLapsed>>

RateLimited(w, i) ==
    /\ ~proc[w].dry
    /\ refusals < MaxRefusals
    /\ refusals' = refusals + 1
    /\ Take(w, i, "select", "requeued")
    /\ UNCHANGED <<queue, record, lock, delivered, resets, rehearsed, slow, faults, lockLapsed>>

\* begin of the idempotency store: only a completed record stops a delivery; if
\* a record that is no longer started is there, begin raises and is ignored.
\* Mutant of Stops: a record that was started stops it too.
StopsIfPresent(i) == record[i] \in {"completed", "started"}
Stops(i) == record[i] = "completed"
BeginReplay(w, i) ==
    /\ ~proc[w].dry
    /\ IF Stops(i) THEN Take(w, i, "select", "completed") ELSE Take(w, i, "deliver", "none")
    /\ record' = [record EXCEPT ![i] = IF @ = "none" THEN "started" ELSE @]
    /\ UNCHANGED <<queue, lock, histVars>>

EndRun(w) ==
    /\ proc[w].todo = {}
    /\ Goto(w, CASE w \in Daemons -> "lead" [] proc[w].leads -> "release" [] OTHER -> "off")
    /\ UNCHANGED <<queue, record, lock, histVars>>

Work(w) ==
    /\ At(w, "work")
    /\ \/ EndRun(w)
       \/ \E i \in proc[w].todo :
             TakeUnknown(w, i) \/ Rehearse(w, i) \/ RateLimited(w, i) \/ BeginReplay(w, i)

Deliver(w) ==
    LET i == proc[w].item IN
    /\ At(w, "deliver")
    /\ \E outcome \in Outcomes :
          /\ proc' = [proc EXCEPT ![w].outcome = outcome, ![w].pc = "record"]
          /\ outcome = "requeued" => refusals < MaxRefusals
          /\ refusals' = IF outcome = "requeued" THEN refusals + 1 ELSE refusals
          /\ delivered' = IF outcome = "completed" THEN [delivered EXCEPT ![i] = @ + 1] ELSE delivered
    /\ UNCHANGED <<queue, record, lock, resets, rehearsed, slow, faults, lockLapsed>>

WriteRecord(w) ==
    LET i == proc[w].item
        status == IF proc[w].outcome = "completed" THEN "completed" ELSE "failed"
    IN
    /\ At(w, "record")
    /\ record' = [record EXCEPT ![i] = IF @ = "none" THEN @ ELSE status]
    /\ Goto(w, "select")
    /\ UNCHANGED <<queue, lock, histVars>>

\* acknowledge, fail and requeue read the item ...
MaySettle(w, row) ==
    IF proc[w].outcome = "requeued" THEN row.status \in {"claimed", "failed"}
    ELSE row.status = "claimed" /\ (w \in Shots \/ row.by \in {NoOne, w})

NextItem(w) == proc' = [proc EXCEPT ![w].pc = "work", ![w].item = NoItem, ![w].outcome = "none"]

SelectItem(w) ==
    /\ At(w, "select")
    /\ IF MaySettle(w, queue[proc[w].item]) THEN Goto(w, "update") ELSE NextItem(w)
    /\ UNCHANGED <<queue, record, lock, histVars>>

\* ... and then write it, whatever it is by then.
\* Mutant of Settled: the lease stays in the row.
SettledWithLease(row, outcome) == [row EXCEPT !.status = outcome, !.by = NoOne]
Settled(row, outcome) == Row(outcome, NoOne)
UpdateItem(w) ==
    /\ At(w, "update")
    /\ queue' = [queue EXCEPT ![proc[w].item] = Settled(@, proc[w].outcome)]
    /\ NextItem(w)
    /\ UNCHANGED <<record, lock, histVars>>

----------------------------------------------------------------------------
(* Time, and what goes wrong.                                              *)
Handles(w, i) == i \in proc[w].todo \/ proc[w].item = i

\* The lease of a claim ends, because nobody works on it any more or too slowly.
ClaimLapses(i) ==
    /\ queue[i].status = "claimed" /\ ~queue[i].lapsed
    /\ queue' = [queue EXCEPT ![i].lapsed = TRUE]
    /\ \/ (\A w \in Workers : ~Handles(w, i)) /\ slow' = slow
       \/ (\E w \in Workers : Handles(w, i)) /\ slow < MaxSlow /\ slow' = slow + 1
    /\ UNCHANGED <<record, lock, proc, delivered, resets, rehearsed, refusals, faults, lockLapsed>>

OwnerLeads == \E w \in Workers : Owner(w) = lock.owner /\ proc[w].leads

LockLapses ==
    /\ lock.owner # NoOne /\ ~lock.lapsed
    /\ lock' = [lock EXCEPT !.lapsed = TRUE]
    /\ lockLapsed' = TRUE
    /\ \/ ~OwnerLeads /\ slow' = slow
       \/ OwnerLeads /\ slow < MaxSlow /\ slow' = slow + 1
    /\ UNCHANGED <<queue, record, proc, delivered, resets, rehearsed, refusals, faults>>

\* Records whose TTL has passed are pruned.
Prune(i) ==
    /\ record[i] # "none"
    /\ record' = [record EXCEPT ![i] = "none"]
    /\ UNCHANGED <<queue, lock, proc, histVars>>

\* A process dies, or a statement on the queue fails and the run goes on with
\* the next item.
Fault(w) ==
    /\ ~At(w, "off")
    /\ faults < MaxFaults
    /\ faults' = faults + 1
    /\ \/ proc' = [proc EXCEPT ![w] = Off]
       \/ proc[w].item # NoItem /\ NextItem(w)
    /\ UNCHANGED <<queue, record, lock, delivered, resets, rehearsed, refusals, slow, lockLapsed>>

Step(w) ==
    \/ ReadLock(w) \/ InsertLock(w) \/ TakeLockOver(w) \/ LeaderGoesOn(w) \/ RenewLock(w)
    \/ ReadForRelease(w) \/ DeleteLock(w)
    \/ FindLapsed(w) \/ ResetLapsed(w) \/ Claim(w) \/ Work(w)
    \/ Deliver(w) \/ WriteRecord(w) \/ SelectItem(w) \/ UpdateItem(w)

Next ==
    \/ \E w \in Workers : Start(w) \/ Step(w) \/ Interrupt(w) \/ Fault(w)
    \/ \E i \in Items : ClaimLapses(i) \/ Prune(i)
    \/ LockLapses

\* Processes that run go on, daemons are started, and leases end: the loop
\* catches what a run raises, and the leases are times in the rows.
Fairness ==
    /\ \A w \in Workers : WF_vars(Step(w))
    /\ \A w \in Daemons : WF_vars(Start(w))
    /\ \A i \in Items : WF_vars(ClaimLapses(i))
    /\ WF_vars(LockLapses)

Spec == Init /\ [][Next]_vars
FairSpec == Spec /\ Fairness

----------------------------------------------------------------------------
(* Properties.                                                             *)

\* Every delivery of an item beyond the first needs a reset of its lease: no
\* stale requeue, retry, fault or lost race for the lock alone repeats one.
DeliveriesBounded == \A i \in Items : delivered[i] <= 1 + resets[i]

\* An item that leaves the queue as completed was delivered, unless a dry run
\* acknowledged it: a replay that another process began, and died in, does not
\* count as done.
CompletedWasDelivered ==
    \A i \in Items : queue[i].status = "completed" => delivered[i] > 0 \/ i \in rehearsed

\* Two processes take themselves for the owner of the lock only after its lease
\* was over once, even if they raced to insert or to delete its row.
OneLeaderAtATime ==
    \A v, w \in Workers : proc[v].leads /\ proc[w].leads /\ v # w => lockLapsed

\* Whatever is in the queue is completed or failed in the end, whoever dies with
\* the lock or with a claim: both lapse, and a leader resets the claim.
Handled ==
    \A i \in Items :
        queue[i].status \in Waiting \cup {"claimed"} ~> queue[i].status \in {"completed", "failed"}
=============================================================================
