----------------------------- MODULE RunTenancy -----------------------------
(***************************************************************************)
(* What a lease backend promises the executors of workflow runs: a run has *)
(* at most one tenant; a worker moves in only when the run is free, and    *)
(* time or a release makes any number of runs free at once.                *)
(***************************************************************************)
CONSTANTS Runs, Workers
VARIABLE tenant      \* the set of workers that may execute the run

Init == tenant = [r \in Runs |-> {}]

MoveIn(r, w) ==
    /\ tenant[r] = {}
    /\ tenant' = [tenant EXCEPT ![r] = {w}]

MoveOut(freed) ==
    tenant' = [r \in Runs |-> IF r \in freed THEN {} ELSE tenant[r]]

Next ==
    \/ \E r \in Runs, w \in Workers : MoveIn(r, w)
    \/ \E freed \in SUBSET Runs : MoveOut(freed)

Spec == Init /\ [][Next]_tenant
=============================================================================
