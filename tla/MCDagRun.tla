------------------------------ MODULE MCDagRun ------------------------------
(***************************************************************************)
(* Values of the DagRun constants that a .cfg cannot write: who calls what *)
(* for which run, and small workflows.                                     *)
(***************************************************************************)
EXTENDS DagRun

CONSTANTS x, y,        \* calls that execute
          p, q,        \* calls that resume
          r1, r2,
          w1, w2, w3, w4,
          k            \* an idempotency key

\* Every call has a worker of its own; y has a run of its own.
MCRunOf == [c \in Calls |-> IF c = y THEN r2 ELSE r1]
MCWorkerOf ==
    [c \in Calls |-> CASE c = x -> w1 [] c = p -> w2 [] c = q -> w3 [] c = y -> w4]

NoKeys == [c \in Calls |-> NoKey]
SharedKey == [c \in Calls |-> IF c \in Starters THEN k ELSE NoKey]
ResumeKeys == [c \in Calls |-> IF c \in Starters THEN NoKey ELSE k]

\* Each node after the one before it; 1 -> 2 with 3 independent of both.
Chain == [n \in Nodes |-> IF n = 1 THEN {} ELSE {n - 1}]
Fork == [n \in Nodes |-> IF n = 2 THEN {1} ELSE {}]
=============================================================================
