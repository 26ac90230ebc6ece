----------------------------- MODULE MCRollout -----------------------------
(* Two steps, the second after the first; users and workers are alike.     *)
EXTENDS Rollout, TLC

CONSTANTS s1, s2

TwoSteps == <<s1, s2>>
Chain == (s1 :> NoStep) @@ (s2 :> s1)
Symmetry == Permutations(Workers) \cup Permutations(Users) \cup Permutations(Approvals)
=============================================================================
