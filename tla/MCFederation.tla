--------------------------- MODULE MCFederation ---------------------------
(* Two waves, the second target first; workers are alike.                  *)
EXTENDS Federation, TLC

CONSTANTS t1, t2

TwoTargets == <<t1, t2>>
TwoWaves == <<{t2}, {t1}>>
AllMustSucceed == <<TRUE, TRUE>>
Symmetry == Permutations(Workers)
=============================================================================
