\* One process: the second wave starts although the child rollout of the first
\* neither completed nor failed.
SPECIFICATION Spec
CONSTANTS
    t1 = t1
    t2 = t2
    Workers = {w1}
    Targets <- TwoTargets
    Waves <- TwoWaves
    RequireAll <- AllMustSucceed
    ChildSteps = {s1}
    NoStep = NoStep
    NoTarget = NoTarget
    RequireFor = {}
    MaxRollouts = 2
    MaxRequests = 0
    MaxDisturbances = 0
INVARIANTS
    NextWaveWaits
CHECK_DEADLOCK FALSE
