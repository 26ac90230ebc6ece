\* Two processes, two targets in two waves, approval needed to run a target.
SPECIFICATION Spec
CONSTANTS
    t1 = t1
    t2 = t2
    Workers = {w1, w2}
    Targets <- TwoTargets
    Waves <- TwoWaves
    RequireAll <- AllMustSucceed
    ChildSteps = {s1}
    NoStep = NoStep
    NoTarget = NoTarget
    RequireFor = {"run_next"}
    MaxRollouts = 2
    MaxRequests = 2
    MaxDisturbances = 2
SYMMETRY Symmetry
INVARIANTS
    FederationTypeOK
    CompletedMeansRolledOut
    TargetsRolledOutOnce
    WavesTakenUpInOrder
    ActionsApproved
CHECK_DEADLOCK FALSE
