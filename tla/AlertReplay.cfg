\* One daemon, restarted when it ends, and a run_once call, one item.
SPECIFICATION FairSpec
CONSTANTS
    Daemons = {d1}
    Shots = {c1}
    Items = {i1}
    NoOne = NoOne
    NoItem = NoItem
    MaxRefusals = 1
    MaxSlow = 1
    MaxFaults = 1
INVARIANTS
    AlertReplayTypeOK
    DeliveriesBounded
    CompletedWasDelivered
    OneLeaderAtATime
PROPERTIES
    Handled
CHECK_DEADLOCK FALSE
