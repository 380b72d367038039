\* Three streams, pauses, targets, steps and speeds, with laps that come late.
SPECIFICATION Spec
CONSTANTS
    None = None
    Inf = Inf
    CanLog <- Can13
    FrLog <- Fr2
    EthLog <- Eth3
    MaxPoll = 5
    Scale = 2
    Speeds = {2, Inf}
    Targets = {1, 2}
    Deltas = {1, 2}
    EarlyStep = FALSE
    SetpointModes = {"Virtual"}
    MaxLate = 2
    MaxClock = 4
    PostUntil = 4
    MaxCommands = 4
    MaxInbox = 2
INVARIANTS TypeOK ClocksHonest LogHonest NoOversleep
PROPERTIES TargetsHold
CHECK_DEADLOCK FALSE
