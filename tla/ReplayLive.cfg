\* Liveness: every log is played to its end, at half and double speed, with a
\* burst the poll cap cuts in two.
SPECIFICATION FairSpec
CONSTANTS
    None = None
    Inf = Inf
    CanLog <- Can22
    FrLog <- Fr3
    EthLog <- Empty
    MaxPoll = 1
    Scale = 2
    Speeds = {1, 4}
    Targets = {1}
    Deltas = {1}
    EarlyStep = FALSE
    SetpointModes = {}
    MaxLate = 1
    MaxClock = 11
    PostUntil = 1
    MaxCommands = 3
    MaxInbox = 2
INVARIANTS FinishedIsDrained
PROPERTIES EveryPlayEnds
CHECK_DEADLOCK FALSE
