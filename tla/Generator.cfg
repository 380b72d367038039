\* The schedule under every edit that anchors it; signals, slots, plans.
SPECIFICATION MCSpec
CONSTANTS
    None = None
    free = free
    owned = owned
    slot = slot
    node = node
    Entries = {owned}
    FrEntries = {}
    Nodes = {node}
    NodeOf <- MCNodeOf
    Cycles = {0, 1, 3}
    DefaultCycle = 2
    Budget = 2
    Strides = {0, 1, 3}
    TimerSpans = {2}
    LiveEdits = {}
    MaxSim = 8
    Byte = 2
    Messages <- MCMessages
    Values <- MCValues
    Waves <- MCWaves
    MaxFrames = 2
    MaxCommands = 2
    Schedules <- MCSchedules
    SlotCycles = 2
    Mixes <- MCMixes
    Written = {0, 1}
    Watched = TRUE
    EmptyCycles = FALSE
    MaxCycle = 2
    MaxRows = 2
    MaxEdits = 3
    MaxKept = 1
    Frames <- MCFrames
    FrameBytes = 4
INVARIANTS TypeOK NoBackdatedSlots FramesHonest
PROPERTIES EvenSpacing OnTimeByDeadline
CHECK_DEADLOCK FALSE
