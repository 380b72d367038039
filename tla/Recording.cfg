\* Every way a recording starts and ends, and a file is written and read.
SPECIFICATION MCSpec
CONSTANTS
    None = None
    Absent = Absent
    Kinds = {"can", "hidden", "fr"}
    Keeps = {None, 1}
    PreLimits = {0, 2}
    PostLimits = {0, 2}
    StartFails = FALSE
    LiveLimits = FALSE
    LateAsks <- MCLateAsks
    MaxFrames = 3
    MaxAsks = 2
    Formats = {"blf", "asc", "pcap"}
    Tears = {"blf", "asc"}
    Full = 2
    Interval = 1
    Faults = {}
    MaxObjects = 3
    MaxT = 2
    Unset = Unset
    Sorted = FALSE
    Mixed = FALSE
    Lengths = {0, 5, 8, 12, 64}
    Payloads <- MCPayloads
    Names = {Absent, "word", "blank"}
    Vlans = {100}
    Prios = {0}
    MaxTags = 1
    UntaggedBlf = FALSE
    MaxTrips = 3
INVARIANTS TypeOK NoStrayFile LeadWithinLimit CauseToRoll DiskHonest FilesHonest ObjectsSurvive
PROPERTIES FileIsUnbroken
CHECK_DEADLOCK FALSE
