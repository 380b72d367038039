\* A file with Ethernet objects given to a tool that does not take them.
SPECIFICATION FileSpec
CONSTANTS
    Formats = {"blf"}
    Tears = {}
    Full = 2
    Interval = 1
    Faults = {}
    MaxObjects = 3
    MaxT = 1
    Unset = Unset
    Sorted = TRUE
    Mixed = TRUE
INVARIANTS EverythingCrosses
CHECK_DEADLOCK FALSE
