SPECIFICATION MCSpec
CONSTANTS
  Kinds = {"tx"}
  MaxCluster = 4
  MaxItems = 1
  MaxShown = 1
  MaxInbox = 2
  FrBuses = {1}
  Sends = {"can"}
  CrossRules = FALSE
  RowsAnytime = TRUE
  Lanes = {}
  Prompt = TRUE
  Filters = {"n1", "all"}
  NoFilter = "all"
  Table = {"n1"}
  Model = {"n1"}
  Budget = 2
  MaxBlocks = 2
  MaxSim = 3
  MaxId = 2
  MaxWires = 2
  MaxQueue = 1
  MaxPorts = 3
  RemovePending = FALSE
  Gone = Gone
  Broken = Broken
  NumBuses = 2
  StopsFirst = {"can"}
  MaxWrites = 1

PROPERTY OpensAsSaved
CHECK_DEADLOCK FALSE
