\* The commands of the pages, with replays played to a target.
SPECIFICATION MCSpec
CONSTANTS
  None = None
  Declared = 1
  Grace = 2
  Strides = {1, 2}
  MaxWall = 8
  Seal = 2
  Limit = 2
  EthRows = 2
  EthBytes = 3
  Channels = {1}
  Sizes = {1, 2}
  LogCap = 3
  MaxRows = 4
  MaxFr = 1
  MaxEth = 2
  MaxClears = 1
  Settled = TRUE
  Series = {"a", "b"}
  MaxT = 4
  MaxRebuilds = 1
  PointCap = 2
  Ordered = TRUE
  k1 = k1
  sv1 = sv1
  g1 = g1
  Calls = {k1}
  Service <- MCService
  Groups = {g1}
  GroupOf <- MCGroup
  Ruled = {k1}
  Reactions <- MCReactions
  Timed <- MCTimed
  Catalogued = {}
  Endpoints = {e1, e2}
  NoEndpoint = none
  Wrap = 3
  Patience = 1
  MaxSim = 2
  MaxSends = 2
  Pdus = {p}
  NoTiming = none
  MaxNmSim = 8
  Lead = 2
  Timings <- MCTimings
  Default <- MCDefault
  Datagrams = {1, 2, 3}
  Size <- MCSize
  Key <- MCKey
  TcpStarts <- MCTcpStarts
  TcpModulus = 12
  Origin = 8
  MaxStream = 5
  Sources <- MCSources
  Label <- MCLabel
  DefLists <- MCDefLists
  SampleValues = {0, 1}
  Stride = 3
  FastGap = 2
  SealPoints = 2
  HistorySpan = 3
  LastStamp = 4
  MaxEdits = 2
  Late = FALSE
  Clusters = {1, 2}
  Names = {"n", "o"}
  Watchers = {"data"}
  MaxCommands = 3
  MaxSpans = 2
  PageLags = FALSE
  OpenFails = FALSE
  Targets = TRUE
  BadPayloads = FALSE
INVARIANT RateHonest
CHECK_DEADLOCK FALSE
