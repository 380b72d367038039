SPECIFICATION MCSpec
CONSTANTS
  RuleList <- MCRules
  Can = {"a", "b1"}
  Eth = {"e"}
  Burst = 2
  Replies <- CanEcho
  ReactionLimit = 1
  MaxSteps = 1
  MaxRuns = 2
  FiredCap = 2
  Sources = {"s1", "bad"}
  Compiles = {"s1"}
  Oneshots = {"x"}
  Period = 2
  SlotOrder <- MCSlotOrder
  Programs <- MCPrograms
  Fails = Fails
  MaxNow = 5
  MaxPanel = 1
  Nodes = {n1, n2}
  Lines = {l1, l2}
  NoNode = none
  NoLine = noline
  Patience = 1
  MaxRequests = 3
  Budget = 90
  MaxFrames = 3
  MaxInt = 5
  Escapes = FALSE
INVARIANTS WalkHonest RunsItsSource TimersHonest PauseIsReal RunsAsWritten
PROPERTIES CoreGoesOn
CHECK_DEADLOCK FALSE
