SPECIFICATION PartsSpec
CONSTANTS
  Clients = {c1, c2, c3}
  Calls = {q1, q2, q3}
  PoolWorkers = 2
  PerUser = 1
  NoClient = NoClient
  Titles = {"a", "b"}
  Plans <- SomePlans
  Grants = {q1, q2}
  Cap = 3
  MaxTasks = 3
  MaxVersion = 3
  NoTask = NoTask
  Boxes = {c1, c2}
  Keepers = {k1, k2}
  Turns = {q1, q2}
  Replicas = 1
  MaxCalls = 2
  MaxMade = 2
  MaxFaults = 1
  Rules = {1}
  MaxThreads = 2
  MaxTime = 1
  MaxFirings = 2
  MaxTalks = 1
  MaxFailures = 1
  Histories = {k1, k2}
  Runs = {c1, c2}
  MaxCrashes = 1
  NoOne = NoOne
SYMMETRY Symmetry
INVARIANTS PartsTypeOK NeverQueued EndIsTold ShownIsChanged WithinCap NoneForgotten GoneIsShredded KeptHasKey
PROPERTIES UndoLosesNothing PersonKept
\* confirmations, plans, turns and runs end
CHECK_DEADLOCK FALSE
