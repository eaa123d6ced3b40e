SPECIFICATION LedgerSpec
CONSTANTS
  Titles = {"a", "b"}
  Plans <- SomePlans
  Grants = {p1, p2}
  Cap = 3
  MaxTasks = 3
  MaxVersion = 4
  NoTask = NoTask
INVARIANT UndoAllWorks
\* the plan is applied and the run over
CHECK_DEADLOCK FALSE
