SPECIFICATION SceneSpec
CONSTANTS
  w1 = w1
  w2 = w2
  q1 = q1
  None = None
  Workers = {w1}
  Rules = {1, 2}
  Instants = {1}
  Questions = {q1}
  RuleOf <- ScheduleFirst
  Dest <- FirstRemote
  Urgent = {}
  MaxAttempts = 2
  BackoffAfter = 1
  MaxFirings <- Twice
  MaxFaults = 0
INVARIANT OwnDestination
