SPECIFICATION FairSceneSpec
CONSTANTS
  w1 = w1
  w2 = w2
  q1 = q1
  None = None
  Workers = {w1}
  Rules = {1, 2}
  Instants = {1, 2}
  Questions = {q1}
  RuleOf <- ScheduleFirst
  Dest <- AllRemote
  Urgent = {}
  MaxAttempts = 2
  BackoffAfter = 1
  MaxFirings <- Twice
  MaxFaults = 1
INVARIANT EngineTypeOK
INVARIANT DeliveredOnce
INVARIANT NothingVanishes
PROPERTY NeverGoesBack
PROPERTY FiringEnds
