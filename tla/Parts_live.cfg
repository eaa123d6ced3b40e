SPECIFICATION PartsSpec
CONSTANTS
  Nobody = Nobody
  NoOne = NoOne
  Outbound = {c1, c2}
  Delegated = {d1}
  Presses = {p1, p2}
  Gateways = {g1, g2}
  MaxDeaths = 1
  Delegations = {p1, p2}
  CallIds = {c1}
  PoolThreads = 1
  MaxPolls = 1
  MaxWork = 2
  Readers = {p1, p2}
  MaxEvents = 4
  Retained = 2
  MaxJoins = 2
  Talks = {c1, c2}
  MaxAdds = 4
  Rules = {1}
  MaxThreads = 1
  MaxTime = 1
  MaxFirings = 1
  MaxTalks = 1
  MaxFailures = 1
INVARIANTS PartsTypeOK OneAtATime SpentOnce GroupWhole OwnResult StopsSoon NothingSkipped
PROPERTIES LeadLocksEnd QueueDrains EndIsSent TalkIsTaken AskedIsGone RetentionHolds
\* requests, runs and chats end
CHECK_DEADLOCK FALSE
