SPECIFICATION FairSpec
CONSTANTS
  m1 = m1
  m2 = m2
  r1 = r1
  r2 = r2
  w1 = w1
  w2 = w2
  Results = {m1}
  Runs = {r1}
  Workers = {w1, w2}
  HomeOf <- AtFirst
  Strategies = {"reject", "interrupt", "rollback"}
  Events = {"fails", "delete"}
  MaxAttempts = 2
  MaxCrashes = 1
INVARIANT PostedOnce
PROPERTY EveryPostEnds
\* the results are posted and the runs over
CHECK_DEADLOCK FALSE
