SPECIFICATION Spec
CONSTANTS
  m1 = m1
  m2 = m2
  r1 = r1
  r2 = r2
  w1 = w1
  w2 = w2
  Results = {m1}
  Runs = {r1}
  Workers = {w1}
  HomeOf <- AtFirst
  Strategies = {"reject", "interrupt", "rollback"}
  Events = {}
  MaxAttempts = 2
  MaxCrashes = 0
INVARIANT RollbackKeepsPosted
\* the results are posted and the runs over
CHECK_DEADLOCK FALSE
