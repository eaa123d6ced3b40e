SPECIFICATION FairSpec
CONSTANTS
  a1 = a1
  p1 = p1
  p2 = p2
  p3 = p3
  None = None
  Actions = {a1}
  Requests = {p1, p2, p3}
  Routes = {"list", "confirm", "decline", "gone", "supersede"}
  Events = {"expiry", "auditFails"}
PROPERTY ClaimedIsSettled
\* every request answers once, then the system stops
CHECK_DEADLOCK FALSE
