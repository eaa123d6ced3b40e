SPECIFICATION Spec
CONSTANTS
  a1 = a1
  a2 = a2
  p1 = p1
  p2 = p2
  None = None
  Actions = {a1, a2}
  Requests = {p1, p2}
  Routes = {"list", "confirm", "decline", "gone", "supersede", "remove", "edit", "applyAll"}
  Events = {"expiry", "crash", "auditFails"}
SYMMETRY Symmetry
INVARIANT TypeOK
INVARIANT AtMostOnce
INVARIANT RefusalIsKept
PROPERTY GivenBackUnrun
\* every request answers once, then the system stops
CHECK_DEADLOCK FALSE
