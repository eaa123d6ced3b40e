SPECIFICATION Spec
CONSTANTS
  a1 = a1
  p1 = p1
  p2 = p2
  None = None
  Actions = {a1}
  Requests = {p1, p2}
  Routes = {"list", "confirm"}
  Events = {"expiry"}
SYMMETRY Symmetry
INVARIANT ExpiredNeverRan
\* every request answers once, then the system stops
CHECK_DEADLOCK FALSE
