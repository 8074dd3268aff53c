SPECIFICATION Spec
CONSTANTS
  Calls = {k1, k2}
  Conns = {c1, c2, c3, c4}
  None = None
  Requests = {"wt", "ws", "local"}
  MaxStale = 2
INVARIANT LastCallUndisturbed
CHECK_DEADLOCK FALSE
