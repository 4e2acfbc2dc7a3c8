CONSTANTS
  Member = {}
  User = {}
  Socket = {s1, s2}
  None = None
  Unseen = Unseen
  Budgets <- MCLeaving
SPECIFICATION Spec
INVARIANTS LastViewerStopsLoop
CHECK_DEADLOCK FALSE
