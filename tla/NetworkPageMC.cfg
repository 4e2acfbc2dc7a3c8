CONSTANTS
  t1 = t1
  g = g
  p1 = p1
  p2 = p2
  e1 = e1
  Absent = Absent
  Route <- MCRoute
  RowId <- MCRowId
  Page <- MCPage
  Editor <- MCEditor
  MaxEdits = 2
  MaxFailures = 1
  Member = {m1}
  User = {u1}
  Socket = {s1, s2}
  None = None
  Unseen = Unseen
  Budgets <- MCBudgets
SPECIFICATION MCSpec
INVARIANTS TypeOK ViewersAreCounted LoopSurvives
PROPERTIES LoopStops ViewIsHealed OnlyDeadRowsGo RoutesConverge
CHECK_DEADLOCK FALSE
