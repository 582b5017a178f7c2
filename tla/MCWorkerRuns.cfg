CONSTANTS
  c1 = c1
  c2 = c2
  u1 = u1
  Callers = {c1, c2}
  Units = {u1}
  MaxSpawns = 2
  MaxStarts = 2
  Slots = 1
  Fresh = FALSE
  MayDegrade = TRUE
  Forking = {1}
  Reissued = {1}
SPECIFICATION Spec
INVARIANTS ResourcesOutliveGroup MeasurementIsOwn RunsStaySupervised RequestsAccounted
CHECK_DEADLOCK FALSE
