CONSTANTS
  c1 = c1
  c2 = c2
  u1 = u1
  Callers = {c1, c2}
  Units = {u1}
  MaxSpawns = 2
  MaxStarts = 1
  Slots = 1
  Fresh = FALSE
  MayDegrade = FALSE
  Forking = {1}
  Reissued = {1}
SPECIFICATION FairSpec
PROPERTIES OrphansReaped CallersAnswered
CHECK_DEADLOCK FALSE
