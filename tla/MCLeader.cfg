SPECIFICATION Spec
CHECK_DEADLOCK FALSE
CONSTANTS
  n1 = n1
  n2 = n2
  n3 = n3
  t1 = t1
  t2 = t2
  t3 = t3
  None = None
  Nodes = {n1, n2}
  CronTasks = {t1, t2, t3}
  Disabled = {t2}
  Broken = {t3}
  MaxRounds = 2
  MaxFalls = 1
SYMMETRY NodeSymmetry
INVARIANTS TypeOK FirstRebalanceKeepsOne CoveredAfterChange
