SPECIFICATION Spec
CHECK_DEADLOCK FALSE
CONSTANTS
  None = None
  s1 = s1
  s2 = s2
  Schedulers = {s1, s2}
  Tasks = {t1}
  Foreign = {}
  Convertible = {"NONE", "QUEUED", "RUNNING", "SUCCESS", "ERROR"}
  Typed = {"QUEUED", "RUNNING", "SUCCESS", "ERROR"}
  Callable = {s1, s2}
  MaxReports = 2
  Window = 1
  MaxLapses = 1
ACTION_CONSTRAINT LikeOnes
INVARIANTS
  TypeOK
  OnlyLateQueuedRaises
PROPERTIES
  HandledInOrder
  FinalStays
  AsksAgain
