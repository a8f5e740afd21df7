SPECIFICATION Spec
CHECK_DEADLOCK FALSE
CONSTANTS
  w1 = w1
  w2 = w2
  plain = plain
  gen = gen
  gen2 = gen2
  coro = coro
  Workers = {w1, w2}
  Tasks = {plain, coro}
  Manager = Manager
  None = None
  AsyncTasks = {coro}
  StateTasks = {}
  TimedTasks = {plain}
  Unloadable = {}
  Unpicklable = {}
  Endless = {}
  Stubborn = {}
  MaxBeats = 0
  Stoppable = {}
  Killable = {w1}
ACTION_CONSTRAINT EagerReader
INVARIANTS StatusDelivery
PROPERTIES ImplementsStream
