SPECIFICATION Spec
CHECK_DEADLOCK FALSE
CONSTANTS
  w1 = w1
  w2 = w2
  plain = plain
  gen = gen
  gen2 = gen2
  coro = coro
  Workers = {w1}
  Tasks = {plain, gen, coro}
  Manager = Manager
  None = None
  AsyncTasks = {coro}
  StateTasks = {gen, coro}
  TimedTasks = {plain}
  Unloadable = {}
  Unpicklable = {plain}
  Endless = {}
  Stubborn = {plain}
  MaxBeats = 1
  Stoppable = {gen, coro, w1}
  Killable = {w1}
VIEW WithoutDelivered
ACTION_CONSTRAINT EagerDelivery
INVARIANTS TypeOK NoneMeansStopped ReportsWellFormed RunningTasksExact StopsReachTheirOwn SandboxMatchesState
PROPERTIES StoppedTakesNoTask PlainTasksKeepState
