SPECIFICATION FairSpec
CHECK_DEADLOCK FALSE
CONSTANTS
  w1 = w1
  w2 = w2
  plain = plain
  gen = gen
  gen2 = gen2
  coro = coro
  Workers = {w1}
  Tasks = {plain, coro}
  Manager = Manager
  None = None
  AsyncTasks = {coro}
  StateTasks = {}
  TimedTasks = {}
  Unloadable = {}
  Unpicklable = {}
  Endless = {plain}
  Stubborn = {}
  MaxBeats = 0
  Stoppable = {plain, w1}
  Killable = {}
ACTION_CONSTRAINT PromptManager
PROPERTIES FinalStatusArrives StoppedWorkerExits StopReachesTask
