SPECIFICATION FairSpec
CHECK_DEADLOCK FALSE
CONSTANTS
  w1 = w1
  w2 = w2
  plain = plain
  gen = gen
  gen2 = gen2
  coro = coro
  Workers = {w1}
  Tasks = {plain, coro, gen2}
  Manager = Manager
  None = None
  AsyncTasks = {coro}
  StateTasks = {}
  TimedTasks = {}
  Unloadable = {gen2}
  Unpicklable = {}
  Endless = {}
  Stubborn = {}
  MaxBeats = 0
  Stoppable = {}
  Killable = {}
ACTION_CONSTRAINT PromptManager
PROPERTIES FinalStatusArrives
