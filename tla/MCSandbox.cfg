SPECIFICATION Spec
CHECK_DEADLOCK FALSE
CONSTANTS
  sys = sys
  a = a
  b = b
  c = c
  broken = broken
  plain = plain
  bad = bad
  gen = gen
  coro = coro
  coro2 = coro2
  Modules = {sys, a, b, c, broken}
  Base = {sys}
  Broken = {broken}
  Tasks = {plain, bad, gen, coro, coro2}
  AsyncTasks = {coro, coro2}
  StateTasks = {gen, coro2}
  Deps <- MCDeps
  Lazy <- MCLazy
INVARIANTS TypeOK BaseStays SandboxStays NothingLeftBehind
PROPERTY ReturnRestores
