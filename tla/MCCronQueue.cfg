SPECIFICATION FairSpec
CHECK_DEADLOCK FALSE
CONSTANTS
  w1 = w1
  w2 = w2
  f1 = f1
  f2 = f2
  f3 = f3
  f4 = f4
  f5 = f5
  f6 = f6
  static = static
  tags = tags
  udf1 = udf1
  udf2 = udf2
  udf3 = udf3
  Nobody = Nobody
  Workers = {w1, w2}
  Firings = {f1, f2, f3, f4}
  MayFail = {f2}
  Argument <- QueueArgument
  Choice <- QueueChoice
  Candidates <- QueueCandidates
  Strategies <- MCStrategies
  Kind <- MCKind
  Udf <- MCUdf
  MaxDepth = 2
  MaxPut = 3
INVARIANTS ArgumentUsedOnce WorkerGetsArgumentsInOrder
PROPERTY FiringEnds
