SPECIFICATION Spec
CHECK_DEADLOCK FALSE
CONSTANTS
  None = None
  n1 = n1
  n2 = n2
  s1 = s1
  s2 = s2
  t1 = t1
  Clients = {c1, c2}
  Salts = {s1, s2}
  Nodes = {n1, n2}
  Workers = {w1}
  Tasks = {t1, t2}
  Encodable = {t1}
  Hash <- MCHash
  NodeLists <- MCNodeLists
  MaxChanges = 2
INVARIANTS TypeOK TakenMeansReached TakenInOrder
