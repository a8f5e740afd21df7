------------------------ MODULE ManagerRoutingProofs ------------------------
(***************************************************************************)
(* Proofs about ManagerRouting, for any clients, nodes, workers and tasks, *)
(* and any hash.                                                           *)
(***************************************************************************)
EXTENDS ManagerRouting, TLAPS

-----------------------------------------------------------------------------
(* Types.                                                                  *)

LEMMA ControlTyped ==
    ASSUME TypeOK, NEW n \in Nodes, NEW w \in Workers, NEW m \in Workers \cup Tasks
    PROVE  [control EXCEPT ![n][w] = @ \cup {m}]
             \in [Nodes -> [Workers -> SUBSET (Workers \cup Tasks)]]
<1>1. [control[n] EXCEPT ![w] = @ \cup {m}] \in [Workers -> SUBSET (Workers \cup Tasks)]
  <2>1. control[n] \in [Workers -> SUBSET (Workers \cup Tasks)]
    BY DEF TypeOK
  <2>2. control[n][w] \cup {m} \in SUBSET (Workers \cup Tasks)
    BY <2>1
  <2> QED BY <2>1, <2>2
<1>2. [control EXCEPT ![n][w] = @ \cup {m}]
        = [control EXCEPT ![n] = [control[n] EXCEPT ![w] = @ \cup {m}]]
  BY DEF TypeOK
<1> QED BY <1>1, <1>2 DEF TypeOK

LEMMA CallTyped ==
    ASSUME TypeOK, NEW c \in Clients, NEW w \in Workers
    PROVE  /\ IncreaseWorker(c, w) => TypeOK'
           /\ StopWorker(c, w) => TypeOK'
           /\ KillWorker(c, w) => TypeOK'
           /\ \A t \in Tasks : DispatchFunTask(c, w, t) \/ StopTask(c, w, t) => TypeOK'
<1>1. ASSUME IncreaseWorker(c, w) PROVE TypeOK'
  <2>1. PICK n \in Nodes : ServeIncrease(n, w)
    <3>1. nodes[c] \in Seq(Nodes)
      BY RoutingAssumption DEF TypeOK
    <3>2. Range(nodes[c]) \subseteq Nodes
      BY <3>1 DEF Range
    <3> QED BY <1>1, <3>2 DEF IncreaseWorker
  <2> QED BY <1>1, <2>1, RoutingAssumption DEF IncreaseWorker, ServeIncrease, TypeOK, routeVars, sendVars
<1>2. ASSUME StopWorker(c, w) PROVE TypeOK'
  <2>1. PICK n \in Nodes : ServeStopWorker(n, w)
    BY <1>2 DEF StopWorker, NodeOf
  <2>2. control' \in [Nodes -> [Workers -> SUBSET (Workers \cup Tasks)]]
    BY <2>1, ControlTyped DEF ServeStopWorker
  <2> QED BY <1>2, <2>2 DEF StopWorker, TypeOK, routeVars, sendVars
<1>3. ASSUME KillWorker(c, w) PROVE TypeOK'
  BY <1>3 DEF KillWorker, ServeKill, TypeOK, routeVars, sendVars
<1>4. ASSUME NEW t \in Tasks, DispatchFunTask(c, w, t) PROVE TypeOK'
  <2>1. PICK n \in Nodes : ServeDispatch(n, w, t)
    BY <1>4 DEF DispatchFunTask, Dispatch, NodeOf
  <2>2. Append(tasks[n][w], t) \in Seq(Tasks) /\ Append(sentBy[c][w], t) \in Seq(Tasks)
    BY DEF TypeOK
  <2> QED BY <1>4, <2>1, <2>2 DEF DispatchFunTask, Dispatch, ServeDispatch, TypeOK, routeVars, sendVars
<1>5. ASSUME NEW t \in Tasks, StopTask(c, w, t) PROVE TypeOK'
  <2>1. PICK n \in Nodes : ServeStopTask(n, w, t)
    BY <1>5 DEF StopTask, NodeOf
  <2>2. control' \in [Nodes -> [Workers -> SUBSET (Workers \cup Tasks)]]
    BY <2>1, ControlTyped DEF ServeStopTask
  <2> QED BY <1>5, <2>2 DEF StopTask, TypeOK, routeVars, sendVars
<1> QED BY <1>1, <1>2, <1>3, <1>4, <1>5

LEMMA NextTyped == TypeOK /\ [Next]_vars => TypeOK'
<1> SUFFICES ASSUME TypeOK, [Next]_vars PROVE TypeOK'
  OBVIOUS
<1>1. ASSUME NEW c \in Clients, NEW list \in NodeLists, ChangeNodes(c, list) PROVE TypeOK'
  BY <1>1, RoutingAssumption DEF ChangeNodes, TypeOK
<1>2. ASSUME NEW c \in Clients, NEW s \in Salts, Restart(c, s) PROVE TypeOK'
  BY <1>2 DEF Restart, TypeOK
<1>3. ASSUME NEW w \in Workers, TakeTask(w) PROVE TypeOK'
  <2>1. PICK n \in Source(w) :
          /\ tasks[n][w] # <<>>
          /\ taken' = [taken EXCEPT ![w] = Append(@, Head(tasks[n][w]))]
          /\ tasks' = [tasks EXCEPT ![n][w] = Tail(@)]
    BY <1>3 DEF TakeTask
  <2>2. n \in Nodes
    BY <1>3, <2>1 DEF TakeTask, Source, TypeOK
  <2>3. /\ tasks[n][w] \in Seq(Tasks)
        /\ Append(taken[w], Head(tasks[n][w])) \in Seq(Tasks)
        /\ Tail(tasks[n][w]) \in Seq(Tasks)
    BY <2>1, <2>2 DEF TypeOK
  <2> QED BY <1>3, <2>1, <2>2, <2>3 DEF TakeTask, TypeOK, routeVars, sendVars
<1>4. ASSUME NEW w \in Workers, TakeControl(w) PROVE TypeOK'
  BY <1>4 DEF TakeControl, Source, TypeOK, routeVars, sendVars
<1>5. CASE UNCHANGED vars
  BY <1>5 DEF vars, routeVars, sendVars, TypeOK
<1> QED BY <1>1, <1>2, <1>3, <1>4, <1>5, CallTyped DEF Next

\* Every variable keeps its type, and only workers that were started run.
THEOREM TypeCorrect == Spec => []TypeOK
<1>1. Init => TypeOK
  BY RoutingAssumption DEF Init, TypeOK
<1> QED BY <1>1, NextTyped, PTL DEF Spec

-----------------------------------------------------------------------------
(* Calls.                                                                  *)

\* What is sent is sent for a worker that was started.
Addressed ==
    /\ \A c \in Clients, w \in Workers : sentBy[c][w] # <<>> => host[w] # None
    /\ \A n \in Nodes, w \in Workers : tasks[n][w] # <<>> => host[w] # None

LEMMA AddressedNext == TypeOK /\ Addressed /\ [Next]_vars => Addressed'
<1> SUFFICES ASSUME TypeOK, Addressed, [Next]_vars PROVE Addressed'
  OBVIOUS
<1>1. CASE UNCHANGED <<host, tasks, sentBy>>
  BY <1>1 DEF Addressed
<1>2. ASSUME NEW c \in Clients, NEW w \in Workers, IncreaseWorker(c, w) PROVE Addressed'
  <2>1. PICK n \in Range(nodes[c]) : host' = [host EXCEPT ![w] = n]
    BY <1>2 DEF IncreaseWorker, ServeIncrease
  <2>2. nodes[c] \in Seq(Nodes)
    BY RoutingAssumption DEF TypeOK
  <2>3. n # None
    BY <2>2, RoutingAssumption DEF Range
  <2>4. \A v \in Workers : host'[v] = IF v = w THEN n ELSE host[v]
    BY <2>1 DEF TypeOK
  <2> QED BY <1>2, <2>3, <2>4 DEF IncreaseWorker, sendVars, Addressed
<1>3. ASSUME NEW c \in Clients, NEW w \in Workers, NEW t \in Tasks, DispatchFunTask(c, w, t)
      PROVE  Addressed'
  <2>1. PICK n \in NodeOf(c, w) : tasks' = [tasks EXCEPT ![n][w] = Append(@, t)]
    BY <1>3 DEF DispatchFunTask, Dispatch, ServeDispatch
  <2>2. /\ host[w] # None /\ host' = host
        /\ sentBy' = [sentBy EXCEPT ![c][w] = Append(@, t)]
    BY <1>3 DEF DispatchFunTask, Dispatch
  <2> QED BY <2>1, <2>2 DEF Addressed, TypeOK
<1>4. ASSUME NEW w \in Workers, TakeTask(w) PROVE Addressed'
  <2>1. PICK n \in Source(w) : tasks[n][w] # <<>> /\ tasks' = [tasks EXCEPT ![n][w] = Tail(@)]
    BY <1>4 DEF TakeTask
  <2>2. \A m \in Nodes, v \in Workers : tasks'[m][v] # <<>> => tasks[m][v] # <<>>
    BY <2>1 DEF TypeOK
  <2> QED BY <1>4, <2>2 DEF TakeTask, sendVars, Addressed
<1> QED BY <1>1, <1>2, <1>3, <1>4 DEF Next, vars, sendVars, ChangeNodes, Restart, StopTask,
           StopWorker, KillWorker, TakeControl

-----------------------------------------------------------------------------
(* The order in which a worker takes tasks.                                *)

\* Where t and u were dispatched for w by c, t was before u.
InOrder(c, w, t, u) == {t, u} \subseteq Range(sentBy[c][w]) => SentBefore(c, w, t, u)

\* What a worker took or has in a queue was dispatched for it.
DispatchedInv ==
    \A w \in Workers :
      /\ \A i \in 1..Len(taken[w]) : Dispatched(w, taken[w][i])
      /\ \A n \in Nodes : \A i \in 1..Len(tasks[n][w]) : Dispatched(w, tasks[n][w][i])

\* Every queue is in order, and what a worker took was before all that is in the queue
\* it reads.
TakenSoFar(w) ==
    \A c \in Clients : \A i, j \in 1..Len(taken[w]) :
        i < j => InOrder(c, w, taken[w][i], taken[w][j])
QueueOf(n, w) ==
    \A c \in Clients : \A i, j \in 1..Len(tasks[n][w]) :
        i < j => InOrder(c, w, tasks[n][w][i], tasks[n][w][j])
TakenBefore(w) ==
    \A n \in Nodes, c \in Clients :
      n = host[w] => \A i \in 1..Len(taken[w]), j \in 1..Len(tasks[n][w]) :
        InOrder(c, w, taken[w][i], tasks[n][w][j])

OrderInv ==
    \A w \in Workers : /\ TakenSoFar(w) /\ TakenBefore(w)
                       /\ \A n \in Nodes : QueueOf(n, w)

\* A dispatch leaves the order of what was dispatched, and comes after it.
LEMMA DispatchAfter ==
    ASSUME TypeOK, NEW c \in Clients, NEW w \in Workers, NEW t \in Tasks,
           \A v \in Workers : ~Dispatched(v, t),
           sentBy' = [sentBy EXCEPT ![c][w] = Append(@, t)],
           NEW d \in Clients, NEW v \in Workers, NEW x, Dispatched(v, x)
    PROVE  /\ Dispatched(v, x)'
           /\ v = w => Dispatched(v, t)' /\ InOrder(d, v, x, t)'
           /\ \A y : Dispatched(v, y) /\ InOrder(d, v, x, y) => InOrder(d, v, x, y)'
<1> DEFINE s == sentBy[c][w]
<1>1. /\ s \in Seq(Tasks) /\ Len(s) \in Nat
      /\ Append(s, t) \in Seq(Tasks) /\ DOMAIN s = 1..Len(s)
      /\ DOMAIN Append(s, t) = 1..(Len(s) + 1)
      /\ Append(s, t)[Len(s) + 1] = t
      /\ \A k \in 1..Len(s) : Append(s, t)[k] = s[k]
  BY DEF TypeOK
<1>2. \A e \in Clients, u \in Workers :
        sentBy'[e][u] = IF e = c /\ u = w THEN Append(s, t) ELSE sentBy[e][u]
  BY DEF TypeOK
<1>3. \A e \in Clients, u \in Workers : Range(sentBy[e][u]) \subseteq Range(sentBy'[e][u])
  BY <1>1, <1>2 DEF Range
<1>4. Range(Append(s, t)) = Range(s) \cup {t}
  BY <1>1 DEF Range
<1>5. Dispatched(v, x)'
  BY <1>3 DEF Dispatched
<1>6. x # t
  BY DEF Dispatched
<1>7. ASSUME v = w PROVE Dispatched(v, t)' /\ InOrder(d, v, x, t)'
  <2>1. Dispatched(v, t)'
    BY <1>2, <1>4, <1>7 DEF Dispatched
  <2>2. CASE d = c
    <3>1. ASSUME x \in Range(s) PROVE SentBefore(c, w, x, t)'
      <4>1. PICK k \in 1..Len(s) : s[k] = x
        BY <1>1, <3>1 DEF Range
      <4>2. /\ k \in DOMAIN Append(s, t) /\ Len(s) + 1 \in DOMAIN Append(s, t)
            /\ k < Len(s) + 1 /\ Append(s, t)[k] = x
        BY <1>1, <4>1
      <4> QED BY <1>1, <1>2, <4>2 DEF SentBefore
    <3>2. sentBy'[c][w] = Append(s, t)
      BY <1>2
    <3>3. ASSUME x \in Range(sentBy'[c][w]) PROVE SentBefore(c, w, x, t)'
      BY <1>4, <1>6, <3>1, <3>2, <3>3
    <3> QED BY <1>7, <2>1, <2>2, <3>3 DEF InOrder, SentBefore
  <2>3. CASE d # c
    <3>1. t \notin Range(sentBy'[d][v])
      <4>1. sentBy'[d][v] = sentBy[d][v]
        BY <1>2, <2>3
      <4>2. t \notin Range(sentBy[d][v])
        BY DEF Dispatched
      <4> QED BY <4>1, <4>2
    <3> QED BY <2>1, <3>1 DEF InOrder
  <2> QED BY <2>1, <2>2, <2>3
<1>8. ASSUME NEW y, Dispatched(v, y), InOrder(d, v, x, y) PROVE InOrder(d, v, x, y)'
  <2>1. y # t
    BY <1>8 DEF Dispatched
  <2>2. CASE d = c /\ v = w
    <3>1. ASSUME SentBefore(c, w, x, y) PROVE SentBefore(c, w, x, y)'
      <4>1. PICK k \in 1..Len(s), l \in 1..Len(s) : k < l /\ s[k] = x /\ s[l] = y
        BY <1>1, <3>1 DEF SentBefore
      <4>2. /\ k \in DOMAIN Append(s, t) /\ l \in DOMAIN Append(s, t)
            /\ Append(s, t)[k] = x /\ Append(s, t)[l] = y
        BY <1>1, <4>1
      <4> QED BY <1>2, <4>1, <4>2 DEF SentBefore
    <3> QED BY <1>2, <1>4, <1>6, <1>8, <2>1, <2>2, <3>1 DEF InOrder
  <2>3. CASE ~(d = c /\ v = w)
    <3>1. sentBy'[d][v] = sentBy[d][v]
      BY <1>2, <2>3
    <3> QED BY <1>8, <3>1 DEF InOrder, SentBefore
  <2> QED BY <2>2, <2>3
<1> QED BY <1>5, <1>7, <1>8

LEMMA DispatchOrdered ==
    ASSUME TypeOK, DispatchedInv, OrderInv,
           NEW c \in Clients, NEW w \in Workers, NEW t \in Tasks, DispatchFunTask(c, w, t)
    PROVE  DispatchedInv' /\ OrderInv'
<1>1. PICK n \in Nodes : tasks' = [tasks EXCEPT ![n][w] = Append(@, t)]
  BY DEF DispatchFunTask, Dispatch, ServeDispatch, NodeOf
<1>2. /\ \A v \in Workers : ~Dispatched(v, t)
      /\ sentBy' = [sentBy EXCEPT ![c][w] = Append(@, t)]
      /\ taken' = taken /\ host' = host
  BY DEF DispatchFunTask, Dispatch
<1>3. ASSUME NEW d \in Clients, NEW v \in Workers, NEW x, Dispatched(v, x)
      PROVE  /\ Dispatched(v, x)'
             /\ v = w => Dispatched(v, t)' /\ InOrder(d, v, x, t)'
             /\ \A y : Dispatched(v, y) /\ InOrder(d, v, x, y) => InOrder(d, v, x, y)'
  BY <1>2, <1>3, DispatchAfter
<1>4. Dispatched(w, t)'
  <2>1. sentBy'[c][w] = Append(sentBy[c][w], t) /\ sentBy[c][w] \in Seq(Tasks)
    BY <1>2 DEF TypeOK
  <2>2. t \in Range(sentBy'[c][w])
    BY <2>1 DEF Range
  <2> QED BY <2>2 DEF Dispatched
<1>5. ASSUME NEW m \in Nodes, NEW v \in Workers
      PROVE  /\ Len(tasks[m][v]) \in Nat
             /\ m = n /\ v = w => /\ Len(tasks'[m][v]) = Len(tasks[m][v]) + 1
                                  /\ tasks'[m][v][Len(tasks[m][v]) + 1] = t
             /\ ~(m = n /\ v = w) => tasks'[m][v] = tasks[m][v]
             /\ \A i \in 1..Len(tasks[m][v]) : tasks'[m][v][i] = tasks[m][v][i]
  <2>1. tasks[m][v] \in Seq(Tasks)
    BY DEF TypeOK
  <2>2. CASE m = n /\ v = w
    <3>1. tasks'[m][v] = Append(tasks[m][v], t)
      BY <1>1, <2>2 DEF TypeOK
    <3> QED BY <2>1, <2>2, <3>1
  <2>3. CASE ~(m = n /\ v = w)
    <3>1. tasks'[m][v] = tasks[m][v]
      BY <1>1, <2>3 DEF TypeOK
    <3> QED BY <2>1, <2>3, <3>1
  <2> QED BY <2>2, <2>3
<1>6. ASSUME NEW m \in Nodes, NEW v \in Workers, NEW i \in 1..Len(tasks'[m][v])
      PROVE  \/ i \in 1..Len(tasks[m][v]) /\ Dispatched(v, tasks[m][v][i])
             \/ m = n /\ v = w /\ i = Len(tasks[m][v]) + 1 /\ tasks'[m][v][i] = t
  BY <1>5, <1>6 DEF DispatchedInv
<1>7. DispatchedInv'
  <2>1. ASSUME NEW v \in Workers, NEW i \in 1..Len(taken[v]) PROVE Dispatched(v, taken[v][i])'
    <3>1. PICK x : x = taken[v][i] /\ Dispatched(v, x)
      BY DEF DispatchedInv
    <3>2. Dispatched(v, x)'
      BY <1>3, <3>1
    <3> QED BY <1>2, <3>1, <3>2 DEF Dispatched
  <2>2. ASSUME NEW v \in Workers, NEW m \in Nodes, NEW i \in 1..Len(tasks'[m][v])
        PROVE  Dispatched(v, tasks[m][v][i])'
    <3>1. PICK x : x = tasks'[m][v][i]
      OBVIOUS
    <3>2. Dispatched(v, x)'
      BY <1>3, <1>4, <1>5, <1>6, <3>1
    <3> QED BY <3>1, <3>2 DEF Dispatched
  <2> QED BY <1>2, <2>1, <2>2 DEF DispatchedInv
<1>8. ASSUME NEW d \in Clients, NEW v \in Workers, NEW m \in Nodes, QueueOf(m, v)
      PROVE  \A i, j \in 1..Len(tasks'[m][v]) : i < j => InOrder(d, v, tasks[m][v][i], tasks[m][v][j])'
  <2>1. SUFFICES ASSUME NEW i \in 1..Len(tasks'[m][v]), NEW j \in 1..Len(tasks'[m][v]), i < j
                 PROVE  InOrder(d, v, tasks[m][v][i], tasks[m][v][j])'
    OBVIOUS
  <2>2. i \in 1..Len(tasks[m][v])
    BY <1>5, <2>1
  <2>3. PICK x, y : x = tasks'[m][v][i] /\ y = tasks'[m][v][j]
    OBVIOUS
  <2>4. x = tasks[m][v][i] /\ Dispatched(v, x)
    BY <1>5, <2>2, <2>3 DEF DispatchedInv
  <2>5. InOrder(d, v, x, y)'
    <3>1. CASE j \in 1..Len(tasks[m][v])
      <4>1. y = tasks[m][v][j] /\ Dispatched(v, y) /\ InOrder(d, v, x, y)
        BY <1>5, <1>8, <2>1, <2>2, <2>3, <2>4, <3>1 DEF DispatchedInv, QueueOf
      <4> QED BY <1>3, <2>4, <4>1
    <3>2. CASE v = w /\ y = t
      BY <1>3, <2>4, <3>2
    <3> QED BY <1>6, <2>3, <3>1, <3>2
  <2> QED BY <2>3, <2>5 DEF InOrder, SentBefore
<1>9. ASSUME NEW v \in Workers PROVE TakenSoFar(v)'
  <2>1. SUFFICES ASSUME NEW d \in Clients, NEW i \in 1..Len(taken[v]), NEW j \in 1..Len(taken[v]),
                        i < j
                 PROVE  InOrder(d, v, taken[v][i], taken[v][j])'
    BY <1>2 DEF TakenSoFar
  <2>2. PICK x, y : x = taken[v][i] /\ y = taken[v][j]
    OBVIOUS
  <2>3. Dispatched(v, x) /\ Dispatched(v, y) /\ InOrder(d, v, x, y)
    BY <2>1, <2>2 DEF DispatchedInv, OrderInv, TakenSoFar
  <2>4. InOrder(d, v, x, y)'
    BY <1>3, <2>3
  <2> QED BY <1>2, <2>2, <2>4 DEF InOrder, SentBefore
<1>10. ASSUME NEW v \in Workers PROVE TakenBefore(v)'
  <2>1. SUFFICES ASSUME NEW m \in Nodes, NEW d \in Clients, m = host[v],
                        NEW i \in 1..Len(taken[v]), NEW j \in 1..Len(tasks'[m][v])
                 PROVE  InOrder(d, v, taken[v][i], tasks[m][v][j])'
    BY <1>2 DEF TakenBefore
  <2>2. PICK x, y : x = taken[v][i] /\ y = tasks'[m][v][j]
    OBVIOUS
  <2>3. Dispatched(v, x)
    BY <2>2 DEF DispatchedInv
  <2>4. InOrder(d, v, x, y)'
    <3>1. CASE j \in 1..Len(tasks[m][v])
      <4>1. y = tasks[m][v][j] /\ Dispatched(v, y) /\ InOrder(d, v, x, y)
        BY <1>5, <2>1, <2>2, <3>1 DEF DispatchedInv, OrderInv, TakenBefore
      <4> QED BY <1>3, <2>3, <4>1
    <3>2. CASE v = w /\ y = t
      BY <1>3, <2>3, <3>2
    <3> QED BY <1>6, <2>2, <3>1, <3>2
  <2> QED BY <1>2, <2>2, <2>4 DEF InOrder, SentBefore
<1>11. OrderInv'
  BY <1>8, <1>9, <1>10 DEF OrderInv, QueueOf
<1> QED BY <1>7, <1>11

LEMMA TakeOrdered ==
    ASSUME TypeOK, DispatchedInv, OrderInv, NEW w \in Workers, TakeTask(w)
    PROVE  DispatchedInv' /\ OrderInv'
<1>1. PICK n \in Nodes :
        /\ n = host[w] /\ tasks[n][w] # <<>>
        /\ taken' = [taken EXCEPT ![w] = Append(@, Head(tasks[n][w]))]
        /\ tasks' = [tasks EXCEPT ![n][w] = Tail(@)]
        /\ UNCHANGED <<host, sentBy>>
  BY DEF TakeTask, Source, TypeOK, sendVars
<1>2. PICK old, queue, new, rest :
        /\ old = taken[w] /\ queue = tasks[n][w]
        /\ new = taken'[w] /\ rest = tasks'[n][w]
  OBVIOUS
<1>3. /\ old \in Seq(Tasks) /\ queue \in Seq(Tasks) /\ queue # <<>>
      /\ new = Append(old, Head(queue)) /\ rest = Tail(queue)
  BY <1>1, <1>2 DEF TypeOK
<1>4. /\ Len(old) \in Nat /\ Len(queue) \in Nat /\ 1 \in 1..Len(queue)
      /\ Len(new) = Len(old) + 1 /\ new[Len(old) + 1] = queue[1]
      /\ \A i \in 1..Len(old) : new[i] = old[i]
      /\ Len(rest) = Len(queue) - 1
      /\ \A i \in 1..Len(rest) : i + 1 \in 1..Len(queue) /\ rest[i] = queue[i + 1]
  BY <1>3
<1>5. /\ \A v \in Workers : v # w => taken'[v] = taken[v]
      /\ \A m \in Nodes, v \in Workers : ~(m = n /\ v = w) => tasks'[m][v] = tasks[m][v]
  BY <1>1 DEF TypeOK
<1>6. /\ \A v : \A x : Dispatched(v, x)' <=> Dispatched(v, x)
      /\ \A d, v : \A x, y : InOrder(d, v, x, y)' <=> InOrder(d, v, x, y)
  BY <1>1 DEF Dispatched, InOrder, SentBefore
<1>7. /\ \A i \in 1..Len(old) : Dispatched(w, old[i])
      /\ \A i \in 1..Len(queue) : Dispatched(w, queue[i])
      /\ \A d \in Clients :
           /\ \A i, j \in 1..Len(old) : i < j => InOrder(d, w, old[i], old[j])
           /\ \A i, j \in 1..Len(queue) : i < j => InOrder(d, w, queue[i], queue[j])
           /\ \A i \in 1..Len(old), j \in 1..Len(queue) : InOrder(d, w, old[i], queue[j])
  BY <1>1, <1>2 DEF DispatchedInv, OrderInv, TakenSoFar, QueueOf, TakenBefore
<1>8. /\ \A i \in 1..Len(new) : Dispatched(w, new[i])
      /\ \A i \in 1..Len(rest) : Dispatched(w, rest[i])
      /\ \A d \in Clients :
           /\ \A i, j \in 1..Len(new) : i < j => InOrder(d, w, new[i], new[j])
           /\ \A i, j \in 1..Len(rest) : i < j => InOrder(d, w, rest[i], rest[j])
           /\ \A i \in 1..Len(new), j \in 1..Len(rest) : InOrder(d, w, new[i], rest[j])
  <2>1. ASSUME NEW i \in 1..Len(new)
        PROVE  \/ i \in 1..Len(old) /\ new[i] = old[i]
               \/ i = Len(old) + 1 /\ new[i] = queue[1]
    BY <1>4
  <2>2. \A i \in 1..Len(new) : Dispatched(w, new[i])
    BY <1>4, <1>7, <2>1
  <2>3. \A i \in 1..Len(rest) : Dispatched(w, rest[i])
    BY <1>4, <1>7
  <2>4. ASSUME NEW d \in Clients, NEW i \in 1..Len(new), NEW j \in 1..Len(new), i < j
        PROVE  InOrder(d, w, new[i], new[j])
    <3>1. i \in 1..Len(old) /\ new[i] = old[i]
      BY <1>4, <2>4
    <3> QED BY <1>4, <1>7, <2>1, <2>4, <3>1
  <2>5. ASSUME NEW d \in Clients, NEW i \in 1..Len(rest), NEW j \in 1..Len(rest), i < j
        PROVE  InOrder(d, w, rest[i], rest[j])
    <3>1. /\ i + 1 \in 1..Len(queue) /\ rest[i] = queue[i + 1]
          /\ j + 1 \in 1..Len(queue) /\ rest[j] = queue[j + 1] /\ i + 1 < j + 1
      BY <1>4, <2>5
    <3> QED BY <1>7, <3>1
  <2>6. ASSUME NEW d \in Clients, NEW i \in 1..Len(new), NEW j \in 1..Len(rest)
        PROVE  InOrder(d, w, new[i], rest[j])
    <3>1. j + 1 \in 1..Len(queue) /\ rest[j] = queue[j + 1] /\ 1 < j + 1
      BY <1>4
    <3> QED BY <1>4, <1>7, <2>1, <3>1
  <2> QED BY <2>2, <2>3, <2>4, <2>5, <2>6
<1>9. DispatchedInv'
  <2>1. ASSUME NEW v \in Workers, NEW i \in 1..Len(taken'[v]) PROVE Dispatched(v, taken[v][i])'
    <3>1. PICK x : x = taken'[v][i]
      OBVIOUS
    <3>2. Dispatched(v, x)
      BY <1>2, <1>5, <1>8, <3>1 DEF DispatchedInv
    <3>3. Dispatched(v, x)'
      BY <1>6, <3>2
    <3> QED BY <3>1, <3>3 DEF Dispatched
  <2>2. ASSUME NEW v \in Workers, NEW m \in Nodes, NEW i \in 1..Len(tasks'[m][v])
        PROVE  Dispatched(v, tasks[m][v][i])'
    <3>1. PICK x : x = tasks'[m][v][i]
      OBVIOUS
    <3>2. Dispatched(v, x)
      BY <1>2, <1>5, <1>8, <3>1 DEF DispatchedInv
    <3>3. Dispatched(v, x)'
      BY <1>6, <3>2
    <3> QED BY <3>1, <3>3 DEF Dispatched
  <2> QED BY <2>1, <2>2 DEF DispatchedInv
<1>10. ASSUME NEW v \in Workers
       PROVE  TakenSoFar(v)' /\ TakenBefore(v)' /\ (\A m \in Nodes : QueueOf(m, v)')
  <2>1. TakenSoFar(v) /\ TakenBefore(v) /\ (\A m \in Nodes : QueueOf(m, v))
    BY DEF OrderInv
  <2>2. CASE v = w
    <3>1. TakenSoFar(w)'
      <4>1. ASSUME NEW d \in Clients, NEW i \in 1..Len(new), NEW j \in 1..Len(new), i < j
            PROVE  InOrder(d, w, taken[w][i], taken[w][j])'
        <5>1. PICK x, y : x = new[i] /\ y = new[j]
          OBVIOUS
        <5>2. InOrder(d, w, x, y)'
          BY <1>6, <1>8, <4>1, <5>1
        <5> QED BY <1>2, <5>1, <5>2 DEF InOrder, SentBefore
      <4> QED BY <1>2, <4>1 DEF TakenSoFar
    <3>2. TakenBefore(w)'
      <4>1. ASSUME NEW d \in Clients, NEW i \in 1..Len(new), NEW j \in 1..Len(rest)
            PROVE  InOrder(d, w, taken[w][i], tasks[n][w][j])'
        <5>1. PICK x, y : x = new[i] /\ y = rest[j]
          OBVIOUS
        <5>2. InOrder(d, w, x, y)'
          BY <1>6, <1>8, <5>1
        <5> QED BY <1>2, <5>1, <5>2 DEF InOrder, SentBefore
      <4>2. ASSUME NEW m \in Nodes, m = host'[w] PROVE m = n
        BY <1>1, <4>2
      <4> QED BY <1>2, <4>1, <4>2 DEF TakenBefore
    <3>3. ASSUME NEW m \in Nodes PROVE QueueOf(m, w)'
      <4>1. CASE m = n
        <5>1. ASSUME NEW d \in Clients, NEW i \in 1..Len(rest), NEW j \in 1..Len(rest), i < j
              PROVE  InOrder(d, w, tasks[n][w][i], tasks[n][w][j])'
          <6>1. PICK x, y : x = rest[i] /\ y = rest[j]
            OBVIOUS
          <6>2. InOrder(d, w, x, y)'
            BY <1>6, <1>8, <5>1, <6>1
          <6> QED BY <1>2, <6>1, <6>2 DEF InOrder, SentBefore
        <5> QED BY <1>2, <4>1, <5>1 DEF QueueOf
      <4>2. CASE m # n
        <5>1. tasks'[m][w] = tasks[m][w] /\ sentBy' = sentBy /\ QueueOf(m, w)
          BY <1>1, <1>5, <2>1, <2>2, <4>2
        <5> QED BY <5>1 DEF QueueOf, InOrder, SentBefore
      <4> QED BY <4>1, <4>2
    <3> QED BY <2>2, <3>1, <3>2, <3>3
  <2>3. CASE v # w
    <3>1. taken'[v] = taken[v] /\ (\A m \in Nodes : tasks'[m][v] = tasks[m][v])
      BY <1>5, <2>3
    <3>2. sentBy' = sentBy /\ host' = host
      BY <1>1
    <3>3. TakenSoFar(v)'
      BY <2>1, <3>1, <3>2 DEF TakenSoFar, InOrder, SentBefore
    <3>4. TakenBefore(v)'
      BY <2>1, <3>1, <3>2 DEF TakenBefore, InOrder, SentBefore
    <3>5. ASSUME NEW m \in Nodes PROVE QueueOf(m, v)'
      <4>1. tasks'[m][v] = tasks[m][v] /\ QueueOf(m, v)
        BY <2>1, <3>1
      <4> QED BY <3>2, <4>1 DEF QueueOf, InOrder, SentBefore
    <3> QED BY <3>3, <3>4, <3>5
  <2> QED BY <2>2, <2>3
<1> QED BY <1>9, <1>10 DEF OrderInv

LEMMA OrderNext ==
    ASSUME TypeOK, Addressed, DispatchedInv, OrderInv, [Next]_vars
    PROVE  DispatchedInv' /\ OrderInv'
<1>1. CASE UNCHANGED <<host, tasks, sentBy, taken>>
  <2>1. DispatchedInv'
    BY <1>1 DEF DispatchedInv, Dispatched
  <2>2. \A c \in Clients, w \in Workers : \A t, u : InOrder(c, w, t, u)' = InOrder(c, w, t, u)
    BY <1>1 DEF InOrder, SentBefore
  <2>3. ASSUME NEW w \in Workers PROVE TakenSoFar(w)'
    BY <1>1, <2>2 DEF OrderInv, TakenSoFar
  <2>4. ASSUME NEW w \in Workers PROVE TakenBefore(w)'
    BY <1>1, <2>2 DEF OrderInv, TakenBefore
  <2>5. ASSUME NEW w \in Workers, NEW n \in Nodes PROVE QueueOf(n, w)'
    BY <1>1, <2>2 DEF OrderInv, QueueOf
  <2> QED BY <2>1, <2>3, <2>4, <2>5 DEF OrderInv
<1>2. ASSUME NEW c \in Clients, NEW w \in Workers, IncreaseWorker(c, w)
      PROVE  DispatchedInv' /\ OrderInv'
  <2>1. host[w] = None /\ UNCHANGED <<tasks, sentBy, taken>>
    BY <1>2 DEF IncreaseWorker, sendVars
  <2>2. \A v \in Workers : v # w => host'[v] = host[v]
    BY <1>2 DEF IncreaseWorker, ServeIncrease, TypeOK
  <2>3. DispatchedInv'
    BY <2>1 DEF DispatchedInv, Dispatched
  <2>4. \A n \in Nodes : tasks[n][w] = <<>> /\ Len(tasks[n][w]) = 0
    BY <2>1 DEF Addressed
  <2>5. ASSUME NEW v \in Workers PROVE TakenBefore(v)'
    <3>1. CASE v = w
      BY <2>1, <2>4, <3>1 DEF TakenBefore
    <3>2. CASE v # w
      BY <2>1, <2>2, <3>2 DEF OrderInv, TakenBefore, InOrder, SentBefore
    <3> QED BY <3>1, <3>2
  <2> QED BY <2>1, <2>3, <2>5 DEF OrderInv, TakenSoFar, QueueOf, InOrder, SentBefore
<1>3. ASSUME NEW c \in Clients, NEW w \in Workers, NEW t \in Tasks, DispatchFunTask(c, w, t)
      PROVE  DispatchedInv' /\ OrderInv'
  BY <1>3, DispatchOrdered
<1>4. ASSUME NEW w \in Workers, TakeTask(w) PROVE DispatchedInv' /\ OrderInv'
  BY <1>4, TakeOrdered
<1> QED BY <1>1, <1>2, <1>3, <1>4 DEF Next, vars, sendVars, ChangeNodes, Restart, StopTask, StopWorker,
           KillWorker, TakeControl

LEMMA OrderHolds == Spec => [](TypeOK /\ Addressed /\ DispatchedInv /\ OrderInv)
<1>1. Init => Addressed
  BY DEF Init, Addressed
<1>2. Init => DispatchedInv /\ OrderInv
  <2>1. SUFFICES ASSUME Init PROVE DispatchedInv /\ OrderInv
    OBVIOUS
  <2>2. ASSUME NEW w \in Workers
        PROVE  /\ Len(taken[w]) = 0
               /\ \A n \in Nodes : Len(tasks[n][w]) = 0
    BY <2>1 DEF Init
  <2> QED BY <2>2 DEF DispatchedInv, OrderInv, TakenSoFar, QueueOf, TakenBefore
<1>3. TypeOK /\ Addressed /\ [Next]_vars => Addressed'
  BY AddressedNext
<1>4. /\ TypeOK /\ Addressed /\ DispatchedInv /\ OrderInv
      /\ [Next]_vars
      => DispatchedInv' /\ OrderInv'
  BY OrderNext
<1> QED BY <1>1, <1>2, <1>3, <1>4, TypeCorrect, PTL DEF Spec

\* A worker takes a task once at most, and each client's tasks in the order in which the
\* client dispatched them, though some of them go astray.
THEOREM TasksKeepTheirOrder == Spec => []TakenInOrder
<1>1. TypeOK /\ OrderInv => TakenInOrder
  <2>1. SUFFICES ASSUME TypeOK, OrderInv, NEW w \in Workers, NEW c \in Clients,
                        NEW i \in DOMAIN taken[w], NEW j \in DOMAIN taken[w], i < j,
                        {taken[w][i], taken[w][j]} \subseteq Range(sentBy[c][w])
                 PROVE  SentBefore(c, w, taken[w][i], taken[w][j])
    BY DEF TakenInOrder
  <2>2. taken[w] \in Seq(Tasks) /\ DOMAIN taken[w] = 1..Len(taken[w])
    BY <2>1 DEF TypeOK
  <2> QED BY <2>1, <2>2 DEF OrderInv, TakenSoFar, InOrder
<1> QED BY <1>1, OrderHolds, PTL

-----------------------------------------------------------------------------
(* What a task that was taken says of later calls.                         *)

\* A fresh task was dispatched.
FreshSent == \A c \in Clients : \A t \in fresh[c] : \E v \in Workers : Dispatched(v, t)

\* The node that has a fresh task of c for w is the one that the key of w leads c to, and
\* so is the host of the worker that took it.
QueuedWhereSent(c, w) ==
    \A n \in Nodes : \A i \in 1..Len(tasks[n][w]) :
        tasks[n][w][i] \in fresh[c] => NodeOf(c, w) = {n}
TakenWhereSent(c, w) ==
    \A i \in 1..Len(taken[w]) : taken[w][i] \in fresh[c] => NodeOf(c, w) = {host[w]}

SentInv == FreshSent /\ \A c \in Clients, w \in Workers :
                           QueuedWhereSent(c, w) /\ TakenWhereSent(c, w)

\* Where the history of dispatches only grows and no client's fresh tasks do, FreshSent stays.
LEMMA FreshStays ==
    ASSUME FreshSent, UNCHANGED sentBy, \A c \in Clients : fresh'[c] \subseteq fresh[c]
    PROVE  FreshSent'
BY DEF FreshSent, Dispatched

\* A step that moves no task and changes no host leaves what was sent where it is, and
\* a client whose process or list changes has no fresh tasks.
LEMMA StillSent ==
    ASSUME SentInv, UNCHANGED <<host, tasks, sentBy, taken>>,
           \A c \in Clients : \/ fresh'[c] = {}
                             \/ /\ fresh'[c] = fresh[c] /\ nodes'[c] = nodes[c]
                                /\ salt'[c] = salt[c]
    PROVE  SentInv'
<1>1. FreshSent'
  BY FreshStays DEF SentInv
<1>2. ASSUME NEW c \in Clients, NEW w \in Workers
      PROVE  QueuedWhereSent(c, w)' /\ TakenWhereSent(c, w)'
  BY <1>2 DEF SentInv, QueuedWhereSent, TakenWhereSent, NodeOf
<1> QED BY <1>1, <1>2 DEF SentInv

LEMMA DispatchSent ==
    ASSUME TypeOK, DispatchedInv, SentInv,
           NEW c \in Clients, NEW w \in Workers, NEW t \in Tasks, DispatchFunTask(c, w, t)
    PROVE  SentInv'
<1>1. PICK n \in Nodes : n \in NodeOf(c, w) /\ tasks' = [tasks EXCEPT ![n][w] = Append(@, t)]
  BY DEF DispatchFunTask, Dispatch, ServeDispatch, NodeOf
<1>2. /\ \A v \in Workers : ~Dispatched(v, t)
      /\ sentBy' = [sentBy EXCEPT ![c][w] = Append(@, t)]
      /\ fresh' = [fresh EXCEPT ![c] = @ \cup {t}]
      /\ UNCHANGED <<nodes, salt, taken, host>>
  BY DEF DispatchFunTask, Dispatch, routeVars
<1>3. NodeOf(c, w) = {n}
  BY <1>1 DEF NodeOf
<1>4. \A d, v : NodeOf(d, v)' = NodeOf(d, v)
  BY <1>2 DEF NodeOf
<1>5. \A d \in Clients : \A x : x \in fresh'[d] => x \in fresh[d] \/ (d = c /\ x = t)
  BY <1>2 DEF TypeOK
<1>6. Append(sentBy[c][w], t) = sentBy'[c][w] /\ sentBy[c][w] \in Seq(Tasks)
  BY <1>2 DEF TypeOK
<1>7. Range(sentBy'[c][w]) = Range(sentBy[c][w]) \cup {t}
  <2>1. PICK s \in Seq(Tasks) : s = sentBy[c][w]
    BY <1>6
  <2>2. /\ DOMAIN s = 1..Len(s) /\ DOMAIN Append(s, t) = 1..(Len(s) + 1)
        /\ Append(s, t)[Len(s) + 1] = t /\ Len(s) \in Nat
        /\ \A k \in 1..Len(s) : Append(s, t)[k] = s[k]
    BY <2>1
  <2>3. Range(Append(s, t)) = Range(s) \cup {t}
    BY <2>2 DEF Range
  <2> QED BY <1>6, <2>1, <2>3
<1>8. \A v \in Workers : \A x : Dispatched(v, x) => Dispatched(v, x)'
  <2>1. ASSUME NEW d \in Clients, NEW v \in Workers
        PROVE  Range(sentBy[d][v]) \subseteq Range(sentBy'[d][v])
    <3>1. CASE d = c /\ v = w
      BY <1>7, <3>1
    <3>2. CASE ~(d = c /\ v = w)
      BY <1>2, <3>2 DEF TypeOK
    <3> QED BY <3>1, <3>2
  <2> QED BY <2>1 DEF Dispatched
<1>9. Dispatched(w, t)'
  BY <1>7 DEF Dispatched
<1>10. FreshSent'
  <2>1. ASSUME NEW d \in Clients, NEW x \in fresh'[d] PROVE \E v \in Workers : Dispatched(v, x)'
    BY <1>5, <1>8, <1>9 DEF SentInv, FreshSent
  <2> QED BY <2>1 DEF FreshSent, Dispatched
<1>11. ASSUME NEW d \in Clients, NEW v \in Workers PROVE QueuedWhereSent(d, v)'
  <2>1. SUFFICES ASSUME NEW m \in Nodes, NEW i \in 1..Len(tasks'[m][v]),
                        tasks'[m][v][i] \in fresh'[d]
                 PROVE  NodeOf(d, v) = {m}
    BY <1>4 DEF QueuedWhereSent
  <2>2. tasks[m][v] \in Seq(Tasks) /\ Len(tasks[m][v]) \in Nat
    BY DEF TypeOK
  <2>3. CASE i \in 1..Len(tasks[m][v]) /\ tasks'[m][v][i] = tasks[m][v][i]
    <3>1. Dispatched(v, tasks[m][v][i])
      BY <2>3 DEF DispatchedInv
    <3>2. tasks[m][v][i] \in fresh[d]
      BY <1>2, <1>5, <2>1, <2>3, <3>1
    <3> QED BY <2>3, <3>2 DEF SentInv, QueuedWhereSent
  <2>4. CASE m = n /\ v = w /\ tasks'[m][v][i] = t
    <3>1. t \notin fresh[d]
      BY <1>2 DEF SentInv, FreshSent
    <3> QED BY <1>3, <1>5, <2>1, <2>4, <3>1
  <2>5. CASE m = n /\ v = w
    <3>1. tasks'[m][v] = Append(tasks[m][v], t)
      BY <1>1, <2>5 DEF TypeOK
    <3>2. \/ i \in 1..Len(tasks[m][v]) /\ tasks'[m][v][i] = tasks[m][v][i]
          \/ tasks'[m][v][i] = t
      BY <2>1, <2>2, <3>1
    <3> QED BY <2>3, <2>4, <2>5, <3>2
  <2>6. CASE ~(m = n /\ v = w)
    <3>1. tasks'[m][v] = tasks[m][v]
      BY <1>1, <2>6 DEF TypeOK
    <3> QED BY <2>1, <2>3, <3>1
  <2> QED BY <2>5, <2>6
<1>12. ASSUME NEW d \in Clients, NEW v \in Workers PROVE TakenWhereSent(d, v)'
  <2>1. SUFFICES ASSUME NEW i \in 1..Len(taken[v]), taken[v][i] \in fresh'[d]
                 PROVE  NodeOf(d, v) = {host[v]}
    BY <1>2, <1>4 DEF TakenWhereSent
  <2>2. Dispatched(v, taken[v][i])
    BY <2>1 DEF DispatchedInv
  <2>3. taken[v][i] \in fresh[d]
    BY <1>2, <1>5, <2>1, <2>2
  <2> QED BY <2>1, <2>3 DEF SentInv, TakenWhereSent
<1> QED BY <1>10, <1>11, <1>12 DEF SentInv

LEMMA TakeSent ==
    ASSUME TypeOK, SentInv, NEW w \in Workers, TakeTask(w)
    PROVE  SentInv'
<1>1. PICK n \in Nodes :
        /\ n = host[w] /\ tasks[n][w] # <<>>
        /\ taken' = [taken EXCEPT ![w] = Append(@, Head(tasks[n][w]))]
        /\ tasks' = [tasks EXCEPT ![n][w] = Tail(@)]
        /\ UNCHANGED <<nodes, salt, host, sentBy, fresh>>
  BY DEF TakeTask, Source, TypeOK, routeVars, sendVars
<1>2. FreshSent'
  BY <1>1, FreshStays DEF SentInv
<1>3. \A d, v : NodeOf(d, v)' = NodeOf(d, v)
  BY <1>1 DEF NodeOf
<1>4. ASSUME NEW d \in Clients, NEW v \in Workers PROVE QueuedWhereSent(d, v)'
  <2>1. SUFFICES ASSUME NEW m \in Nodes, NEW i \in 1..Len(tasks'[m][v]),
                        tasks'[m][v][i] \in fresh[d]
                 PROVE  NodeOf(d, v) = {m}
    BY <1>1, <1>3 DEF QueuedWhereSent
  <2>2. \E k \in 1..Len(tasks[m][v]) : tasks[m][v][k] = tasks'[m][v][i]
    <3>1. CASE m = n /\ v = w
      <4>1. tasks'[m][v] = Tail(tasks[m][v]) /\ tasks[m][v] \in Seq(Tasks) /\ tasks[m][v] # <<>>
        BY <1>1, <3>1 DEF TypeOK
      <4>2. i + 1 \in 1..Len(tasks[m][v]) /\ tasks'[m][v][i] = tasks[m][v][i + 1]
        BY <2>1, <4>1
      <4> QED BY <4>2
    <3>2. CASE ~(m = n /\ v = w)
      <4>1. tasks'[m][v] = tasks[m][v]
        BY <1>1, <3>2 DEF TypeOK
      <4> QED BY <2>1, <4>1
    <3> QED BY <3>1, <3>2
  <2> QED BY <2>1, <2>2 DEF SentInv, QueuedWhereSent
<1>5. ASSUME NEW d \in Clients, NEW v \in Workers PROVE TakenWhereSent(d, v)'
  <2>1. SUFFICES ASSUME NEW i \in 1..Len(taken'[v]), taken'[v][i] \in fresh[d]
                 PROVE  NodeOf(d, v) = {host[v]}
    BY <1>1, <1>3 DEF TakenWhereSent
  <2>2. CASE i \in 1..Len(taken[v]) /\ taken'[v][i] = taken[v][i]
    BY <2>1, <2>2 DEF SentInv, TakenWhereSent
  <2>3. CASE v = w
    <3>1. /\ taken'[v] = Append(taken[v], Head(tasks[n][w])) /\ taken[v] \in Seq(Tasks)
          /\ tasks[n][w] \in Seq(Tasks) /\ tasks[n][w] # <<>>
      BY <1>1, <2>3 DEF TypeOK
    <3>2. \/ i \in 1..Len(taken[v]) /\ taken'[v][i] = taken[v][i]
          \/ taken'[v][i] = tasks[n][w][1] /\ 1 \in 1..Len(tasks[n][w])
      BY <2>1, <3>1
    <3> QED BY <1>1, <2>1, <2>2, <2>3, <3>2 DEF SentInv, QueuedWhereSent
  <2>4. CASE v # w
    <3>1. taken'[v] = taken[v]
      BY <1>1, <2>4 DEF TypeOK
    <3> QED BY <2>1, <2>2, <3>1
  <2> QED BY <2>3, <2>4
<1> QED BY <1>2, <1>4, <1>5 DEF SentInv

LEMMA SentNext ==
    ASSUME TypeOK, Addressed, DispatchedInv, SentInv, [Next]_vars
    PROVE  SentInv'
<1>1. CASE UNCHANGED <<nodes, salt, fresh, host, tasks, sentBy, taken>>
  BY <1>1, StillSent
<1>2. ASSUME NEW c \in Clients, \/ \E list \in NodeLists : ChangeNodes(c, list)
                               \/ \E s \in Salts : Restart(c, s)
      PROVE  SentInv'
  <2>1. ASSUME NEW d \in Clients
        PROVE  \/ fresh'[d] = {}
               \/ /\ fresh'[d] = fresh[d] /\ nodes'[d] = nodes[d]
                  /\ salt'[d] = salt[d]
    BY <1>2 DEF ChangeNodes, Restart, TypeOK
  <2>2. UNCHANGED <<host, tasks, sentBy, taken>>
    BY <1>2 DEF ChangeNodes, Restart
  <2> QED BY <2>1, <2>2, StillSent
<1>3. ASSUME NEW c \in Clients, NEW w \in Workers, IncreaseWorker(c, w) PROVE SentInv'
  <2>1. host[w] = None /\ UNCHANGED <<nodes, salt, tasks, sentBy, fresh, taken>>
    BY <1>3 DEF IncreaseWorker, routeVars, sendVars
  <2>2. \A v \in Workers : v # w => host'[v] = host[v]
    BY <1>3 DEF IncreaseWorker, ServeIncrease, TypeOK
  <2>3. \A d, v : NodeOf(d, v)' = NodeOf(d, v)
    BY <2>1 DEF NodeOf
  <2>4. FreshSent'
    BY <2>1, FreshStays DEF SentInv
  <2>5. ASSUME NEW d \in Clients, NEW v \in Workers PROVE QueuedWhereSent(d, v)'
    BY <2>1, <2>3 DEF SentInv, QueuedWhereSent
  <2>6. ASSUME NEW d \in Clients, NEW v \in Workers PROVE TakenWhereSent(d, v)'
    <3>1. CASE v = w
      <4>1. ASSUME NEW i \in 1..Len(taken[w]) PROVE FALSE
        <5>1. PICK e \in Clients : taken[w][i] \in Range(sentBy[e][w])
          BY <4>1 DEF DispatchedInv, Dispatched
        <5>2. sentBy[e][w] \in Seq(Tasks)
          BY DEF TypeOK
        <5>3. sentBy[e][w] # <<>>
          BY <5>1, <5>2 DEF Range
        <5> QED BY <2>1, <5>3 DEF Addressed
      <4> QED BY <2>1, <3>1, <4>1 DEF TakenWhereSent
    <3>2. CASE v # w
      BY <2>1, <2>2, <2>3, <3>2 DEF SentInv, TakenWhereSent
    <3> QED BY <3>1, <3>2
  <2> QED BY <2>4, <2>5, <2>6 DEF SentInv
<1>4. ASSUME NEW c \in Clients, NEW w \in Workers, NEW t \in Tasks, DispatchFunTask(c, w, t)
      PROVE  SentInv'
  BY <1>4, DispatchSent
<1>5. ASSUME NEW w \in Workers, TakeTask(w) PROVE SentInv'
  BY <1>5, TakeSent
<1> QED BY <1>1, <1>2, <1>3, <1>4, <1>5 DEF Next, vars, routeVars, sendVars, StopTask,
           StopWorker, KillWorker, TakeControl

\* Whoever sees that a worker took one of its tasks reaches that worker with the calls
\* that have the worker's key, until its process or its list of nodes changes.
THEOREM TakenTellsTheNode == Spec => []TakenMeansReached
<1>1. Init => SentInv
  <2>1. SUFFICES ASSUME Init PROVE SentInv
    OBVIOUS
  <2>2. ASSUME NEW c \in Clients PROVE \A t : t \notin fresh[c]
    BY <2>1 DEF Init
  <2> QED BY <2>2 DEF SentInv, FreshSent, QueuedWhereSent, TakenWhereSent
<1>2. TypeOK /\ Addressed /\ DispatchedInv /\ SentInv /\ [Next]_vars => SentInv'
  BY SentNext
<1>3. TypeOK /\ SentInv => TakenMeansReached
  <2>1. SUFFICES ASSUME TypeOK, SentInv, NEW c \in Clients, NEW w \in Workers,
                        fresh[c] \cap Range(taken[w]) # {}
                 PROVE  NodeOf(c, w) = {host[w]}
    BY DEF TakenMeansReached
  <2>2. taken[w] \in Seq(Tasks)
    BY <2>1 DEF TypeOK
  <2>3. PICK i \in 1..Len(taken[w]) : taken[w][i] \in fresh[c]
    BY <2>1, <2>2 DEF Range
  <2> QED BY <2>1, <2>3 DEF SentInv, TakenWhereSent
<1> QED BY <1>1, <1>2, <1>3, OrderHolds, PTL DEF Spec
=============================================================================
