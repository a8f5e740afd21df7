---------------------------- MODULE ManagerRouting ----------------------------
(***************************************************************************)
(* Workers on several manager nodes and the processes that call them: a    *)
(* ManagerRPCClient finds the node of a call by hashing a key of the call, *)
(* and the ManagerService of that node serves it with the processes and    *)
(* queues it has there.  A call and its service are one step: a client     *)
(* makes its calls one after the other.  What a worker does with a task is *)
(* the subject of Worker, how one manager and its workers interact of      *)
(* FunTaskManager.                                                         *)
(***************************************************************************)
EXTENDS Naturals, Sequences, SequencesExt

CONSTANTS Clients,      \* processes with a ManagerRPCClient
          Nodes,        \* manager nodes
          Workers,      \* worker uuids
          Tasks,        \* tasks to dispatch
          Encodable,    \* those whose uuid the answer to their dispatch can carry
          None,
          Salts,        \* what Python may salt a process's hash of bytes with
          Hash,         \* salt -> key -> hash of the key
          NodeLists,    \* the lists of nodes a client may be given
          MaxChanges    \* bound on the changes of node lists

\* The keys of calls to a worker, and of calls that stop one of its tasks.
Key == Workers \cup (Workers \X Tasks)

ASSUME RoutingAssumption ==
    /\ None \notin Nodes
    /\ Encodable \subseteq Tasks
    /\ Hash \in [Salts -> [Key -> Nat]]
    /\ NodeLists \subseteq Seq(Nodes)
    /\ MaxChanges \in Nat

VARIABLES nodes,        \* client -> HashRPChooser.nodes
          salt,         \* client -> the salt of its process
          changes,      \* number of changes of a node list so far
          host,         \* worker -> the node that started its process
          alive,        \* workers whose process runs
          tasks,        \* node -> worker -> its task queue there
          control,      \* node -> worker -> what its control queue holds there
          sentBy,       \* history: client -> worker -> the tasks dispatched, in order
          fresh,        \* history: client -> the tasks dispatched since its process
                        \* started and its list changed last
          taken         \* history: worker -> the tasks it took, in order

routeVars == <<nodes, salt, changes>>
sendVars == <<sentBy, fresh>>
vars == <<routeVars, host, alive, tasks, control, sendVars, taken>>

TypeOK ==
    /\ nodes \in [Clients -> NodeLists]
    /\ salt \in [Clients -> Salts]
    /\ changes \in 0..MaxChanges
    /\ host \in [Workers -> Nodes \cup {None}]
    /\ alive \in SUBSET {w \in Workers : host[w] # None}
    /\ tasks \in [Nodes -> [Workers -> Seq(Tasks)]]
    /\ control \in [Nodes -> [Workers -> SUBSET (Workers \cup Tasks)]]
    /\ sentBy \in [Clients -> [Workers -> Seq(Tasks)]]
    /\ fresh \in [Clients -> SUBSET Tasks]
    /\ taken \in [Workers -> Seq(Tasks)]

Init ==
    /\ \E list \in NodeLists : nodes = [c \in Clients |-> list]
    /\ salt \in [Clients -> Salts]
    /\ changes = 0
    /\ host = [w \in Workers |-> None] /\ alive = {}
    /\ tasks = [n \in Nodes |-> [w \in Workers |-> <<>>]]
    /\ control = [n \in Nodes |-> [w \in Workers |-> {}]]
    /\ sentBy = [c \in Clients |-> [w \in Workers |-> <<>>]]
    /\ fresh = [c \in Clients |-> {}]
    /\ taken = [w \in Workers |-> <<>>]

-----------------------------------------------------------------------------
(* HashRPChooser.                                                          *)

\* The node a call with this key goes to; none where the list is empty.
NodeOf(c, key) ==
    {n \in Nodes : /\ nodes[c] # <<>>
                   /\ n = nodes[c][(Hash[salt[c]][key] % Len(nodes[c])) + 1]}

ChangeNodes(c, list) ==
    /\ changes < MaxChanges /\ list # nodes[c]
    /\ nodes' = [nodes EXCEPT ![c] = list]
    /\ changes' = changes + 1
    /\ fresh' = [fresh EXCEPT ![c] = {}]
    /\ UNCHANGED <<salt, host, alive, tasks, control, sentBy, taken>>

\* A process that restarts hashes with another salt.
Restart(c, s) ==
    /\ s # salt[c]
    /\ salt' = [salt EXCEPT ![c] = s]
    /\ fresh' = [fresh EXCEPT ![c] = {}]
    /\ UNCHANGED <<nodes, changes, host, alive, tasks, control, sentBy, taken>>

-----------------------------------------------------------------------------
(* What the service of a node does with a call.  It makes the queues of a  *)
(* worker when it has none of that name, but it can only kill a process of *)
(* its own.                                                                *)

\* Variant of ServeIncrease: the process is started and not recorded.
ServeIncreaseOnly(n, w) == alive' = alive \cup {w} /\ UNCHANGED host

ServeIncrease(n, w) ==
    /\ host' = [host EXCEPT ![w] = n]
    /\ alive' = alive \cup {w}

ServeDispatch(n, w, t) == tasks' = [tasks EXCEPT ![n][w] = Append(@, t)]

ServeStopTask(n, w, t) == control' = [control EXCEPT ![n][w] = @ \cup {t}]

ServeStopWorker(n, w) == control' = [control EXCEPT ![n][w] = @ \cup {w}]

\* KeyError for a worker of another node.
ServeKill(n, w) == alive' = IF host[w] = n THEN alive \ {w} ELSE alive

-----------------------------------------------------------------------------
(* The calls of a client.                                                  *)

\* The key of increase_worker is random: any node of the list.
IncreaseWorker(c, w) ==
    /\ host[w] = None
    /\ \E n \in Range(nodes[c]) : ServeIncrease(n, w)
    /\ UNCHANGED <<routeVars, tasks, control, sendVars, taken>>

Dispatched(w, t) == \E c \in Clients : t \in Range(sentBy[c][w])

Dispatch(c, w, t, key) ==
    /\ host[w] # None
    /\ \A v \in Workers : ~Dispatched(v, t)
    /\ \E n \in NodeOf(c, key) : ServeDispatch(n, w, t)
    /\ sentBy' = [sentBy EXCEPT ![c][w] = Append(@, t)]
    /\ fresh' = [fresh EXCEPT ![c] = @ \cup {t}]
    /\ UNCHANGED <<routeVars, host, alive, control, taken>>

\* Variant of DispatchFunTask: with the key of stop_task.
DispatchByTask(c, w, t) == Dispatch(c, w, t, <<w, t>>)

\* The service has put the task when it encodes its answer, so the caller of a task that
\* is not Encodable gets an error for a task that is dispatched.
DispatchFunTask(c, w, t) == Dispatch(c, w, t, w)

\* The caller needs the uuid that the answer carried.
StopTask(c, w, t) ==
    /\ Dispatched(w, t) /\ t \in Encodable
    /\ \E n \in NodeOf(c, <<w, t>>) : ServeStopTask(n, w, t)
    /\ UNCHANGED <<routeVars, host, alive, tasks, sendVars, taken>>

StopWorker(c, w) ==
    /\ host[w] # None
    /\ \E n \in NodeOf(c, w) : ServeStopWorker(n, w)
    /\ UNCHANGED <<routeVars, host, alive, tasks, sendVars, taken>>

KillWorker(c, w) ==
    /\ host[w] # None
    /\ \E n \in NodeOf(c, w) : ServeKill(n, w)
    /\ UNCHANGED <<routeVars, host, tasks, control, sendVars, taken>>

-----------------------------------------------------------------------------
(* The worker's process has the queues of the node that started it.        *)

\* Variant of Source: the queues of all nodes.
SourceAnywhere(w) == Nodes

Source(w) == {host[w]}

TakeTask(w) ==
    /\ w \in alive
    /\ \E n \in Source(w) :
         /\ tasks[n][w] # <<>>
         /\ taken' = [taken EXCEPT ![w] = Append(@, Head(tasks[n][w]))]
         /\ tasks' = [tasks EXCEPT ![n][w] = Tail(@)]
    /\ UNCHANGED <<routeVars, host, alive, control, sendVars>>

\* m is the worker itself or a task to stop, whose uuid the service was given as text:
\* running_tasks has no such key, and the message is dropped.
TakeControl(w) ==
    /\ w \in alive
    /\ \E n \in Source(w) : \E m \in control[n][w] :
         /\ control' = [control EXCEPT ![n][w] = @ \ {m}]
         /\ alive' = alive \ {m}
    /\ UNCHANGED <<routeVars, host, tasks, sendVars, taken>>

Next ==
    \/ \E c \in Clients :
         \/ \E list \in NodeLists : ChangeNodes(c, list)
         \/ \E s \in Salts : Restart(c, s)
         \/ \E w \in Workers :
              \/ IncreaseWorker(c, w) \/ StopWorker(c, w) \/ KillWorker(c, w)
              \/ \E t \in Tasks : DispatchFunTask(c, w, t) \/ StopTask(c, w, t)
    \/ \E w \in Workers : TakeTask(w) \/ TakeControl(w)

Spec == Init /\ [][Next]_vars

-----------------------------------------------------------------------------
\* A task that a client dispatched and that was taken shows that the client reaches the
\* worker: its later calls with the worker's key, stop_worker and kill_worker among
\* them, go to the node that runs the worker, for as long as the client's process and
\* list are the same.  (Of a task not taken yet nothing of the kind can be said, nor of
\* stop_task.)
TakenMeansReached ==
    \A c \in Clients, w \in Workers :
        fresh[c] \cap Range(taken[w]) # {} => NodeOf(c, w) = {host[w]}

SentBefore(c, w, t, u) ==
    \E k, l \in DOMAIN sentBy[c][w] :
        k < l /\ sentBy[c][w][k] = t /\ sentBy[c][w][l] = u

\* Tasks go astray, but those a worker takes it takes once and in the order in which
\* each client dispatched them, though the client's calls go to other nodes when it
\* has restarted or its list has changed, and back again.
TakenInOrder ==
    \A w \in Workers, c \in Clients : \A i, j \in DOMAIN taken[w] :
        i < j /\ {taken[w][i], taken[w][j]} \subseteq Range(sentBy[c][w])
        => SentBefore(c, w, taken[w][i], taken[w][j])
=============================================================================
