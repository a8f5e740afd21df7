-------------------------- MODULE LeaderScheduler --------------------------
(***************************************************************************)
(* The cron tasks of a cluster of scheduler nodes and the leader that      *)
(* spreads them: LeaderScheduler and its place in Scheduler.run, and the   *)
(* WorkerScheduler of each node that has the cron jobs                     *)
(* (core/scheduler.py).  Rebalancing and the answer to a change of the     *)
(* nodes are two coroutines of the leader; every call to a node ends a     *)
(* step.  Election, the list of nodes and the call on a node change come   *)
(* from a LeaderSchedulerControl, of which interface_and_types.py is all   *)
(* there is.  Any call to a node may raise: the node is down, its cron     *)
(* rejects the task, or the provider cannot make the call, as the gRPC one *)
(* without a start time.  As entities.SchedulerNode stands, it is no key   *)
(* of a dict or a cache, and every ReadList raises; what follows a list    *)
(* that was read is the behaviour of the code with a node that has a hash. *)
(***************************************************************************)
CONSTANTS Nodes,        \* scheduler nodes
          CronTasks,    \* the cron tasks of the repository
          Disabled,     \* those that are disabled
          Broken,       \* those not disabled with a time point the cron rejects
          None,
          MaxRounds,    \* bound on the rebalances of one leader
          MaxFalls      \* bound on the crashes of nodes

LOCAL INSTANCE Naturals

ASSUME ClusterAssumption ==
    /\ Disabled \subseteq CronTasks /\ Broken \subseteq CronTasks \ Disabled
    /\ None \notin Nodes \cup CronTasks
    /\ MaxRounds \in Nat /\ MaxFalls \in Nat

Activities == {"rebalance", "change"}

VARIABLES up,       \* the nodes that run
          jobs,     \* node -> the cron tasks it has jobs of
          leader,   \* what get_leader returns
          falls,    \* number of crashes so far
          loaded,   \* which of LeaderScheduler.nodes and the table are not None
          nodes,    \* LeaderScheduler.nodes
          table,    \* node_responsible_tasks_dict, as a set of pairs
          rounds,   \* number of rebalances of this leader
          pc,       \* activity -> the await it is at
          ask,      \* activity -> the nodes whose list it has not read yet
          read,     \* activity -> the pairs it has read
          moves,    \* the pairs the rebalance still has to move
          hand,     \* the task it has removed and not assigned yet
          given,    \* scheduler_nodes of the change
          missing,  \* the tasks it still has to assign
          stale     \* activities whose lists something else has outdated

clusterVars == <<up, jobs, leader, falls>>
cacheVars == <<loaded, nodes, table, rounds>>
moveVars == <<moves, hand>>
changeVars == <<given, missing>>
vars == <<clusterVars, cacheVars, pc, ask, read, moveVars, changeVars, stale>>

Enabled == CronTasks \ Disabled
Pairs == Nodes \X Enabled

\* Every variable has its type; there is a task in hand exactly when one has been
\* removed and not assigned, and no disabled task has jobs.
TypeOK ==
    /\ up \in SUBSET Nodes
    /\ jobs \in [Nodes -> SUBSET Enabled]
    /\ leader \in up \cup {None}
    /\ falls \in 0..MaxFalls
    /\ loaded \in SUBSET {"nodes", "table"}
    /\ nodes \in SUBSET Nodes
    /\ table \in SUBSET Pairs
    /\ rounds \in 0..MaxRounds
    /\ pc \in [Activities -> {"idle", "load", "lists", "move", "assign",
                              "give", "done", "raised"}]
    /\ ask \in [Activities -> SUBSET Nodes]
    /\ read \in [Activities -> SUBSET Pairs]
    /\ moves \in SUBSET Pairs
    /\ hand \in Enabled \cup {None}
    /\ hand # None <=> pc["rebalance"] = "assign"
    /\ given \in SUBSET Nodes
    /\ missing \in SUBSET CronTasks
    /\ stale \in SUBSET Activities

Init ==
    /\ up = Nodes
    /\ jobs = [n \in Nodes |-> {}]
    /\ leader = None
    /\ falls = 0
    /\ loaded = {} /\ nodes = {} /\ table = {} /\ rounds = 0
    /\ pc = [a \in Activities |-> "idle"]
    /\ ask = [a \in Activities |-> {}]
    /\ read = [a \in Activities |-> {}]
    /\ moves = {} /\ hand = None
    /\ given = {} /\ missing = {}
    /\ stale = {}

-----------------------------------------------------------------------------
(* The nodes.                                                              *)

\* The jobs after WorkerScheduler.assign_cron_task of node n: a disabled task gets
\* none; those of an earlier assignment are replaced by the new ones of their name.
With(n, t) == [jobs EXCEPT ![n] = @ \cup ({t} \ Disabled)]

\* The jobs after the cron has rejected a time point of t at one of the nodes ns: those
\* of the time points before it stay.
WithPart(ns, t) == {jobs} \cup {With(n, t) : n \in ns}

\* The jobs after WorkerScheduler.remove_cron_task of node n.
Without(n, t) == [jobs EXCEPT ![n] = @ \ {t}]

\* The process of n ends, and of the jobs "left" its own with it.  A leader takes its
\* activities and all it knows with it.
Down(n, left) ==
    /\ up' = up \ {n}
    /\ jobs' = [left EXCEPT ![n] = {}]
    /\ stale' = Activities
    /\ IF n = leader
         THEN /\ leader' = None
              /\ loaded' = {} /\ nodes' = {} /\ table' = {} /\ rounds' = 0
              /\ pc' = [a \in Activities |-> "idle"]
              /\ ask' = [a \in Activities |-> {}]
              /\ read' = [a \in Activities |-> {}]
              /\ moves' = {} /\ hand' = None
              /\ given' = {} /\ missing' = {}
         ELSE UNCHANGED <<leader, cacheVars, pc, ask, read, moveVars, changeVars>>

Crash(n) ==
    /\ n \in up
    /\ falls < MaxFalls
    /\ falls' = falls + 1
    /\ Down(n, jobs)

Restart(n) ==
    /\ n \notin up
    /\ up' = up \cup {n}
    /\ UNCHANGED <<jobs, leader, falls, cacheVars, pc, ask, read, moveVars,
                   changeVars, stale>>

\* Scheduler.run of a node that is not the leader.
Elect(n) ==
    /\ n \in up /\ leader = None
    /\ leader' = n
    /\ UNCHANGED <<up, jobs, falls, cacheVars, pc, ask, read, moveVars, changeVars,
                   stale>>

-----------------------------------------------------------------------------
(* _get_all_node_responsible_tasks, by either activity.                    *)

Go(a, from, to) == pc[a] = from /\ pc' = [pc EXCEPT ![a] = to]

ReadList(a) ==
    /\ pc[a] = "lists"
    /\ \E n \in ask[a] \cap up :
         /\ read' = [read EXCEPT ![a] = @ \cup ({n} \X jobs[n])]
         /\ ask' = [ask EXCEPT ![a] = @ \ {n}]
    /\ UNCHANGED <<clusterVars, cacheVars, pc, moveVars, changeVars, stale>>

(* LeaderScheduler.rebalance.                                              *)

StartRebalance ==
    /\ leader # None
    /\ rounds < MaxRounds
    /\ rounds' = rounds + 1
    /\ IF loaded = {"nodes", "table"}
         THEN /\ Go("rebalance", "idle", "move")
              /\ moves' = table
              /\ stale' = stale \cup {"rebalance"}
         ELSE /\ Go("rebalance", "idle", "load")
              /\ UNCHANGED <<moves, stale>>
    /\ UNCHANGED <<clusterVars, loaded, nodes, table, ask, read, hand, changeVars>>

\* get_all_nodes returns; what is None afterwards is loaded too.
LoadNodes ==
    /\ loaded' = loaded \cup {"nodes"}
    /\ nodes' = IF "nodes" \in loaded THEN nodes ELSE up
    /\ IF "table" \in loaded
         THEN /\ Go("rebalance", "load", "move")
              /\ moves' = table
              /\ stale' = stale \cup {"rebalance"}
              /\ UNCHANGED <<ask, read>>
         ELSE /\ Go("rebalance", "load", "lists")
              /\ ask' = [ask EXCEPT !["rebalance"] = nodes']
              /\ read' = [read EXCEPT !["rebalance"] = {}]
              /\ stale' = stale \ {"rebalance"}
              /\ UNCHANGED moves
    /\ UNCHANGED <<clusterVars, table, rounds, hand, changeVars>>

TableRead ==
    /\ Go("rebalance", "lists", "move")
    /\ ask["rebalance"] = {}
    /\ table' = read["rebalance"]
    /\ loaded' = {"nodes", "table"}
    /\ moves' = table'
    /\ UNCHANGED <<clusterVars, nodes, rounds, ask, read, hand, changeVars, stale>>

\* Variant of RemoveTask: the node keeps its jobs.
RemoveNothing ==
    /\ Go("rebalance", "move", "assign")
    /\ \E m \in moves : m[1] \in up /\ hand' = m[2] /\ moves' = moves \ {m}
    /\ UNCHANGED <<clusterVars, cacheVars, ask, read, changeVars, stale>>

RemoveTask ==
    /\ Go("rebalance", "move", "assign")
    /\ \E m \in moves : /\ m[1] \in up
                        /\ jobs' = Without(m[1], m[2])
                        /\ hand' = m[2]
                        /\ moves' = moves \ {m}
    /\ UNCHANGED <<up, leader, falls, cacheVars, ask, read, changeVars, stale>>

\* Variant of AssignTask: what was in hand stays there.
AssignAndHold ==
    /\ Go("rebalance", "assign", "move")
    /\ \E n \in nodes \cap up : jobs' = With(n, hand)
    /\ UNCHANGED <<up, leader, falls, cacheVars, ask, read, moveVars, changeVars,
                   stale>>

\* The task goes to any of the nodes, the one it comes from included.
AssignTask ==
    /\ Go("rebalance", "assign", "move")
    /\ hand \notin Broken
    /\ \E n \in nodes \cap up : jobs' = With(n, hand)
    /\ hand' = None
    /\ UNCHANGED <<up, leader, falls, cacheVars, ask, read, moves, changeVars, stale>>

EndRebalance ==
    /\ Go("rebalance", "move", "idle")
    /\ moves = {}
    /\ UNCHANGED <<clusterVars, cacheVars, ask, read, moveVars, changeVars, stale>>

\* A call raises, and leaves the jobs as they are or, where the cron rejected the task,
\* those it made before.  Nothing in Scheduler.run catches it: the leader ends.
RebalanceRaises ==
    /\ \/ /\ \/ pc["rebalance"] = "lists" /\ ask["rebalance"] # {}
             \/ pc["rebalance"] = "move" /\ moves # {}
             \/ pc["rebalance"] = "assign"
          /\ Down(leader, jobs)
       \/ /\ pc["rebalance"] = "assign" /\ hand \in Broken
          /\ \E left \in WithPart(nodes \cap up, hand) : Down(leader, left)
    /\ UNCHANGED falls

-----------------------------------------------------------------------------
(* LeaderScheduler.scheduler_node_change, called with the nodes that run.  *)

StartChange ==
    /\ leader # None
    /\ \E from \in {"idle", "done", "raised"} : Go("change", from, "lists")
    /\ given' = up
    /\ ask' = [ask EXCEPT !["change"] = up]
    /\ read' = [read EXCEPT !["change"] = {}]
    /\ stale' = stale \ {"change"}
    /\ UNCHANGED <<clusterVars, cacheVars, moveVars, missing>>

\* Variant of FindMissing: the table the leader has is taken for the present one.
FindMissingInTable ==
    /\ Go("change", "lists", "give")
    /\ ask["change"] = {}
    /\ missing' = {t \in CronTasks : \A n \in Nodes : <<n, t>> \notin table}
    /\ UNCHANGED <<clusterVars, cacheVars, ask, read, moveVars, given, stale>>

FindMissing ==
    /\ Go("change", "lists", "give")
    /\ ask["change"] = {}
    /\ missing' = {t \in CronTasks : \A n \in Nodes : <<n, t>> \notin read["change"]}
    /\ UNCHANGED <<clusterVars, cacheVars, ask, read, moveVars, given, stale>>

\* assign_task_to_node without a start time.
GiveTask ==
    /\ pc["change"] = "give"
    /\ \E t \in missing \ Broken : /\ \E n \in given \cap up : jobs' = With(n, t)
                                   /\ missing' = missing \ {t}
    /\ stale' = stale \cup {"rebalance"}
    /\ UNCHANGED <<up, leader, falls, cacheVars, pc, ask, read, moveVars, given>>

\* The table is the one that was read first, without what was assigned since; the
\* nodes stay as they were loaded.
EndChange ==
    /\ Go("change", "give", "done")
    /\ missing = {}
    /\ table' = read["change"]
    /\ loaded' = loaded \cup {"table"}
    /\ stale' = stale \cup {"rebalance"}
    /\ UNCHANGED <<clusterVars, nodes, rounds, ask, read, moveVars, changeVars>>

\* The exception goes to the caller; the leader goes on.
ChangeRaises ==
    /\ \/ /\ Go("change", "lists", "raised")
          /\ ask["change"] # {}
          /\ UNCHANGED <<jobs, stale>>
       \/ /\ Go("change", "give", "raised")
          /\ missing # {}
          /\ UNCHANGED <<jobs, stale>>
       \/ /\ Go("change", "give", "raised")
          /\ \E t \in missing \cap Broken : jobs' \in WithPart(given \cap up, t)
          /\ stale' = stale \cup {"rebalance"}
    /\ UNCHANGED <<up, leader, falls, cacheVars, ask, read, moveVars, changeVars>>

Rebalance ==
    \/ StartRebalance \/ LoadNodes \/ ReadList("rebalance") \/ TableRead
    \/ RemoveTask \/ AssignTask \/ EndRebalance \/ RebalanceRaises

Change ==
    \/ StartChange \/ ReadList("change") \/ FindMissing \/ GiveTask
    \/ EndChange \/ ChangeRaises

Next == Rebalance \/ Change \/ \E n \in Nodes : Crash(n) \/ Restart(n) \/ Elect(n)

Spec == Init /\ [][Next]_vars

-----------------------------------------------------------------------------
NodesOf(t) == {n \in Nodes : t \in jobs[n]}
ListedAt(t) == {n \in Nodes : <<n, t>> \in table}

\* The first rebalance after the lists were read keeps every task that was on one
\* node on one node, the one in hand on none, as long as no node ends and no node
\* change comes in between: nothing is lost or doubled.  It is the leader's table,
\* never updated, that makes the second one different.
FirstRebalanceKeepsOne ==
    "rebalance" \notin stale /\ loaded = {"nodes", "table"} =>
      \A t \in CronTasks : \A n \in Nodes : ListedAt(t) = {n} =>
        IF hand = t THEN NodesOf(t) = {} ELSE \E m \in Nodes : NodesOf(t) = {m}

\* When a call of scheduler_node_change has returned, every task that is not
\* disabled is on some node, or in the hand of a rebalance that went on at the same
\* time - unless a node has ended since the call began.
CoveredAfterChange ==
    pc["change"] = "done" /\ "change" \notin stale =>
      \A t \in Enabled : NodesOf(t) # {} \/ hand = t
=============================================================================
