----------------------- MODULE LeaderSchedulerProofs -----------------------
(***************************************************************************)
(* Proofs about LeaderScheduler, for any nodes, cron tasks and bounds.     *)
(***************************************************************************)
EXTENDS LeaderScheduler, Naturals, TLAPS

-----------------------------------------------------------------------------
(* Types.                                                                  *)

LEMMA DownTyped ==
    ASSUME TypeOK, NEW n \in Nodes, NEW left \in [Nodes -> SUBSET Enabled],
           Down(n, left), falls' \in 0..MaxFalls
    PROVE  TypeOK'
<1>1. CASE n = leader
  BY <1>1, ClusterAssumption DEF TypeOK, Down, Activities
<1>2. CASE n # leader
  BY <1>2 DEF TypeOK, Down, cacheVars, moveVars, changeVars
<1> QED BY <1>1, <1>2

\* What a node's cron has afterwards, whatever task it is given.
LEMMA JobsTyped ==
    ASSUME TypeOK, NEW n \in Nodes, NEW t \in CronTasks
    PROVE  /\ With(n, t) \in [Nodes -> SUBSET Enabled]
           /\ Without(n, t) \in [Nodes -> SUBSET Enabled]
           /\ \A ns \in SUBSET Nodes : WithPart(ns, t) \subseteq [Nodes -> SUBSET Enabled]
<1>1. \A m \in Nodes : With(m, t) \in [Nodes -> SUBSET Enabled]
  BY DEF TypeOK, With, Enabled
<1>2. \A ns \in SUBSET Nodes : WithPart(ns, t) \subseteq [Nodes -> SUBSET Enabled]
  BY <1>1 DEF WithPart, TypeOK
<1> QED BY <1>1, <1>2 DEF TypeOK, Without

Places == {"idle", "load", "lists", "move", "assign", "give", "done", "raised"}

\* One activity goes on.
LEMMA GoTyped ==
    ASSUME TypeOK, NEW a \in Activities, NEW from \in Places, NEW to \in Places,
           Go(a, from, to)
    PROVE  /\ pc[a] = from /\ pc'[a] = to
           /\ pc' \in [Activities -> Places]
           /\ \A b \in Activities \ {a} : pc'[b] = pc[b]
BY DEF Go, TypeOK, Places

\* While there is a leader to end, the activities that can raise belong to it.
LEMMA RebalanceTyped ==
    ASSUME TypeOK, Rebalance, leader \in Nodes
    PROVE  TypeOK'
<1>1. CASE StartRebalance
  <2>1. rounds' \in 0..MaxRounds
    BY <1>1, ClusterAssumption DEF StartRebalance, TypeOK
  <2>2. moves' \in SUBSET Pairs /\ stale' \in SUBSET Activities
    BY <1>1 DEF StartRebalance, TypeOK, Activities
  <2>3. \/ Go("rebalance", "idle", "move")
        \/ Go("rebalance", "idle", "load")
    BY <1>1 DEF StartRebalance
  <2>4. /\ pc' \in [Activities -> Places]
        /\ pc["rebalance"] # "assign" /\ pc'["rebalance"] # "assign"
    BY <2>3, GoTyped DEF Places, Activities
  <2> QED
    BY <1>1, <2>1, <2>2, <2>4 DEF StartRebalance, TypeOK, clusterVars, changeVars, Places
<1>2. CASE LoadNodes
  <2>1. nodes' \in SUBSET Nodes /\ loaded' \in SUBSET {"nodes", "table"}
    BY <1>2 DEF LoadNodes, TypeOK
  <2>2. /\ moves' \in SUBSET Pairs /\ stale' \in SUBSET Activities
        /\ ask' \in [Activities -> SUBSET Nodes]
        /\ read' \in [Activities -> SUBSET Pairs]
    <3>1. CASE "table" \in loaded
      BY <1>2, <3>1 DEF LoadNodes, TypeOK, Activities
    <3>2. CASE "table" \notin loaded
      BY <1>2, <2>1, <3>2 DEF LoadNodes, TypeOK
    <3> QED BY <3>1, <3>2
  <2>3. \/ Go("rebalance", "load", "move")
        \/ Go("rebalance", "load", "lists")
    BY <1>2 DEF LoadNodes
  <2>4. /\ pc' \in [Activities -> Places]
        /\ pc["rebalance"] # "assign" /\ pc'["rebalance"] # "assign"
    BY <2>3, GoTyped DEF Places, Activities
  <2> QED
    BY <1>2, <2>1, <2>2, <2>4 DEF LoadNodes, TypeOK, clusterVars, changeVars, Places
<1>3. CASE ReadList("rebalance")
  BY <1>3 DEF ReadList, TypeOK, clusterVars, cacheVars, moveVars, changeVars, Activities,
              Pairs
<1>4. CASE TableRead
  BY <1>4 DEF TableRead, Go, TypeOK, clusterVars, changeVars, Activities
<1>5. CASE RemoveTask
  <2>1. PICK m \in moves : /\ jobs' = Without(m[1], m[2])
                           /\ hand' = m[2]
                           /\ moves' = moves \ {m}
    BY <1>5 DEF RemoveTask
  <2>2. m[1] \in Nodes /\ m[2] \in Enabled
    BY DEF TypeOK, Pairs
  <2>3. jobs' \in [Nodes -> SUBSET Enabled] /\ hand' # None
    BY <2>1, <2>2, JobsTyped, ClusterAssumption DEF Enabled
  <2> QED
    BY <1>5, <2>1, <2>2, <2>3 DEF RemoveTask, Go, TypeOK, cacheVars, changeVars, Activities
<1>6. CASE AssignTask
  <2>1. PICK n \in nodes \cap up : jobs' = With(n, hand)
    BY <1>6 DEF AssignTask
  <2>2. hand \in CronTasks /\ n \in Nodes
    BY <1>6 DEF AssignTask, Go, TypeOK, Enabled
  <2>3. jobs' \in [Nodes -> SUBSET Enabled]
    BY <2>1, <2>2, JobsTyped
  <2> QED BY <1>6, <2>3 DEF AssignTask, Go, TypeOK, cacheVars, changeVars, Activities
<1>7. CASE EndRebalance
  BY <1>7 DEF EndRebalance, Go, TypeOK, clusterVars, cacheVars, moveVars, changeVars,
              Activities
<1>8. CASE RebalanceRaises
  <2>1. falls' \in 0..MaxFalls
    BY <1>8 DEF RebalanceRaises, TypeOK
  <2>2. CASE Down(leader, jobs)
    BY <2>1, <2>2, DownTyped DEF TypeOK
  <2>3. CASE /\ pc["rebalance"] = "assign"
             /\ \E left \in WithPart(nodes \cap up, hand) : Down(leader, left)
    <3>1. PICK left \in WithPart(nodes \cap up, hand) : Down(leader, left)
      BY <2>3
    <3>2. hand \in CronTasks /\ nodes \cap up \in SUBSET Nodes
      BY <2>3 DEF TypeOK, Enabled
    <3>3. left \in [Nodes -> SUBSET Enabled]
      BY <3>1, <3>2, JobsTyped
    <3> QED BY <2>1, <3>1, <3>3, DownTyped
  <2> QED BY <1>8, <2>2, <2>3 DEF RebalanceRaises
<1> QED
  BY <1>1, <1>2, <1>3, <1>4, <1>5, <1>6, <1>7, <1>8 DEF Rebalance

LEMMA ChangeTyped ==
    ASSUME TypeOK, Change
    PROVE  TypeOK'
<1>1. CASE StartChange
  BY <1>1 DEF StartChange, Go, TypeOK, clusterVars, cacheVars, moveVars, Activities
<1>2. CASE ReadList("change")
  BY <1>2 DEF ReadList, TypeOK, clusterVars, cacheVars, moveVars, changeVars, Activities,
              Pairs
<1>3. CASE FindMissing
  BY <1>3 DEF FindMissing, Go, TypeOK, clusterVars, cacheVars, moveVars, Activities
<1>4. CASE GiveTask
  <2>1. PICK t \in missing \ Broken, n \in given \cap up :
          jobs' = With(n, t) /\ missing' = missing \ {t}
    BY <1>4 DEF GiveTask
  <2>2. jobs' \in [Nodes -> SUBSET Enabled]
    BY <2>1, JobsTyped DEF TypeOK
  <2> QED BY <1>4, <2>1, <2>2 DEF GiveTask, TypeOK, cacheVars, moveVars, Activities
<1>5. CASE EndChange
  BY <1>5 DEF EndChange, Go, TypeOK, clusterVars, moveVars, changeVars, Activities
<1>6. CASE ChangeRaises
  <2>1. CASE UNCHANGED <<jobs, stale>>
    BY <1>6, <2>1 DEF ChangeRaises, Go, TypeOK, cacheVars, moveVars, changeVars, Activities
  <2>2. CASE /\ Go("change", "give", "raised")
             /\ \E t \in missing \cap Broken : jobs' \in WithPart(given \cap up, t)
             /\ stale' = stale \cup {"rebalance"}
    <3>1. PICK t \in missing \cap Broken : jobs' \in WithPart(given \cap up, t)
      BY <2>2
    <3>2. t \in CronTasks /\ given \cap up \in SUBSET Nodes
      BY DEF TypeOK
    <3>3. jobs' \in [Nodes -> SUBSET Enabled]
      <4>1. \A m \in Nodes : With(m, t) \in [Nodes -> SUBSET Enabled]
        BY <3>2, JobsTyped
      <4> QED BY <3>1, <3>2, <4>1 DEF WithPart, TypeOK
    <3> QED
      BY <1>6, <2>2, <3>3 DEF ChangeRaises, Go, TypeOK, cacheVars, moveVars, changeVars,
                              Activities
  <2> QED BY <1>6, <2>1, <2>2 DEF ChangeRaises
<1> QED
  BY <1>1, <1>2, <1>3, <1>4, <1>5, <1>6 DEF Change

\* What can raise belongs to a leader.
LeaderActs == leader = None => \A a \in Activities : pc[a] = "idle"

LEMMA NextTyped ==
    ASSUME TypeOK, LeaderActs, [Next]_vars
    PROVE  TypeOK' /\ LeaderActs'
<1>1. CASE UNCHANGED vars
  BY <1>1 DEF TypeOK, LeaderActs, vars, clusterVars, cacheVars, moveVars, changeVars
<1>2. CASE Rebalance
  <2>1. leader \in Nodes
    BY <1>2 DEF Rebalance, StartRebalance, LoadNodes, ReadList, TableRead, RemoveTask,
                AssignTask, EndRebalance, RebalanceRaises, Go, LeaderActs, TypeOK, Activities
  <2>2. leader' = leader \/ \A a \in Activities : pc'[a] = "idle"
    BY <1>2 DEF Rebalance, StartRebalance, LoadNodes, ReadList, TableRead, RemoveTask,
                AssignTask, EndRebalance, RebalanceRaises, Down, clusterVars
  <2> QED BY <1>2, <2>1, <2>2, RebalanceTyped, ClusterAssumption DEF LeaderActs
<1>3. CASE Change
  <2>1. leader \in Nodes /\ leader' = leader
    BY <1>3 DEF Change, StartChange, ReadList, FindMissing, GiveTask, EndChange,
                ChangeRaises, Go, LeaderActs, TypeOK, Activities, clusterVars
  <2> QED BY <1>3, <2>1, ChangeTyped, ClusterAssumption DEF LeaderActs
<1>4. ASSUME NEW n \in Nodes, Crash(n) PROVE TypeOK' /\ LeaderActs'
  <2>1. falls' \in 0..MaxFalls
    BY <1>4, ClusterAssumption DEF Crash, TypeOK
  <2>2. TypeOK'
    BY <1>4, <2>1, DownTyped DEF Crash, TypeOK
  <2>3. leader' = leader \/ \A a \in Activities : pc'[a] = "idle"
    BY <1>4 DEF Crash, Down
  <2>4. leader' = leader => pc' = pc
    BY <1>4, ClusterAssumption DEF Crash, Down
  <2> QED BY <2>2, <2>3, <2>4 DEF LeaderActs
<1>5. ASSUME NEW n \in Nodes, Restart(n) PROVE TypeOK' /\ LeaderActs'
  BY <1>5 DEF Restart, TypeOK, LeaderActs, cacheVars, moveVars, changeVars
<1>6. ASSUME NEW n \in Nodes, Elect(n) PROVE TypeOK' /\ LeaderActs'
  BY <1>6, ClusterAssumption DEF Elect, TypeOK, LeaderActs, cacheVars, moveVars, changeVars
<1> QED BY <1>1, <1>2, <1>3, <1>4, <1>5, <1>6 DEF Next

\* The types hold, and the activities are those of a leader.
LEMMA TypeAndLeader == Spec => [](TypeOK /\ LeaderActs)
<1>1. Init => TypeOK /\ LeaderActs
  BY ClusterAssumption DEF Init, TypeOK, LeaderActs, Activities
<1>2. TypeOK /\ LeaderActs /\ [Next]_vars => TypeOK' /\ LeaderActs'
  BY NextTyped
<1> QED BY <1>1, <1>2, PTL DEF Spec

\* Every variable keeps its type, and a rebalance has a task in hand exactly between
\* its two calls.
THEOREM TypeCorrect == Spec => []TypeOK
BY TypeAndLeader, PTL

-----------------------------------------------------------------------------
(* A node change covers every task.                                        *)

Placed(t) == NodesOf(t) # {} \/ hand = t

\* Jobs that only grow lose no task.
LEMMA GrowingPlaces ==
    ASSUME NEW t \in Enabled, Placed(t), hand' = hand,
           \A n \in Nodes : jobs[n] \subseteq jobs'[n]
    PROVE  Placed(t)'
BY DEF Placed, NodesOf

\* A node keeps what it has when it is given a task.
LEMMA WithGrows ==
    ASSUME TypeOK, NEW t \in CronTasks, NEW n \in Nodes
    PROVE  /\ \A m \in Nodes : jobs[m] \subseteq With(n, t)[m]
           /\ t \in Enabled => t \in With(n, t)[n]
BY DEF TypeOK, With, Enabled

\* A task that is on a node or in hand stays so, whatever the two activities do,
\* until a node ends.
LEMMA PlacedStays ==
    ASSUME TypeOK, [Next]_vars, stale' # Activities,
           NEW t \in Enabled, Placed(t)
    PROVE  Placed(t)'
<1>1. CASE jobs' = jobs /\ hand' = hand
  BY <1>1 DEF Placed, NodesOf
<1>2. CASE RemoveTask
  <2>1. PICK m \in moves : jobs' = Without(m[1], m[2]) /\ hand' = m[2]
    BY <1>2 DEF RemoveTask
  <2>2. hand = None /\ t # None
    BY <1>2, ClusterAssumption DEF RemoveTask, Go, TypeOK, Enabled
  <2>3. CASE t # m[2]
    <3>1. PICK n \in Nodes : t \in jobs[n]
      BY <2>2 DEF Placed, NodesOf
    <3>2. t \in jobs'[n]
      BY <2>1, <2>3, <3>1 DEF Without, TypeOK
    <3> QED BY <3>1, <3>2 DEF Placed, NodesOf
  <2> QED BY <2>1, <2>3 DEF Placed
<1>3. CASE AssignTask
  <2>1. PICK n \in nodes \cap up : jobs' = With(n, hand)
    BY <1>3 DEF AssignTask
  <2>2. n \in Nodes /\ hand \in Enabled
    BY <1>3 DEF AssignTask, Go, TypeOK
  <2>3. /\ hand \in jobs'[n]
        /\ \A m \in Nodes : jobs[m] \subseteq jobs'[m]
    BY <2>1, <2>2, WithGrows DEF Enabled
  <2> QED BY <2>2, <2>3 DEF Placed, NodesOf
<1>4. CASE GiveTask
  <2>1. PICK u \in missing \ Broken, n \in given \cap up : jobs' = With(n, u)
    BY <1>4 DEF GiveTask
  <2>2. \A m \in Nodes : jobs[m] \subseteq jobs'[m]
    BY <2>1, WithGrows DEF TypeOK
  <2> QED BY <1>4, <2>2, GrowingPlaces DEF GiveTask, moveVars
<1>5. CASE ChangeRaises /\ jobs' # jobs
  <2>1. PICK u \in missing \cap Broken : jobs' \in WithPart(given \cap up, u)
    BY <1>5 DEF ChangeRaises
  <2>2. u \in CronTasks /\ given \cap up \subseteq Nodes
    BY DEF TypeOK
  <2>3. PICK n \in given \cap up : jobs' = With(n, u)
    BY <1>5, <2>1 DEF WithPart
  <2>4. \A m \in Nodes : jobs[m] \subseteq jobs'[m]
    BY <2>2, <2>3, WithGrows
  <2> QED BY <1>5, <2>4, GrowingPlaces DEF ChangeRaises, moveVars
<1>6. \/ jobs' = jobs /\ hand' = hand
      \/ RemoveTask \/ AssignTask \/ GiveTask
      \/ ChangeRaises /\ jobs' # jobs
  <2>1. CASE UNCHANGED vars
    BY <2>1 DEF vars, clusterVars, moveVars
  <2>2. CASE Rebalance
    <3>1. StartRebalance \/ LoadNodes \/ TableRead \/ EndRebalance
            => jobs' = jobs /\ hand' = hand
      BY DEF StartRebalance, LoadNodes, TableRead, EndRebalance, clusterVars, moveVars
    <3>2. ReadList("rebalance") => jobs' = jobs /\ hand' = hand
      BY DEF ReadList, clusterVars, moveVars
    <3>3. CASE RebalanceRaises
      BY <3>3 DEF RebalanceRaises, Down
    <3> QED BY <2>2, <3>1, <3>2, <3>3 DEF Rebalance
  <2>3. CASE Change
    <3>1. StartChange \/ FindMissing \/ EndChange => jobs' = jobs /\ hand' = hand
      BY DEF StartChange, FindMissing, EndChange, clusterVars, moveVars
    <3>2. ReadList("change") => jobs' = jobs /\ hand' = hand
      BY DEF ReadList, clusterVars, moveVars
    <3>3. ChangeRaises => hand' = hand
      BY DEF ChangeRaises, moveVars
    <3> QED BY <2>3, <3>1, <3>2, <3>3 DEF Change
  <2>4. CASE \E n \in Nodes : Crash(n) \/ Restart(n) \/ Elect(n)
    BY <2>4 DEF Crash, Down, Restart, Elect, moveVars
  <2> QED BY <2>1, <2>2, <2>3, <2>4 DEF Next
<1> QED BY <1>1, <1>2, <1>3, <1>4, <1>5, <1>6

\* What a node change knows: the tasks it has read of, and at the end all but those it
\* still has to give away, are on a node or in hand.
CoverInv ==
    "change" \notin stale =>
      /\ pc["change"] \in {"lists", "give"} => \A m \in read["change"] : Placed(m[2])
      /\ pc["change"] = "give" => \A t \in Enabled \ missing : Placed(t)
      /\ pc["change"] = "done" => \A t \in Enabled : Placed(t)

\* Every step keeps what the node change knows.
LEMMA CoverNext ==
    ASSUME TypeOK, TypeOK', CoverInv, [Next]_vars
    PROVE  CoverInv'
<1> SUFFICES ASSUME "change" \notin stale' PROVE CoverInv'
  BY DEF CoverInv
<1>1. \A t \in Enabled : Placed(t) => Placed(t)'
  BY PlacedStays DEF Activities
<1>2. \A m \in read["change"] : m[2] \in Enabled
  BY DEF TypeOK, Activities, Pairs
<1>3. CASE StartChange
  <2>1. pc'["change"] = "lists" /\ read'["change"] = {}
    BY <1>3 DEF StartChange, Go, TypeOK, Activities
  <2> QED BY <2>1 DEF CoverInv
<1>4. CASE ReadList("change")
  <2>1. PICK n \in Nodes : read'["change"] = read["change"] \cup ({n} \X jobs[n])
    BY <1>4 DEF ReadList, TypeOK, Activities
  <2>2. /\ pc["change"] = "lists" /\ pc' = pc
        /\ jobs' = jobs /\ hand' = hand /\ stale' = stale
    BY <1>4 DEF ReadList, clusterVars, moveVars
  <2>3. \A m \in {n} \X jobs[n] : Placed(m[2])'
    BY <2>1, <2>2 DEF Placed, NodesOf
  <2> QED BY <1>1, <1>2, <2>1, <2>2, <2>3 DEF CoverInv
<1>5. CASE FindMissing
  <2>1. /\ pc["change"] = "lists" /\ pc'["change"] = "give"
        /\ read' = read /\ stale' = stale
        /\ missing' = {t \in CronTasks : \A n \in Nodes : <<n, t>> \notin read["change"]}
    BY <1>5 DEF FindMissing, Go, TypeOK, Activities
  <2>2. \A t \in Enabled \ missing' : Placed(t)
    <3>1. \A t \in Enabled \ missing' : \E n \in Nodes : <<n, t>> \in read["change"]
      BY <2>1 DEF Enabled
    <3>2. \A m \in read["change"] : Placed(m[2])
      BY <2>1 DEF CoverInv
    <3> QED BY <3>1, <3>2
  <2> QED BY <1>1, <1>2, <2>1, <2>2 DEF CoverInv
<1>6. CASE GiveTask
  <2>1. PICK t \in missing \ Broken, n \in given \cap up :
          jobs' = With(n, t) /\ missing' = missing \ {t}
    BY <1>6 DEF GiveTask
  <2>2. t \in CronTasks /\ n \in Nodes
    BY <2>1 DEF TypeOK
  <2>3. t \in Enabled => Placed(t)'
    BY <2>1, <2>2, WithGrows DEF Placed, NodesOf
  <2>4. /\ pc["change"] = "give" /\ pc' = pc /\ read' = read
        /\ "change" \notin stale
    BY <1>6 DEF GiveTask
  <2> QED BY <1>1, <1>2, <2>1, <2>3, <2>4 DEF CoverInv
<1>7. CASE EndChange
  <2>1. /\ pc["change"] = "give" /\ pc'["change"] = "done"
        /\ missing = {} /\ "change" \notin stale
    BY <1>7 DEF EndChange, Go, TypeOK, Activities
  <2> QED BY <1>1, <2>1 DEF CoverInv
<1>8. CASE ChangeRaises
  <2>1. pc'["change"] = "raised"
    BY <1>8 DEF ChangeRaises, Go, TypeOK, Activities
  <2> QED BY <2>1 DEF CoverInv
<1>9. CASE Rebalance
  <2>1. CASE RebalanceRaises
    BY <2>1 DEF RebalanceRaises, Down, Activities
  <2>2. CASE ~RebalanceRaises
    <3>1. /\ pc'["change"] = pc["change"] /\ read'["change"] = read["change"]
          /\ missing' = missing
          /\ "change" \notin stale
      <4>1. CASE StartRebalance \/ LoadNodes
        BY <4>1 DEF StartRebalance, LoadNodes, Go, TypeOK, Activities, changeVars
      <4>2. CASE ReadList("rebalance")
        BY <4>2 DEF ReadList, TypeOK, Activities, changeVars
      <4>3. CASE TableRead \/ RemoveTask \/ AssignTask \/ EndRebalance
        BY <4>3 DEF TableRead, RemoveTask, AssignTask, EndRebalance, Go, TypeOK,
                    Activities, changeVars
      <4> QED BY <1>9, <2>2, <4>1, <4>2, <4>3 DEF Rebalance
    <3> QED BY <1>1, <1>2, <3>1 DEF CoverInv
  <2> QED BY <2>1, <2>2
<1>10. CASE \E n \in Nodes : Crash(n)
  BY <1>10 DEF Crash, Down, Activities
<1>11. CASE UNCHANGED <<pc, read, missing, stale>>
  BY <1>1, <1>2, <1>11 DEF CoverInv
<1> QED
  BY <1>3, <1>4, <1>5, <1>6, <1>7, <1>8, <1>9, <1>10, <1>11
     DEF Next, Change, Restart, Elect, vars, changeVars

\* When scheduler_node_change has returned and no node has ended meanwhile, every
\* task that is not disabled is on some node or in the hand of a rebalance.
THEOREM ChangeCovers == Spec => []CoveredAfterChange
<1>1. Init => CoverInv
  BY DEF Init, CoverInv, Activities
<1>2. TypeOK /\ TypeOK' /\ CoverInv /\ [Next]_vars => CoverInv'
  BY CoverNext
<1>3. CoverInv => CoveredAfterChange
  BY DEF CoverInv, CoveredAfterChange, Placed
<1> QED BY <1>1, <1>2, <1>3, TypeCorrect, PTL DEF Spec

-----------------------------------------------------------------------------
(* The first rebalance keeps every task on one node.                       *)

Fresh == "rebalance" \notin stale
BothLoaded == loaded = {"nodes", "table"}

JobsUp == \A n \in Nodes \ up : jobs[n] = {}

\* What is loaded at each await of the rebalance.
LoadInv ==
    /\ loaded = {"nodes"} => pc["rebalance"] = "lists"
    /\ pc["rebalance"] = "load" => "nodes" \notin loaded
    /\ Fresh /\ pc["rebalance"] = "lists" => loaded = {"nodes"}

\* The lists read so far are those of the nodes now, and no other node has jobs.
ReadInv ==
    Fresh /\ pc["rebalance"] = "lists" =>
      /\ \A n \in Nodes \ nodes : jobs[n] = {}
      /\ \A n \in Nodes, t \in Enabled :
           <<n, t>> \in read["rebalance"] <=>
             n \in nodes \ ask["rebalance"] /\ t \in jobs[n]

\* A task of one node is still there, in hand, or on the one node it has moved to.
KeptAtOne(n, t) ==
    IF hand = t
      THEN NodesOf(t) = {} /\ <<n, t>> \notin moves
      ELSE \E m \in Nodes : NodesOf(t) = {m} /\ (<<n, t>> \in moves => m = n)

MoveInv ==
    Fresh /\ BothLoaded =>
      /\ moves \subseteq table
      /\ \A t \in Enabled, n \in Nodes : ListedAt(t) = {n} => KeptAtOne(n, t)

\* A node that is down has no jobs.
LEMMA JobsUpNext ==
    ASSUME TypeOK, LeaderActs, JobsUp, [Next]_vars
    PROVE  JobsUp'
<1>1. \A n \in up, t \in CronTasks : \A m \in Nodes \ up : With(n, t)[m] = {}
  BY DEF JobsUp, With, TypeOK
<1>2. \A ns \in SUBSET Nodes, t \in CronTasks :
        \A left \in WithPart(ns \cap up, t), m \in Nodes \ up : left[m] = {}
  BY <1>1 DEF WithPart, JobsUp
<1>3. ASSUME NEW n \in Nodes, NEW left \in [Nodes -> SUBSET Enabled], Down(n, left),
             \A m \in Nodes \ up : left[m] = {}
      PROVE  JobsUp'
  BY <1>3 DEF Down, JobsUp
<1>4. CASE RemoveTask
  <2>1. PICK m \in moves : jobs' = Without(m[1], m[2])
    BY <1>4 DEF RemoveTask
  <2>2. \A n \in Nodes : jobs'[n] \subseteq jobs[n]
    BY <2>1 DEF Without, TypeOK
  <2> QED BY <1>4, <2>2 DEF RemoveTask, JobsUp
<1>5. CASE AssignTask
  BY <1>1, <1>5 DEF AssignTask, Go, TypeOK, Enabled, JobsUp
<1>6. CASE GiveTask
  BY <1>1, <1>6 DEF GiveTask, TypeOK, JobsUp
<1>7. CASE ChangeRaises
  <2>1. CASE jobs' = jobs
    BY <1>7, <2>1 DEF ChangeRaises, JobsUp
  <2>2. CASE \E t \in missing \cap Broken : jobs' \in WithPart(given \cap up, t)
    BY <1>2, <1>7, <2>2 DEF ChangeRaises, JobsUp, TypeOK
  <2> QED BY <1>7, <2>1, <2>2 DEF ChangeRaises
<1>8. CASE RebalanceRaises /\ leader \in Nodes
  <2>1. CASE Down(leader, jobs)
    BY <1>3, <1>8, <2>1 DEF TypeOK, JobsUp
  <2>2. CASE /\ pc["rebalance"] = "assign"
             /\ \E left \in WithPart(nodes \cap up, hand) : Down(leader, left)
    <3>1. PICK left \in WithPart(nodes \cap up, hand) : Down(leader, left)
      BY <2>2
    <3>2. hand \in CronTasks /\ nodes \in SUBSET Nodes /\ nodes \cap up \in SUBSET Nodes
      BY <2>2 DEF TypeOK, Enabled
    <3>3. left \in [Nodes -> SUBSET Enabled]
      BY <1>8, <3>1, <3>2, JobsTyped
    <3>4. \A m \in Nodes \ up : left[m] = {}
      BY <1>2, <3>1, <3>2
    <3> QED BY <1>3, <1>8, <3>1, <3>3, <3>4
  <2> QED BY <1>8, <2>1, <2>2 DEF RebalanceRaises
<1>9. ASSUME NEW n \in Nodes, Crash(n) PROVE JobsUp'
  BY <1>3, <1>9 DEF Crash, TypeOK, JobsUp
<1>10. CASE up \subseteq up' /\ jobs' = jobs
  BY <1>10 DEF JobsUp
<1>11. CASE Rebalance
  <2>1. RebalanceRaises => leader \in Nodes
    BY DEF RebalanceRaises, Down, TypeOK, LeaderActs, Activities
  <2> QED
    BY <1>4, <1>5, <1>8, <1>10, <1>11, <2>1
       DEF Rebalance, StartRebalance, LoadNodes, ReadList, TableRead, EndRebalance, clusterVars
<1>12. CASE Change
  BY <1>6, <1>7, <1>10, <1>12 DEF Change, StartChange, ReadList, FindMissing, EndChange,
                                  clusterVars
<1> QED
  BY <1>9, <1>10, <1>11, <1>12 DEF Next, Restart, Elect, vars, clusterVars

\* A step of the node change leaves the rebalance at its await, one that is not of the
\* rebalance leaves what it holds alone, and what moves a task outdates the lists.
LEMMA OtherSteps ==
    ASSUME TypeOK, [Next]_vars, ~Rebalance, Fresh'
    PROVE  /\ pc'["rebalance"] = pc["rebalance"]
           /\ ask'["rebalance"] = ask["rebalance"]
           /\ read'["rebalance"] = read["rebalance"]
           /\ UNCHANGED <<jobs, cacheVars, moveVars>>
           /\ Fresh
<1>1. CASE UNCHANGED vars
  BY <1>1 DEF vars, clusterVars, Fresh
<1>2. CASE StartChange
  BY <1>2 DEF StartChange, Go, TypeOK, Activities, clusterVars, Fresh
<1>3. CASE ReadList("change")
  BY <1>3 DEF ReadList, TypeOK, Activities, clusterVars, Fresh
<1>4. CASE FindMissing
  BY <1>4 DEF FindMissing, Go, TypeOK, Activities, clusterVars, Fresh
<1>5. CASE GiveTask \/ EndChange
  BY <1>5 DEF GiveTask, EndChange, Fresh
<1>6. CASE ChangeRaises
  BY <1>6 DEF ChangeRaises, Go, TypeOK, Activities, clusterVars, Fresh
<1>7. CASE \E n \in Nodes : Crash(n) \/ Restart(n) \/ Elect(n)
  BY <1>7 DEF Crash, Down, Restart, Elect, Activities, Fresh
<1> QED BY <1>1, <1>2, <1>3, <1>4, <1>5, <1>6, <1>7 DEF Next, Change

\* The rebalance has what its await needs.
LEMMA LoadNext ==
    ASSUME TypeOK, LoadInv, [Next]_vars
    PROVE  LoadInv'
<1>1. CASE StartRebalance
  <2>1. pc["rebalance"] = "idle" /\ pc'["rebalance"] \in {"move", "load"} /\ loaded' = loaded
    BY <1>1 DEF StartRebalance, Go, TypeOK, Activities
  <2>2. pc'["rebalance"] = "load" => loaded # {"nodes", "table"}
    BY <1>1 DEF StartRebalance, Go, TypeOK, Activities
  <2> QED BY <2>1, <2>2 DEF LoadInv, TypeOK
<1>2. CASE LoadNodes
  <2>1. "nodes" \notin loaded /\ loaded' = loaded \cup {"nodes"}
    BY <1>2 DEF LoadNodes, Go, LoadInv
  <2>2. pc'["rebalance"] = IF "table" \in loaded THEN "move" ELSE "lists"
    BY <1>2 DEF LoadNodes, Go, TypeOK, Activities
  <2> QED BY <2>1, <2>2 DEF LoadInv, TypeOK
<1>3. CASE ReadList("rebalance") \/ UNCHANGED vars
  BY <1>3 DEF ReadList, LoadInv, Fresh, vars, cacheVars
<1>4. CASE TableRead \/ RemoveTask \/ AssignTask \/ EndRebalance
  BY <1>4 DEF TableRead, RemoveTask, AssignTask, EndRebalance, Go, TypeOK, Activities,
              LoadInv, cacheVars
<1>5. CASE RebalanceRaises
  BY <1>5 DEF RebalanceRaises, Down, LoadInv, Activities
<1>6. CASE Change
  <2>1. /\ pc'["rebalance"] = pc["rebalance"]
        /\ loaded' = loaded \/ (loaded' = loaded \cup {"table"} /\ ~Fresh')
        /\ Fresh' => Fresh
    <3>1. CASE StartChange
      BY <3>1 DEF StartChange, Go, TypeOK, Activities, cacheVars, Fresh
    <3>2. CASE ReadList("change")
      BY <3>2 DEF ReadList, cacheVars, Fresh
    <3>3. CASE FindMissing
      BY <3>3 DEF FindMissing, Go, TypeOK, Activities, cacheVars, Fresh
    <3>4. CASE GiveTask
      BY <3>4 DEF GiveTask, cacheVars, Fresh
    <3>5. CASE EndChange
      BY <3>5 DEF EndChange, Go, TypeOK, Activities, Fresh
    <3>6. CASE ChangeRaises
      BY <3>6 DEF ChangeRaises, Go, TypeOK, Activities, cacheVars, Fresh
    <3> QED BY <1>6, <3>1, <3>2, <3>3, <3>4, <3>5, <3>6 DEF Change
  <2> QED BY <2>1 DEF LoadInv
<1>7. CASE \E n \in Nodes : Crash(n)
  BY <1>7 DEF Crash, Down, LoadInv, Fresh, Activities, cacheVars
<1>8. CASE \E n \in Nodes : Restart(n) \/ Elect(n)
  BY <1>8 DEF Restart, Elect, LoadInv, Fresh, cacheVars
<1> QED BY <1>1, <1>2, <1>3, <1>4, <1>5, <1>6, <1>7, <1>8 DEF Next, Rebalance

\* The lists read stay right while they are read.
LEMMA ReadNext ==
    ASSUME TypeOK, JobsUp, LoadInv, ReadInv, [Next]_vars
    PROVE  ReadInv'
<1> SUFFICES ASSUME Fresh', pc'["rebalance"] = "lists"
             PROVE  /\ \A n \in Nodes \ nodes' : jobs'[n] = {}
                    /\ \A n \in Nodes, t \in Enabled :
                         <<n, t>> \in read'["rebalance"] <=>
                           n \in nodes' \ ask'["rebalance"] /\ t \in jobs'[n]
  BY DEF ReadInv, Fresh
<1>1. CASE ~Rebalance
  <2>1. /\ pc["rebalance"] = "lists" /\ Fresh
        /\ ask'["rebalance"] = ask["rebalance"] /\ read'["rebalance"] = read["rebalance"]
        /\ jobs' = jobs /\ nodes' = nodes
    BY <1>1, OtherSteps DEF cacheVars
  <2> QED BY <2>1 DEF ReadInv
<1>2. CASE LoadNodes
  <2>1. Go("rebalance", "load", "lists") /\ nodes' = up
    BY <1>2 DEF LoadNodes, LoadInv, Go, TypeOK, Activities
  <2>2. ask'["rebalance"] = up /\ read'["rebalance"] = {} /\ jobs' = jobs
    BY <1>2, <2>1 DEF LoadNodes, Go, TypeOK, Activities, clusterVars
  <2> QED BY <2>1, <2>2 DEF JobsUp
<1>3. CASE ReadList("rebalance")
  <2>1. PICK n \in ask["rebalance"] \cap up :
          /\ read'["rebalance"] = read["rebalance"] \cup ({n} \X jobs[n])
          /\ ask'["rebalance"] = ask["rebalance"] \ {n}
    BY <1>3 DEF ReadList, TypeOK, Activities
  <2>2. /\ pc["rebalance"] = "lists" /\ Fresh
        /\ jobs' = jobs /\ nodes' = nodes
    BY <1>3 DEF ReadList, Fresh, clusterVars, cacheVars
  <2>3. n \in Nodes /\ (jobs[n] # {} => n \in nodes)
    BY <2>1, <2>2 DEF TypeOK, ReadInv
  <2> QED BY <2>1, <2>2, <2>3 DEF ReadInv
<1>4. CASE RebalanceRaises
  BY <1>4 DEF RebalanceRaises, Down, Activities, Fresh
<1>5. CASE StartRebalance \/ TableRead \/ RemoveTask \/ AssignTask \/ EndRebalance
  BY <1>5 DEF StartRebalance, TableRead, RemoveTask, AssignTask, EndRebalance, Go, TypeOK,
              Activities
<1> QED BY <1>1, <1>2, <1>3, <1>4, <1>5 DEF Rebalance

\* What has been read is what there is when the moves begin.
LEMMA MoveBegins ==
    ASSUME TypeOK, LoadInv, ReadInv, TableRead, Fresh'
    PROVE  MoveInv'
<1>1. /\ pc["rebalance"] = "lists" /\ Fresh
      /\ jobs' = jobs /\ hand' = hand /\ hand = None
      /\ table' = read["rebalance"] /\ moves' = table'
      /\ ask["rebalance"] = {}
  BY DEF TableRead, Go, Fresh, TypeOK, clusterVars
<1>2. \A n \in Nodes, t \in Enabled : <<n, t>> \in table' <=> t \in jobs'[n]
  BY <1>1 DEF ReadInv
<1>3. \A t \in Enabled : ListedAt(t)' = NodesOf(t)'
  BY <1>2 DEF ListedAt, NodesOf
<1>4. \A t \in Enabled : hand' # t
  BY <1>1, ClusterAssumption DEF Enabled
<1> QED BY <1>1, <1>3, <1>4 DEF MoveInv, KeptAtOne

LEMMA MoveNext ==
    ASSUME TypeOK, JobsUp, LoadInv, ReadInv, MoveInv, [Next]_vars
    PROVE  MoveInv'
<1> SUFFICES ASSUME Fresh', BothLoaded' PROVE MoveInv'
  BY DEF MoveInv
<1>1. CASE ~Rebalance
  <2>1. Fresh /\ UNCHANGED <<jobs, loaded, table, moves, hand>>
    BY <1>1, OtherSteps DEF cacheVars, moveVars
  <2> QED BY <2>1 DEF MoveInv, BothLoaded, KeptAtOne, NodesOf, ListedAt
<1>2. CASE StartRebalance \/ LoadNodes
  BY <1>2 DEF StartRebalance, LoadNodes, BothLoaded, Fresh
<1>3. CASE ReadList("rebalance")
  <2>1. UNCHANGED <<jobs, loaded, table, moves, hand, stale>>
    BY <1>3 DEF ReadList, clusterVars, cacheVars, moveVars
  <2> QED BY <2>1 DEF MoveInv, BothLoaded, Fresh, KeptAtOne, NodesOf, ListedAt
<1>4. CASE TableRead
  BY <1>4, MoveBegins
<1>5. CASE RemoveTask
  <2>1. PICK m \in moves : /\ jobs' = Without(m[1], m[2])
                           /\ hand' = m[2]
                           /\ moves' = moves \ {m}
    BY <1>5 DEF RemoveTask
  <2>2. PICK k \in Nodes, u \in Enabled : m = <<k, u>>
    BY DEF TypeOK, Pairs
  <2>3. hand = None /\ UNCHANGED <<loaded, table, stale>>
    BY <1>5 DEF RemoveTask, Go, TypeOK, cacheVars
  <2>4. moves \subseteq table /\ MoveInv /\ Fresh /\ BothLoaded
    BY <2>3 DEF MoveInv, Fresh, BothLoaded
  <2>5. ASSUME NEW t \in Enabled, NEW n \in Nodes, ListedAt(t)' = {n}
        PROVE  KeptAtOne(n, t)'
    <3>1. hand # t /\ ListedAt(t) = {n} /\ KeptAtOne(n, t)
      BY <2>3, <2>4, <2>5, ClusterAssumption DEF ListedAt, MoveInv, Enabled
    <3>2. PICK i \in Nodes : NodesOf(t) = {i} /\ (<<n, t>> \in moves => i = n)
      BY <3>1 DEF KeptAtOne
    <3>3. CASE t = u
      <4>1. k = n
        BY <2>2, <2>4, <3>1, <3>3 DEF ListedAt
      <4>2. NodesOf(t)' = {}
        BY <2>1, <2>2, <3>2, <3>3, <4>1 DEF NodesOf, Without, TypeOK
      <4> QED BY <2>1, <2>2, <3>3, <4>1, <4>2 DEF KeptAtOne
    <3>4. CASE t # u
      <4>1. NodesOf(t)' = NodesOf(t)
        BY <2>1, <2>2, <3>4 DEF NodesOf, Without, TypeOK
      <4> QED BY <2>1, <2>2, <3>2, <3>4, <4>1 DEF KeptAtOne
    <3> QED BY <3>3, <3>4
  <2> QED BY <2>1, <2>3, <2>4, <2>5 DEF MoveInv
<1>6. CASE AssignTask
  <2>1. PICK k \in nodes \cap up : jobs' = With(k, hand)
    BY <1>6 DEF AssignTask
  <2>2. /\ k \in Nodes /\ hand \in Enabled /\ hand' = None
        /\ UNCHANGED <<loaded, table, moves, stale>>
    BY <1>6 DEF AssignTask, Go, TypeOK, cacheVars
  <2>3. MoveInv /\ Fresh /\ BothLoaded /\ moves \subseteq table
    BY <2>2 DEF MoveInv, Fresh, BothLoaded
  <2>4. ASSUME NEW t \in Enabled, NEW n \in Nodes, ListedAt(t)' = {n}
        PROVE  KeptAtOne(n, t)'
    <3>1. hand' # t /\ ListedAt(t) = {n} /\ KeptAtOne(n, t)
      BY <2>2, <2>3, <2>4, ClusterAssumption DEF ListedAt, MoveInv, Enabled
    <3>2. CASE t = hand
      <4>1. NodesOf(t) = {} /\ <<n, t>> \notin moves
        BY <3>1, <3>2 DEF KeptAtOne
      <4>2. NodesOf(t)' = {k}
        BY <2>1, <2>2, <3>2, <4>1 DEF NodesOf, With, TypeOK, Enabled
      <4> QED BY <2>2, <3>1, <4>1, <4>2 DEF KeptAtOne
    <3>3. CASE t # hand
      <4>1. NodesOf(t)' = NodesOf(t)
        BY <2>1, <2>2, <3>3 DEF NodesOf, With, TypeOK
      <4> QED BY <2>2, <3>1, <3>3, <4>1 DEF KeptAtOne
    <3> QED BY <3>2, <3>3
  <2> QED BY <2>2, <2>3, <2>4 DEF MoveInv
<1>7. CASE EndRebalance
  <2>1. UNCHANGED <<jobs, loaded, table, moves, hand, stale>>
    BY <1>7 DEF EndRebalance, clusterVars, cacheVars, moveVars
  <2> QED BY <2>1 DEF MoveInv, BothLoaded, Fresh, KeptAtOne, NodesOf, ListedAt
<1>8. CASE RebalanceRaises
  BY <1>8 DEF RebalanceRaises, Down, Activities, Fresh
<1> QED BY <1>1, <1>2, <1>3, <1>4, <1>5, <1>6, <1>7, <1>8 DEF Rebalance

\* From the reading of the lists on, and until something else moves a task or a node
\* ends, a rebalance neither loses nor doubles a task that was on one node.
THEOREM FirstKeepsOne == Spec => []FirstRebalanceKeepsOne
<1>1. Init => JobsUp /\ LoadInv /\ ReadInv /\ MoveInv
  BY DEF Init, JobsUp, LoadInv, ReadInv, MoveInv, Activities, BothLoaded
<1>2. /\ TypeOK /\ LeaderActs /\ JobsUp /\ LoadInv /\ ReadInv /\ MoveInv /\ [Next]_vars
      => JobsUp' /\ LoadInv' /\ ReadInv' /\ MoveInv'
  BY JobsUpNext, LoadNext, ReadNext, MoveNext
<1>3. TypeOK /\ MoveInv => FirstRebalanceKeepsOne
  <2> SUFFICES ASSUME TypeOK, MoveInv, Fresh, BothLoaded,
                      NEW t \in CronTasks, NEW n \in Nodes, ListedAt(t) = {n}
               PROVE  IF hand = t THEN NodesOf(t) = {} ELSE \E m \in Nodes : NodesOf(t) = {m}
    BY DEF FirstRebalanceKeepsOne, Fresh, BothLoaded
  <2>1. <<n, t>> \in table
    BY DEF ListedAt
  <2>2. t \in Enabled
    BY <2>1 DEF TypeOK, Pairs
  <2> QED BY <2>2 DEF MoveInv, KeptAtOne
<1> QED BY <1>1, <1>2, <1>3, TypeAndLeader, PTL DEF Spec

=============================================================================
