--------------------------- MODULE FunTaskProofs ---------------------------
(***************************************************************************)
(* Proofs about FunTaskManager, for any workers, tasks and callers.        *)
(***************************************************************************)
EXTENDS FunTaskManager, Recursion, SequenceTheorems, TLAPS

Holding == {"check", "report", "enter"} \cup InBlock

\* A dispatched task is in one place only: waiting in the queue of its worker,
\* in the hand of its main thread, or a coroutine of it.
InQueue(w, t) == \E i \in 1..Len(taskQueue[w]) : taskQueue[w][i] = t

OnePlace ==
    /\ \A w \in Workers : \A i \in 1..Len(taskQueue[w]) :
         home[taskQueue[w][i]] = w
    /\ \A w \in Workers : \A i, j \in 1..Len(taskQueue[w]) :
         taskQueue[w][i] = taskQueue[w][j] => i = j
    /\ \A w \in Workers : \A t \in created[w] \cup awaiting[w] :
         home[t] = w /\ ~InQueue(w, t) /\ t # cur[w]
    /\ \A w \in Workers : created[w] \cap awaiting[w] = {}
    /\ \A w \in Workers : cur[w] # None =>
         pc[w] \in Holding /\ home[cur[w]] = w /\ ~InQueue(w, cur[w])

\* What has been said of a task, by where it is.
Started   == <<"RUNNING">>
Succeeded == <<"RUNNING", "SUCCESS">>

SaidAt(w, t) ==
    /\ InQueue(w, t) => said[t] = <<>>
    /\ t \in created[w] \cup awaiting[w] => said[t] = Started
    /\ cur[w] = t =>
         /\ pc[w] \in {"check", "report"} => said[t] = <<>>
         /\ pc[w] \in {"enter", "body", "success", "badexc"} =>
              said[t] = Started
         /\ pc[w] = "leave" => said[t] = Succeeded
         /\ pc[w] = "err" =>
              \/ said[t] = Started
              \/ said[t] = Succeeded /\ Interrupted(t)

SaidByPlace ==
    /\ \A t \in Tasks : home[t] = None => said[t] = <<>>
    /\ \A w \in Workers : \A t \in Tasks : SaidAt(w, t)

\* A raised flag was asked for by a caller of stop_task.
StopsWereAsked ==
    /\ \A w \in Workers : \A i \in 1..Len(controlQueue[w]) :
         controlQueue[w][i] \in asked
    /\ StopsReachTheirOwn
-----------------------------------------------------------------------------
(* Type correctness.                                                       *)

USE DEF mainVars, monitorVars, blockVars, asyncVars, stateVars, queueVars,
        statusVars, workerVars, managerVars, SayNothing, Goto

\* Adding to, and taking from, one of the sets of a function of sets.
LEMMA AddTyped ==
    ASSUME NEW D, NEW S, NEW f \in [D -> SUBSET S], NEW d \in D, NEW e \in S
    PROVE  [f EXCEPT ![d] = @ \cup {e}] \in [D -> SUBSET S]
<1>1. f[d] \cup {e} \in SUBSET S
  OBVIOUS
<1> QED BY <1>1

LEMMA RemoveTyped ==
    ASSUME NEW D, NEW S, NEW f \in [D -> SUBSET S], NEW d \in D, NEW X
    PROVE  [f EXCEPT ![d] = @ \ X] \in [D -> SUBSET S]
<1>1. f[d] \ X \in SUBSET S
  OBVIOUS
<1> QED BY <1>1

\* From "enter" on a plain task is in hand: what TypeOK needs to be inductive.
HandFull ==
    \A w \in Workers : pc[w] \in InBlock \cup {"enter"} =>
      cur[w] \in Tasks \ AsyncTasks

\* While QUEUED is due, the task has its worker.
PendingSent == pending # None => home[pending] \in Workers

\* The initial state is typed.
LEMMA InitTyped == Init => TypeOK
<1> SUFFICES ASSUME Init PROVE TypeOK
  OBVIOUS
<1>1. StatusQueueTypeOK
  <2>1. <<>> \in Seq(Message)
    OBVIOUS
  <2>2. feeder \in [Processes -> Seq(Message)]
    BY <2>1 DEF Init, StatusQueueInit
  <2> QED BY <2>1, <2>2 DEF Init, StatusQueueInit, StatusQueueTypeOK
<1>2. taskQueue \in [Workers -> Seq(Tasks)]
      /\ controlQueue \in [Workers -> Seq(Workers \cup Tasks)]
      /\ said \in [Tasks -> Seq({"RUNNING", "SUCCESS", "ERROR"})]
  BY DEF Init, WorkerInit
<1>3. WorkerTypeOK
  <2>1. /\ state \in [Workers -> SUBSET StateTasks]
        /\ basis \in [StateTasks -> SUBSET StateTasks]
        /\ created \in [Workers -> SUBSET AsyncTasks]
        /\ awaiting \in [Workers -> SUBSET AsyncTasks]
        /\ running \in [Workers -> SUBSET Tasks]
    BY DEF Init, WorkerInit
  <2>2. /\ pc \in [Workers -> PC]
        /\ beats \in [Workers -> Nat]
    BY DEF Init, WorkerInit, PC
  <2>3. /\ cur \in [Workers -> Tasks \cup {None}]
        /\ stopped \in [Workers -> BOOLEAN]
        /\ monitor \in [Workers -> {"watch", "stopping", "ended"}]
        /\ sig \in [Workers -> BOOLEAN]
        /\ armed \in [Workers -> BOOLEAN]
        /\ sandbox \in [Workers -> StateTasks \cup {None}]
        /\ maker \in [Workers -> StateTasks \cup {None}]
    BY DEF Init, WorkerInit
  <2> QED BY <1>2, <2>1, <2>2, <2>3 DEF WorkerTypeOK
<1>4. ManagerTypeOK
  BY DEF Init, ManagerTypeOK
<1> QED BY <1>1, <1>3, <1>4 DEF TypeOK

\* A put keeps the status queue typed.
LEMMA PutTyped ==
    ASSUME TypeOK, NEW p \in Processes, NEW m \in Message, Put(p, m)
    PROVE  StatusQueueTypeOK'
BY DEF Put, TypeOK, StatusQueueTypeOK

\* A report keeps the status queue and the history typed.
LEMMA SayTyped ==
    ASSUME TypeOK, NEW w \in Workers, NEW t \in Tasks,
           NEW s \in {"RUNNING", "SUCCESS", "ERROR"}, Say(w, t, s)
    PROVE  /\ StatusQueueTypeOK'
           /\ said' \in [Tasks -> Seq({"RUNNING", "SUCCESS", "ERROR"})]
<1>1. Report(w, t, s) \in Message
  BY DEF Report, Message, TaskStatus
<1>2. Put(w, Report(w, t, s))
  BY DEF Say
<1>3. StatusQueueTypeOK'
  BY <1>1, <1>2, PutTyped DEF Processes
<1>4. said' \in [Tasks -> Seq({"RUNNING", "SUCCESS", "ERROR"})]
  BY DEF Say, TypeOK, WorkerTypeOK
<1> QED BY <1>3, <1>4

\* Replacing the sandbox keeps the state of the worker typed.
LEMMA PrepareTyped ==
    ASSUME TypeOK, NEW w \in Workers, NEW t \in Tasks, Prepare(w, t)
    PROVE  /\ state' \in [Workers -> SUBSET StateTasks]
           /\ sandbox' \in [Workers -> StateTasks \cup {None}]
           /\ maker' \in [Workers -> StateTasks \cup {None}]
           /\ basis' \in [StateTasks -> SUBSET StateTasks]
<1> USE DEF TypeOK, WorkerTypeOK
<1>1. CASE t \in StateTasks
  <2>1. state[w] \in SUBSET StateTasks
    OBVIOUS
  <2>2. basis' = [basis EXCEPT ![t] = state[w]]
    BY <1>1 DEF Prepare
  <2>3. basis' \in [StateTasks -> SUBSET StateTasks]
    BY <1>1, <2>1, <2>2
  <2> QED BY <1>1, <2>3 DEF Prepare
<1>2. CASE t \notin StateTasks
  BY <1>2 DEF Prepare
<1> QED BY <1>1, <1>2

\* So does installing a new state.
LEMMA InstallTyped ==
    ASSUME TypeOK, NEW w \in Workers, NEW t \in Tasks, Install(w, t)
    PROVE  /\ state' \in [Workers -> SUBSET StateTasks]
           /\ sandbox' \in [Workers -> StateTasks \cup {None}]
           /\ maker' \in [Workers -> StateTasks \cup {None}]
           /\ basis' \in [StateTasks -> SUBSET StateTasks]
<1> USE DEF TypeOK, WorkerTypeOK
<1>1. CASE t \in StateTasks
  <2>1. basis[t] \cup {t} \in SUBSET StateTasks
    BY <1>1
  <2> QED BY <1>1, <2>1 DEF Install
<1>2. CASE t \notin StateTasks
  BY <1>2 DEF Install
<1> QED BY <1>1, <1>2

\* The steps of the main thread keep the types.
LEMMA MainStepTyped ==
    ASSUME TypeOK, HandFull, NEW w \in Workers, MainStep(w),
           UNCHANGED managerVars
    PROVE  TypeOK'
<1> USE DEF TypeOK, StatusQueueTypeOK, WorkerTypeOK, ManagerTypeOK, PC, InBlock
<1>13. ASSUME Forget(w)
      PROVE  /\ cur' \in [Workers -> Tasks \cup {None}]
             /\ running' \in [Workers -> SUBSET Tasks]
  <2>1. running' \in [Workers -> SUBSET Tasks]
    BY <1>13, RemoveTyped DEF Forget
  <2> QED BY <1>13, <2>1 DEF Forget
<1>1. CASE TestStopped(w)
  BY <1>1 DEF TestStopped
<1>2. CASE FindEmpty(w)
  BY <1>2 DEF FindEmpty
<1>3. CASE WakeUp(w)
  BY <1>3 DEF WakeUp
<1>4. CASE CheckStopped(w)
  BY <1>4 DEF CheckStopped
<1>5. CASE ReportRunning(w)
  <2>1. cur[w] \in Tasks /\ Say(w, cur[w], "RUNNING")
    BY <1>5 DEF ReportRunning
  <2>2. /\ StatusQueueTypeOK'
        /\ said' \in [Tasks -> Seq({"RUNNING", "SUCCESS", "ERROR"})]
    BY <2>1, SayTyped
  <2>3. created' \in [Workers -> SUBSET AsyncTasks]
    <3>1. CASE cur[w] \in AsyncTasks
      <4>1. created' = [created EXCEPT ![w] = @ \cup {cur[w]}]
        BY <1>5, <3>1 DEF ReportRunning
      <4>2. created \in [Workers -> SUBSET AsyncTasks]
        OBVIOUS
      <4> QED BY <3>1, <4>1, <4>2, AddTyped
    <3> QED BY <1>5, <3>1 DEF ReportRunning
  <2> QED BY <1>5, <2>1, <2>2, <2>3 DEF ReportRunning
<1>6. CASE EnterKillable(w)
  <2>1. cur[w] \in Tasks
    BY <1>6 DEF EnterKillable, HandFull
  <2>2. running' \in [Workers -> SUBSET Tasks]
    BY <1>6, <2>1, AddTyped DEF EnterKillable
  <2>3. /\ state' \in [Workers -> SUBSET StateTasks]
        /\ sandbox' \in [Workers -> StateTasks \cup {None}]
        /\ maker' \in [Workers -> StateTasks \cup {None}]
        /\ basis' \in [StateTasks -> SUBSET StateTasks]
    <3>1. CASE Prepare(w, cur[w])
      BY <2>1, <3>1, PrepareTyped
    <3>2. CASE UNCHANGED stateVars
      BY <3>2
    <3> QED BY <1>6, <3>1, <3>2 DEF EnterKillable
  <2> QED BY <1>6, <2>2, <2>3 DEF EnterKillable
<1>7. CASE PutSuccess(w)
  <2>1. cur[w] \in Tasks
    BY <1>7 DEF PutSuccess, HandFull
  <2>2. /\ StatusQueueTypeOK'
        /\ said' \in [Tasks -> Seq({"RUNNING", "SUCCESS", "ERROR"})]
    BY <1>7, <2>1, SayTyped DEF PutSuccess
  <2> QED BY <1>7, <2>2 DEF PutSuccess
<1>8. CASE LeaveKillable(w)
  BY <1>13, <1>8 DEF LeaveKillable, Forget
<1>9. CASE ReportError(w)
  <2>1. cur[w] \in Tasks
    BY <1>9 DEF ReportError, HandFull
  <2>2. /\ StatusQueueTypeOK'
        /\ said' \in [Tasks -> Seq({"RUNNING", "SUCCESS", "ERROR"})]
    BY <1>9, <2>1, SayTyped DEF ReportError
  <2> QED BY <1>13, <1>9, <2>2 DEF ReportError, Forget
<1>10. CASE ErrorNotReported(w)
  BY <1>13, <1>10 DEF ErrorNotReported, Forget
<1>11. CASE CloseFeeder(w)
  BY <1>11 DEF CloseFeeder
<1>12. CASE Exit(w)
  BY <1>12 DEF Exit
<1>14. CASE CancelCoroutines(w)
  <2>1. running' \in [Workers -> SUBSET Tasks]
    BY <1>14, RemoveTyped DEF CancelCoroutines
  <2> QED BY <1>14, <2>1 DEF CancelCoroutines
<1>15. CASE TimeoutRefused(w)
  <2>1. cur[w] \in Tasks
    BY <1>15 DEF TimeoutRefused, HandFull
  <2>2. /\ StatusQueueTypeOK'
        /\ said' \in [Tasks -> Seq({"RUNNING", "SUCCESS", "ERROR"})]
    BY <1>15, <2>1, SayTyped DEF TimeoutRefused
  <2> QED BY <1>13, <1>15, <2>2 DEF TimeoutRefused, Forget
<1> QED
  BY <1>1, <1>2, <1>3, <1>4, <1>5, <1>6, <1>7, <1>8, <1>9, <1>10, <1>11,
     <1>12, <1>14, <1>15 DEF MainStep

\* So do the other steps of a worker.
LEMMA OtherStepTyped ==
    ASSUME TypeOK, HandFull, NEW w \in Workers, WorkerStep(w), ~MainStep(w),
           UNCHANGED managerVars
    PROVE  TypeOK'
<1> USE DEF TypeOK, StatusQueueTypeOK, WorkerTypeOK, ManagerTypeOK, PC, InBlock
<1>1. CASE TakeTask(w)
  <2>1. /\ Head(taskQueue[w]) \in Tasks
        /\ Tail(taskQueue[w]) \in Seq(Tasks)
    BY <1>1 DEF TakeTask
  <2> QED BY <1>1, <2>1 DEF TakeTask
<1>2. CASE BodyReturns(w)
  <2>1. cur[w] \in Tasks /\ Install(w, cur[w])
    BY <1>2 DEF BodyReturns, HandFull
  <2> QED BY <1>2, <2>1, InstallTyped DEF BodyReturns
<1>3. CASE BodyRaises(w)
  BY <1>3 DEF BodyRaises
<1>4. CASE AlarmFires(w)
  BY <1>4 DEF AlarmFires
<1>5. CASE HandleControl(w)
  <2>1. Tail(controlQueue[w]) \in Seq(Workers \cup Tasks)
    BY <1>5 DEF HandleControl
  <2>2. sig' \in [Workers -> BOOLEAN]
    BY <1>5 DEF HandleControl
  <2> QED BY <1>5, <2>1, <2>2 DEF HandleControl
<1>6. CASE ReportStopped(w)
  <2>1. Report(w, None, "ERROR") \in Message
    BY DEF Report, Message, TaskStatus
  <2>2. StatusQueueTypeOK'
    BY <1>6, <2>1, PutTyped DEF ReportStopped, Processes
  <2> QED BY <1>6, <2>2 DEF ReportStopped
<1>7. CASE Heartbeat(w)
  <2>1. Report(w, None, None) \in Message
    BY DEF Report, Message
  <2>2. StatusQueueTypeOK'
    BY <1>7, <2>1, PutTyped DEF Heartbeat, Processes
  <2> QED BY <1>7, <2>2 DEF Heartbeat
<1>8. ASSUME NEW t \in Tasks, StartAsync(w, t)
      PROVE  TypeOK'
  <2>1. t \in AsyncTasks
    BY <1>8 DEF StartAsync
  <2>2. created' \in [Workers -> SUBSET AsyncTasks]
    BY <1>8, RemoveTyped DEF StartAsync
  <2>3. CASE Say(w, t, "ERROR") /\ UNCHANGED <<running, awaiting, stateVars>>
    <3>1. /\ StatusQueueTypeOK'
          /\ said' \in [Tasks -> Seq({"RUNNING", "SUCCESS", "ERROR"})]
      BY <2>3, SayTyped
    <3> QED BY <1>8, <2>2, <2>3, <3>1 DEF StartAsync
  <2>4. CASE /\ running' = [running EXCEPT ![w] = @ \cup {t}]
             /\ awaiting' = [awaiting EXCEPT ![w] = @ \cup {t}]
             /\ Prepare(w, t)
             /\ SayNothing
    <3>1. running' \in [Workers -> SUBSET Tasks]
      BY <2>4, AddTyped
    <3>2. awaiting' \in [Workers -> SUBSET AsyncTasks]
      BY <2>1, <2>4, AddTyped
    <3> QED BY <1>8, <2>2, <2>4, <3>1, <3>2, PrepareTyped DEF StartAsync
  <2> QED BY <1>8, <2>3, <2>4 DEF StartAsync
<1>9. ASSUME NEW t \in Tasks, FinishAsync(w, t)
      PROVE  TypeOK'
  <2>1. /\ awaiting' \in [Workers -> SUBSET AsyncTasks]
        /\ running' \in [Workers -> SUBSET Tasks]
    BY <1>9, RemoveTyped DEF FinishAsync
  <2>2. \/ SayNothing
        \/ \E s \in {"RUNNING", "SUCCESS", "ERROR"} : Say(w, t, s)
    BY <1>9 DEF FinishAsync
  <2>3. /\ StatusQueueTypeOK'
        /\ said' \in [Tasks -> Seq({"RUNNING", "SUCCESS", "ERROR"})]
    BY <2>2, SayTyped
  <2>4. Install(w, t) \/ UNCHANGED stateVars
    BY <1>9 DEF FinishAsync
  <2>5. /\ state' \in [Workers -> SUBSET StateTasks]
        /\ sandbox' \in [Workers -> StateTasks \cup {None}]
        /\ maker' \in [Workers -> StateTasks \cup {None}]
        /\ basis' \in [StateTasks -> SUBSET StateTasks]
    BY <2>4, InstallTyped
  <2> QED BY <1>9, <2>1, <2>3, <2>5 DEF FinishAsync
<1> QED
  BY <1>1, <1>2, <1>3, <1>4, <1>5, <1>6, <1>7, <1>8, <1>9
  DEF WorkerStep, BodyEnds, MonitorStep

\* Every step keeps the types.
LEMMA NextTyped == TypeOK /\ HandFull /\ PendingSent /\ [Next]_vars => TypeOK'
<1> SUFFICES ASSUME TypeOK, HandFull, PendingSent, [Next]_vars PROVE TypeOK'
  OBVIOUS
<1> USE DEF TypeOK, StatusQueueTypeOK, WorkerTypeOK, ManagerTypeOK, PC, InBlock
<1>1. CASE UNCHANGED vars
  BY <1>1 DEF vars
<1>2. ASSUME NEW w \in Workers, IncreaseWorker(w) PROVE TypeOK'
  BY <1>2 DEF IncreaseWorker
<1>3. ASSUME NEW w \in Workers, NEW uuid, SendKill(w, uuid) PROVE TypeOK'
  <2>1. uuid \in Workers \cup Tasks
    BY <1>3, CallersAssumption DEF SendKill
  <2> QED BY <1>3, <2>1 DEF SendKill
<1>4. ASSUME NEW w \in Workers, KillWorker(w) PROVE TypeOK'
  <2>1. /\ w \in Processes
        /\ LoseFeeder(w)
    BY <1>4 DEF KillWorker, Die, Processes
  <2>3. <<>> \in Seq(Message)
    OBVIOUS
  <2>4. feeder' \in [Processes -> Seq(Message)]
    <3>1. feeder' = [feeder EXCEPT ![w] = <<>>]
      BY <2>1 DEF LoseFeeder
    <3> QED BY <2>1, <2>3, <3>1
  <2>5. pipe' \in Seq(Message) /\ jammed' \in BOOLEAN
    <3>1. CASE UNCHANGED <<pipe, jammed>>
      BY <3>1
    <3>2. CASE /\ feeder[w] # <<>>
               /\ jammed' = TRUE
               /\ pipe' \in {pipe, Append(pipe, Head(feeder[w]))}
      <4>1. Head(feeder[w]) \in Message
        BY <2>1, <3>2
      <4>2. Append(pipe, Head(feeder[w])) \in Seq(Message)
        BY <4>1
      <4> QED BY <3>2, <4>2
    <3> QED BY <2>1, <3>1, <3>2 DEF LoseFeeder
  <2>6. StatusQueueTypeOK'
    BY <2>1, <2>4, <2>5 DEF LoseFeeder
  <2>2. WorkerTypeOK'
    BY <1>4 DEF KillWorker, Die
  <2> QED BY <1>4, <2>2, <2>6 DEF KillWorker
<1>5. ASSUME NEW w \in Workers, Internal(w) PROVE TypeOK'
  BY <1>5, MainStepTyped, OtherStepTyped DEF Internal
<1>6. ASSUME NEW w \in Workers, NEW t \in Tasks, Dispatch(w, t) PROVE TypeOK'
  BY <1>6 DEF Dispatch
<1>7. CASE DispatchReport
  <2>1. Report(home[pending], pending, "QUEUED") \in Message
    BY <1>7 DEF DispatchReport, PendingSent, Report, Message, TaskStatus
  <2>2. StatusQueueTypeOK'
    BY <1>7, <2>1, PutTyped DEF DispatchReport, Processes
  <2> QED BY <1>7, <2>2 DEF DispatchReport
<1>8. CASE ReadStatus
  BY <1>8 DEF ReadStatus, GetQueuedStatus
<1>9. ASSUME NEW p \in Processes, FlushStep(p) PROVE TypeOK'
  BY <1>9 DEF FlushStep, Flush
<1> QED
  BY <1>1, <1>2, <1>3, <1>4, <1>5, <1>6, <1>7, <1>8, <1>9
  DEF Next, StopTask, StopWorker

\* HandFull and PendingSent are kept.
LEMMA NextHandFull ==
    TypeOK /\ HandFull /\ PendingSent /\ [Next]_vars => HandFull' /\ PendingSent'
<1> SUFFICES ASSUME TypeOK, HandFull, PendingSent, [Next]_vars
             PROVE  HandFull' /\ PendingSent'
  OBVIOUS
<1> USE DEF TypeOK, WorkerTypeOK, ManagerTypeOK, HandFull, PendingSent, InBlock
<1>1. CASE UNCHANGED vars
  BY <1>1 DEF vars
<1>2. ASSUME NEW w \in Workers, IncreaseWorker(w)
      PROVE  HandFull' /\ PendingSent'
  BY <1>2 DEF IncreaseWorker
<1>3. ASSUME NEW w \in Workers, NEW uuid, SendKill(w, uuid)
      PROVE  HandFull' /\ PendingSent'
  BY <1>3 DEF SendKill
<1>4. ASSUME NEW w \in Workers, KillWorker(w) PROVE HandFull' /\ PendingSent'
  BY <1>4 DEF KillWorker, Die
<1>5. ASSUME NEW w \in Workers, Internal(w) PROVE HandFull' /\ PendingSent'
  <2>1. PendingSent'
    BY <1>5 DEF Internal
  <2>2. CASE MainStep(w)
    <3>1. CASE TestStopped(w)
      BY <3>1, <2>1 DEF TestStopped
    <3>2. CASE FindEmpty(w) \/ WakeUp(w) \/ CloseFeeder(w) \/ Exit(w)
      BY <3>2, <2>1 DEF FindEmpty, WakeUp, CloseFeeder, Exit
    <3>3. CASE CheckStopped(w)
      <4>1. /\ pc' = [pc EXCEPT ![w] = IF stopped[w] THEN "last" ELSE "report"]
            /\ cur' = cur \/ cur' = [cur EXCEPT ![w] = None]
        BY <3>3 DEF CheckStopped
      <4> QED BY <4>1, <2>1
    <3>4. CASE ReportRunning(w)
      BY <3>4, <2>1 DEF ReportRunning
    <3>5. CASE EnterKillable(w) \/ PutSuccess(w)
      BY <3>5, <2>1 DEF EnterKillable, PutSuccess
    <3>6. CASE LeaveKillable(w)
      BY <3>6, <2>1 DEF LeaveKillable, Forget
    <3>7. CASE ReportError(w)
      BY <3>7, <2>1 DEF ReportError, Forget
    <3>10. CASE TimeoutRefused(w)
      BY <3>10, <2>1 DEF TimeoutRefused, Forget
    <3>9. CASE CancelCoroutines(w)
      BY <3>9, <2>1 DEF CancelCoroutines
    <3>8. CASE ErrorNotReported(w)
      BY <3>8, <2>1 DEF ErrorNotReported, Forget
    <3> QED
      BY <2>2, <3>1, <3>2, <3>3, <3>4, <3>5, <3>6, <3>7, <3>8, <3>9,
         <3>10 DEF MainStep
  <2>3. CASE TakeTask(w)
    BY <2>1, <2>3 DEF TakeTask
  <2>4. CASE BodyEnds(w) \/ AlarmFires(w)
    BY <2>1, <2>4 DEF BodyEnds, BodyReturns, BodyRaises, AlarmFires
  <2>5. CASE MonitorStep(w) \/ Heartbeat(w)
    BY <2>1, <2>5 DEF MonitorStep, HandleControl, ReportStopped, Heartbeat
  <2>6. ASSUME NEW t \in Tasks, StartAsync(w, t) \/ FinishAsync(w, t)
        PROVE  HandFull'
    BY <2>6 DEF StartAsync, FinishAsync
  <2> QED
    BY <1>5, <2>1, <2>2, <2>3, <2>4, <2>5, <2>6 DEF Internal, WorkerStep
<1>6. ASSUME NEW w \in Workers, NEW t \in Tasks, Dispatch(w, t)
      PROVE  HandFull' /\ PendingSent'
  BY <1>6 DEF Dispatch
<1>7. CASE DispatchReport
  BY <1>7 DEF DispatchReport
<1>8. CASE ReadStatus
  BY <1>8 DEF ReadStatus
<1>9. ASSUME NEW p \in Processes, FlushStep(p) PROVE HandFull' /\ PendingSent'
  BY <1>9 DEF FlushStep
<1> QED
  BY <1>1, <1>2, <1>3, <1>4, <1>5, <1>6, <1>7, <1>8, <1>9
  DEF Next, StopTask, StopWorker

\* Every variable keeps its type, whatever the workers, tasks and callers.
THEOREM TypeCorrect == Spec => [](TypeOK /\ HandFull /\ PendingSent)
<1>1. Init => TypeOK /\ HandFull /\ PendingSent
  BY InitTyped DEF Init, WorkerInit, HandFull, PendingSent, InBlock
<1>2. TypeOK /\ HandFull /\ PendingSent /\ [Next]_vars
        => (TypeOK /\ HandFull /\ PendingSent)'
  BY NextTyped, NextHandFull
<1> QED BY <1>1, <1>2, PTL DEF Spec

-----------------------------------------------------------------------------
(* What a step of one worker leaves alone.                                 *)

PlacesTyped ==
    /\ pc \in [Workers -> PC]
    /\ cur \in [Workers -> Tasks \cup {None}]
    /\ running \in [Workers -> SUBSET Tasks]
    /\ created \in [Workers -> SUBSET AsyncTasks]
    /\ awaiting \in [Workers -> SUBSET AsyncTasks]
    /\ taskQueue \in [Workers -> Seq(Tasks)]
    /\ controlQueue \in [Workers -> Seq(Workers \cup Tasks)]
    /\ sig \in [Workers -> BOOLEAN]

\* The part of TypeOK the lemmas below need.
LEMMA PlacesAreTyped == TypeOK => PlacesTyped
BY DEF TypeOK, WorkerTypeOK, PlacesTyped

OthersKeep(w) ==
    \A v \in Workers \ {w} :
      /\ pc'[v] = pc[v] /\ cur'[v] = cur[v] /\ running'[v] = running[v]
      /\ created'[v] = created[v] /\ awaiting'[v] = awaiting[v]
      /\ taskQueue'[v] = taskQueue[v] /\ controlQueue'[v] = controlQueue[v]
      /\ sig'[v] = sig[v]

\* A step of one worker touches nothing of another worker.
LEMMA WorkerStepLocal ==
    ASSUME TypeOK, NEW w \in Workers, WorkerStep(w) \/ Die(w)
    PROVE  OthersKeep(w)
<1>1. PlacesTyped
  BY PlacesAreTyped
<1> USE <1>1 DEF PlacesTyped, OthersKeep
<1>2. CASE TestStopped(w)
  BY <1>2 DEF TestStopped
<1>3. CASE CheckStopped(w) \/ CancelCoroutines(w)
  BY <1>3 DEF CheckStopped, CancelCoroutines
<1>4. CASE FindEmpty(w) \/ WakeUp(w) \/ CloseFeeder(w) \/ Exit(w)
  BY <1>4 DEF FindEmpty, WakeUp, CloseFeeder, Exit
<1>5. CASE ReportRunning(w)
  BY <1>5 DEF ReportRunning
<1>6. CASE EnterKillable(w)
  BY <1>6 DEF EnterKillable
<1>7. CASE PutSuccess(w)
  BY <1>7 DEF PutSuccess
<1>8. CASE \/ LeaveKillable(w) \/ ReportError(w) \/ ErrorNotReported(w)
           \/ TimeoutRefused(w)
  BY <1>8
  DEF LeaveKillable, ReportError, ErrorNotReported, TimeoutRefused, Forget
<1>9. CASE TakeTask(w)
  BY <1>9 DEF TakeTask
<1>10. CASE BodyEnds(w) \/ AlarmFires(w)
  BY <1>10 DEF BodyEnds, BodyReturns, BodyRaises, AlarmFires
<1>11. CASE HandleControl(w)
  BY <1>11 DEF HandleControl
<1>12. CASE ReportStopped(w) \/ Heartbeat(w)
  BY <1>12 DEF ReportStopped, Heartbeat
<1>13. ASSUME NEW t \in Tasks, StartAsync(w, t) PROVE OthersKeep(w)
  BY <1>13 DEF StartAsync
<1>14. ASSUME NEW t \in Tasks, FinishAsync(w, t) PROVE OthersKeep(w)
  BY <1>14 DEF FinishAsync
<1>15. CASE Die(w)
  BY <1>15 DEF Die
<1> QED
  BY <1>2, <1>3, <1>4, <1>5, <1>6, <1>7, <1>8, <1>9, <1>10, <1>11, <1>12,
     <1>13, <1>14, <1>15 DEF WorkerStep, MainStep, MonitorStep

-----------------------------------------------------------------------------
(* A task is in one place.                                                 *)

\* Steps that put no task anywhere.
LEMMA OnePlaceKept ==
    ASSUME TypeOK, OnePlace, NEW w \in Workers, OthersKeep(w),
           UNCHANGED <<taskQueue, home>>,
           cur'[w] \in {cur[w], None},
           created'[w] \subseteq created[w],
           awaiting'[w] \subseteq awaiting[w],
           cur'[w] # None => pc'[w] \in Holding
    PROVE  OnePlace'
<1>1. \A v \in Workers : \A t : InQueue(v, t)' <=> InQueue(v, t)
  BY DEF InQueue
<1>2. \A v \in Workers : \A t \in created[v] \cup awaiting[v] : t # None
  BY NamesDiffer, TaskSetsAssumption DEF TypeOK, WorkerTypeOK
<1>3. \A v \in Workers : /\ cur'[v] \in {cur[v], None}
                         /\ created'[v] \subseteq created[v]
                         /\ awaiting'[v] \subseteq awaiting[v]
                         /\ cur'[v] # None => pc'[v] \in Holding
  BY DEF OthersKeep, OnePlace
<1> QED BY <1>1, <1>2, <1>3 DEF OnePlace

\* The task taken from the queue was there once, so it is there no more.
LEMMA TakeTaskPlace ==
    ASSUME TypeOK, OnePlace, NEW w \in Workers, TakeTask(w), UNCHANGED home
    PROVE  OnePlace'
<1> DEFINE q == taskQueue[w]
<1>1. /\ q \in Seq(Tasks) /\ q # <<>> /\ Len(q) \in Nat \ {0}
      /\ Head(q) = q[1]
  BY DEF TakeTask, TypeOK, WorkerTypeOK
<1>13. PICK h \in Tasks : h = q[1]
  BY <1>1
<1>2. /\ taskQueue' = [taskQueue EXCEPT ![w] = Tail(q)]
      /\ \A v \in Workers \ {w} : taskQueue'[v] = taskQueue[v]
      /\ taskQueue'[w] = Tail(q)
  BY DEF TakeTask, TypeOK, WorkerTypeOK
<1>3. /\ Len(Tail(q)) = Len(q) - 1
      /\ \A i \in 1..Len(q) - 1 : Tail(q)[i] = q[i + 1]
  BY <1>1
<1>4. \A v \in Workers : \A t : InQueue(v, t)' => InQueue(v, t)
  BY <1>1, <1>2, <1>3 DEF InQueue
<1>5. ~InQueue(w, h)'
  <2>1. SUFFICES ASSUME NEW i \in 1..Len(q) - 1, Tail(q)[i] = h
                 PROVE  FALSE
    BY <1>2, <1>3 DEF InQueue
  <2>2. i + 1 \in 1..Len(q) /\ 1 \in 1..Len(q) /\ q[i + 1] = q[1]
    BY <1>1, <1>13, <1>3, <2>1
  <2>3. i + 1 = 1
    BY <2>2 DEF OnePlace
  <2> QED BY <2>3
<1>6. InQueue(w, h) /\ home[h] = w /\ h # None
  BY <1>1, <1>13, NamesDiffer DEF InQueue, OnePlace
<1>7. /\ \A v \in Workers \ {w} : cur'[v] = cur[v] /\ pc'[v] = pc[v]
      /\ cur'[w] \in {cur[w], h}
      /\ UNCHANGED <<created, awaiting>>
      /\ pc[w] = "poll"
      /\ cur'[w] # cur[w] => pc'[w] = "check"
  BY <1>1, <1>13 DEF TakeTask, TypeOK, WorkerTypeOK
<1>8. cur[w] = None
  BY <1>7 DEF OnePlace, Holding, InBlock
<1>9. (\A v \in Workers : \A i \in 1..Len(taskQueue[v]) : home[taskQueue[v][i]] = v)'
  BY <1>1, <1>2, <1>3 DEF OnePlace
<1>10. (\A v \in Workers : \A i, j \in 1..Len(taskQueue[v]) :
         taskQueue[v][i] = taskQueue[v][j] => i = j)'
  BY <1>1, <1>2, <1>3 DEF OnePlace
<1>11. (\A v \in Workers : \A t \in created[v] \cup awaiting[v] :
          home[t] = v /\ ~InQueue(v, t) /\ t # cur[v])'
  BY <1>4, <1>6, <1>7 DEF OnePlace
<1>12. (\A v \in Workers : cur[v] # None =>
          pc[v] \in Holding /\ home[cur[v]] = v /\ ~InQueue(v, cur[v]))'
  <2>1. SUFFICES ASSUME NEW v \in Workers, cur'[v] # None
                 PROVE  /\ pc'[v] \in Holding /\ home'[cur'[v]] = v
                        /\ ~InQueue(v, cur[v])'
    OBVIOUS
  <2>2. CASE v = w
    <3>1. cur'[w] = h /\ pc'[w] = "check"
      BY <1>7, <1>8, <2>1, <2>2
    <3>2. InQueue(w, cur[w])' <=> InQueue(w, h)'
      BY <3>1 DEF InQueue
    <3> QED BY <1>5, <1>6, <2>2, <3>1, <3>2 DEF Holding
  <2>3. CASE v # w
    <3>1. cur'[v] = cur[v] /\ pc'[v] = pc[v]
      BY <1>7, <2>3
    <3>2. InQueue(v, cur[v])' <=> InQueue(v, cur[v])
      BY <1>2, <2>3, <3>1 DEF InQueue
    <3> QED BY <2>1, <3>1, <3>2 DEF OnePlace
  <2> QED BY <2>2, <2>3
<1> QED BY <1>7, <1>9, <1>10, <1>11, <1>12 DEF OnePlace

\* A task dispatched for the first time is nowhere else.
LEMMA DispatchPlace ==
    ASSUME TypeOK, OnePlace, NEW w \in Workers, NEW t \in Tasks, Dispatch(w, t)
    PROVE  OnePlace'
<1> DEFINE q == taskQueue[w]
<1>1. /\ q \in Seq(Tasks)
      /\ \A v \in Workers \ {w} : taskQueue'[v] = taskQueue[v]
      /\ taskQueue'[w] = Append(q, t)
      /\ home[t] = None /\ home'[t] = w
      /\ \A u \in Tasks \ {t} : home'[u] = home[u]
      /\ UNCHANGED <<cur, pc, created, awaiting>>
  BY DEF Dispatch, TypeOK, WorkerTypeOK, ManagerTypeOK
<1>2. /\ Len(Append(q, t)) = Len(q) + 1
      /\ Len(q) \in Nat
      /\ \A i \in 1..Len(q) : Append(q, t)[i] = q[i]
      /\ Append(q, t)[Len(q) + 1] = t
  BY <1>1
<1>3. \A v \in Workers : v # None
  BY NamesDiffer
<1>4. \A v \in Workers : \A i \in 1..Len(taskQueue[v]) :
        taskQueue[v][i] \in Tasks \ {t}
  <2>1. SUFFICES ASSUME NEW v \in Workers, NEW i \in 1..Len(taskQueue[v])
                 PROVE  taskQueue[v][i] \in Tasks \ {t}
    OBVIOUS
  <2>2. taskQueue[v] \in Seq(Tasks)
    BY DEF TypeOK, WorkerTypeOK
  <2> QED BY <1>1, <1>3, <2>2 DEF OnePlace
<1>5. \A v \in Workers : \A u \in created[v] \cup awaiting[v] :
        u \in Tasks \ {t}
  BY <1>1, <1>3, TaskSetsAssumption DEF OnePlace, TypeOK, WorkerTypeOK
<1>6. \A v \in Workers : cur[v] # None => cur[v] \in Tasks \ {t}
  BY <1>1, <1>3 DEF OnePlace, TypeOK, WorkerTypeOK
<1>7. \A v \in Workers : \A u \in Tasks \ {t} : InQueue(v, u)' => InQueue(v, u)
  BY <1>1, <1>2 DEF InQueue
<1>8. (\A v \in Workers : \A i \in 1..Len(taskQueue[v]) : home[taskQueue[v][i]] = v)'
  <2>1. SUFFICES ASSUME NEW v \in Workers, NEW i \in 1..Len(taskQueue'[v])
                 PROVE  home'[taskQueue'[v][i]] = v
    OBVIOUS
  <2>2. CASE v = w /\ i = Len(q) + 1
    BY <1>1, <1>2, <2>2
  <2>3. CASE v = w /\ i # Len(q) + 1
    <3>1. i \in 1..Len(q) /\ taskQueue'[v][i] = taskQueue[v][i]
      BY <1>1, <1>2, <2>1, <2>3
    <3> QED BY <1>1, <1>4, <2>3, <3>1 DEF OnePlace
  <2>4. CASE v # w
    BY <1>1, <1>4, <2>1, <2>4 DEF OnePlace
  <2> QED BY <2>2, <2>3, <2>4
<1>9. (\A v \in Workers : \A i, j \in 1..Len(taskQueue[v]) :
         taskQueue[v][i] = taskQueue[v][j] => i = j)'
  <2>1. SUFFICES ASSUME NEW v \in Workers, NEW i \in 1..Len(taskQueue'[v]),
                        NEW j \in 1..Len(taskQueue'[v]),
                        taskQueue'[v][i] = taskQueue'[v][j]
                 PROVE  i = j
    OBVIOUS
  <2>2. CASE v = w
    <3>1. i \in 1..Len(q) + 1 /\ j \in 1..Len(q) + 1
      BY <1>1, <1>2, <2>1, <2>2
    <3>2. CASE i \in 1..Len(q) /\ j \in 1..Len(q)
      <4>1. taskQueue'[v][i] = q[i] /\ taskQueue'[v][j] = q[j]
        BY <1>1, <1>2, <2>2, <3>2
      <4>2. q[i] = q[j] => i = j
        BY <3>2 DEF OnePlace
      <4> QED BY <2>1, <4>1, <4>2
    <3>3. CASE i = Len(q) + 1 /\ j \in 1..Len(q)
      BY <1>1, <1>2, <1>4, <2>1, <2>2, <3>3
    <3>4. CASE i \in 1..Len(q) /\ j = Len(q) + 1
      BY <1>1, <1>2, <1>4, <2>1, <2>2, <3>4
    <3> QED BY <1>2, <3>1, <3>2, <3>3, <3>4
  <2>3. CASE v # w
    BY <1>1, <2>1, <2>3 DEF OnePlace
  <2> QED BY <2>2, <2>3
<1>10. (\A v \in Workers : \A u \in created[v] \cup awaiting[v] :
          home[u] = v /\ ~InQueue(v, u) /\ u # cur[v])'
  BY <1>1, <1>5, <1>7 DEF OnePlace
<1>11. (\A v \in Workers : cur[v] # None =>
          pc[v] \in Holding /\ home[cur[v]] = v /\ ~InQueue(v, cur[v]))'
  BY <1>1, <1>6, <1>7 DEF OnePlace
<1> QED BY <1>1, <1>8, <1>9, <1>10, <1>11 DEF OnePlace

\* A coroutine task goes from the hand to the event loop.
LEMMA ReportRunningPlace ==
    ASSUME TypeOK, OnePlace, NEW w \in Workers, ReportRunning(w), UNCHANGED home
    PROVE  OnePlace'
<1>1. /\ UNCHANGED <<taskQueue, awaiting>>
      /\ \A v \in Workers \ {w} : /\ cur'[v] = cur[v] /\ pc'[v] = pc[v]
                                   /\ created'[v] = created[v]
  BY DEF ReportRunning, TypeOK, WorkerTypeOK
<1>2. \A v \in Workers : \A t : InQueue(v, t)' <=> InQueue(v, t)
  BY <1>1 DEF InQueue
<1>3. \/ /\ cur[w] # None /\ cur'[w] = None
         /\ created'[w] = created[w] \cup {cur[w]}
      \/ /\ cur'[w] = cur[w] /\ created'[w] = created[w]
         /\ pc'[w] = "enter"
  BY DEF ReportRunning, TypeOK, WorkerTypeOK
<1>4. \A t \in created'[w] \cup awaiting[w] : t # None
  BY <1>3, NamesDiffer, TaskSetsAssumption DEF TypeOK, WorkerTypeOK
<1> QED BY <1>1, <1>2, <1>3, <1>4 DEF OnePlace, Holding

\* A started coroutine is not among the created ones any more.
LEMMA StartAsyncPlace ==
    ASSUME TypeOK, OnePlace, NEW w \in Workers, NEW t \in Tasks,
           StartAsync(w, t), UNCHANGED home
    PROVE  OnePlace'
<1>1. /\ UNCHANGED <<taskQueue, cur, pc>> /\ t \in created[w]
      /\ \A v \in Workers \ {w} : /\ created'[v] = created[v]
                                   /\ awaiting'[v] = awaiting[v]
      /\ created'[w] = created[w] \ {t}
      /\ awaiting'[w] \subseteq awaiting[w] \cup {t}
  BY DEF StartAsync, TypeOK, WorkerTypeOK
<1>2. \A v \in Workers : \A u : InQueue(v, u)' <=> InQueue(v, u)
  BY <1>1 DEF InQueue
<1> QED BY <1>1, <1>2 DEF OnePlace

\* The steps of a worker keep its tasks in one place.
LEMMA WorkerStepPlace ==
    ASSUME TypeOK, OnePlace, NEW w \in Workers, WorkerStep(w) \/ Die(w),
           UNCHANGED home
    PROVE  OnePlace'
<1>1. PlacesTyped /\ OthersKeep(w)
  BY PlacesAreTyped, WorkerStepLocal
<1>2. cur[w] # None => pc[w] \in Holding
  BY DEF OnePlace
<1> DEFINE Keeps == /\ taskQueue' = taskQueue
                    /\ cur'[w] \in {cur[w], None}
                    /\ created'[w] \subseteq created[w]
                    /\ awaiting'[w] \subseteq awaiting[w]
                    /\ cur'[w] # None => pc'[w] \in Holding
<1>3. Keeps => OnePlace'
  BY <1>1, OnePlaceKept
<1> HIDE DEF Keeps
<1>4. CASE \/ TestStopped(w) \/ CheckStopped(w) \/ FindEmpty(w) \/ WakeUp(w)
           \/ CancelCoroutines(w) \/ CloseFeeder(w) \/ Exit(w)
  <2>1. Keeps
    BY <1>1, <1>2, <1>4
    DEF TestStopped, CheckStopped, CancelCoroutines, FindEmpty, WakeUp,
        CloseFeeder, Exit, PlacesTyped, Holding, InBlock, Keeps
  <2> QED BY <1>3, <2>1
<1>5. CASE EnterKillable(w) \/ PutSuccess(w)
  <2>1. Keeps
    BY <1>1, <1>5
    DEF EnterKillable, PutSuccess, PlacesTyped, Holding, InBlock, Keeps
  <2> QED BY <1>3, <2>1
<1>6. CASE \/ LeaveKillable(w) \/ ReportError(w) \/ ErrorNotReported(w)
           \/ TimeoutRefused(w)
  <2>1. Keeps
    BY <1>1, <1>6
    DEF LeaveKillable, ReportError, ErrorNotReported, TimeoutRefused, Forget,
        PlacesTyped, Keeps
  <2> QED BY <1>3, <2>1
<1>7. CASE BodyEnds(w) \/ AlarmFires(w)
  <2>1. Keeps
    BY <1>1, <1>7
    DEF BodyEnds, BodyReturns, BodyRaises, AlarmFires, PlacesTyped, Holding,
        InBlock, Keeps
  <2> QED BY <1>3, <2>1
<1>8. CASE MonitorStep(w) \/ Heartbeat(w)
  <2>1. Keeps
    BY <1>1, <1>2, <1>8
    DEF MonitorStep, HandleControl, ReportStopped, Heartbeat, Keeps
  <2> QED BY <1>3, <2>1
<1>9. ASSUME NEW t \in Tasks, FinishAsync(w, t) PROVE OnePlace'
  <2>1. Keeps
    BY <1>1, <1>2, <1>9 DEF FinishAsync, PlacesTyped, Keeps
  <2> QED BY <1>3, <2>1
<1>10. CASE Die(w)
  <2>1. Keeps
    BY <1>1, <1>10 DEF Die, PlacesTyped, Keeps
  <2> QED BY <1>3, <2>1
<1>11. CASE ReportRunning(w)
  BY <1>11, ReportRunningPlace
<1>12. CASE TakeTask(w)
  BY <1>12, TakeTaskPlace
<1>13. ASSUME NEW t \in Tasks, StartAsync(w, t) PROVE OnePlace'
  BY <1>13, StartAsyncPlace
<1> QED
  BY <1>4, <1>5, <1>6, <1>7, <1>8, <1>9, <1>10, <1>11, <1>12, <1>13
  DEF WorkerStep, MainStep

\* A step that moves no task.
LEMMA PlaceUnchanged ==
    ASSUME OnePlace,
           UNCHANGED <<taskQueue, home, cur, pc, created, awaiting>>
    PROVE  OnePlace'
BY DEF OnePlace, InQueue

\* Every step keeps OnePlace.
LEMMA NextPlace ==
    ASSUME TypeOK, OnePlace, [Next]_vars
    PROVE  OnePlace'
<1>1. CASE UNCHANGED vars
  BY <1>1, PlaceUnchanged DEF vars
<1>2. ASSUME NEW w \in Workers, IncreaseWorker(w) PROVE OnePlace'
  <2>1. /\ UNCHANGED <<taskQueue, home, cur, created, awaiting>>
        /\ pc[w] = "absent"
        /\ \A v \in Workers \ {w} : pc'[v] = pc[v]
    BY <1>2, PlacesAreTyped DEF IncreaseWorker, PlacesTyped, managerVars
  <2>2. \A v \in Workers : \A t : InQueue(v, t)' <=> InQueue(v, t)
    BY <2>1 DEF InQueue
  <2> QED BY <2>1, <2>2 DEF OnePlace, Holding, InBlock
<1>3. ASSUME NEW w \in Workers, KillWorker(w) \/ Internal(w) PROVE OnePlace'
  BY <1>3, WorkerStepPlace DEF KillWorker, Internal, managerVars
<1>4. ASSUME NEW w \in Workers, NEW uuid, SendKill(w, uuid) PROVE OnePlace'
  BY <1>4, PlaceUnchanged DEF SendKill
<1>5. ASSUME NEW w \in Workers, NEW t \in Tasks, Dispatch(w, t)
      PROVE  OnePlace'
  BY <1>5, DispatchPlace
<1>6. CASE DispatchReport \/ ReadStatus \/ \E p \in Processes : FlushStep(p)
  BY <1>6, PlaceUnchanged
  DEF DispatchReport, ReadStatus, FlushStep, workerVars, managerVars
<1> QED
  BY <1>1, <1>2, <1>3, <1>4, <1>5, <1>6 DEF Next, StopTask, StopWorker

\* No task is anywhere at first.
LEMMA InitPlace == Init => OnePlace
BY DEF Init, WorkerInit, OnePlace

RunsAt(w) ==
    running[w] = awaiting[w] \cup IF pc[w] \in InBlock THEN {cur[w]} ELSE {}

\* Entries of running_tasks come and go with what runs.
LEMMA WorkerStepRunning ==
    ASSUME TypeOK, OnePlace, NEW w \in Workers, RunsAt(w),
           WorkerStep(w) \/ Die(w)
    PROVE  RunsAt(w)'
<1>1. PlacesTyped
  BY PlacesAreTyped
<1>2. cur[w] \notin awaiting[w]
  BY DEF OnePlace
<1> USE DEF PlacesTyped, RunsAt, InBlock
<1>3. CASE TestStopped(w)
  BY <1>1, <1>3 DEF TestStopped
<1>4. CASE CheckStopped(w) \/ CancelCoroutines(w)
  BY <1>1, <1>4 DEF CheckStopped, CancelCoroutines
<1>5. CASE FindEmpty(w) \/ WakeUp(w) \/ CloseFeeder(w) \/ Exit(w)
  BY <1>1, <1>5 DEF FindEmpty, WakeUp, CloseFeeder, Exit
<1>6. CASE ReportRunning(w)
  BY <1>1, <1>6 DEF ReportRunning
<1>7. CASE EnterKillable(w)
  BY <1>1, <1>7 DEF EnterKillable
<1>8. CASE PutSuccess(w)
  BY <1>1, <1>8 DEF PutSuccess
<1>9. CASE LeaveKillable(w) \/ ReportError(w) \/ ErrorNotReported(w)
  BY <1>1, <1>2, <1>9 DEF LeaveKillable, ReportError, ErrorNotReported, Forget
<1>17. CASE TimeoutRefused(w)
  BY <1>1, <1>2, <1>17 DEF TimeoutRefused, Forget
<1>10. CASE TakeTask(w)
  BY <1>1, <1>10 DEF TakeTask
<1>11. CASE BodyEnds(w) \/ AlarmFires(w)
  BY <1>1, <1>11 DEF BodyEnds, BodyReturns, BodyRaises, AlarmFires
<1>12. CASE MonitorStep(w) \/ Heartbeat(w)
  BY <1>12 DEF MonitorStep, HandleControl, ReportStopped, Heartbeat
<1>13. ASSUME NEW t \in Tasks, StartAsync(w, t) PROVE RunsAt(w)'
  BY <1>1, <1>13 DEF StartAsync
<1>14. ASSUME NEW t \in Tasks, FinishAsync(w, t) PROVE RunsAt(w)'
  BY <1>1, <1>14 DEF FinishAsync
<1>15. CASE Die(w)
  BY <1>1, <1>15 DEF Die
<1> QED
  BY <1>3, <1>4, <1>5, <1>6, <1>7, <1>8, <1>9, <1>10, <1>11, <1>12, <1>13,
     <1>14, <1>15, <1>17 DEF WorkerStep, MainStep

\* Every step keeps RunningTasksExact.
LEMMA NextRunning ==
    ASSUME TypeOK, OnePlace, RunningTasksExact, [Next]_vars
    PROVE  RunningTasksExact'
<1>1. \A w \in Workers : RunsAt(w)
  BY DEF RunningTasksExact, RunsAt
<1>2. SUFFICES ASSUME NEW v \in Workers PROVE RunsAt(v)'
  BY DEF RunningTasksExact, RunsAt
<1>3. CASE UNCHANGED <<running, awaiting, pc, cur>>
  BY <1>1, <1>3 DEF RunsAt
<1>4. ASSUME NEW w \in Workers, IncreaseWorker(w) PROVE RunsAt(v)'
  BY <1>1, <1>4, PlacesAreTyped DEF IncreaseWorker, PlacesTyped, RunsAt, InBlock
<1>5. ASSUME NEW w \in Workers, WorkerStep(w) \/ Die(w) PROVE RunsAt(v)'
  <2>1. CASE v = w
    BY <1>1, <1>5, <2>1, WorkerStepRunning
  <2>2. CASE v # w
    <3>1. OthersKeep(w)
      BY <1>5, WorkerStepLocal
    <3> QED BY <1>1, <2>2, <3>1 DEF OthersKeep, RunsAt
  <2> QED BY <2>1, <2>2
<1>6. ASSUME NEW w \in Workers, NEW uuid, SendKill(w, uuid) PROVE RunsAt(v)'
  BY <1>3, <1>6 DEF SendKill
<1>7. ASSUME NEW w \in Workers, NEW t \in Tasks, Dispatch(w, t)
      PROVE  RunsAt(v)'
  BY <1>3, <1>7 DEF Dispatch
<1>8. CASE DispatchReport \/ ReadStatus \/ \E p \in Processes : FlushStep(p)
  BY <1>3, <1>8 DEF DispatchReport, ReadStatus, FlushStep, workerVars
<1>9. CASE UNCHANGED vars
  BY <1>3, <1>9 DEF vars, workerVars
<1> QED
  BY <1>4, <1>5, <1>6, <1>7, <1>8, <1>9
  DEF Next, Internal, KillWorker, StopTask, StopWorker

\* running_tasks holds exactly what runs: an entry is made when a function
\* enters its killable block or a coroutine starts, and whatever way it ends
\* the entry goes with it.  A function is never also a coroutine, so popping
\* the one's entry cannot take the other's.
THEOREM RunningIsExact == Spec => []RunningTasksExact
<1>1. Init => RunningTasksExact
  BY DEF Init, WorkerInit, RunningTasksExact, InBlock
<1>2. ASSUME TypeOK, OnePlace, RunningTasksExact, [Next]_vars
      PROVE  RunningTasksExact'
  BY <1>2, NextRunning
<1>3. TypeOK /\ HandFull /\ PendingSent /\ OnePlace /\ RunningTasksExact
        /\ [Next]_vars
      => (TypeOK /\ HandFull /\ PendingSent /\ OnePlace /\ RunningTasksExact)'
  BY <1>2, NextTyped, NextHandFull, NextPlace
<1>4. Init => TypeOK /\ HandFull /\ PendingSent /\ OnePlace
  BY InitTyped, InitPlace DEF Init, WorkerInit, HandFull, PendingSent, InBlock
<1> QED BY <1>1, <1>3, <1>4, PTL DEF Spec

-----------------------------------------------------------------------------
(* A worker without a task in hand at its second test was stopped.         *)

\* Of the steps of w, only a stop lets it reach "check" without a task.
LEMMA WorkerStepNone ==
    ASSUME TypeOK, NEW w \in Workers, WorkerStep(w) \/ Die(w),
           pc[w] \in {"check", "report"} /\ cur[w] = None => stopped[w]
    PROVE  /\ pc'[w] \in {"check", "report"} /\ cur'[w] = None => stopped'[w]
           /\ \A v \in Workers \ {w} : stopped'[v] = stopped[v]
<1>1. PlacesTyped /\ stopped \in [Workers -> BOOLEAN]
  BY PlacesAreTyped DEF TypeOK, WorkerTypeOK
<1> USE <1>1 DEF PlacesTyped
<1>2. CASE \/ TestStopped(w) \/ CheckStopped(w) \/ FindEmpty(w) \/ WakeUp(w)
           \/ CancelCoroutines(w) \/ CloseFeeder(w) \/ Exit(w)
  BY <1>2
  DEF TestStopped, CheckStopped, FindEmpty, WakeUp, CancelCoroutines, CloseFeeder,
      Exit
<1>3. CASE ReportRunning(w) \/ EnterKillable(w) \/ PutSuccess(w)
  BY <1>3 DEF ReportRunning, EnterKillable, PutSuccess
<1>4. CASE \/ LeaveKillable(w) \/ ReportError(w) \/ ErrorNotReported(w)
           \/ TimeoutRefused(w)
  BY <1>4
  DEF LeaveKillable, ReportError, ErrorNotReported, TimeoutRefused, Forget
<1>5. CASE TakeTask(w)
  <2>1. Head(taskQueue[w]) \in Tasks
    BY <1>5 DEF TakeTask
  <2>2. UNCHANGED stopped
    BY <1>5 DEF TakeTask
  <2>3. pc'[w] = "loop" \/ cur'[w] = Head(taskQueue[w])
    BY <1>5 DEF TakeTask
  <2> QED BY <2>1, <2>2, <2>3, NamesDiffer
<1>6. CASE BodyEnds(w) \/ AlarmFires(w)
  BY <1>6 DEF BodyEnds, BodyReturns, BodyRaises, AlarmFires
<1>7. CASE MonitorStep(w) \/ Heartbeat(w)
  BY <1>7 DEF MonitorStep, HandleControl, ReportStopped, Heartbeat
<1>8. ASSUME NEW t \in Tasks, StartAsync(w, t) \/ FinishAsync(w, t)
      PROVE  UNCHANGED <<pc, cur, stopped>>
  BY <1>8 DEF StartAsync, FinishAsync
<1>9. CASE Die(w)
  BY <1>9 DEF Die
<1> QED
  BY <1>2, <1>3, <1>4, <1>5, <1>6, <1>7, <1>8, <1>9 DEF WorkerStep, MainStep

\* watch_and_get gives up without a task only when the worker was stopped: the
\* test that follows it leaves the loop before task_uuid is read from None.
THEOREM NoneIsStopped == Spec => []NoneMeansStopped
<1>1. Init => NoneMeansStopped
  BY DEF Init, WorkerInit, NoneMeansStopped
<1>2. ASSUME TypeOK, NoneMeansStopped, [Next]_vars
      PROVE  NoneMeansStopped'
  <2>1. SUFFICES ASSUME NEW v \in Workers
                 PROVE  pc'[v] \in {"check", "report"} /\ cur'[v] = None
                          => stopped'[v]
    BY DEF NoneMeansStopped
  <2>2. CASE UNCHANGED <<pc, cur, stopped>>
    BY <1>2, <2>2 DEF NoneMeansStopped
  <2>3. ASSUME NEW w \in Workers, IncreaseWorker(w)
        PROVE  pc'[v] \in {"check", "report"} /\ cur'[v] = None => stopped'[v]
    BY <1>2, <2>3, PlacesAreTyped
    DEF IncreaseWorker, PlacesTyped, NoneMeansStopped
  <2>4. ASSUME NEW w \in Workers, WorkerStep(w) \/ Die(w)
        PROVE  pc'[v] \in {"check", "report"} /\ cur'[v] = None => stopped'[v]
    <3>1. /\ pc'[w] \in {"check", "report"} /\ cur'[w] = None => stopped'[w]
          /\ \A u \in Workers \ {w} : stopped'[u] = stopped[u]
      BY <1>2, <2>4, WorkerStepNone DEF NoneMeansStopped
    <3>2. OthersKeep(w)
      BY <1>2, <2>4, WorkerStepLocal
    <3> QED BY <1>2, <3>1, <3>2 DEF OthersKeep, NoneMeansStopped
  <2>5. ASSUME NEW w \in Workers, NEW uuid, SendKill(w, uuid)
        PROVE  UNCHANGED <<pc, cur, stopped>>
    BY <2>5 DEF SendKill
  <2>6. ASSUME NEW w \in Workers, NEW t \in Tasks, Dispatch(w, t)
        PROVE  UNCHANGED <<pc, cur, stopped>>
    BY <2>6 DEF Dispatch
  <2>7. CASE DispatchReport \/ ReadStatus \/ \E p \in Processes : FlushStep(p)
    BY <2>2, <2>7 DEF DispatchReport, ReadStatus, FlushStep, workerVars
  <2>8. CASE UNCHANGED vars
    BY <2>2, <2>8 DEF vars, workerVars
  <2> QED
    BY <1>2, <2>2, <2>3, <2>4, <2>5, <2>6, <2>7, <2>8
    DEF Next, Internal, KillWorker, StopTask, StopWorker
<1>3. TypeOK /\ HandFull /\ PendingSent /\ NoneMeansStopped /\ [Next]_vars
      => (TypeOK /\ HandFull /\ PendingSent /\ NoneMeansStopped)'
  BY <1>2, NextTyped, NextHandFull
<1>4. Init => TypeOK /\ HandFull /\ PendingSent
  BY InitTyped DEF Init, WorkerInit, HandFull, PendingSent, InBlock
<1> QED BY <1>1, <1>3, <1>4, PTL DEF Spec

-----------------------------------------------------------------------------
(* What is said of a task.                                                 *)

\* Nothing was asked at first.
LEMMA InitStops == Init => StopsWereAsked
BY DEF Init, WorkerInit, StopsWereAsked, StopsReachTheirOwn, InBlock

StopsAsked(w) ==
    /\ \A i \in 1..Len(controlQueue[w]) : controlQueue[w][i] \in asked
    /\ pc[w] \in InBlock /\ sig[w] => cur[w] \in asked

\* The monitor raises the flag only for a uuid it was sent.
LEMMA WorkerStepStops ==
    ASSUME TypeOK, NEW w \in Workers, StopsAsked(w), UNCHANGED asked,
           WorkerStep(w) \/ Die(w)
    PROVE  StopsAsked(w)'
<1>1. PlacesTyped
  BY PlacesAreTyped
<1>2. CASE HandleControl(w)
  <2> DEFINE q == controlQueue[w]
  <2>1. q \in Seq(Workers \cup Tasks) /\ q # <<>> /\ Head(q) = q[1] /\ Len(q) \in Nat \ {0}
    BY <1>1, <1>2 DEF HandleControl, PlacesTyped
  <2>2. Head(q) \in asked
    BY <2>1 DEF StopsAsked
  <2>3. controlQueue'[w] = Tail(q) /\ UNCHANGED mainVars
    BY <1>1, <1>2 DEF HandleControl, PlacesTyped
  <2>4. \A i \in 1..Len(Tail(q)) : Tail(q)[i] \in asked
    BY <2>1 DEF StopsAsked
  <2>5. sig'[w] = sig[w] \/ cur[w] = Head(q)
    BY <1>1, <1>2 DEF HandleControl, PlacesTyped
  <2> QED BY <2>2, <2>3, <2>4, <2>5 DEF StopsAsked
<1> USE DEF PlacesTyped, StopsAsked, InBlock
<1>3. CASE \/ TestStopped(w) \/ CheckStopped(w) \/ FindEmpty(w) \/ WakeUp(w)
           \/ CancelCoroutines(w) \/ CloseFeeder(w) \/ Exit(w)
           \/ ReportRunning(w)
  BY <1>1, <1>3
  DEF TestStopped, CheckStopped, FindEmpty, WakeUp, CancelCoroutines, CloseFeeder,
      Exit, ReportRunning
<1>4. CASE EnterKillable(w)
  BY <1>1, <1>4 DEF EnterKillable
<1>5. CASE PutSuccess(w)
  BY <1>1, <1>5 DEF PutSuccess
<1>6. CASE \/ LeaveKillable(w) \/ ReportError(w) \/ ErrorNotReported(w)
           \/ TimeoutRefused(w)
  BY <1>1, <1>6
  DEF LeaveKillable, ReportError, ErrorNotReported, TimeoutRefused, Forget
<1>7. CASE TakeTask(w)
  BY <1>1, <1>7 DEF TakeTask
<1>8. CASE BodyEnds(w) \/ AlarmFires(w)
  BY <1>1, <1>8 DEF BodyEnds, BodyReturns, BodyRaises, AlarmFires
<1>9. CASE ReportStopped(w) \/ Heartbeat(w)
  BY <1>9 DEF ReportStopped, Heartbeat
<1>10. ASSUME NEW t \in Tasks, StartAsync(w, t) \/ FinishAsync(w, t)
       PROVE  StopsAsked(w)'
  BY <1>10 DEF StartAsync, FinishAsync
<1>11. CASE Die(w)
  BY <1>1, <1>11 DEF Die
<1> QED
  BY <1>2, <1>3, <1>4, <1>5, <1>6, <1>7, <1>8, <1>9, <1>10, <1>11
  DEF WorkerStep, MainStep, MonitorStep

\* Every step keeps StopsWereAsked.
LEMMA NextStops ==
    ASSUME TypeOK, StopsWereAsked, [Next]_vars
    PROVE  StopsWereAsked'
<1>1. \A w \in Workers : StopsAsked(w)
  BY DEF StopsWereAsked, StopsReachTheirOwn, StopsAsked
<1>2. SUFFICES ASSUME NEW v \in Workers PROVE StopsAsked(v)'
  BY DEF StopsWereAsked, StopsReachTheirOwn, StopsAsked
<1>3. CASE UNCHANGED <<controlQueue, asked, pc, sig, cur>>
  BY <1>1, <1>3 DEF StopsAsked
<1>4. ASSUME NEW w \in Workers, IncreaseWorker(w) PROVE StopsAsked(v)'
  BY <1>1, <1>4, PlacesAreTyped
  DEF IncreaseWorker, PlacesTyped, StopsAsked, InBlock, managerVars
<1>5. ASSUME NEW w \in Workers, Internal(w) \/ KillWorker(w)
      PROVE  StopsAsked(v)'
  <2>1. (WorkerStep(w) \/ Die(w)) /\ UNCHANGED asked
    BY <1>5 DEF Internal, KillWorker, managerVars
  <2>2. CASE v = w
    BY <1>1, <2>1, <2>2, WorkerStepStops
  <2>3. CASE v # w
    <3>1. OthersKeep(w)
      BY <2>1, WorkerStepLocal
    <3> QED BY <1>1, <2>1, <2>3, <3>1 DEF OthersKeep, StopsAsked
  <2> QED BY <2>2, <2>3
<1>6. ASSUME NEW w \in Workers, NEW uuid, SendKill(w, uuid)
      PROVE  StopsAsked(v)'
  <2> DEFINE q == controlQueue[w]
  <2>1. /\ UNCHANGED <<pc, cur, sig>> /\ asked' = asked \cup {uuid}
        /\ controlQueue'[v] = IF v = w THEN Append(q, uuid) ELSE controlQueue[v]
    BY <1>6, PlacesAreTyped DEF SendKill, PlacesTyped
  <2>2. q \in Seq(Workers \cup Tasks)
    BY PlacesAreTyped DEF PlacesTyped
  <2>3. \A i \in 1..Len(Append(q, uuid)) :
          (i \in 1..Len(q) /\ Append(q, uuid)[i] = q[i]) \/ Append(q, uuid)[i] = uuid
    BY <2>2
  <2> QED BY <1>1, <2>1, <2>3 DEF StopsAsked
<1>7. ASSUME NEW w \in Workers, NEW t \in Tasks, Dispatch(w, t)
      PROVE  StopsAsked(v)'
  BY <1>3, <1>7 DEF Dispatch
<1>8. CASE DispatchReport \/ ReadStatus \/ \E p \in Processes : FlushStep(p)
  BY <1>3, <1>8
  DEF DispatchReport, ReadStatus, FlushStep, workerVars, managerVars
<1>9. CASE UNCHANGED vars
  BY <1>3, <1>9 DEF vars, workerVars, managerVars
<1> QED
  BY <1>4, <1>5, <1>6, <1>7, <1>8, <1>9 DEF Next, StopTask, StopWorker

WellFormed(t) ==
    \/ said[t] \in {<<>>, Started, Succeeded, <<"RUNNING", "ERROR">>}
    \/ /\ said[t] = <<"RUNNING", "SUCCESS", "ERROR">>
       /\ t \notin AsyncTasks
       /\ Interrupted(t)

\* Appending to a sequence of one and of two elements.
LEMMA AppendToOne ==
    ASSUME NEW S, NEW a \in S, NEW b \in S
    PROVE  Append(<<a>>, b) = <<a, b>>
<1>1. /\ <<a>> \in Seq(S) /\ <<a, b>> \in Seq(S)
      /\ Append(<<a>>, b) \in Seq(S)
  OBVIOUS
<1>2. Len(<<a>>) = 1 /\ Len(<<a, b>>) = 2 /\ Len(Append(<<a>>, b)) = 2
  BY <1>1
<1>3. Append(<<a>>, b)[1] = a /\ Append(<<a>>, b)[2] = b
  BY <1>1
<1>4. \A i \in 1..2 : Append(<<a>>, b)[i] = <<a, b>>[i]
  BY <1>3
<1> QED BY <1>1, <1>2, <1>4, SeqEqual

LEMMA AppendToTwo ==
    ASSUME NEW S, NEW a \in S, NEW b \in S, NEW c \in S
    PROVE  Append(<<a, b>>, c) = <<a, b, c>>
<1>1. /\ <<a, b>> \in Seq(S) /\ <<a, b, c>> \in Seq(S)
      /\ Append(<<a, b>>, c) \in Seq(S)
  OBVIOUS
<1>2. /\ Len(<<a, b>>) = 2 /\ Len(<<a, b, c>>) = 3
      /\ Len(Append(<<a, b>>, c)) = 3
  BY <1>1
<1>3. /\ Append(<<a, b>>, c)[1] = a /\ Append(<<a, b>>, c)[2] = b
      /\ Append(<<a, b>>, c)[3] = c
  BY <1>1
<1>4. \A i \in 1..3 : Append(<<a, b>>, c)[i] = <<a, b, c>>[i]
  BY <1>3
<1> QED BY <1>1, <1>2, <1>4, SeqEqual

\* The histories a report makes.
LEMMA Appending ==
    /\ Append(<<>>, "RUNNING") = Started
    /\ Append(Started, "SUCCESS") = Succeeded
    /\ Append(Started, "ERROR") = <<"RUNNING", "ERROR">>
    /\ Append(Succeeded, "ERROR") = <<"RUNNING", "SUCCESS", "ERROR">>
<1> DEFINE S == {"RUNNING", "SUCCESS", "ERROR"}
<1>1. "RUNNING" \in S /\ "SUCCESS" \in S /\ "ERROR" \in S
  OBVIOUS
<1> HIDE DEF S
<1>2. Append(<<>>, "RUNNING") = Started
  BY DEF Started
<1>3. Append(Started, "SUCCESS") = Succeeded /\ Append(Started, "ERROR") = <<"RUNNING", "ERROR">>
  BY <1>1, AppendToOne DEF Started, Succeeded
<1>4. Append(Succeeded, "ERROR") = <<"RUNNING", "SUCCESS", "ERROR">>
  BY <1>1, AppendToTwo DEF Succeeded
<1> QED BY <1>2, <1>3, <1>4

\* What is said of the tasks of other workers.
LEMMA SaidElsewhere ==
    ASSUME TypeOK, OnePlace, NEW w \in Workers, NEW v \in Workers \ {w},
           NEW t \in Tasks, OthersKeep(w), SaidAt(v, t),
           said'[t] = said[t] \/ home[t] = w, asked \subseteq asked'
    PROVE  SaidAt(v, t)'
<1>1. InQueue(v, t)' <=> InQueue(v, t)
  BY DEF InQueue, OthersKeep
<1>2. /\ t \in created[v] \cup awaiting[v] => home[t] # w
      /\ cur[v] = t => home[t] # w
      /\ InQueue(v, t) => home[t] # w
  BY NamesDiffer DEF OnePlace, InQueue
<1>3. Interrupted(t) => Interrupted(t)'
  BY DEF Interrupted
<1> QED BY <1>1, <1>2, <1>3 DEF SaidAt, OthersKeep

\* A step of w that says nothing.
LEMMA SaidKept ==
    ASSUME NEW w \in Workers, NEW t \in Tasks, SaidAt(w, t),
           UNCHANGED <<said, asked>>,
           InQueue(w, t)' => InQueue(w, t),
           t \in created'[w] \cup awaiting'[w] => t \in created[w] \cup awaiting[w],
           cur'[w] = t =>
             \/ pc'[w] \in PC \ ({"check", "report", "enter"} \cup InBlock)
             \/ cur[w] = t /\ pc'[w] = pc[w]
             \/ cur[w] = t /\ <<pc[w], pc'[w]>> \in
                  {<<"check", "report">>, <<"enter", "body">>, <<"enter", "err">>,
                   <<"body", "success">>, <<"body", "err">>, <<"body", "badexc">>,
                   <<"success", "err">>}
             \/ cur[w] = t /\ pc[w] = "leave" /\ pc'[w] = "err" /\ Interrupted(t)
             \/ InQueue(w, t) /\ pc'[w] = "check"
    PROVE  SaidAt(w, t)'
BY DEF SaidAt, InBlock, Interrupted

\* The reports of w: RUNNING of a task it takes up, one final status of a task
\* it runs, ERROR of a function that the alarm stopped late.
LEMMA SayAt ==
    ASSUME TypeOK, OnePlace, NEW w \in Workers, NEW t \in Tasks,
           NEW s, Say(w, t, s), SaidAt(w, t), WellFormed(t), UNCHANGED asked,
           \/ s = "RUNNING" /\ said[t] = <<>>
           \/ s \in {"SUCCESS", "ERROR"} /\ said[t] = Started
           \/ /\ s = "ERROR" /\ said[t] = Succeeded
              /\ Interrupted(t) /\ t \notin AsyncTasks
    PROVE  /\ said'[t] = Append(said[t], s)
           /\ \A u \in Tasks \ {t} : said'[u] = said[u]
           /\ WellFormed(t)'
<1>1. said'[t] = Append(said[t], s) /\ \A u \in Tasks \ {t} : said'[u] = said[u]
  BY DEF Say, TypeOK, WorkerTypeOK
<1>2. Interrupted(t)' <=> Interrupted(t)
  BY DEF Interrupted
<1> QED BY <1>1, <1>2, Appending DEF WellFormed

\* The steps of a worker keep what is said in step with where the task is.
LEMMA WorkerStepSaid ==
    ASSUME TypeOK, OnePlace, HandFull, SaidByPlace, StopsWereAsked,
           ReportsWellFormed, UNCHANGED <<home, asked>>,
           NEW w \in Workers, WorkerStep(w) \/ Die(w), NEW t \in Tasks
    PROVE  /\ SaidAt(w, t)' /\ WellFormed(t)'
           /\ said'[t] = said[t] \/ home[t] = w
<1>1. PlacesTyped
  BY PlacesAreTyped
<1>2. SaidAt(w, t) /\ WellFormed(t)
  BY DEF SaidByPlace, ReportsWellFormed, WellFormed, Started, Succeeded
<1>3. t # None
  BY NamesDiffer
<1>4. ASSUME UNCHANGED said, SaidAt(w, t)'
      PROVE  SaidAt(w, t)' /\ WellFormed(t)' /\ said'[t] = said[t]
  BY <1>2, <1>4 DEF WellFormed, Interrupted
<1>5. ASSUME UNCHANGED taskQueue PROVE InQueue(w, t)' <=> InQueue(w, t)
  BY <1>5 DEF InQueue
<1> DEFINE Goal == /\ SaidAt(w, t)' /\ WellFormed(t)'
                   /\ said'[t] = said[t] \/ home[t] = w
<1> DEFINE Quiet ==
      /\ UNCHANGED <<said, taskQueue>>
      /\ created'[w] \subseteq created[w]
      /\ awaiting'[w] \subseteq created[w] \cup awaiting[w]
      /\ \/ cur'[w] = None
         \/ pc'[w] \in PC \ ({"check", "report", "enter"} \cup InBlock)
         \/ /\ cur'[w] = cur[w]
            /\ \/ pc'[w] = pc[w]
               \/ <<pc[w], pc'[w]>> \in
                    {<<"check", "report">>, <<"enter", "body">>,
                     <<"enter", "err">>, <<"body", "success">>,
                     <<"body", "err">>, <<"body", "badexc">>,
                     <<"success", "err">>}
               \/ pc[w] = "leave" /\ pc'[w] = "err" /\ Interrupted(cur[w])
<1>6. Quiet => Goal
  BY <1>2, <1>3, <1>4, <1>5, SaidKept
<1> HIDE DEF Goal
<1>14. cur[w] # None => pc[w] \in {"check", "report", "enter"} \cup InBlock
  BY DEF OnePlace, Holding
<1>7. CASE TestStopped(w) \/ CheckStopped(w)
  <2>1. Quiet
    BY <1>1, <1>7, <1>14
    DEF TestStopped, CheckStopped, PlacesTyped, PC, InBlock
  <2> HIDE DEF Quiet
  <2> QED BY <1>6, <2>1 DEF Goal
<1>8. CASE \/ FindEmpty(w) \/ WakeUp(w) \/ CancelCoroutines(w)
           \/ CloseFeeder(w) \/ Exit(w)
  <2>1. Quiet
    BY <1>1, <1>8, <1>14
    DEF FindEmpty, WakeUp, CancelCoroutines, CloseFeeder, Exit, PlacesTyped, PC,
        InBlock
  <2> HIDE DEF Quiet
  <2> QED BY <1>6, <2>1 DEF Goal
<1>9. CASE EnterKillable(w)
  <2>1. Quiet
    BY <1>1, <1>9 DEF EnterKillable, PlacesTyped
  <2> HIDE DEF Quiet
  <2> QED BY <1>6, <2>1 DEF Goal
<1>10. CASE LeaveKillable(w) \/ ErrorNotReported(w)
  <2>1. Quiet
    BY <1>1, <1>10 DEF LeaveKillable, ErrorNotReported, Forget, PlacesTyped
  <2> HIDE DEF Quiet
  <2> QED BY <1>6, <2>1 DEF Goal
<1>11. CASE BodyEnds(w)
  <2>1. Quiet
    BY <1>1, <1>11 DEF BodyEnds, BodyReturns, BodyRaises, PlacesTyped
  <2> HIDE DEF Quiet
  <2> QED BY <1>6, <2>1 DEF Goal
<1>12. CASE AlarmFires(w)
  <2>1. pc[w] = "leave" => Interrupted(cur[w])
    BY <1>12 DEF AlarmFires, StopsWereAsked, StopsReachTheirOwn, InBlock, Interrupted
  <2>2. Quiet
    BY <1>1, <1>12, <2>1 DEF AlarmFires, PlacesTyped
  <2> HIDE DEF Quiet
  <2> QED BY <1>6, <2>2 DEF Goal
<1>13. CASE MonitorStep(w) \/ Heartbeat(w)
  <2>1. Quiet
    BY <1>1, <1>13 DEF MonitorStep, HandleControl, ReportStopped, Heartbeat
  <2> HIDE DEF Quiet
  <2> QED BY <1>6, <2>1 DEF Goal
<1>15. CASE Die(w)
  <2>1. Quiet
    BY <1>1, <1>15 DEF Die, PlacesTyped
  <2> HIDE DEF Quiet
  <2> QED BY <1>6, <2>1 DEF Goal
<1> HIDE DEF Quiet
<1>16. \A u \in Tasks : /\ SaidAt(w, u) /\ WellFormed(u)
                        /\ (said'[u] = said[u] => (WellFormed(u) => WellFormed(u)'))
  BY DEF SaidByPlace, ReportsWellFormed, WellFormed, Started, Succeeded,
         Interrupted
<1>17. CASE ReportRunning(w)
  <2>1. PICK u \in Tasks : u = cur[w]
    BY <1>1, <1>17 DEF ReportRunning, PlacesTyped
  <2>2. /\ said[u] = <<>> /\ home[u] = w /\ ~InQueue(w, u)
        /\ u \notin created[w] \cup awaiting[w]
    BY <1>16, <1>17, <2>1 DEF ReportRunning, OnePlace, SaidAt
  <2>3. /\ said'[u] = Started /\ WellFormed(u)'
        /\ \A x \in Tasks \ {u} : said'[x] = said[x]
    BY <1>16, <1>17, <2>1, <2>2, SayAt, Appending DEF ReportRunning
  <2>4. /\ created'[w] \subseteq created[w] \cup {u} /\ UNCHANGED taskQueue
        /\ awaiting'[w] = awaiting[w]
        /\ cur'[w] = None \/ (cur'[w] = u /\ pc'[w] = "enter")
    BY <1>1, <1>17, <2>1 DEF ReportRunning, PlacesTyped
  <2>5. CASE t = u
    BY <1>3, <1>5, <2>2, <2>3, <2>4, <2>5 DEF SaidAt, Goal
  <2>6. CASE t # u
    BY <1>2, <1>3, <1>5, <1>16, <2>3, <2>4, <2>6 DEF SaidAt, Goal
  <2> QED BY <2>5, <2>6
<1>18. CASE PutSuccess(w)
  <2>1. PICK u \in Tasks : u = cur[w]
    BY <1>18 DEF PutSuccess, HandFull, InBlock
  <2>2. /\ said[u] = Started /\ home[u] = w /\ ~InQueue(w, u)
        /\ u \notin created[w] \cup awaiting[w]
    BY <1>3, <1>16, <1>18, <2>1, NamesDiffer DEF PutSuccess, OnePlace, SaidAt
  <2>3. /\ UNCHANGED <<taskQueue, created, awaiting, cur>>
    BY <1>18 DEF PutSuccess
  <2>4. CASE Say(w, cur[w], "SUCCESS") /\ pc'[w] = "leave"
    <3>1. /\ said'[u] = Succeeded /\ WellFormed(u)'
          /\ \A x \in Tasks \ {u} : said'[x] = said[x]
      <4>1. Say(w, u, "SUCCESS")
        BY <2>1, <2>4 DEF Say
      <4> QED BY <1>16, <2>2, <4>1, SayAt, Appending
    <3>2. CASE t = u
      BY <1>5, <2>1, <2>2, <2>3, <2>4, <3>1, <3>2 DEF SaidAt, Goal
    <3>3. CASE t # u
      BY <1>2, <1>5, <1>16, <2>1, <2>3, <3>1, <3>3 DEF SaidAt, Goal
    <3> QED BY <3>2, <3>3
  <2>5. CASE SayNothing /\ pc[w] = "success" /\ pc'[w] = "err"
    <3>1. Quiet
      BY <2>3, <2>5 DEF Quiet
    <3> QED BY <1>6, <3>1 DEF Goal
  <2> QED BY <1>1, <1>18, <2>4, <2>5 DEF PutSuccess, PlacesTyped
<1>19. CASE ReportError(w) \/ TimeoutRefused(w)
  <2>1. PICK u \in Tasks : u = cur[w] /\ u \notin AsyncTasks
    BY <1>19 DEF ReportError, TimeoutRefused, HandFull, InBlock
  <2>2. /\ said[u] = Started \/ (said[u] = Succeeded /\ Interrupted(u))
        /\ home[u] = w /\ ~InQueue(w, u)
        /\ u \notin created[w] \cup awaiting[w]
    BY <1>16, <1>19, <2>1, NamesDiffer
    DEF ReportError, TimeoutRefused, OnePlace, SaidAt
  <2>3. /\ UNCHANGED <<taskQueue, created, awaiting>> /\ cur'[w] = None
    BY <1>1, <1>19 DEF ReportError, TimeoutRefused, Forget, PlacesTyped
  <2>4. /\ WellFormed(u)'
        /\ \A x \in Tasks \ {u} : said'[x] = said[x]
    BY <1>16, <1>19, <2>1, <2>2, SayAt DEF ReportError, TimeoutRefused
  <2>5. CASE t = u
    BY <1>3, <1>5, <2>2, <2>3, <2>4, <2>5 DEF SaidAt, Goal
  <2>6. CASE t # u
    BY <1>2, <1>3, <1>5, <1>16, <2>3, <2>4, <2>6 DEF SaidAt, Goal
  <2> QED BY <2>5, <2>6
<1>20. ASSUME NEW u \in Tasks, StartAsync(w, u) PROVE Goal
  <2>1. /\ u \in created[w] /\ UNCHANGED <<taskQueue, pc, cur>>
        /\ created'[w] = created[w] \ {u}
        /\ awaiting'[w] \subseteq awaiting[w] \cup {u}
    BY <1>1, <1>20 DEF StartAsync, PlacesTyped
  <2>2. CASE SayNothing
    <3>1. Quiet
      BY <2>1, <2>2 DEF Quiet
    <3> QED BY <1>6, <3>1
  <2>3. CASE Say(w, u, "ERROR") /\ UNCHANGED awaiting
    <3>1. /\ said[u] = Started /\ home[u] = w /\ ~InQueue(w, u)
          /\ u \notin awaiting[w] /\ u # cur[w]
      BY <1>16, <2>1 DEF OnePlace, SaidAt
    <3>2. WellFormed(u)' /\ \A x \in Tasks \ {u} : said'[x] = said[x]
      BY <1>16, <2>3, <3>1, SayAt
    <3>3. CASE t = u
      BY <1>5, <2>1, <2>3, <3>1, <3>2, <3>3 DEF SaidAt, Goal
    <3>4. CASE t # u
      BY <1>2, <1>5, <1>16, <2>1, <2>3, <3>2, <3>4
      DEF SaidAt, Goal, Interrupted
    <3> QED BY <3>3, <3>4
  <2> QED BY <1>20, <2>2, <2>3 DEF StartAsync
<1>21. ASSUME NEW u \in Tasks, FinishAsync(w, u) PROVE Goal
  <2>1. /\ u \in awaiting[w] /\ UNCHANGED <<taskQueue, pc, cur, created>>
        /\ awaiting'[w] = awaiting[w] \ {u}
    BY <1>1, <1>21 DEF FinishAsync, PlacesTyped
  <2>2. CASE SayNothing
    <3>1. Quiet
      BY <2>1, <2>2 DEF Quiet
    <3> QED BY <1>6, <3>1
  <2>3. ASSUME NEW s \in {"SUCCESS", "ERROR"}, Say(w, u, s) PROVE Goal
    <3>1. /\ said[u] = Started /\ home[u] = w /\ ~InQueue(w, u)
          /\ u \notin created[w] /\ u # cur[w]
      BY <1>16, <2>1 DEF OnePlace, SaidAt
    <3>2. WellFormed(u)' /\ \A x \in Tasks \ {u} : said'[x] = said[x]
      BY <1>16, <2>3, <3>1, SayAt
    <3>3. CASE t = u
      BY <1>5, <2>1, <2>3, <3>1, <3>2, <3>3 DEF SaidAt, Goal
    <3>4. CASE t # u
      BY <1>2, <1>5, <1>16, <2>1, <2>3, <3>2, <3>4
      DEF SaidAt, Goal, Interrupted
    <3> QED BY <3>3, <3>4
  <2> QED BY <1>21, <2>2, <2>3 DEF FinishAsync
<1>22. CASE TakeTask(w)
  <2> DEFINE q == taskQueue[w]
  <2>1. /\ q \in Seq(Tasks) /\ q # <<>> /\ Len(q) \in Nat \ {0}
        /\ Head(q) = q[1]
    BY <1>1, <1>22 DEF TakeTask, PlacesTyped
  <2>2. /\ taskQueue'[w] = Tail(q)
        /\ UNCHANGED <<created, awaiting, said>>
        /\ pc'[w] = "loop" \/ (pc'[w] = "check" /\ cur'[w] = Head(q))
    BY <1>1, <1>22 DEF TakeTask, PlacesTyped
  <2>3. /\ Len(Tail(q)) = Len(q) - 1
        /\ \A i \in 1..Len(q) - 1 : Tail(q)[i] = q[i + 1]
    BY <2>1
  <2>4. InQueue(w, t)' => InQueue(w, t)
    BY <2>1, <2>2, <2>3 DEF InQueue
  <2>5. Head(q) = t => InQueue(w, t)
    BY <2>1 DEF InQueue
  <2> QED BY <1>2, <1>4, <2>2, <2>4, <2>5 DEF SaidAt, Goal
<1> QED
  BY <1>7, <1>8, <1>9, <1>10, <1>11, <1>12, <1>13, <1>15, <1>17, <1>18, <1>19,
     <1>20, <1>21, <1>22 DEF WorkerStep, MainStep, Goal

SaidOf(t) == WellFormed(t) /\ (home[t] = None => said[t] = <<>>)

\* Every step keeps SaidByPlace and ReportsWellFormed.
LEMMA NextSaid ==
    ASSUME TypeOK, OnePlace, HandFull, SaidByPlace, StopsWereAsked,
           ReportsWellFormed, [Next]_vars
    PROVE  SaidByPlace' /\ ReportsWellFormed'
<1>1. /\ \A t \in Tasks : SaidOf(t)
      /\ \A v \in Workers : \A t \in Tasks : SaidAt(v, t)
  BY DEF SaidByPlace, ReportsWellFormed, WellFormed, SaidOf, Started, Succeeded
<1> DEFINE Goal == \A t \in Tasks :
      SaidOf(t)' /\ \A v \in Workers : SaidAt(v, t)'
<1>2. SUFFICES Goal
  BY DEF SaidByPlace, ReportsWellFormed, WellFormed, SaidOf, Started, Succeeded
<1>3. CASE /\ UNCHANGED <<said, home, taskQueue, created, awaiting, cur, pc>>
           /\ asked \subseteq asked'
  BY <1>1, <1>3 DEF SaidAt, SaidOf, InQueue, WellFormed, Interrupted
<1> HIDE DEF Goal
<1>4. ASSUME NEW w \in Workers, Internal(w) \/ KillWorker(w) PROVE Goal
  <2>1. (WorkerStep(w) \/ Die(w)) /\ UNCHANGED <<home, asked>>
    BY <1>4 DEF Internal, KillWorker, managerVars
  <2>2. OthersKeep(w)
    BY <2>1, WorkerStepLocal
  <2>3. SUFFICES ASSUME NEW t \in Tasks
                 PROVE  SaidOf(t)' /\ \A v \in Workers : SaidAt(v, t)'
    BY DEF Goal
  <2>4. /\ SaidAt(w, t)' /\ WellFormed(t)'
        /\ said'[t] = said[t] \/ home[t] = w
    BY <2>1, WorkerStepSaid
  <2>5. \A v \in Workers \ {w} : SaidAt(v, t)'
    BY <1>1, <2>1, <2>2, <2>4, SaidElsewhere
  <2>6. SaidOf(t)'
    BY <1>1, <2>1, <2>4, NamesDiffer DEF SaidOf
  <2> QED BY <2>4, <2>5, <2>6
<1>5. ASSUME NEW w \in Workers, IncreaseWorker(w) PROVE Goal
  <2>1. /\ UNCHANGED <<said, asked, home, taskQueue, created, awaiting, cur>>
        /\ \A v \in Workers : pc'[v] = pc[v] \/ pc'[v] = "loop"
    BY <1>5, PlacesAreTyped DEF IncreaseWorker, PlacesTyped, managerVars
  <2>2. \A v \in Workers : \A t \in Tasks : InQueue(v, t)' <=> InQueue(v, t)
    BY <2>1 DEF InQueue
  <2> QED
    BY <1>1, <2>1, <2>2 DEF Goal, SaidAt, SaidOf, WellFormed, Interrupted
<1>6. ASSUME NEW w \in Workers, NEW uuid, SendKill(w, uuid), UNCHANGED home
      PROVE  Goal
  BY <1>3, <1>6 DEF SendKill, Goal
<1>7. ASSUME NEW w \in Workers, NEW u \in Tasks, Dispatch(w, u) PROVE Goal
  <2>1. /\ UNCHANGED <<said, asked, created, awaiting, cur, pc>>
        /\ home[u] = None
        /\ \A t \in Tasks \ {u} : home'[t] = home[t]
    BY <1>7 DEF Dispatch, TypeOK, ManagerTypeOK
  <2>2. said[u] = <<>>
    BY <1>1, <2>1 DEF SaidOf
  <2>3. \A v \in Workers : \A t \in Tasks \ {u} : InQueue(v, t)' => InQueue(v, t)
    <3>1. \A v \in Workers :
            taskQueue'[v] = IF v = w THEN Append(taskQueue[w], u) ELSE taskQueue[v]
      BY <1>7, PlacesAreTyped DEF Dispatch, PlacesTyped
    <3>2. taskQueue[w] \in Seq(Tasks)
      BY PlacesAreTyped DEF PlacesTyped
    <3>3. \A i \in 1..Len(Append(taskQueue[w], u)) :
            \/ /\ i \in 1..Len(taskQueue[w])
               /\ Append(taskQueue[w], u)[i] = taskQueue[w][i]
            \/ Append(taskQueue[w], u)[i] = u
      BY <3>2
    <3> QED BY <3>1, <3>3 DEF InQueue
  <2>4. \A v \in Workers : u \notin created[v] \cup awaiting[v] /\ cur[v] # u
    BY <2>1, NamesDiffer DEF OnePlace
  <2> QED
    BY <1>1, <2>1, <2>2, <2>3, <2>4
    DEF Goal, SaidAt, SaidOf, WellFormed, Interrupted
<1>8. CASE DispatchReport \/ ReadStatus \/ \E p \in Processes : FlushStep(p)
  BY <1>3, <1>8
  DEF DispatchReport, ReadStatus, FlushStep, workerVars, managerVars, Goal
<1>9. CASE UNCHANGED vars
  BY <1>3, <1>9 DEF vars, workerVars, managerVars, Goal
<1> QED
  BY <1>4, <1>5, <1>6, <1>7, <1>8, <1>9
  DEF Next, StopTask, StopWorker, SendKill, Goal

Inv == /\ TypeOK /\ HandFull /\ PendingSent /\ OnePlace
       /\ SaidByPlace /\ StopsWereAsked /\ ReportsWellFormed

\* The invariant of the theorems below.
LEMMA InvHolds == Spec => []Inv
<1>1. Init => Inv
  <2>1. Init => TypeOK /\ HandFull /\ PendingSent /\ OnePlace
    BY InitTyped, InitPlace DEF Init, WorkerInit, HandFull, PendingSent, InBlock
  <2>2. Init => SaidByPlace /\ ReportsWellFormed
    BY DEF Init, WorkerInit, SaidByPlace, SaidAt, InQueue, ReportsWellFormed,
       InBlock
  <2> QED BY <2>1, <2>2, InitStops DEF Inv
<1>2. Inv /\ [Next]_vars => Inv'
  BY NextTyped, NextHandFull, NextPlace, NextStops, NextSaid DEF Inv
<1> QED BY <1>1, <1>2, PTL DEF Spec

\* A task is run at most once, and what its worker reports of it is RUNNING and
\* at most one final status, whatever the queues, the threads, the stops and the
\* kills do; ERROR after SUCCESS is said only of a plain function that somebody
\* asked to stop or that has a timeout.
THEOREM ReportsAreWellFormed == Spec => []ReportsWellFormed
<1>1. Inv => ReportsWellFormed
  BY DEF Inv
<1> QED BY <1>1, InvHolds, PTL

\* The stop flag is raised only for a function whose own uuid was given to stop_task:
\* the monitor looks the function up when it handles the uuid, and a block begins with
\* a flag of its own.
THEOREM StopsAreTheirOwn == Spec => []StopsReachTheirOwn
<1>1. Inv => StopsReachTheirOwn
  BY DEF Inv, StopsWereAsked
<1> QED BY <1>1, InvHolds, PTL

-----------------------------------------------------------------------------
(* A stopped worker starts nothing.                                        *)

StartsNone(w) ==
    \A t \in Tasks : home[t] = w /\ said[t] = <<>> =>
      said'[t] = <<>> /\ ~(pc'[w] = "report" /\ cur'[w] = t)

\* A step of w itself: only ReportRunning speaks of a new task, and only
\* CheckStopped leads to it.
LEMMA OwnStepStartsNone ==
    ASSUME Inv, NEW w \in Workers, stopped[w], pc[w] # "report",
           WorkerStep(w) \/ Die(w)
    PROVE  StartsNone(w)
<1> SUFFICES ASSUME NEW t \in Tasks, home[t] = w, said[t] = <<>>
             PROVE  said'[t] = <<>> /\ ~(pc'[w] = "report" /\ cur'[w] = t)
  BY DEF StartsNone
<1>1. PlacesTyped /\ OnePlace /\ HandFull /\ \A u \in Tasks : SaidAt(w, u)
  BY PlacesAreTyped DEF Inv, SaidByPlace
<1>2. said \in [Tasks -> Seq({"RUNNING", "SUCCESS", "ERROR"})]
  BY DEF Inv, TypeOK, WorkerTypeOK
<1>3. Started # <<>> /\ Succeeded # <<>>
  BY DEF Started, Succeeded
<1>4. /\ pc[w] \in {"enter", "success", "err"} => cur[w] # t
      /\ t \notin created[w] \cup awaiting[w]
  BY <1>1, <1>3 DEF SaidAt
<1> USE DEF PlacesTyped
<1>5. CASE \/ TestStopped(w) \/ CheckStopped(w) \/ FindEmpty(w) \/ WakeUp(w)
           \/ CancelCoroutines(w) \/ CloseFeeder(w) \/ Exit(w)
  BY <1>1, <1>5
  DEF TestStopped, CheckStopped, FindEmpty, WakeUp, CancelCoroutines, CloseFeeder,
      Exit
<1>6. CASE EnterKillable(w)
  BY <1>1, <1>6 DEF EnterKillable
<1>7. CASE PutSuccess(w)
  BY <1>1, <1>2, <1>4, <1>7 DEF PutSuccess, Say
<1>8. CASE ReportError(w) \/ TimeoutRefused(w)
  BY <1>1, <1>2, <1>4, <1>8 DEF ReportError, TimeoutRefused, Say
<1>9. CASE LeaveKillable(w) \/ ErrorNotReported(w)
  BY <1>1, <1>9 DEF LeaveKillable, ErrorNotReported
<1>10. CASE TakeTask(w)
  BY <1>1, <1>10 DEF TakeTask
<1>11. CASE BodyEnds(w) \/ AlarmFires(w)
  BY <1>1, <1>11 DEF BodyEnds, BodyReturns, BodyRaises, AlarmFires
<1>12. CASE MonitorStep(w) \/ Heartbeat(w)
  BY <1>12 DEF MonitorStep, HandleControl, ReportStopped, Heartbeat
<1>13. ASSUME NEW u \in Tasks, StartAsync(w, u) \/ FinishAsync(w, u)
       PROVE  said'[t] = <<>> /\ ~(pc'[w] = "report" /\ cur'[w] = t)
  <2>1. u # t /\ UNCHANGED pc
    BY <1>4, <1>13 DEF StartAsync, FinishAsync
  <2>2. UNCHANGED said \/ \E s : said' = [said EXCEPT ![u] = Append(@, s)]
    BY <1>13 DEF StartAsync, FinishAsync, Say
  <2> QED BY <1>2, <2>1, <2>2
<1>14. CASE Die(w)
  BY <1>1, <1>14 DEF Die
<1> QED
  BY <1>5, <1>6, <1>7, <1>8, <1>9, <1>10, <1>11, <1>12, <1>13, <1>14
  DEF WorkerStep, MainStep, ReportRunning

\* Once stopped is set, only the task that already passed the second test of it
\* is started, whatever else happens at that moment.
THEOREM StoppedStartsNone == Spec => StoppedTakesNoTask
<1> DEFINE A == \A w \in Workers : stopped[w] /\ pc[w] # "report" => StartsNone(w)
<1>1. Inv /\ [Next]_vars => A
  <2> SUFFICES ASSUME Inv, [Next]_vars, NEW v \in Workers, stopped[v],
                      pc[v] # "report"
               PROVE  StartsNone(v)
    OBVIOUS
  <2>1. CASE UNCHANGED <<said, pc>>
    BY <2>1 DEF StartsNone
  <2>2. ASSUME NEW w \in Workers, WorkerStep(w) \/ Die(w),
               UNCHANGED <<home, asked>>
        PROVE  StartsNone(v)
    <3>1. CASE v = w
      BY <2>2, <3>1, OwnStepStartsNone
    <3>2. CASE v # w
      <4>1. \A t \in Tasks : said'[t] = said[t] \/ home[t] = w
        BY <2>2, WorkerStepSaid DEF Inv
      <4>2. OthersKeep(w)
        BY <2>2, WorkerStepLocal DEF Inv
      <4> QED BY <3>2, <4>1, <4>2 DEF StartsNone, OthersKeep
    <3> QED BY <3>1, <3>2
  <2>3. ASSUME NEW w \in Workers, IncreaseWorker(w) PROVE StartsNone(v)
    BY <2>3, PlacesAreTyped DEF IncreaseWorker, PlacesTyped, StartsNone, Inv
  <2>4. ASSUME NEW w \in Workers, NEW uuid, SendKill(w, uuid)
        PROVE  StartsNone(v)
    BY <2>1, <2>4 DEF SendKill
  <2>5. ASSUME NEW w \in Workers, NEW t \in Tasks, Dispatch(w, t)
        PROVE  StartsNone(v)
    BY <2>1, <2>5 DEF Dispatch
  <2>6. CASE DispatchReport \/ ReadStatus \/ \E p \in Processes : FlushStep(p)
    BY <2>1, <2>6 DEF DispatchReport, ReadStatus, FlushStep, workerVars
  <2>7. CASE UNCHANGED vars
    BY <2>1, <2>7 DEF vars, workerVars
  <2> QED
    BY <2>2, <2>3, <2>4, <2>5, <2>6, <2>7
    DEF Next, Internal, KillWorker, StopTask, StopWorker, managerVars
<1>2. A => [\A w \in Workers : stopped[w] /\ pc[w] # "report" =>
         \A t \in Tasks : home[t] = w /\ said[t] = <<>> =>
           said'[t] = <<>> /\ ~(pc'[w] = "report" /\ cur'[w] = t)]_vars
  BY DEF StartsNone
<1>3. Spec => [][A]_vars
  BY <1>1, InvHolds, PTL DEF Spec
<1> QED BY <1>2, <1>3, PTL DEF StoppedTakesNoTask, StartsNone

-----------------------------------------------------------------------------
(* The state of a worker and its sandbox.                                  *)

\* While the body of a state generator runs, the sandbox is its own and the
\* state is still the one it was called with.
Owns(w) == pc[w] = "body" /\ cur[w] \in StateTasks =>
             sandbox[w] = cur[w] /\ basis[cur[w]] = state[w]
BodyOwnsState == \A w \in Workers : Owns(w)

StateTyped == /\ state \in [Workers -> SUBSET StateTasks]
              /\ sandbox \in [Workers -> StateTasks \cup {None}]
              /\ maker \in [Workers -> StateTasks \cup {None}]
              /\ basis \in [StateTasks -> SUBSET StateTasks]

\* Of the steps of w, these three touch the state.
StateStep(w) ==
    \/ EnterKillable(w) \/ BodyReturns(w)
    \/ \E t \in Tasks : StartAsync(w, t) \/ FinishAsync(w, t)

LEMMA OtherStepsKeepState ==
    ASSUME NEW w \in Workers, WorkerStep(w) \/ Die(w), ~StateStep(w)
    PROVE  UNCHANGED stateVars
BY DEF StateStep, WorkerStep, MainStep, MonitorStep, BodyEnds, TestStopped,
       CheckStopped, FindEmpty, WakeUp, CloseFeeder, Exit, ReportRunning,
       PutSuccess, LeaveKillable, ReportError, ErrorNotReported, Forget,
       TakeTask, BodyRaises, AlarmFires, HandleControl, ReportStopped,
       Heartbeat, CancelCoroutines, TimeoutRefused, Die

\* What Prepare and Install touch.
LEMMA PrepareLocal ==
    ASSUME StateTyped, NEW w \in Workers, NEW t \in Tasks, Prepare(w, t)
    PROVE  /\ UNCHANGED <<state, maker>>
           /\ \A v \in Workers \ {w} : sandbox'[v] = sandbox[v]
           /\ \A u \in StateTasks \ {t} : basis'[u] = basis[u]
           /\ t \in StateTasks => sandbox'[w] = t /\ basis'[t] = state[w]
BY DEF Prepare, StateTyped

LEMMA InstallLocal ==
    ASSUME StateTyped, NEW w \in Workers, NEW t \in Tasks, Install(w, t)
    PROVE  /\ UNCHANGED <<sandbox, basis>>
           /\ \A v \in Workers \ {w} : state'[v] = state[v] /\ maker'[v] = maker[v]
           /\ IF t \in StateTasks
                THEN state'[w] = basis[t] \cup {t} /\ maker'[w] = t
                ELSE state'[w] = state[w] /\ maker'[w] = maker[w]
BY DEF Install, StateTyped

\* A step of w changes the state and the sandbox of w only, and the basis of its
\* own tasks only.
LEMMA WorkerStepOwns ==
    ASSUME Inv, NEW w \in Workers, Owns(w), WorkerStep(w) \/ Die(w)
    PROVE  /\ Owns(w)'
           /\ \A v \in Workers \ {w} : /\ state'[v] = state[v]
                                       /\ sandbox'[v] = sandbox[v]
           /\ \A t \in StateTasks : home[t] # w => basis'[t] = basis[t]
<1>1. StateTyped /\ PlacesTyped /\ OnePlace /\ HandFull
  BY PlacesAreTyped DEF Inv, TypeOK, WorkerTypeOK, StateTyped
<1>2. CASE EnterKillable(w)
  <2>1. PICK t \in Tasks : t = cur[w] /\ home[t] = w
    BY <1>1, <1>2, NamesDiffer DEF EnterKillable, HandFull, OnePlace
  <2>2. pc'[w] \in {"body", "err"} /\ cur'[w] = t
    BY <1>1, <1>2, <2>1 DEF EnterKillable, PlacesTyped
  <2>3. CASE UNCHANGED stateVars /\ pc'[w] # "body"
    BY <2>3 DEF Owns
  <2>4. CASE Prepare(w, t)
    BY <1>1, <2>1, <2>2, <2>4, PrepareLocal DEF Owns
  <2> QED
    BY <1>1, <1>2, <2>1, <2>3, <2>4 DEF EnterKillable, PlacesTyped
<1>3. CASE BodyReturns(w)
  <2>1. PICK t \in Tasks : t = cur[w]
    BY <1>1, <1>3 DEF BodyReturns, HandFull, InBlock
  <2>2. pc'[w] = "success" /\ Install(w, t) /\ pc[w] = "body"
    BY <1>1, <1>3, <2>1 DEF BodyReturns, PlacesTyped
  <2> QED BY <1>1, <2>1, <2>2, InstallLocal DEF Owns
<1>4. ASSUME NEW t \in Tasks, StartAsync(w, t)
      PROVE  /\ Owns(w)' /\ UNCHANGED state
             /\ \A v \in Workers \ {w} : sandbox'[v] = sandbox[v]
             /\ \A u \in StateTasks : home[u] # w => basis'[u] = basis[u]
  <2>1. home[t] = w /\ UNCHANGED pc /\ pc[w] \in {"sleep", "last"}
    BY <1>1, <1>4 DEF StartAsync, OnePlace
  <2>2. CASE Prepare(w, t)
    BY <1>1, <2>1, <2>2, PrepareLocal DEF Owns
  <2>3. CASE UNCHANGED stateVars
    BY <2>1, <2>3 DEF Owns
  <2> QED BY <1>4, <2>2, <2>3 DEF StartAsync
<1>5. ASSUME NEW t \in Tasks, FinishAsync(w, t)
      PROVE  /\ Owns(w)' /\ UNCHANGED <<sandbox, basis>>
             /\ \A v \in Workers \ {w} : state'[v] = state[v]
  <2>1. UNCHANGED pc /\ pc[w] \in {"sleep", "last"}
    BY <1>5 DEF FinishAsync
  <2>2. CASE Install(w, t)
    BY <1>1, <2>1, <2>2, InstallLocal DEF Owns
  <2>3. CASE UNCHANGED stateVars
    BY <2>1, <2>3 DEF Owns
  <2> QED BY <1>5, <2>2, <2>3 DEF FinishAsync
<1>7. CASE ~StateStep(w)
  <2>1. UNCHANGED stateVars
    BY <1>7, OtherStepsKeepState
  <2>2. pc'[w] = "body" => pc[w] = "body" /\ cur'[w] = cur[w]
    BY <1>1, <1>7
    DEF StateStep, WorkerStep, MainStep, MonitorStep, BodyEnds, TestStopped,
        CheckStopped, FindEmpty, WakeUp, CloseFeeder, Exit, ReportRunning,
        PutSuccess, LeaveKillable, ReportError, ErrorNotReported,
        TakeTask, BodyRaises, AlarmFires, HandleControl, ReportStopped,
        Heartbeat, CancelCoroutines, TimeoutRefused, Die, PlacesTyped
  <2> QED BY <2>1, <2>2 DEF Owns
<1> QED BY <1>2, <1>3, <1>4, <1>5, <1>7 DEF StateStep

\* Steps of the manager, of the queues' feeders and of callers.
ManagerStep ==
    \/ \E w \in Workers : \/ IncreaseWorker(w)
                          \/ \E uuid \in Stoppable : SendKill(w, uuid)
                          \/ \E t \in Tasks : Dispatch(w, t)
    \/ DispatchReport \/ ReadStatus
    \/ \E p \in Processes : FlushStep(p)
    \/ UNCHANGED vars

LEMMA NextByActor ==
    ASSUME [Next]_vars
    PROVE  \/ ManagerStep
           \/ \E w \in Workers : (WorkerStep(w) \/ Die(w)) /\ UNCHANGED managerVars
<1>1. ASSUME NEW w \in Workers, NEW uuid, SendKill(w, uuid) PROVE ManagerStep
  BY <1>1 DEF ManagerStep, SendKill
<1> QED
  BY <1>1 DEF Next, ManagerStep, Internal, KillWorker, StopTask, StopWorker

LEMMA ManagerStepKeeps ==
    ASSUME TypeOK, ManagerStep
    PROVE  UNCHANGED stateVars /\ \A w \in Workers : Owns(w) => Owns(w)'
<1>1. PlacesTyped
  BY PlacesAreTyped
<1>2. UNCHANGED <<cur, stateVars>>
  BY DEF ManagerStep, IncreaseWorker, SendKill, Dispatch, DispatchReport,
     ReadStatus, FlushStep, vars, workerVars
<1>3. UNCHANGED pc \/ \E w \in Workers : pc' = [pc EXCEPT ![w] = "loop"]
  BY DEF ManagerStep, IncreaseWorker, SendKill, Dispatch, DispatchReport,
     ReadStatus, FlushStep, vars, workerVars
<1>4. \A w \in Workers : pc'[w] = pc[w] \/ pc'[w] = "loop"
  BY <1>1, <1>3 DEF PlacesTyped
<1> QED BY <1>2, <1>4 DEF Owns

\* The body of a state generator keeps the state and the sandbox it began with,
\* so the state it installs adds to the state that is there.
LEMMA NextOwns == Inv /\ BodyOwnsState /\ [Next]_vars => BodyOwnsState'
<1> SUFFICES ASSUME Inv, BodyOwnsState, [Next]_vars, NEW v \in Workers
             PROVE  Owns(v)'
  BY DEF BodyOwnsState
<1>1. CASE ManagerStep
  BY <1>1, ManagerStepKeeps DEF Inv, BodyOwnsState
<1>2. ASSUME NEW w \in Workers, WorkerStep(w) \/ Die(w) PROVE Owns(v)'
  <2>1. CASE v = w
    BY <1>2, <2>1, WorkerStepOwns DEF BodyOwnsState
  <2>2. CASE v # w
    <3>1. OthersKeep(w)
      BY <1>2, WorkerStepLocal DEF Inv
    <3>2. state'[v] = state[v] /\ sandbox'[v] = sandbox[v]
      BY <1>2, <2>2, WorkerStepOwns DEF BodyOwnsState
    <3>3. cur[v] \in StateTasks => basis'[cur[v]] = basis[cur[v]]
      <4>1. cur[v] \in StateTasks => home[cur[v]] = v
        BY NamesDiffer, TaskSetsAssumption DEF Inv, OnePlace
      <4> QED BY <1>2, <2>2, <4>1, WorkerStepOwns DEF BodyOwnsState
    <3> QED BY <2>2, <3>1, <3>2, <3>3 DEF Owns, OthersKeep, BodyOwnsState
  <2> QED BY <2>1, <2>2
<1> QED BY <1>1, <1>2, NextByActor

LEMMA OwnsHolds == Spec => []BodyOwnsState
<1>1. Init => BodyOwnsState
  BY DEF Init, WorkerInit, BodyOwnsState, Owns
<1> QED BY <1>1, NextOwns, InvHolds, PTL DEF Spec

\* The three ways in which a step touches the state of a worker: a generator is
\* called, a plain one returns, a coroutine one returns.
Calls(w, t) ==
    /\ Prepare(w, t) /\ UNCHANGED home
    /\ home[t] = w /\ said[t] = Started
    /\ pc[w] \in {"enter", "sleep", "last"}
    /\ \/ UNCHANGED awaiting
       \/ awaiting' = [awaiting EXCEPT ![w] = @ \cup {t}]
    /\ t \notin awaiting[w]

Returns(w, t) ==
    /\ Install(w, t) /\ UNCHANGED <<home, awaiting>>
    /\ home[t] = w /\ cur[w] = t /\ cur'[w] = t
    /\ pc[w] = "body" /\ pc'[w] = "success"

ReturnsLate(w, t) ==
    /\ Install(w, t) /\ UNCHANGED home
    /\ t \in AsyncTasks /\ t \in awaiting[w]
    /\ awaiting' = [awaiting EXCEPT ![w] = @ \ {t}]
    /\ said'[t] = Append(said[t], "SUCCESS")

StateUntouched ==
    /\ UNCHANGED stateVars
    /\ \A v \in Workers : awaiting'[v] \cap StateTasks \subseteq awaiting[v]

StateMove ==
    \/ StateUntouched
    \/ \E w \in Workers, t \in StateTasks :
         Calls(w, t) \/ Returns(w, t) \/ ReturnsLate(w, t)

LEMMA WorkerStepMoves ==
    ASSUME Inv, NEW w \in Workers, WorkerStep(w) \/ Die(w), UNCHANGED home
    PROVE  StateMove
<1>1. StateTyped /\ PlacesTyped /\ OnePlace /\ HandFull /\ OthersKeep(w)
  BY PlacesAreTyped, WorkerStepLocal DEF Inv, TypeOK, WorkerTypeOK, StateTyped
<1>2. \A t \in Tasks : SaidAt(w, t)
  BY DEF Inv, SaidByPlace
<1>3. awaiting'[w] \subseteq awaiting[w] => \A v \in Workers :
        awaiting'[v] \cap StateTasks \subseteq awaiting[v]
  BY <1>1 DEF OthersKeep
<1>4. CASE EnterKillable(w)
  <2>1. PICK t \in Tasks : t = cur[w] /\ home[t] = w /\ t \notin awaiting[w]
    BY <1>1, <1>4, NamesDiffer DEF EnterKillable, HandFull, OnePlace
  <2>2. /\ UNCHANGED awaiting /\ pc[w] = "enter"
        /\ Prepare(w, t) \/ UNCHANGED stateVars
    BY <1>4, <2>1 DEF EnterKillable
  <2>3. said[t] = Started
    BY <1>2, <2>1, <2>2 DEF SaidAt
  <2>4. CASE UNCHANGED stateVars
    BY <1>3, <2>2, <2>4 DEF StateMove, StateUntouched
  <2>5. CASE Prepare(w, t) /\ t \in StateTasks
    BY <2>1, <2>2, <2>3, <2>5 DEF StateMove, Calls
  <2> QED BY <2>2, <2>4, <2>5 DEF Prepare
<1>5. CASE BodyReturns(w)
  <2>1. PICK t \in Tasks : t = cur[w] /\ home[t] = w
    BY <1>1, <1>5, NamesDiffer DEF BodyReturns, HandFull, InBlock, OnePlace
  <2>2. /\ pc'[w] = "success" /\ Install(w, t) /\ pc[w] = "body"
        /\ UNCHANGED <<cur, awaiting>>
    BY <1>1, <1>5, <2>1 DEF BodyReturns, PlacesTyped
  <2>3. CASE t \in StateTasks
    BY <2>1, <2>2, <2>3 DEF StateMove, Returns
  <2>4. CASE t \notin StateTasks
    BY <1>3, <2>2, <2>4 DEF StateMove, StateUntouched, Install
  <2> QED BY <2>3, <2>4
<1>6. ASSUME NEW t \in Tasks, StartAsync(w, t) PROVE StateMove
  <2>1. /\ home[t] = w /\ t \notin awaiting[w] /\ said[t] = Started
        /\ pc[w] \in {"sleep", "last"}
    BY <1>1, <1>2, <1>6 DEF StartAsync, OnePlace, SaidAt
  <2>2. CASE /\ awaiting' = [awaiting EXCEPT ![w] = @ \cup {t}]
             /\ Prepare(w, t)
    <3>1. CASE t \in StateTasks
      BY <2>1, <2>2, <3>1 DEF StateMove, Calls
    <3>2. CASE t \notin StateTasks
      BY <1>1, <2>2, <3>2 DEF StateMove, StateUntouched, Prepare, PlacesTyped
    <3> QED BY <3>1, <3>2
  <2>3. CASE UNCHANGED <<awaiting, stateVars>>
    BY <1>3, <2>3 DEF StateMove, StateUntouched
  <2> QED BY <1>6, <2>2, <2>3 DEF StartAsync
<1>7. ASSUME NEW t \in Tasks, FinishAsync(w, t) PROVE StateMove
  <2>1. /\ t \in awaiting[w] /\ t \in AsyncTasks
        /\ awaiting' = [awaiting EXCEPT ![w] = @ \ {t}]
    BY <1>1, <1>7 DEF FinishAsync, PlacesTyped
  <2>2. awaiting'[w] \subseteq awaiting[w]
    BY <1>1, <2>1 DEF PlacesTyped
  <2>3. CASE Say(w, t, "SUCCESS") /\ Install(w, t)
    <3>1. said'[t] = Append(said[t], "SUCCESS")
      BY <2>3 DEF Say, Inv, TypeOK, WorkerTypeOK
    <3>2. CASE t \in StateTasks
      BY <2>1, <2>3, <3>1, <3>2 DEF StateMove, ReturnsLate
    <3>3. CASE t \notin StateTasks
      BY <1>3, <2>2, <2>3, <3>3 DEF StateMove, StateUntouched, Install
    <3> QED BY <3>2, <3>3
  <2>4. CASE UNCHANGED stateVars
    BY <1>3, <2>2, <2>4 DEF StateMove, StateUntouched
  <2> QED BY <1>7, <2>3, <2>4 DEF FinishAsync
<1>8. CASE ~StateStep(w)
  <2>1. UNCHANGED stateVars
    BY <1>8, OtherStepsKeepState
  <2>2. awaiting'[w] \subseteq awaiting[w]
    BY <1>1, <1>8
    DEF StateStep, WorkerStep, MainStep, MonitorStep, BodyEnds, TestStopped,
        CheckStopped, FindEmpty, WakeUp, CloseFeeder, Exit, ReportRunning,
        PutSuccess, LeaveKillable, ReportError, ErrorNotReported, Forget,
        TakeTask, BodyRaises, AlarmFires, HandleControl, ReportStopped,
        Heartbeat, CancelCoroutines, TimeoutRefused, Die, PlacesTyped
  <2> QED BY <1>3, <2>1, <2>2 DEF StateMove, StateUntouched
<1> QED BY <1>4, <1>5, <1>6, <1>7, <1>8 DEF StateStep

LEMMA StateMoves == Inv /\ [Next]_vars => StateMove
<1> SUFFICES ASSUME Inv, [Next]_vars PROVE StateMove
  OBVIOUS
<1>1. CASE ManagerStep
  <2>1. UNCHANGED stateVars
    BY <1>1, ManagerStepKeeps DEF Inv
  <2>2. UNCHANGED awaiting
    BY <1>1 DEF ManagerStep, IncreaseWorker, SendKill, Dispatch, DispatchReport,
       ReadStatus, FlushStep, vars, workerVars
  <2> QED BY <2>1, <2>2 DEF StateMove, StateUntouched
<1>2. ASSUME NEW w \in Workers, WorkerStep(w) \/ Die(w), UNCHANGED managerVars
      PROVE  StateMove
  BY <1>2, WorkerStepMoves
<1> QED BY <1>1, <1>2, NextByActor

\* How the state of w may change.
StateKept(w) ==
    state'[w] # state[w] =>
      \/ /\ pc[w] = "body" /\ pc'[w] = "success"
         /\ state'[w] = state[w] \cup {cur[w]}
      \/ \E t \in AsyncTasks \cap StateTasks :
           /\ t \in awaiting[w] \ awaiting'[w]
           /\ said'[t] = Append(said[t], "SUCCESS")

LEMMA StateKeptByMoves ==
    ASSUME Inv, BodyOwnsState, StateMove, NEW v \in Workers
    PROVE  StateKept(v)
<1>1. StateTyped /\ PlacesTyped
  BY PlacesAreTyped DEF Inv, TypeOK, WorkerTypeOK, StateTyped
<1>2. CASE StateUntouched
  BY <1>2 DEF StateUntouched, StateKept
<1>3. ASSUME NEW w \in Workers, NEW t \in StateTasks, Calls(w, t)
      PROVE  StateKept(v)
  BY <1>3 DEF Calls, Prepare, StateKept
<1>4. ASSUME NEW w \in Workers, NEW t \in StateTasks, Returns(w, t)
      PROVE  StateKept(v)
  <2>1. /\ v # w => state'[v] = state[v]
        /\ state'[w] = basis[t] \cup {t}
    BY <1>1, <1>4 DEF Returns, Install, StateTyped
  <2>2. basis[t] = state[w] /\ cur[w] = t
    BY <1>4 DEF Returns, BodyOwnsState, Owns
  <2> QED BY <1>4, <2>1, <2>2 DEF Returns, StateKept
<1>5. ASSUME NEW w \in Workers, NEW t \in StateTasks, ReturnsLate(w, t)
      PROVE  StateKept(v)
  <2>1. v # w => state'[v] = state[v]
    BY <1>1, <1>5 DEF ReturnsLate, Install, StateTyped
  <2>2. t \in awaiting[w] /\ t \notin awaiting'[w]
    BY <1>1, <1>5 DEF ReturnsLate, PlacesTyped
  <2> QED BY <1>5, <2>1, <2>2 DEF ReturnsLate, StateKept
<1> QED BY <1>2, <1>3, <1>4, <1>5 DEF StateMove

\* Worker.state changes only when a generator returns; a plain one was called with
\* the state that is still there, so it adds to it, and one that fails or is
\* stopped leaves it as it was.
THEOREM StateIsKept == Spec => PlainTasksKeepState
<1>1. Inv /\ BodyOwnsState /\ [Next]_vars => \A w \in Workers : StateKept(w)
  BY StateMoves, StateKeptByMoves
<1> QED
  BY <1>1, InvHolds, OwnsHolds, PTL DEF Spec, PlainTasksKeepState, StateKept

-----------------------------------------------------------------------------
(* The statuses that a sequence of messages reports of a task.             *)

Status == TaskStatus \cup {None}

LEMMA AppendFacts ==
    ASSUME NEW X, NEW a \in Seq(X), NEW b \in Seq(X), NEW x \in X
    PROVE  /\ Append(a, x) = a \o <<x>>
           /\ Append(a \o b, x) = a \o Append(b, x)
<1>1. /\ Append(a, x) = a \o <<x>> /\ Append(b, x) = b \o <<x>>
      /\ <<x>> \in Seq(X) /\ a \o b \in Seq(X)
  BY AppendIsConcat, ConcatProperties
<1>2. Append(a \o b, x) = (a \o b) \o <<x>>
  BY <1>1, AppendIsConcat
<1> QED BY <1>1, <1>2, ConcatAssociative

LEMMA HeadFacts ==
    ASSUME NEW X, NEW a \in Seq(X), a # <<>>
    PROVE  /\ Head(a) \in X /\ Tail(a) \in Seq(X)
           /\ a = <<Head(a)>> \o Tail(a)
<1>1. /\ Head(a) \in X /\ Tail(a) \in Seq(X)
      /\ <<Head(a)>> \in Seq(X) /\ Len(<<Head(a)>>) = 1
  OBVIOUS
<1>2. /\ <<Head(a)>> \o Tail(a) \in Seq(X)
      /\ Len(<<Head(a)>> \o Tail(a)) = Len(a)
      /\ \A i \in 1..Len(a) : (<<Head(a)>> \o Tail(a))[i] = a[i]
  OBVIOUS
<1> QED BY <1>1, <1>2, SeqEqual

\* The function of the definition of Statuses.
StatusesUpto(s, t, S, g) ==
    /\ g \in [0..Len(s) -> Seq(Status)]
    /\ g[0] = <<>>
    /\ \A n \in 1..Len(s) :
         g[n] = IF s[n].task = t /\ s[n].status \in S
                  THEN Append(g[n - 1], s[n].status) ELSE g[n - 1]

LEMMA StatusesEquation ==
    ASSUME NEW s \in Seq(Message), NEW t, NEW S
    PROVE  \E g : StatusesUpto(s, t, S, g) /\ Statuses(s, t, S) = g[Len(s)]
<1> DEFINE N == Len(s)
           X == Seq(Status)
           one(n, x) == IF s[n].task = t /\ s[n].status \in S
                          THEN Append(x, s[n].status) ELSE x
           step == [n \in 1..N |-> [x \in X |-> one(n, x)]]
           Solves(h) == h = [n \in 0..N |->
                               IF n = 0 THEN <<>>
                               ELSE IF s[n].task = t /\ s[n].status \in S
                                      THEN Append(h[n - 1], s[n].status)
                                      ELSE h[n - 1]]
<1>1. N \in Nat
  OBVIOUS
<1>2. ASSUME NEW n \in 1..N PROVE s[n].status \in Status
  <2>1. s[n] \in Message
    OBVIOUS
  <2> QED BY <2>1 DEF Message, Status
<1>3. \A n \in 1..N, x \in X : step[n][x] = one(n, x)
  OBVIOUS
<1>4. ASSUME NEW n \in 1..N, NEW x \in X PROVE one(n, x) \in X
  <2>1. Append(x, s[n].status) \in X
    BY <1>2
  <2> QED BY <2>1
<1>5. \A n \in 1..N, x \in X : step[n][x] \in X
  BY <1>3, <1>4
<1>6. <<>> \in X
  OBVIOUS
<1> HIDE DEF step, X
<1>7. PICK g : Iterates(g, N, X, <<>>, step)
  <2> HIDE DEF N
  <2> QED BY <1>1, <1>5, <1>6, Iteration
<1>8. /\ g \in [0..N -> X] /\ g[0] = <<>>
      /\ \A n \in 1..N : g[n] = one(n, g[n - 1])
  <2>1. g \in [0..N -> X] /\ g[0] = <<>> /\ \A n \in 1..N : g[n] = step[n][g[n - 1]]
    BY <1>7 DEF Iterates
  <2>2. \A n \in 1..N : n - 1 \in 0..N
    BY <1>1
  <2>3. \A n \in 1..N : g[n - 1] \in X
    BY <2>1, <2>2
  <2> QED BY <1>3, <2>1, <2>3
<1>9. Solves(g)
  <2>1. g = [n \in 0..N |-> g[n]]
    BY <1>8
  <2>2. \A n \in 0..N : n # 0 => n \in 1..N
    BY <1>1
  <2>3. \A n \in 0..N : g[n] = IF n = 0 THEN <<>> ELSE one(n, g[n - 1])
    BY <1>8, <2>2
  <2> HIDE DEF N
  <2> QED BY <2>1, <2>3
<1>10. PICK f : Solves(f) /\ Statuses(s, t, S) = f[N]
  <2> DEFINE f == CHOOSE h : Solves(h)
  <2>1. Statuses(s, t, S) = f[N]
    BY DEF Statuses
  <2> HIDE DEF Solves
  <2>2. Solves(f)
    BY <1>9
  <2> QED BY <2>1, <2>2
<1>11. /\ f[0] = <<>>
       /\ \A n \in 1..N : f[n] = one(n, f[n - 1])
  <2>1. \A n \in 0..N : f[n] = IF n = 0 THEN <<>> ELSE one(n, f[n - 1])
    BY <1>10
  <2>2. 0 \in 0..N /\ \A n \in 1..N : n \in 0..N /\ n # 0
    BY <1>1
  <2> HIDE DEF N, one
  <2> QED BY <2>1, <2>2
<1>12. \A n \in 0..N : f[n] = g[n]
  <2> DEFINE T == {n \in 0..N : f[n] = g[n]}
  <2>1. 0 \in T
    BY <1>1, <1>8, <1>11
  <2>2. ASSUME NEW n \in 0..N, n # N, n \in T PROVE n + 1 \in T
    <3>1. n + 1 \in 1..N /\ n + 1 \in 0..N /\ (n + 1) - 1 = n
      BY <1>1, <2>2
    <3> HIDE DEF N, one
    <3> QED BY <1>8, <1>11, <2>2, <3>1
  <2> HIDE DEF N, T
  <2>3. \A n \in 0..N : n \in T
    BY <1>1, <2>1, <2>2, Induction
  <2> QED BY <2>3 DEF T
<1>13. Statuses(s, t, S) = g[N]
  BY <1>1, <1>10, <1>12
<1>14. StatusesUpto(s, t, S, g)
  BY <1>8 DEF StatusesUpto, X
<1> QED BY <1>13, <1>14

\* The statuses are statuses, an empty sequence has none, and a message more is
\* a status more if it is about the task.
LEMMA StatusesFacts ==
    ASSUME NEW s \in Seq(Message), NEW t, NEW S
    PROVE  /\ Statuses(s, t, S) \in Seq(Status)
           /\ s = <<>> => Statuses(s, t, S) = <<>>
<1>1. PICK g : StatusesUpto(s, t, S, g) /\ Statuses(s, t, S) = g[Len(s)]
  BY StatusesEquation
<1> QED BY <1>1 DEF StatusesUpto

LEMMA StatusesAppend ==
    ASSUME NEW s \in Seq(Message), NEW m \in Message, NEW t, NEW S
    PROVE  Statuses(Append(s, m), t, S) =
             IF m.task = t /\ m.status \in S
               THEN Append(Statuses(s, t, S), m.status) ELSE Statuses(s, t, S)
<1> DEFINE N == Len(s)
           r == Append(s, m)
<1>1. N \in Nat /\ r \in Seq(Message) /\ Len(r) = N + 1 /\ r[N + 1] = m
      /\ \A n \in 1..N : r[n] = s[n]
  OBVIOUS
<1>2. PICK g : StatusesUpto(s, t, S, g) /\ Statuses(s, t, S) = g[N]
  BY StatusesEquation
<1>3. PICK h : StatusesUpto(r, t, S, h) /\ Statuses(r, t, S) = h[N + 1]
  BY <1>1, StatusesEquation
<1> HIDE DEF N, r
<1>4. h[N] = g[N]
  <2> DEFINE T == {n \in 0..N : h[n] = g[n]}
  <2>1. 0 \in T
    BY <1>1, <1>2, <1>3 DEF StatusesUpto
  <2>2. ASSUME NEW n \in 0..N, n # N, n \in T PROVE n + 1 \in T
    <3>1. n + 1 \in 1..N /\ n + 1 \in 1..N + 1 /\ n + 1 \in 0..N /\ (n + 1) - 1 = n
      BY <1>1, <2>2
    <3>2. /\ g[n + 1] = IF s[n + 1].task = t /\ s[n + 1].status \in S
                          THEN Append(g[n], s[n + 1].status) ELSE g[n]
          /\ h[n + 1] = IF s[n + 1].task = t /\ s[n + 1].status \in S
                          THEN Append(h[n], s[n + 1].status) ELSE h[n]
      BY <1>1, <1>2, <1>3, <3>1 DEF StatusesUpto, N
    <3> QED BY <2>2, <3>1, <3>2
  <2> HIDE DEF T
  <2>3. \A n \in 0..N : n \in T
    BY <1>1, <2>1, <2>2, Induction
  <2> QED BY <1>1, <2>3 DEF T
<1>5. h[N + 1] = IF m.task = t /\ m.status \in S
                   THEN Append(h[N], m.status) ELSE h[N]
  <2>1. N + 1 \in 1..Len(r) /\ (N + 1) - 1 = N
    BY <1>1
  <2> QED BY <1>1, <1>3, <2>1 DEF StatusesUpto
<1> QED BY <1>2, <1>3, <1>4, <1>5 DEF r

\* The statuses of two sequences one after the other.
LEMMA StatusesConcat ==
    ASSUME NEW a \in Seq(Message), NEW b \in Seq(Message), NEW t, NEW S
    PROVE  Statuses(a \o b, t, S) = Statuses(a, t, S) \o Statuses(b, t, S)
<1> DEFINE N == Len(b)
           front(n) == SubSeq(b, 1, n)
           T == {n \in 0..N : Statuses(a \o front(n), t, S)
                                = Statuses(a, t, S) \o Statuses(front(n), t, S)}
<1>1. N \in Nat /\ front(N) = b /\ front(0) = <<>>
  BY SubSeqFull, SubSeqEmpty
<1>2. ASSUME NEW n \in 0..N PROVE front(n) \in Seq(Message)
  <2>1. \A i \in 1..n : b[i] \in Message
    OBVIOUS
  <2> QED BY <2>1, SubSeqProperties
<1>3. 0 \in T
  <2>1. /\ front(0) \in Seq(Message) /\ a \o front(0) = a
        /\ Statuses(a, t, S) \in Seq(Status) /\ Statuses(front(0), t, S) = <<>>
    <3> HIDE DEF front
    <3> QED BY <1>1, <1>2, StatusesFacts, ConcatEmptySeq
  <2>2. Statuses(a, t, S) \o <<>> = Statuses(a, t, S)
    BY <2>1, ConcatEmptySeq
  <2>3. 0 \in 0..N
    BY <1>1
  <2> HIDE DEF front, N
  <2> QED BY <2>1, <2>2, <2>3
<1>4. ASSUME NEW n \in 0..N, n # N, n \in T PROVE n + 1 \in T
  <2> DEFINE c == front(n)
             m == b[n + 1]
             x == Statuses(a, t, S)
             y == Statuses(c, t, S)
  <2>1. x \o y = Statuses(a \o c, t, S)
    BY <1>4
  <2> HIDE DEF T
  <2>2. n + 1 \in 1..N /\ n + 1 \in 0..N
    <3>1. N \in Nat /\ n \in 0..N /\ n # N
      BY <1>1, <1>4
    <3> HIDE DEF N
    <3> QED BY <3>1
  <2>3. c \in Seq(Message) /\ m \in Message
    BY <1>2, <2>2
  <2>4. front(n + 1) = Append(c, m)
    <3>1. front(n + 1) = c \o <<m>>
      BY <2>2, SubSeqRecursiveSecond
    <3> HIDE DEF c, m, front
    <3> QED BY <2>3, <3>1, AppendIsConcat
  <2> HIDE DEF c, m, front
  <2>5. a \o c \in Seq(Message) /\ a \o Append(c, m) = Append(a \o c, m)
    BY <2>3, AppendFacts, ConcatProperties
  <2>6. x \in Seq(Status) /\ y \in Seq(Status) /\ m.status \in Status
    BY <2>3, StatusesFacts DEF Message, Status
  <2>7. Statuses(Append(c, m), t, S) =
          IF m.task = t /\ m.status \in S THEN Append(y, m.status) ELSE y
    BY <2>3, StatusesAppend
  <2>8. Statuses(Append(a \o c, m), t, S) =
          IF m.task = t /\ m.status \in S
            THEN Append(Statuses(a \o c, t, S), m.status) ELSE Statuses(a \o c, t, S)
    <3> DEFINE ac == a \o c
    <3> HIDE DEF ac
    <3>1. ac \in Seq(Message)
      BY <2>5 DEF ac
    <3>2. Statuses(Append(ac, m), t, S) =
            IF m.task = t /\ m.status \in S
              THEN Append(Statuses(ac, t, S), m.status) ELSE Statuses(ac, t, S)
      BY <2>3, <3>1, StatusesAppend
    <3> QED BY <3>2 DEF ac
  <2> HIDE DEF x, y
  <2>9. Append(x \o y, m.status) = x \o Append(y, m.status)
    <3> DEFINE st == m.status
    <3> HIDE DEF st
    <3>1. st \in Status
      BY <2>6 DEF st
    <3>2. Append(x \o y, st) = x \o Append(y, st)
      <4>1. Append(y, st) = y \o <<st>> /\ <<st>> \in Seq(Status) /\ x \o y \in Seq(Status)
        BY <2>6, <3>1, AppendIsConcat, ConcatProperties
      <4>2. Append(x \o y, st) = (x \o y) \o <<st>>
        BY <3>1, <4>1, AppendIsConcat
      <4> QED BY <2>6, <4>1, <4>2, ConcatAssociative
    <3> QED BY <3>2 DEF st
  <2>10. Statuses(a \o front(n + 1), t, S) = x \o Statuses(front(n + 1), t, S)
    BY <2>1, <2>4, <2>5, <2>7, <2>8, <2>9
  <2> QED BY <2>2, <2>10 DEF T, x
<1>5. N \in T
  <2> HIDE DEF T, N
  <2>1. \A n \in 0..N : n \in T
    BY <1>1, <1>3, <1>4, Induction
  <2> QED BY <1>1, <2>1
<1> QED BY <1>1, <1>5

-----------------------------------------------------------------------------
(* Sequences of statuses and their concatenation under names of their own, *)
(* of which the provers know what is said here and no more.                *)

Lists == Seq(Status)
Join(a, b) == a \o b

LEMMA JoinTyped ==
    /\ <<>> \in Lists
    /\ \A s \in Status : <<s>> \in Lists
    /\ \A a, b \in Lists : Join(a, b) \in Lists
BY ConcatProperties DEF Lists, Join

LEMMA JoinAssociative ==
    \A a, b, c \in Lists : Join(Join(a, b), c) = Join(a, Join(b, c))
BY ConcatAssociative DEF Lists, Join

LEMMA JoinEmpty ==
    /\ \A a \in Lists : Join(<<>>, a) = a /\ Join(a, <<>>) = a
    /\ \A a, b \in Lists : Join(a, b) = <<>> => a = <<>> /\ b = <<>>
BY ConcatEmptySeq, ConcatEqualIffEmpty DEF Lists, Join

LEMMA PrefixOfJoin == \A a, b \in Lists : IsPrefix(a, Join(a, b))
<1> SUFFICES ASSUME NEW a \in Seq(Status), NEW b \in Seq(Status) PROVE IsPrefix(a, a \o b)
  BY DEF Lists, Join
<1>1. a \o b \in Seq(Status) /\ Len(a \o b) = Len(a) + Len(b)
      /\ \A i \in 1..Len(a) : (a \o b)[i] = a[i]
  BY ConcatProperties
<1>2. SubSeq(a \o b, 1, Len(a)) = a /\ SubSeq(a, 1, Len(a)) = a
  <2> DEFINE c == a \o b
  <2>1. c \in Seq(Status) /\ Len(a) \in Nat /\ \A i \in 1..Len(a) : i \in 1..Len(c)
    BY <1>1
  <2> HIDE DEF c
  <2>2. /\ SubSeq(c, 1, Len(a)) \in Seq(Status)
        /\ Len(SubSeq(c, 1, Len(a))) = Len(a)
        /\ \A i \in 1..Len(a) : SubSeq(c, 1, Len(a))[i] = c[i]
    <3>1. \A i \in 1..Len(a) : c[i] \in Status
      BY <2>1
    <3> QED BY <2>1, <3>1, SubSeqProperties
  <2>3. SubSeq(c, 1, Len(a)) = a
    BY <1>1, <2>2, SeqEqual DEF c
  <2> QED BY <2>3, SubSeqFull DEF c
<1>3. Len(a) <= Len(a \o b)
  BY <1>1
<1> QED BY <1>2, <1>3 DEF IsPrefix

LEMMA JoinOne == \A a \in Lists, s \in Status : Append(a, s) = Join(a, <<s>>)
BY AppendIsConcat DEF Lists, Join

\* The statuses of a sequence are those of its head and of its tail, and the head
\* takes its own with it.
LEMMA StatusesMove ==
    ASSUME NEW a \in Seq(Message), NEW b \in Seq(Message), b # <<>>, NEW t, NEW S
    PROVE  \E h, u \in Lists :
             /\ Statuses(Tail(b), t, S) = u
             /\ Statuses(b, t, S) = Join(h, u)
             /\ Statuses(Append(a, Head(b)), t, S) = Join(Statuses(a, t, S), h)
<1>1. PICK h \in Seq(Message), u \in Seq(Message) :
        /\ h = <<Head(b)>> /\ u = Tail(b)
        /\ b = h \o u /\ Append(a, Head(b)) = a \o h
  <2>1. /\ Head(b) \in Message /\ Tail(b) \in Seq(Message)
        /\ b = <<Head(b)>> \o Tail(b)
    BY HeadFacts
  <2>2. Append(a, Head(b)) = a \o <<Head(b)>> /\ <<Head(b)>> \in Seq(Message)
    BY <2>1, AppendIsConcat
  <2> QED BY <2>1, <2>2
<1>2. Statuses(h \o u, t, S) = Join(Statuses(h, t, S), Statuses(u, t, S))
  BY StatusesConcat DEF Join
<1>3. Statuses(a \o h, t, S) = Join(Statuses(a, t, S), Statuses(h, t, S))
  BY StatusesConcat DEF Join
<1>4. Statuses(h, t, S) \in Lists /\ Statuses(u, t, S) \in Lists
  BY StatusesFacts DEF Lists
<1> QED BY <1>1, <1>2, <1>3, <1>4

LEMMA StatusesPut ==
    ASSUME NEW a \in Seq(Message), NEW m \in Message, NEW t, NEW S
    PROVE  Statuses(Append(a, m), t, S) =
             IF m.task = t /\ m.status \in S
               THEN Join(Statuses(a, t, S), <<m.status>>) ELSE Statuses(a, t, S)
<1>1. Statuses(a, t, S) \in Lists /\ m.status \in Status
  BY StatusesFacts DEF Lists, Message, Status
<1> QED BY <1>1, StatusesAppend, JoinOne

-----------------------------------------------------------------------------
(* The way of the statuses of a task, from the buffer of the one process   *)
(* that reports them through the pipe to the reader.                       *)

\* Nobody but src has such a status of t in its buffer.
Only(t, S, src) ==
    \A p \in Processes \ {src} : Statuses(feeder[p], t, S) = <<>>

Chain(t, S, src) ==
    Join(Statuses(delivered, t, S),
         Join(Statuses(pipe, t, S), Statuses(feeder[src], t, S)))

LEMMA ChainTyped ==
    ASSUME StatusQueueTypeOK, NEW src \in Processes, NEW t, NEW S
    PROVE  /\ Statuses(delivered, t, S) \in Lists
           /\ Statuses(pipe, t, S) \in Lists
           /\ Statuses(feeder[src], t, S) \in Lists
           /\ Chain(t, S, src) \in Lists
<1>1. feeder[src] \in Seq(Message) /\ pipe \in Seq(Message) /\ delivered \in Seq(Message)
  BY DEF StatusQueueTypeOK
<1>2. /\ Statuses(delivered, t, S) \in Lists
      /\ Statuses(pipe, t, S) \in Lists
      /\ Statuses(feeder[src], t, S) \in Lists
  BY <1>1, StatusesFacts DEF Lists
<1> QED BY <1>2, JoinTyped DEF Chain

LEMMA ReadChain ==
    ASSUME StatusQueueTypeOK, GetQueuedStatus, NEW t, NEW S,
           NEW src \in Processes, Only(t, S, src)
    PROVE  Only(t, S, src)' /\ Chain(t, S, src)' = Chain(t, S, src)
<1>1. /\ pipe # <<>> /\ pipe \in Seq(Message) /\ delivered \in Seq(Message)
      /\ pipe' = Tail(pipe) /\ delivered' = Append(delivered, Head(pipe))
      /\ feeder' = feeder
  BY DEF GetQueuedStatus, StatusQueueTypeOK
<1>2. PICK d \in Lists, f \in Lists : /\ d = Statuses(delivered, t, S)
                                      /\ f = Statuses(feeder[src], t, S)
  BY ChainTyped
<1>3. PICK h, u \in Lists :
        /\ Statuses(Tail(pipe), t, S) = u
        /\ Statuses(pipe, t, S) = Join(h, u)
        /\ Statuses(Append(delivered, Head(pipe)), t, S)
             = Join(Statuses(delivered, t, S), h)
  <2>1. pipe \in Seq(Message) /\ delivered \in Seq(Message) /\ pipe # <<>>
    BY <1>1
  <2> QED BY <2>1, StatusesMove
<1>4. /\ Chain(t, S, src) = Join(d, Join(Join(h, u), f))
      /\ Chain(t, S, src)' = Join(Join(d, h), Join(u, f))
  BY <1>1, <1>2, <1>3 DEF Chain
<1>5. /\ Join(u, f) \in Lists
      /\ Join(Join(h, u), f) = Join(h, Join(u, f))
  BY JoinTyped, JoinAssociative
<1>6. Join(Join(d, h), Join(u, f)) = Join(d, Join(h, Join(u, f)))
  BY <1>5, JoinAssociative
<1> QED BY <1>1, <1>4, <1>5, <1>6 DEF Only

LEMMA FlushChain ==
    ASSUME StatusQueueTypeOK, NEW p \in Processes, Flush(p), NEW t, NEW S,
           NEW src \in Processes, Only(t, S, src)
    PROVE  Only(t, S, src)' /\ Chain(t, S, src)' = Chain(t, S, src)
<1>1. /\ feeder[p] # <<>> /\ feeder[p] \in Seq(Message) /\ pipe \in Seq(Message)
      /\ pipe' = Append(pipe, Head(feeder[p])) /\ delivered' = delivered
      /\ feeder'[p] = Tail(feeder[p])
      /\ \A r \in Processes \ {p} : feeder'[r] = feeder[r]
  BY DEF Flush, StatusQueueTypeOK
<1>2. PICK d \in Lists, q \in Lists : /\ d = Statuses(delivered, t, S)
                                      /\ q = Statuses(pipe, t, S)
  BY ChainTyped
<1>3. PICK h, u \in Lists :
        /\ Statuses(Tail(feeder[p]), t, S) = u
        /\ Statuses(feeder[p], t, S) = Join(h, u)
        /\ Statuses(Append(pipe, Head(feeder[p])), t, S) = Join(Statuses(pipe, t, S), h)
  <2>1. feeder[p] \in Seq(Message) /\ pipe \in Seq(Message) /\ feeder[p] # <<>>
    BY <1>1
  <2> QED BY <2>1, StatusesMove
<1>4. Statuses(feeder'[p], t, S) = u /\ Statuses(pipe', t, S) = Join(q, h)
  BY <1>1, <1>2, <1>3
<1>5. CASE p = src
  <2>1. /\ Chain(t, S, src) = Join(d, Join(q, Join(h, u)))
        /\ Chain(t, S, src)' = Join(d, Join(Join(q, h), u))
    BY <1>1, <1>2, <1>3, <1>4, <1>5 DEF Chain
  <2>2. Only(t, S, src)'
    BY <1>1, <1>5 DEF Only
  <2> QED BY <2>1, <2>2, JoinAssociative
<1>6. CASE p # src
  <2>1. h = <<>> /\ u = <<>>
    BY <1>3, <1>6, JoinEmpty DEF Only
  <2>2. Statuses(pipe', t, S) = q
    BY <1>4, <2>1, JoinEmpty
  <2>3. Only(t, S, src)'
    BY <1>1, <1>4, <2>1 DEF Only
  <2>4. Chain(t, S, src)' = Chain(t, S, src)
    BY <1>1, <1>2, <1>6, <2>2 DEF Chain
  <2> QED BY <2>3, <2>4
<1> QED BY <1>5, <1>6

\* A put adds to the end of the chain, or is of no concern.
LEMMA PutChain ==
    ASSUME StatusQueueTypeOK, NEW p \in Processes, NEW m \in Message, Put(p, m),
           NEW t, NEW S, NEW src \in Processes, Only(t, S, src),
           m.task = t /\ m.status \in S => p = src
    PROVE  /\ Only(t, S, src)'
           /\ Chain(t, S, src)' = IF m.task = t /\ m.status \in S
                                    THEN Join(Chain(t, S, src), <<m.status>>)
                                    ELSE Chain(t, S, src)
<1>1. /\ feeder[p] \in Seq(Message) /\ UNCHANGED <<pipe, delivered>>
      /\ feeder'[p] = Append(feeder[p], m)
      /\ \A r \in Processes \ {p} : feeder'[r] = feeder[r]
  BY DEF Put, StatusQueueTypeOK
<1>2. Statuses(feeder'[p], t, S) = IF m.task = t /\ m.status \in S
                                    THEN Join(Statuses(feeder[p], t, S), <<m.status>>)
                                    ELSE Statuses(feeder[p], t, S)
  BY <1>1, StatusesPut
<1>3. CASE ~ (m.task = t /\ m.status \in S)
  <2>1. \A r \in Processes : Statuses(feeder'[r], t, S) = Statuses(feeder[r], t, S)
    BY <1>1, <1>2, <1>3
  <2> QED BY <1>1, <1>3, <2>1 DEF Chain, Only
<1>4. CASE m.task = t /\ m.status \in S
  <2>1. PICK d \in Lists, q \in Lists, f \in Lists :
          /\ d = Statuses(delivered, t, S) /\ q = Statuses(pipe, t, S)
          /\ f = Statuses(feeder[src], t, S)
    BY ChainTyped
  <2>2. PICK s \in Lists : s = <<m.status>>
    BY JoinTyped DEF Message, Status
  <2>3. /\ Chain(t, S, src) = Join(d, Join(q, f))
        /\ Chain(t, S, src)' = Join(d, Join(q, Join(f, s)))
    BY <1>1, <1>2, <1>4, <2>1, <2>2 DEF Chain
  <2>4. Join(q, f) \in Lists /\ Join(Join(q, f), s) = Join(q, Join(f, s))
    BY JoinTyped, JoinAssociative
  <2>5. Join(Join(d, Join(q, f)), s) = Join(d, Join(Join(q, f), s))
    BY <2>4, JoinAssociative
  <2>6. Only(t, S, src)'
    BY <1>1, <1>4 DEF Only
  <2> QED BY <1>4, <2>2, <2>3, <2>4, <2>5, <2>6
<1> QED BY <1>3, <1>4

\* A kill takes something from the end of the chain, or is of no concern.
LEMMA LoseChain ==
    ASSUME StatusQueueTypeOK, NEW p \in Processes, LoseFeeder(p), NEW t, NEW S,
           NEW src \in Processes, Only(t, S, src)
    PROVE  /\ Only(t, S, src)'
           /\ p # src => Chain(t, S, src)' = Chain(t, S, src)
           /\ \E lost \in Lists : Join(Chain(t, S, src)', lost) = Chain(t, S, src)
<1>1. /\ feeder[p] \in Seq(Message) /\ pipe \in Seq(Message)
      /\ delivered' = delivered /\ feeder'[p] = <<>>
      /\ \A r \in Processes \ {p} : feeder'[r] = feeder[r]
      /\ \/ pipe' = pipe
         \/ feeder[p] # <<>> /\ pipe' = Append(pipe, Head(feeder[p]))
  BY DEF LoseFeeder, StatusQueueTypeOK
<1>2. Statuses(feeder'[p], t, S) = <<>>
  <2>1. feeder'[p] \in Seq(Message)
    BY <1>1
  <2> QED BY <1>1, <2>1, StatusesFacts
<1>3. PICK d \in Lists, q \in Lists, f \in Lists :
        /\ d = Statuses(delivered, t, S) /\ q = Statuses(pipe, t, S)
        /\ f = Statuses(feeder[p], t, S)
  BY ChainTyped
<1>4. PICK h \in Lists, u \in Lists : f = Join(h, u) /\ Statuses(pipe', t, S) = Join(q, h)
  <2>1. CASE pipe' = pipe
    BY <1>3, <2>1, JoinTyped, JoinEmpty
  <2>2. CASE feeder[p] # <<>> /\ pipe' = Append(pipe, Head(feeder[p]))
    <3>1. feeder[p] \in Seq(Message) /\ pipe \in Seq(Message) /\ feeder[p] # <<>>
      BY <1>1, <2>2
    <3>2. PICK h, u \in Lists :
            /\ Statuses(Tail(feeder[p]), t, S) = u
            /\ Statuses(feeder[p], t, S) = Join(h, u)
            /\ Statuses(Append(pipe, Head(feeder[p])), t, S) = Join(Statuses(pipe, t, S), h)
      BY <3>1, StatusesMove
    <3> QED BY <1>3, <2>2, <3>2
  <2> QED BY <1>1, <2>1, <2>2
<1>5. Only(t, S, src)'
  BY <1>1, <1>2 DEF Only
<1>6. ASSUME p # src PROVE Chain(t, S, src)' = Chain(t, S, src)
  <2>1. f = <<>>
    BY <1>3, <1>6 DEF Only
  <2>2. h = <<>>
    BY <1>4, <2>1, JoinEmpty
  <2>3. Statuses(pipe', t, S) = q
    BY <1>4, <2>2, JoinEmpty
  <2> QED BY <1>1, <1>3, <1>6, <2>3 DEF Chain
<1>7. \E lost \in Lists : Join(Chain(t, S, src)', lost) = Chain(t, S, src)
  <2>1. CASE p # src
    BY <1>6, <2>1, ChainTyped, JoinTyped, JoinEmpty
  <2>2. CASE p = src
    <3>1. /\ Chain(t, S, src)' = Join(d, Join(Join(q, h), <<>>))
          /\ Chain(t, S, src) = Join(d, Join(q, Join(h, u)))
      BY <1>1, <1>2, <1>3, <1>4, <2>2 DEF Chain
    <3>2. Join(q, h) \in Lists
      BY JoinTyped
    <3>3. Join(Join(q, h), <<>>) = Join(q, h) /\ Join(Join(q, h), u) = Join(q, Join(h, u))
      BY <3>2, JoinEmpty, JoinAssociative
    <3>4. Join(Join(d, Join(q, h)), u) = Join(d, Join(Join(q, h), u))
      BY <3>2, JoinAssociative
    <3> QED BY <3>1, <3>3, <3>4
  <2> QED BY <2>1, <2>2
<1> QED BY <1>5, <1>6, <1>7

-----------------------------------------------------------------------------
(* What is read of a task, is under way or was lost is what was said.      *)

\* Only a live process makes steps, and only a kill ends it so.
LEMMA WorkerStepAlive ==
    ASSUME TypeOK, NEW w \in Workers, WorkerStep(w)
    PROVE  Alive(w) /\ pc'[w] # "killed"
<1>1. pc \in [Workers -> PC]
  BY DEF TypeOK, WorkerTypeOK
<1>2. Alive(w)
  BY DEF Alive, WorkerStep, MainStep, BodyEnds, MonitorStep, TestStopped,
         CheckStopped, FindEmpty, WakeUp, CloseFeeder, Exit, ReportRunning,
         EnterKillable, PutSuccess, LeaveKillable, ReportError, ErrorNotReported,
         TimeoutRefused, CancelCoroutines, TakeTask, BodyReturns, BodyRaises, AlarmFires, HandleControl,
         ReportStopped, Heartbeat, StartAsync, FinishAsync
<1>3. \/ UNCHANGED pc
      \/ \E to \in {"loop", "poll", "sleep", "check", "report", "enter", "body",
                    "success", "leave", "err", "badexc", "last", "exiting",
                    "closing", "exited"} : pc' = [pc EXCEPT ![w] = to]
  <2>1. CASE \/ TestStopped(w) \/ CheckStopped(w) \/ FindEmpty(w) \/ WakeUp(w)
             \/ CloseFeeder(w) \/ Exit(w) \/ ReportRunning(w) \/ EnterKillable(w)
             \/ CancelCoroutines(w) \/ TimeoutRefused(w)
    BY <2>1 DEF TestStopped, CheckStopped, FindEmpty, WakeUp, CloseFeeder, Exit,
                ReportRunning, EnterKillable, CancelCoroutines, TimeoutRefused
  <2>2. CASE \/ PutSuccess(w) \/ LeaveKillable(w) \/ ReportError(w)
             \/ ErrorNotReported(w) \/ TakeTask(w) \/ BodyEnds(w) \/ AlarmFires(w)
    BY <2>2 DEF PutSuccess, LeaveKillable, ReportError, ErrorNotReported, TakeTask,
                BodyEnds, BodyReturns, BodyRaises, AlarmFires
  <2>3. CASE \/ MonitorStep(w) \/ Heartbeat(w)
             \/ \E t \in Tasks : StartAsync(w, t) \/ FinishAsync(w, t)
    BY <2>3 DEF MonitorStep, HandleControl, ReportStopped, Heartbeat, StartAsync,
                FinishAsync
  <2> QED BY <2>1, <2>2, <2>3 DEF WorkerStep, MainStep
<1> QED BY <1>1, <1>2, <1>3 DEF Alive

\* A step of w puts one message or none: a report of one of its own tasks, or one
\* that is about no task.
LEMMA WorkerStepSpeech ==
    ASSUME Inv, NEW w \in Workers, WorkerStep(w)
    PROVE  \/ SayNothing
           \/ \E t \in Tasks, s \in ByWorkers : home[t] = w /\ Say(w, t, s)
           \/ \E s \in {"ERROR", None} : Put(w, Report(w, None, s)) /\ UNCHANGED said
<1>1. /\ cur \in [Workers -> Tasks \cup {None}]
      /\ cur[w] # None => home[cur[w]] = w
      /\ pc[w] \in InBlock \cup {"enter"} => cur[w] \in Tasks
      /\ \A t \in created[w] \cup awaiting[w] : home[t] = w
  BY PlacesAreTyped DEF Inv, OnePlace, HandFull, PlacesTyped
<1>2. /\ "RUNNING" \in ByWorkers /\ "SUCCESS" \in ByWorkers /\ "ERROR" \in ByWorkers
      /\ \A t \in Tasks : t # None
  BY NamesDiffer DEF ByWorkers
<1>3. CASE \/ TestStopped(w) \/ CheckStopped(w) \/ FindEmpty(w) \/ WakeUp(w)
           \/ CloseFeeder(w) \/ Exit(w) \/ EnterKillable(w) \/ LeaveKillable(w)
           \/ ErrorNotReported(w) \/ TakeTask(w) \/ CancelCoroutines(w)
  BY <1>3
  DEF TestStopped, CheckStopped, FindEmpty, WakeUp, CloseFeeder, Exit,
      CancelCoroutines, EnterKillable, LeaveKillable, ErrorNotReported, TakeTask
<1>4. CASE ReportRunning(w)
  <2>1. cur[w] \in Tasks /\ home[cur[w]] = w /\ Say(w, cur[w], "RUNNING")
    BY <1>1, <1>4 DEF ReportRunning
  <2> QED BY <1>2, <2>1
<1>5. CASE PutSuccess(w)
  <2>1. cur[w] \in Tasks /\ home[cur[w]] = w
    BY <1>1, <1>2, <1>5 DEF PutSuccess, InBlock
  <2>2. SayNothing \/ Say(w, cur[w], "SUCCESS")
    BY <1>5 DEF PutSuccess
  <2> QED BY <1>2, <2>1, <2>2
<1>6. CASE ReportError(w) \/ TimeoutRefused(w)
  <2>1. cur[w] \in Tasks /\ home[cur[w]] = w
    BY <1>1, <1>2, <1>6 DEF ReportError, TimeoutRefused, InBlock
  <2>2. Say(w, cur[w], "ERROR")
    BY <1>6 DEF ReportError, TimeoutRefused
  <2> QED BY <1>2, <2>1, <2>2
<1>7. CASE BodyEnds(w) \/ AlarmFires(w)
  BY <1>7 DEF BodyEnds, BodyReturns, BodyRaises, AlarmFires
<1>8. CASE MonitorStep(w) \/ Heartbeat(w)
  BY <1>8 DEF MonitorStep, HandleControl, ReportStopped, Heartbeat
<1>9. ASSUME NEW t \in Tasks, StartAsync(w, t) \/ FinishAsync(w, t)
      PROVE  SayNothing \/ \E s \in ByWorkers : home[t] = w /\ Say(w, t, s)
  <2>1. home[t] = w
    BY <1>1, <1>9 DEF StartAsync, FinishAsync
  <2>2. SayNothing \/ Say(w, t, "SUCCESS") \/ Say(w, t, "ERROR")
    BY <1>9 DEF StartAsync, FinishAsync
  <2> QED BY <1>2, <2>1, <2>2
<1> QED
  BY <1>3, <1>4, <1>5, <1>6, <1>7, <1>8, <1>9 DEF WorkerStep, MainStep

\* The process that reports of t: while nobody does, the manager stands for it.
Source(t) == IF home[t] = None THEN Manager ELSE home[t]

Killed(p) == p \in Workers /\ pc[p] = "killed"

Delivery(t) ==
    /\ Only(t, ByWorkers, Source(t))
    /\ \E rest \in Lists :
         /\ Join(Chain(t, ByWorkers, Source(t)), rest) = said[t]
         /\ rest = <<>> \/ Killed(Source(t))

QueuedOnce(t) ==
    /\ Only(t, {"QUEUED"}, Manager)
    /\ Chain(t, {"QUEUED"}, Manager)
         = IF home[t] = None \/ pending = t THEN <<>> ELSE <<"QUEUED">>

\* The buffer of a killed process is gone.
KilledSilent == \A w \in Workers : Killed(w) => feeder[w] = <<>>

LEMMA SourceTyped ==
    ASSUME TypeOK, NEW t \in Tasks
    PROVE  Source(t) \in Processes /\ (home[t] # None => home[t] \in Workers)
BY DEF TypeOK, ManagerTypeOK, Source, Processes

LEMMA DeliveryNext ==
    ASSUME Inv, [Next]_vars, NEW t \in Tasks, Delivery(t)
    PROVE  Delivery(t)'
<1>1. PICK src \in Processes : src = Source(t) /\ Only(t, ByWorkers, src)
  BY SourceTyped DEF Inv, Delivery
<1>2. PICK rest \in Lists : /\ Join(Chain(t, ByWorkers, src), rest) = said[t]
                            /\ rest = <<>> \/ Killed(src)
  BY <1>1 DEF Delivery
<1>3. StatusQueueTypeOK /\ PlacesTyped /\ Chain(t, ByWorkers, src) \in Lists
  BY ChainTyped, PlacesAreTyped DEF Inv, TypeOK
<1>4. ASSUME home'[t] = home[t], Only(t, ByWorkers, src)',
             Chain(t, ByWorkers, src)' = Chain(t, ByWorkers, src),
             said'[t] = said[t], Killed(src) => Killed(src)'
      PROVE  Delivery(t)'
  BY <1>1, <1>2, <1>4 DEF Delivery, Source
<1>5. ASSUME SayNothing, home'[t] = home[t], Killed(src) => Killed(src)'
      PROVE  Delivery(t)'
  <2>1. Only(t, ByWorkers, src)' /\ Chain(t, ByWorkers, src)' = Chain(t, ByWorkers, src)
    BY <1>1, <1>5 DEF Only, Chain
  <2>2. said'[t] = said[t]
    BY <1>5
  <2> QED BY <1>4, <1>5, <2>1, <2>2
<1>6. ASSUME NEW p \in Processes, NEW m \in Message, Put(p, m),
             ~ (m.task = t /\ m.status \in ByWorkers), home'[t] = home[t],
             said'[t] = said[t], Killed(src) => Killed(src)'
      PROVE  Delivery(t)'
  <2>1. Only(t, ByWorkers, src)' /\ Chain(t, ByWorkers, src)' = Chain(t, ByWorkers, src)
    <3>1. /\ StatusQueueTypeOK /\ Put(p, m) /\ Only(t, ByWorkers, src)
          /\ ~ (m.task = t /\ m.status \in ByWorkers)
          /\ m.task = t /\ m.status \in ByWorkers => p = src
      BY <1>1, <1>3, <1>6
    <3>2. /\ Only(t, ByWorkers, src)'
          /\ Chain(t, ByWorkers, src)' = IF m.task = t /\ m.status \in ByWorkers
                                          THEN Join(Chain(t, ByWorkers, src), <<m.status>>)
                                          ELSE Chain(t, ByWorkers, src)
      BY <3>1, PutChain
    <3> QED BY <3>1, <3>2
  <2> QED BY <1>4, <1>6, <2>1
<1>7. ASSUME NEW w \in Workers, IncreaseWorker(w) \/ \E uuid : SendKill(w, uuid)
      PROVE  Delivery(t)'
  <2>1. SayNothing /\ UNCHANGED home
    BY <1>7 DEF IncreaseWorker, SendKill
  <2>2. Killed(src) => Killed(src)'
    BY <1>3, <1>7 DEF IncreaseWorker, SendKill, Killed, PlacesTyped
  <2> QED BY <1>5, <2>1, <2>2
<1>8. ASSUME NEW w \in Workers, NEW u \in Tasks, Dispatch(w, u) PROVE Delivery(t)'
  <2>1. CASE u = t
    <3>1. /\ home[t] = None /\ home'[t] = w /\ said[t] = <<>>
          /\ UNCHANGED <<feeder, pipe, delivered, said>>
      <4>1. home \in [Tasks -> Workers \cup {None}] /\ (home[t] = None => said[t] = <<>>)
        BY DEF Inv, SaidByPlace, TypeOK, ManagerTypeOK
      <4> QED BY <1>8, <2>1, <4>1 DEF Dispatch
    <3>2. src = Manager /\ w \in Processes /\ w # None
      BY <1>1, <3>1, NamesDiffer DEF Source, Processes
    <3>3. Chain(t, ByWorkers, src) = <<>>
      BY <1>2, <1>3, <3>1, JoinEmpty
    <3>4. /\ Statuses(delivered, t, ByWorkers) = <<>>
          /\ Statuses(pipe, t, ByWorkers) = <<>>
          /\ Statuses(feeder[src], t, ByWorkers) = <<>>
      <4>1. PICK d, q, f \in Lists : /\ d = Statuses(delivered, t, ByWorkers)
                                     /\ q = Statuses(pipe, t, ByWorkers)
                                     /\ f = Statuses(feeder[src], t, ByWorkers)
        BY <1>3, ChainTyped
      <4>2. Join(d, Join(q, f)) = <<>> /\ Join(q, f) \in Lists
        BY <3>3, <4>1, JoinTyped DEF Chain
      <4>3. d = <<>> /\ Join(q, f) = <<>>
        BY <4>2, JoinEmpty
      <4> QED BY <4>1, <4>3, JoinEmpty
    <3>5. \A p \in Processes : Statuses(feeder[p], t, ByWorkers) = <<>>
      BY <1>1, <3>4 DEF Only
    <3>6. Only(t, ByWorkers, w)'
      BY <3>1, <3>5 DEF Only
    <3>7. Chain(t, ByWorkers, w)' = <<>>
      <4>1. Join(<<>>, Join(<<>>, <<>>)) = <<>>
        BY JoinTyped, JoinEmpty
      <4> QED BY <3>1, <3>2, <3>4, <3>5, <4>1 DEF Chain
    <3>8. Join(<<>>, <<>>) = <<>> /\ <<>> \in Lists
      BY JoinTyped, JoinEmpty
    <3> QED BY <3>1, <3>2, <3>6, <3>7, <3>8 DEF Delivery, Source
  <2>2. CASE u # t
    <3>1. home \in [Tasks -> Workers \cup {None}]
      BY DEF Inv, TypeOK, ManagerTypeOK
    <3>2. SayNothing /\ home'[t] = home[t] /\ UNCHANGED pc
      BY <1>8, <2>2, <3>1 DEF Dispatch
    <3> QED BY <1>5, <3>2 DEF Killed
  <2> QED BY <2>1, <2>2
<1>9. CASE DispatchReport
  <2>1. /\ Report(home[pending], pending, "QUEUED") \in Message
        /\ Report(home[pending], pending, "QUEUED").status \notin ByWorkers
    BY <1>9 DEF DispatchReport, Inv, TypeOK, ManagerTypeOK, PendingSent, Report,
                Message, TaskStatus, ByWorkers
  <2>2. /\ Put(Manager, Report(home[pending], pending, "QUEUED"))
        /\ UNCHANGED <<pc, home, said>> /\ Manager \in Processes
    BY <1>9 DEF DispatchReport, Processes
  <2> QED BY <1>6, <2>1, <2>2 DEF Killed
<1>10. CASE ReadStatus
  <2>1. GetQueuedStatus /\ UNCHANGED <<pc, home, said>>
    BY <1>10 DEF ReadStatus
  <2>2. Only(t, ByWorkers, src)' /\ Chain(t, ByWorkers, src)' = Chain(t, ByWorkers, src)
    BY <1>1, <1>3, <2>1, ReadChain
  <2> QED BY <1>4, <2>1, <2>2 DEF Killed
<1>11. ASSUME NEW p \in Processes, FlushStep(p) PROVE Delivery(t)'
  <2>1. Flush(p) /\ UNCHANGED <<pc, home, said>>
    BY <1>11 DEF FlushStep
  <2>2. Only(t, ByWorkers, src)' /\ Chain(t, ByWorkers, src)' = Chain(t, ByWorkers, src)
    BY <1>1, <1>3, <2>1, FlushChain
  <2> QED BY <1>4, <2>1, <2>2 DEF Killed
<1>12. CASE UNCHANGED vars
  <2>1. SayNothing /\ UNCHANGED <<pc, home>>
    BY <1>12 DEF vars
  <2> QED BY <1>5, <2>1 DEF Killed
<1>13. ASSUME NEW w \in Workers, WorkerStep(w), UNCHANGED home PROVE Delivery(t)'
  <2>1. Alive(w) /\ Killed(src) => Killed(src)'
    BY <1>13, WorkerStepLocal DEF Alive, Killed, OthersKeep, Inv
  <2>2. Alive(w)
    BY <1>13, WorkerStepAlive DEF Inv
  <2>3. ASSUME NEW u \in Tasks, NEW s \in ByWorkers, home[u] = w, Say(w, u, s)
        PROVE  Delivery(t)'
    <3>1. /\ Report(w, u, s) \in Message /\ w \in Processes
          /\ Report(w, u, s).task = u /\ Report(w, u, s).status = s
      BY DEF Report, Message, TaskStatus, ByWorkers, Processes
    <3>2. /\ said \in [Tasks -> Seq({"RUNNING", "SUCCESS", "ERROR"})]
          /\ said' = [said EXCEPT ![u] = Append(@, s)]
      BY <2>3 DEF Say, Inv, TypeOK, WorkerTypeOK
    <3>3. CASE u # t
      BY <1>6, <1>13, <2>1, <2>2, <2>3, <3>1, <3>2, <3>3 DEF Say
    <3>4. CASE u = t
      <4>1. src = w /\ rest = <<>> /\ w # None
        BY <1>1, <1>2, <2>2, <2>3, <3>4, NamesDiffer DEF Source, Killed, Alive
      <4>2. /\ Only(t, ByWorkers, src)'
            /\ Chain(t, ByWorkers, src)' = Join(Chain(t, ByWorkers, src), <<s>>)
        BY <1>1, <1>3, <2>3, <3>1, <3>4, <4>1, PutChain DEF Say
      <4>3. said[t] = Chain(t, ByWorkers, src)
        BY <1>2, <1>3, <4>1, JoinEmpty
      <4>4. s \in Status
        BY DEF Status, TaskStatus, ByWorkers
      <4>5. said'[t] = Join(said[t], <<s>>)
        BY <1>3, <3>2, <3>4, <4>3, <4>4, JoinOne
      <4>6. PICK x \in Lists : x = said'[t]
        BY <1>3, <4>3, <4>4, <4>5, JoinTyped
      <4>7. Join(x, <<>>) = x /\ <<>> \in Lists
        BY JoinTyped, JoinEmpty
      <4>8. Source(t)' = src
        BY <1>1, <1>13 DEF Source
      <4> QED BY <4>2, <4>3, <4>5, <4>6, <4>7, <4>8 DEF Delivery
    <3> QED BY <3>3, <3>4
  <2>4. ASSUME NEW s \in {"ERROR", None}, Put(w, Report(w, None, s)), UNCHANGED said
        PROVE  Delivery(t)'
    <3>1. /\ Report(w, None, s) \in Message /\ w \in Processes
          /\ Report(w, None, s).task # t
      BY NamesDiffer DEF Report, Message, TaskStatus, Processes
    <3> QED BY <1>6, <1>13, <2>1, <2>2, <2>4, <3>1
  <2> QED BY <1>5, <1>13, <2>1, <2>2, <2>3, <2>4, WorkerStepSpeech
<1>14. ASSUME NEW w \in Workers, Die(w), UNCHANGED home PROVE Delivery(t)'
  <2>1. /\ w \in Processes /\ LoseFeeder(w) /\ UNCHANGED said /\ Alive(w)
        /\ \A v \in Workers : Killed(v) => Killed(v)'
        /\ Killed(w)'
    BY <1>3, <1>14 DEF Die, Processes, PlacesTyped, Killed
  <2>2. CASE src # w
    BY <1>1, <1>3, <1>4, <1>14, <2>1, <2>2, LoseChain DEF Killed
  <2>3. CASE src = w
    <3>1. PICK lost \in Lists :
            /\ Only(t, ByWorkers, src)'
            /\ Join(Chain(t, ByWorkers, src)', lost) = Chain(t, ByWorkers, src)
      BY <1>1, <1>3, <2>1, LoseChain
    <3>2. said'[t] = Join(Chain(t, ByWorkers, src)', lost)
      BY <1>2, <1>3, <2>1, <2>3, <3>1, JoinEmpty DEF Killed, Alive
    <3>3. Source(t)' = src
      BY <1>1, <1>14 DEF Source
    <3> QED BY <2>1, <2>3, <3>1, <3>2, <3>3 DEF Delivery
  <2> QED BY <2>2, <2>3
<1> QED
  BY <1>7, <1>8, <1>9, <1>10, <1>11, <1>12, <1>13, <1>14, NextByActor
  DEF ManagerStep

\* What a report says.
LEMMA ReportTyped ==
    ASSUME NEW w \in Workers, NEW t \in Tasks \cup {None}, NEW s \in TaskStatus \cup {None}
    PROVE  /\ Report(w, t, s) \in Message
           /\ Report(w, t, s).task = t /\ Report(w, t, s).status = s
BY DEF Report, Message

LEMMA KilledSilentNext ==
    ASSUME Inv, [Next]_vars, KilledSilent
    PROVE  KilledSilent'
<1> SUFFICES ASSUME NEW v \in Workers, Killed(v)' PROVE feeder'[v] = <<>>
  BY DEF KilledSilent
<1>1. PlacesTyped /\ feeder \in [Processes -> Seq(Message)] /\ v \in Processes
  BY PlacesAreTyped DEF Inv, TypeOK, StatusQueueTypeOK, Processes
<1>2. ASSUME Killed(v), feeder'[v] = feeder[v] PROVE feeder'[v] = <<>>
  BY <1>2 DEF KilledSilent
<1>3. ASSUME NEW w \in Workers, IncreaseWorker(w) \/ \E uuid : SendKill(w, uuid)
      PROVE  feeder'[v] = <<>>
  <2>1. Killed(v) /\ UNCHANGED feeder
    BY <1>1, <1>3 DEF IncreaseWorker, SendKill, Killed, PlacesTyped
  <2> QED BY <1>2, <2>1
<1>4. ASSUME NEW w \in Workers, NEW u \in Tasks, Dispatch(w, u)
      PROVE  feeder'[v] = <<>>
  BY <1>2, <1>4 DEF Dispatch, Killed
<1>5. CASE DispatchReport
  <2>1. feeder' = [feeder EXCEPT ![Manager]
                     = Append(@, Report(home[pending], pending, "QUEUED"))]
        /\ UNCHANGED pc
    BY <1>5 DEF DispatchReport, Put
  <2> QED BY <1>1, <1>2, <2>1, NamesDiffer DEF Killed
<1>6. CASE ReadStatus \/ UNCHANGED vars
  <2>1. UNCHANGED <<feeder, pc>>
    BY <1>6 DEF ReadStatus, GetQueuedStatus, vars
  <2> QED BY <1>2, <2>1 DEF Killed
<1>7. ASSUME NEW p \in Processes, FlushStep(p) PROVE feeder'[v] = <<>>
  <2>1. /\ feeder[p] # <<>> /\ UNCHANGED pc
        /\ \A r \in Processes \ {p} : feeder'[r] = feeder[r]
    BY <1>1, <1>7 DEF FlushStep, Flush
  <2>2. Killed(v) /\ feeder[v] = <<>>
    BY <2>1 DEF Killed, KilledSilent
  <2> QED BY <1>1, <1>2, <2>1, <2>2
<1>8. ASSUME NEW w \in Workers, WorkerStep(w) PROVE feeder'[v] = <<>>
  <2>1. v # w
    BY <1>8, WorkerStepAlive DEF Inv, Killed
  <2>2. Killed(v)
    BY <1>8, <2>1, WorkerStepLocal DEF Inv, Killed, OthersKeep
  <2>3. feeder'[v] = feeder[v]
    BY <1>1, <1>8, <2>1, WorkerStepSpeech DEF Say, Put
  <2> QED BY <1>2, <2>2, <2>3
<1>9. ASSUME NEW w \in Workers, Die(w) PROVE feeder'[v] = <<>>
  <2>1. feeder' = [feeder EXCEPT ![w] = <<>>] /\ pc' = [pc EXCEPT ![w] = "killed"]
    BY <1>9 DEF Die, LoseFeeder
  <2>2. CASE v = w
    BY <1>1, <2>1, <2>2
  <2>3. CASE v # w
    BY <1>1, <1>2, <2>1, <2>3 DEF Killed, PlacesTyped
  <2> QED BY <2>2, <2>3
<1> QED
  BY <1>3, <1>4, <1>5, <1>6, <1>7, <1>8, <1>9, NextByActor DEF ManagerStep

\* The manager reports QUEUED of every task it dispatches, once; nobody else does.
LEMMA QueuedOnceNext ==
    ASSUME Inv, [Next]_vars, NEW t \in Tasks, QueuedOnce(t)
    PROVE  QueuedOnce(t)'
<1> DEFINE S == {"QUEUED"}
<1>1. /\ StatusQueueTypeOK /\ Manager \in Processes /\ Only(t, S, Manager)
      /\ Chain(t, S, Manager) \in Lists
      /\ Chain(t, S, Manager) = IF home[t] = None \/ pending = t THEN <<>> ELSE <<"QUEUED">>
      /\ home \in [Tasks -> Workers \cup {None}] /\ pending \in Tasks \cup {None}
      /\ pending # None => home[pending] \in Workers
  <2>1. StatusQueueTypeOK /\ Manager \in Processes
    BY DEF Inv, TypeOK, Processes
  <2> QED BY <2>1, ChainTyped DEF QueuedOnce, Inv, TypeOK, ManagerTypeOK, PendingSent
<1> HIDE DEF S
<1>2. ASSUME home'[t] = home[t], pending' = t <=> pending = t,
             Only(t, S, Manager)', Chain(t, S, Manager)' = Chain(t, S, Manager)
      PROVE  QueuedOnce(t)'
  BY <1>1, <1>2 DEF QueuedOnce, S
<1>3. ASSUME UNCHANGED statusVars
      PROVE  Only(t, S, Manager)' /\ Chain(t, S, Manager)' = Chain(t, S, Manager)
  BY <1>1, <1>3 DEF Only, Chain
<1>4. ASSUME NEW p \in Processes, NEW m \in Message, Put(p, m),
             ~ (m.task = t /\ m.status = "QUEUED")
      PROVE  Only(t, S, Manager)' /\ Chain(t, S, Manager)' = Chain(t, S, Manager)
  <2>1. /\ StatusQueueTypeOK /\ Put(p, m) /\ Only(t, S, Manager) /\ Manager \in Processes
        /\ ~ (m.task = t /\ m.status \in S)
        /\ m.task = t /\ m.status \in S => p = Manager
    BY <1>1, <1>4 DEF S
  <2>2. /\ Only(t, S, Manager)'
        /\ Chain(t, S, Manager)' = IF m.task = t /\ m.status \in S
                                     THEN Join(Chain(t, S, Manager), <<m.status>>)
                                     ELSE Chain(t, S, Manager)
    BY <2>1, PutChain
  <2> QED BY <2>1, <2>2
<1>5. ASSUME NEW w \in Workers, IncreaseWorker(w) \/ \E uuid : SendKill(w, uuid)
      PROVE  QueuedOnce(t)'
  <2>1. UNCHANGED <<statusVars, home, pending>>
    BY <1>5 DEF IncreaseWorker, SendKill
  <2> QED BY <1>2, <1>3, <2>1
<1>6. ASSUME NEW w \in Workers, NEW u \in Tasks, Dispatch(w, u) PROVE QueuedOnce(t)'
  <2>1. /\ UNCHANGED statusVars /\ home[u] = None /\ pending = None
        /\ home' = [home EXCEPT ![u] = w] /\ pending' = u
    BY <1>6 DEF Dispatch
  <2>2. None \notin Tasks \cup Workers
    BY NamesDiffer
  <2>3. CASE u = t
    <3>1. home'[t] = w /\ home[t] = None
      BY <1>1, <2>1, <2>3
    <3> QED BY <1>1, <1>3, <2>1, <2>3, <3>1 DEF QueuedOnce, S
  <2>4. CASE u # t
    <3>1. home'[t] = home[t]
      BY <1>1, <2>1, <2>4
    <3> QED BY <1>2, <1>3, <2>1, <2>2, <2>4, <3>1
  <2> QED BY <2>3, <2>4
<1>7. CASE DispatchReport
  <2>1. PICK u \in Tasks : u = pending /\ home[u] \in Workers /\ u # None
    BY <1>1, <1>7, NamesDiffer DEF DispatchReport
  <2>2. PICK m \in Message : /\ m = Report(home[u], u, "QUEUED")
                             /\ m.task = u /\ m.status = "QUEUED"
    BY <2>1, ReportTyped DEF TaskStatus
  <2>3. Put(Manager, m) /\ pending' = None /\ UNCHANGED home
    BY <1>7, <2>1, <2>2 DEF DispatchReport
  <2>4. /\ Only(t, S, Manager)'
        /\ Chain(t, S, Manager)' = IF m.task = t /\ m.status \in S
                                     THEN Join(Chain(t, S, Manager), <<m.status>>)
                                     ELSE Chain(t, S, Manager)
    BY <1>1, <2>3, PutChain
  <2>5. CASE u = t
    <3>1. Chain(t, S, Manager) = <<>> /\ "QUEUED" \in Status
      BY <1>1, <2>1, <2>5 DEF Status, TaskStatus
    <3>2. Join(<<>>, <<"QUEUED">>) = <<"QUEUED">>
      BY <3>1, JoinTyped, JoinEmpty
    <3>3. Chain(t, S, Manager)' = <<"QUEUED">>
      BY <2>2, <2>4, <2>5, <3>1, <3>2 DEF S
    <3>4. home[t] # None /\ pending' # t
      BY <2>1, <2>3, <2>5, NamesDiffer
    <3> QED BY <2>3, <2>4, <3>3, <3>4 DEF QueuedOnce, S
  <2>6. CASE u # t
    <3>1. pending' # t /\ pending # t
      BY <2>1, <2>3, <2>6, NamesDiffer
    <3> QED BY <1>2, <2>2, <2>3, <2>4, <2>6, <3>1
  <2> QED BY <2>5, <2>6
<1>8. CASE ReadStatus
  <2>1. GetQueuedStatus /\ UNCHANGED <<home, pending>>
    BY <1>8 DEF ReadStatus
  <2>2. Only(t, S, Manager)' /\ Chain(t, S, Manager)' = Chain(t, S, Manager)
    BY <1>1, <2>1, ReadChain
  <2> QED BY <1>2, <2>1, <2>2
<1>9. ASSUME NEW p \in Processes, FlushStep(p) PROVE QueuedOnce(t)'
  <2>1. Flush(p) /\ UNCHANGED <<home, pending>>
    BY <1>9 DEF FlushStep
  <2>2. Only(t, S, Manager)' /\ Chain(t, S, Manager)' = Chain(t, S, Manager)
    BY <1>1, <2>1, FlushChain
  <2> QED BY <1>2, <2>1, <2>2
<1>10. CASE UNCHANGED vars
  <2>1. UNCHANGED <<statusVars, home, pending>>
    BY <1>10 DEF vars
  <2> QED BY <1>2, <1>3, <2>1
<1>11. ASSUME NEW w \in Workers, WorkerStep(w), UNCHANGED <<home, pending>>
       PROVE  QueuedOnce(t)'
  <2>1. CASE SayNothing
    BY <1>2, <1>3, <1>11, <2>1
  <2>2. ASSUME NEW u \in Tasks, NEW s \in ByWorkers, Say(w, u, s)
        PROVE  QueuedOnce(t)'
    <3>1. PICK m \in Message : m = Report(w, u, s) /\ m.status # "QUEUED"
      <4>1. s \in TaskStatus \cup {None} /\ s # "QUEUED"
        BY DEF TaskStatus, ByWorkers
      <4> QED BY <4>1, ReportTyped
    <3> QED BY <1>2, <1>4, <1>11, <2>2, <3>1 DEF Processes, Say
  <2>3. ASSUME NEW s \in {"ERROR", None}, Put(w, Report(w, None, s))
        PROVE  QueuedOnce(t)'
    <3>1. PICK m \in Message : m = Report(w, None, s) /\ m.task # t
      <4>1. s \in TaskStatus \cup {None} /\ None # t
        BY NamesDiffer DEF TaskStatus
      <4> QED BY <4>1, ReportTyped
    <3> QED BY <1>2, <1>4, <1>11, <2>3, <3>1 DEF Processes
  <2> QED BY <1>11, <2>1, <2>2, <2>3, WorkerStepSpeech
<1>12. ASSUME NEW w \in Workers, Die(w), UNCHANGED <<home, pending>>
       PROVE  QueuedOnce(t)'
  <2>1. LoseFeeder(w) /\ w \in Processes /\ w # Manager
    BY <1>12, NamesDiffer DEF Die, Processes
  <2>2. Only(t, S, Manager)' /\ Chain(t, S, Manager)' = Chain(t, S, Manager)
    BY <1>1, <2>1, LoseChain
  <2> QED BY <1>2, <1>12, <2>2
<1> QED
  BY <1>5, <1>6, <1>7, <1>8, <1>9, <1>10, <1>11, <1>12, NextByActor
  DEF ManagerStep

DeliveryInv ==
    KilledSilent /\ \A t \in Tasks : Delivery(t) /\ QueuedOnce(t)

LEMMA DeliveryHolds == Spec => []DeliveryInv
<1>1. Init => DeliveryInv
  <2> SUFFICES ASSUME Init PROVE DeliveryInv
    OBVIOUS
  <2>1. /\ feeder = [p \in Processes |-> <<>>] /\ pipe = <<>> /\ delivered = <<>>
        /\ \A t \in Tasks : said[t] = <<>> /\ home[t] = None
        /\ pc = [w \in Workers |-> "absent"]
    BY DEF Init, StatusQueueInit, WorkerInit
  <2>2. KilledSilent
    BY <2>1 DEF KilledSilent, Killed
  <2>3. <<>> \in Seq(Message)
    OBVIOUS
  <2>4. \A t, S : Statuses(<<>>, t, S) = <<>>
    BY <2>3, StatusesFacts
  <2>5. Join(<<>>, <<>>) = <<>> /\ <<>> \in Lists
    BY JoinTyped, JoinEmpty
  <2>6. ASSUME NEW t, NEW S PROVE Only(t, S, Manager) /\ Chain(t, S, Manager) = <<>>
    <3>1. \A p \in Processes : feeder[p] = <<>>
      BY <2>1
    <3>2. \A p \in Processes : Statuses(feeder[p], t, S) = <<>>
      BY <2>4, <3>1
    <3> QED BY <2>1, <2>4, <2>5, <3>2 DEF Only, Chain, Processes
  <2>7. ASSUME NEW t \in Tasks PROVE Delivery(t)
    BY <2>1, <2>5, <2>6 DEF Delivery, Source
  <2>8. ASSUME NEW t \in Tasks PROVE QueuedOnce(t)
    BY <2>1, <2>6 DEF QueuedOnce
  <2> QED BY <2>2, <2>7, <2>8 DEF DeliveryInv
<1>2. Inv /\ DeliveryInv /\ [Next]_vars => DeliveryInv'
  <2> SUFFICES ASSUME Inv, DeliveryInv, [Next]_vars PROVE DeliveryInv'
    OBVIOUS
  <2>1. KilledSilent'
    BY KilledSilentNext DEF DeliveryInv
  <2>2. ASSUME NEW t \in Tasks PROVE Delivery(t)' /\ QueuedOnce(t)'
    BY DeliveryNext, QueuedOnceNext DEF DeliveryInv
  <2> QED BY <2>1, <2>2 DEF DeliveryInv
<1> QED BY <1>1, <1>2, InvHolds, PTL DEF Spec

\* The reader gets what a worker said of a task, in order and once; only what a
\* killed process had not flushed is missing, and only at the end.
THEOREM StatusesAreDelivered == Spec => []StatusDelivery
<1>1. Inv /\ DeliveryInv => StatusDelivery
  <2> SUFFICES ASSUME Inv, DeliveryInv, NEW t \in Tasks, NEW w \in Workers, home[t] = w
               PROVE  LET seen == Statuses(delivered \o pipe \o feeder[w], t, ByWorkers) IN
                      IF pc[w] = "killed" THEN IsPrefix(seen, said[t]) ELSE seen = said[t]
    BY DEF StatusDelivery
  <2>1. Source(t) = w /\ w \in Processes
    BY NamesDiffer DEF Source, Processes
  <2>2. PICK rest \in Lists : /\ Join(Chain(t, ByWorkers, w), rest) = said[t]
                              /\ rest = <<>> \/ pc[w] = "killed"
    BY <2>1 DEF DeliveryInv, Delivery, Killed
  <2>3. /\ delivered \in Seq(Message) /\ pipe \in Seq(Message) /\ feeder[w] \in Seq(Message)
    BY <2>1 DEF Inv, TypeOK, StatusQueueTypeOK
  <2>4. PICK seen \in Lists :
          /\ seen = Statuses(delivered \o pipe \o feeder[w], t, ByWorkers)
          /\ seen = Chain(t, ByWorkers, w)
    <3>1. PICK d, q, f \in Seq(Message) : d = delivered /\ q = pipe /\ f = feeder[w]
      BY <2>3
    <3>2. PICK qf \in Seq(Message) : qf = q \o f
      BY ConcatProperties
    <3>3. (d \o q) \o f = d \o qf
      BY <3>2, ConcatAssociative
    <3>4. Statuses(q \o f, t, ByWorkers)
            = Join(Statuses(q, t, ByWorkers), Statuses(f, t, ByWorkers))
      BY StatusesConcat DEF Join
    <3>5. Statuses(d \o qf, t, ByWorkers)
            = Join(Statuses(d, t, ByWorkers), Statuses(qf, t, ByWorkers))
      BY StatusesConcat DEF Join
    <3>6. Chain(t, ByWorkers, w) \in Lists
      BY <2>1, ChainTyped DEF Inv, TypeOK
    <3> QED BY <3>1, <3>2, <3>3, <3>4, <3>5, <3>6 DEF Chain
  <2>5. CASE rest = <<>>
    BY <2>2, <2>4, <2>5, JoinEmpty, PrefixOfJoin
  <2>6. CASE pc[w] = "killed"
    BY <2>2, <2>4, <2>6, PrefixOfJoin
  <2> QED BY <2>2, <2>5, <2>6
<1> QED BY <1>1, InvHolds, DeliveryHolds, PTL

-----------------------------------------------------------------------------
(* The sandbox of a worker is that of its state, or of a generator without *)
(* effect in it.                                                           *)

\* The generator t has returned, or its process was killed: only then can a state
\* hold its effect.
Effective(t) ==
    \/ said[t] \notin {<<>>, Started}
    \/ /\ home[t] # None
       /\ \/ pc[home[t]] = "killed"
          \/ cur[home[t]] = t /\ pc[home[t]] \in {"success", "leave", "err"}

EffectsAreOld ==
    /\ \A w \in Workers : \A t \in state[w] : Effective(t)
    /\ \A u \in StateTasks : \A t \in basis[u] : Effective(t)

\* While a coroutine generator waits, the sandbox is its own or of one that was
\* called later, whose effect it was not given.
SandboxOfCoroutines ==
    \A w \in Workers : \A t \in awaiting[w] \cap StateTasks :
      sandbox[w] = t \/ sandbox[w] \in StateTasks \ basis[t]

SandboxInv == SandboxMatchesState /\ SandboxOfCoroutines /\ EffectsAreOld

\* Whatever is said of a task is said after what was said before.
LEMMA SaidGrows ==
    ASSUME Inv, [Next]_vars, NEW t \in Tasks
    PROVE  said'[t] = said[t] \/ \E s : said'[t] = Append(said[t], s)
<1>1. said \in [Tasks -> Seq({"RUNNING", "SUCCESS", "ERROR"})]
  BY DEF Inv, TypeOK, WorkerTypeOK
<1>2. CASE ManagerStep
  BY <1>2 DEF ManagerStep, IncreaseWorker, SendKill, Dispatch, DispatchReport,
     ReadStatus, FlushStep, vars, workerVars
<1>3. ASSUME NEW w \in Workers, WorkerStep(w)
      PROVE  said'[t] = said[t] \/ \E s : said'[t] = Append(said[t], s)
  <2>1. CASE UNCHANGED said
    BY <2>1
  <2>2. ASSUME NEW u \in Tasks, NEW s \in ByWorkers, Say(w, u, s)
        PROVE  said'[t] = said[t] \/ said'[t] = Append(said[t], s)
    BY <1>1, <2>2 DEF Say
  <2> QED BY <1>3, <2>1, <2>2, WorkerStepSpeech
<1>4. ASSUME NEW w \in Workers, Die(w) PROVE said'[t] = said[t]
  BY <1>4 DEF Die
<1> QED BY <1>2, <1>3, <1>4, NextByActor

\* Histories of more than one report.
LEMMA LongHistories ==
    \A h \in {Succeeded, <<"RUNNING", "ERROR">>, <<"RUNNING", "SUCCESS", "ERROR">>} :
      h # <<>> /\ h # Started
<1>2. Succeeded # <<>> /\ Succeeded # Started
  BY DEF Started, Succeeded
<1>3. <<"RUNNING", "ERROR">> # <<>> /\ <<"RUNNING", "ERROR">> # Started
  BY DEF Started
<1>4. /\ <<"RUNNING", "SUCCESS", "ERROR">> # <<>>
      /\ <<"RUNNING", "SUCCESS", "ERROR">> # Started
  BY DEF Started
<1> QED BY <1>2, <1>3, <1>4

\* Two reports are not undone by a third.
LEMMA SaidStaysLong ==
    ASSUME Inv, [Next]_vars, NEW t \in Tasks, said[t] \notin {<<>>, Started}
    PROVE  said'[t] \notin {<<>>, Started}
<1>1. said[t] \in Seq({"RUNNING", "SUCCESS", "ERROR"})
  BY DEF Inv, TypeOK, WorkerTypeOK
<1>2. Len(Started) = 1
  BY DEF Started
<1>3. ASSUME NEW s, said'[t] = Append(said[t], s)
      PROVE  said'[t] \notin {<<>>, Started}
  <2>1. Len(said'[t]) = Len(said[t]) + 1 /\ Len(said[t]) \in Nat
    BY <1>1, <1>3
  <2>2. Len(said[t]) # 0
    BY <1>1
  <2>3. Len(said'[t]) # 1
    BY <2>1, <2>2
  <2>5. said'[t] # Started
    BY <1>2, <2>3
  <2>4. said'[t] # <<>>
    BY <1>1, <1>3
  <2> QED BY <2>4, <2>5
<1> QED BY <1>3, SaidGrows

\* A returned function stays in hand until its end is reported or its process is
\* killed.
LEMMA ReturnedStays ==
    ASSUME Inv, NEW w \in Workers, WorkerStep(w) \/ Die(w),
           NEW t \in Tasks, cur[w] = t, pc[w] \in {"success", "leave", "err"}
    PROVE  \/ pc'[w] = "killed"
           \/ cur'[w] = t /\ pc'[w] \in {"success", "leave", "err"}
           \/ said'[t] \notin {<<>>, Started}
<1>1. PlacesTyped /\ SaidAt(w, t)
  BY PlacesAreTyped DEF Inv, SaidByPlace
<1> USE <1>1 DEF PlacesTyped
<1>2. CASE PutSuccess(w) \/ AlarmFires(w)
  BY <1>2 DEF PutSuccess, AlarmFires
<1>3. CASE LeaveKillable(w)
  <2>1. said'[t] = said[t] /\ said[t] = Succeeded
    BY <1>3 DEF LeaveKillable, SaidAt
  <2>2. Succeeded # <<>> /\ Succeeded # Started
    BY LongHistories
  <2> QED BY <2>1, <2>2
<1>4. CASE ReportError(w)
  <2>1. said[t] \in {Started, Succeeded}
    BY <1>4 DEF ReportError, SaidAt
  <2>2. said'[t] = Append(said[t], "ERROR")
    BY <1>4 DEF ReportError, Say, Inv, TypeOK, WorkerTypeOK
  <2>3. said'[t] \in {<<"RUNNING", "ERROR">>, <<"RUNNING", "SUCCESS", "ERROR">>}
    BY <2>1, <2>2, Appending
  <2> QED BY <2>3, LongHistories
<1>5. CASE MonitorStep(w) \/ Heartbeat(w)
  BY <1>5 DEF MonitorStep, HandleControl, ReportStopped, Heartbeat
<1>6. CASE Die(w)
  BY <1>6 DEF Die
<1> QED
  BY <1>2, <1>3, <1>4, <1>5, <1>6
  DEF WorkerStep, MainStep, BodyEnds, TestStopped, CheckStopped, FindEmpty,
      WakeUp, CloseFeeder, Exit, ReportRunning, EnterKillable, ErrorNotReported,
      TakeTask, BodyReturns, BodyRaises, CancelCoroutines, TimeoutRefused,
      StartAsync, FinishAsync

\* What has had its effect once has had it for ever.
LEMMA EffectiveStays ==
    ASSUME Inv, [Next]_vars, NEW t \in Tasks, Effective(t)
    PROVE  Effective(t)'
<1>1. PlacesTyped /\ home \in [Tasks -> Workers \cup {None}]
  BY PlacesAreTyped DEF Inv, TypeOK, ManagerTypeOK
<1>2. CASE said[t] \notin {<<>>, Started}
  BY <1>2, SaidStaysLong DEF Effective
<1>3. CASE said[t] \in {<<>>, Started}
  <2>1. PICK v \in Workers :
          /\ home[t] = v
          /\ \/ pc[v] = "killed"
             \/ cur[v] = t /\ pc[v] \in {"success", "leave", "err"}
    BY <1>1, <1>3 DEF Effective
  <2>2. v # None
    BY NamesDiffer
  <2>3. CASE ManagerStep
    <3>1. home'[t] = v
      BY <1>1, <2>1, <2>2, <2>3
      DEF ManagerStep, IncreaseWorker, SendKill, Dispatch, DispatchReport,
          ReadStatus, FlushStep, vars
    <3>2. cur'[v] = cur[v] /\ pc'[v] = pc[v]
      BY <1>1, <2>1, <2>3
      DEF ManagerStep, IncreaseWorker, SendKill, Dispatch, DispatchReport,
          ReadStatus, FlushStep, vars, workerVars, PlacesTyped
    <3> QED BY <2>1, <2>2, <3>1, <3>2 DEF Effective
  <2>4. ASSUME NEW w \in Workers, WorkerStep(w) \/ Die(w), UNCHANGED managerVars
        PROVE  Effective(t)'
    <3>1. home'[t] = v
      BY <2>1, <2>4
    <3>2. CASE w # v
      <4>1. cur'[v] = cur[v] /\ pc'[v] = pc[v]
        BY <2>4, <3>2, WorkerStepLocal DEF Inv, OthersKeep
      <4> QED BY <2>1, <2>2, <3>1, <4>1 DEF Effective
    <3>3. CASE w = v
      <4>1. pc[v] # "killed"
        BY <2>4, <3>3, WorkerStepAlive DEF Inv, Alive, Die
      <4>2. \/ pc'[v] = "killed"
            \/ cur'[v] = t /\ pc'[v] \in {"success", "leave", "err"}
            \/ said'[t] \notin {<<>>, Started}
        BY <2>1, <2>4, <3>3, <4>1, ReturnedStays
      <4> QED BY <2>2, <3>1, <4>2 DEF Effective
    <3> QED BY <3>2, <3>3
  <2> QED BY <2>3, <2>4, NextByActor
<1> QED BY <1>2, <1>3

\* A generator is called before it has any effect.
LEMMA CalledIsNew ==
    ASSUME Inv, NEW w \in Workers, NEW t \in StateTasks, Calls(w, t)
    PROVE  ~Effective(t)
BY DEF Calls, Effective

\* Every move keeps the sandbox in step with the state.
LEMMA SandboxNext ==
    ASSUME Inv, BodyOwnsState, SandboxInv, [Next]_vars, StateMove
    PROVE  SandboxInv'
<1>1. StateTyped /\ PlacesTyped /\ OnePlace
  BY PlacesAreTyped DEF Inv, TypeOK, WorkerTypeOK, StateTyped
<1>2. \A t \in StateTasks : t \in Tasks
  BY TaskSetsAssumption
<1>3. \A t \in StateTasks : Effective(t) => Effective(t)'
  BY <1>2, EffectiveStays
<1>4. \A t \in StateTasks : t # None
  BY <1>2, NamesDiffer
<1>5. CASE StateUntouched
  <2>1. SandboxMatchesState'
    BY <1>5 DEF StateUntouched, SandboxInv, SandboxMatchesState
  <2>2. SandboxOfCoroutines'
    BY <1>5 DEF StateUntouched, SandboxInv, SandboxOfCoroutines
  <2>3. EffectsAreOld'
    BY <1>1, <1>3, <1>5
    DEF StateUntouched, SandboxInv, EffectsAreOld, StateTyped
  <2> QED BY <2>1, <2>2, <2>3 DEF SandboxInv
<1>6. ASSUME NEW w \in Workers, NEW t \in StateTasks, Calls(w, t)
      PROVE  SandboxInv'
  <2>1. /\ UNCHANGED <<state, maker>>
        /\ \A v \in Workers \ {w} : sandbox'[v] = sandbox[v]
        /\ \A u \in StateTasks \ {t} : basis'[u] = basis[u]
        /\ sandbox'[w] = t /\ basis'[t] = state[w]
    BY <1>1, <1>2, <1>6, PrepareLocal DEF Calls
  <2>2. /\ \A v \in Workers : t \notin state[v]
        /\ \A u \in StateTasks : t \notin basis[u]
    BY <1>6, CalledIsNew DEF SandboxInv, EffectsAreOld
  <2>3. SandboxMatchesState'
    BY <2>1, <2>2 DEF SandboxInv, SandboxMatchesState
  <2>4. ASSUME NEW v \in Workers, NEW u \in awaiting'[v], u \in StateTasks
        PROVE  sandbox'[v] = u \/ sandbox'[v] \in StateTasks \ basis'[u]
    <3>1. CASE u = t /\ v = w
      BY <2>1, <3>1
    <3>2. CASE u \in awaiting[v] /\ u # t
      BY <2>1, <2>2, <2>4, <3>2 DEF SandboxInv, SandboxOfCoroutines
    <3>3. ASSUME u \in awaiting[v], u = t PROVE FALSE
      BY <1>6, <3>3 DEF Calls, Inv, OnePlace
    <3>4. u \in awaiting[v] \/ (u = t /\ v = w)
      BY <1>1, <1>6, <2>4 DEF Calls, PlacesTyped
    <3> QED BY <3>1, <3>2, <3>3, <3>4
  <2>5. SandboxOfCoroutines'
    BY <2>4 DEF SandboxOfCoroutines
  <2>6. EffectsAreOld'
    BY <1>1, <1>3, <2>1 DEF SandboxInv, EffectsAreOld, StateTyped
  <2> QED BY <2>3, <2>5, <2>6 DEF SandboxInv
<1>7. ASSUME NEW w \in Workers, NEW t \in StateTasks,
             Returns(w, t) \/ ReturnsLate(w, t)
      PROVE  SandboxInv'
  <2>1. /\ UNCHANGED <<sandbox, basis, home>>
        /\ \A v \in Workers \ {w} : state'[v] = state[v] /\ maker'[v] = maker[v]
        /\ state'[w] = basis[t] \cup {t} /\ maker'[w] = t
    BY <1>1, <1>2, <1>7, InstallLocal DEF Returns, ReturnsLate
  <2>2. \A v \in Workers : awaiting'[v] \subseteq awaiting[v]
    BY <1>1, <1>7 DEF Returns, ReturnsLate, PlacesTyped
  <2>3. sandbox[w] = t \/ sandbox[w] \in StateTasks \ basis[t]
    BY <1>7
    DEF Returns, ReturnsLate, BodyOwnsState, Owns, SandboxInv, SandboxOfCoroutines
  <2>4. Effective(t)'
    <3>1. CASE Returns(w, t)
      BY <3>1, NamesDiffer DEF Returns, Effective
    <3>2. CASE ReturnsLate(w, t)
      <4>1. said[t] = Started
        BY <1>2, <3>2 DEF ReturnsLate, Inv, SaidByPlace, SaidAt
      <4>2. said'[t] = Succeeded
        BY <3>2, <4>1, Appending DEF ReturnsLate
      <4>3. Succeeded \notin {<<>>, Started}
        BY LongHistories
      <4> QED BY <4>2, <4>3 DEF Effective
    <3> QED BY <1>7, <3>1, <3>2
  <2>5. SandboxMatchesState'
    BY <2>1, <2>3 DEF SandboxInv, SandboxMatchesState
  <2>6. SandboxOfCoroutines'
    BY <2>1, <2>2 DEF SandboxInv, SandboxOfCoroutines
  <2>7. EffectsAreOld'
    <3>1. ASSUME NEW v \in Workers, NEW x \in state'[v] PROVE Effective(x)'
      <4>1. x = t \/ x \in state[v] \/ x \in basis[t]
        BY <2>1, <3>1
      <4>2. x \in StateTasks
        BY <1>1, <4>1 DEF StateTyped
      <4>3. x = t \/ Effective(x)
        BY <4>1 DEF SandboxInv, EffectsAreOld
      <4> QED BY <1>3, <2>4, <4>2, <4>3
    <3>2. ASSUME NEW u \in StateTasks, NEW x \in basis'[u] PROVE Effective(x)'
      BY <1>1, <1>3, <2>1, <3>2 DEF SandboxInv, EffectsAreOld, StateTyped
    <3> QED BY <3>1, <3>2 DEF EffectsAreOld
  <2> QED BY <2>5, <2>6, <2>7 DEF SandboxInv
<1> QED BY <1>5, <1>6, <1>7 DEF StateMove

\* The worker's sandbox is that of the generator that made its state, unless the
\* state holds nothing of the sandbox's own generator.
THEOREM SandboxBelongsToState == Spec => []SandboxMatchesState
<1>1. Init => SandboxInv
  BY DEF Init, WorkerInit, SandboxInv, SandboxMatchesState, SandboxOfCoroutines,
         EffectsAreOld
<1>2. Inv /\ BodyOwnsState /\ SandboxInv /\ [Next]_vars => SandboxInv'
  BY StateMoves, SandboxNext
<1>3. SandboxInv => SandboxMatchesState
  BY DEF SandboxInv
<1> QED BY <1>1, <1>2, <1>3, InvHolds, OwnsHolds, PTL DEF Spec

-----------------------------------------------------------------------------
(* The stream that is read implements TaskStatusStream.                    *)

Shown(t)       == Statuses(delivered, t, ByWorkers)
QueuedShown(t) == Statuses(delivered, t, {"QUEUED"}) # <<>>

\* What can come after the beginning of a well-formed history.
LEMMA NextOfWellFormed ==
    ASSUME Inv, NEW t \in Tasks, NEW d \in Lists, NEW s \in Status, NEW later \in Lists,
           Join(Join(d, <<s>>), later) = said[t]
    PROVE  \/ d = <<>> /\ s = "RUNNING"
           \/ d = <<"RUNNING">> /\ s \in {"SUCCESS", "ERROR"}
           \/ /\ d = <<"RUNNING", "SUCCESS">> /\ s = "ERROR"
              /\ t \in Tasks \ AsyncTasks /\ Interrupted(t)
<1> DEFINE a == Append(d, s)
           h == a \o later
<1>1. /\ d \in Seq(Status) /\ a \in Seq(Status) /\ later \in Seq(Status)
      /\ Len(a) = Len(d) + 1 /\ a[Len(a)] = s
      /\ \A i \in 1..Len(d) : a[i] = d[i]
  BY DEF Lists
<1>2. h = said[t]
  BY JoinOne DEF Join
<1>3. Len(h) = Len(a) + Len(later) /\ \A i \in 1..Len(a) : h[i] = a[i]
  BY <1>1, ConcatProperties
<1> HIDE DEF a, h
<1>4. Len(d) \in Nat /\ Len(later) \in Nat
  BY <1>1
<1>5. /\ Len(h) > Len(d) /\ s = h[Len(d) + 1]
      /\ \A i \in 1..Len(d) : d[i] = h[i]
  BY <1>1, <1>3, <1>4
<1>6. \/ h \in {<<>>, <<"RUNNING">>, <<"RUNNING", "SUCCESS">>, <<"RUNNING", "ERROR">>}
      \/ h = <<"RUNNING", "SUCCESS", "ERROR">> /\ t \notin AsyncTasks /\ Interrupted(t)
  BY <1>2 DEF Inv, ReportsWellFormed
<1>7. CASE Len(d) = 0
  <2>1. d = <<>>
    BY <1>1, <1>7
  <2>2. s = "RUNNING"
    BY <1>5, <1>6, <1>7
  <2> QED BY <2>1, <2>2
<1>8. CASE Len(d) = 1
  <2>1. d[1] = "RUNNING" /\ s \in {"SUCCESS", "ERROR"}
    BY <1>5, <1>6, <1>8
  <2>2. d = <<"RUNNING">>
    BY <1>1, <1>8, <2>1
  <2> QED BY <2>1, <2>2
<1>9. CASE Len(d) = 2
  <2>1. /\ h = <<"RUNNING", "SUCCESS", "ERROR">> /\ t \notin AsyncTasks /\ Interrupted(t)
        /\ d[1] = "RUNNING" /\ d[2] = "SUCCESS" /\ s = "ERROR"
    BY <1>5, <1>6, <1>9
  <2>2. d = <<"RUNNING", "SUCCESS">>
    BY <1>1, <1>9, <2>1
  <2> QED BY <2>1, <2>2
<1>10. Len(d) = 0 \/ Len(d) = 1 \/ Len(d) = 2
  <2>1. PICK k \in {0, 1, 2, 3} : k = Len(h)
    BY <1>6
  <2>2. PICK n \in Nat : n = Len(d) /\ k > n
    BY <1>4, <1>5, <2>1
  <2>3. k > n
    BY <2>2
  <2>4. n = 0 \/ n = 1 \/ n = 2
    BY ONLY <2>3, k \in {0, 1, 2, 3}, n \in Nat
  <2> QED BY <2>2, <2>4
<1> QED BY <1>7, <1>8, <1>9, <1>10

\* What comes before an element of a sequence of one element at most.
LEMMA NothingBefore ==
    ASSUME NEW a \in Lists, NEW b \in Lists, NEW s \in Status, NEW x,
           Join(a, Join(<<s>>, b)) = <<>> \/ Join(a, Join(<<s>>, b)) = <<x>>
    PROVE  a = <<>>
<1> DEFINE c == <<s>> \o b
<1>1. /\ a \in Seq(Status) /\ b \in Seq(Status) /\ c \in Seq(Status)
      /\ Len(c) = Len(b) + 1 /\ Len(a) \in Nat /\ Len(b) \in Nat
  BY DEF Lists
<1> HIDE DEF c
<1>2. a \o c = <<>> \/ a \o c = <<x>>
  BY DEF Join, c
<1>3. Len(a \o c) = Len(a) + Len(c)
  BY <1>1, ConcatProperties
<1>4. Len(a \o c) <= 1
  BY <1>2
<1>5. Len(a) = 0
  BY <1>1, <1>3, <1>4
<1> QED BY <1>1, <1>5

\* A message that is read shows a status of one task, or concerns nobody.
LEMMA ReadShows ==
    ASSUME Inv, DeliveryInv, ReadStatus
    PROVE  \/ /\ \A u \in Tasks : /\ Shown(u)' = Shown(u)
                                  /\ QueuedShown(u)' <=> QueuedShown(u)
           \/ \E t \in Tasks :
                /\ ~ QueuedShown(t) /\ QueuedShown(t)'
                /\ \A u \in Tasks : Shown(u)' = Shown(u)
                /\ \A u \in Tasks \ {t} : QueuedShown(u)' <=> QueuedShown(u)
           \/ \E t \in Tasks, s \in {"RUNNING", "SUCCESS", "ERROR"} :
                /\ Shown(t)' = Append(Shown(t), s)
                /\ \A u \in Tasks \ {t} : Shown(u)' = Shown(u)
                /\ \A u \in Tasks : QueuedShown(u)' <=> QueuedShown(u)
                /\ \/ Shown(t) = <<>> /\ s = "RUNNING"
                   \/ Shown(t) = <<"RUNNING">> /\ s \in {"SUCCESS", "ERROR"}
                   \/ /\ Shown(t) = <<"RUNNING", "SUCCESS">> /\ s = "ERROR"
                      /\ t \in Tasks \ AsyncTasks /\ Interrupted(t)
<1>1. /\ pipe # <<>> /\ pipe \in Seq(Message) /\ delivered \in Seq(Message)
      /\ pipe' = Tail(pipe) /\ delivered' = Append(delivered, Head(pipe))
  BY DEF ReadStatus, GetQueuedStatus, Inv, TypeOK, StatusQueueTypeOK
<1>2. PICK m \in Message : m = Head(pipe)
  BY <1>1, HeadFacts
<1>3. m.status \in Status
  BY DEF Message, Status
<1>4. ASSUME NEW u, NEW S
      PROVE  Statuses(delivered', u, S) = IF m.task = u /\ m.status \in S
                                            THEN Join(Statuses(delivered, u, S), <<m.status>>)
                                            ELSE Statuses(delivered, u, S)
  BY <1>1, <1>2, StatusesPut
<1>5. CASE ~ (m.task \in Tasks /\ m.status \in ByWorkers \cup {"QUEUED"})
  BY <1>4, <1>5 DEF Shown, QueuedShown
<1>6. CASE m.task \in Tasks /\ m.status = "QUEUED"
  <2>1. PICK t \in Tasks : t = m.task
    BY <1>6
  <2>2. m.status \notin ByWorkers /\ m.status \in {"QUEUED"}
    BY <1>6 DEF ByWorkers
  <2>3. /\ \A u \in Tasks : Shown(u)' = Shown(u)
        /\ \A u \in Tasks \ {t} : QueuedShown(u)' <=> QueuedShown(u)
    BY <1>4, <2>1, <2>2 DEF Shown, QueuedShown
  <2>4. StatusQueueTypeOK /\ Manager \in Processes /\ GetQueuedStatus
    BY DEF Inv, TypeOK, Processes, ReadStatus
  <2>5. PICK q, f \in Lists : /\ q = Statuses(delivered, t, {"QUEUED"})
                              /\ f = Statuses(feeder[Manager], t, {"QUEUED"})
    BY <2>4, ChainTyped
  <2>6. PICK u \in Lists : u = Statuses(Tail(pipe), t, {"QUEUED"})
    BY <1>1, HeadFacts, StatusesFacts DEF Lists
  <2>7. PICK h \in Lists : h = <<"QUEUED">>
    BY <1>3, <1>6, JoinTyped
  <2>8. Chain(t, {"QUEUED"}, Manager)' = Chain(t, {"QUEUED"}, Manager)
    BY <2>4, ReadChain DEF DeliveryInv, QueuedOnce
  <2>9. feeder' = feeder
    BY <2>4 DEF GetQueuedStatus
  <2>10. Chain(t, {"QUEUED"}, Manager)' = Join(Join(q, h), Join(u, f))
    BY <1>1, <1>4, <1>6, <2>1, <2>2, <2>5, <2>6, <2>7, <2>9 DEF Chain
  <2>11. Join(Join(q, h), Join(u, f)) = Join(q, Join(h, Join(u, f))) /\ Join(u, f) \in Lists
    BY JoinTyped, JoinAssociative
  <2>12. Chain(t, {"QUEUED"}, Manager) = <<>> \/ Chain(t, {"QUEUED"}, Manager) = <<"QUEUED">>
    BY DEF DeliveryInv, QueuedOnce
  <2>13. q = <<>>
    BY <1>3, <1>6, <2>7, <2>8, <2>10, <2>11, <2>12, NothingBefore
  <2>14. QueuedShown(t)'
    <3>1. Statuses(delivered', t, {"QUEUED"}) = Join(q, h)
      BY <1>4, <1>6, <2>1, <2>2, <2>5, <2>7
    <3>2. h # <<>>
      BY <2>7
    <3> QED BY <3>1, <3>2, JoinEmpty DEF QueuedShown
  <2> QED BY <2>3, <2>5, <2>13, <2>14 DEF QueuedShown
<1>7. CASE m.task \in Tasks /\ m.status \in ByWorkers
  <2>1. PICK t \in Tasks, s \in ByWorkers : t = m.task /\ s = m.status
    BY <1>7
  <2>2. s \notin {"QUEUED"} /\ s \in {"RUNNING", "SUCCESS", "ERROR"} /\ s \in Status
    BY <1>3, <2>1 DEF ByWorkers
  <2>3. /\ Shown(t)' = Join(Shown(t), <<s>>)
        /\ \A u \in Tasks \ {t} : Shown(u)' = Shown(u)
        /\ \A u \in Tasks : QueuedShown(u)' <=> QueuedShown(u)
    BY <1>4, <2>1, <2>2 DEF Shown, QueuedShown
  <2>4. PICK d \in Lists : d = Shown(t)
    BY <1>1, StatusesFacts DEF Shown, Lists
  <2>5. PICK later \in Lists : Join(Shown(t)', later) = said[t]
    <3>1. PICK src \in Processes : src = Source(t)
      BY SourceTyped DEF Inv
    <3>2. PICK rest \in Lists : Join(Chain(t, ByWorkers, src), rest) = said[t]
      BY <3>1 DEF DeliveryInv, Delivery
    <3>3. Chain(t, ByWorkers, src)' = Chain(t, ByWorkers, src)
      BY <3>1, ReadChain DEF DeliveryInv, Delivery, Inv, TypeOK, ReadStatus
    <3>4. PICK e, q, f \in Lists : /\ e = Shown(t)' /\ q = Statuses(pipe', t, ByWorkers)
                                   /\ f = Statuses(feeder[src], t, ByWorkers)
      <4>1. Tail(pipe) \in Seq(Message) /\ <<s>> \in Lists
        BY <1>1, <2>2, HeadFacts, JoinTyped
      <4>2. Statuses(pipe', t, ByWorkers) \in Lists
        BY <1>1, <4>1, StatusesFacts DEF Lists
      <4>3. Shown(t)' \in Lists
        BY <2>3, <2>4, <4>1, JoinTyped
      <4> QED BY <4>2, <4>3, ChainTyped DEF Inv, TypeOK
    <3>5. Chain(t, ByWorkers, src)' = Join(e, Join(q, f)) /\ Join(q, f) \in Lists
      BY <3>4, JoinTyped DEF Chain, Shown, ReadStatus, GetQueuedStatus
    <3>6. Join(e, Join(Join(q, f), rest)) = said[t] /\ Join(Join(q, f), rest) \in Lists
      <4>1. PICK qf \in Lists : qf = Join(q, f)
        BY <3>5
      <4>2. Join(Join(e, qf), rest) = Join(e, Join(qf, rest)) /\ Join(qf, rest) \in Lists
        BY JoinTyped, JoinAssociative
      <4> QED BY <3>2, <3>3, <3>5, <4>1, <4>2
    <3> QED BY <3>4, <3>6
  <2>6. Join(Join(d, <<s>>), later) = said[t]
    BY <2>3, <2>4, <2>5
  <2>7. \/ d = <<>> /\ s = "RUNNING"
        \/ d = <<"RUNNING">> /\ s \in {"SUCCESS", "ERROR"}
        \/ /\ d = <<"RUNNING", "SUCCESS">> /\ s = "ERROR"
           /\ t \in Tasks \ AsyncTasks /\ Interrupted(t)
    BY <2>2, <2>6, NextOfWellFormed
  <2>8. Shown(t)' = Append(d, s)
    BY <2>2, <2>3, <2>4, JoinOne
  <2> QED BY <2>2, <2>3, <2>4, <2>7, <2>8
<1> QED BY <1>5, <1>6, <1>7

\* Apart from ReadStatus, a step shows nothing, and lets one task more be
\* interrupted or none.
LEMMA OtherStepsShowNothing ==
    ASSUME Inv, [Next]_vars, ~ ReadStatus
    PROVE  /\ delivered' = delivered
           /\ asked' = asked \/ \E uuid : asked' = asked \cup {uuid}
<1>1. ASSUME NEW w \in Workers, \/ IncreaseWorker(w)
                                \/ \E uuid : SendKill(w, uuid)
                                \/ \E t \in Tasks : Dispatch(w, t)
      PROVE  /\ delivered' = delivered
             /\ asked' = asked \/ \E uuid : asked' = asked \cup {uuid}
  BY <1>1 DEF IncreaseWorker, SendKill, Dispatch
<1>2. CASE DispatchReport \/ (\E p \in Processes : FlushStep(p)) \/ UNCHANGED vars
  BY <1>2 DEF DispatchReport, Put, FlushStep, Flush, vars
<1>3. ASSUME NEW w \in Workers, WorkerStep(w) \/ Die(w), UNCHANGED managerVars
      PROVE  delivered' = delivered /\ asked' = asked
  BY <1>3, WorkerStepSpeech DEF Say, Put, Die, LoseFeeder
<1> QED BY <1>1, <1>2, <1>3, NextByActor DEF ManagerStep

LEMMA StepsShow ==
    ASSUME Inv, DeliveryInv, [Next]_vars
    PROVE  [Abstract!Next]_(Abstract!vars)
<1> DEFINE I == {t \in Tasks \ AsyncTasks : Interrupted(t)}
<1>1. CASE ReadStatus
  <2>1. asked' = asked
    BY <1>1 DEF ReadStatus
  <2>2. CASE \A u \in Tasks : Shown(u)' = Shown(u) /\ (QueuedShown(u)' <=> QueuedShown(u))
    BY <2>1, <2>2 DEF Shown, QueuedShown, Interrupted, Abstract!vars
  <2>3. ASSUME NEW t \in Tasks, ~ QueuedShown(t), QueuedShown(t)',
               \A u \in Tasks : Shown(u)' = Shown(u),
               \A u \in Tasks \ {t} : QueuedShown(u)' <=> QueuedShown(u)
        PROVE  Abstract!Next
    <3>1. Abstract!ShowQueued(t)
      BY <2>1, <2>3 DEF Shown, QueuedShown, Interrupted, Abstract!ShowQueued
    <3> QED BY <3>1 DEF Abstract!Next, Abstract!Gives
  <2>4. ASSUME NEW t \in Tasks, NEW s \in {"RUNNING", "SUCCESS", "ERROR"},
               Shown(t)' = Append(Shown(t), s),
               \A u \in Tasks \ {t} : Shown(u)' = Shown(u),
               \A u \in Tasks : QueuedShown(u)' <=> QueuedShown(u),
               \/ Shown(t) = <<>> /\ s = "RUNNING"
               \/ Shown(t) = <<"RUNNING">> /\ s \in {"SUCCESS", "ERROR"}
               \/ /\ Shown(t) = <<"RUNNING", "SUCCESS">> /\ s = "ERROR"
                  /\ t \in Tasks \ AsyncTasks /\ Interrupted(t)
        PROVE  Abstract!Next
    <3>1. Abstract!Show(t, Shown(t), s)
      BY <2>1, <2>4 DEF Shown, QueuedShown, Interrupted, Abstract!Show
    <3> QED BY <2>4, <3>1 DEF Abstract!Next, Abstract!Gives
  <2> QED BY <1>1, <2>2, <2>3, <2>4, ReadShows
<1>2. CASE ~ ReadStatus
  <2>1. delivered' = delivered
    BY <1>2, OtherStepsShowNothing
  <2>2. CASE asked' = asked
    BY <2>1, <2>2 DEF Interrupted, Abstract!vars
  <2>3. ASSUME NEW uuid, asked' = asked \cup {uuid}
        PROVE  [Abstract!Next]_(Abstract!vars)
    <3>1. CASE uuid \in Tasks \ AsyncTasks
      <4>1. Abstract!Interrupt(uuid)
        BY <2>1, <2>3, <3>1 DEF Interrupted, Abstract!Interrupt
      <4> QED BY <3>1, <4>1 DEF Abstract!Next
    <3>2. CASE uuid \notin Tasks \ AsyncTasks
      BY <2>1, <2>3, <3>2 DEF Interrupted, Abstract!vars
    <3> QED BY <3>1, <3>2
  <2> QED BY <1>2, <2>2, <2>3, OtherStepsShowNothing
<1> QED BY <1>1, <1>2

\* Whatever the workers, the queues, the kills and the callers do, the owner of
\* the manager reads a stream that TaskStatusStream allows.
THEOREM StreamIsImplemented == Spec => ImplementsStream
<1>1. Init => Abstract!Init
  <2> SUFFICES ASSUME Init PROVE Abstract!Init
    OBVIOUS
  <2>1. <<>> \in Seq(Message) /\ delivered = <<>>
    BY DEF Init, StatusQueueInit
  <2>2. \A t, S : Statuses(delivered, t, S) = <<>>
    BY <2>1, StatusesFacts
  <2> QED BY <2>2 DEF Abstract!Init
<1> QED
  BY <1>1, StepsShow, InvHolds, DeliveryHolds, PTL DEF Spec, ImplementsStream, Abstract!Spec
=============================================================================
