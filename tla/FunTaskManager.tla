--------------------------- MODULE FunTaskManager ---------------------------
(***************************************************************************)
(* The manager process, core/task_worker_manager.py on                     *)
(* providers/worker_manager/multiprocessing_manager.py, together with the  *)
(* worker processes it starts.                                             *)
(***************************************************************************)
EXTENDS Worker, SequencesExt

CONSTANTS Stoppable,    \* the uuids callers give to stop_task and stop_worker
          Killable      \* the uuids callers give to kill_worker

ASSUME CallersAssumption ==
    Stoppable \subseteq Workers \cup Tasks /\ Killable \subseteq Workers

VARIABLES home,         \* task -> the worker it was dispatched to
          pending,      \* the dispatch under way: the task whose QUEUED is due
          asked         \* history: uuids given to stop_task and stop_worker

managerVars == <<home, pending, asked>>
vars == <<statusVars, workerVars, managerVars>>

ManagerTypeOK ==
    /\ home \in [Tasks -> Workers \cup {None}]
    /\ pending \in Tasks \cup {None}
    /\ asked \in SUBSET (Workers \cup Tasks)

\* Every variable has its type.
TypeOK == StatusQueueTypeOK /\ WorkerTypeOK /\ ManagerTypeOK

Init ==
    /\ StatusQueueInit
    /\ WorkerInit
    /\ home = [t \in Tasks |-> None]
    /\ pending = None
    /\ asked = {}

-----------------------------------------------------------------------------
(* The operations of the manager.  It serves one request at a time: none   *)
(* of its awaits gives up the event loop in the middle of an operation, so *)
(* only the processes it talks to run between the two puts of a dispatch.  *)

\* increase_worker: new queues, a Worker, a started process.
IncreaseWorker(w) ==
    /\ pending = None
    /\ Goto(w, "absent", "loop")
    /\ UNCHANGED <<cur, running, monitorVars, blockVars, asyncVars, stateVars,
                   queueVars, managerVars>>
    /\ SayNothing

\* dispatch_fun_task, first half: the message is put to the worker's task
\* queue, whether or not the process still lives.
Dispatch(w, t) ==
    /\ pending = None
    /\ pc[w] # "absent"
    /\ home[t] = None
    /\ home' = [home EXCEPT ![t] = w]
    /\ pending' = t
    /\ taskQueue' = [taskQueue EXCEPT ![w] = Append(@, t)]
    /\ UNCHANGED <<controlQueue, mainVars, running, monitorVars, blockVars,
                   asyncVars, stateVars, asked>>
    /\ SayNothing

\* dispatch_fun_task, second half: the manager itself reports QUEUED.
DispatchReport ==
    /\ pending # None
    /\ Put(Manager, Report(home[pending], pending, "QUEUED"))
    /\ pending' = None
    /\ UNCHANGED <<workerVars, home, asked>>

\* stop_task and stop_worker put a uuid to the control queue, here at most
\* once per uuid; worker_manager.stop_worker does nothing.
SendKill(w, uuid) ==
    /\ pending = None
    /\ pc[w] # "absent"
    /\ uuid \in Stoppable \ asked
    /\ asked' = asked \cup {uuid}
    /\ controlQueue' = [controlQueue EXCEPT ![w] = Append(@, uuid)]
    /\ UNCHANGED <<taskQueue, mainVars, running, monitorVars, blockVars,
                   asyncVars, stateVars, home, pending>>
    /\ SayNothing

StopTask(w, t) == home[t] = w /\ SendKill(w, t)

StopWorker(w) == SendKill(w, w)

KillWorker(w) ==
    /\ pending = None
    /\ w \in Killable
    /\ Die(w)
    /\ UNCHANGED managerVars

ReadStatus ==
    /\ pending = None
    /\ GetQueuedStatus
    /\ UNCHANGED <<workerVars, managerVars>>

FlushStep(p) ==
    /\ Flush(p)
    /\ p \in Workers => Alive(p)
    /\ UNCHANGED <<workerVars, managerVars>>

Internal(w) == WorkerStep(w) /\ UNCHANGED managerVars

Next ==
    \/ \E w \in Workers :
         \/ IncreaseWorker(w) \/ StopWorker(w) \/ KillWorker(w) \/ Internal(w)
         \/ \E t \in Tasks : Dispatch(w, t) \/ StopTask(w, t)
    \/ DispatchReport \/ ReadStatus
    \/ \E p \in Processes : FlushStep(p)

Spec == Init /\ [][Next]_vars

Run(A) == A /\ UNCHANGED managerVars

\* The threads are scheduled and user functions end (those that are not
\* Endless).  The feeder thread of the manager moves every message to the task
\* queue, so q.get does not miss it for ever; the event loop starts and resumes
\* every coroutine some time when it sleeps.  The manager's owner goes on reading
\* the status queue.  Nothing obliges anyone to dispatch, stop or kill, a
\* heartbeat is not promised, and code may always fail to notice the alarm.
Fairness ==
    /\ \A w \in Workers :
         /\ WF_vars(Run(MainStep(w)))
         /\ SF_vars(Run(TakeTask(w)))
         /\ WF_vars(Run(BodyEnds(w)))
         /\ WF_vars(Run(AlarmFires(w)))
         /\ WF_vars(Run(MonitorStep(w)))
         /\ \A t \in AsyncTasks : /\ SF_vars(Run(StartAsync(w, t)))
                                  /\ SF_vars(Run(FinishAsync(w, t)))
    /\ WF_vars(DispatchReport)
    /\ WF_vars(ReadStatus)
    /\ \A p \in Processes : WF_vars(FlushStep(p))

FairSpec == Spec /\ Fairness

-----------------------------------------------------------------------------
(* Safety.                                                                 *)

Interrupted(t) == t \in TimedTasks \/ t \in asked

\* The sandbox of a worker, in which all its later tasks run, is that of the
\* generator that made its state, unless that state holds no effect of the
\* sandbox's own generator: it has not returned, it failed or was stopped, or a
\* coroutine called before it overwrote what it did.
SandboxMatchesState ==
    \A w \in Workers :
      sandbox[w] # maker[w] => sandbox[w] \in StateTasks \ state[w]

\* What the comment in Worker.run claims: watch_and_get gives up without a
\* task only when the worker has been stopped, so task_uuid is never read from
\* None.
NoneMeansStopped ==
    \A w \in Workers : pc[w] \in {"check", "report"} /\ cur[w] = None => stopped[w]

\* A task is run at most once and a worker's reports of it are RUNNING, then
\* at most one final status; the exception is a plain function that was asked
\* to stop or has a timeout: the alarm that rings after SUCCESS was put and
\* before the killable block is left adds ERROR to it.
ReportsWellFormed ==
    \A t \in Tasks :
      \/ said[t] \in {<<>>, <<"RUNNING">>, <<"RUNNING", "SUCCESS">>,
                      <<"RUNNING", "ERROR">>}
      \/ /\ said[t] = <<"RUNNING", "SUCCESS", "ERROR">>
         /\ t \notin AsyncTasks
         /\ Interrupted(t)

\* running_tasks holds exactly the function in its killable block and the
\* coroutines that have started and not ended: whatever way a task ends, no
\* entry is left behind and none is removed early.
RunningTasksExact ==
    \A w \in Workers :
      running[w] = awaiting[w] \cup IF pc[w] \in InBlock THEN {cur[w]} ELSE {}

\* The stop flag that the alarm looks at is raised only for a function whose own uuid
\* was given to stop_task: neither a stop that comes when its function has ended nor
\* the flag of the function before reaches the one that runs now.
StopsReachTheirOwn ==
    \A w \in Workers : pc[w] \in InBlock /\ sig[w] => cur[w] \in asked

\* The statuses of S that s reports of t, in order.
Statuses(s, t, S) ==
    LET upto[n \in 0..Len(s)] ==
          IF n = 0 THEN <<>>
          ELSE IF s[n].task = t /\ s[n].status \in S
                 THEN Append(upto[n - 1], s[n].status)
                 ELSE upto[n - 1]
    IN upto[Len(s)]

ByWorkers == {"RUNNING", "SUCCESS", "ERROR"}

\* Everything a worker reported of a task is read in order and once: nothing
\* is lost on the way as long as the process is not killed, and what a killed
\* process had not flushed is missing at the end only.
StatusDelivery ==
    \A t \in Tasks : \A w \in Workers : home[t] = w =>
      LET seen == Statuses(delivered \o pipe \o feeder[w], t, ByWorkers) IN
      IF pc[w] = "killed" THEN IsPrefix(seen, said[t]) ELSE seen = said[t]

Abstract == INSTANCE TaskStatusStream WITH
    interruptible <- {t \in Tasks \ AsyncTasks : Interrupted(t)},
    queued <- {t \in Tasks : Statuses(delivered, t, {"QUEUED"}) # <<>>},
    shown <- [t \in Tasks |-> Statuses(delivered, t, ByWorkers)]

\* The stream read with get_queued_status implements TaskStatusStream.
ImplementsStream == Abstract!Spec

-----------------------------------------------------------------------------
(* Action properties.                                                      *)

\* Once stopped is set, only the task that has already passed the second test of
\* it is started: neither the one just taken from the queue nor one that still
\* waits is reported RUNNING or comes to be.
StoppedTakesNoTask ==
    [][\A w \in Workers : stopped[w] /\ pc[w] # "report" =>
         \A t \in Tasks : home[t] = w /\ said[t] = <<>> =>
           said'[t] = <<>> /\ ~(pc'[w] = "report" /\ cur'[w] = t)]_vars

\* Worker.state changes only when a generator returns: a plain one adds its effect
\* to the state that is there, whatever coroutines did meanwhile, and only a
\* coroutine that reports SUCCESS can replace the state by one made from an older
\* state.  A generator that fails or is stopped changes nothing.
PlainTasksKeepState ==
    [][\A w \in Workers : state'[w] # state[w] =>
         \/ /\ pc[w] = "body" /\ pc'[w] = "success"
            /\ state'[w] = state[w] \cup {cur[w]}
         \/ \E t \in AsyncTasks \cap StateTasks :
              /\ t \in awaiting[w] \ awaiting'[w]
              /\ said'[t] = Append(said[t], "SUCCESS")]_vars

-----------------------------------------------------------------------------
(* Liveness, under FairSpec.                                               *)

Undisturbed(w) == w \notin asked /\ pc[w] # "killed"

Finished(t) == \E i \in DOMAIN delivered :
    delivered[i].task = t /\ delivered[i].status \in {"SUCCESS", "ERROR"}

\* A task sent to a worker that is neither stopped nor killed ends with a final
\* status that the manager's owner reads, unless its message or its exception
\* cannot be pickled, a killed process has jammed the queue, or a plain function
\* that never returns holds the main thread for ever.
FinalStatusArrives ==
    \A t \in Tasks \ (Unloadable \cup Unpicklable \cup (Endless \cap AsyncTasks)) :
      \A w \in Workers :
        [](home[t] = w => \/ <>(Finished(t) \/ ~Undisturbed(w) \/ jammed)
                          \/ <>[](cur[w] \in Endless))

\* A worker that is asked to stop ends, unless a plain function that never
\* returns holds its main thread or its feeder cannot flush.
StoppedWorkerExits ==
    \A w \in Workers :
      [](w \in asked => \/ <>(pc[w] \in {"exited", "killed"} \/ jammed)
                        \/ <>[](cur[w] \in Endless))

\* A stop that finds the function running ends it, though it never returns,
\* unless its code catches the exception.
StopReachesTask ==
    \A w \in Workers : \A t \in Tasks \ Stubborn :
      (pc[w] = "body" /\ cur[w] = t /\ sig[w]) ~> (cur[w] # t)
=============================================================================
