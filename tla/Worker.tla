------------------------------- MODULE Worker -------------------------------
(***************************************************************************)
(* A worker process, core/worker.py: the main thread takes tasks from the  *)
(* worker's task queue and runs them, an asyncio loop on the same thread   *)
(* runs the coroutine tasks, a second thread watches the control queue.    *)
(*                                                                         *)
(* pc follows the main thread: "loop" is the test of the while statement,  *)
(* "poll" and "sleep" are the two halves of watch_and_get, "check" the     *)
(* second test of stopped, "report" the RUNNING report, "enter" ..         *)
(* "badexc" _task_caller, "last" the last turn of the event loop when run  *)
(* has returned, "exiting" and "closing" the end of the process.           *)
(***************************************************************************)
EXTENDS StatusQueue, FiniteSets

CONSTANTS AsyncTasks,   \* tasks whose function is a coroutine function
          StateTasks,   \* tasks dispatched with result_as_state
          TimedTasks,   \* tasks dispatched with a timeout
          Unloadable,   \* tasks whose message dill.loads rejects
          Unpicklable,  \* tasks whose results and exceptions dill rejects
          Endless,      \* tasks that do not return by themselves
          Stubborn,     \* tasks whose code catches the stop exception
          MaxBeats      \* bound: heartbeats sent by one worker

ASSUME TaskSetsAssumption ==
    /\ AsyncTasks \subseteq Tasks /\ StateTasks \subseteq Tasks
    /\ TimedTasks \subseteq Tasks /\ Unloadable \subseteq Tasks
    /\ Unpicklable \subseteq Tasks /\ Endless \subseteq Tasks
    /\ Stubborn \subseteq Tasks
    /\ MaxBeats \in Nat

VARIABLES taskQueue,    \* worker -> its task queue
          controlQueue, \* worker -> its control queue: uuids to stop
          pc, cur,      \* the main thread: where it is, the task in hand
          stopped,      \* Worker.stopped
          monitor,      \* kill_sign_monitor: "watch", "stopping" or "ended"
          beats,        \* heartbeats sent, for the bound
          running,      \* keys of Worker.running_tasks
          sig, armed,   \* the killable block: sig_ref.value, alarm pending
          created,      \* asyncio tasks created and not yet started
          awaiting,     \* coroutine tasks inside their user function
          state,        \* Worker.state: the state tasks whose effect it holds
          sandbox,      \* Worker.sandbox: the state task that installed it
          maker,        \* history: the state task whose result Worker.state is
          basis,        \* the value of Worker.state a state task was called with
          said          \* history: what the worker reported of each task

mainVars    == <<pc, cur>>
monitorVars == <<stopped, monitor, beats>>
blockVars   == <<sig, armed>>
asyncVars   == <<created, awaiting>>
stateVars   == <<state, sandbox, maker, basis>>
queueVars   == <<taskQueue, controlQueue>>
workerVars  == <<taskQueue, controlQueue, pc, cur, stopped, monitor, beats,
                 running, sig, armed, created, awaiting, state, sandbox, maker,
                 basis, said>>

InBlock == {"body", "success", "leave", "err", "badexc"}
PC == {"absent", "loop", "poll", "sleep", "check", "report", "enter"}
        \cup InBlock \cup {"last", "exiting", "closing", "exited", "killed"}

WorkerTypeOK ==
    /\ taskQueue \in [Workers -> Seq(Tasks)]
    /\ controlQueue \in [Workers -> Seq(Workers \cup Tasks)]
    /\ pc \in [Workers -> PC]
    /\ cur \in [Workers -> Tasks \cup {None}]
    /\ stopped \in [Workers -> BOOLEAN]
    /\ monitor \in [Workers -> {"watch", "stopping", "ended"}]
    /\ beats \in [Workers -> Nat]
    /\ running \in [Workers -> SUBSET Tasks]
    /\ sig \in [Workers -> BOOLEAN]
    /\ armed \in [Workers -> BOOLEAN]
    /\ created \in [Workers -> SUBSET AsyncTasks]
    /\ awaiting \in [Workers -> SUBSET AsyncTasks]
    /\ state \in [Workers -> SUBSET StateTasks]
    /\ sandbox \in [Workers -> StateTasks \cup {None}]
    /\ maker \in [Workers -> StateTasks \cup {None}]
    /\ basis \in [StateTasks -> SUBSET StateTasks]
    /\ said \in [Tasks -> Seq({"RUNNING", "SUCCESS", "ERROR"})]

WorkerInit ==
    /\ taskQueue = [w \in Workers |-> <<>>]
    /\ controlQueue = [w \in Workers |-> <<>>]
    /\ pc = [w \in Workers |-> "absent"]
    /\ cur = [w \in Workers |-> None]
    /\ stopped = [w \in Workers |-> FALSE]
    /\ monitor = [w \in Workers |-> "watch"]
    /\ beats = [w \in Workers |-> 0]
    /\ running = [w \in Workers |-> {}]
    /\ sig = [w \in Workers |-> FALSE]
    /\ armed = [w \in Workers |-> FALSE]
    /\ created = [w \in Workers |-> {}]
    /\ awaiting = [w \in Workers |-> {}]
    /\ state = [w \in Workers |-> {}]
    /\ sandbox = [w \in Workers |-> None]
    /\ maker = [w \in Workers |-> None]
    /\ basis = [t \in StateTasks |-> {}]
    /\ said = [t \in Tasks |-> <<>>]

Alive(w) == pc[w] \notin {"absent", "exited", "killed"}

Goto(w, from, to) == pc[w] = from /\ pc' = [pc EXCEPT ![w] = to]

\* The worker puts status s of task t.
Say(w, t, s) ==
    /\ Put(w, Report(w, t, s))
    /\ said' = [said EXCEPT ![t] = Append(@, s)]

SayNothing == UNCHANGED <<statusVars, said>>

-----------------------------------------------------------------------------
(* The main loop, Worker.run.                                              *)

\* The first test of stopped, of a main thread with nothing in hand.
TestStopped(w) ==
    /\ Goto(w, "loop", IF stopped[w] THEN "last" ELSE "poll")
    /\ UNCHANGED <<cur, running, asyncVars, monitorVars, blockVars, stateVars,
                   queueVars>>
    /\ SayNothing

\* Variant of TakeTask: a message that cannot be loaded ends the loop.
TakeTaskOrEnd(w) ==
    /\ taskQueue[w] # <<>>
    /\ taskQueue' = [taskQueue EXCEPT ![w] = Tail(@)]
    /\ IF Head(taskQueue[w]) \in Unloadable
         THEN Goto(w, "poll", "last") /\ UNCHANGED cur
         ELSE /\ Goto(w, "poll", "check")
              /\ cur' = [cur EXCEPT ![w] = Head(taskQueue[w])]
    /\ UNCHANGED <<controlQueue, monitorVars, running, blockVars, asyncVars,
                   stateVars>>
    /\ SayNothing

\* q.get finds a message.  One that cannot be loaded is consumed; the
\* exception ends this turn of the loop and is only logged.
TakeTask(w) ==
    /\ taskQueue[w] # <<>>
    /\ taskQueue' = [taskQueue EXCEPT ![w] = Tail(@)]
    /\ IF Head(taskQueue[w]) \in Unloadable
         THEN Goto(w, "poll", "loop") /\ UNCHANGED cur
         ELSE /\ Goto(w, "poll", "check")
              /\ cur' = [cur EXCEPT ![w] = Head(taskQueue[w])]
    /\ UNCHANGED <<controlQueue, monitorVars, running, blockVars, asyncVars,
                   stateVars>>
    /\ SayNothing

\* Variant of FindEmpty: an empty queue ends the wait.
FindEmptyGivesUp(w) ==
    /\ Goto(w, "poll", "check")
    /\ UNCHANGED <<cur, running, asyncVars, monitorVars, blockVars, stateVars,
                   queueVars>>
    /\ SayNothing

\* q.get raises Empty, which it also does while a message is still in the
\* manager's feeder; KillSigCauseBreakGet looks at stopped.
FindEmpty(w) ==
    /\ IF stopped[w] THEN Goto(w, "poll", "check") ELSE Goto(w, "poll", "sleep")
    /\ UNCHANGED <<cur, running, asyncVars, monitorVars, blockVars, stateVars,
                   queueVars>>
    /\ SayNothing

WakeUp(w) ==
    /\ Goto(w, "sleep", "poll")
    /\ UNCHANGED <<cur, running, asyncVars, monitorVars, blockVars, stateVars,
                   queueVars>>
    /\ SayNothing

\* Variant of CheckStopped: the second test of stopped is missing.
CheckNothing(w) ==
    /\ Goto(w, "check", "report")
    /\ UNCHANGED <<cur, asyncVars, running, monitorVars, blockVars, stateVars,
                   queueVars>>
    /\ SayNothing

\* The second test: the task just taken is dropped.
CheckStopped(w) ==
    /\ IF stopped[w]
         THEN Goto(w, "check", "last") /\ cur' = [cur EXCEPT ![w] = None]
         ELSE Goto(w, "check", "report") /\ UNCHANGED cur
    /\ UNCHANGED <<running, asyncVars, monitorVars, blockVars, stateVars,
                   queueVars>>
    /\ SayNothing

\* run has returned and the event loop has had its last turn, in which every
\* coroutine created since the last sleep was started: asyncio.run cancels those
\* that still wait (their "finally" runs, no report is put).
CancelCoroutines(w) ==
    /\ Goto(w, "last", "exiting")
    /\ created[w] = {}
    /\ awaiting' = [awaiting EXCEPT ![w] = {}]
    /\ running' = [running EXCEPT ![w] = @ \ awaiting[w]]
    /\ UNCHANGED <<cur, created, monitorVars, blockVars, stateVars, queueVars>>
    /\ SayNothing

ReportRunning(w) ==
    /\ cur[w] # None
    /\ Say(w, cur[w], "RUNNING")
    /\ IF cur[w] \in AsyncTasks
         THEN /\ Goto(w, "report", "loop")
              /\ created' = [created EXCEPT ![w] = @ \cup {cur[w]}]
              /\ cur' = [cur EXCEPT ![w] = None]
         ELSE Goto(w, "report", "enter") /\ UNCHANGED <<created, cur>>
    /\ UNCHANGED <<awaiting, running, monitorVars, blockVars, stateVars,
                   queueVars>>

-----------------------------------------------------------------------------
(* A plain function: Worker._task_caller inside utils/killable.py.         *)

\* Variants of Prepare: the sandbox is installed once and then kept; it is
\* replaced for every task.
PrepareOnce(w, t) ==
    IF t \in StateTasks
      THEN /\ sandbox' = [sandbox EXCEPT ![w] = IF @ = None THEN t ELSE @]
           /\ basis' = [basis EXCEPT ![t] = state[w]]
           /\ UNCHANGED <<state, maker>>
      ELSE UNCHANGED stateVars
PrepareAnyTask(w, t) ==
    /\ sandbox' = [sandbox EXCEPT ![w] = t]
    /\ UNCHANGED <<state, maker, basis>>

\* The state generator's own sandbox replaces the worker's before the call;
\* importing its dependencies may fail first.
Prepare(w, t) ==
    IF t \in StateTasks
      THEN /\ sandbox' = [sandbox EXCEPT ![w] = t]
           /\ basis' = [basis EXCEPT ![t] = state[w]]
           /\ UNCHANGED <<state, maker>>
      ELSE UNCHANGED stateVars

\* Variant of Install: the function was not given the state.
InstallAfresh(w, t) ==
    IF t \in StateTasks
      THEN /\ state' = [state EXCEPT ![w] = {t}]
           /\ maker' = [maker EXCEPT ![w] = t]
           /\ UNCHANGED <<sandbox, basis>>
      ELSE UNCHANGED stateVars

Install(w, t) ==
    IF t \in StateTasks
      THEN /\ state' = [state EXCEPT ![w] = basis[t] \cup {t}]
           /\ maker' = [maker EXCEPT ![w] = t]
           /\ UNCHANGED <<sandbox, basis>>
      ELSE UNCHANGED stateVars

\* Variant of Forget: the entry of running_tasks is not popped.
ForgetNothing(w) ==
    /\ cur' = [cur EXCEPT ![w] = None]
    /\ UNCHANGED <<running, sig, asyncVars, monitorVars, stateVars, queueVars>>

\* The finally clause of _task_caller; the loop goes on.
Forget(w) ==
    /\ running' = [running EXCEPT ![w] = @ \ {cur[w]}]
    /\ cur' = [cur EXCEPT ![w] = None]
    /\ UNCHANGED <<sig, asyncVars, monitorVars, stateVars, queueVars>>

\* Variant of EnterKillable: the flag of the block before is used again.
EnterWithOldFlag(w) ==
    /\ Goto(w, "enter", "body")
    /\ running' = [running EXCEPT ![w] = @ \cup {cur[w]}]
    /\ armed' = [armed EXCEPT ![w] = TRUE]
    /\ Prepare(w, cur[w])
    /\ UNCHANGED <<sig, cur, asyncVars, monitorVars, queueVars>>
    /\ SayNothing

EnterKillable(w) ==
    /\ sig' = [sig EXCEPT ![w] = FALSE]
    /\ running' = [running EXCEPT ![w] = @ \cup {cur[w]}]
    /\ \/ /\ Goto(w, "enter", "body")
          /\ armed' = [armed EXCEPT ![w] = TRUE]
          /\ Prepare(w, cur[w])
       \/ /\ Goto(w, "enter", "err")
          /\ UNCHANGED <<armed, stateVars>>
    /\ UNCHANGED <<cur, asyncVars, monitorVars, queueVars>>
    /\ SayNothing

\* A timeout of zero or less: the assertion of killable fails before the block
\* is entered, and _task_caller reports it.
TimeoutRefused(w) ==
    /\ Goto(w, "enter", "loop")
    /\ cur[w] \in TimedTasks
    /\ Say(w, cur[w], "ERROR")
    /\ Forget(w)
    /\ UNCHANGED armed

BodyReturns(w) ==
    /\ Goto(w, "body", "success")
    /\ cur[w] \notin Endless
    /\ Install(w, cur[w])
    /\ UNCHANGED <<cur, running, asyncVars, monitorVars, blockVars, queueVars>>
    /\ SayNothing

\* The user function raises; killable's finally switches the alarm off.
BodyRaises(w) ==
    /\ Goto(w, "body", IF cur[w] \in Unpicklable THEN "badexc" ELSE "err")
    /\ cur[w] \notin Endless
    /\ armed' = [armed EXCEPT ![w] = FALSE]
    /\ UNCHANGED <<cur, sig, running, asyncVars, monitorVars, stateVars,
                   queueVars>>
    /\ SayNothing

\* Variants of AlarmFires: it always interrupts; it looks at the time only.
Interrupt(w, due) ==
    /\ pc[w] \in {"body", "success", "leave"}
    /\ armed[w] /\ due
    /\ armed' = [armed EXCEPT ![w] = FALSE]
    /\ pc' = [pc EXCEPT ![w] = "err"]
    /\ UNCHANGED <<cur, sig, running, asyncVars, monitorVars, stateVars,
                   queueVars>>
    /\ SayNothing
AlarmAlways(w) == Interrupt(w, TRUE)
AlarmOnTimeoutOnly(w) == Interrupt(w, cur[w] \in TimedTasks)

\* SIGALRM finds sig_ref set or the time over and raises FuncStopException at
\* whatever line the main thread is.  The handler does not arm the alarm again,
\* so code that catches the exception runs on and cannot be stopped any more.
AlarmFires(w) ==
    /\ pc[w] \in {"body", "success", "leave"}
    /\ armed[w]
    /\ sig[w] \/ cur[w] \in TimedTasks
    /\ armed' = [armed EXCEPT ![w] = FALSE]
    /\ \/ pc' = [pc EXCEPT ![w] = "err"]
       \/ pc[w] = "body" /\ cur[w] \in Stubborn /\ UNCHANGED pc
    /\ UNCHANGED <<cur, sig, running, asyncVars, monitorVars, stateVars,
                   queueVars>>
    /\ SayNothing

\* A state task's report carries no result, so it can always be pickled.
PutSuccess(w) ==
    /\ IF cur[w] \in Unpicklable \ StateTasks
         THEN /\ Goto(w, "success", "err")
              /\ armed' = [armed EXCEPT ![w] = FALSE]
              /\ SayNothing
         ELSE /\ Goto(w, "success", "leave")
              /\ Say(w, cur[w], "SUCCESS")
              /\ UNCHANGED armed
    /\ UNCHANGED <<cur, sig, running, asyncVars, monitorVars, stateVars,
                   queueVars>>

LeaveKillable(w) ==
    /\ Goto(w, "leave", "loop")
    /\ armed' = [armed EXCEPT ![w] = FALSE]
    /\ Forget(w)
    /\ SayNothing

\* Variant of ReportError: the exception is swallowed.
ReportErrorSilently(w) ==
    /\ Goto(w, "err", "loop")
    /\ Forget(w)
    /\ UNCHANGED armed
    /\ SayNothing

ReportError(w) ==
    /\ Goto(w, "err", "loop")
    /\ Say(w, cur[w], "ERROR")
    /\ Forget(w)
    /\ UNCHANGED armed

\* dill rejects the exception: the error report itself raises, and run logs it.
ErrorNotReported(w) ==
    /\ Goto(w, "badexc", "loop")
    /\ Forget(w)
    /\ UNCHANGED armed
    /\ SayNothing

-----------------------------------------------------------------------------
(* Coroutine tasks, Worker._async_task_caller: they advance only while the *)
(* main coroutine sleeps in watch_and_get, and once when it has returned.  *)

StartAsync(w, t) ==
    /\ pc[w] \in {"sleep", "last"}
    /\ t \in created[w]
    /\ created' = [created EXCEPT ![w] = @ \ {t}]
    /\ \/ /\ running' = [running EXCEPT ![w] = @ \cup {t}]
          /\ awaiting' = [awaiting EXCEPT ![w] = @ \cup {t}]
          /\ Prepare(w, t)
          /\ SayNothing
       \/ /\ Say(w, t, "ERROR")       \* its dependencies cannot be imported
          /\ UNCHANGED <<running, awaiting, stateVars>>
    /\ UNCHANGED <<mainVars, monitorVars, blockVars, queueVars>>

FinishAsync(w, t) ==
    /\ pc[w] \in {"sleep", "last"}
    /\ t \in awaiting[w] \ Endless
    /\ awaiting' = [awaiting EXCEPT ![w] = @ \ {t}]
    /\ running' = [running EXCEPT ![w] = @ \ {t}]
    /\ \/ /\ t \notin Unpicklable \ StateTasks
          /\ Say(w, t, "SUCCESS")
          /\ Install(w, t)
       \/ /\ t \notin Unpicklable \cap StateTasks
          /\ Say(w, t, "ERROR")       \* it raised, or the result is not picklable
          /\ UNCHANGED stateVars
       \/ /\ t \in Unpicklable        \* the exception is not picklable
          /\ SayNothing
          /\ UNCHANGED stateVars
    /\ UNCHANGED <<created, mainVars, monitorVars, blockVars, queueVars>>

-----------------------------------------------------------------------------
(* The second thread, Worker.kill_sign_monitor.                            *)

\* Variant of HandleControl: the stop of the worker ends the monitor only.
HandleControlNoFlag(w) ==
    /\ Alive(w)
    /\ monitor[w] = "watch"
    /\ controlQueue[w] # <<>>
    /\ controlQueue' = [controlQueue EXCEPT ![w] = Tail(@)]
    /\ monitor' = [monitor EXCEPT ![w] = "stopping"]
    /\ UNCHANGED <<taskQueue, mainVars, beats, running, blockVars, asyncVars,
                   stateVars, stopped>>
    /\ SayNothing

\* The uuid of a task calls what is registered for it: kill of the running
\* function; a coroutine's entry raises, an unknown uuid does nothing.
HandleControl(w) ==
    LET uuid == Head(controlQueue[w]) IN
    /\ Alive(w)
    /\ monitor[w] = "watch"
    /\ controlQueue[w] # <<>>
    /\ controlQueue' = [controlQueue EXCEPT ![w] = Tail(@)]
    /\ IF uuid = w
         THEN /\ stopped' = [stopped EXCEPT ![w] = TRUE]
              /\ monitor' = [monitor EXCEPT ![w] = "stopping"]
              /\ UNCHANGED sig
         ELSE /\ sig' = [sig EXCEPT ![w] =
                           @ \/ (uuid = cur[w] /\ uuid \in running[w])]
              /\ UNCHANGED <<stopped, monitor>>
    /\ UNCHANGED <<taskQueue, mainVars, beats, running, armed, asyncVars,
                   stateVars>>
    /\ SayNothing

\* After the finalizer of the process has told the feeder to end, a message
\* put by this thread stays in the buffer and is lost.
ReportStopped(w) ==
    /\ Alive(w)
    /\ monitor[w] = "stopping"
    /\ monitor' = [monitor EXCEPT ![w] = "ended"]
    /\ IF pc[w] = "closing"
         THEN UNCHANGED statusVars
         ELSE Put(w, Report(w, None, "ERROR"))
    /\ UNCHANGED <<queueVars, mainVars, stopped, beats, running, blockVars,
                   asyncVars, stateVars, said>>

Heartbeat(w) ==
    /\ Alive(w)
    /\ monitor[w] = "watch"
    /\ beats[w] < MaxBeats
    /\ beats' = [beats EXCEPT ![w] = @ + 1]
    /\ Put(w, Report(w, None, None))
    /\ UNCHANGED <<queueVars, mainVars, stopped, monitor, running, blockVars,
                   asyncVars, stateVars, said>>

-----------------------------------------------------------------------------
(* The end of the process: the queue's finalizer, which flushes the feeder *)
(* and then closes it, runs before the threads are joined.                 *)

CloseFeeder(w) ==
    /\ Goto(w, "exiting", "closing")
    /\ UNCHANGED <<cur, running, asyncVars, monitorVars, blockVars, stateVars,
                   queueVars>>
    /\ SayNothing

Exit(w) ==
    /\ Goto(w, "closing", "exited")
    /\ feeder[w] = <<>>
    /\ monitor[w] = "ended"
    /\ UNCHANGED <<cur, running, asyncVars, monitorVars, blockVars, stateVars,
                   queueVars>>
    /\ SayNothing

\* SIGKILL: everything the process kept in memory is gone.
Die(w) ==
    /\ Alive(w)
    /\ pc' = [pc EXCEPT ![w] = "killed"]
    /\ cur' = [cur EXCEPT ![w] = None]
    /\ monitor' = [monitor EXCEPT ![w] = "ended"]
    /\ running' = [running EXCEPT ![w] = {}]
    /\ created' = [created EXCEPT ![w] = {}]
    /\ awaiting' = [awaiting EXCEPT ![w] = {}]
    /\ armed' = [armed EXCEPT ![w] = FALSE]
    /\ LoseFeeder(w)
    /\ UNCHANGED <<queueVars, stopped, beats, sig, stateVars, said>>

-----------------------------------------------------------------------------
MainStep(w) ==
    \/ TestStopped(w) \/ FindEmpty(w) \/ WakeUp(w) \/ CheckStopped(w)
    \/ ReportRunning(w) \/ TimeoutRefused(w) \/ EnterKillable(w)
    \/ PutSuccess(w) \/ LeaveKillable(w) \/ ReportError(w)
    \/ ErrorNotReported(w) \/ CancelCoroutines(w) \/ CloseFeeder(w) \/ Exit(w)

BodyEnds(w) == BodyReturns(w) \/ BodyRaises(w)

MonitorStep(w) == HandleControl(w) \/ ReportStopped(w)

WorkerStep(w) ==
    \/ MainStep(w) \/ TakeTask(w) \/ BodyEnds(w) \/ AlarmFires(w)
    \/ MonitorStep(w) \/ Heartbeat(w)
    \/ \E t \in Tasks : StartAsync(w, t) \/ FinishAsync(w, t)
=============================================================================
