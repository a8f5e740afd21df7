# FunTask in TLA+

FunTask runs Python functions on remote workers.  A *task worker manager* starts
worker processes and sends them tasks; a *scheduler* creates tasks from cron
entries, assigns them to workers and records their status in a repository; a web
server fronts both.  This directory holds TLA+ models of that program, TLC
configurations that check them on small instances and TLAPS proofs about them.
Paths below are relative to `src/funtask/`.

## 1. The system and its parts

| part | code | state | operations | talks to |
|---|---|---|---|---|
| status queue | `providers/queue/multiprocessing_queue.py` | one pipe, a buffer and feeder thread in every process that puts | `put`, `get`, `watch_and_get` | manager, all workers |
| worker process | `core/worker.py`, `utils/killable.py` | `stopped`, `running_tasks`, `state`, `sandbox`, the SIGALRM handler | `run`, `_task_caller`, `_async_task_caller`, `kill_sign_monitor` | its task queue and control queue, the status queue |
| task worker manager | `core/task_worker_manager.py`, `providers/worker_manager/multiprocessing_manager.py` | process table, queues by name | `increase_worker`, `dispatch_fun_task`, `generate_worker_state`, `stop_task`, `stop_worker`, `kill_worker`, `get_queued_status` | the queues, `Process.kill` |
| manager RPC | `task_worker_manager/manager_service.py`, `manager_rpc_client.py`, `common/grpc.py` | the node list of `HashRPChooser` | forwards the manager's operations, streams the status | manager, scheduler, web server |
| worker scheduler | `core/scheduler.py` `WorkerScheduler` | cron jobs; the repository's task rows | `process_new_status`, `assign_task`, `assign_cron_task`, `remove_cron_task`, `_create_cron_sub_task` | manager RPC, repository, cron, argument queues, lock |
| leader scheduler | `core/scheduler.py` `LeaderScheduler` | `nodes`, `node_responsible_tasks_dict` | `scheduler_node_change`, `rebalance` | the worker schedulers of all nodes |
| scheduler loop | `core/scheduler.py` `Scheduler.run` | time of the last rebalance | elect, rebalance or read status | all of the above |
| sandbox | `utils/sandbox.py` | `sys.modules`, the modules of one sandbox | `call_with`, `async_call_with`, `drop` | worker |
| repository | `providers/db/sql/infrastructure.py`, `model.py` | tables of tasks, workers, cron tasks, functions; one transaction per session | `add_*`, `update_task`, `change_task_status`, `get_*_from_cursor` | scheduler, web server |
| web server | `webserver/webserver_service.py` | none of its own | `increase_worker`, `get_workers` | manager RPC, repository |
| cron, locks, key-value store | `providers/...` | jobs, keys | `every_n_*`, `lock` | scheduler |

### What is hard about it

*Concurrency.*  A worker process has three activities: the main thread, which
takes tasks and runs plain functions; the coroutine tasks, which share that
thread and advance only while the main coroutine sleeps in `watch_and_get`; and a
second thread, `kill_sign_monitor`, which sets `stopped` and calls the kill
function that the main thread registered in `running_tasks`.  SIGALRM raises an
exception at any line of the block it guards.  Reports go through buffers, feeder
threads and one pipe, so messages of different processes overtake each other.

*Failure.*  `kill_worker` is SIGKILL, at any line, also while the feeder holds the
lock of the pipe; messages, results and exceptions may not be picklable; imports
fail; functions may never return, or catch the exception that is to stop them.

*Ordering.*  `dispatch_fun_task` sends the task first and reports QUEUED second;
a stop comes before the task has started, while it runs, or when it has just
ended; the worker is stopped between taking a task and running it.

*Beyond one manager.*  Calls are routed to manager nodes by a hash; the leader
moves cron tasks between nodes with a remove and an assign; a status read in one
coroutine races an update by another.  The status stream is left at a deadline of
0.01 s, at a limit or by an exception, and each time reports are on their way in it;
rows commit in another order than they took their ids.

### What makes each part correct

* Status queue: what a process puts arrives in order and once; what is lost is what
  a killed process had not flushed; a process that blocks delays, and loses nothing.
* Worker: a task runs at most once; its reports are RUNNING and at most one final
  status; `running_tasks` names exactly what runs; a state generator that fails or is
  stopped changes no state, and the sandbox is that of the state unless its own
  generator has not returned, has failed, or was overwritten by a coroutine;
  a stopped worker takes no more work and ends; a stop reaches the function it was
  meant for and no other.
* Manager: every task sent to a healthy worker ends with a final status that its
  owner can read; the stream it offers is the one of `TaskStatusStream`.
* Worker scheduler: a task's recorded status never goes back from a final one; a
  cron entry that falls due produces one task, which is assigned or skipped.
* Leader scheduler: every cron task is on one node, also after a node change and a
  rebalance, and after one of their calls failed.
* Manager RPC: calls about one worker go to one node, the one that runs it if it has
  taken a task of that client, and tasks of one client keep their order; statuses come out
  of the streams in the order of the queue.
* Repository and web server: a request that was answered has its worker in the table;
  a reader who pages through the table sees what was in it, as far as the pages are in
  the order of ids.
* Sandbox: `drop` removes what its own call imported and nothing else; the modules
  that belong to the worker's state stay the same objects.

`PROJECT.json` lists the places where this can go wrong, with the properties that
look at them.

## 2. The modules

| module | models | how |
|---|---|---|
| `StatusQueue` | the status queue | `feeder` per process, `pipe`, `delivered` as history; `Flush` is a feeder thread, `LoseFeeder` SIGKILL, which may leave the pipe's lock taken (`jammed`) |
| `Worker` | a worker process | extends `StatusQueue`; see below |
| `FunTaskManager` | the manager and its workers | extends `Worker`; the callers of the manager, `Next`, fairness, all properties |
| `TaskStatusStream` | what a reader of `get_queued_status` may rely on | abstract specification, three variables |
| `MCFunTask` | instances for TLC | model values, action constraints, a view |
| `FunTaskProofs` | TLAPS proofs | extends `FunTaskManager` and `Recursion` |
| `Sandbox` | `sys.modules` of one worker under the calls of `utils/sandbox.py` | one step per plain call, two per coroutine (call, return) |
| `MCSandbox` | instance for TLC | dependencies of five tasks |
| `SandboxProofs` | TLAPS proofs | extends `Sandbox` |
| `CronSubTask` | `WorkerScheduler._create_cron_sub_task` | one `pc` per firing of a cron task; the firings share locks, an argument queue and the rows |
| `MCCronSubTask` | instances for TLC | strategies, UDF chains |
| `CronSubTaskProofs` | TLAPS proofs | extends `CronSubTask` and `Recursion` |
| `Recursion` | induction over numbers for sets, and that recursive equations have a solution | lemmas for the two modules of proofs that need them |
| `LeaderScheduler` | `LeaderScheduler` with its place in `Scheduler.run`, and the cron jobs of the `WorkerScheduler`s it calls | one `pc` for each of the leader's two coroutines; every call to a node ends a step |
| `MCLeader` | instances for TLC | model values, symmetry of the nodes |
| `LeaderSchedulerProofs` | TLAPS proofs | extends `LeaderScheduler` |
| `StatusReports` | `Scheduler.run` between two rebalances, `process_new_status`, `assign_task`, the status stream of `ManagerService` and `ManagerRPCClient`, the status column of the tasks | one `pc` per scheduler; takes reports out of `TaskStatusStream` |
| `MCStatusReports` | instance for TLC | an action constraint that tells the two like schedulers apart |
| `StatusReportsProofs` | TLAPS proofs | extends `StatusReports` |
| `ManagerRouting` | `HashRPChooser`, the other calls of `ManagerRPCClient` and their handlers on several manager nodes | queues per node and worker |
| `MCManagerRouting` | instance for TLC | hashes, node lists |
| `ManagerRoutingProofs` | TLAPS proofs | extends `ManagerRouting` |
| `WorkerTable` | `increase_worker` and `get_workers` of the web server with the transactions of the repository | one `pc` per request, one reader |
| `MCWorkerTable` | instance for TLC | symmetry |
| `WorkerTableProofs` | TLAPS proofs | extends `WorkerTable` |

In `Worker` the variable `pc[w]` is the place of the main thread:

| `pc` | code |
|---|---|
| `loop` | `while not self.stopped`, worker.py:179 |
| `poll`, `sleep` | `q.get` and `asyncio.sleep` of `watch_and_get`; coroutines run in `sleep` only |
| `check` | the second `if self.stopped`, worker.py:187 |
| `report` | the RUNNING report, worker.py:189 |
| `enter` | entry of `killable`, killable.py:22-45 |
| `body`, `success`, `leave` | the function runs; it has returned; SUCCESS was put, the alarm is still on |
| `err`, `badexc` | the `except` clause: ERROR is put; the ERROR report cannot be pickled and raises |
| `last` | the loop is left; the event loop's last turn, in which created coroutines start |
| `exiting`, `closing`, `exited`, `killed` | the end of the process, orderly or by SIGKILL |

`cur` is the task in hand, `sig` the `sig_ref` of the block, `armed` whether an alarm
is pending, `created` and `awaiting` the coroutine tasks not yet started and
waiting, `running` the keys of `running_tasks`.  `state[w]` is abstracted to the set
of state generators whose effect the worker's state contains: a generator called
with state `S` (kept in `basis`) returns `S` with its own mark.  `sandbox[w]` is the
generator that installed the sandbox.  `said` (what the worker put, per task),
`delivered`, `maker` (the generator whose result `Worker.state` is) and `asked` are
histories that no guard reads (`asked` also bounds the callers: each uuid is stopped once).
A timeout that is not positive fails the assertion of `killable` before the block is
entered (`TimeoutRefused`).

Each function of the code is an action that does all that function does between two
points where another activity can run.  The parts of a program that no property
distinguishes are sets of tasks: coroutine functions, tasks with a timeout, with
`result_as_state`, with messages or results dill rejects, functions that never
return or that catch the stop exception.  Everything is nondeterministic that the
code leaves to the outside: whether imports fail, whether a function raises, when a
signal, a flush or a thread switch happens.

The manager serves one request at a time: none of the `await`s in its operations
gives up the event loop, so `pending` (the dispatch between its two puts) excludes
other requests, while the workers and feeders run.

`Sandbox` looks at what `Worker` leaves out of a call: which modules are loaded.  A
module is a name; `version` counts how often it was loaded, so a pair of both stands
for a module object.  `Deps` are a task's dependencies, `Lazy` what its function
imports itself.  A state generator's dependencies are imported by its new
`UnsafeSandbox`, the others' by the manager of the call; only the manager of the
call is dropped.  A failing call has loaded any part of what it would have loaded.
The two modules share the order of a call's parts (`Prepare`, `BodyReturns` and
`StartAsync`, `FinishAsync` in `Worker`) and no variable.

`CronSubTask` follows one firing from `choose` (resolve the strategies, choose a
worker) through `lock`, `strategy`, `generate` to the argument queue (`get`, `add`,
`empty`) and its end.  Locks, queue and repository are what
`core/interface_and_types.py` promises: a lock excludes, the queue is first in first
out with arguments numbered as they were put, `get_front` leaves the argument there.
The exception is `get`, which is the shipped `MultiprocessingQueue.get`: it may also raise
with the argument taken (`GetRaises`).  The
providers in the repository keep less than the interfaces promise, so these runs show
what the scheduler achieves with providers that work: `MultiprocessingLock.lock` is a
bare asynchronous generator that `async with` refuses, both queues' `get_front` raises
`NotImplementedError`, the injected argument queue factory cannot be called,
`SchedulerCron` calls the coroutine function without awaiting it, and
`Repository.add_task` stores neither status, argument nor worker
(`infrastructure.py:140-147`), for which the columns have no null (`model.py:150-157`), so
that the shipped table takes no task row at all.  `AddRow` is the row the scheduler passes;
its worker is `None` for a SCHEDULED one (`scheduler.py:281`), and the properties mean the
worker the firing has chosen.

`LeaderScheduler` has a rebalance (`load`, `lists`, `move`, `assign`) and a node change (`lists`,
`give`, `done`, `raised`) that interleave at each call to a node.  `jobs[n]` are the cron tasks
node `n` has jobs of, `table` and `nodes` what the leader remembers, `loaded` which of the two
are not `None`, `moves` and `hand` the pairs the rebalance has before it and the task between its
two calls.  `stale` is a history: the activities whose lists were read before a node ended, or,
for the rebalance, before something else moved a task.  A call to a node that is down raises: in
the rebalance, where nothing catches it, that ends `Scheduler.run` and with it the leader's
process (`RebalanceRaises`); in the node change its caller gets it (`ChangeRaises`).  So may a
call to a node that runs.  Some of it is taken from the interfaces, because the code beyond them
is missing or cannot run: nothing calls `scheduler_node_change`, so leader control is taken to
call it with the nodes that run, one call at a time; `MultiprocessingSchedulerControl` knows one
fixed leader and its `get_all_nodes` returns `None`, so election and the list are those of the
interface.  As shipped every rebalance and every change that looks at a node raises: the
dataclass `entities.SchedulerNode` has no hash, so the dictionary of `scheduler.py:473` and the
`lru_cache` of the RPC's stub (`grpc_leader_scheduler.py:11`) reject it, and a node change passes
no start time, of which the RPC takes the timestamp (`grpc_leader_scheduler.py:34`).
`RebalanceRaises` and `ChangeRaises` are those outcomes; that the calls may also succeed is what
the program is written for, and what the properties are about.

`StatusReports` is composed with the manager through its abstract specification:
`queued`, `shown` and `interruptible` are the variables of `TaskStatusStream`, whose
operator `Gives` says which report the manager may give next.  The run `status` shows
that the manager and its workers implement it (`ImplementsStream`), so what
`StatusReports` gets is what they send.  A scheduler is at `poll`
(`get_leader`, then `elect_leader` or `get_queued_status(0.01)`), `recv` (the `async for`),
`read` and `write` (the two awaits of `process_new_status`, with the report in `hand`), or
has ended (`raised` when `process_new_status` raised, `crashed` otherwise).  `service` is
the handler of its stream at the manager, `sent` what that has sent and the client has not
received, `orphans` whether handlers are left whose client is gone and which still take
from the queue.  `assign` is how far `assign_task` of a task is: between its dispatch and
its QUEUED anything may happen, and the write of QUEUED may raise: `assign_task` passes an
`entities.TaskStatus` (`scheduler.py:101-104`), which a column of `model.TaskStatus`
(`model.py:150`) answers with a `LookupError`.  A `Lapse` is a leader that still runs and is taken for
gone, so that two schedulers poll.  `handled` is a history.
A crash of a scheduler is for good; a new process is a new member of `Schedulers`.

Four constants tell the shipped parts from such as do what their interfaces say:

* `Callable`: the schedulers whose client can be awaited and has a node.  With the shipped
  `ManagerRPCClient` there is none: `get_queued_status` is an asynchronous generator, and
  `await` of one (`scheduler.py:569`) is a `TypeError`; the scheduler's container gives an
  empty node list as well (`scheduler/dependency_container.py:28`).  `Poll` then raises.
* `Convertible`: the statuses that pass `core_status2rpc_status`.  Its two branches are
  exchanged (`common/grpc.py:36`), and a status that does not pass ends the stream.
* `Typed`: the statuses that arrive as `entities.TaskStatus`.  The client hands on the
  enumeration of the RPC, so as shipped none is, and `process_new_status` ignores them all.
* `Foreign`: the task uuids of reports that no row has.  The manager makes a uuid of its
  own for every dispatch and `assign_task` does not keep it, so as shipped all are foreign.

The run `reports` has the parts as their interfaces promise them, because there the
properties can go wrong; `StatusReportsProofs` proves its safety properties for all values
of these constants.  `Repository.get_task_from_uuid` is taken to return the row,
although `model.Task.to_entity` returns `None`.  The branch of `process_new_status` for a
worker's status is left out, because no code sends one; the leader comes from a control as
in the interface, because the shipped one names a fixed leader.

`ManagerRouting` has a task queue and a control queue of a worker on every node: a node
that is asked for a queue it does not have makes one, though nobody reads it there.  The
hash of a key is a constant per `Salts` member, because Python salts the hash of bytes per
process; the key of `increase_worker` and of `get_queued_status` is random.  `Source` is
where the worker's process reads: the node that started it (`host`).  A call and its handler
are one step: a client's calls are made one after another, each awaited; two that one client
makes at once, each over a channel of its own, could overtake each other and are not
modelled.  `Encodable` are the tasks whose uuid the answer of `dispatch_fun_task` can carry:
as shipped there is none, because the uuid is a `uuid.UUID` (`core/task_worker_manager.py:100`)
where the message has a string (`manager_service.py:51`), so the caller gets an error for a task that
was dispatched, and can stop none of them.  A stop that does get through carries a string,
while `running_tasks` has `uuid.UUID`s for keys (`worker.py:79`): over the RPC it matches no
function, and `TakeControl` only consumes it.  `fresh` is a history: what a client has dispatched since
its process started and its list was last changed.

`WorkerTable` has a request at `new` (the manager starts a worker), `add_worker` (the insert
takes an id), `commit`, `committed` (the row is there, nobody was told) and `answered` or
`failed`; a `RollBack` uses up the id, and after the commit the acknowledgement, the answer or
the web server can be lost (`Answer`).  The reader notes in `old` what the table names when it
begins, `cursor` is the largest id of its last page.  The query has a limit and no order
(`infrastructure.py:92-97`), so `Page` may be any rows behind the cursor; `inOrder` is a
history: every page had the smallest ids.  The end of the table is an error of the handler:
the repository returns `None` where it should return a pair (`infrastructure.py:101`).

Operators called "Variant of ..." are deliberate mistakes - a dropped test, a wrong
order, a missing reset.  They are used by nothing in the modules; they show that a
property notices such a mistake when the definition is exchanged.

## 3. What TLC checks

All runs finish.  No run checks deadlock: the system may really stop, when every
worker has exited and the callers ask for nothing more.

| run | instance | properties | distinct states |
|---|---|---|---|
| `worker` | 1 worker; a plain task with a timeout whose results cannot be pickled and that catches the stop, a state generator, a coroutine state generator; stops of the two generators and of the worker, SIGKILL, a heartbeat | `TypeOK`, `NoneMeansStopped`, `ReportsWellFormed`, `RunningTasksExact`, `StopsReachTheirOwn`, `StoppedTakesNoTask`, `PlainTasksKeepState`, `SandboxMatchesState` | 597 564 |
| `status` | 2 workers, a plain task with a timeout and a coroutine; every order of flushes; one worker may be killed, also while it writes | `StatusDelivery`, `ImplementsStream` | 713 351 |
| `live` | 1 worker, a plain function that never returns and may be stopped, a coroutine, a stop of the worker, fair | `FinalStatusArrives`, `StoppedWorkerExits`, `StopReachesTask` | 36 510 |
| `unloadable` | 1 worker, a plain function, a coroutine and a message that cannot be loaded, fair | `FinalStatusArrives` | 14 177 |
| `sandbox` | 5 modules, one loaded from the start and one that cannot be imported; 5 tasks: 3 plain, 2 coroutines, one of each a state generator | `TypeOK`, `BaseStays`, `SandboxStays`, `NothingLeftBehind`, `ReturnRestores` | 16 541 |
| `cron` | 6 firings, 2 workers: every kind of argument strategy, UDF chains of 0 to 3 links, a tag without workers, an argument queue of at most one, failing calls of 2 firings | `TypeOK`, `RowPerFiring`, `ResolutionIsExact` | 121 296 |
| `cron_queue` | 4 firings, 3 of them from one argument queue, 2 workers, 3 arguments, failing calls, fair | `ArgumentUsedOnce`, `WorkerGetsArgumentsInOrder`, `FiringEnds` | 69 964 |
| `cron_none` | the same with 1 argument | `NoneMeansSkipOrDrop`, violated | - |
| `leader` | 2 nodes, 3 cron tasks, one disabled and one with a time point the cron rejects, 2 rebalances per leader, one crash, any call may raise | `TypeOK`, `FirstRebalanceKeepsOne`, `CoveredAfterChange` | 851 663 |
| `reports` | 2 schedulers, 1 task, 2 reports per stream, a window of 1, one leader taken for gone, everything callable, convertible and found, fair | `TypeOK`, `OnlyLateQueuedRaises`, `HandledInOrder`, `FinalStays`, `AsksAgain` | 626 910 |
| `routing` | 2 clients, 2 nodes, 1 worker, 2 tasks, one of them with a uuid the answer cannot carry, 2 salts, 2 changes of a node list | `TypeOK`, `TakenMeansReached`, `TakenInOrder` | 378 040 |
| `table` | 4 requests, 4 workers, pages of 2 rows, in any order, any request failing at any point | `TypeOK`, `RowPerAnswer`, `ReadsAllOld` | 80 295 |

What they show:

* `ReportsWellFormed`: the only way to a report beyond RUNNING and one final status
  is the alarm that rings after SUCCESS was put and before the block is left; then
  ERROR follows, for a plain function that was asked to stop or has a timeout.
* `RunningTasksExact`: no way out of a task leaves its entry behind, so a late
  stop never calls the kill function of a block that was left.
* `StopsReachTheirOwn`: the flag the alarm looks at belongs to one block, so a stop that
  comes too early, too late or for a coroutine never interrupts another function.
* `StoppedTakesNoTask`: after `stopped` is set, the task just taken is dropped.
  (It is lost: QUEUED stays its last status.)
* `PlainTasksKeepState`: a generator that fails or is stopped changes no state, and a
  plain one that returns only adds to it.  A coroutine generator's read of the state and
  its write lie on two sides of an `await`: an update in between is lost.
* `SandboxMatchesState`: the sandbox is replaced before the generator runs (`worker.py:87`,
  `worker.py:134`), so the two do not always belong together: later tasks run the old state in
  the new sandbox while a coroutine generator waits, and after a generator was stopped or raised
  in its body until the next one runs.  The invariant says that these, and a coroutine called
  earlier that overwrites the state, are the only cases.
* `StatusDelivery`, `ImplementsStream`: the buffers and the pipe keep each worker's
  order, and what is read is the abstract stream - where QUEUED may come at any
  moment, also last.  The integration test
  (`tests/integration/test_multiprocessing.py:164`) drains the queue and takes the
  last status it saw as the current one; QUEUED read after RUNNING breaks that.
* `FinalStatusArrives`, `StoppedWorkerExits`, `StopReachesTask`: see the fairness
  below; each names the circumstances in which it fails - a jammed pipe, an exception
  that cannot be pickled, an endless plain function on the event loop's thread,
  code that catches the stop.  `unloadable`: a message that dill rejects is lost, and takes
  no other task with it.
* `SandboxStays`: the modules a state was made with stay loaded, the same objects,
  until a coroutine that was called before the state generator returns: its manager
  never saw them, so its `drop` deletes them, and the next call that names one of
  them loads it a second time.  It takes one
  thread; the warning at `utils/sandbox.py:9` asks for no more.
* `BaseStays`, `NothingLeftBehind`, `ReturnRestores`: what the worker itself loaded is never
  deleted.  Without overlapping coroutines a call that returns leaves exactly the modules that
  were there when its manager was made - so a coroutine that returns also deletes what plain
  calls that failed meanwhile have left - and nothing gathers but the dependencies of state
  generators and what failed calls imported.

* `RowPerFiring`, `ResolutionIsExact`: a firing leaves one row or was told to drop or
  failed; exactly `MaxDepth` links of UDF strategies are resolved.
* `ArgumentUsedOnce`, `WorkerGetsArgumentsInOrder`: taking an argument and adding its
  task are two steps, and the lock of the worker is what keeps the tasks of one worker
  in the order of the queue.  The order between workers is not kept, and a failing
  `add_task` loses the argument.
* `FiringEnds`: the size of the queue is read before `get(0)`, under the
  lock of one worker only.  When a firing for another worker takes the argument, `get`
  waits, because a timeout of 0 counts as none (`multiprocessing_queue.py:37`), and all
  firings for the worker wait with it.  That is the only way not to end.
* `cron_none`: `_generate_task_from_argument_strategy` returns `None` whatever it did,
  so a task with status SCHEDULED is never assigned (`scheduler.py:367`), and the code
  after it is not reached.

* `FirstRebalanceKeepsOne`: from the reading of the lists on, and until a node ends or a
  node change moves something, a rebalance neither loses nor doubles a task that was on
  one node.  The conditions are the limits of the code: the leader never updates its
  table, so a second rebalance removes tasks from nodes they have left and assigns them
  once more, and a leader that ends between remove and assign leaves a task on no node.
* `CoveredAfterChange`: a node change that has returned has every task that is not
  disabled on some node, whatever a rebalance did at the same time - on two, if it read
  the lists while the rebalance had the task in hand.

* `HandledInOrder`: as long as no running leader is taken for gone, the statuses of a task
  come to `process_new_status` once and in the manager's order, whatever streams were left
  with reports in them: what a stream takes with it is lost, and it is lost before the next
  stream of the same scheduler begins to give.
* `FinalStays`: what makes a row leave its final status is the late write of `assign_task`
  (`scheduler.py:101`), and, only with two leaders, a write whose read came before the other's
  write.
* `OnlyLateQueuedRaises`: the exception of `process_new_status` that nothing catches
  (`scheduler.py:64`) comes from a QUEUED that the manager reported after the final status,
  or from a RUNNING under two leaders.  A scheduler is never ended by a final status.
* `AsksAgain`: no stream holds a scheduler for ever, however many reports there are: that is
  what the limit of 1000 is for - at the price of the report that reaches it.

* `TakenMeansReached`: a client of whose tasks the worker took one reaches that worker with its
  later dispatches, `stop_worker` and `kill_worker`, because these share a key, until the client
  restarts or its list changes.  Nothing of the kind holds before a task was taken (the worker
  was started at a random node), or for `stop_task`, which hashes other bytes.
* `TakenInOrder`: a worker takes tasks at most once and each client's in the order of its calls
  (each awaited before the next), although the calls in between went astray.

* `RowPerAnswer`: an answered request has its row, no two rows share an id or a worker, and every row
  is of a worker that was started.  The converses fail in the code: a request that fails between
  its commit and its answer leaves a row that no answer named, and one that fails earlier a started
  worker that no row names.
* `ReadsAllOld`: nobody is seen twice, in whatever order the database gives the rows.  Every row
  that was there when the reader began is seen only where the pages came in the order of ids,
  which the query does not ask for: otherwise the largest id of a page is behind rows it did not
  have.  A row that commits later may be skipped for good, when its id is smaller than one
  already read.

### Bounds, and why they are enough

* One or two workers.  Workers share only the status queue; what they do to each
  other goes through it, and `status` has a writer, a victim and the manager.
* Two or three tasks: one of each kind the code tells apart, and every pair whose
  interplay matters (plain with coroutine, state generator with coroutine state
  generator).
* `MaxBeats` heartbeats (0 or 1): a heartbeat only adds a message to the buffer.
* A uuid is stopped once per run.  A second stop sets a flag that is set, or finds
  the same entry; between two functions the flag is reset.
* `worker` uses `EagerDelivery` (a dispatch is reported and the queue drained
  first): a process looks at its own buffer only when it ends, so the buffers do not
  influence what a worker does; `status` and `live` go without.
  Its `VIEW` leaves out the history `delivered`.
* `status` uses `EagerReader`: a message is read as soon as it is in the pipe.  The
  order in which messages are read is the order in the pipe.  `live` uses
  `PromptManager`: only the workers' own buffers are flushed late.  Both only leave
  out behaviours; what they leave out differs in when a report is read.

* `sandbox`: each task is called once; calling one again loads the same names.
* The `cron` runs: `MaxDepth` is 2 where the code has 10; what matters is a chain that
  just fits and one that is a link too long.  `MaxPut` bounds the arguments put: fewer
  than the firings that want one, so that some starve.  A firing is one run; a cron
  task that fires again is another firing with the same strategies.

* The `leader` runs: `MaxRounds` is 2, the first rebalance, which reads the lists, and one
  that does not; a third is like the second.  `MaxFalls` bounds the crashes the
  environment makes, not those a failing call makes.  Two nodes: a task has one to leave
  and one to go to; more nodes add only more places to choose from.

* `reports`: `MaxReports` is 2 where the code has 1000: one report is processed and the next one
  ends the poll.  `Window` is 1: a stream left behind takes one report with it from the wire
  and, as an orphan, any number from the queue.  `MaxLapses` is 1: two leaders at once.  The
  schedulers are alike until one of them is elected or ends, so `LikeOnes` fixes which one it is
  (`SYMMETRY` cannot be used with a liveness property).  One
  task: reports of different tasks meet only in the order in which a stream carries them.
* `routing`: two nodes, two salts, the node lists empty, one and both; `MCHash` gives a worker and
  its tasks different nodes under each salt.  `MaxChanges` is 2: a list may change and change back.
* `unloadable`: the message that cannot be loaded comes first, between the others or last.
* `table`: four requests and pages of two rows, so that a page is full, half full and empty, has
  rows of its own choice, and that two transactions can end behind the cursor.  Requests and
  workers are symmetric.

### Fairness

`FairSpec` assumes that the main thread, the monitor thread, the feeder threads and
the manager are scheduled (weak fairness of their steps), that functions return
unless they are `Endless`, and that a message that is in the task queue again and
again at a `q.get` is found some time (strong fairness of `TakeTask`: the feeder of
the manager may delay it, `FindEmpty` stands for that).  The event loop resumes every
ready coroutine at each `asyncio.sleep`, hence strong fairness of `StartAsync` and
`FinishAsync`, which are enabled in `sleep` only.  `signal.alarm(1)` is armed by the
handler itself until it has raised, so a due alarm fires (weak fairness).
`ReadStatus` is fair: the owner keeps reading.  Nobody has to dispatch, stop or kill,
and heartbeats are not promised.

`CronSubTask` has its own `FairSpec`: the event loop runs every firing that can go on
(weak fairness of `Step`), and a lock is granted to one who waits for it again and
again (strong fairness of `Lock`; `asyncio` and Redis locks wake their waiters in
turn).  Nobody has to put arguments or to fire.

`StatusReports` assumes that the awaits of `Scheduler.run` come back (weak fairness of `Run(s)`:
a silent stream has its deadline of 0.01 s, the repository answers or raises) and that a leader
that is down is found to be gone (weak fairness of `Depart`).  Nothing has to be reported, and
the manager need not send.

## 4. What is proved

`FunTaskProofs` proves for all sets of workers, tasks and callers, from the
assumptions `NamesDiffer`, `TaskSetsAssumption` and `CallersAssumption`:

| theorem | says |
|---|---|
| `TypeCorrect` | `TypeOK` always holds |
| `NoneIsStopped` | `NoneMeansStopped` always holds |
| `RunningIsExact` | `RunningTasksExact` always holds |
| `ReportsAreWellFormed` | `ReportsWellFormed` always holds |
| `StopsAreTheirOwn` | `StopsReachTheirOwn` always holds |
| `StatusesAreDelivered` | `StatusDelivery` always holds |
| `StreamIsImplemented` | every behaviour satisfies `ImplementsStream`, the specification of `TaskStatusStream` |
| `StoppedStartsNone` | every step satisfies `StoppedTakesNoTask` |
| `StateIsKept` | every step satisfies `PlainTasksKeepState` |
| `SandboxBelongsToState` | `SandboxMatchesState` always holds |

Only `TypeCorrect` comes close to being inductive alone.  The argument:

1. `HandFull` and `PendingSent` make `TypeOK` inductive: from `enter` on there is a
   plain task in hand; a dispatch under way has a worker.
2. `OnePlace`: a dispatched task is in the queue of its worker once, or in the hand
   of its main thread, or one of its created or awaiting coroutines, never two of
   these.  `WorkerStepLocal` (a step of one worker leaves the others alone) reduces
   each step to the worker that takes it.  With it `RunningTasksExact` is inductive:
   popping the function's entry cannot take a coroutine's.
3. `StopsWereAsked`: a raised flag belongs to a function whose uuid was given to
   `stop_task`; uuids in a control queue were given by callers.
4. `SaidByPlace`: where a task is determines what was said of it - nothing in a queue,
   RUNNING in a body or a coroutine, SUCCESS at `leave`, RUNNING or, if it can be
   interrupted, SUCCESS at `err`.  Each report then extends a known history, and
   `ReportsWellFormed` follows.  `Inv` is the conjunction of these parts.
5. `StoppedStartsNone` needs `Inv`: a task nothing was said of is in no body and no
   coroutine, so the steps that report SUCCESS or ERROR are not about it.
6. `BodyOwnsState`, inductive under `Inv`: while the body of a state generator runs,
   the sandbox is its own and `Worker.state` is what it was called with.  Coroutines
   cannot come in between because they advance only while the main thread sleeps.
   What it installs therefore adds to the state (`StateIsKept`), and its sandbox is then that
   of the state's maker.  `SandboxBelongsToState` needs more: a state
   holds effects of generators that have returned only (`EffectsAreOld`), so a generator that
   installs its sandbox is in no state yet, and while a coroutine waits the sandbox is its own
   or that of one called later, which the coroutine's state does not hold either
   (`SandboxOfCoroutines`).
7. `StatusDelivery` follows a task's reports through feeder, pipe and reader.  `Statuses`
   is a recursive function; `StatusesConcat` says that it takes a concatenation to the
   concatenation of its values, so for one task the queue is one list, `Chain`: what was
   read, what is in the pipe, what is in one feeder.  A flush and a read move the border
   between its parts (`FlushChain`, `ReadChain`), a put makes it longer (`PutChain`), and
   SIGKILL cuts its end off (`LoseChain`).  `Delivery` states this for all processes:
   nobody but the task's worker reports of it (`Only`), and `Chain` is `said` but for an
   end that only a killed worker may lack; `KilledSilent`: that worker puts no more.
   `QueuedOnce` says the same of the manager's QUEUED: none before the dispatch and
   between its two puts, one afterwards.
8. `StreamIsImplemented`: of all steps only `ReadStatus` changes what is shown, and
   `StopTask` who can be interrupted; every other step is a stutter of
   `TaskStatusStream`.  The message read is the next of its task's `Chain`.  Because that
   is the beginning of a history `ReportsWellFormed` allows, what was shown before it is
   what the abstract action asks for (`NextOfWellFormed`), and QUEUED was not shown
   before, because there is one in the whole `Chain`.

`SandboxProofs` proves for all sets of modules and tasks, from `SandboxAssumption`
(`Modules` is finite, because `drop` compares numbers of names):

| theorem | says |
|---|---|
| `TypeCorrect` | `TypeOK` always holds |
| `BaseIsNeverDeleted` | `BaseStays` always holds |
| `StateKeepsItsModules` | `SandboxStays` always holds |
| `ReturnedCallsLeaveNothing` | `NothingLeftBehind` always holds: an upper bound on what is present |
| `ReturnedCallsRestore` | every step satisfies `ReturnRestores`: nothing more and nothing less |

Each needs to know what the managers of the coroutines under way have noted:
`BaseKnown` (the base), `SandboxKnown` (the modules of the sandbox, unless it is
newer than the call), `Alone` (without overlap there is one coroutine, and what its
manager noted is still loaded).  `DropRestores` shows that the comparison of the
numbers of names in `drop` decides nothing when the manager's names are all there.

`CronSubTaskProofs` proves for all sets of firings, workers and strategies, any
`MaxDepth` and `MaxPut`, from `CronAssumption`:

| theorem | says |
|---|---|
| `TypeCorrect` | `TypeOK` always holds |
| `OneRowEach` | `RowPerFiring` always holds |
| `ArgumentsAreUsedOnce` | `ArgumentUsedOnce` always holds |
| `ArgumentsKeepTheirOrder` | `WorkerGetsArgumentsInOrder` always holds |
| `LocksAreLeft` | who is in a locked block holds its lock, and only who is in it (safety only) |
| `ResolutionStopsInTime` | `ResolutionIsExact` always holds |

`ArgumentsKeepTheirOrder` needs all of `Inv`: `LockInv` (who is in the block holds the lock of its
worker, so one firing per worker is), `HandInv` (what is in hand was taken and differs
from every other hand), `TakenRows` (a row's argument is still noted in the hand of its
firing) and `NewerInHand` (an argument in hand at `add` is newer than all in rows of the
same worker): when the holder of the lock takes the next argument, all rows of its
worker have older ones, and nobody can add a row for that worker before it does.

`LocksAreLeft` is what of `FiringEnds` is safety: whoever waits for a lock waits for a
firing that is past it, so the firings never wait for each other in a circle, and no end
of a firing keeps a lock.  That a wait ends is not part of it: `FiringEnds` says so, and is
model-checked.

`ResolutionStopsInTime` needs what the recursive function `Resolve` computes at every
depth.  `ResolveEquation` and `AfterEquation` show that the two recursive definitions have
solutions, with `Iteration` of `Recursion`; `AfterFirst` is the induction over the links,
and `ResolveIsExact` says that `Resolve` raises where, and only where, the first
`MaxDepth + 1` links are all UDFs.  `ChoiceInv` carries that to the firings: one that failed
without a worker, though there were some and none of its calls failed, failed for that reason.

`LeaderSchedulerProofs` proves for all sets of nodes and cron tasks and any bounds, from
`ClusterAssumption`:

| theorem | says |
|---|---|
| `TypeCorrect` | `TypeOK` always holds |
| `ChangeCovers` | `CoveredAfterChange` always holds |
| `FirstKeepsOne` | `FirstRebalanceKeepsOne` always holds |

`LeaderActs` (only a leader has activities under way) makes `TypeOK` inductive.
`ChangeCovers` rests on `PlacedStays`: whatever the two coroutines do, a task on a node
or in hand stays so until a node ends; so what the node change has read of stays covered
(`CoverInv`).  `FirstKeepsOne` needs that a node that is down has no jobs (`JobsUp`), that
the lists read so far are those of the nodes now (`ReadInv`, hence the table is right when
the moves begin), and where each task of one node is meanwhile (`MoveInv`).

`StatusReportsProofs` proves for all sets of schedulers and tasks, any bounds and any values
of `Callable`, `Convertible`, `Typed` and `Foreign`, from `ReportsAssumption`:

| theorem | says |
|---|---|
| `TypeCorrect` | `TypeOK` always holds |
| `ReportsAreHandledInOrder` | every step satisfies `HandledInOrder` |
| `FinalRowsStay` | every step satisfies `FinalStays` |
| `RaisersAreLate` | `OnlyLateQueuedRaises` always holds |
| `FinalRowsWereReported` | a final status in a row is one the manager gave of that task |

`StreamInv` says whose stream may hold reports, and that without a lapse it is the leader's.
`OrderInv` follows a report from the queue to the row: what was handled was given
(`HandledGiven`), what is in a stream was given and may follow what was handled (`OnTheWay`) and
what is before it in the stream (`SentInOrder`), a row with a final status had it handled
(`FinalHandled`), and what the scheduler holds between its two awaits still fits the row
(`HandInv`).  A stream that is left takes its reports with it and disturbs none of this: that
nothing of it is seen again is why the order survives.

`FinalRowsWereReported` holds under any number of leaders, because `GivenInv` says of each
report wherever it is no more than that it was given.  `StatusReports` takes its reports by the
actions of `TaskStatusStream`, which the manager and its workers implement
(`StreamIsImplemented`); together with `StatusesAreDelivered`, a report sets a row to SUCCESS or
ERROR only if the task's worker said so.  What is not proved is the composition of the two
modules as one formula.

`ManagerRoutingProofs` proves for all sets of clients, nodes, salts, workers and tasks and any
hash, from `RoutingAssumption`:

| theorem | says |
|---|---|
| `TypeCorrect` | `TypeOK` always holds |
| `TasksKeepTheirOrder` | `TakenInOrder` always holds |
| `TakenTellsTheNode` | `TakenMeansReached` always holds |

The order is kept by every queue of every node alike (`QueueOf`), since a task is dispatched
once; what a worker took was sent before everything in the one queue it reads
(`TakenBefore`), because the node that started it never changes.  That needs
`Addressed`: no task is sent for a worker before it was started.  `TakenTellsTheNode` follows
the tasks a client has dispatched since its process started and its list last changed: the
node that has one of them in a queue, and the host of the worker that took it, are where the
worker's key leads (`SentInv`).

`WorkerTableProofs` proves for any finite set of requests, any workers and any limit, from
`TableAssumption`:

| theorem | says |
|---|---|
| `TypeCorrect` | `TypeOK` always holds |
| `AnswersHaveRows` | `RowPerAnswer` always holds |
| `OldWorkersAreSeen` | `ReadsAllOld` always holds |

`TableInv` has the last id as the number of requests that took one, which bounds it
(`NextId`), the rows of all requests past their commit, and nothing in the table but rows of
requests (`Entered`).  `ReaderInv` says that what the reader has seen are workers with rows up
to its cursor, and, if the pages came in the order of ids, that each worker it found in the
beginning has a row there and was seen, or has one behind the cursor.  `PageRead` is the step: a
page counts each worker once at most, and one in the order of ids has all rows up to its last.

TLC has checked `OnePlace`, `SaidByPlace` and `StopsWereAsked` as invariants of the
instance of the run `worker`.

Induction.  The library's induction theorems take an operator as a parameter and cannot be
cited here.  `Recursion` proves induction from 0 to `N` for a set of numbers instead, from
the least element of the set of counterexamples; a set can be cited.  `Iteration` uses it to
show that a function defined step by step from 0 to `N` exists, which is what the equation of
a recursive function needs.

Only model-checked: the liveness properties `FinalStatusArrives`, `StoppedWorkerExits`,
`StopReachesTask`, `FiringEnds` and `AsksAgain` (fairness and `ENABLED` are outside the proof
system), and of course what the runs find violated.  Every invariant and every action
property of the other runs is also proved.

## 5. What is not modelled, and why

* Contents: arguments, results, function code; formats and logging; how `MergeDict`
  resolves a name.
* A message torn in two by a SIGKILL in the middle of a write to the pipe: `LoseFeeder`
  keeps the lock taken, so no later message is written either way.
* A coroutine that catches `CancelledError` when the loop ends.
* Two calls of one `ManagerRPCClient` at the same time.
* Calls with the uuid of a worker that was never started: the queue factory makes a
  queue that nobody reads.
* The tables of functions, cron tasks and tags, and their single-statement reads and
  writes; `change_worker_status`, which nothing calls.
* The report of a worker's status (`scheduler.py:68-82`), which no code sends.
* The parts marked `not_modelled` in `PROJECT.json`: generated code, wiring, I/O wrappers,
  stubs.

## 6. Plan

1. Done: the worker and its manager (`StatusQueue`, `Worker`, `FunTaskManager`), the stream
   they promise (`TaskStatusStream`), `Sandbox`, `CronSubTask`, `LeaderScheduler`,
   `StatusReports`, `ManagerRouting`, `WorkerTable`, their runs, and the theorems of section 4.
2. Proofs still worth having: the safety half of the other liveness properties, as
   `LocksAreLeft` is of `FiringEnds`: where a stopped worker can be that has not ended, and
   where a report can be that was not read.
3. When `ManagerRPCClient` and the conversions are repaired: `Callable`, `Convertible`, `Typed`
   and `Foreign` become what the code does, and a violation of what they stand for today
   becomes a property.
