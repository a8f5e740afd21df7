--------------------------- MODULE StatusReports ---------------------------
(***************************************************************************)
(* The way of a status report from the manager to the row of its task:     *)
(* ManagerService.get_queued_status takes it from the manager's queue and  *)
(* streams it, ManagerRPCClient receives it, Scheduler.run hands it to     *)
(* WorkerScheduler.process_new_status, which reads the row and writes it.  *)
(* WorkerScheduler.assign_task dispatches tasks and writes their rows at   *)
(* the same time.  What the queue holds is what TaskStatusStream allows;   *)
(* the leader is named by a LeaderSchedulerControl, which may take a       *)
(* scheduler that still runs for gone.                                     *)
(***************************************************************************)
EXTENDS Naturals, Sequences

CONSTANTS Schedulers,   \* processes that run Scheduler.run
          Tasks,        \* task uuids in the reports
          None,
          Foreign,      \* those of Tasks that no row has
          Convertible,  \* the statuses that pass core_status2rpc_status
          Typed,        \* those of them that arrive as an entities.TaskStatus
          Callable,     \* schedulers whose client can be awaited and has a node
          MaxReports,   \* where the loop of a poll breaks, 1000 in the code
          Window,       \* bound on the reports on their way in one stream
          MaxLapses     \* bound on the leaders taken for gone

TaskStatus == {"UNSCHEDULED", "SCHEDULED", "SKIP", "QUEUED", "RUNNING", "SUCCESS",
               "ERROR", "DIED"}
Final == {"SKIP", "ERROR", "SUCCESS", "DIED"}

\* A report of a task, a heartbeat, or the ERROR of a worker that was stopped.
Heartbeat == [task |-> None, status |-> "NONE"]
Stopped == [task |-> None, status |-> "ERROR"]
TaskReport == [task : Tasks, status : {"QUEUED", "RUNNING", "SUCCESS", "ERROR"}]
Report == TaskReport \cup {Heartbeat, Stopped}

ASSUME ReportsAssumption ==
    /\ None \notin Schedulers \cup Tasks \cup Report
    /\ Foreign \subseteq Tasks
    /\ Convertible \subseteq {"NONE", "QUEUED", "RUNNING", "SUCCESS", "ERROR"}
    /\ Typed \subseteq Convertible \ {"NONE"}
    /\ Callable \subseteq Schedulers
    /\ MaxReports \in Nat /\ Window \in Nat /\ MaxLapses \in Nat

Rows == Tasks \ Foreign

VARIABLES queued, shown, interruptible,  \* what was taken from the queue
          row,       \* task -> the status in its row
          assign,    \* task -> how far its assign_task is
          leader,    \* what get_leader returns
          lapses,    \* number of leaders taken for gone
          pc,        \* scheduler -> the await it is at
          count,     \* scheduler -> i of its loop
          service,   \* scheduler -> the service's side of its stream
          sent,      \* scheduler -> the reports on their way to it
          hand,      \* scheduler -> the report it processes
          orphans,   \* are there streams whose client has left?
          handled    \* history: task -> the statuses process_new_status got of it

queueVars == <<queued, shown, interruptible>>
streamVars == <<count, service, sent, hand, orphans>>
vars == <<queueVars, row, assign, leader, lapses, pc, streamVars, handled>>

TypeOK ==
    /\ queued \in SUBSET Tasks
    /\ shown \in [Tasks -> Seq({"RUNNING", "SUCCESS", "ERROR"})]
    /\ interruptible \in SUBSET Tasks
    /\ row \in [Rows -> TaskStatus]
    /\ assign \in [Rows -> {"new", "dispatched", "done"}]
    /\ leader \in Schedulers \cup {None}
    /\ lapses \in 0..MaxLapses
    /\ pc \in [Schedulers -> {"poll", "recv", "read", "write", "raised", "crashed"}]
    /\ count \in [Schedulers -> 0..MaxReports]
    /\ service \in [Schedulers -> {"none", "serves", "failed"}]
    /\ sent \in [Schedulers -> Seq(Report)]
    /\ hand \in [Schedulers -> Report \cup {None}]
    /\ orphans \in {"yes", "no"}
    /\ handled \in [Rows -> SUBSET {"QUEUED", "RUNNING", "SUCCESS", "ERROR"}]
    /\ \A s \in Schedulers : /\ pc[s] \in {"read", "write"} => hand[s] # None
                             /\ service[s] # "none" => pc[s] \in {"recv", "read", "write"}
                             /\ Len(sent[s]) <= Window

Stream == INSTANCE TaskStatusStream

Init ==
    /\ queued = {} /\ shown = [t \in Tasks |-> <<>>] /\ interruptible = Tasks
    /\ row = [t \in Rows |-> "SCHEDULED"]
    /\ assign = [t \in Rows |-> "new"]
    /\ leader = None /\ lapses = 0
    /\ pc = [s \in Schedulers |-> "poll"]
    /\ count = [s \in Schedulers |-> 0]
    /\ service = [s \in Schedulers |-> "none"]
    /\ sent = [s \in Schedulers |-> <<>>]
    /\ hand = [s \in Schedulers |-> None]
    /\ orphans = "no"
    /\ handled = [t \in Rows |-> {}]

-----------------------------------------------------------------------------
(* assign_task: the call of the manager, then the row.  Nothing looks at   *)
(* the row's status before, nor at what was written in between.            *)

AssignTask(t) ==
    /\ assign[t] = "new"
    /\ assign' = [assign EXCEPT ![t] = "dispatched"]
    /\ UNCHANGED <<queueVars, row, leader, lapses, pc, streamVars, handled>>

\* The repository's update may raise: an Enum column of model.TaskStatus takes no
\* entities.TaskStatus, which is what it is given.
UpdateTask(t) ==
    /\ assign[t] = "dispatched"
    /\ assign' = [assign EXCEPT ![t] = "done"]
    /\ \/ row' = [row EXCEPT ![t] = "QUEUED"]
       \/ UNCHANGED row
    /\ UNCHANGED <<queueVars, leader, lapses, pc, streamVars, handled>>

-----------------------------------------------------------------------------
(* The service's side of the streams.                                      *)

\* FunTaskManager.get_queued_status returns r, which is then out of the queue.
Take(r) ==
    IF r.task = None THEN UNCHANGED queueVars
    ELSE /\ r.task \in Rows => assign[r.task] # "new"
         /\ Stream!Gives(r.task, r.status)

\* core_status2rpc_status does not raise.
Converts(r) == r.status \in Convertible

\* A report that cannot be converted, packed or sent ends the stream, and is gone.
Serve(s) ==
    /\ service[s] = "serves"
    /\ Len(sent[s]) < Window
    /\ \E r \in Report :
         /\ Take(r)
         /\ \/ /\ Converts(r)
               /\ sent' = [sent EXCEPT ![s] = Append(@, r)]
               /\ UNCHANGED service
            \/ /\ service' = [service EXCEPT ![s] = "failed"]
               /\ UNCHANGED sent
    /\ UNCHANGED <<row, assign, leader, lapses, pc, count, hand, orphans, handled>>

\* A stream whose client has left goes on until it notices: it stands in a get
\* that finds the queue filled, or in a send.
ServeOrphan ==
    /\ orphans = "yes"
    /\ \/ \E r \in TaskReport : Take(r) /\ UNCHANGED orphans
       \/ orphans' = "no" /\ UNCHANGED queueVars
    /\ UNCHANGED <<row, assign, leader, lapses, pc, count, service, sent, hand, handled>>

-----------------------------------------------------------------------------
(* Scheduler.run.                                                          *)

Elect(s) ==
    /\ pc[s] = "poll" /\ leader = None
    /\ leader' = s
    /\ UNCHANGED <<queueVars, row, assign, lapses, pc, streamVars, handled>>

\* Variant of Depart: a leader that still runs is taken for gone as well.
DepartAnytime ==
    /\ leader # None
    /\ leader' = None
    /\ UNCHANGED <<queueVars, row, assign, lapses, pc, streamVars, handled>>

\* The leader's process has ended, or the control takes it for gone.
Depart ==
    /\ leader # None
    /\ pc[leader] \in {"raised", "crashed"}
    /\ leader' = None
    /\ UNCHANGED <<queueVars, row, assign, lapses, pc, streamVars, handled>>

Lapse ==
    /\ leader # None
    /\ lapses < MaxLapses
    /\ lapses' = lapses + 1
    /\ leader' = None
    /\ UNCHANGED <<queueVars, row, assign, pc, streamVars, handled>>

\* Variant of Leave: the service's side is not closed with the client's.
LeaveOpen(s, to) ==
    /\ pc' = [pc EXCEPT ![s] = to]
    /\ sent' = [sent EXCEPT ![s] = <<>>]
    /\ hand' = [hand EXCEPT ![s] = IF to = "raised" THEN @ ELSE None]
    /\ count' = [count EXCEPT ![s] = 0]
    /\ UNCHANGED <<service, orphans>>

\* The client's side of the stream is left, with what is on its way to it.
Leave(s, to) ==
    /\ pc' = [pc EXCEPT ![s] = to]
    /\ service' = [service EXCEPT ![s] = "none"]
    /\ sent' = [sent EXCEPT ![s] = <<>>]
    /\ hand' = [hand EXCEPT ![s] = IF to = "raised" THEN @ ELSE None]
    /\ orphans' = IF service[s] = "serves" THEN "yes" ELSE orphans
    /\ count' = [count EXCEPT ![s] = 0]

\* The call get_queued_status(0.01) of a scheduler that is the leader.
Poll(s) ==
    /\ pc[s] = "poll" /\ leader = s
    /\ IF s \in Callable
         THEN /\ pc' = [pc EXCEPT ![s] = "recv"]
              /\ service' = [service EXCEPT ![s] = "serves"]
         ELSE /\ pc' = [pc EXCEPT ![s] = "raised"]
              /\ UNCHANGED service
    /\ UNCHANGED <<queueVars, row, assign, leader, lapses, count, sent, hand, orphans,
                   handled>>

Receive(s) ==
    /\ pc[s] = "recv" /\ sent[s] # <<>>
    /\ count[s] + 1 < MaxReports
    /\ count' = [count EXCEPT ![s] = @ + 1]
    /\ sent' = [sent EXCEPT ![s] = Tail(@)]
    /\ hand' = [hand EXCEPT ![s] = Head(sent[s])]
    /\ handled' = LET r == Head(sent[s])
                  IN  [t \in Rows |-> IF t = r.task THEN handled[t] \cup {r.status}
                                     ELSE handled[t]]
    /\ pc' = [pc EXCEPT ![s] = "read"]
    /\ UNCHANGED <<queueVars, row, assign, leader, lapses, service, orphans>>

\* Variant of BreakOff: the report is skipped and the poll goes on.
SkipOne(s) ==
    /\ pc[s] = "recv" /\ sent[s] # <<>>
    /\ count[s] + 1 >= MaxReports
    /\ count' = [count EXCEPT ![s] = 0]
    /\ sent' = [sent EXCEPT ![s] = Tail(@)]
    /\ UNCHANGED <<queueVars, row, assign, leader, lapses, pc, service, hand, orphans,
                   handled>>

\* The report at the limit of a poll is received and not processed.
BreakOff(s) ==
    /\ pc[s] = "recv" /\ sent[s] # <<>>
    /\ count[s] + 1 >= MaxReports
    /\ Leave(s, "poll")
    /\ UNCHANGED <<queueVars, row, assign, leader, lapses, handled>>

\* The client yields None: the deadline is over, or the service's side has failed.
EndStream(s) ==
    /\ pc[s] = "recv"
    /\ Leave(s, "poll")
    /\ UNCHANGED <<queueVars, row, assign, leader, lapses, handled>>

\* A call of the control, of the repository or the process fails, and nothing catches
\* it.  (At a receive the client catches it; EndStream and this are a crash there.)
Crash(s) ==
    /\ pc[s] \in {"poll", "read", "write"}
    /\ Leave(s, "crashed")
    /\ UNCHANGED <<queueVars, row, assign, leader, lapses, handled>>

-----------------------------------------------------------------------------
(* process_new_status, with the report in hand.                            *)

\* Variants of Refused: what is final may change, nothing final may be reported twice.
RefusedNever(r) == r.task \notin Rows

RefusedFinal(r) == r.task \in Rows => row[r.task] \in Final

\* A status of no task, of a task without a row, or one that is not final where
\* the row's is: the assertion, RecordNotFoundException, StatusChangeException.
Refused(r) ==
    r.task \in Rows => row[r.task] \in Final /\ r.status \notin Final

\* Nothing is done with a heartbeat, or a status that is not an entities.TaskStatus.
Ignored(r) == r.status \notin Typed

ReadRow(s) ==
    /\ pc[s] = "read" /\ ~Ignored(hand[s]) /\ ~Refused(hand[s])
    /\ pc' = [pc EXCEPT ![s] = "write"]
    /\ UNCHANGED <<queueVars, row, assign, leader, lapses, streamVars, handled>>

Ignore(s) ==
    /\ pc[s] = "read" /\ Ignored(hand[s])
    /\ pc' = [pc EXCEPT ![s] = "recv"]
    /\ hand' = [hand EXCEPT ![s] = None]
    /\ UNCHANGED <<queueVars, row, assign, leader, lapses, count, service, sent, orphans,
                   handled>>

\* The exception ends Scheduler.run.
ProcessRaises(s) ==
    /\ pc[s] = "read" /\ ~Ignored(hand[s]) /\ Refused(hand[s])
    /\ Leave(s, "raised")
    /\ UNCHANGED <<queueVars, row, assign, leader, lapses, handled>>

WriteRow(s) ==
    /\ pc[s] = "write"
    /\ row' = [row EXCEPT ![hand[s].task] = hand[s].status]
    /\ pc' = [pc EXCEPT ![s] = "recv"]
    /\ hand' = [hand EXCEPT ![s] = None]
    /\ UNCHANGED <<queueVars, assign, leader, lapses, count, service, sent, orphans,
                   handled>>

Run(s) ==
    \/ Elect(s) \/ Poll(s) \/ Receive(s) \/ BreakOff(s) \/ EndStream(s)
    \/ ReadRow(s) \/ Ignore(s) \/ ProcessRaises(s) \/ WriteRow(s)

Next ==
    \/ \E t \in Rows : AssignTask(t) \/ UpdateTask(t)
    \/ \E s \in Schedulers : Serve(s) \/ Crash(s) \/ Run(s)
    \/ ServeOrphan \/ Depart \/ Lapse

\* The awaits of the loop come back: a stream that is silent has its deadline of
\* 0.01 s.  A leader that is down is found to be gone.
Fairness ==
    /\ \A s \in Schedulers : WF_vars(Run(s))
    /\ WF_vars(Depart)

Spec == Init /\ [][Next]_vars /\ Fairness

-----------------------------------------------------------------------------
Down(s) == pc[s] \in {"raised", "crashed"}

\* As long as no leader was taken for gone, the statuses of a task come to
\* process_new_status once each, and RUNNING, SUCCESS and the ERROR of an
\* interruption in this order, whatever streams were left, orphaned, cut off at the
\* limit or ended by a failing scheduler in between, with reports on their way in them.
HandledInOrder ==
    [][\A s \in Schedulers :
         LET r == hand'[s]
         IN  /\ lapses = 0 /\ pc[s] = "recv" /\ pc'[s] = "read"
             /\ r.task \in Rows
             => /\ r.status \notin handled[r.task]
                /\ r.status = "RUNNING" => handled[r.task] \subseteq {"QUEUED"}
                /\ r.status = "SUCCESS" => "ERROR" \notin handled[r.task]]_vars

\* A row leaves its final status only by the QUEUED that assign_task writes after
\* its dispatch, unless two schedulers took themselves for the leader: then one may
\* write what it was given before the other wrote, to a row that it read before.
FinalStays ==
    [][\A t \in Rows :
         row[t] \in Final /\ row'[t] \notin Final
         => \/ assign[t] = "dispatched" /\ assign'[t] = "done"
            \/ /\ lapses > 0
               /\ \E s \in Schedulers : pc[s] = "write" /\ hand[s].task = t]_vars

\* A report of a task with a row ends the run of a scheduler only if it is a
\* QUEUED that comes after the final status it belongs before: a single leader is
\* never ended by RUNNING, and by a final status not even under two leaders.
OnlyLateQueuedRaises ==
    \A s \in Schedulers :
        pc[s] = "raised" /\ hand[s] # None /\ hand[s].task \in Rows
        => \/ hand[s].status = "QUEUED"
           \/ hand[s].status = "RUNNING" /\ lapses > 0

\* Every scheduler asks for the leader again and again or is down: no stream holds
\* it, however full the queue of the manager is.
AsksAgain ==
    \A s \in Schedulers : []<>(pc[s] = "poll" \/ Down(s))
=============================================================================
