---------------------------- MODULE StatusQueue ----------------------------
(***************************************************************************)
(* The status queue that the manager process and every worker process      *)
(* share: providers/queue/multiprocessing_queue.py over a                  *)
(* multiprocessing.Queue.  put() appends to a buffer of the calling        *)
(* process; a feeder thread of that process moves the buffer to one pipe   *)
(* under a lock shared by all processes.  The order of the messages of one *)
(* process is kept, the order between processes is not.                    *)
(***************************************************************************)
EXTENDS Naturals, Sequences

CONSTANTS Workers,      \* worker uuids
          Tasks,        \* task uuids given out by the manager
          Manager,      \* the process that runs FunTaskManager
          None          \* Python's None

ASSUME NamesDiffer ==
    /\ Workers \cap Tasks = {}
    /\ Manager \notin Workers \cup Tasks
    /\ None \notin Workers \cup Tasks \cup {Manager}

VARIABLES feeder,       \* process -> messages put, not yet in the pipe
          pipe,         \* the pipe all processes write to
          jammed,       \* a process was killed while it held the pipe's lock
          delivered     \* history: what get_queued_status has returned

statusVars == <<feeder, pipe, jammed, delivered>>

Processes == Workers \cup {Manager}

TaskStatus == {"QUEUED", "RUNNING", "SUCCESS", "ERROR"}

\* A heartbeat has no task and no status; the report that a worker was
\* stopped has no task and status ERROR.
Message == [worker : Workers, task : Tasks \cup {None},
            status : TaskStatus \cup {None}]

Report(w, t, s) == [worker |-> w, task |-> t, status |-> s]

StatusQueueTypeOK ==
    /\ feeder \in [Processes -> Seq(Message)]
    /\ pipe \in Seq(Message)
    /\ jammed \in BOOLEAN
    /\ delivered \in Seq(Message)

StatusQueueInit ==
    /\ feeder = [p \in Processes |-> <<>>]
    /\ pipe = <<>>
    /\ jammed = FALSE
    /\ delivered = <<>>

\* status_queue.put by process p.
Put(p, m) ==
    /\ feeder' = [feeder EXCEPT ![p] = Append(@, m)]
    /\ UNCHANGED <<pipe, jammed, delivered>>

\* Variant of Flush: the newest message is written first.
FlushNewest(p) ==
    /\ feeder[p] # <<>>
    /\ ~jammed
    /\ pipe' = Append(pipe, feeder[p][Len(feeder[p])])
    /\ feeder' = [feeder EXCEPT ![p] = SubSeq(@, 1, Len(@) - 1)]
    /\ UNCHANGED <<jammed, delivered>>

\* The feeder thread of p writes its oldest message to the pipe.
Flush(p) ==
    /\ feeder[p] # <<>>
    /\ ~jammed
    /\ pipe' = Append(pipe, Head(feeder[p]))
    /\ feeder' = [feeder EXCEPT ![p] = Tail(@)]
    /\ UNCHANGED <<jammed, delivered>>

\* Variant of LoseFeeder: what other processes have written is lost too.
LosePipe(p) ==
    /\ feeder' = [feeder EXCEPT ![p] = <<>>]
    /\ pipe' = <<>>
    /\ UNCHANGED <<jammed, delivered>>

\* SIGKILL of p: its buffer is gone.  When the feeder was writing at that
\* moment the pipe's lock stays taken for ever, with the message written or not.
LoseFeeder(p) ==
    /\ feeder' = [feeder EXCEPT ![p] = <<>>]
    /\ \/ UNCHANGED <<pipe, jammed>>
       \/ /\ feeder[p] # <<>>
          /\ ~jammed
          /\ jammed' = TRUE
          /\ pipe' \in {pipe, Append(pipe, Head(feeder[p]))}
    /\ UNCHANGED delivered

\* FunTaskManager.get_queued_status: the oldest message of the pipe, if any.
GetQueuedStatus ==
    /\ pipe # <<>>
    /\ delivered' = Append(delivered, Head(pipe))
    /\ pipe' = Tail(pipe)
    /\ UNCHANGED <<feeder, jammed>>
=============================================================================
