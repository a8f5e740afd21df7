---------------------------- MODULE CronSubTask ----------------------------
(***************************************************************************)
(* What happens when a cron task fires: WorkerScheduler                    *)
(* ._create_cron_sub_task, core/scheduler.py.  Firings, also those of      *)
(* other scheduler nodes, run at the same time and share the workers'      *)
(* locks, an argument queue and the repository, which are modelled by what *)
(* interface_and_types.py promises of them.  A step ends at the awaits     *)
(* where what the others do makes a difference.                            *)
(***************************************************************************)
EXTENDS Naturals, Sequences

CONSTANTS Firings,      \* runs of _create_cron_sub_task
          Workers,
          Nobody,       \* no firing, no worker
          MayFail,      \* firings whose UDFs, repository or queue calls may raise
          Argument,     \* firing -> argument_generate_strategy.strategy
          Choice,       \* firing -> its worker_choose_strategy
          Candidates,   \* firing -> the workers it may choose from
          Strategies,   \* worker choose strategies
          Kind,         \* strategy -> strategy.strategy
          Udf,          \* strategy -> what its UDF returns
          MaxDepth,     \* max_depth of the resolution, 10 in the code
          MaxPut        \* bound on the arguments put to the queue

FromQueue == {"FROM_QUEUE_END_DROP", "FROM_QUEUE_END_SKIP",
              "FROM_QUEUE_END_REPEAT_LATEST"}

ASSUME CronAssumption ==
    /\ Nobody \notin Firings \cup Workers
    /\ MayFail \subseteq Firings
    /\ Argument \in [Firings -> FromQueue \cup {"STATIC", "DROP", "SKIP", "UDF"}]
    /\ Choice \in [Firings -> Strategies]
    /\ Candidates \in [Firings -> SUBSET Workers]
    /\ Kind \in [Strategies ->
                  {"STATIC", "RANDOM_FROM_LIST", "RANDOM_FROM_WORKER_TAGS", "UDF"}]
    /\ Udf \in [Strategies -> Strategies]
    /\ MaxDepth \in Nat /\ MaxPut \in Nat

VARIABLES pc,      \* firing -> the await it is at
          worker,  \* firing -> the worker chosen
          holder,  \* worker -> the firing that has its lock
          put,     \* number of arguments put to the argument queue so far
          taken,   \* number of arguments taken: those after it are in the queue
          hand,    \* firing -> the argument it has taken, 0 if none
          rows     \* the task rows, in the order in which they were added

vars == <<pc, worker, holder, put, taken, hand, rows>>

Statuses == {"SKIP", "SCHEDULED", "ERROR"}

\* How a row came to its argument: it has none, it was taken from the queue, or it
\* is the one at the front, which stays there.
Sources == {"none", "taken", "front"}

Row == [firing : Firings, status : Statuses, argument : 0..MaxPut, source : Sources]

\* Every variable has its type, and the queue holds arguments that were put.
TypeOK ==
    /\ pc \in [Firings -> {"waiting", "choose", "lock", "strategy", "generate",
                           "get", "add", "empty", "ended", "failed"}]
    /\ worker \in [Firings -> Workers \cup {Nobody}]
    /\ holder \in [Workers -> Firings \cup {Nobody}]
    /\ put \in 0..MaxPut
    /\ taken \in 0..put
    /\ hand \in [Firings -> 0..MaxPut]
    /\ rows \in Seq(Row)

Init ==
    /\ pc = [f \in Firings |-> "waiting"]
    /\ worker = [f \in Firings |-> Nobody]
    /\ holder = [w \in Workers |-> Nobody]
    /\ put = 0
    /\ taken = 0
    /\ hand = [f \in Firings |-> 0]
    /\ rows = <<>>

-----------------------------------------------------------------------------
\* _resolve_worker_choose_strategy, after "depth" calls of UDFs.
Resolve[depth \in 0..(MaxDepth + 1)] ==
    [s \in Strategies |->
       IF depth > MaxDepth THEN "raises"
       ELSE IF Kind[s] # "UDF" THEN Kind[s]
       ELSE Resolve[depth + 1][Udf[s]]]

\* Variant of ResolvedChoice: the first depth is 1.
ResolvedFromOne(f) == Resolve[1][Choice[f]]

ResolvedChoice(f) == Resolve[0][Choice[f]]

Go(f, from, to) == pc[f] = from /\ pc' = [pc EXCEPT ![f] = to]

\* What the interface promises of add_task.  The shipped Repository.add_task stores
\* neither status nor argument nor worker, for which its table has no null.
AddRow(f, status, argument, source) ==
    rows' = Append(rows, [firing |-> f, status |-> status,
                          argument |-> argument, source |-> source])

Unlock(f) == holder' = [holder EXCEPT ![worker[f]] = Nobody]

\* Variant of EndLocked: a firing that returns early keeps the lock.
EndKeepsLock(f, from) ==
    Go(f, from, "ended") /\ UNCHANGED holder

\* The firing leaves the locked block.  _generate_task_from_argument_strategy
\* returns None in every case, so _create_cron_sub_task returns after it.
EndLocked(f, from) == Go(f, from, "ended") /\ Unlock(f)

\* Somebody puts an argument to the queue; no code of the repository does.
PutArgument ==
    /\ put < MaxPut
    /\ put' = put + 1
    /\ UNCHANGED <<pc, worker, holder, taken, hand, rows>>

Fire(f) ==
    /\ Go(f, "waiting", "choose")
    /\ UNCHANGED <<worker, holder, put, taken, hand, rows>>

\* The strategies are resolved and a worker is chosen, at random.
ChooseWorker(f) ==
    /\ Go(f, "choose", "lock")
    /\ ResolvedChoice(f) # "raises"
    /\ \E w \in Candidates[f] : worker' = [worker EXCEPT ![f] = w]
    /\ UNCHANGED <<holder, put, taken, hand, rows>>

\* No worker has the tag: a SKIP row is all that comes of the firing.
NoWorker(f) ==
    /\ Go(f, "choose", "ended")
    /\ ResolvedChoice(f) = "RANDOM_FROM_WORKER_TAGS" /\ Candidates[f] = {}
    /\ AddRow(f, "SKIP", 0, "none")
    /\ UNCHANGED <<worker, holder, put, taken, hand>>

\* The resolution runs too deep, a list of workers is empty, or a call raises.
ChoiceRaises(f) ==
    /\ Go(f, "choose", "failed")
    /\ \/ ResolvedChoice(f) = "raises"
       \/ ResolvedChoice(f) # "RANDOM_FROM_WORKER_TAGS" /\ Candidates[f] = {}
       \/ f \in MayFail
    /\ UNCHANGED <<worker, holder, put, taken, hand, rows>>

\* Variant of Lock: as with MultiprocessingLock, nobody is excluded.
LockNothing(f) ==
    /\ Go(f, "lock", "strategy")
    /\ holder' = [holder EXCEPT ![worker[f]] = f]
    /\ UNCHANGED <<worker, put, taken, hand, rows>>

Lock(f) ==
    /\ Go(f, "lock", "strategy")
    /\ holder[worker[f]] = Nobody
    /\ holder' = [holder EXCEPT ![worker[f]] = f]
    /\ UNCHANGED <<worker, put, taken, hand, rows>>

ResolveQueueStrategy(f) ==
    /\ Go(f, "strategy", "generate")
    /\ UNCHANGED <<worker, holder, put, taken, hand, rows>>

\* DROP: no row.
GenerateDrop(f) ==
    /\ Argument[f] = "DROP"
    /\ EndLocked(f, "generate")
    /\ UNCHANGED <<worker, put, taken, hand, rows>>

\* SKIP and STATIC: one row.
GenerateRow(f) ==
    /\ Argument[f] \in {"SKIP", "STATIC"}
    /\ EndLocked(f, "generate")
    /\ AddRow(f, IF Argument[f] = "SKIP" THEN "SKIP" ELSE "SCHEDULED", 0, "none")
    /\ UNCHANGED <<worker, put, taken, hand>>

\* The size of the argument queue decides what is done next.
LookAtQueue(f) ==
    /\ Argument[f] \in FromQueue
    /\ Go(f, "generate", IF put # taken THEN "get" ELSE "empty")
    /\ UNCHANGED <<worker, holder, put, taken, hand, rows>>

\* Variants of GetArgument: the argument stays in the queue; nobody waits.
GetPeeks(f) ==
    /\ Go(f, "get", "add")
    /\ put # taken
    /\ hand' = [hand EXCEPT ![f] = taken + 1]
    /\ UNCHANGED <<worker, holder, put, taken, rows>>

GetAtOnce(f) ==
    /\ Go(f, "get", "add")
    /\ hand' = [hand EXCEPT ![f] = taken + 1]
    /\ taken' = taken + 1
    /\ UNCHANGED <<worker, holder, put, rows>>

\* get(0) of a queue that had an argument: with a timeout of 0 watch_and_get
\* waits, without end, for the next one.
GetArgument(f) ==
    /\ Go(f, "get", "add")
    /\ put # taken
    /\ hand' = [hand EXCEPT ![f] = taken + 1]
    /\ taken' = taken + 1
    /\ UNCHANGED <<worker, holder, put, rows>>

\* The get raises after it has taken the argument, which dill cannot load: the argument
\* is lost.
GetRaises(f) ==
    /\ Go(f, "get", "failed")
    /\ f \in MayFail /\ put # taken
    /\ hand' = [hand EXCEPT ![f] = taken + 1]
    /\ taken' = taken + 1
    /\ Unlock(f)
    /\ UNCHANGED <<worker, put, rows>>

AddScheduled(f) ==
    /\ EndLocked(f, "add")
    /\ AddRow(f, "SCHEDULED", hand[f], "taken")
    /\ UNCHANGED <<worker, put, taken, hand>>

\* Variant of EndSkip: nothing is noted.
EndSkipSilently(f) ==
    /\ Argument[f] = "FROM_QUEUE_END_SKIP"
    /\ EndLocked(f, "empty")
    /\ UNCHANGED <<worker, put, taken, hand, rows>>

\* The queue was empty when its size was read.
EndDrop(f) ==
    /\ Argument[f] = "FROM_QUEUE_END_DROP"
    /\ EndLocked(f, "empty")
    /\ UNCHANGED <<worker, put, taken, hand, rows>>

EndSkip(f) ==
    /\ Argument[f] = "FROM_QUEUE_END_SKIP"
    /\ EndLocked(f, "empty")
    /\ AddRow(f, "SKIP", 0, "none")
    /\ UNCHANGED <<worker, put, taken, hand>>

\* get_front returns the first argument of the queue and leaves it there, or
\* raises EmptyQueueException: so only an argument put meanwhile is repeated.
EndRepeat(f) ==
    /\ Argument[f] = "FROM_QUEUE_END_REPEAT_LATEST"
    /\ EndLocked(f, "empty")
    /\ IF put # taken
         THEN AddRow(f, "SCHEDULED", taken + 1, "front")
         ELSE AddRow(f, "ERROR", 0, "none")
    /\ UNCHANGED <<worker, put, taken, hand>>

\* Another call of the locked block raises: a UDF strategy of arguments is resolved by
\* nobody and raises always.  The argument in hand is lost.
LockedRaises(f) ==
    /\ \E from \in {"strategy", "generate", "add", "empty"} :
         /\ Go(f, from, "failed")
         /\ f \in MayFail \/ (from = "generate" /\ Argument[f] = "UDF")
    /\ Unlock(f)
    /\ UNCHANGED <<worker, put, taken, hand, rows>>

Step(f) ==
    \/ ChooseWorker(f) \/ NoWorker(f) \/ ChoiceRaises(f) \/ Lock(f)
    \/ ResolveQueueStrategy(f) \/ GenerateDrop(f) \/ GenerateRow(f)
    \/ LookAtQueue(f) \/ GetArgument(f) \/ GetRaises(f) \/ AddScheduled(f)
    \/ EndDrop(f) \/ EndSkip(f) \/ EndRepeat(f) \/ LockedRaises(f)

Next == PutArgument \/ \E f \in Firings : Fire(f) \/ Step(f)

Spec == Init /\ [][Next]_vars

\* A firing goes on as long as it can; a lock is granted to one who waits for it
\* again and again.
FairSpec == Spec /\ \A f \in Firings : WF_vars(Step(f)) /\ SF_vars(Lock(f))

-----------------------------------------------------------------------------
Done(f) == pc[f] \in {"ended", "failed"}

RowsOf(f) == {i \in DOMAIN rows : rows[i].firing = f}

\* A firing adds one row at most, and only when it ends in order; one that ended
\* without a row was told to drop.
RowPerFiring ==
    /\ \A i, j \in DOMAIN rows : rows[i].firing = rows[j].firing => i = j
    /\ \A i \in DOMAIN rows : pc[rows[i].firing] = "ended"
    /\ \A f \in Firings :
         pc[f] = "ended" /\ RowsOf(f) = {}
           => Argument[f] \in {"DROP", "FROM_QUEUE_END_DROP"}

\* An argument that was taken from the queue was taken by one firing, and the row
\* of that firing is the only one it is in, but for those that repeat the front.
ArgumentUsedOnce ==
    /\ \A f, g \in Firings : hand[f] # 0 /\ hand[f] = hand[g] => f = g
    /\ \A n \in 1..taken : \E f \in Firings : hand[f] = n
    /\ \A i \in DOMAIN rows :
         rows[i].source = "taken" => rows[i].argument = hand[rows[i].firing]
                                     /\ rows[i].argument # 0

\* The tasks of one worker get their arguments in the order of the queue, whatever
\* cron tasks and nodes they come from: the lock covers taking and adding.
WorkerGetsArgumentsInOrder ==
    \A i, j \in DOMAIN rows :
       /\ i < j
       /\ worker[rows[i].firing] = worker[rows[j].firing]
       /\ rows[i].source = "taken" /\ rows[j].source = "taken"
       => rows[i].argument < rows[j].argument

\* s after n calls of UDFs.
After[n \in 0..MaxDepth] ==
    [s \in Strategies |-> IF n = 0 THEN s ELSE Udf[After[n - 1][s]]]

Resolvable(s) == \E n \in 0..MaxDepth : Kind[After[n][s]] # "UDF"

\* A worker is chosen only when MaxDepth calls of UDFs are enough, and then the
\* resolution is no reason to fail.
ResolutionIsExact ==
    \A f \in Firings :
      /\ worker[f] # Nobody => Resolvable(Choice[f])
      /\ pc[f] = "failed" /\ worker[f] = Nobody /\ Candidates[f] # {} /\ f \notin MayFail
           => ~Resolvable(Choice[f])

\* Some firing found an argument in the queue that another one then took.
Starving == \E g \in Firings : pc[g] = "get" /\ put = taken

\* A firing comes to an end, unless some firing starves for ever: it keeps the
\* lock, so all others for its worker wait with it.
FiringEnds ==
    <>[]Starving \/ \A f \in Firings : (pc[f] = "choose") ~> Done(f)

\* "is None means skip or drop task, no need to assign" (scheduler.py:367): a
\* firing that returns there has added no row, or a row with a final status.
NoneMeansSkipOrDrop ==
    \A i \in DOMAIN rows : rows[i].status # "SCHEDULED"
=============================================================================
