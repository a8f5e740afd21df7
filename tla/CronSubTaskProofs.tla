------------------------- MODULE CronSubTaskProofs -------------------------
(***************************************************************************)
(* Proofs about CronSubTask, for any firings, workers and strategies.      *)
(***************************************************************************)
EXTENDS CronSubTask, Recursion, TLAPS

Places == {"waiting", "choose", "lock", "strategy", "generate",
           "get", "add", "empty", "ended", "failed"}

\* What a row that is added changes.
LEMMA RowAdded ==
    ASSUME TypeOK, NEW f \in Firings, NEW s \in Statuses, NEW n \in 0..MaxPut,
           NEW from \in Sources, AddRow(f, s, n, from)
    PROVE  /\ rows' \in Seq(Row)
           /\ DOMAIN rows' = DOMAIN rows \cup {Len(rows) + 1}
           /\ \A i \in DOMAIN rows : i < Len(rows) + 1 /\ rows'[i] = rows[i]
           /\ rows'[Len(rows) + 1] =
                [firing |-> f, status |-> s, argument |-> n, source |-> from]
           /\ Len(rows) \in Nat
<1>1. [firing |-> f, status |-> s, argument |-> n, source |-> from] \in Row
  BY DEF Row
<1> QED BY <1>1 DEF AddRow, TypeOK

LEMMA Names ==
    /\ 0 \in 0..MaxPut
    /\ {"SKIP", "SCHEDULED", "ERROR"} \subseteq Statuses
    /\ {"none", "taken", "front"} \subseteq Sources
BY CronAssumption DEF Statuses, Sources

\* The unlocked worker is the one of a firing that has chosen.
LEMMA UnlockTyped ==
    ASSUME TypeOK, NEW f \in Firings, Unlock(f)
    PROVE  holder' \in [Workers -> Firings \cup {Nobody}]
BY DEF TypeOK, Unlock

LEMMA StepTyped ==
    ASSUME TypeOK, NEW f \in Firings, Step(f)
    PROVE  TypeOK'
<1> USE CronAssumption
<1>1. ASSUME ChooseWorker(f) PROVE TypeOK'
  BY <1>1 DEF ChooseWorker, Go, TypeOK
<1>2. ASSUME NoWorker(f) PROVE TypeOK'
  <2>1. AddRow(f, "SKIP", 0, "none")
    BY <1>2 DEF NoWorker
  <2>2. rows' \in Seq(Row)
    BY <2>1, Names, RowAdded
  <2> QED BY <1>2, <2>2 DEF NoWorker, Go, TypeOK
<1>3. ASSUME ChoiceRaises(f) PROVE TypeOK'
  BY <1>3 DEF ChoiceRaises, Go, TypeOK
<1>4. ASSUME Lock(f) PROVE TypeOK'
  BY <1>4 DEF Lock, Go, TypeOK
<1>5. ASSUME ResolveQueueStrategy(f) PROVE TypeOK'
  BY <1>5 DEF ResolveQueueStrategy, Go, TypeOK
<1>6. ASSUME GenerateDrop(f) PROVE TypeOK'
  BY <1>6, UnlockTyped DEF GenerateDrop, EndLocked, Go, TypeOK
<1>7. ASSUME GenerateRow(f) PROVE TypeOK'
  <2>1. PICK s \in Statuses : AddRow(f, s, 0, "none")
    BY <1>7, Names DEF GenerateRow
  <2>2. rows' \in Seq(Row)
    BY <2>1, Names, RowAdded
  <2> QED BY <1>7, <2>2, UnlockTyped DEF GenerateRow, EndLocked, Go, TypeOK
<1>8. ASSUME LookAtQueue(f) PROVE TypeOK'
  BY <1>8 DEF LookAtQueue, Go, TypeOK
<1>9. ASSUME GetArgument(f) PROVE TypeOK'
  BY <1>9 DEF GetArgument, Go, TypeOK
<1>10. ASSUME AddScheduled(f) PROVE TypeOK'
  <2>1. hand[f] \in 0..MaxPut
    BY DEF TypeOK
  <2>2. rows' \in Seq(Row)
    BY <1>10, <2>1, Names, RowAdded DEF AddScheduled
  <2> QED BY <1>10, <2>2, UnlockTyped DEF AddScheduled, EndLocked, Go, TypeOK
<1>11. ASSUME EndDrop(f) PROVE TypeOK'
  BY <1>11, UnlockTyped DEF EndDrop, EndLocked, Go, TypeOK
<1>12. ASSUME EndSkip(f) PROVE TypeOK'
  <2>1. AddRow(f, "SKIP", 0, "none")
    BY <1>12 DEF EndSkip
  <2>2. rows' \in Seq(Row)
    BY <2>1, Names, RowAdded
  <2> QED BY <1>12, <2>2, UnlockTyped DEF EndSkip, EndLocked, Go, TypeOK
<1>13. ASSUME EndRepeat(f) PROVE TypeOK'
  <2>1. put # taken => taken + 1 \in 0..MaxPut
    BY DEF TypeOK
  <2>2. PICK s \in Statuses, n \in 0..MaxPut, from \in Sources : AddRow(f, s, n, from)
    BY <1>13, <2>1, Names DEF EndRepeat
  <2>3. rows' \in Seq(Row)
    BY <2>2, RowAdded
  <2> QED BY <1>13, <2>3, UnlockTyped DEF EndRepeat, EndLocked, Go, TypeOK
<1>14. ASSUME LockedRaises(f) PROVE TypeOK'
  BY <1>14, UnlockTyped DEF LockedRaises, Go, TypeOK
<1>15. ASSUME GetRaises(f) PROVE TypeOK'
  BY <1>15, UnlockTyped DEF GetRaises, Go, TypeOK
<1> QED BY <1>1, <1>2, <1>3, <1>4, <1>5, <1>6, <1>7, <1>8, <1>9, <1>10, <1>11, <1>12,
           <1>13, <1>14, <1>15 DEF Step

LEMMA NextTyped == TypeOK /\ [Next]_vars => TypeOK'
<1> SUFFICES ASSUME TypeOK, [Next]_vars PROVE TypeOK'
  OBVIOUS
<1>1. ASSUME PutArgument PROVE TypeOK'
  BY <1>1, CronAssumption DEF PutArgument, TypeOK
<1>2. ASSUME NEW f \in Firings, Fire(f) PROVE TypeOK'
  BY <1>2 DEF Fire, Go, TypeOK
<1>3. CASE UNCHANGED vars
  BY <1>3 DEF vars, TypeOK
<1> QED BY <1>1, <1>2, <1>3, StepTyped DEF Next

\* Every variable has its type and the queue holds arguments that were put.
THEOREM TypeCorrect == Spec => []TypeOK
<1>1. Init => TypeOK
  BY CronAssumption DEF Init, TypeOK
<1> QED BY <1>1, NextTyped, PTL DEF Spec
-----------------------------------------------------------------------------
(* The parts of the invariant.                                             *)

Locked == {"strategy", "generate", "get", "add", "empty"}

\* Between "async with" and its end a firing has the lock of its worker.
LockInv ==
    \A f \in Firings :
      /\ pc[f] \in Locked \cup {"lock"} => worker[f] \in Workers
      /\ pc[f] \in Locked => holder[worker[f]] = f

\* Whose hand holds an argument.
HandInv ==
    /\ \A f \in Firings : /\ hand[f] \in 0..taken
                          /\ hand[f] # 0 => pc[f] \in {"add", "ended", "failed"}
                          /\ pc[f] = "add" => hand[f] # 0
    /\ \A f, g \in Firings : hand[f] # 0 /\ hand[f] = hand[g] => f = g
    /\ \A n \in 1..taken : \E f \in Firings : hand[f] = n

TakenRows ==
    \A i \in DOMAIN rows :
      rows[i].source = "taken" =>
        rows[i].argument = hand[rows[i].firing] /\ rows[i].argument # 0

\* What a firing with a worker's lock has in hand is newer than the worker's rows.
NewerInHand ==
    \A f \in Firings : \A i \in DOMAIN rows :
      /\ pc[f] = "add" /\ rows[i].source = "taken"
      /\ worker[rows[i].firing] = worker[f]
      => rows[i].argument < hand[f]

Inv == LockInv /\ HandInv /\ RowPerFiring /\ TakenRows
         /\ WorkerGetsArgumentsInOrder /\ NewerInHand

\* A step of one firing leaves the others where they are.
LEMMA StepLocal ==
    ASSUME TypeOK, NEW f \in Firings, Step(f)
    PROVE  /\ \A g \in Firings \ {f} : /\ pc'[g] = pc[g] /\ worker'[g] = worker[g]
                                       /\ hand'[g] = hand[g]
           /\ pc[f] \notin {"waiting", "ended", "failed"}
BY DEF Step, ChooseWorker, NoWorker, ChoiceRaises, Lock, ResolveQueueStrategy,
       GenerateDrop, GenerateRow, LookAtQueue, GetArgument, GetRaises, AddScheduled, EndDrop,
       EndSkip, EndRepeat, LockedRaises, EndLocked, Go, TypeOK

\* What a step does to the lock.
LEMMA LockStep ==
    ASSUME TypeOK, NEW f \in Firings, Step(f)
    PROVE  \/ /\ UNCHANGED holder
              /\ pc'[f] \in Locked => pc[f] \in Locked /\ worker'[f] = worker[f]
              /\ pc'[f] = "lock" => worker'[f] \in Workers
           \/ /\ pc[f] = "lock" /\ holder[worker[f]] = Nobody /\ UNCHANGED worker
              /\ holder' = [holder EXCEPT ![worker[f]] = f]
           \/ /\ pc[f] \in Locked /\ pc'[f] \in {"ended", "failed"}
              /\ Unlock(f) /\ UNCHANGED worker
<1>1. CASE ChooseWorker(f)
  BY <1>1, CronAssumption DEF ChooseWorker, Go, TypeOK, Locked
<1>2. CASE NoWorker(f) \/ ChoiceRaises(f)
  BY <1>2 DEF NoWorker, ChoiceRaises, Go, TypeOK, Locked
<1>3. CASE Lock(f)
  BY <1>3 DEF Lock, Go
<1>4. CASE ResolveQueueStrategy(f) \/ LookAtQueue(f) \/ GetArgument(f)
  BY <1>4 DEF ResolveQueueStrategy, LookAtQueue, GetArgument, Go, TypeOK, Locked
<1>5. CASE GenerateDrop(f) \/ GenerateRow(f) \/ AddScheduled(f) \/ EndDrop(f)
           \/ EndSkip(f) \/ EndRepeat(f)
  BY <1>5 DEF GenerateDrop, GenerateRow, AddScheduled, EndDrop, EndSkip, EndRepeat,
              EndLocked, Go, TypeOK, Locked
<1>6. CASE LockedRaises(f) \/ GetRaises(f)
  BY <1>6 DEF LockedRaises, GetRaises, Go, TypeOK, Locked
<1> QED BY <1>1, <1>2, <1>3, <1>4, <1>5, <1>6 DEF Step

LEMMA LockKept ==
    ASSUME TypeOK, LockInv, NEW f \in Firings, Step(f)
    PROVE  LockInv'
<1> USE CronAssumption
<1>1. \A g \in Firings \ {f} : pc'[g] = pc[g] /\ worker'[g] = worker[g]
  BY StepLocal
<1>2. CASE /\ UNCHANGED holder
           /\ pc'[f] \in Locked => pc[f] \in Locked /\ worker'[f] = worker[f]
           /\ pc'[f] = "lock" => worker'[f] \in Workers
  BY <1>1, <1>2 DEF LockInv
<1>3. CASE /\ pc[f] = "lock" /\ holder[worker[f]] = Nobody /\ UNCHANGED worker
           /\ holder' = [holder EXCEPT ![worker[f]] = f]
  BY <1>1, <1>3 DEF LockInv, TypeOK
<1>4. CASE /\ pc[f] \in Locked /\ pc'[f] \in {"ended", "failed"}
           /\ Unlock(f) /\ UNCHANGED worker
  BY <1>1, <1>4 DEF LockInv, TypeOK, Unlock, Locked
<1> QED BY <1>2, <1>3, <1>4, LockStep

\* A lock that is held is held by a firing in the block of its worker.
HeldInBlock ==
    \A w \in Workers : holder[w] # Nobody =>
      /\ holder[w] \in Firings
      /\ pc[holder[w]] \in Locked
      /\ worker[holder[w]] = w

LEMMA HeldKept ==
    ASSUME TypeOK, LockInv, HeldInBlock, NEW f \in Firings, Step(f)
    PROVE  HeldInBlock'
<1> USE CronAssumption
<1>1. \A g \in Firings \ {f} : pc'[g] = pc[g] /\ worker'[g] = worker[g]
  BY StepLocal
<1>2. CASE UNCHANGED holder /\ (pc[f] \in Locked => pc'[f] \in Locked /\ worker'[f] = worker[f])
  BY <1>1, <1>2 DEF HeldInBlock
<1>3. CASE Lock(f)
  <2>1. /\ worker[f] \in Workers /\ UNCHANGED worker /\ pc'[f] \in Locked
        /\ \A w \in Workers : holder'[w] = IF w = worker[f] THEN f ELSE holder[w]
    BY <1>3 DEF Lock, Go, LockInv, Locked, TypeOK
  <2> QED BY <1>1, <1>3, <2>1 DEF HeldInBlock, Lock, Go, Locked
<1>4. CASE pc[f] \in Locked /\ Unlock(f) /\ UNCHANGED worker
  <2>1. /\ holder[worker[f]] = f
        /\ \A w \in Workers : holder'[w] = IF w = worker[f] THEN Nobody ELSE holder[w]
    BY <1>4 DEF Unlock, LockInv, TypeOK
  <2> QED BY <1>1, <1>4, <2>1 DEF HeldInBlock
<1>5. \/ UNCHANGED holder /\ (pc[f] \in Locked => pc'[f] \in Locked /\ worker'[f] = worker[f])
      \/ Lock(f)
      \/ pc[f] \in Locked /\ Unlock(f) /\ UNCHANGED worker
  BY DEF Step, ChooseWorker, NoWorker, ChoiceRaises, ResolveQueueStrategy,
       GenerateDrop, GenerateRow, LookAtQueue, GetArgument, GetRaises, AddScheduled, EndDrop,
       EndSkip, EndRepeat, LockedRaises, EndLocked, Go, TypeOK, Locked
<1> QED BY <1>2, <1>3, <1>4, <1>5

\* A lock that is held is held by a firing that is in the locked block of that worker, so
\* it waits for no other lock, and a firing in that block has the lock: a firing that has
\* ended, whatever way, holds none, and waiting is never circular.  (That a wait comes to
\* an end is not said here: FiringEnds is.)
THEOREM LocksAreLeft == Spec => [](LockInv /\ HeldInBlock)
<1>1. Init => LockInv /\ HeldInBlock
  BY DEF Init, LockInv, HeldInBlock, Locked
<1>2. TypeOK /\ LockInv /\ HeldInBlock /\ [Next]_vars => LockInv' /\ HeldInBlock'
  <2> SUFFICES ASSUME TypeOK, LockInv, HeldInBlock, [Next]_vars
               PROVE  LockInv' /\ HeldInBlock'
    OBVIOUS
  <2>1. CASE UNCHANGED <<pc, worker, holder>>
    BY <2>1 DEF LockInv, HeldInBlock
  <2>2. ASSUME NEW f \in Firings, Fire(f) PROVE LockInv' /\ HeldInBlock'
    BY <2>2 DEF Fire, Go, LockInv, HeldInBlock, Locked, TypeOK
  <2>3. ASSUME NEW f \in Firings, Step(f) PROVE LockInv' /\ HeldInBlock'
    BY <2>3, LockKept, HeldKept
  <2> QED BY <2>1, <2>2, <2>3 DEF Next, PutArgument, vars
<1> QED BY <1>1, <1>2, TypeCorrect, PTL DEF Spec

\* Two firings with the same worker are not both in its locked block.
LEMMA OneInBlock ==
    ASSUME LockInv, NEW f \in Firings, NEW g \in Firings, worker[f] = worker[g],
           pc[f] \in Locked, pc[g] \in Locked
    PROVE  f = g
BY DEF LockInv

\* What a step does to the arguments.
LEMMA HandStep ==
    ASSUME TypeOK, HandInv, NEW f \in Firings, Step(f)
    PROVE  \/ /\ UNCHANGED <<hand, taken>>
              /\ pc'[f] # "add"
              /\ hand[f] # 0 => pc'[f] \in {"ended", "failed"}
           \/ /\ pc[f] = "get" /\ pc'[f] \in {"add", "failed"} /\ UNCHANGED <<worker, rows>>
              /\ hand' = [hand EXCEPT ![f] = taken + 1] /\ taken' = taken + 1
<1>1. CASE GetArgument(f) \/ GetRaises(f)
  BY <1>1 DEF GetArgument, GetRaises, Go, TypeOK
<1>2. CASE ~GetArgument(f) /\ ~GetRaises(f)
  BY <1>2 DEF Step, ChooseWorker, NoWorker, ChoiceRaises, Lock, ResolveQueueStrategy,
       GenerateDrop, GenerateRow, LookAtQueue, AddScheduled, EndDrop,
       EndSkip, EndRepeat, LockedRaises, EndLocked, Go, TypeOK, HandInv
<1> QED BY <1>1, <1>2

LEMMA HandKept ==
    ASSUME TypeOK, HandInv, NEW f \in Firings, Step(f)
    PROVE  HandInv'
<1>1. \A g \in Firings \ {f} : pc'[g] = pc[g]
  BY StepLocal
<1>2. CASE /\ UNCHANGED <<hand, taken>>
           /\ pc'[f] # "add"
           /\ hand[f] # 0 => pc'[f] \in {"ended", "failed"}
  BY <1>1, <1>2 DEF HandInv
<1>3. CASE /\ pc[f] = "get" /\ pc'[f] \in {"add", "failed"}
           /\ hand' = [hand EXCEPT ![f] = taken + 1] /\ taken' = taken + 1
  <2>1. hand'[f] = taken + 1 /\ \A g \in Firings \ {f} : hand'[g] = hand[g]
    BY <1>3 DEF TypeOK
  <2>2. hand[f] = 0 /\ taken \in Nat
    BY <1>3 DEF HandInv, TypeOK
  <2>3. \A n \in 1..taken' : \E g \in Firings : hand'[g] = n
    <3> TAKE n \in 1..taken'
    <3>1. CASE n = taken + 1
      BY <2>1, <3>1
    <3>2. CASE n # taken + 1
      <4>1. n \in 1..taken
        BY <1>3, <2>2, <3>2
      <4>2. PICK g \in Firings : hand[g] = n
        BY <4>1 DEF HandInv
      <4> QED BY <2>1, <2>2, <4>1, <4>2
    <3> QED BY <3>1, <3>2
  <2>4. \A g \in Firings : /\ hand'[g] \in 0..taken'
                           /\ hand'[g] # 0 => pc'[g] \in {"add", "ended", "failed"}
                           /\ pc'[g] = "add" => hand'[g] # 0
    BY <1>1, <1>3, <2>1, <2>2 DEF HandInv
  <2>5. \A g, h \in Firings : hand'[g] # 0 /\ hand'[g] = hand'[h] => g = h
    BY <2>1, <2>2 DEF HandInv
  <2> QED BY <2>3, <2>4, <2>5 DEF HandInv
<1> QED BY <1>2, <1>3, HandStep

-----------------------------------------------------------------------------
(* The rows.                                                               *)

\* A step adds no row, or one for the firing that ends with it.
AddsRow(f, s, n, from) ==
    /\ AddRow(f, s, n, from)
    /\ UNCHANGED <<worker, hand>>
    /\ pc[f] # "ended" /\ pc'[f] = "ended"
    /\ from = "taken" => pc[f] = "add" /\ n = hand[f]

LEMMA RowStep ==
    ASSUME TypeOK, NEW f \in Firings, Step(f)
    PROVE  \/ /\ UNCHANGED rows
              /\ pc'[f] = "ended" => Argument[f] \in {"DROP", "FROM_QUEUE_END_DROP"}
           \/ \E s \in Statuses, n \in 0..MaxPut, from \in Sources : AddsRow(f, s, n, from)
<1> DEFINE Goal == \E s \in Statuses, n \in 0..MaxPut, from \in Sources :
                     AddsRow(f, s, n, from)
<1>1. CASE NoWorker(f)
  <2>1. AddsRow(f, "SKIP", 0, "none")
    BY <1>1 DEF NoWorker, Go, TypeOK, AddsRow
  <2> QED BY <2>1, Names
<1>2. CASE GenerateRow(f)
  <2>1. PICK s \in Statuses : AddRow(f, s, 0, "none")
    BY <1>2, Names DEF GenerateRow
  <2>2. AddsRow(f, s, 0, "none")
    BY <1>2, <2>1 DEF GenerateRow, EndLocked, Go, TypeOK, AddsRow
  <2> QED BY <2>2, Names
<1>3. CASE AddScheduled(f)
  <2>1. AddsRow(f, "SCHEDULED", hand[f], "taken")
    BY <1>3 DEF AddScheduled, EndLocked, Go, TypeOK, AddsRow
  <2>2. hand[f] \in 0..MaxPut
    BY DEF TypeOK
  <2> QED BY <2>1, <2>2, Names
<1>4. CASE EndSkip(f)
  <2>1. AddsRow(f, "SKIP", 0, "none")
    BY <1>4 DEF EndSkip, EndLocked, Go, TypeOK, AddsRow
  <2> QED BY <2>1, Names
<1>5. CASE EndRepeat(f)
  <2>1. pc[f] # "ended" /\ pc'[f] = "ended" /\ UNCHANGED <<worker, hand>>
    BY <1>5 DEF EndRepeat, EndLocked, Go, TypeOK
  <2>2. CASE put # taken
    <3>1. AddRow(f, "SCHEDULED", taken + 1, "front")
      BY <1>5, <2>2 DEF EndRepeat
    <3>2. taken + 1 \in 0..MaxPut
      BY <2>2, CronAssumption DEF TypeOK
    <3>3. AddsRow(f, "SCHEDULED", taken + 1, "front")
      BY <2>1, <3>1 DEF AddsRow
    <3> QED BY <3>2, <3>3, Names
  <2>3. CASE put = taken
    <3>1. AddRow(f, "ERROR", 0, "none")
      BY <1>5, <2>3 DEF EndRepeat
    <3>2. AddsRow(f, "ERROR", 0, "none")
      BY <2>1, <3>1 DEF AddsRow
    <3> QED BY <3>2, Names
  <2> QED BY <2>2, <2>3
<1>6. CASE ~(NoWorker(f) \/ GenerateRow(f) \/ AddScheduled(f) \/ EndSkip(f) \/ EndRepeat(f))
  BY <1>6 DEF Step, ChooseWorker, ChoiceRaises, Lock, ResolveQueueStrategy,
       GenerateDrop, LookAtQueue, GetArgument, GetRaises, EndDrop, LockedRaises,
       EndLocked, Go, TypeOK
<1> QED BY <1>1, <1>2, <1>3, <1>4, <1>5, <1>6

\* Rows that exist have ended firings, which no step touches.
LEMMA RowsStay ==
    ASSUME TypeOK, RowPerFiring, NEW f \in Firings, Step(f), NEW i \in DOMAIN rows
    PROVE  /\ rows[i] \in Row
           /\ rows[i].firing \in Firings \ {f}
           /\ pc'[rows[i].firing] = "ended"
           /\ worker'[rows[i].firing] = worker[rows[i].firing]
           /\ hand'[rows[i].firing] = hand[rows[i].firing]
<1>1. rows[i] \in Row
  BY DEF TypeOK
<1>2. rows[i].firing \in Firings /\ pc[rows[i].firing] = "ended"
  BY <1>1 DEF Row, RowPerFiring
<1>3. pc[f] # "ended"
  BY StepLocal
<1> QED BY <1>1, <1>2, <1>3, StepLocal

LEMMA RowsKept ==
    ASSUME TypeOK, RowPerFiring, NEW f \in Firings, Step(f)
    PROVE  RowPerFiring'
<1>1. CASE /\ UNCHANGED rows
           /\ pc'[f] = "ended" => Argument[f] \in {"DROP", "FROM_QUEUE_END_DROP"}
  <2>1. \A g \in Firings \ {f} : pc'[g] = pc[g]
    BY StepLocal
  <2>2. RowsOf(f)' = RowsOf(f) /\ \A g \in Firings : RowsOf(g)' = RowsOf(g)
    BY <1>1 DEF RowsOf
  <2> QED BY <1>1, <2>1, <2>2, RowsStay DEF RowPerFiring
<1>2. ASSUME NEW s \in Statuses, NEW n \in 0..MaxPut, NEW from \in Sources,
             AddsRow(f, s, n, from)
      PROVE  RowPerFiring'
  <2> DEFINE new == Len(rows) + 1
  <2>1. /\ DOMAIN rows' = DOMAIN rows \cup {new}
        /\ \A i \in DOMAIN rows : rows'[i] = rows[i]
        /\ rows'[new] = [firing |-> f, status |-> s, argument |-> n, source |-> from]
    BY <1>2, RowAdded DEF AddsRow
  <2>2. \A i \in DOMAIN rows : rows'[i].firing # f
    BY <2>1, RowsStay
  <2>3. \A i, j \in DOMAIN rows' : rows'[i].firing = rows'[j].firing => i = j
    BY <2>1, <2>2 DEF RowPerFiring
  <2>4. \A i \in DOMAIN rows' : pc'[rows'[i].firing] = "ended"
    BY <1>2, <2>1, RowsStay DEF AddsRow
  <2>5. ASSUME NEW g \in Firings, pc'[g] = "ended", RowsOf(g)' = {}
        PROVE  Argument[g] \in {"DROP", "FROM_QUEUE_END_DROP"}
    <3>1. g # f
      BY <2>1, <2>5 DEF RowsOf
    <3>2. pc[g] = "ended"
      BY <2>5, <3>1, StepLocal
    <3>3. RowsOf(g) = {}
      BY <2>1, <2>5 DEF RowsOf
    <3> QED BY <3>2, <3>3 DEF RowPerFiring
  <2> QED BY <2>3, <2>4, <2>5 DEF RowPerFiring
<1> QED BY <1>1, <1>2, RowStep

LEMMA TakenRowsKept ==
    ASSUME TypeOK, HandInv, RowPerFiring, TakenRows, NEW f \in Firings, Step(f)
    PROVE  TakenRows'
<1>1. CASE UNCHANGED rows
  BY <1>1, RowsStay DEF TakenRows
<1>2. ASSUME NEW s \in Statuses, NEW n \in 0..MaxPut, NEW from \in Sources,
             AddsRow(f, s, n, from)
      PROVE  TakenRows'
  <2> DEFINE new == Len(rows) + 1
  <2>1. /\ DOMAIN rows' = DOMAIN rows \cup {new}
        /\ \A i \in DOMAIN rows : rows'[i] = rows[i]
        /\ rows'[new] = [firing |-> f, status |-> s, argument |-> n, source |-> from]
    BY <1>2, RowAdded DEF AddsRow
  <2>2. from = "taken" => n = hand'[f] /\ n # 0
    BY <1>2 DEF AddsRow, HandInv
  <2> QED BY <2>1, <2>2, RowsStay DEF TakenRows
<1> QED BY <1>1, <1>2, RowStep

LEMMA OrderKept ==
    ASSUME TypeOK, LockInv, HandInv, RowPerFiring, TakenRows,
           WorkerGetsArgumentsInOrder, NewerInHand, NEW f \in Firings, Step(f)
    PROVE  WorkerGetsArgumentsInOrder' /\ NewerInHand'
<1>1. \A g \in Firings \ {f} : pc'[g] = pc[g] /\ worker'[g] = worker[g] /\ hand'[g] = hand[g]
  BY StepLocal
<1>2. CASE UNCHANGED rows
  <2>1. WorkerGetsArgumentsInOrder'
    BY <1>2, RowsStay DEF WorkerGetsArgumentsInOrder
  <2>2. ASSUME NEW g \in Firings, NEW i \in DOMAIN rows, pc'[g] = "add",
               rows[i].source = "taken", worker'[rows[i].firing] = worker'[g]
        PROVE  rows[i].argument < hand'[g]
    <3>1. CASE g # f
      BY <1>1, <2>2, <3>1, RowsStay DEF NewerInHand
    <3>2. CASE g = f
      <4>1. hand'[f] = taken + 1
        BY <2>2, <3>2, HandStep DEF TypeOK
      <4>2. rows[i].firing \in Firings /\ rows[i].argument = hand[rows[i].firing]
        BY <2>2, RowsStay DEF TakenRows
      <4>3. rows[i].argument \in 0..taken
        BY <4>2 DEF HandInv
      <4> QED BY <3>2, <4>1, <4>3 DEF TypeOK
    <3> QED BY <3>1, <3>2
  <2> QED BY <1>2, <2>1, <2>2 DEF NewerInHand
<1>3. ASSUME NEW s \in Statuses, NEW n \in 0..MaxPut, NEW from \in Sources,
             AddsRow(f, s, n, from)
      PROVE  WorkerGetsArgumentsInOrder' /\ NewerInHand'
  <2> DEFINE new == Len(rows) + 1
  <2>1. /\ DOMAIN rows' = DOMAIN rows \cup {new}
        /\ \A i \in DOMAIN rows : i < new /\ rows'[i] = rows[i]
        /\ rows'[new] = [firing |-> f, status |-> s, argument |-> n, source |-> from]
    BY <1>3, RowAdded DEF AddsRow
  <2>2. UNCHANGED <<worker, hand>> /\ pc'[f] = "ended"
    BY <1>3 DEF AddsRow
  <2>3. from = "taken" => pc[f] = "add" /\ n = hand[f]
    BY <1>3 DEF AddsRow
  <2>4. \A i \in DOMAIN rows : i \in Nat
    BY DEF TypeOK
  <2>5. new \in Nat
    BY DEF TypeOK
  <2>6. ASSUME NEW i \in DOMAIN rows', NEW j \in DOMAIN rows', i < j,
               worker'[rows'[i].firing] = worker'[rows'[j].firing],
               rows'[i].source = "taken", rows'[j].source = "taken"
        PROVE  rows'[i].argument < rows'[j].argument
    <3>1. i \in DOMAIN rows
      BY <2>1, <2>4, <2>5, <2>6
    <3>2. CASE j \in DOMAIN rows
      BY <2>1, <2>2, <2>6, <3>1, <3>2 DEF WorkerGetsArgumentsInOrder
    <3>3. CASE j = new
      BY <2>1, <2>2, <2>3, <2>6, <3>1, <3>3 DEF NewerInHand
    <3> QED BY <2>1, <3>2, <3>3
  <2>7. ASSUME NEW g \in Firings, NEW i \in DOMAIN rows', pc'[g] = "add",
               rows'[i].source = "taken", worker'[rows'[i].firing] = worker'[g]
        PROVE  rows'[i].argument < hand'[g]
    <3>1. g # f /\ pc[g] = "add"
      BY <1>1, <2>2, <2>7
    <3>2. CASE i \in DOMAIN rows
      BY <2>1, <2>2, <2>7, <3>1, <3>2 DEF NewerInHand
    <3>3. CASE i = new
      <4>1. pc[f] = "add" /\ worker[f] = worker[g]
        BY <2>1, <2>2, <2>3, <2>7, <3>3
      <4> QED BY <3>1, <4>1, OneInBlock DEF Locked
    <3> QED BY <2>1, <3>2, <3>3
  <2> QED BY <2>6, <2>7 DEF WorkerGetsArgumentsInOrder, NewerInHand
<1> QED BY <1>2, <1>3, RowStep

-----------------------------------------------------------------------------
LEMMA InvHolds == Spec => []Inv
<1>1. ASSUME Init PROVE Inv
  BY <1>1 DEF Init, Inv, LockInv, HandInv, RowPerFiring, RowsOf, TakenRows,
              WorkerGetsArgumentsInOrder, NewerInHand, Locked
<1>2. ASSUME TypeOK, Inv, [Next]_vars PROVE Inv'
  <2>1. ASSUME NEW f \in Firings, Step(f) PROVE Inv'
    BY <1>2, <2>1, LockKept, HandKept, RowsKept, TakenRowsKept, OrderKept DEF Inv
  <2>2. ASSUME NEW f \in Firings, Fire(f) PROVE Inv'
    <3>1. pc[f] = "waiting" /\ pc'[f] = "choose" /\ \A g \in Firings \ {f} : pc'[g] = pc[g]
      BY <1>2, <2>2 DEF Fire, Go, TypeOK
    <3>2. UNCHANGED <<worker, holder, put, taken, hand, rows>>
      BY <2>2 DEF Fire
    <3>3. LockInv'
      BY <1>2, <3>1, <3>2 DEF Inv, LockInv, Locked
    <3>4. HandInv'
      <4>1. \A g \in Firings : /\ hand[g] \in 0..taken
                               /\ hand[g] # 0 => pc'[g] \in {"add", "ended", "failed"}
                               /\ pc'[g] = "add" => hand[g] # 0
        BY <1>2, <3>1 DEF Inv, HandInv
      <4> QED BY <1>2, <3>2, <4>1 DEF Inv, HandInv
    <3>5. \A i \in DOMAIN rows : rows[i].firing \in Firings
      <4>1. \A i \in DOMAIN rows : rows[i] \in Row
        BY <1>2 DEF TypeOK
      <4> QED BY <4>1 DEF Row
    <3>6. RowPerFiring'
      <4>1. \A g \in Firings : RowsOf(g)' = RowsOf(g)
        BY <3>2 DEF RowsOf
      <4>2. \A g \in Firings : pc'[g] = "ended" <=> pc[g] = "ended"
        BY <3>1
      <4> QED BY <1>2, <3>2, <3>5, <4>1, <4>2 DEF Inv, RowPerFiring
    <3>7. TakenRows' /\ WorkerGetsArgumentsInOrder'
      BY <1>2, <3>2 DEF Inv, TakenRows, WorkerGetsArgumentsInOrder
    <3>8. NewerInHand'
      BY <1>2, <3>1, <3>2 DEF Inv, NewerInHand
    <3> QED BY <3>3, <3>4, <3>6, <3>7, <3>8 DEF Inv
  <2>3. CASE PutArgument \/ UNCHANGED vars
    <3>1. UNCHANGED <<pc, worker, holder, taken, hand, rows>>
      BY <2>3 DEF PutArgument, vars
    <3> QED BY <1>2, <3>1 DEF Inv, LockInv, HandInv, RowPerFiring, RowsOf, TakenRows,
                              WorkerGetsArgumentsInOrder, NewerInHand
  <2> QED BY <1>2, <2>1, <2>2, <2>3 DEF Next
<1> QED BY <1>1, <1>2, TypeCorrect, PTL DEF Spec

\* A firing adds one row at most, when it ends, and one that adds none was to drop.
THEOREM OneRowEach == Spec => []RowPerFiring
<1>1. Inv => RowPerFiring
  BY DEF Inv
<1> QED BY <1>1, InvHolds, PTL

\* An argument goes to one firing and to its row.
THEOREM ArgumentsAreUsedOnce == Spec => []ArgumentUsedOnce
<1>1. Inv => ArgumentUsedOnce
  BY DEF Inv, HandInv, TakenRows, ArgumentUsedOnce
<1> QED BY <1>1, InvHolds, PTL

\* The rows of a worker have their arguments in the order of the queue.
THEOREM ArgumentsKeepTheirOrder == Spec => []WorkerGetsArgumentsInOrder
<1>1. Inv => WorkerGetsArgumentsInOrder
  BY DEF Inv
<1> QED BY <1>1, InvHolds, PTL

-----------------------------------------------------------------------------
(* The resolution of UDF strategies, for any depth.                        *)

Results == {"STATIC", "RANDOM_FROM_LIST", "RANDOM_FROM_WORKER_TAGS", "UDF", "raises"}

\* The recursive equation of Resolve holds.
LEMMA ResolveEquation ==
    /\ Resolve \in [0..(MaxDepth + 1) -> [Strategies -> Results]]
    /\ \A s \in Strategies : Resolve[MaxDepth + 1][s] = "raises"
    /\ \A depth \in 0..MaxDepth, s \in Strategies :
         Resolve[depth][s] = IF Kind[s] # "UDF" THEN Kind[s] ELSE Resolve[depth + 1][Udf[s]]
<1> DEFINE N == MaxDepth + 1
           R == [Strategies -> Results]
           none == [s \in Strategies |-> "raises"]
           one(r) == [s \in Strategies |-> IF Kind[s] # "UDF" THEN Kind[s] ELSE r[Udf[s]]]
           step == [n \in 1..N |-> [r \in R |-> one(r)]]
           Solves(h) ==
             h = [depth \in 0..N |->
                    [s \in Strategies |->
                       IF depth > MaxDepth THEN "raises"
                       ELSE IF Kind[s] # "UDF" THEN Kind[s]
                       ELSE h[depth + 1][Udf[s]]]]
<1>1. N \in Nat /\ MaxDepth \in Nat
  BY CronAssumption
<1>2. none \in R
  BY DEF Results
<1>3. \A r \in R : one(r) \in R
  BY CronAssumption DEF Results
<1>4. \A n \in 1..N, r \in R : step[n][r] = one(r)
  OBVIOUS
<1>5. \A n \in 1..N, r \in R : step[n][r] \in R
  BY <1>3, <1>4
<1> HIDE DEF step, R, none, one
<1>6. PICK g : Iterates(g, N, R, none, step)
  <2> HIDE DEF N
  <2> QED BY <1>1, <1>2, <1>5, Iteration
<1>7. g[0] = none /\ \A n \in 1..N : n - 1 \in 0..N /\ g[n] = one(g[n - 1])
  <2>1. \A n \in 1..N : n - 1 \in 0..N
    BY <1>1
  <2> QED BY <1>4, <1>6, <2>1 DEF Iterates
<1> DEFINE h == [depth \in 0..N |-> g[N - depth]]
<1>8. ASSUME NEW depth \in 0..N
      PROVE  h[depth] = [s \in Strategies |->
                           IF depth > MaxDepth THEN "raises"
                           ELSE IF Kind[s] # "UDF" THEN Kind[s]
                           ELSE h[depth + 1][Udf[s]]]
  <2>1. CASE depth = N
    <3>1. h[depth] = none /\ depth > MaxDepth
      BY <1>1, <1>7, <2>1
    <3> HIDE DEF h, N
    <3> QED BY <3>1 DEF none
  <2>2. CASE depth # N
    <3>1. /\ ~ (depth > MaxDepth) /\ depth + 1 \in 0..N
          /\ N - depth \in 1..N /\ (N - depth) - 1 = N - (depth + 1)
      BY <1>1, <2>2
    <3>2. h[depth] = one(h[depth + 1])
      BY <1>7, <3>1
    <3> HIDE DEF h, N
    <3> QED BY <3>1, <3>2 DEF one
  <2> QED BY <2>1, <2>2
<1>9. \E f : Solves(f)
  <2>1. Solves(h)
    <3>1. h = [depth \in 0..N |-> h[depth]]
      OBVIOUS
    <3> HIDE DEF h
    <3> QED BY <1>8, <3>1
  <2> HIDE DEF h, Solves
  <2> QED BY <2>1
<1>10. Solves(Resolve)
  <2>1. Resolve = CHOOSE f : Solves(f)
    BY DEF Resolve
  <2> HIDE DEF Solves
  <2> QED BY <1>9, <2>1
<1>11. \A depth \in 0..N :
         Resolve[depth] = [s \in Strategies |->
                                  IF depth > MaxDepth THEN "raises"
                                  ELSE IF Kind[s] # "UDF" THEN Kind[s]
                                  ELSE Resolve[depth + 1][Udf[s]]]
  BY <1>10
<1>12. Resolve = [depth \in 0..N |-> Resolve[depth]]
  BY <1>10
<1>13. /\ \A s \in Strategies : Resolve[MaxDepth + 1][s] = "raises"
       /\ \A depth \in 0..MaxDepth, s \in Strategies :
            Resolve[depth][s] = IF Kind[s] # "UDF" THEN Kind[s] ELSE Resolve[depth + 1][Udf[s]]
  <2>1. N \in 0..N /\ N > MaxDepth
    BY <1>1
  <2>2. \A s \in Strategies : Resolve[MaxDepth + 1][s] = "raises"
    BY <1>11, <2>1
  <2>3. ASSUME NEW depth \in 0..MaxDepth, NEW s \in Strategies
        PROVE  Resolve[depth][s] = IF Kind[s] # "UDF" THEN Kind[s] ELSE Resolve[depth + 1][Udf[s]]
    <3>1. depth \in 0..N /\ ~ (depth > MaxDepth)
      BY <1>1
    <3>2. Resolve[depth] = [t \in Strategies |->
                              IF depth > MaxDepth THEN "raises"
                              ELSE IF Kind[t] # "UDF" THEN Kind[t]
                              ELSE Resolve[depth + 1][Udf[t]]]
      BY <1>10, <3>1
    <3> QED BY <3>1, <3>2
  <2> QED BY <2>2, <2>3
<1>14. ASSUME NEW k \in 0..N PROVE Resolve[N - k] \in R
  <2> DEFINE S == {n \in 0..N : Resolve[N - n] \in R}
  <2>1. 0 \in S
    <3>1. N - 0 = N /\ N \in 0..N /\ 0 \in 0..N /\ N > MaxDepth
      BY <1>1
    <3>2. Resolve[N] = none
      BY <1>11, <3>1 DEF none
    <3> QED BY <1>2, <3>1, <3>2
  <2>2. ASSUME NEW n \in 0..N, n # N, n \in S PROVE n + 1 \in S
    <3>1. /\ n + 1 \in 0..N /\ N - (n + 1) \in 0..N /\ ~ (N - (n + 1) > MaxDepth)
          /\ (N - (n + 1)) + 1 = N - n
      BY <1>1, <2>2
    <3>2. Resolve[N - (n + 1)] = one(Resolve[N - n])
      BY <1>11, <3>1 DEF one
    <3> QED BY <1>3, <2>2, <3>1, <3>2
  <2> HIDE DEF S, N
  <2>3. \A n \in 0..N : n \in S
    BY <1>1, <2>1, <2>2, Induction
  <2> QED BY <2>3 DEF S
<1>15. Resolve \in [0..N -> R]
  <2>1. ASSUME NEW depth \in 0..N PROVE Resolve[depth] \in R
    <3>1. N - depth \in 0..N /\ N - (N - depth) = depth
      BY <1>1
    <3> QED BY <1>14, <3>1
  <2> QED BY <1>12, <2>1
<1> QED BY <1>13, <1>15 DEF R

\* The recursive equation of After holds.
LEMMA AfterEquation ==
    /\ After \in [0..MaxDepth -> [Strategies -> Strategies]]
    /\ \A s \in Strategies : After[0][s] = s
    /\ \A n \in 1..MaxDepth, s \in Strategies : After[n][s] = Udf[After[n - 1][s]]
<1> DEFINE X == [Strategies -> Strategies]
           self == [s \in Strategies |-> s]
           step == [n \in 1..MaxDepth |-> [a \in X |-> [s \in Strategies |-> Udf[a[s]]]]]
           Solves(h) == h = [n \in 0..MaxDepth |->
                               [s \in Strategies |-> IF n = 0 THEN s ELSE Udf[h[n - 1][s]]]]
<1>1. MaxDepth \in Nat /\ 0 \in 0..MaxDepth
  BY CronAssumption
<1>2. self \in X
  OBVIOUS
<1>3. \A n \in 1..MaxDepth, a \in X : step[n][a] = [s \in Strategies |-> Udf[a[s]]]
  OBVIOUS
<1>4. \A n \in 1..MaxDepth, a \in X : step[n][a] \in X
  BY <1>3, CronAssumption
<1> HIDE DEF step, X, self
<1>5. PICK g : Iterates(g, MaxDepth, X, self, step)
  BY <1>1, <1>2, <1>4, Iteration
<1>6. \A n \in 0..MaxDepth : n # 0 => n \in 1..MaxDepth /\ n - 1 \in 0..MaxDepth
  BY <1>1
<1>7. ASSUME NEW n \in 0..MaxDepth
      PROVE  g[n] = [s \in Strategies |-> IF n = 0 THEN s ELSE Udf[g[n - 1][s]]]
  <2>1. CASE n = 0
    BY <1>1, <1>5, <2>1 DEF self, Iterates
  <2>2. CASE n # 0
    <3>1. g[n] = step[n][g[n - 1]] /\ g[n - 1] \in X
      BY <1>5, <1>6, <2>2 DEF Iterates
    <3> QED BY <1>3, <1>6, <2>2, <3>1
  <2> QED BY <2>1, <2>2
<1>8. Solves(g)
  <2>1. g = [n \in 0..MaxDepth |-> g[n]]
    BY <1>5 DEF Iterates
  <2> QED BY <1>7, <2>1
<1>9. Solves(After)
  <2>1. After = CHOOSE f : Solves(f)
    BY DEF After
  <2> HIDE DEF Solves
  <2> QED BY <1>8, <2>1
<1>10. ASSUME NEW n \in 0..MaxDepth
       PROVE  After[n] = [s \in Strategies |-> IF n = 0 THEN s ELSE Udf[After[n - 1][s]]]
  BY <1>9
<1>11. After = [n \in 0..MaxDepth |-> After[n]]
  BY <1>9
<1> DEFINE S == {n \in 0..MaxDepth : After[n] \in X}
<1>12. 0 \in S
  BY <1>1, <1>10 DEF X
<1>13. ASSUME NEW n \in 0..MaxDepth, n # MaxDepth, n \in S PROVE n + 1 \in S
  <2>1. n + 1 \in 0..MaxDepth /\ n + 1 # 0 /\ (n + 1) - 1 = n
    BY <1>1, <1>13
  <2>2. After[n + 1] = [s \in Strategies |-> Udf[After[n][s]]]
    BY <1>10, <2>1
  <2> QED BY <1>13, <2>1, <2>2, CronAssumption DEF X
<1>14. \A n \in 0..MaxDepth : After[n] \in X
  <2> HIDE DEF S
  <2>1. \A n \in 0..MaxDepth : n \in S
    BY <1>1, <1>12, <1>13, Induction
  <2> QED BY <2>1 DEF S
<1>15. After \in [0..MaxDepth -> X]
  BY <1>11, <1>14
<1>16. \A s \in Strategies : After[0][s] = s
  BY <1>1, <1>10
<1>17. ASSUME NEW n \in 1..MaxDepth, NEW s \in Strategies
       PROVE  After[n][s] = Udf[After[n - 1][s]]
  <2>1. n \in 0..MaxDepth /\ n # 0
    BY <1>1
  <2>2. After[n] = [t \in Strategies |-> IF n = 0 THEN t ELSE Udf[After[n - 1][t]]]
    BY <1>9, <2>1
  <2> QED BY <2>1, <2>2
<1> QED BY <1>15, <1>16, <1>17 DEF X

\* The first call of a UDF may be taken from the chain as well as the last.
LEMMA AfterFirst ==
    ASSUME NEW n \in 0..MaxDepth, n # MaxDepth, NEW s \in Strategies
    PROVE  After[n + 1][s] = After[n][Udf[s]]
<1> DEFINE S == {k \in 0..MaxDepth : k # MaxDepth =>
                   \A t \in Strategies : After[k + 1][t] = After[k][Udf[t]]}
<1>1. MaxDepth \in Nat /\ 0 \in 0..MaxDepth
  BY CronAssumption
<1>2. 0 \in S
  <2>1. ASSUME 0 # MaxDepth, NEW t \in Strategies PROVE After[0 + 1][t] = After[0][Udf[t]]
    <3>1. 0 + 1 \in 1..MaxDepth /\ (0 + 1) - 1 = 0 /\ Udf[t] \in Strategies
      BY <1>1, <2>1, CronAssumption
    <3> QED BY <3>1, AfterEquation
  <2> QED BY <1>1, <2>1
<1>3. ASSUME NEW k \in 0..MaxDepth, k # MaxDepth, k \in S PROVE k + 1 \in S
  <2>1. k + 1 \in 0..MaxDepth
    BY <1>1, <1>3
  <2>2. ASSUME k + 1 # MaxDepth, NEW t \in Strategies
        PROVE  After[(k + 1) + 1][t] = After[k + 1][Udf[t]]
    <3>1. /\ (k + 1) + 1 \in 1..MaxDepth /\ ((k + 1) + 1) - 1 = k + 1
          /\ k + 1 \in 1..MaxDepth /\ (k + 1) - 1 = k /\ Udf[t] \in Strategies
      BY <1>1, <1>3, <2>2, CronAssumption
    <3>2. After[(k + 1) + 1][t] = Udf[After[k + 1][t]]
      BY <3>1, AfterEquation
    <3>3. After[k + 1][t] = After[k][Udf[t]]
      BY <1>3
    <3>4. After[k + 1][Udf[t]] = Udf[After[k][Udf[t]]]
      BY <3>1, AfterEquation
    <3> QED BY <3>2, <3>3, <3>4
  <2> QED BY <2>1, <2>2
<1>4. n \in S
  <2> HIDE DEF S
  <2> QED BY <1>1, <1>2, <1>3, Induction
<1> QED BY <1>4

\* The recursion raises exactly when no strategy that is not a UDF comes in time.
LEMMA ResolveIsExact ==
    ASSUME NEW s \in Strategies
    PROVE  Resolve[0][s] # "raises" <=> Resolvable(s)
<1> DEFINE In(k, t) == \E n \in 0..MaxDepth : n <= k /\ Kind[After[n][t]] # "UDF"
           S == {k \in 0..MaxDepth : \A t \in Strategies :
                   Resolve[MaxDepth - k][t] # "raises" <=> In(k, t)}
<1>1. MaxDepth \in Nat /\ 0 \in 0..MaxDepth
  BY CronAssumption
<1>2. \A t \in Strategies : Kind[t] # "raises" /\ Udf[t] \in Strategies
  BY CronAssumption
<1>3. 0 \in S
  <2>1. ASSUME NEW t \in Strategies PROVE Resolve[MaxDepth - 0][t] # "raises" <=> In(0, t)
    <3>1. /\ MaxDepth - 0 = MaxDepth /\ MaxDepth \in 0..MaxDepth
          /\ \A n \in 0..MaxDepth : n <= 0 => n = 0
      BY <1>1
    <3>2. In(0, t) <=> Kind[t] # "UDF"
      BY <1>1, <3>1, AfterEquation
    <3>3. Resolve[MaxDepth][t] = IF Kind[t] # "UDF" THEN Kind[t] ELSE "raises"
      BY <1>2, <3>1, ResolveEquation
    <3> QED BY <1>2, <3>1, <3>2, <3>3
  <2> QED BY <1>1, <2>1
<1>4. ASSUME NEW k \in 0..MaxDepth, k # MaxDepth, k \in S PROVE k + 1 \in S
  <2>1. /\ k + 1 \in 0..MaxDepth /\ MaxDepth - (k + 1) \in 0..MaxDepth
        /\ (MaxDepth - (k + 1)) + 1 = MaxDepth - k
    BY <1>1, <1>4
  <2>2. ASSUME NEW t \in Strategies
        PROVE  Resolve[MaxDepth - (k + 1)][t] # "raises" <=> In(k + 1, t)
    <3>1. Resolve[MaxDepth - (k + 1)][t]
            = IF Kind[t] # "UDF" THEN Kind[t] ELSE Resolve[MaxDepth - k][Udf[t]]
      BY <2>1, ResolveEquation
    <3>2. CASE Kind[t] # "UDF"
      <4>1. 0 <= k + 1 /\ Kind[After[0][t]] # "UDF"
        BY <1>1, <1>4, <3>2, AfterEquation
      <4>2. In(k + 1, t)
        BY <1>1, <4>1
      <4> QED BY <1>2, <3>1, <3>2, <4>2
    <3>3. CASE Kind[t] = "UDF"
      <4>1. Resolve[MaxDepth - k][Udf[t]] # "raises" <=> In(k, Udf[t])
        BY <1>2, <1>4
      <4>2. ASSUME In(k, Udf[t]) PROVE In(k + 1, t)
        <5>1. PICK n \in 0..MaxDepth : n <= k /\ Kind[After[n][Udf[t]]] # "UDF"
          BY <4>2
        <5>2. n # MaxDepth /\ n + 1 \in 0..MaxDepth /\ n + 1 <= k + 1
          BY <1>1, <1>4, <5>1
        <5>3. After[n + 1][t] = After[n][Udf[t]]
          BY <5>2, AfterFirst
        <5> QED BY <5>1, <5>2, <5>3
      <4>3. ASSUME In(k + 1, t) PROVE In(k, Udf[t])
        <5>1. PICK n \in 0..MaxDepth : n <= k + 1 /\ Kind[After[n][t]] # "UDF"
          BY <4>3
        <5>2. n # 0
          BY <3>3, <5>1, AfterEquation
        <5>3. n - 1 \in 0..MaxDepth /\ n - 1 # MaxDepth /\ n - 1 <= k /\ (n - 1) + 1 = n
          BY <1>1, <1>4, <5>1, <5>2
        <5>4. After[(n - 1) + 1][t] = After[n - 1][Udf[t]]
          BY <5>3, AfterFirst
        <5> QED BY <5>1, <5>3, <5>4
      <4> QED BY <3>1, <3>3, <4>1, <4>2, <4>3
    <3> QED BY <3>2, <3>3
  <2> HIDE DEF In
  <2> QED BY <2>1, <2>2
<1>5. MaxDepth \in S
  <2>1. MaxDepth \in 0..MaxDepth
    BY <1>1
  <2> HIDE DEF S
  <2> QED BY <1>1, <1>3, <1>4, <2>1, Induction
<1>6. Resolve[0][s] # "raises" <=> In(MaxDepth, s)
  <2>1. MaxDepth - MaxDepth = 0
    BY <1>1
  <2> QED BY <1>5, <2>1
<1>7. In(MaxDepth, s) <=> Resolvable(s)
  BY <1>1 DEF Resolvable
<1> QED BY <1>6, <1>7

\* A worker was chosen after a resolution that did not raise; a firing that failed
\* without one has another reason, or the resolution is it.
ChoiceInv ==
    \A f \in Firings :
      /\ worker[f] # Nobody => ResolvedChoice(f) # "raises"
      /\ pc[f] \in {"lock"} \cup Locked => worker[f] # Nobody
      /\ pc[f] = "failed" /\ worker[f] = Nobody /\ Candidates[f] # {} /\ f \notin MayFail
           => ResolvedChoice(f) = "raises"

LEMMA ChoiceKept == TypeOK /\ ChoiceInv /\ [Next]_vars => ChoiceInv'
<1> SUFFICES ASSUME TypeOK, ChoiceInv, [Next]_vars PROVE ChoiceInv'
  OBVIOUS
<1>1. ASSUME UNCHANGED <<pc, worker>> PROVE ChoiceInv'
  BY <1>1 DEF ChoiceInv, ResolvedChoice
<1>2. ASSUME NEW f \in Firings, NEW to \in Places, pc' = [pc EXCEPT ![f] = to],
             worker' = worker,
             to \in {"lock"} \cup Locked => worker[f] # Nobody,
             to = "failed" => \/ worker[f] # Nobody
                              \/ Candidates[f] = {} \/ f \in MayFail
                              \/ ResolvedChoice(f) = "raises"
      PROVE  ChoiceInv'
  <2>1. \A g \in Firings : pc'[g] = IF g = f THEN to ELSE pc[g]
    BY <1>2 DEF TypeOK
  <2> QED BY <1>2, <2>1 DEF ChoiceInv, ResolvedChoice
<1>3. ASSUME NEW f \in Firings, ChooseWorker(f) PROVE ChoiceInv'
  <2>1. PICK w \in Candidates[f] : worker' = [worker EXCEPT ![f] = w]
    BY <1>3 DEF ChooseWorker
  <2>2. w # Nobody
    BY <2>1, CronAssumption
  <2>3. /\ pc' = [pc EXCEPT ![f] = "lock"]
        /\ ResolvedChoice(f) # "raises"
    BY <1>3 DEF ChooseWorker, Go
  <2>4. \A g \in Firings : /\ worker'[g] = IF g = f THEN w ELSE worker[g]
                           /\ pc'[g] = IF g = f THEN "lock" ELSE pc[g]
    BY <2>1, <2>3 DEF TypeOK
  <2> QED BY <2>2, <2>3, <2>4 DEF ChoiceInv, ResolvedChoice
<1>4. ASSUME NEW f \in Firings, Fire(f) PROVE ChoiceInv'
  <2>1. pc' = [pc EXCEPT ![f] = "choose"] /\ worker' = worker
    BY <1>4 DEF Fire, Go
  <2> QED BY <1>2, <2>1 DEF Places, Locked
<1>5. ASSUME NEW f \in Firings, Step(f), ~ChooseWorker(f) PROVE ChoiceInv'
  <2>1. CASE NoWorker(f)
    <3>1. pc' = [pc EXCEPT ![f] = "ended"] /\ worker' = worker
      BY <2>1 DEF NoWorker, Go
    <3> QED BY <1>2, <3>1 DEF Places, Locked
  <2>2. CASE ChoiceRaises(f)
    <3>1. /\ pc' = [pc EXCEPT ![f] = "failed"] /\ worker' = worker
          /\ ResolvedChoice(f) = "raises" \/ Candidates[f] = {} \/ f \in MayFail
      BY <2>2 DEF ChoiceRaises, Go
    <3> QED BY <1>2, <3>1 DEF Places, Locked
  <2>3. CASE ~NoWorker(f) /\ ~ChoiceRaises(f)
    <3>1. /\ pc[f] \in {"lock"} \cup Locked /\ worker' = worker
          /\ \E to \in Places : pc' = [pc EXCEPT ![f] = to]
      BY <1>5, <2>3 DEF Step, Lock, ResolveQueueStrategy, GenerateDrop, GenerateRow,
             LookAtQueue, GetArgument, GetRaises, AddScheduled, EndDrop, EndSkip, EndRepeat,
             LockedRaises, EndLocked, Go, Places, Locked
    <3>2. worker[f] # Nobody
      BY <3>1 DEF ChoiceInv
    <3> QED BY <1>2, <3>1, <3>2
  <2> QED BY <2>1, <2>2, <2>3
<1>6. CASE PutArgument \/ UNCHANGED vars
  BY <1>1, <1>6 DEF PutArgument, vars
<1> QED BY <1>3, <1>4, <1>5, <1>6 DEF Next

\* A worker is chosen only where MaxDepth calls of UDFs are enough, and otherwise the
\* firing fails for that reason, for any chain of strategies and any depth.
THEOREM ResolutionStopsInTime == Spec => []ResolutionIsExact
<1>1. Init => ChoiceInv
  BY DEF Init, ChoiceInv, Locked
<1>2. ChoiceInv => ResolutionIsExact
  <2> SUFFICES ASSUME ChoiceInv PROVE ResolutionIsExact
    OBVIOUS
  <2>1. \A f \in Firings : ResolvedChoice(f) # "raises" <=> Resolvable(Choice[f])
    BY ResolveIsExact, CronAssumption DEF ResolvedChoice
  <2> QED BY <2>1 DEF ChoiceInv, ResolutionIsExact
<1> QED BY <1>1, <1>2, ChoiceKept, TypeCorrect, PTL DEF Spec
=============================================================================
