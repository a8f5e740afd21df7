------------------------ MODULE StatusReportsProofs ------------------------
(***************************************************************************)
(* Proofs about StatusReports, for any schedulers, tasks and bounds, and   *)
(* for every choice of what can be converted, called and found.            *)
(***************************************************************************)
EXTENDS StatusReports, TLAPS

Stating == {"QUEUED", "RUNNING", "SUCCESS", "ERROR"}

LEMMA ReportFields ==
    ASSUME NEW r \in Report
    PROVE  /\ r # None
           /\ r.task \in Tasks \cup {None}
           /\ r.status \in Stating \cup {"NONE"}
           /\ r.task \in Tasks => r.task # None /\ r.status \in Stating
<1>1. CASE r \in TaskReport
  BY <1>1, ReportsAssumption DEF TaskReport, Stating, Report
<1>2. CASE r = Heartbeat
  BY <1>2, ReportsAssumption DEF Heartbeat, Stating, Report
<1>3. CASE r = Stopped
  BY <1>3, ReportsAssumption DEF Stopped, Stating, Report
<1> QED BY <1>1, <1>2, <1>3 DEF Report

-----------------------------------------------------------------------------
(* Types, and who has a stream.                                            *)

Streaming(s) == pc[s] \in {"recv", "read", "write"}

\* Only a scheduler in its poll has a stream; it has a report in hand from when it
\* receives it; what it writes belongs to a row; one that runs alone is the leader.
StreamInv ==
    /\ \A s \in Schedulers : sent[s] # <<>> => Streaming(s)
    /\ \A s \in Schedulers : pc[s] \in {"poll", "recv"} => hand[s] = None
    /\ \A s \in Schedulers :
         pc[s] = "write" => hand[s].task \in Rows /\ hand[s].status \in Typed
    /\ lapses = 0 => \A s \in Schedulers : Streaming(s) => leader = s

LEMMA TakeTyped ==
    ASSUME TypeOK, NEW r \in Report, Take(r)
    PROVE  /\ queued' \in SUBSET Tasks
           /\ shown' \in [Tasks -> Seq({"RUNNING", "SUCCESS", "ERROR"})]
           /\ interruptible' \in SUBSET Tasks
<1>1. CASE r.task = None
  BY <1>1 DEF Take, queueVars, TypeOK
<1>2. CASE r.task # None
  <2>1. r.task \in Tasks /\ Stream!Gives(r.task, r.status)
    BY <1>2, ReportFields DEF Take
  <2>2. CASE Stream!ShowQueued(r.task)
    BY <2>1, <2>2 DEF Stream!ShowQueued, TypeOK
  <2>3. ASSUME NEW before \in Seq({"RUNNING", "SUCCESS", "ERROR"}),
               NEW st \in {"RUNNING", "SUCCESS", "ERROR"}, Stream!Show(r.task, before, st)
        PROVE  shown' \in [Tasks -> Seq({"RUNNING", "SUCCESS", "ERROR"})]
    <3>1. Append(before, st) \in Seq({"RUNNING", "SUCCESS", "ERROR"})
      OBVIOUS
    <3> QED BY <2>1, <2>3, <3>1 DEF Stream!Show, TypeOK
  <2>4. /\ <<>> \in Seq({"RUNNING", "SUCCESS", "ERROR"})
        /\ <<"RUNNING">> \in Seq({"RUNNING", "SUCCESS", "ERROR"})
        /\ <<"RUNNING", "SUCCESS">> \in Seq({"RUNNING", "SUCCESS", "ERROR"})
    OBVIOUS
  <2>5. CASE Stream!Show(r.task, <<>>, r.status) /\ r.status = "RUNNING"
    BY <2>3, <2>4, <2>5 DEF Stream!Show, TypeOK
  <2>6. CASE Stream!Show(r.task, <<"RUNNING">>, r.status) /\ r.status \in {"SUCCESS", "ERROR"}
    BY <2>3, <2>4, <2>6 DEF Stream!Show, TypeOK
  <2>7. CASE Stream!Show(r.task, <<"RUNNING", "SUCCESS">>, r.status) /\ r.status = "ERROR"
    BY <2>3, <2>4, <2>7 DEF Stream!Show, TypeOK
  <2> QED BY <2>1, <2>2, <2>5, <2>6, <2>7 DEF Stream!Gives
<1> QED BY <1>1, <1>2

LEMMA LeaveTyped ==
    ASSUME TypeOK, StreamInv, NEW s \in Schedulers, NEW to \in {"poll", "raised", "crashed"},
           pc[s] \in {"poll", "recv", "read", "write"},
           Leave(s, to), UNCHANGED <<queueVars, row, assign, leader, lapses, handled>>
    PROVE  TypeOK' /\ StreamInv'
<1>1. /\ pc' \in [Schedulers -> {"poll", "recv", "read", "write", "raised", "crashed"}]
      /\ count' \in [Schedulers -> 0..MaxReports]
      /\ service' \in [Schedulers -> {"none", "serves", "failed"}]
      /\ orphans' \in {"yes", "no"}
  BY ReportsAssumption DEF Leave, TypeOK
<1>2. sent' \in [Schedulers -> Seq(Report)]
  <2>1. <<>> \in Seq(Report)
    OBVIOUS
  <2> QED BY <2>1 DEF Leave, TypeOK
<1>3. hand' \in [Schedulers -> Report \cup {None}]
  BY DEF Leave, TypeOK
<1>4. ASSUME NEW z \in Schedulers
      PROVE  /\ pc'[z] \in {"read", "write"} => hand'[z] # None
             /\ service'[z] # "none" => pc'[z] \in {"recv", "read", "write"}
             /\ Len(sent'[z]) <= Window
             /\ sent'[z] # <<>> => Streaming(z)'
             /\ pc'[z] \in {"poll", "recv"} => hand'[z] = None
             /\ pc'[z] = "write" => hand'[z].task \in Rows /\ hand'[z].status \in Typed
             /\ lapses' = 0 => (Streaming(z)' => leader' = z)
  <2>1. CASE z = s
    <3>1. pc'[z] = to /\ service'[z] = "none" /\ sent'[z] = <<>>
      BY <2>1 DEF Leave, TypeOK
    <3>2. hand'[z] = IF to = "raised" THEN hand[z] ELSE None
      BY <2>1 DEF Leave, TypeOK
    <3>3. Len(<<>>) = 0
      OBVIOUS
    <3> QED BY <3>1, <3>2, <3>3, ReportsAssumption DEF Streaming
  <2>2. CASE z # s
    <3>1. /\ pc'[z] = pc[z] /\ service'[z] = service[z] /\ sent'[z] = sent[z]
          /\ hand'[z] = hand[z]
      BY <2>2 DEF Leave, TypeOK
    <3> QED BY <3>1 DEF Streaming, StreamInv, TypeOK
  <2> QED BY <2>1, <2>2
<1>5. /\ queued' \in SUBSET Tasks
      /\ shown' \in [Tasks -> Seq({"RUNNING", "SUCCESS", "ERROR"})]
      /\ interruptible' \in SUBSET Tasks
      /\ row' \in [Rows -> TaskStatus]
      /\ assign' \in [Rows -> {"new", "dispatched", "done"}]
      /\ leader' \in Schedulers \cup {None}
      /\ lapses' \in 0..MaxLapses
      /\ handled' \in [Rows -> SUBSET {"QUEUED", "RUNNING", "SUCCESS", "ERROR"}]
  BY DEF TypeOK, queueVars
<1>6. TypeOK'
  BY <1>1, <1>2, <1>3, <1>4, <1>5 DEF TypeOK
<1>7. StreamInv'
  BY <1>4 DEF StreamInv
<1> QED BY <1>6, <1>7

LEMMA ServeTyped ==
    ASSUME TypeOK, StreamInv, NEW s \in Schedulers, Serve(s)
    PROVE  TypeOK' /\ StreamInv'
<1>1. PICK r \in Report :
        /\ Take(r)
        /\ \/ sent' = [sent EXCEPT ![s] = Append(@, r)] /\ service' = service
           \/ service' = [service EXCEPT ![s] = "failed"] /\ sent' = sent
  BY DEF Serve
<1>2. service[s] = "serves" /\ Len(sent[s]) < Window /\ Streaming(s)
  BY DEF Serve, TypeOK, Streaming
<1>3. /\ queued' \in SUBSET Tasks
      /\ shown' \in [Tasks -> Seq({"RUNNING", "SUCCESS", "ERROR"})]
      /\ interruptible' \in SUBSET Tasks
  BY <1>1, TakeTyped
<1>4. /\ sent[s] \in Seq(Report) /\ Len(sent[s]) \in Nat
      /\ Append(sent[s], r) \in Seq(Report)
      /\ Len(Append(sent[s], r)) = Len(sent[s]) + 1
  BY DEF TypeOK
<1>5. /\ sent' \in [Schedulers -> Seq(Report)]
      /\ \A z \in Schedulers : Len(sent'[z]) <= Window
      /\ \A z \in Schedulers : sent'[z] # <<>> => Streaming(z)
  <2>1. CASE sent' = sent
    BY <2>1 DEF TypeOK, StreamInv
  <2>2. CASE sent' = [sent EXCEPT ![s] = Append(@, r)]
    <3>1. sent' \in [Schedulers -> Seq(Report)]
      BY <2>2, <1>4 DEF TypeOK
    <3>2. \A z \in Schedulers : sent'[z] = IF z = s THEN Append(sent[s], r) ELSE sent[z]
      BY <2>2 DEF TypeOK
    <3>3. ASSUME NEW z \in Schedulers PROVE Len(sent'[z]) <= Window
      <4>1. CASE z = s
        <5>1. sent'[z] = Append(sent[s], r)
          BY <4>1, <3>2
        <5>2. Len(sent'[z]) = Len(sent[s]) + 1
          BY <5>1, <1>4
        <5> QED BY <5>2, <1>2, <1>4, ReportsAssumption
      <4>2. CASE z # s
        BY <4>2, <3>2 DEF TypeOK
      <4> QED BY <4>1, <4>2
    <3>4. ASSUME NEW z \in Schedulers, sent'[z] # <<>> PROVE Streaming(z)
      BY <3>2, <3>4, <1>2 DEF StreamInv
    <3> QED BY <3>1, <3>3, <3>4
  <2> QED BY <1>1, <2>1, <2>2
<1>6. /\ service' \in [Schedulers -> {"none", "serves", "failed"}]
      /\ \A z \in Schedulers : service'[z] # "none" => Streaming(z)
  BY <1>1, <1>2 DEF TypeOK, Streaming
<1>7. UNCHANGED <<row, assign, leader, lapses, pc, count, hand, orphans, handled>>
  BY DEF Serve
<1>8. TypeOK'
  BY <1>3, <1>5, <1>6, <1>7 DEF TypeOK, Streaming
<1>9. StreamInv'
  BY <1>5, <1>7 DEF StreamInv, Streaming
<1> QED BY <1>8, <1>9

LEMMA ReceiveTyped ==
    ASSUME TypeOK, StreamInv, NEW s \in Schedulers, Receive(s)
    PROVE  TypeOK' /\ StreamInv'
<1>1. /\ sent[s] \in Seq(Report) /\ sent[s] # <<>>
      /\ Head(sent[s]) \in Report /\ Tail(sent[s]) \in Seq(Report)
      /\ Len(Tail(sent[s])) = Len(sent[s]) - 1
      /\ Len(sent[s]) <= Window /\ Len(sent[s]) \in Nat
  BY DEF Receive, TypeOK
<1>2. Head(sent[s]) # None
  BY <1>1, ReportFields
<1>3. handled' \in [Rows -> SUBSET {"QUEUED", "RUNNING", "SUCCESS", "ERROR"}]
  <2>1. \A t \in Rows : t = Head(sent[s]).task => Head(sent[s]).status \in Stating
    BY <1>1, ReportFields DEF Rows
  <2> QED BY <2>1 DEF Receive, TypeOK, Stating
<1>4. /\ sent' \in [Schedulers -> Seq(Report)]
      /\ \A z \in Schedulers : Len(sent'[z]) <= Window
      /\ \A z \in Schedulers : z # s => sent'[z] = sent[z]
  BY <1>1, ReportsAssumption DEF Receive, TypeOK
<1>5. /\ hand' = [hand EXCEPT ![s] = Head(sent[s])]
      /\ hand' \in [Schedulers -> Report \cup {None}]
  BY <1>1 DEF Receive, TypeOK
<1>6. /\ pc' = [pc EXCEPT ![s] = "read"] /\ pc[s] = "recv"
      /\ pc' \in [Schedulers -> {"poll", "recv", "read", "write", "raised", "crashed"}]
  BY DEF Receive, TypeOK
<1>7. count' \in [Schedulers -> 0..MaxReports]
  BY ReportsAssumption DEF Receive, TypeOK
<1>8. UNCHANGED <<queueVars, row, assign, leader, lapses, service, orphans>>
  BY DEF Receive
<1>9. TypeOK'
  BY <1>2, <1>3, <1>4, <1>5, <1>6, <1>7, <1>8 DEF TypeOK, queueVars
<1>10. StreamInv'
  BY <1>2, <1>4, <1>5, <1>6, <1>8 DEF TypeOK, StreamInv, Streaming
<1> QED BY <1>9, <1>10

LEMMA RunTyped ==
    ASSUME TypeOK, StreamInv, NEW s \in Schedulers, Run(s)
    PROVE  TypeOK' /\ StreamInv'
<1>1. CASE Elect(s)
  <2>1. TypeOK'
    BY <1>1 DEF Elect, TypeOK, queueVars, streamVars
  <2>2. lapses = 0 => \A z \in Schedulers : ~Streaming(z)
    BY <1>1, ReportsAssumption DEF Elect, StreamInv
  <2>3. StreamInv'
    BY <1>1, <2>2 DEF Elect, StreamInv, Streaming, streamVars
  <2> QED BY <2>1, <2>3
<1>2. CASE Poll(s)
  <2>1. /\ pc[s] = "poll" /\ leader = s /\ service[s] = "none" /\ hand[s] = None
        /\ \/ /\ pc' = [pc EXCEPT ![s] = "recv"]
              /\ service' = [service EXCEPT ![s] = "serves"]
           \/ pc' = [pc EXCEPT ![s] = "raised"] /\ service' = service
    BY <1>2 DEF Poll, TypeOK, StreamInv
  <2>2. UNCHANGED <<queueVars, row, assign, leader, lapses, count, sent, hand, orphans,
                    handled>>
    BY <1>2 DEF Poll
  <2>3. /\ pc' \in [Schedulers -> {"poll", "recv", "read", "write", "raised", "crashed"}]
        /\ service' \in [Schedulers -> {"none", "serves", "failed"}]
        /\ \A z \in Schedulers \ {s} : pc'[z] = pc[z] /\ service'[z] = service[z]
    BY <2>1 DEF TypeOK
  <2>4. TypeOK'
    <3>1. ASSUME NEW z \in Schedulers
          PROVE  /\ pc'[z] \in {"read", "write"} => hand'[z] # None
                 /\ service'[z] # "none" => pc'[z] \in {"recv", "read", "write"}
                 /\ Len(sent'[z]) <= Window
      <4>1. CASE z = s
        <5>1. \/ pc'[s] = "recv"
              \/ pc'[s] = "raised" /\ service'[s] = "none"
          BY <2>1 DEF TypeOK
        <5> QED BY <4>1, <5>1, <2>2 DEF TypeOK
      <4>2. CASE z # s
        BY <4>2, <2>2, <2>3 DEF TypeOK
      <4> QED BY <4>1, <4>2
    <3> QED BY <3>1, <2>2, <2>3 DEF TypeOK, queueVars
  <2>5. sent[s] = <<>>
    BY <2>1 DEF StreamInv, Streaming
  <2>6. StreamInv'
    <3>1. ASSUME NEW z \in Schedulers
          PROVE  /\ sent'[z] # <<>> => Streaming(z)'
                 /\ pc'[z] \in {"poll", "recv"} => hand'[z] = None
                 /\ pc'[z] = "write" => hand'[z].task \in Rows /\ hand'[z].status \in Typed
                 /\ lapses' = 0 => (Streaming(z)' => leader' = z)
      <4>1. CASE z = s
        <5>1. pc'[s] \in {"recv", "raised"}
          BY <2>1 DEF TypeOK
        <5> QED BY <4>1, <5>1, <2>1, <2>2, <2>5
      <4>2. CASE z # s
        BY <4>2, <2>2, <2>3 DEF StreamInv, Streaming
      <4> QED BY <4>1, <4>2
    <3> QED BY <3>1 DEF StreamInv
  <2> QED BY <2>4, <2>6
<1>3. CASE Receive(s)
  BY <1>3, ReceiveTyped
<1>4. CASE BreakOff(s)
  BY <1>4, LeaveTyped DEF BreakOff
<1>5. CASE EndStream(s)
  BY <1>5, LeaveTyped DEF EndStream
<1>6. CASE ReadRow(s)
  BY <1>6 DEF ReadRow, Ignored, Refused, TypeOK, StreamInv, Streaming, queueVars, streamVars
<1>7. CASE Ignore(s)
  BY <1>7 DEF Ignore, TypeOK, StreamInv, Streaming, queueVars
<1>8. CASE ProcessRaises(s)
  BY <1>8, LeaveTyped DEF ProcessRaises
<1>9. CASE WriteRow(s)
  <2>1. hand[s].status \in TaskStatus
    BY <1>9, ReportsAssumption DEF WriteRow, StreamInv, TaskStatus
  <2>2. row' \in [Rows -> TaskStatus]
    BY <1>9, <2>1 DEF WriteRow, TypeOK
  <2> QED BY <1>9, <2>2 DEF WriteRow, TypeOK, StreamInv, Streaming, queueVars
<1> QED BY <1>1, <1>2, <1>3, <1>4, <1>5, <1>6, <1>7, <1>8, <1>9 DEF Run

LEMMA NextTyped ==
    ASSUME TypeOK, StreamInv, [Next]_vars
    PROVE  TypeOK' /\ StreamInv'
<1>1. ASSUME NEW t \in Rows, AssignTask(t) PROVE TypeOK' /\ StreamInv'
  BY <1>1 DEF AssignTask, TypeOK, StreamInv, Streaming, queueVars, streamVars
<1>2. ASSUME NEW t \in Rows, UpdateTask(t) PROVE TypeOK' /\ StreamInv'
  BY <1>2 DEF UpdateTask, TypeOK, StreamInv, Streaming, queueVars, streamVars, TaskStatus
<1>3. ASSUME NEW s \in Schedulers, Serve(s) PROVE TypeOK' /\ StreamInv'
  BY <1>3, ServeTyped
<1>4. ASSUME NEW s \in Schedulers, Crash(s) PROVE TypeOK' /\ StreamInv'
  BY <1>4, LeaveTyped DEF Crash
<1>5. ASSUME NEW s \in Schedulers, Run(s) PROVE TypeOK' /\ StreamInv'
  BY <1>5, RunTyped
<1>6. CASE ServeOrphan
  <2>1. /\ queued' \in SUBSET Tasks
        /\ shown' \in [Tasks -> Seq({"RUNNING", "SUCCESS", "ERROR"})]
        /\ interruptible' \in SUBSET Tasks
    <3>1. CASE queueVars' = queueVars
      BY <3>1 DEF queueVars, TypeOK
    <3>2. ASSUME NEW r \in TaskReport, Take(r)
          PROVE  /\ queued' \in SUBSET Tasks
                 /\ shown' \in [Tasks -> Seq({"RUNNING", "SUCCESS", "ERROR"})]
                 /\ interruptible' \in SUBSET Tasks
      BY <3>2, TakeTyped DEF Report
    <3> QED BY <1>6, <3>1, <3>2 DEF ServeOrphan
  <2>2. orphans' \in {"yes", "no"}
    BY <1>6 DEF ServeOrphan, TypeOK
  <2>3. UNCHANGED <<row, assign, leader, lapses, pc, count, service, sent, hand, handled>>
    BY <1>6 DEF ServeOrphan
  <2> QED BY <2>1, <2>2, <2>3 DEF TypeOK, StreamInv, Streaming
<1>7. CASE Depart
  BY <1>7, ReportsAssumption DEF Depart, TypeOK, StreamInv, Streaming, queueVars, streamVars
<1>8. CASE Lapse
  BY <1>8, ReportsAssumption DEF Lapse, TypeOK, StreamInv, Streaming, queueVars, streamVars
<1>9. CASE UNCHANGED vars
  BY <1>9 DEF vars, TypeOK, StreamInv, Streaming, queueVars, streamVars
<1> QED BY <1>1, <1>2, <1>3, <1>4, <1>5, <1>6, <1>7, <1>8, <1>9 DEF Next

LEMMA TypeAndStream == Spec => [](TypeOK /\ StreamInv)
<1>1. Init => TypeOK /\ StreamInv
  BY ReportsAssumption DEF Init, TypeOK, StreamInv, Streaming, TaskStatus
<1>2. TypeOK /\ StreamInv /\ [Next]_vars => TypeOK' /\ StreamInv'
  BY NextTyped
<1> QED BY <1>1, <1>2, PTL DEF Spec

\* Every variable keeps its type, and a stream is served to a scheduler in its poll only.
THEOREM TypeCorrect == Spec => []TypeOK
BY TypeAndStream, PTL

-----------------------------------------------------------------------------
(* The order of a task's statuses while there is one leader.               *)

\* What the manager has given of a task.
Given(t) == {shown[t][i] : i \in DOMAIN shown[t]} \cup {x \in {"QUEUED"} : t \in queued}

\* A status may come after all those of a set.
Follows(before, st) ==
    /\ st \notin before
    /\ st = "RUNNING" => before \subseteq {"QUEUED"}
    /\ st = "SUCCESS" => "ERROR" \notin before

HandledGiven == \A t \in Rows : handled[t] \subseteq Given(t)

OnTheWay(s) ==
    \A i \in 1..Len(sent[s]) :
        sent[s][i].task \in Rows
        => /\ sent[s][i].status \in Given(sent[s][i].task)
           /\ Follows(handled[sent[s][i].task], sent[s][i].status)

SentInOrder(s) ==
    \A i, j \in 1..Len(sent[s]) :
        i < j /\ sent[s][i].task \in Rows /\ sent[s][i].task = sent[s][j].task
        => Follows({sent[s][i].status}, sent[s][j].status)

FinalHandled == \A t \in Rows : row[t] \in Final => row[t] \in handled[t]

\* The report in hand was handled, nothing came after a RUNNING in hand, and a
\* status that is not final is written to no row with a final one.
HandInv(s) ==
    pc[s] \in {"read", "write"} /\ hand[s].task \in Rows
    => /\ hand[s].status \in handled[hand[s].task]
       /\ hand[s].status = "RUNNING" => handled[hand[s].task] \subseteq {"QUEUED", "RUNNING"}
       /\ pc[s] = "write" /\ hand[s].status \notin Final => row[hand[s].task] \notin Final

OrderInv ==
    lapses = 0
    => /\ HandledGiven
       /\ \A s \in Schedulers : OnTheWay(s) /\ SentInOrder(s)
       /\ FinalHandled
       /\ \A s \in Schedulers : HandInv(s)

LEMMA FollowsFewer ==
    ASSUME NEW before, NEW fewer \in SUBSET before, NEW st, Follows(before, st)
    PROVE  Follows(fewer, st)
BY DEF Follows

\* The manager gives a status after those it has given.
LEMMA GivesFollowing ==
    ASSUME TypeOK, NEW t \in Tasks, NEW st, Stream!Gives(t, st)
    PROVE  /\ Follows(Given(t), st)
           /\ st \in Given(t)'
           /\ \A u \in Tasks : Given(u) \subseteq Given(u)'
<1>1. CASE st = "QUEUED" /\ Stream!ShowQueued(t)
  <2>1. \A u \in Tasks : \A i \in DOMAIN shown[u] : shown[u][i] # "QUEUED"
    <3>1. ASSUME NEW u \in Tasks, NEW i \in DOMAIN shown[u] PROVE shown[u][i] # "QUEUED"
      <4>1. shown[u] \in Seq({"RUNNING", "SUCCESS", "ERROR"})
        BY DEF TypeOK
      <4>2. shown[u][i] \in {"RUNNING", "SUCCESS", "ERROR"}
        BY <4>1
      <4> QED BY <4>2
    <3> QED BY <3>1
  <2> QED BY <1>1, <2>1 DEF Stream!ShowQueued, Given, Follows
<1>2. ASSUME NEW before \in Seq({"RUNNING", "SUCCESS", "ERROR"}), Stream!Show(t, before, st)
      PROVE  /\ st \in Given(t)'
             /\ \A u \in Tasks : Given(u) \subseteq Given(u)'
  <2>1. /\ shown[t] = before /\ queued' = queued
        /\ shown' = [shown EXCEPT ![t] = Append(before, st)]
    BY <1>2 DEF Stream!Show
  <2>2. shown'[t] = Append(before, st)
    BY <2>1 DEF TypeOK
  <2>3. /\ Len(Append(before, st)) = Len(before) + 1
        /\ Append(before, st)[Len(before) + 1] = st
        /\ DOMAIN Append(before, st) = 1..(Len(before) + 1)
        /\ DOMAIN before = 1..Len(before) /\ Len(before) \in Nat
        /\ \A i \in 1..Len(before) : Append(before, st)[i] = before[i]
    OBVIOUS
  <2>4. st \in Given(t)'
    BY <2>2, <2>3 DEF Given
  <2>5. ASSUME NEW u \in Tasks, NEW x \in Given(u) PROVE x \in Given(u)'
    <3>1. CASE u # t
      <4>1. shown'[u] = shown[u]
        BY <2>1, <3>1 DEF TypeOK
      <4> QED BY <2>1, <2>5, <4>1 DEF Given
    <3>2. CASE u = t
      <4>1. CASE x \in {y \in {"QUEUED"} : u \in queued}
        BY <2>1, <4>1 DEF Given
      <4>2. ASSUME NEW i \in DOMAIN shown[u], x = shown[u][i] PROVE x \in Given(u)'
        <5>1. i \in DOMAIN shown'[t] /\ shown'[t][i] = x
          BY <2>1, <2>2, <2>3, <3>2, <4>2
        <5> QED BY <3>2, <5>1 DEF Given
      <4> QED BY <2>5, <4>1, <4>2 DEF Given
    <3> QED BY <3>1, <3>2
  <2> QED BY <2>4, <2>5
<1>3. /\ <<>> \in Seq({"RUNNING", "SUCCESS", "ERROR"})
      /\ <<"RUNNING">> \in Seq({"RUNNING", "SUCCESS", "ERROR"})
      /\ <<"RUNNING", "SUCCESS">> \in Seq({"RUNNING", "SUCCESS", "ERROR"})
  OBVIOUS
<1>4. CASE st = "RUNNING" /\ Stream!Show(t, <<>>, st)
  <2>1. Given(t) \subseteq {"QUEUED"}
    BY <1>4 DEF Stream!Show, Given
  <2> QED BY <1>2, <1>3, <1>4, <2>1 DEF Follows
<1>5. CASE st \in {"SUCCESS", "ERROR"} /\ Stream!Show(t, <<"RUNNING">>, st)
  <2>1. Given(t) \subseteq {"QUEUED", "RUNNING"}
    BY <1>5 DEF Stream!Show, Given
  <2> QED BY <1>2, <1>3, <1>5, <2>1 DEF Follows
<1>6. CASE st = "ERROR" /\ Stream!Show(t, <<"RUNNING", "SUCCESS">>, st)
  <2>1. Given(t) \subseteq {"QUEUED", "RUNNING", "SUCCESS"}
    BY <1>6 DEF Stream!Show, Given
  <2> QED BY <1>2, <1>3, <1>6, <2>1 DEF Follows
<1> QED BY <1>1, <1>4, <1>5, <1>6 DEF Stream!Gives

LEMMA TakeFollowing ==
    ASSUME TypeOK, NEW r \in Report, Take(r)
    PROVE  /\ \A u \in Tasks : Given(u) \subseteq Given(u)'
           /\ r.task \in Tasks => r.status \in Given(r.task)' /\ Follows(Given(r.task), r.status)
<1>1. CASE r.task = None
  BY <1>1, ReportsAssumption DEF Take, queueVars, Given
<1>2. CASE r.task # None
  <2>1. r.task \in Tasks /\ Stream!Gives(r.task, r.status)
    BY <1>2, ReportFields DEF Take
  <2> QED BY <2>1, GivesFollowing
<1> QED BY <1>1, <1>2

\* Streams that are as they were, or were left, stay in order while the manager gives
\* more and nothing is handled.
LEMMA OrderKept ==
    ASSUME OrderInv, lapses = 0, UNCHANGED handled,
           \A u \in Tasks : Given(u) \subseteq Given(u)',
           \A s \in Schedulers : sent'[s] = sent[s] \/ sent'[s] = <<>>
    PROVE  HandledGiven' /\ (\A s \in Schedulers : OnTheWay(s)' /\ SentInOrder(s)')
<1>1. HandledGiven'
  BY DEF OrderInv, HandledGiven, Rows
<1>2. ASSUME NEW s \in Schedulers PROVE OnTheWay(s)' /\ SentInOrder(s)'
  <2>1. CASE sent'[s] = <<>>
    BY <2>1 DEF OnTheWay, SentInOrder
  <2>2. CASE sent'[s] = sent[s]
    <3>1. OnTheWay(s) /\ SentInOrder(s)
      BY DEF OrderInv
    <3> QED BY <2>2, <3>1 DEF OnTheWay, SentInOrder, Rows
  <2> QED BY <2>1, <2>2
<1> QED BY <1>1, <1>2

\* Rows that no one writes stay right for those who have a report in hand.
LEMMA HandsKept ==
    ASSUME OrderInv, lapses = 0, UNCHANGED <<handled, row>>,
           \A s \in Schedulers : \/ pc'[s] \notin {"read", "write"}
                                 \/ pc'[s] = pc[s] /\ hand'[s] = hand[s]
    PROVE  FinalHandled' /\ (\A s \in Schedulers : HandInv(s)')
BY DEF OrderInv, FinalHandled, HandInv

LEMMA ServeOrdered ==
    ASSUME TypeOK, StreamInv, OrderInv, lapses = 0, NEW s \in Schedulers, Serve(s)
    PROVE  OrderInv'
<1>1. PICK r \in Report :
        /\ Take(r)
        /\ \/ sent' = [sent EXCEPT ![s] = Append(@, r)]
           \/ sent' = sent
  BY DEF Serve
<1>2. UNCHANGED <<row, lapses, pc, hand, handled>>
  BY DEF Serve
<1>3. FinalHandled' /\ (\A z \in Schedulers : HandInv(z)')
  BY <1>2, HandsKept
<1>4. CASE sent' = sent
  BY <1>1, <1>2, <1>3, <1>4, OrderKept, TakeFollowing DEF OrderInv
<1>5. CASE sent' = [sent EXCEPT ![s] = Append(@, r)]
  <2>1. /\ \A u \in Tasks : Given(u) \subseteq Given(u)'
        /\ r.task \in Tasks => r.status \in Given(r.task)' /\ Follows(Given(r.task), r.status)
    BY <1>1, TakeFollowing
  <2>2. HandledGiven'
    BY <1>2, <2>1 DEF OrderInv, HandledGiven, Rows
  <2>3. ASSUME NEW z \in Schedulers, z # s PROVE OnTheWay(z)' /\ SentInOrder(z)'
    <3>1. sent'[z] = sent[z] /\ OnTheWay(z) /\ SentInOrder(z)
      BY <1>5, <2>3 DEF OrderInv, TypeOK
    <3> QED BY <1>2, <2>1, <3>1 DEF OnTheWay, SentInOrder, Rows
  <2>4. /\ sent[s] \in Seq(Report) /\ sent'[s] = Append(sent[s], r)
        /\ OnTheWay(s) /\ SentInOrder(s) /\ HandledGiven
    BY <1>5 DEF OrderInv, TypeOK
  <2>5. /\ Len(sent[s]) \in Nat /\ Len(sent'[s]) = Len(sent[s]) + 1
        /\ \A i \in 1..Len(sent[s]) : sent'[s][i] = sent[s][i]
        /\ sent'[s][Len(sent[s]) + 1] = r
    BY <2>4
  <2>6. ASSUME NEW i \in 1..Len(sent'[s]), NEW u \in Rows, sent'[s][i].task = u
        PROVE  /\ sent'[s][i].status \in Given(u)'
               /\ Follows(handled'[u], sent'[s][i].status)
    <3>1. CASE i \in 1..Len(sent[s])
      <4>1. sent'[s][i] = sent[s][i] /\ sent[s][i].task = u
        BY <2>5, <2>6, <3>1
      <4>2. /\ sent[s][i].status \in Given(u)
            /\ Follows(handled[u], sent[s][i].status)
        BY <2>4, <3>1, <4>1 DEF OnTheWay
      <4> QED BY <1>2, <2>1, <4>1, <4>2 DEF Rows
    <3>2. CASE i = Len(sent[s]) + 1
      <4>1. sent'[s][i] = r /\ r.task = u
        BY <2>5, <2>6, <3>2
      <4>2. handled[u] \subseteq Given(u)
        BY <2>4, <4>1 DEF HandledGiven
      <4>3. Follows(handled[u], r.status)
        BY <2>1, <4>1, <4>2, FollowsFewer DEF Rows
      <4> QED BY <1>2, <2>1, <4>1, <4>3 DEF Rows
    <3> QED BY <2>5, <3>1, <3>2
  <2>7. ASSUME NEW i \in 1..Len(sent'[s]), NEW j \in 1..Len(sent'[s]), i < j,
               sent'[s][i].task \in Rows, sent'[s][i].task = sent'[s][j].task
        PROVE  Follows({sent'[s][i].status}, sent'[s][j].status)
    <3>1. i \in 1..Len(sent[s]) /\ sent'[s][i] = sent[s][i]
      BY <2>5, <2>7
    <3>2. CASE j \in 1..Len(sent[s])
      <4>1. sent'[s][j] = sent[s][j]
        BY <2>5, <3>2
      <4> QED BY <2>4, <2>7, <3>1, <3>2, <4>1 DEF SentInOrder
    <3>3. CASE j = Len(sent[s]) + 1
      <4>1. sent'[s][j] = r
        BY <2>5, <3>3
      <4>2. r.task \in Rows /\ sent[s][i].task = r.task
        BY <2>7, <3>1, <4>1
      <4>3. sent[s][i].status \in Given(r.task)
        BY <2>4, <3>1, <4>2 DEF OnTheWay
      <4>4. Follows(Given(r.task), r.status)
        BY <2>1, <4>2 DEF Rows
      <4>5. Follows({sent[s][i].status}, r.status)
        BY <4>3, <4>4, FollowsFewer
      <4> QED BY <3>1, <4>1, <4>5
    <3> QED BY <2>5, <3>2, <3>3
  <2>8. OnTheWay(s)' /\ SentInOrder(s)'
    BY <2>6, <2>7 DEF OnTheWay, SentInOrder, Given, Follows
  <2> QED BY <1>2, <1>3, <2>2, <2>3, <2>8 DEF OrderInv
<1> QED BY <1>1, <1>4, <1>5

\* The report that is received may follow what was handled before.
LEMMA ReceiveFollowing ==
    ASSUME TypeOK, OrderInv, lapses = 0, NEW s \in Schedulers, Receive(s)
    PROVE  /\ Head(sent[s]) \in Report
           /\ hand'[s] = Head(sent[s])
           /\ Head(sent[s]).task \in Rows
                => /\ Head(sent[s]).status \in Given(Head(sent[s]).task)
                   /\ Follows(handled[Head(sent[s]).task], Head(sent[s]).status)
<1>1. /\ sent[s] \in Seq(Report) /\ sent[s] # <<>> /\ 1 \in 1..Len(sent[s])
      /\ Head(sent[s]) = sent[s][1] /\ Head(sent[s]) \in Report
  BY DEF Receive, TypeOK
<1>2. OnTheWay(s)
  BY DEF OrderInv
<1>3. hand'[s] = Head(sent[s])
  BY DEF Receive, TypeOK
<1> QED BY <1>1, <1>2, <1>3 DEF OnTheWay

LEMMA ReceiveOrdered ==
    ASSUME TypeOK, StreamInv, OrderInv, lapses = 0, NEW s \in Schedulers, Receive(s)
    PROVE  OrderInv'
<1> DEFINE r == Head(sent[s])
<1>1. /\ r \in Report /\ hand'[s] = r
      /\ r.task \in Rows => /\ r.status \in Given(r.task)
                            /\ Follows(handled[r.task], r.status)
  BY ReceiveFollowing
<1>2. /\ \A t \in Rows : handled'[t] = IF t = r.task THEN handled[t] \cup {r.status}
                                       ELSE handled[t]
      /\ sent' = [sent EXCEPT ![s] = Tail(@)]
      /\ hand' = [hand EXCEPT ![s] = r]
      /\ pc' = [pc EXCEPT ![s] = "read"] /\ pc[s] = "recv"
      /\ UNCHANGED <<queueVars, row, lapses>>
  BY DEF Receive
<1>3. \A t \in Rows : Given(t)' = Given(t)
  BY <1>2 DEF Given, queueVars
<1>4. HandledGiven'
  BY <1>1, <1>2, <1>3 DEF HandledGiven, OrderInv
<1>5. FinalHandled'
  BY <1>2 DEF FinalHandled, OrderInv
<1>6. ASSUME NEW z \in Schedulers, z # s
      PROVE  OnTheWay(z)' /\ SentInOrder(z)' /\ HandInv(z)'
  <2>1. ~Streaming(z)
    BY <1>2, <1>6 DEF StreamInv, Streaming
  <2>2. sent'[z] = <<>> /\ pc'[z] = pc[z]
    BY <1>2, <1>6, <2>1 DEF StreamInv, TypeOK
  <2> QED BY <2>1, <2>2 DEF OnTheWay, SentInOrder, HandInv, Streaming
<1>7. pc'[s] = "read"
  BY <1>2 DEF TypeOK
<1>8. HandInv(s)'
  <2>1. ASSUME r.task \in Rows
        PROVE  /\ r.status \in handled'[r.task]
               /\ r.status = "RUNNING" => handled'[r.task] \subseteq {"QUEUED", "RUNNING"}
    BY <1>1, <1>2, <2>1 DEF Follows
  <2> QED BY <1>1, <1>7, <2>1 DEF HandInv
<1>9. /\ sent[s] \in Seq(Report) /\ sent[s] # <<>> /\ sent'[s] = Tail(sent[s])
      /\ OnTheWay(s) /\ SentInOrder(s)
  BY <1>2 DEF OrderInv, TypeOK, Receive
<1>10. /\ Len(sent[s]) \in Nat /\ Len(sent'[s]) = Len(sent[s]) - 1
       /\ \A i \in 1..Len(sent'[s]) : i + 1 \in 1..Len(sent[s]) /\ sent'[s][i] = sent[s][i + 1]
       /\ 1 \in 1..Len(sent[s]) /\ r = sent[s][1]
  BY <1>9
<1>11. ASSUME NEW i \in 1..Len(sent'[s]), NEW u \in Rows, sent'[s][i].task = u
       PROVE  /\ sent'[s][i].status \in Given(u)'
              /\ Follows(handled'[u], sent'[s][i].status)
  <2>1. /\ i + 1 \in 1..Len(sent[s]) /\ sent'[s][i] = sent[s][i + 1] /\ 1 < i + 1
    BY <1>10, <1>11
  <2>2. PICK q : q = sent[s][i + 1] /\ q.task = u
    BY <1>11, <2>1
  <2>3. q.status \in Given(u) /\ Follows(handled[u], q.status)
    BY <1>9, <2>1, <2>2 DEF OnTheWay
  <2>4. CASE u = r.task
    <3>1. Follows({r.status}, q.status)
      BY <1>9, <1>10, <2>1, <2>2, <2>4 DEF SentInOrder
    <3>2. handled'[u] = handled[u] \cup {r.status}
      BY <1>2, <2>4
    <3>3. Follows(handled'[u], q.status)
      BY <2>3, <3>1, <3>2 DEF Follows
    <3> QED BY <1>3, <2>1, <2>2, <2>3, <3>3
  <2>5. CASE u # r.task
    <3>1. handled'[u] = handled[u]
      BY <1>2, <2>5
    <3> QED BY <1>3, <2>1, <2>2, <2>3, <3>1
  <2> QED BY <2>4, <2>5
<1>12. ASSUME NEW i \in 1..Len(sent'[s]), NEW j \in 1..Len(sent'[s]), i < j,
              sent'[s][i].task \in Rows, sent'[s][i].task = sent'[s][j].task
       PROVE  Follows({sent'[s][i].status}, sent'[s][j].status)
  <2>1. /\ i + 1 \in 1..Len(sent[s]) /\ sent'[s][i] = sent[s][i + 1]
        /\ j + 1 \in 1..Len(sent[s]) /\ sent'[s][j] = sent[s][j + 1]
        /\ i + 1 < j + 1
    BY <1>10, <1>12
  <2> QED BY <1>9, <1>12, <2>1 DEF SentInOrder
<1>13. OnTheWay(s)' /\ SentInOrder(s)'
  BY <1>11, <1>12 DEF OnTheWay, SentInOrder, Given, Follows
<1> QED BY <1>4, <1>5, <1>6, <1>8, <1>13 DEF OrderInv

LEMMA RunOrdered ==
    ASSUME TypeOK, StreamInv, OrderInv, lapses = 0, NEW s \in Schedulers, Run(s)
    PROVE  OrderInv'
<1>1. CASE Receive(s)
  BY <1>1, ReceiveOrdered
<1>2. CASE ~Receive(s)
  <2>1. UNCHANGED <<queueVars, lapses, handled>>
    BY <1>2 DEF Run, Elect, Poll, BreakOff, EndStream, ReadRow, Ignore, ProcessRaises, WriteRow
  <2>2. \A z \in Schedulers : sent'[z] = sent[z] \/ sent'[z] = <<>>
    BY <1>2 DEF Run, Elect, Poll, BreakOff, EndStream, ReadRow, Ignore, ProcessRaises,
                WriteRow, Leave, streamVars, TypeOK
  <2>3. HandledGiven' /\ (\A z \in Schedulers : OnTheWay(z)' /\ SentInOrder(z)')
    BY <2>1, <2>2, OrderKept DEF Given, queueVars
  <2>4. CASE ReadRow(s)
    <3>1. /\ pc[s] = "read" /\ ~Refused(hand[s]) /\ pc' = [pc EXCEPT ![s] = "write"]
          /\ UNCHANGED <<row, hand, handled>>
      BY <2>4 DEF ReadRow, streamVars
    <3>2. FinalHandled'
      BY <3>1 DEF OrderInv, FinalHandled
    <3>3. ASSUME NEW z \in Schedulers PROVE HandInv(z)'
      <4>1. HandInv(z)
        BY DEF OrderInv
      <4>2. CASE z # s
        BY <3>1, <4>1, <4>2 DEF HandInv, TypeOK
      <4>3. CASE z = s
        BY <3>1, <4>1, <4>3 DEF HandInv, Refused
      <4> QED BY <4>2, <4>3
    <3> QED BY <2>3, <3>2, <3>3 DEF OrderInv
  <2>5. CASE WriteRow(s)
    <3>1. /\ pc[s] = "write" /\ pc' = [pc EXCEPT ![s] = "recv"]
          /\ row' = [row EXCEPT ![hand[s].task] = hand[s].status]
          /\ hand[s].task \in Rows /\ HandInv(s)
      BY <2>5 DEF WriteRow, StreamInv, OrderInv
    <3>2. FinalHandled'
      BY <2>1, <3>1 DEF OrderInv, FinalHandled, HandInv, TypeOK
    <3>3. ASSUME NEW z \in Schedulers PROVE HandInv(z)'
      <4>1. pc'[z] \notin {"read", "write"}
        BY <3>1 DEF StreamInv, Streaming, TypeOK
      <4> QED BY <4>1 DEF HandInv
    <3> QED BY <2>3, <3>2, <3>3 DEF OrderInv
  <2>6. CASE ~ReadRow(s) /\ ~WriteRow(s)
    <3>1. UNCHANGED row
      BY <1>2, <2>6 DEF Run, Elect, Poll, BreakOff, EndStream, Ignore, ProcessRaises
    <3>2. ASSUME NEW z \in Schedulers
          PROVE  \/ pc'[z] \notin {"read", "write"}
                 \/ pc'[z] = pc[z] /\ hand'[z] = hand[z]
      BY <1>2, <2>6 DEF Run, Elect, Poll, BreakOff, EndStream, Ignore, ProcessRaises, Leave,
                        streamVars, TypeOK
    <3> QED BY <2>1, <2>3, <3>1, <3>2, HandsKept DEF OrderInv
  <2> QED BY <2>4, <2>5, <2>6
<1> QED BY <1>1, <1>2

LEMMA NextOrdered ==
    ASSUME TypeOK, StreamInv, OrderInv, [Next]_vars
    PROVE  OrderInv'
<1> SUFFICES ASSUME lapses' = 0 PROVE OrderInv'
  BY DEF OrderInv
<1>1. lapses = 0
  BY DEF Next, vars, AssignTask, UpdateTask, Serve, Crash, Run, Elect, Poll, Receive, BreakOff,
         EndStream, ReadRow, Ignore, ProcessRaises, WriteRow, ServeOrphan, Depart, Lapse, TypeOK
<1>2. ASSUME NEW t \in Rows, UpdateTask(t) PROVE OrderInv'
  <2>1. /\ \/ row' = [row EXCEPT ![t] = "QUEUED"]
           \/ row' = row
        /\ UNCHANGED <<queueVars, sent, hand, pc, handled>>
    BY <1>2 DEF UpdateTask, streamVars
  <2>2. HandledGiven' /\ (\A z \in Schedulers : OnTheWay(z)' /\ SentInOrder(z)')
    BY <1>1, <2>1, OrderKept DEF Given, queueVars
  <2>3. FinalHandled' /\ (\A z \in Schedulers : HandInv(z)')
    <3>1. CASE row' = [row EXCEPT ![t] = "QUEUED"]
      BY <1>1, <2>1, <3>1 DEF OrderInv, FinalHandled, HandInv, TypeOK, Final
    <3>2. CASE row' = row
      BY <1>1, <2>1, <3>2 DEF OrderInv, FinalHandled, HandInv
    <3> QED BY <2>1, <3>1, <3>2
  <2> QED BY <2>2, <2>3 DEF OrderInv
<1>3. ASSUME NEW s \in Schedulers, Serve(s) PROVE OrderInv'
  BY <1>1, <1>3, ServeOrdered
<1>4. ASSUME NEW s \in Schedulers, Run(s) PROVE OrderInv'
  BY <1>1, <1>4, RunOrdered
<1>5. CASE ServeOrphan
  <2>1. \A u \in Tasks : Given(u) \subseteq Given(u)'
    <3>1. CASE queueVars' = queueVars
      BY <3>1 DEF queueVars, Given
    <3>2. ASSUME NEW r \in TaskReport, Take(r) PROVE \A u \in Tasks : Given(u) \subseteq Given(u)'
      BY <3>2, TakeFollowing DEF Report
    <3> QED BY <1>5, <3>1, <3>2 DEF ServeOrphan
  <2>2. UNCHANGED <<row, pc, sent, hand, handled>>
    BY <1>5 DEF ServeOrphan
  <2> QED BY <1>1, <2>1, <2>2, OrderKept, HandsKept DEF OrderInv
<1>6. CASE UNCHANGED <<queueVars, row, handled>>
           /\ (\A s \in Schedulers : sent'[s] = sent[s] \/ sent'[s] = <<>>)
           /\ (\A s \in Schedulers : \/ pc'[s] \notin {"read", "write"}
                                     \/ pc'[s] = pc[s] /\ hand'[s] = hand[s])
  BY <1>1, <1>6, OrderKept, HandsKept DEF OrderInv, Given, queueVars
<1>7. ASSUME NEW t \in Rows, AssignTask(t) PROVE OrderInv'
  BY <1>6, <1>7 DEF AssignTask, streamVars
<1>8. ASSUME NEW s \in Schedulers, Crash(s) PROVE OrderInv'
  BY <1>6, <1>8 DEF Crash, Leave, TypeOK
<1>9. CASE Depart \/ Lapse
  BY <1>6, <1>9 DEF Depart, Lapse, streamVars
<1>10. CASE UNCHANGED vars
  BY <1>6, <1>10 DEF vars, streamVars
<1> QED BY <1>2, <1>3, <1>4, <1>5, <1>7, <1>8, <1>9, <1>10 DEF Next

Inv == TypeOK /\ StreamInv /\ OrderInv

LEMMA InvHolds == Spec => []Inv
<1>1. Init => OrderInv
  <2>1. SUFFICES ASSUME Init PROVE OrderInv
    OBVIOUS
  <2>2. /\ \A t \in Rows : handled[t] = {} /\ row[t] = "SCHEDULED"
        /\ \A s \in Schedulers : sent[s] = <<>> /\ pc[s] = "poll"
    BY <2>1 DEF Init
  <2>3. HandledGiven /\ FinalHandled
    BY <2>2 DEF HandledGiven, FinalHandled, Final
  <2>4. \A s \in Schedulers : OnTheWay(s) /\ SentInOrder(s) /\ HandInv(s)
    <3>1. ASSUME NEW s \in Schedulers PROVE OnTheWay(s) /\ SentInOrder(s) /\ HandInv(s)
      <4>1. sent[s] = <<>> /\ pc[s] = "poll" /\ Len(<<>>) = 0
        BY <2>2
      <4> QED BY <4>1 DEF OnTheWay, SentInOrder, HandInv
    <3> QED BY <3>1
  <2> QED BY <2>3, <2>4 DEF OrderInv
<1>2. TypeOK /\ StreamInv /\ OrderInv /\ [Next]_vars => OrderInv'
  BY NextOrdered
<1> QED BY <1>1, <1>2, TypeAndStream, PTL DEF Spec, Inv

\* While there is one leader, the statuses of a task are processed once each and in the
\* order in which the manager gives them, whatever became of streams and schedulers.
THEOREM ReportsAreHandledInOrder == Spec => HandledInOrder
<1>1. ASSUME Inv, [Next]_vars, NEW s \in Schedulers,
             lapses = 0, pc[s] = "recv", pc'[s] = "read", hand'[s].task \in Rows
      PROVE  Follows(handled[hand'[s].task], hand'[s].status)
  <2>1. Receive(s)
    <3>1. PICK z \in Schedulers : Serve(z) \/ Crash(z) \/ Run(z)
      BY <1>1 DEF Next, vars, AssignTask, UpdateTask, ServeOrphan, Depart, Lapse
    <3>2. Run(z)
      BY <1>1, <3>1 DEF Serve, Crash, Leave, Inv, TypeOK
    <3> QED BY <1>1, <3>2 DEF Run, Elect, Poll, Receive, BreakOff, EndStream, ReadRow, Ignore,
                             ProcessRaises, WriteRow, Leave, Inv, TypeOK
  <2> QED BY <1>1, <2>1, ReceiveFollowing DEF Inv
<1>2. Inv /\ [Next]_vars =>
        [\A s \in Schedulers :
           LET r == hand'[s]
           IN  /\ lapses = 0 /\ pc[s] = "recv" /\ pc'[s] = "read"
               /\ r.task \in Rows
               => /\ r.status \notin handled[r.task]
                  /\ r.status = "RUNNING" => handled[r.task] \subseteq {"QUEUED"}
                  /\ r.status = "SUCCESS" => "ERROR" \notin handled[r.task]]_vars
  BY <1>1 DEF Follows
<1> QED BY <1>2, InvHolds, PTL DEF Spec, HandledInOrder

-----------------------------------------------------------------------------
(* What becomes of the rows.                                               *)

\* Only assign_task takes a row out of its final status while there is one leader.
THEOREM FinalRowsStay == Spec => FinalStays
<1>1. ASSUME Inv, [Next]_vars, NEW t \in Rows, row[t] \in Final, row'[t] \notin Final
      PROVE  \/ assign[t] = "dispatched" /\ assign'[t] = "done"
             \/ /\ lapses > 0
                /\ \E s \in Schedulers : pc[s] = "write" /\ hand[s].task = t
  <2>1. \/ \E u \in Rows : UpdateTask(u)
        \/ \E s \in Schedulers : WriteRow(s)
    BY <1>1 DEF Next, vars, AssignTask, Serve, Crash, Run, Elect, Poll, Receive, BreakOff,
                EndStream, ReadRow, Ignore, ProcessRaises, ServeOrphan, Depart, Lapse
  <2>2. ASSUME NEW u \in Rows, UpdateTask(u)
        PROVE  assign[t] = "dispatched" /\ assign'[t] = "done"
    BY <1>1, <2>2 DEF UpdateTask, Inv, TypeOK
  <2>3. ASSUME NEW s \in Schedulers, WriteRow(s)
        PROVE  lapses > 0 /\ pc[s] = "write" /\ hand[s].task = t
    <3>1. /\ pc[s] = "write" /\ row' = [row EXCEPT ![hand[s].task] = hand[s].status]
          /\ hand[s].task \in Rows
      BY <1>1, <2>3 DEF WriteRow, Inv, StreamInv
    <3>2. hand[s].task = t /\ hand[s].status \notin Final
      BY <1>1, <3>1 DEF Inv, TypeOK
    <3>3. lapses # 0
      BY <1>1, <3>1, <3>2 DEF Inv, OrderInv, HandInv
    <3> QED BY <1>1, <3>1, <3>2, <3>3 DEF Inv, TypeOK
  <2> QED BY <2>1, <2>2, <2>3
<1>2. Inv /\ [Next]_vars =>
        [\A t \in Rows :
           row[t] \in Final /\ row'[t] \notin Final
           => \/ assign[t] = "dispatched" /\ assign'[t] = "done"
              \/ /\ lapses > 0
                 /\ \E s \in Schedulers : pc[s] = "write" /\ hand[s].task = t]_vars
  BY <1>1
<1> QED BY <1>2, InvHolds, PTL DEF Spec, FinalStays

\* A report of a task with a row ends a scheduler only if it is a late QUEUED, or a
\* RUNNING under two leaders.
THEOREM RaisersAreLate == Spec => []OnlyLateQueuedRaises
<1>1. Init => OnlyLateQueuedRaises
  BY DEF Init, OnlyLateQueuedRaises
<1>2. ASSUME Inv, OnlyLateQueuedRaises, [Next]_vars PROVE OnlyLateQueuedRaises'
  <2>1. SUFFICES ASSUME NEW s \in Schedulers, pc'[s] = "raised", hand'[s] # None,
                        hand'[s].task \in Rows
                 PROVE  \/ hand'[s].status = "QUEUED"
                        \/ hand'[s].status = "RUNNING" /\ lapses' > 0
    BY DEF OnlyLateQueuedRaises
  <2>2. lapses \in Nat /\ lapses' \in Nat /\ lapses <= lapses'
    BY <1>2, ReportsAssumption DEF Next, vars, AssignTask, UpdateTask, Serve, Crash, Run, Elect,
           Poll, Receive, BreakOff, EndStream, ReadRow, Ignore, ProcessRaises, WriteRow,
           ServeOrphan, Depart, Lapse, Inv, TypeOK
  <2>3. CASE pc[s] = "raised" /\ hand'[s] = hand[s]
    BY <1>2, <2>1, <2>2, <2>3 DEF OnlyLateQueuedRaises
  <2>4. CASE ProcessRaises(s)
    <3>1. /\ pc[s] = "read" /\ ~Ignored(hand[s]) /\ Refused(hand[s]) /\ hand'[s] = hand[s]
          /\ lapses' = lapses
      BY <1>2, <2>4 DEF ProcessRaises, Leave, Inv, TypeOK
    <3>2. hand[s].status \in Stating /\ hand[s].status \notin Final /\ row[hand[s].task] \in Final
      BY <2>1, <3>1, ReportsAssumption DEF Ignored, Refused, Stating
    <3>3. hand[s].status \in {"QUEUED", "RUNNING"}
      BY <3>2 DEF Stating, Final
    <3>4. ASSUME hand[s].status = "RUNNING", lapses = 0 PROVE FALSE
      <4>1. handled[hand[s].task] \subseteq {"QUEUED", "RUNNING"}
        BY <1>2, <2>1, <3>1, <3>4 DEF Inv, OrderInv, HandInv
      <4>2. row[hand[s].task] \in handled[hand[s].task]
        BY <1>2, <2>1, <3>1, <3>2, <3>4 DEF Inv, OrderInv, FinalHandled
      <4> QED BY <3>2, <4>1, <4>2 DEF Final
    <3> QED BY <2>2, <3>1, <3>3, <3>4
  <2>5. CASE Poll(s)
    BY <1>2, <2>1, <2>5 DEF Poll, Inv, StreamInv
  <2>6. \/ pc[s] = "raised" /\ hand'[s] = hand[s]
        \/ ProcessRaises(s)
        \/ Poll(s)
    <3>1. CASE pc'[s] = pc[s] /\ hand'[s] = hand[s]
      BY <2>1, <3>1
    <3>2. CASE ~(pc'[s] = pc[s] /\ hand'[s] = hand[s])
      <4>1. PICK z \in Schedulers : Crash(z) \/ Run(z)
        BY <1>2, <3>2 DEF Next, vars, AssignTask, UpdateTask, Serve, ServeOrphan, Depart, Lapse,
                          streamVars
      <4>2. z = s
        BY <1>2, <3>2, <4>1 DEF Crash, Run, Elect, Poll, Receive, BreakOff, EndStream, ReadRow,
                 Ignore, ProcessRaises, WriteRow, Leave, streamVars, Inv, TypeOK
      <4> QED BY <1>2, <2>1, <3>2, <4>1, <4>2 DEF Crash, Run, Elect, Receive, BreakOff, EndStream,
                 ReadRow, Ignore, WriteRow, Leave, streamVars, Inv, TypeOK
    <3> QED BY <3>1, <3>2
  <2> QED BY <2>3, <2>4, <2>5, <2>6
<1> QED BY <1>1, <1>2, InvHolds, PTL DEF Spec

-----------------------------------------------------------------------------
(* What the rows say, also under several leaders.                          *)

\* Wherever a report is, the manager gave it, and what was given stays given.
SentGiven(s) ==
    \A i \in 1..Len(sent[s]) :
        sent[s][i].task \in Rows => sent[s][i].status \in Given(sent[s][i].task)

HandGiven(s) ==
    pc[s] \in {"read", "write"} /\ hand[s].task \in Rows
    => hand[s].status \in Given(hand[s].task)

FinalGiven == \A t \in Rows : row[t] \in Final => row[t] \in Given(t)

GivenInv == FinalGiven /\ (\A s \in Schedulers : SentGiven(s) /\ HandGiven(s))

\* Steps that hand on no report and write no row.
LEMMA GivenStays ==
    ASSUME GivenInv, UNCHANGED row,
           \A u \in Tasks : Given(u) \subseteq Given(u)',
           \A s \in Schedulers : /\ sent'[s] = sent[s] \/ sent'[s] = <<>>
                                 /\ \/ pc'[s] \notin {"read", "write"}
                                    \/ /\ pc'[s] = pc[s] \/ (pc[s] = "read" /\ pc'[s] = "write")
                                       /\ hand'[s] = hand[s]
    PROVE  GivenInv'
<1>1. FinalGiven'
  BY DEF GivenInv, FinalGiven, Rows
<1>2. ASSUME NEW s \in Schedulers PROVE SentGiven(s)' /\ HandGiven(s)'
  <2>1. SentGiven(s) /\ HandGiven(s)
    BY DEF GivenInv
  <2>2. SentGiven(s)'
    <3>1. CASE sent'[s] = <<>>
      BY <3>1 DEF SentGiven
    <3>2. CASE sent'[s] = sent[s]
      BY <2>1, <3>2 DEF SentGiven, Rows
    <3> QED BY <3>1, <3>2
  <2>3. HandGiven(s)'
    BY <2>1 DEF HandGiven, Rows
  <2> QED BY <2>2, <2>3
<1> QED BY <1>1, <1>2 DEF GivenInv

LEMMA ServeGiven ==
    ASSUME TypeOK, GivenInv, NEW s \in Schedulers, Serve(s)
    PROVE  GivenInv'
<1>1. PICK r \in Report : Take(r) /\ (sent' = [sent EXCEPT ![s] = Append(@, r)] \/ sent' = sent)
  BY DEF Serve
<1>2. UNCHANGED <<row, pc, hand>>
  BY DEF Serve
<1>3. /\ \A u \in Tasks : Given(u) \subseteq Given(u)'
      /\ r.task \in Tasks => r.status \in Given(r.task)'
  BY <1>1, TakeFollowing
<1>4. FinalGiven' /\ (\A z \in Schedulers : HandGiven(z)')
  BY <1>2, <1>3 DEF GivenInv, FinalGiven, HandGiven, Rows
<1>5. ASSUME NEW z \in Schedulers, NEW i \in 1..Len(sent'[z]), NEW u \in Rows,
             sent'[z][i].task = u
      PROVE  sent'[z][i].status \in Given(u)'
  <2>1. sent[z] \in Seq(Report) /\ sent[s] \in Seq(Report) /\ SentGiven(z)
    BY DEF TypeOK, GivenInv
  <2>2. \/ i \in 1..Len(sent[z]) /\ sent'[z][i] = sent[z][i]
        \/ sent'[z][i] = r
    <3>1. CASE sent'[z] = sent[z]
      BY <1>5, <3>1
    <3>2. CASE sent'[z] = Append(sent[z], r)
      BY <1>5, <2>1, <3>2
    <3>3. sent'[z] = sent[z] \/ sent'[z] = Append(sent[z], r)
      BY <1>1 DEF TypeOK
    <3> QED BY <3>1, <3>2, <3>3
  <2>3. CASE i \in 1..Len(sent[z]) /\ sent'[z][i] = sent[z][i]
    <3>1. sent[z][i].task = u /\ sent[z][i].status \in Given(u)
      BY <1>5, <2>1, <2>3 DEF SentGiven
    <3> QED BY <1>3, <2>3, <3>1 DEF Rows
  <2>4. CASE sent'[z][i] = r
    <3>1. r.task = u /\ u \in Tasks
      BY <1>5, <2>4 DEF Rows
    <3> QED BY <1>3, <2>4, <3>1
  <2> QED BY <2>2, <2>3, <2>4
<1>6. \A z \in Schedulers : SentGiven(z)'
  BY <1>5 DEF SentGiven, Given
<1> QED BY <1>4, <1>6 DEF GivenInv

LEMMA ReceiveGiven ==
    ASSUME TypeOK, GivenInv, NEW s \in Schedulers, Receive(s)
    PROVE  GivenInv'
<1>1. /\ sent[s] \in Seq(Report) /\ sent[s] # <<>> /\ SentGiven(s)
      /\ sent'[s] = Tail(sent[s]) /\ hand'[s] = sent[s][1] /\ 1 \in 1..Len(sent[s])
      /\ \A z \in Schedulers \ {s} : /\ sent'[z] = sent[z] /\ hand'[z] = hand[z]
                                      /\ pc'[z] = pc[z]
      /\ UNCHANGED <<queueVars, row>>
  BY DEF Receive, TypeOK, GivenInv
<1>2. \A t \in Rows : Given(t)' = Given(t)
  BY <1>1 DEF Given, queueVars
<1>3. FinalGiven' /\ (\A z \in Schedulers \ {s} : SentGiven(z)' /\ HandGiven(z)')
  BY <1>1, <1>2 DEF GivenInv, FinalGiven, SentGiven, HandGiven
<1>4. HandGiven(s)'
  BY <1>1, <1>2 DEF SentGiven, HandGiven
<1>5. \A i \in 1..Len(sent'[s]) : i + 1 \in 1..Len(sent[s]) /\ sent'[s][i] = sent[s][i + 1]
  BY <1>1
<1>6. SentGiven(s)'
  BY <1>1, <1>2, <1>5 DEF SentGiven
<1> QED BY <1>3, <1>4, <1>6 DEF GivenInv

LEMMA WriteGiven ==
    ASSUME TypeOK, StreamInv, GivenInv, NEW s \in Schedulers, WriteRow(s)
    PROVE  GivenInv'
<1>1. \A t \in Rows : row'[t] = row[t] \/ (t = hand[s].task /\ row'[t] = hand[s].status)
  <2>1. row' = [row EXCEPT ![hand[s].task] = hand[s].status]
    BY DEF WriteRow
  <2> QED BY <2>1 DEF TypeOK
<1>2. \A z \in Schedulers : pc'[z] = "recv" \/ (pc'[z] = pc[z] /\ hand'[z] = hand[z])
  BY DEF WriteRow, TypeOK
<1>3. sent' = sent /\ pc[s] = "write"
  BY DEF WriteRow
<1>4. \A t \in Rows : Given(t)' = Given(t)
  BY DEF WriteRow, Given, queueVars
<1>5. FinalGiven'
  BY <1>1, <1>3, <1>4 DEF GivenInv, FinalGiven, HandGiven
<1>6. \A z \in Schedulers : SentGiven(z)' /\ HandGiven(z)'
  BY <1>2, <1>3, <1>4 DEF GivenInv, SentGiven, HandGiven
<1> QED BY <1>5, <1>6 DEF GivenInv

\* Whoever leads and whatever was lost, late or abandoned: a final status in a row
\* is one that the manager gave of that task.
THEOREM FinalRowsWereReported == Spec => []FinalGiven
<1>1. Init => GivenInv
  <2> SUFFICES ASSUME Init PROVE GivenInv
    OBVIOUS
  <2>1. /\ \A t \in Rows : row[t] \notin Final
        /\ \A s \in Schedulers : sent[s] = <<>> /\ pc[s] = "poll"
    BY DEF Init, Final
  <2> QED BY <2>1 DEF GivenInv, FinalGiven, SentGiven, HandGiven
<1>2. TypeOK /\ StreamInv /\ GivenInv /\ [Next]_vars => GivenInv'
  <2> SUFFICES ASSUME TypeOK, StreamInv, GivenInv, [Next]_vars PROVE GivenInv'
    OBVIOUS
  <2>1. UNCHANGED queueVars => \A u \in Tasks : Given(u)' = Given(u)
    BY DEF queueVars, Given
  <2>2. ASSUME NEW t \in Rows, UpdateTask(t) PROVE GivenInv'
    <3>1. /\ \A u \in Rows : row'[u] = row[u] \/ row'[u] \notin Final
          /\ UNCHANGED <<queueVars, pc, hand, sent>>
      BY <2>2 DEF UpdateTask, TypeOK, Final, streamVars
    <3> QED BY <2>1, <3>1 DEF GivenInv, FinalGiven, SentGiven, HandGiven, Rows
  <2>3. ASSUME NEW s \in Schedulers, Serve(s) \/ Receive(s) \/ WriteRow(s) PROVE GivenInv'
    BY <2>3, ServeGiven, ReceiveGiven, WriteGiven
  <2>4. ASSUME NEW s \in Schedulers,
               \/ Crash(s) \/ Elect(s) \/ Poll(s) \/ BreakOff(s) \/ EndStream(s)
               \/ ReadRow(s) \/ Ignore(s) \/ ProcessRaises(s)
        PROVE  GivenInv'
    <3>1. /\ UNCHANGED <<row, queueVars>>
          /\ \A z \in Schedulers :
               /\ sent'[z] = sent[z] \/ sent'[z] = <<>>
               /\ \/ pc'[z] \notin {"read", "write"}
                  \/ /\ pc'[z] = pc[z] \/ (pc[z] = "read" /\ pc'[z] = "write")
                     /\ hand'[z] = hand[z]
      BY <2>4 DEF Crash, Elect, Poll, BreakOff, EndStream, ReadRow, Ignore, ProcessRaises,
                  Leave, TypeOK, streamVars
    <3> QED BY <2>1, <3>1, GivenStays
  <2>5. CASE ServeOrphan
    <3>1. \A u \in Tasks : Given(u) \subseteq Given(u)'
      BY <2>1, <2>5, TakeFollowing DEF ServeOrphan, Report
    <3> QED BY <2>5, <3>1, GivenStays DEF ServeOrphan
  <2>6. CASE UNCHANGED <<queueVars, row, pc, sent, hand>>
    BY <2>1, <2>6, GivenStays
  <2> QED BY <2>2, <2>3, <2>4, <2>5, <2>6
      DEF Next, Run, AssignTask, Depart, Lapse, streamVars, vars
<1>3. GivenInv => FinalGiven
  BY DEF GivenInv
<1> QED BY <1>1, <1>2, <1>3, TypeAndStream, PTL DEF Spec
=============================================================================
