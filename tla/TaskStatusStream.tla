-------------------------- MODULE TaskStatusStream --------------------------
(***************************************************************************)
(* What a caller of FunTaskManager.get_queued_status may rely on, whatever *)
(* happens to the workers: for every task the stream shows RUNNING at most *)
(* once and before any final status, SUCCESS at most once, ERROR at most   *)
(* once, ERROR after SUCCESS only for a task that can be interrupted, and  *)
(* nothing after ERROR.  QUEUED is shown at most once, at any moment: even *)
(* after the final status, and also without any other.                     *)
(***************************************************************************)
EXTENDS Sequences

CONSTANT Tasks              \* task uuids

VARIABLES queued,           \* tasks whose QUEUED has been shown
          shown,            \* task -> the other statuses shown, in order
          interruptible     \* tasks with a timeout or asked to stop

vars == <<queued, shown, interruptible>>

Init ==
    /\ queued = {}
    /\ interruptible \in SUBSET Tasks
    /\ shown = [t \in Tasks |-> <<>>]

ShowQueued(t) ==
    /\ t \notin queued
    /\ queued' = queued \cup {t}
    /\ UNCHANGED <<shown, interruptible>>

Show(t, before, s) ==
    /\ shown[t] = before
    /\ shown' = [shown EXCEPT ![t] = Append(before, s)]
    /\ UNCHANGED <<queued, interruptible>>

Interrupt(t) ==
    /\ interruptible' = interruptible \cup {t}
    /\ UNCHANGED <<queued, shown>>

\* s is shown of t.
Gives(t, s) ==
    \/ /\ s = "QUEUED"
       /\ ShowQueued(t)
    \/ /\ s = "RUNNING"
       /\ Show(t, <<>>, s)
    \/ /\ s \in {"SUCCESS", "ERROR"}
       /\ Show(t, <<"RUNNING">>, s)
    \/ /\ s = "ERROR"
       /\ t \in interruptible
       /\ Show(t, <<"RUNNING", "SUCCESS">>, s)

Next == \E t \in Tasks :
    \/ Interrupt(t)
    \/ \E s \in {"QUEUED", "RUNNING", "SUCCESS", "ERROR"} : Gives(t, s)

Spec == Init /\ [][Next]_vars
=============================================================================
