----------------------------- MODULE MCFunTask -----------------------------
(* Small instances of FunTaskManager for TLC. *)
EXTENDS FunTaskManager

CONSTANTS w1, w2, plain, gen, gen2, coro

\* A dispatch is reported and the status queue drained before anything else
\* happens.  A worker looks at its own buffer only when its process ends, so
\* what the processes do is the same; the runs about the queue itself go
\* without this.
EagerDelivery ==
    /\ pending # None => pending' = None
    /\ pending = None /\ ((\E p \in Processes : feeder[p] # <<>>) \/ pipe # <<>>)
         => delivered' # delivered \/ pipe' # pipe

\* The manager's owner reads every message as soon as it can: what is read, and
\* in which order, is decided when the feeders write to the pipe.
EagerReader == pending = None /\ pipe # <<>> => delivered' # delivered

\* The manager's reports are in the pipe, and read, before anything else happens:
\* only the workers' own reports can be late.
PromptManager ==
    /\ pending # None => pending' = None
    /\ pending = None /\ (feeder[Manager] # <<>> \/ pipe # <<>>)
         => delivered' # delivered \/ feeder'[Manager] # feeder[Manager]

\* No guard reads the history delivered: states that differ in it alone go on
\* in the same way.
WithoutDelivered == <<feeder, pipe, jammed, workerVars, managerVars>>
=============================================================================
