-------------------------- MODULE MCStatusReports --------------------------
(* The instance of StatusReports for TLC. *)
EXTENDS StatusReports

CONSTANTS s1, s2

\* As long as nobody was elected and none has ended, the two schedulers are alike: it is
\* s1 that is elected, or s2 that ends.
LikeOnes ==
    leader = None /\ lapses = 0 /\ (\A s \in Schedulers : pc[s] = "poll")
    => leader' # s2 /\ pc'[s1] # "crashed"
=============================================================================
