------------------------------ MODULE MCLeader ------------------------------
(* Small instances of LeaderScheduler for TLC. *)
EXTENDS LeaderScheduler, TLC

CONSTANTS n1, n2, n3, t1, t2, t3

NodeSymmetry == Permutations(Nodes)
=============================================================================
