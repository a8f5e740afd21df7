----------------------------- MODULE MCWorkerTable -----------------------------
EXTENDS WorkerTable, TLC

\* The actions and the properties tell neither requests nor workers apart.
Symmetry == Permutations(Requests) \cup Permutations(Workers)
=============================================================================
