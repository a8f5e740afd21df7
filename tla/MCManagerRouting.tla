-------------------------- MODULE MCManagerRouting --------------------------
EXTENDS ManagerRouting

CONSTANTS n1, n2, s1, s2, t1

\* No key has the same index of two under both salts, and no worker the index that
\* its tasks have.
MCHash == [s \in Salts |-> [k \in Key |-> IF (s = s1) = (k \in Workers) THEN 0 ELSE 1]]

\* A scheduler's container gives no node, the web server's those of its configuration.
MCNodeLists == {<<>>, <<n1>>, <<n1, n2>>}
=============================================================================
