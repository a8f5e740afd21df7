------------------------------ MODULE WorkerTable ------------------------------
(***************************************************************************)
(* The worker table of the repository and the web server in front of it.   *)
(* A request for a worker has the manager start one and then enters it in  *)
(* the table, where a transaction takes an id before it commits; a reader  *)
(* pages through the table by the id it was given last.                    *)
(***************************************************************************)
EXTENDS Naturals, FiniteSets

CONSTANTS Requests,     \* requests increase_worker
          None,
          Workers,      \* worker uuids
          Limit         \* the limit of the reader's queries

ASSUME TableAssumption ==
    /\ None \notin Workers
    /\ IsFiniteSet(Requests)
    /\ Limit \in Nat \ {0}

VARIABLES pc,           \* request -> where it is
          worker,       \* request -> the worker started for it
          id,           \* request -> the id of its row
          started,      \* workers the manager has started
          lastId,       \* the last id the table gave
          rows,         \* the rows that are committed
          reader        \* the reader's way through the table

tableVars == <<pc, worker, id, started, lastId, rows>>
vars == <<tableVars, reader>>

Id == 1..Cardinality(Requests)
Row == [id : Id, worker : Workers]

TypeOK ==
    /\ pc \in [Requests -> {"new", "add_worker", "commit", "committed", "answered", "failed"}]
    /\ worker \in [Requests -> Workers \cup {None}]
    /\ id \in [Requests -> {0} \cup Id]
    /\ started \in SUBSET Workers
    /\ lastId \in {0} \cup Id
    /\ rows \in SUBSET Row
    /\ reader \in [pc : {"new", "reading", "done"}, cursor : {0} \cup Id,
                   inOrder : BOOLEAN, old : SUBSET Workers, seen : [Workers -> Nat]]

Init ==
    /\ pc = [r \in Requests |-> "new"]
    /\ worker = [r \in Requests |-> None]
    /\ id = [r \in Requests |-> 0]
    /\ started = {} /\ lastId = 0 /\ rows = {}
    /\ reader = [pc |-> "new", cursor |-> 0, inOrder |-> TRUE, old |-> {},
                 seen |-> [w \in Workers |-> 0]]

-----------------------------------------------------------------------------
(* increase_worker of the web server, and add_worker of the repository.    *)

\* The manager starts a worker, and the answer arrives or is lost.
StartWorker(r, w) ==
    /\ pc[r] = "new" /\ w \notin started
    /\ started' = started \cup {w}
    /\ worker' = [worker EXCEPT ![r] = w]
    /\ \E to \in {"add_worker", "failed"} : pc' = [pc EXCEPT ![r] = to]
    /\ UNCHANGED <<id, lastId, rows, reader>>

\* No node, or none that answers: NoNodeException.
NoNode(r) ==
    /\ pc[r] = "new"
    /\ pc' = [pc EXCEPT ![r] = "failed"]
    /\ UNCHANGED <<worker, id, started, lastId, rows, reader>>

\* Variant of AddWorker: the request is answered before its commit.
AddAndAnswer(r) ==
    /\ pc[r] = "add_worker"
    /\ lastId' = lastId + 1
    /\ id' = [id EXCEPT ![r] = lastId + 1]
    /\ pc' = [pc EXCEPT ![r] = "answered"]
    /\ UNCHANGED <<worker, started, rows, reader>>

AddWorker(r) ==
    /\ pc[r] = "add_worker"
    /\ lastId' = lastId + 1
    /\ id' = [id EXCEPT ![r] = lastId + 1]
    /\ pc' = [pc EXCEPT ![r] = "commit"]
    /\ UNCHANGED <<worker, started, rows, reader>>

Commit(r) ==
    /\ pc[r] = "commit"
    /\ rows' = rows \cup {[id |-> id[r], worker |-> worker[r]]}
    /\ pc' = [pc EXCEPT ![r] = "committed"]
    /\ UNCHANGED <<worker, id, started, lastId, reader>>

\* The row is there: the request is answered, or the acknowledgement of the commit, the
\* answer or the web server is lost.
Answer(r) ==
    /\ pc[r] = "committed"
    /\ \E to \in {"answered", "failed"} : pc' = [pc EXCEPT ![r] = to]
    /\ UNCHANGED <<worker, id, started, lastId, rows, reader>>

\* Variant of RollBack: the row is inserted once more.
RollBackAndRetry(r) ==
    /\ pc[r] \in {"add_worker", "commit"}
    /\ pc' = [pc EXCEPT ![r] = "add_worker"]
    /\ UNCHANGED <<worker, id, started, lastId, rows, reader>>

\* The transaction is rolled back, with the session or the process: its id is used
\* up, and its worker runs on.
RollBack(r) ==
    /\ pc[r] \in {"add_worker", "commit"}
    /\ pc' = [pc EXCEPT ![r] = "failed"]
    /\ UNCHANGED <<worker, id, started, lastId, rows, reader>>

-----------------------------------------------------------------------------
(* get_workers, asked for page after page.  The query has a limit and no   *)
(* order: any rows behind the cursor may be the page.                      *)

StartReading ==
    /\ reader.pc = "new"
    /\ reader' = [reader EXCEPT !.pc = "reading", !.old = {row.worker : row \in rows}]
    /\ UNCHANGED tableVars

Behind(cursor) == {row \in rows : row.id > cursor}

\* Fewer rows than the limit are all there are.
Page == {page \in SUBSET Behind(reader.cursor) :
           /\ page # {} /\ Cardinality(page) <= Limit
           /\ Cardinality(page) < Limit => page = Behind(reader.cursor)}

\* History: the database gave the rows in the order of their ids.
InKeyOrder(page) == \A a \in page, b \in Behind(reader.cursor) \ page : a.id < b.id

Read(page, end) ==
    reader' = [reader EXCEPT
        !.cursor = end.id, !.inOrder = @ /\ InKeyOrder(page),
        !.seen = [w \in Workers |-> @[w] + Cardinality({row \in page : row.worker = w})]]

\* Variant of ReadPage: the next cursor is the smallest id of the page.
ReadPageAgain ==
    /\ reader.pc = "reading"
    /\ \E page \in Page : \E end \in page :
         /\ \A row \in page : row.id >= end.id
         /\ Read(page, end)
    /\ UNCHANGED tableVars

ReadPage ==
    /\ reader.pc = "reading"
    /\ \E page \in Page : \E end \in page :
         /\ \A row \in page : row.id <= end.id
         /\ Read(page, end)
    /\ UNCHANGED tableVars

\* The repository returns None, which the handler cannot unpack: the reader is told
\* of an error where the table ends.
EndReading ==
    /\ reader.pc = "reading" /\ Behind(reader.cursor) = {}
    /\ reader' = [reader EXCEPT !.pc = "done"]
    /\ UNCHANGED tableVars

Next ==
    \/ \E r \in Requests :
         \/ \E w \in Workers : StartWorker(r, w)
         \/ NoNode(r) \/ AddWorker(r) \/ Commit(r) \/ Answer(r) \/ RollBack(r)
    \/ StartReading \/ ReadPage \/ EndReading

Spec == Init /\ [][Next]_vars

-----------------------------------------------------------------------------
\* A request that was answered has its worker in the table, and no two rows have an id or
\* a worker in common, though transactions end in another order than they took their
\* ids and some are rolled back; and the table names no worker that was not started.
\* (There are rows without an answer, of requests that fail after their commit, and
\* workers without a row.)
RowPerAnswer ==
    /\ \A r \in Requests : pc[r] = "answered" => [id |-> id[r], worker |-> worker[r]] \in rows
    /\ \A a, b \in rows : a # b => a.id # b.id /\ a.worker # b.worker
    /\ \A row \in rows : row.worker \in started

\* Who pages through the table sees no worker twice, whatever was entered meanwhile; and
\* where the database gave every page in the order of ids, who has read to the end has
\* seen every worker that was in the table when they began.  (Without that order, which
\* the query does not ask for, old rows are skipped; and a row that commits behind the
\* cursor after a row with a larger id was read is never seen.)
ReadsAllOld ==
    /\ \A w \in Workers : reader.seen[w] <= 1
    /\ reader.pc = "done" /\ reader.inOrder => \A w \in reader.old : reader.seen[w] = 1
=============================================================================
