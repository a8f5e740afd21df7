------------------------- MODULE WorkerTableProofs -------------------------
(***************************************************************************)
(* Proofs about WorkerTable, for any finite number of requests, any        *)
(* workers and any limit.                                                  *)
(***************************************************************************)
EXTENDS WorkerTable, FiniteSetTheorems, TLAPS

\* The requests that have taken an id.
Numbered == {r \in Requests : id[r] # 0}

RowOf(r) == [id |-> id[r], worker |-> worker[r]]

\* Requests that may have their row in the table: their id and worker stay.
Entered == {r \in Requests : /\ pc[r] \in {"commit", "committed", "answered", "failed"}
                             /\ id[r] # 0 /\ worker[r] # None}

\* Ids are given one after the other and not given again, workers are started for one
\* request each, and the table has the rows of the requests that were answered, and rows
\* of requests only.
TableInv ==
    /\ lastId = Cardinality(Numbered)
    /\ \A r \in Requests : id[r] <= lastId
    /\ \A r, q \in Requests : r # q /\ id[r] = id[q] => id[r] = 0
    /\ \A r \in Requests : /\ pc[r] \in {"new", "add_worker"} => id[r] = 0
                           /\ pc[r] \in {"commit", "committed", "answered"} => id[r] # 0
                           /\ pc[r] = "new" => worker[r] = None
                           /\ pc[r] \in {"add_worker", "commit", "committed", "answered"} =>
                                worker[r] # None
                           /\ worker[r] # None => worker[r] \in started
    /\ \A r, q \in Requests : r # q /\ worker[r] = worker[q] => worker[r] = None
    /\ \A r \in Requests : pc[r] \in {"committed", "answered"} => RowOf(r) \in rows
    /\ \A row \in rows : \E r \in Entered : row = RowOf(r)

\* The next id is one more than requests have taken, and not more than there are requests.
LEMMA NextId ==
    ASSUME TypeOK, TableInv, NEW r \in Requests, id[r] = 0
    PROVE  /\ lastId \in Nat /\ lastId + 1 \in Id
           /\ Cardinality(Numbered \cup {r}) = lastId + 1
<1>1. IsFiniteSet(Requests) /\ Numbered \subseteq Requests
  BY TableAssumption DEF Numbered
<1>2. IsFiniteSet(Numbered)
  BY <1>1, FS_Subset
<1>3. r \notin Numbered
  BY DEF Numbered
<1>4. Cardinality(Numbered \cup {r}) = Cardinality(Numbered) + 1
  BY <1>2, <1>3, FS_AddElement
<1>5. Cardinality(Numbered) \in Nat /\ Cardinality(Requests) \in Nat
  BY <1>1, <1>2, FS_CardinalityType
<1>6. Cardinality(Numbered \cup {r}) <= Cardinality(Requests)
  BY <1>1, FS_Subset
<1> QED BY <1>4, <1>5, <1>6 DEF TableInv, Id

LEMMA AddWorkerKeeps ==
    ASSUME TypeOK, TableInv, NEW r \in Requests, AddWorker(r)
    PROVE  TypeOK' /\ TableInv'
<1>1. /\ pc[r] = "add_worker" /\ id[r] = 0
      /\ lastId' = lastId + 1 /\ id' = [id EXCEPT ![r] = lastId + 1]
      /\ pc' = [pc EXCEPT ![r] = "commit"]
      /\ UNCHANGED <<worker, started, rows, reader>>
  BY DEF AddWorker, TableInv
<1>2. /\ lastId \in Nat /\ lastId + 1 \in Id
      /\ Cardinality(Numbered \cup {r}) = lastId + 1
  BY <1>1, NextId
<1>3. TypeOK'
  BY <1>1, <1>2 DEF TypeOK
<1>4. /\ \A q \in Requests : id'[q] = IF q = r THEN lastId + 1 ELSE id[q]
      /\ \A q \in Requests : pc'[q] = IF q = r THEN "commit" ELSE pc[q]
      /\ \A q \in Requests : id[q] \in Nat
  BY <1>1 DEF TypeOK, Id
<1>5. Numbered' = Numbered \cup {r}
  BY <1>2, <1>4 DEF Numbered
<1>6. lastId' = Cardinality(Numbered')
  BY <1>1, <1>2, <1>5
<1>7. ASSUME NEW q \in Requests PROVE id'[q] <= lastId'
  BY <1>1, <1>2, <1>4 DEF TableInv
<1>8. ASSUME NEW p \in Requests, NEW q \in Requests, p # q, id'[p] = id'[q] PROVE id'[p] = 0
  BY <1>2, <1>4, <1>8 DEF TableInv
<1>9. ASSUME NEW q \in Requests, pc'[q] \in {"committed", "answered"}
      PROVE  RowOf(q)' \in rows'
  <2>1. q # r /\ pc'[q] = pc[q] /\ id'[q] = id[q]
    BY <1>4, <1>9
  <2> QED BY <1>1, <1>9, <2>1 DEF TableInv, RowOf
<1>10. ASSUME NEW row \in rows PROVE \E q \in Entered' : row = RowOf(q)'
  <2>1. PICK q \in Entered : row = RowOf(q)
    BY DEF TableInv
  <2>2. q # r
    BY <1>1, <2>1 DEF Entered
  <2>3. q \in Entered' /\ RowOf(q)' = RowOf(q)
    BY <1>1, <1>4, <2>1, <2>2 DEF Entered, RowOf
  <2> QED BY <2>1, <2>3
<1>11. ASSUME NEW q \in Requests
       PROVE  /\ pc'[q] \in {"new", "add_worker"} => id'[q] = 0
              /\ pc'[q] \in {"commit", "committed", "answered"} => id'[q] # 0
              /\ pc'[q] = "new" => worker'[q] = None
              /\ pc'[q] \in {"add_worker", "commit", "committed", "answered"} =>
                   worker'[q] # None
              /\ worker'[q] # None => worker'[q] \in started'
  BY <1>1, <1>2, <1>4 DEF TableInv
<1>12. \A p, q \in Requests : p # q /\ worker'[p] = worker'[q] => worker'[p] = None
  BY <1>1 DEF TableInv
<1> QED BY <1>1, <1>3, <1>6, <1>7, <1>8, <1>9, <1>10, <1>11, <1>12 DEF TableInv

LEMMA StartWorkerKeeps ==
    ASSUME TypeOK, TableInv, NEW r \in Requests, NEW w \in Workers, StartWorker(r, w)
    PROVE  TypeOK' /\ TableInv'
<1>1. PICK to \in {"add_worker", "failed"} : pc' = [pc EXCEPT ![r] = to]
  BY DEF StartWorker
<1>2. /\ pc[r] = "new" /\ w \notin started /\ started' = started \cup {w}
      /\ worker' = [worker EXCEPT ![r] = w]
      /\ UNCHANGED <<id, lastId, rows, reader>>
  BY DEF StartWorker
<1>3. TypeOK'
  BY <1>1, <1>2 DEF TypeOK
<1>4. /\ \A q \in Requests : worker'[q] = IF q = r THEN w ELSE worker[q]
      /\ \A q \in Requests : pc'[q] = IF q = r THEN to ELSE pc[q]
      /\ w # None
  BY <1>1, <1>2, TableAssumption DEF TypeOK
<1>5. ASSUME NEW q \in Requests, pc'[q] \in {"committed", "answered"}
      PROVE  RowOf(q)' \in rows'
  <2>1. q # r /\ pc'[q] = pc[q] /\ worker'[q] = worker[q]
    BY <1>4, <1>5
  <2> QED BY <1>2, <1>5, <2>1 DEF TableInv, RowOf
<1>6. ASSUME NEW row \in rows PROVE \E q \in Entered' : row = RowOf(q)'
  <2>1. PICK q \in Entered : row = RowOf(q)
    BY DEF TableInv
  <2>2. q # r
    BY <1>2, <2>1 DEF Entered
  <2>3. q \in Entered' /\ RowOf(q)' = RowOf(q)
    BY <1>2, <1>4, <2>1, <2>2 DEF Entered, RowOf
  <2> QED BY <2>1, <2>3
<1>7. \A p, q \in Requests : p # q /\ worker'[p] = worker'[q] => worker'[p] = None
  BY <1>2, <1>4 DEF TableInv
<1>8. ASSUME NEW q \in Requests
      PROVE  /\ pc'[q] \in {"new", "add_worker"} => id'[q] = 0
             /\ pc'[q] \in {"commit", "committed", "answered"} => id'[q] # 0
             /\ pc'[q] = "new" => worker'[q] = None
             /\ pc'[q] \in {"add_worker", "commit", "committed", "answered"} => worker'[q] # None
             /\ worker'[q] # None => worker'[q] \in started'
  BY <1>2, <1>4 DEF TableInv
<1>9. Numbered' = Numbered
  BY <1>2 DEF Numbered
<1> QED BY <1>2, <1>3, <1>5, <1>6, <1>7, <1>8, <1>9 DEF TableInv

LEMMA CommitKeeps ==
    ASSUME TypeOK, TableInv, NEW r \in Requests, Commit(r)
    PROVE  TypeOK' /\ TableInv'
<1>1. /\ pc[r] = "commit" /\ pc' = [pc EXCEPT ![r] = "committed"]
      /\ rows' = rows \cup {RowOf(r)}
      /\ UNCHANGED <<worker, id, started, lastId, reader>>
  BY DEF Commit, RowOf
<1>2. RowOf(r) \in Row
  BY <1>1 DEF RowOf, Row, TypeOK, TableInv
<1>3. TypeOK'
  BY <1>1, <1>2 DEF TypeOK
<1>4. \A q \in Requests : RowOf(q)' = RowOf(q)
  BY <1>1 DEF RowOf
<1>5. \A q \in Requests : pc'[q] = IF q = r THEN "committed" ELSE pc[q]
  BY <1>1 DEF TypeOK
<1>6. Numbered' = Numbered
  BY <1>1 DEF Numbered
<1>7. ASSUME NEW q \in Requests, pc'[q] \in {"committed", "answered"}
      PROVE  RowOf(q)' \in rows'
  BY <1>1, <1>4, <1>5, <1>7 DEF TableInv
<1>8. ASSUME NEW row \in rows' PROVE \E q \in Entered' : row = RowOf(q)'
  <2>1. r \in Entered'
    BY <1>1, <1>5 DEF Entered, TableInv
  <2>2. Entered \subseteq Entered'
    BY <1>1, <1>5 DEF Entered
  <2>3. CASE row = RowOf(r)
    BY <1>4, <2>1, <2>3
  <2>4. CASE row \in rows
    <3>1. PICK q \in Entered : row = RowOf(q)
      BY <2>4 DEF TableInv
    <3> QED BY <1>4, <2>2, <3>1 DEF Entered
  <2> QED BY <1>1, <2>3, <2>4
<1> QED BY <1>1, <1>3, <1>5, <1>6, <1>7, <1>8 DEF TableInv

\* The steps of a request that change neither its row nor the table.
LEMMA EndKeeps ==
    ASSUME TypeOK, TableInv, NEW r \in Requests, NEW to \in {"answered", "failed"},
           to = "answered" => pc[r] = "committed",
           pc' = [pc EXCEPT ![r] = to],
           UNCHANGED <<worker, id, started, lastId, rows, reader>>
    PROVE  TypeOK' /\ TableInv'
<1>1. TypeOK'
  BY DEF TypeOK
<1>2. \A q \in Requests : RowOf(q)' = RowOf(q)
  BY DEF RowOf
<1>3. \A q \in Requests : pc'[q] = IF q = r THEN to ELSE pc[q]
  BY DEF TypeOK
<1>4. Numbered' = Numbered
  BY DEF Numbered
<1>5. ASSUME NEW q \in Requests, pc'[q] \in {"committed", "answered"}
      PROVE  RowOf(q)' \in rows'
  <2>1. pc[q] \in {"committed", "answered"}
    BY <1>3, <1>5
  <2> QED BY <1>2, <2>1 DEF TableInv
<1>6. ASSUME NEW row \in rows PROVE \E q \in Entered' : row = RowOf(q)'
  <2>1. Entered \subseteq Entered'
    BY <1>3 DEF Entered
  <2>2. PICK q \in Entered : row = RowOf(q)
    BY DEF TableInv
  <2> QED BY <1>2, <2>1, <2>2 DEF Entered
<1> QED BY <1>1, <1>3, <1>4, <1>5, <1>6 DEF TableInv

\* No two rows have the same id or the same worker.
LEMMA RowsDiffer ==
    ASSUME TypeOK, TableInv
    PROVE  \A a, b \in rows : a # b => a.id # b.id /\ a.worker # b.worker
<1> SUFFICES ASSUME NEW a \in rows, NEW b \in rows, a # b
             PROVE  a.id # b.id /\ a.worker # b.worker
  OBVIOUS
<1>1. PICK r \in Entered : a = RowOf(r)
  BY DEF TableInv
<1>2. PICK q \in Entered : b = RowOf(q)
  BY DEF TableInv
<1>3. r # q
  BY <1>1, <1>2
<1>4. /\ id[r] # 0 /\ id[q] # 0
      /\ worker[r] # None /\ worker[q] # None
      /\ r \in Requests /\ q \in Requests
  BY <1>1, <1>2 DEF Entered
<1>5. id[r] # id[q] /\ worker[r] # worker[q]
  BY <1>3, <1>4 DEF TableInv
<1>6. /\ a.id = id[r] /\ a.worker = worker[r]
      /\ b.id = id[q] /\ b.worker = worker[q]
  BY <1>1, <1>2 DEF RowOf
<1> QED BY <1>5, <1>6

\* A page has each worker at most once, and in the order of ids all rows up to its last.
LEMMA PageRead ==
    ASSUME TypeOK, TableInv, ReadPage
    PROVE  /\ reader.pc = "reading" /\ UNCHANGED tableVars
           /\ \E end \in Behind(reader.cursor), ordered \in BOOLEAN,
                 count \in [Workers -> {0, 1}] :
                /\ reader' = [pc |-> "reading", cursor |-> end.id,
                              inOrder |-> (reader.inOrder /\ ordered), old |-> reader.old,
                              seen |-> [w \in Workers |-> reader.seen[w] + count[w]]]
                /\ ordered => \A row \in Behind(reader.cursor) :
                                row.id <= end.id => count[row.worker] = 1
                /\ \A w \in Workers : count[w] = 1 =>
                     \E row \in Behind(reader.cursor) : row.worker = w /\ row.id <= end.id
<1> DEFINE found == Behind(reader.cursor)
<1>1. PICK page \in Page : \E end \in page :
        (\A row \in page : row.id <= end.id) /\ Read(page, end)
  BY DEF ReadPage
<1>2. PICK end \in page : (\A row \in page : row.id <= end.id) /\ Read(page, end)
  BY <1>1
<1>3. reader.pc = "reading" /\ UNCHANGED tableVars
  BY DEF ReadPage
<1>4. found \subseteq rows /\ rows \subseteq Row /\ page \subseteq found /\ end \in found
  BY <1>1, <1>2 DEF Behind, Page, TypeOK
<1> DEFINE of(w) == {row \in page : row.worker = w}
           count == [w \in Workers |-> Cardinality(of(w))]
           ordered == InKeyOrder(page)
<1>5. \A a, b \in page : a.worker = b.worker => a = b
  BY <1>4, RowsDiffer
<1>6. ASSUME NEW w \in Workers, NEW row \in of(w) PROVE Cardinality(of(w)) = 1
  <2>1. of(w) = {row}
    BY <1>5
  <2> QED BY <2>1, FS_Singleton
<1>7. ASSUME NEW w \in Workers, of(w) = {} PROVE Cardinality(of(w)) = 0
  BY <1>7, FS_EmptySet
<1>8. count \in [Workers -> {0, 1}]
  <2>1. ASSUME NEW w \in Workers PROVE Cardinality(of(w)) \in {0, 1}
    <3>1. CASE of(w) = {}
      BY <1>7, <3>1
    <3>2. CASE of(w) # {}
      <4>1. PICK row : row \in of(w)
        BY <3>2
      <4> QED BY <1>6, <4>1
    <3> QED BY <3>1, <3>2
  <2> QED BY <2>1
<1>9. reader' = [pc |-> "reading", cursor |-> end.id, inOrder |-> (reader.inOrder /\ ordered),
                 old |-> reader.old, seen |-> [w \in Workers |-> reader.seen[w] + count[w]]]
  <2>1. reader' = [reader EXCEPT !.cursor = end.id, !.inOrder = @ /\ ordered,
            !.seen = [w \in Workers |-> @[w] + Cardinality(of(w))]]
    BY <1>2 DEF Read
  <2>2. [w \in Workers |-> reader.seen[w] + Cardinality(of(w))]
          = [w \in Workers |-> reader.seen[w] + count[w]]
    OBVIOUS
  <2> HIDE DEF count, of, ordered
  <2> QED BY <1>3, <2>1, <2>2 DEF TypeOK
<1>10. ASSUME ordered, NEW row \in found, row.id <= end.id PROVE count[row.worker] = 1
  <2>1. row \in page
    <3>1. row.id \in Nat /\ end.id \in Nat
      BY <1>4 DEF Row, Id
    <3>2. row \notin page => end.id < row.id
      BY <1>10 DEF InKeyOrder
    <3> QED BY <1>10, <3>1, <3>2
  <2>2. row \in of(row.worker) /\ row.worker \in Workers
    BY <1>4, <2>1 DEF Row
  <2>3. Cardinality(of(row.worker)) = 1
    BY <1>6, <2>2
  <2> QED BY <2>2, <2>3
<1>11. ASSUME NEW w \in Workers, count[w] = 1
       PROVE  \E row \in found : row.worker = w /\ row.id <= end.id
  <2>1. count[w] = Cardinality(of(w))
    OBVIOUS
  <2>2. of(w) # {}
    BY <1>7, <1>11, <2>1
  <2> QED BY <1>2, <1>4, <2>2
<1>12. ordered \in BOOLEAN
  BY DEF InKeyOrder
<1> HIDE DEF count, ordered
<1> QED BY <1>3, <1>4, <1>8, <1>9, <1>10, <1>11, <1>12

-----------------------------------------------------------------------------
\* What the reader has seen is up to its cursor; of the rows it found when it began it has
\* seen those that are, if the pages were in order.
ReaderInv ==
    /\ \A w \in Workers : reader.seen[w] \in {0, 1}
    /\ \A w \in Workers : reader.seen[w] = 1 =>
         \E row \in rows : row.worker = w /\ row.id <= reader.cursor
    /\ reader.inOrder => \A w \in reader.old :
         \E row \in rows : row.worker = w /\ (row.id <= reader.cursor => reader.seen[w] = 1)
    /\ reader.pc = "new" => reader.cursor = 0 /\ reader.old = {}
    /\ reader.pc = "done" /\ reader.inOrder => \A w \in reader.old : reader.seen[w] = 1

Inv == TypeOK /\ TableInv /\ ReaderInv

LEMMA StartReadingKeeps ==
    ASSUME Inv, StartReading
    PROVE  TypeOK' /\ ReaderInv'
<1>1. /\ reader.pc = "new"
      /\ reader' = [reader EXCEPT !.pc = "reading", !.old = {row.worker : row \in rows}]
      /\ UNCHANGED tableVars
  BY DEF StartReading
<1>2. reader.cursor = 0
  BY <1>1 DEF Inv, ReaderInv
<1>3. TypeOK'
  <2>1. {row.worker : row \in rows} \in SUBSET Workers
    BY DEF Inv, TypeOK, Row
  <2> DEFINE all == {row.worker : row \in rows}
  <2> HIDE DEF all
  <2>2. /\ all \in SUBSET Workers
        /\ reader' = [reader EXCEPT !.pc = "reading", !.old = all]
    BY <1>1, <2>1 DEF all
  <2> QED BY <1>1, <2>2 DEF Inv, TypeOK, tableVars
<1>4. /\ reader'.pc = "reading" /\ reader'.cursor = 0 /\ reader'.seen = reader.seen
      /\ reader'.old = {row.worker : row \in rows} /\ reader'.inOrder = reader.inOrder
      /\ rows' = rows
  BY <1>1, <1>2 DEF Inv, TypeOK, tableVars
<1>5. \A row \in rows : ~ (row.id <= 0)
  BY DEF Inv, TypeOK, Row, Id
<1> QED BY <1>2, <1>3, <1>4, <1>5 DEF Inv, ReaderInv

LEMMA ReadPageKeeps ==
    ASSUME Inv, ReadPage
    PROVE  TypeOK' /\ ReaderInv'
<1>0. TypeOK /\ TableInv /\ ReaderInv
  BY DEF Inv
<1>1. PICK end \in Behind(reader.cursor), ordered \in BOOLEAN, count \in [Workers -> {0, 1}] :
        /\ reader' = [pc |-> "reading", cursor |-> end.id,
                      inOrder |-> (reader.inOrder /\ ordered), old |-> reader.old,
                      seen |-> [w \in Workers |-> reader.seen[w] + count[w]]]
        /\ ordered => \A row \in Behind(reader.cursor) :
                        row.id <= end.id => count[row.worker] = 1
        /\ \A w \in Workers : count[w] = 1 =>
             \E row \in Behind(reader.cursor) : row.worker = w /\ row.id <= end.id
  BY <1>0, PageRead
<1>2. reader.pc = "reading" /\ UNCHANGED tableVars
  BY <1>0, PageRead
<1>3. end \in rows /\ end.id > reader.cursor /\ end.id \in Id /\ reader.cursor \in {0} \cup Id
  BY <1>0 DEF Behind, TypeOK, Row
<1>4. \A row \in rows : row \in Row /\ row.id \in Nat
  BY <1>0 DEF TypeOK, Row, Id
<1>5. reader.cursor \in Nat /\ end.id \in Nat
  BY <1>3 DEF Id
<1>6. /\ reader'.pc = "reading" /\ reader'.cursor = end.id /\ reader'.old = reader.old
      /\ reader'.inOrder <=> reader.inOrder /\ ordered
      /\ \A w \in Workers : reader'.seen[w] = reader.seen[w] + count[w]
      /\ rows' = rows
  BY <1>1, <1>2 DEF tableVars
<1>7. TypeOK'
  <2>1. [w \in Workers |-> reader.seen[w] + count[w]] \in [Workers -> Nat]
    BY <1>0 DEF TypeOK
  <2>2. (reader.inOrder /\ ordered) \in BOOLEAN
    OBVIOUS
  <2> QED BY <1>0, <1>1, <1>2, <1>3, <2>1, <2>2 DEF TypeOK, tableVars
<1>8. ASSUME NEW w \in Workers, count[w] = 1 PROVE reader.seen[w] = 0
  <2>1. PICK row \in rows : row.worker = w /\ row.id > reader.cursor
    BY <1>1, <1>8 DEF Behind
  <2>2. ASSUME NEW q \in rows, q.worker = w, q.id <= reader.cursor PROVE FALSE
    <3>1. row # q
      BY <1>4, <1>5, <2>1, <2>2
    <3> QED BY <1>0, <2>1, <2>2, <3>1, RowsDiffer
  <2> QED BY <1>0, <2>2 DEF ReaderInv
<1>9. ASSUME NEW w \in Workers
      PROVE  /\ reader'.seen[w] \in {0, 1}
             /\ reader'.seen[w] = 1 => reader.seen[w] = 1 \/ count[w] = 1
             /\ reader.seen[w] = 1 \/ count[w] = 1 => reader'.seen[w] = 1
  <2>1. reader.seen[w] \in {0, 1} /\ count[w] \in {0, 1}
    BY <1>0 DEF ReaderInv
  <2> QED BY <1>6, <1>8, <2>1
<1>10. ASSUME NEW w \in Workers, reader'.seen[w] = 1
       PROVE  \E row \in rows : row.worker = w /\ row.id <= end.id
  <2>1. CASE reader.seen[w] = 1
    <3>1. PICK row \in rows : row.worker = w /\ row.id <= reader.cursor
      BY <1>0, <2>1 DEF ReaderInv
    <3> QED BY <1>3, <1>4, <1>5, <3>1
  <2>2. CASE count[w] = 1
    BY <1>1, <2>2 DEF Behind
  <2> QED BY <1>9, <1>10, <2>1, <2>2
<1>11. ASSUME reader'.inOrder, NEW w \in reader.old
       PROVE  \E row \in rows : row.worker = w /\ (row.id <= end.id => reader'.seen[w] = 1)
  <2>1. PICK row \in rows : row.worker = w /\ (row.id <= reader.cursor => reader.seen[w] = 1)
    BY <1>0, <1>6, <1>11 DEF ReaderInv
  <2>2. w \in Workers
    BY <1>0 DEF TypeOK
  <2>3. CASE row.id <= reader.cursor
    BY <1>9, <2>1, <2>2, <2>3
  <2>4. CASE row.id > reader.cursor
    <3>1. row.id <= end.id => count[w] = 1
      BY <1>1, <1>6, <1>11, <2>1, <2>4 DEF Behind
    <3> QED BY <1>9, <2>1, <2>2, <3>1
  <2> QED BY <1>4, <1>5, <2>3, <2>4
<1> QED BY <1>6, <1>7, <1>9, <1>10, <1>11 DEF ReaderInv

LEMMA EndReadingKeeps ==
    ASSUME Inv, EndReading
    PROVE  TypeOK' /\ ReaderInv'
<1>0. TypeOK /\ ReaderInv
  BY DEF Inv
<1>1. /\ Behind(reader.cursor) = {}
      /\ reader' = [reader EXCEPT !.pc = "done"]
      /\ UNCHANGED tableVars
  BY DEF EndReading
<1>2. /\ reader'.pc = "done" /\ reader'.cursor = reader.cursor
      /\ reader'.seen = reader.seen /\ reader'.old = reader.old
      /\ reader'.inOrder = reader.inOrder
      /\ rows' = rows
  BY <1>0, <1>1 DEF TypeOK, tableVars
<1>3. \A row \in rows : row.id <= reader.cursor
  <2>1. \A row \in rows : ~ (row.id > reader.cursor)
    BY <1>1 DEF Behind
  <2>2. reader.cursor \in Nat /\ \A row \in rows : row.id \in Nat
    BY <1>0 DEF TypeOK, Row, Id
  <2> QED BY <2>1, <2>2
<1>4. reader.inOrder => \A w \in reader.old : reader.seen[w] = 1
  BY <1>0, <1>3 DEF ReaderInv
<1>5. TypeOK'
  BY <1>0, <1>1 DEF TypeOK, tableVars
<1> QED BY <1>0, <1>2, <1>4, <1>5 DEF ReaderInv

\* Rows that are added take nothing from what the reader has seen.
LEMMA MoreRows ==
    ASSUME ReaderInv, reader' = reader, rows \subseteq rows'
    PROVE  ReaderInv'
BY DEF ReaderInv

LEMMA InitHolds == Init => Inv
<1> SUFFICES ASSUME Init PROVE Inv
  OBVIOUS
<1>1. TypeOK
  BY DEF Init, TypeOK
<1>2. Numbered = {} /\ Cardinality(Numbered) = 0
  <2>1. Numbered = {}
    BY DEF Init, Numbered
  <2> QED BY <2>1, FS_EmptySet
<1>3. TableInv
  BY <1>2 DEF Init, TableInv
<1>4. ReaderInv
  BY DEF Init, ReaderInv
<1> QED BY <1>1, <1>3, <1>4 DEF Inv

LEMMA NextKeeps == Inv /\ [Next]_vars => Inv'
<1> SUFFICES ASSUME Inv, [Next]_vars PROVE Inv'
  OBVIOUS
<1>0. TypeOK /\ TableInv /\ ReaderInv
  BY DEF Inv
<1>1. ASSUME UNCHANGED tableVars PROVE TableInv'
  <2>1. /\ pc' = pc /\ worker' = worker /\ id' = id /\ started' = started
        /\ lastId' = lastId /\ rows' = rows
    BY <1>1 DEF tableVars
  <2>2. /\ Numbered' = Numbered /\ Entered' = Entered
        /\ \A r \in Requests : RowOf(r)' = RowOf(r)
    BY <2>1 DEF Numbered, Entered, RowOf
  <2>3. \A row \in rows : \E r \in Entered : row = RowOf(r)'
    BY <1>0, <2>2 DEF TableInv, Entered
  <2> QED BY <1>0, <2>1, <2>2, <2>3 DEF TableInv
<1>2. ASSUME NEW r \in Requests, NEW w \in Workers, StartWorker(r, w) PROVE Inv'
  <2>1. reader' = reader /\ rows' = rows
    BY <1>2 DEF StartWorker
  <2> QED BY <1>0, <1>2, <2>1, StartWorkerKeeps, MoreRows DEF Inv
<1>3. ASSUME NEW r \in Requests, NoNode(r) \/ RollBack(r) PROVE Inv'
  <2>1. /\ pc' = [pc EXCEPT ![r] = "failed"]
        /\ UNCHANGED <<worker, id, started, lastId, rows, reader>>
    BY <1>3 DEF NoNode, RollBack
  <2> QED BY <1>0, <2>1, EndKeeps, MoreRows DEF Inv
<1>4. ASSUME NEW r \in Requests, AddWorker(r) PROVE Inv'
  <2>1. reader' = reader /\ rows' = rows
    BY <1>4 DEF AddWorker
  <2> QED BY <1>0, <1>4, <2>1, AddWorkerKeeps, MoreRows DEF Inv
<1>5. ASSUME NEW r \in Requests, Commit(r) PROVE Inv'
  <2>1. reader' = reader /\ rows \subseteq rows'
    BY <1>5 DEF Commit
  <2> QED BY <1>0, <1>5, <2>1, CommitKeeps, MoreRows DEF Inv
<1>6. ASSUME StartReading PROVE Inv'
  BY <1>1, <1>6, StartReadingKeeps DEF Inv, StartReading
<1>7. ASSUME ReadPage PROVE Inv'
  BY <1>1, <1>7, ReadPageKeeps DEF Inv, ReadPage
<1>8. ASSUME EndReading PROVE Inv'
  BY <1>1, <1>8, EndReadingKeeps DEF Inv, EndReading
<1>9. ASSUME NEW r \in Requests, Answer(r) PROVE Inv'
  <2>1. PICK to \in {"answered", "failed"} : pc' = [pc EXCEPT ![r] = to]
    BY <1>9 DEF Answer
  <2>2. pc[r] = "committed" /\ UNCHANGED <<worker, id, started, lastId, rows, reader>>
    BY <1>9 DEF Answer
  <2> QED BY <1>0, <2>1, <2>2, EndKeeps, MoreRows DEF Inv
<1>10. ASSUME UNCHANGED vars PROVE Inv'
  <2>1. UNCHANGED tableVars /\ reader' = reader /\ rows' = rows
    BY <1>10 DEF vars, tableVars
  <2>2. TypeOK'
    BY <1>0, <2>1 DEF TypeOK, tableVars
  <2> QED BY <1>0, <1>1, <2>1, <2>2, MoreRows DEF Inv
<1> QED BY <1>2, <1>3, <1>4, <1>5, <1>6, <1>7, <1>8, <1>9, <1>10 DEF Next

LEMMA InvHolds == Spec => []Inv
<1> QED BY InitHolds, NextKeeps, PTL DEF Spec

\* Requests, the table and its reader keep their types: an id is never larger than the
\* number of requests that were made.
THEOREM TypeCorrect == Spec => []TypeOK
<1>1. Inv => TypeOK
  BY DEF Inv
<1> QED BY <1>1, InvHolds, PTL

\* A request that was answered has its row in the table, of a worker that was started and
\* that no other row names, whatever transactions end in which order.
THEOREM AnswersHaveRows == Spec => []RowPerAnswer
<1>1. Inv => RowPerAnswer
  <2> SUFFICES ASSUME Inv PROVE RowPerAnswer
    OBVIOUS
  <2>1. TypeOK /\ TableInv
    BY DEF Inv
  <2>2. \A r \in Requests : pc[r] = "answered" => RowOf(r) \in rows
    BY <2>1 DEF TableInv
  <2>3. ASSUME NEW row \in rows PROVE row.worker \in started
    <3>1. PICK q \in Entered : row = RowOf(q)
      BY <2>1 DEF TableInv
    <3> QED BY <2>1, <3>1 DEF TableInv, Entered, RowOf
  <2>4. \A a, b \in rows : a # b => a.id # b.id /\ a.worker # b.worker
    BY <2>1, RowsDiffer
  <2> QED BY <2>2, <2>3, <2>4 DEF RowPerAnswer, RowOf
<1> QED BY <1>1, InvHolds, PTL

\* Who pages through the table sees no worker twice, for any limit, any pages and whatever
\* is entered meanwhile; and with pages in the order of ids, all that were there at the
\* beginning.
THEOREM OldWorkersAreSeen == Spec => []ReadsAllOld
<1>1. Inv => ReadsAllOld
  <2> SUFFICES ASSUME Inv PROVE ReadsAllOld
    OBVIOUS
  <2>1. \A w \in Workers : reader.seen[w] \in {0, 1}
    BY DEF Inv, ReaderInv
  <2>2. \A w \in Workers : reader.seen[w] <= 1
    BY <2>1
  <2> QED BY <2>2 DEF Inv, ReaderInv, ReadsAllOld
<1> QED BY <1>1, InvHolds, PTL
=============================================================================
