------------------------ MODULE ObjectIndexesProofs ------------------------
(***************************************************************************)
(* Proofs about ObjectIndexes: the rows never disturb the records, a row   *)
(* in the table is a row of a committed write, a transacted create is      *)
(* whole; and what has to go wrong for a write not to be found, or for a   *)
(* row of an old value to stay.                                            *)
(***************************************************************************)
EXTENDS ObjectIndexes, ObjectRecordsProofs

------------------------------------------------------------------------------
(* The records *)

LEMMA IndexStepIsRecordStep ==
  [IndexNext]_allVars => [Next]_vars
<1> SUFFICES ASSUME [IndexNext]_allVars
             PROVE  [Next]_vars
  OBVIOUS
<1>1. ASSUME RowFreeStep
      PROVE  Next
  <2>1. ASSUME NEW w \in Workers, NEW id \in ObjectIds, NEW v \in Versions, NEW p \in Payloads,
               PutUpdate(w, id, v, p) \/ ConfirmPutLarge(w, id, v, p)
        PROVE  Next
    BY <2>1 DEF Next
  <2>2. ASSUME NEW w \in Workers, ReadRecord(w) \/ TagBlob(w) \/ UntagBlob(w)
        PROVE  Next
    BY <2>2 DEF Next
  <2>3. ASSUME NEW w \in Workers, NEW id \in ObjectIds, Recover(w, id)
        PROVE  Next
    BY <2>3 DEF Next
  <2>4. ASSUME NEW id \in ObjectIds, NEW p \in Payloads, RequestCreate(id, p) \/ RequestUpdate(id, p)
        PROVE  Next
    BY <2>4 DEF Next
  <2>5. ASSUME NEW k \in Keys, NEW p \in Payloads, Upload(k, p) \/ UrlExpires(k, p)
        PROVE  Next
    BY <2>5 DEF Next
  <2>6. ASSUME NEW id \in ObjectIds, ReplicaSync(id)
        PROVE  Next
    BY <2>6 DEF Next
  <2>7. ASSUME NEW k \in Keys, LifecycleExpire(k)
        PROVE  Next
    BY <2>7 DEF Next
  <2> QED
    BY <1>1, <2>1, <2>2, <2>3, <2>4, <2>5, <2>6, <2>7 DEF RowFreeStep
<1>2. ASSUME NEW w \in Workers, NEW id \in ObjectIds, NEW p \in Payloads, CreateInline(w, id, p)
      PROVE  Next
  BY <1>2 DEF CreateInline, Next
<1>3. ASSUME NEW w \in Workers, CreateLarge(w) \/ CommitUpdate(w) \/ AnswerIndexed(w) \/ FailIndexing(w)
      PROVE  Next
  BY <1>3 DEF CreateLarge, CommitUpdate, AnswerIndexed, FailIndexing, Next
<1>4. ASSUME NEW w \in Workers, NEW id \in ObjectIds, DeleteObject(w, id)
      PROVE  Next
  BY <1>4 DEF DeleteObject, Next
<1>5. ASSUME NEW id \in ObjectIds, PurgeObject(id)
      PROVE  Next
  BY <1>5 DEF PurgeObject, Next
<1>6. ASSUME NEW w \in Workers, QueryRows(w) \/ DeleteRow(w) \/ PutRow(w) \/ WriteBatch(w)
      PROVE  UNCHANGED vars
  BY <1>6 DEF QueryRows, DeleteRow, PutRow, WriteBatch
<1>7. ASSUME NEW c \in cleanups, CleanupQuery(c) \/ CleanupDelete(c) \/ CleanupCancelled(c)
      PROVE  UNCHANGED vars
  BY <1>7 DEF CleanupQuery, CleanupDelete, CleanupCancelled
<1>8. ASSUME GsiSync \/ UNCHANGED allVars
      PROVE  UNCHANGED vars
  BY <1>8 DEF GsiSync, allVars
<1> QED
  BY <1>1, <1>2, <1>3, <1>4, <1>5, <1>6, <1>7, <1>8 DEF IndexNext

\* Every behaviour of the objects with their index rows is, rows aside, one of
\* ObjectRecords: index maintenance, cut wherever it may be, costs the records
\* none of their properties.
THEOREM RecordsKept == IndexSpec => Spec
<1>1. IndexInit => Init
  BY DEF IndexInit
<1> QED
  BY <1>1, IndexStepIsRecordStep, PTL DEF IndexSpec, Spec

\* ... so what is proved of the records holds of the composition.
THEOREM RecordsInvariance == IndexSpec => []IInv
BY RecordsKept, Invariance, PTL

\* With their index rows, the cut transactions and clean-ups included, the handlers
\* still implement the atomic versioned register.
THEOREM RecordsImplement == IndexSpec => ImplementsVersionedObjects
BY RecordsKept, Refinement, PTL

------------------------------------------------------------------------------
(* The rows *)

RowsInv ==
  /\ IndexTypeOK
  /\ RowsWereWritten
  \* what is left to put belongs to a committed write,
  /\ \A w \in Workers : plan[w] # None => plan[w].put \subseteq WrittenRows
  \* and a request in its index phase has been committed.
  /\ \A w \in Workers : pc[w] = "index" => <<req[w].id, req[w].payload>> \in written

LEMMA RowsOfType ==
  ASSUME NEW id \in ObjectIds, NEW p \in Payloads
  PROVE  RowsOf(id, p) \subseteq Rows
BY IndexAssumption DEF RowsOf, Rows

LEMMA LastOfType ==
  ASSUME NEW S, NEW d \in LastOf(S)
  PROVE  d \subseteq S
BY DEF LastOf

LEMMA CommittedRows ==
  ASSUME NEW m \in written
  PROVE  RowsOf(m[1], m[2]) \subseteq WrittenRows
BY DEF WrittenRows

\* The history only grows, and the rows of written writes with it.
LEMMA WrittenGrows ==
  ASSUME written \subseteq written'
  PROVE  WrittenRows \subseteq WrittenRows'
BY DEF WrittenRows, RowsOf

\* A step that takes no request into its index phase and puts no row.
LEMMA QuietRows ==
  ASSUME RowsInv, IndexTypeOK',
         rows' \subseteq rows,
         UNCHANGED written,
         \A w \in Workers : plan'[w] # None =>
           plan'[w].put \subseteq WrittenRows,
         \A w \in Workers : pc'[w] = "index" => pc[w] = "index" /\ req'[w] = req[w]
  PROVE  RowsInv'
<1>1. WrittenRows' = WrittenRows
  BY DEF WrittenRows, RowsOf
<1> QED
  BY <1>1 DEF RowsInv, RowsWereWritten

LEMMA RowsInit == IndexInit => RowsInv
BY DEF IndexInit, Init, RowsInv, IndexTypeOK, RowsWereWritten

\* A create that commits, from a client's Put or a confirmed upload.
LEMMA CommitRowsStep ==
  ASSUME RowsInv, NEW w \in Workers, NEW id \in ObjectIds, NEW p \in Payloads,
         CommitRows(w, id, p),
         req'[w].id = id, req'[w].payload = p,
         \A u \in Workers \ {w} : pc'[u] = "index" => pc[u] = "index" /\ req'[u] = req[u]
  PROVE  RowsInv'
<1> USE DEF RowsInv, IndexTypeOK
<1>1. written' = written \cup {<<id, p>>} /\ gsi' = gsi /\ cleanups' = cleanups
  BY DEF CommitRows, Commit
<1>2. RowsOf(id, p) \subseteq Rows
  BY RowsOfType
<1>3. RowsOf(id, p) \subseteq WrittenRows'
  <2>1. <<id, p>> \in written'
    BY <1>1
  <2> QED
    BY <2>1 DEF WrittenRows, RowsOf
<1>4. WrittenRows \subseteq WrittenRows'
  BY <1>1, WrittenGrows
<1>5. rows' \subseteq rows \cup RowsOf(id, p)
  BY DEF CommitRows
<1>6. \E put \in SUBSET RowsOf(id, p) : plan' = [plan EXCEPT ![w] = [del |-> {}, put |-> put]]
  BY DEF CommitRows, Todo
<1>7. PICK put \in SUBSET RowsOf(id, p) : plan' = [plan EXCEPT ![w] = [del |-> {}, put |-> put]]
  BY <1>6
<1>8. [del |-> {}, put |-> put] \in Plans
  BY <1>2 DEF Plans
<1>9. IndexTypeOK'
  BY <1>1, <1>2, <1>5, <1>7, <1>8
<1>10. RowsWereWritten'
  BY <1>3, <1>4, <1>5 DEF RowsWereWritten
<1>11. \A u \in Workers : plan'[u] # None => plan'[u].put \subseteq WrittenRows'
  <2>1. plan'[w].put = put
    BY <1>7
  <2>2. \A u \in Workers \ {w} : plan'[u] = plan[u]
    BY <1>7
  <2> QED
    BY <1>3, <1>4, <2>1, <2>2
<1>12. \A u \in Workers : pc'[u] = "index" => <<req'[u].id, req'[u].payload>> \in written'
  BY <1>1
<1> QED
  BY <1>9, <1>10, <1>11, <1>12

\* The steps that leave all rows and plans alone neither put a request into its index
\* phase nor take one out of it, answer none, and replace no record's data.
LEMMA RowFreeKeeps ==
  ASSUME IInv, RowFreeStep
  PROVE  /\ \A u \in Workers : pc[u] = "index" \/ pc'[u] = "index" =>
                               pc'[u] = pc[u] /\ req'[u] = req[u]
         /\ acks' = acks
         /\ \A id \in ObjectIds :
              \/ objects'[id] = objects[id]
              \/ /\ objects[id] # None /\ objects'[id] # None
                 /\ objects'[id].version > 1 /\ objects'[id].dek = objects[id].dek
<1> DEFINE Keeps == /\ \A u \in Workers : pc[u] = "index" \/ pc'[u] = "index" =>
                                          pc'[u] = pc[u] /\ req'[u] = req[u]
                    /\ acks' = acks
           Later == \A id \in ObjectIds :
                      \/ objects'[id] = objects[id]
                      \/ /\ objects[id] # None /\ objects'[id] # None
                         /\ objects'[id].version > 1 /\ objects'[id].dek = objects[id].dek
<1> USE DEF IInv, TypeOK
<1>1. ASSUME NEW w \in Workers, NEW id \in ObjectIds, NEW v \in Versions, NEW p \in Payloads,
             PutUpdate(w, id, v, p) \/ ConfirmPutLarge(w, id, v, p)
      PROVE  Keeps /\ Later
  BY <1>1 DEF PutUpdate, ConfirmPutLarge, Goto, Idle, recVars
<1>2. ASSUME NEW w \in Workers, ReadRecord(w) \/ TagBlob(w) \/ UntagBlob(w)
      PROVE  Keeps /\ Later
  BY <1>2 DEF ReadRecord, TagBlob, UntagBlob, Return, Goto, recVars
<1>3. ASSUME NEW w \in Workers, NEW id \in ObjectIds, Recover(w, id)
      PROVE  Keeps /\ Later
  <2>1. Keeps
    BY <1>3 DEF Recover, ThenBlob, Goto, Idle
  <2>2. TypeInv
    BY DEF TypeInv
  <2>3. /\ objects[id] \in Record /\ objects'[id] \in Record
        /\ objects'[id].version = objects[id].version + 1
        /\ objects'[id].dek = objects[id].dek
        /\ \A i \in ObjectIds \ {id} : objects'[i] = objects[i]
    BY <1>3, <2>2, FlipFields
  <2>4. objects[id].version \in Nat \ {0}
    BY <2>3, BoundAssumption DEF Record, Versions
  <2> QED
    BY <2>1, <2>3, <2>4, NoneAssumption
<1>4. ASSUME NEW id \in ObjectIds, NEW p \in Payloads, RequestCreate(id, p) \/ RequestUpdate(id, p)
      PROVE  Keeps /\ Later
  BY <1>4 DEF RequestCreate, RequestUpdate, workVars, recVars
<1>5. ASSUME NEW k \in Keys, NEW p \in Payloads, Upload(k, p) \/ UrlExpires(k, p)
      PROVE  Keeps /\ Later
  BY <1>5 DEF Upload, UrlExpires, workVars, recVars
<1>6. ASSUME NEW id \in ObjectIds, ReplicaSync(id)
      PROVE  Keeps /\ Later
  BY <1>6 DEF ReplicaSync, workVars
<1>7. ASSUME NEW k \in Keys, LifecycleExpire(k)
      PROVE  Keeps /\ Later
  BY <1>7 DEF LifecycleExpire, workVars, recVars
<1> QED
  BY <1>1, <1>2, <1>3, <1>4, <1>5, <1>6, <1>7 DEF RowFreeStep

LEMMA RowFreeSteps ==
  ASSUME RowsInv, IInv, RowFreeStep
  PROVE  RowsInv'
<1>1. UNCHANGED <<rows, gsi, plan, cleanups, written>>
  BY DEF RowFreeStep, idxVars
<1> QED
  BY <1>1, RowFreeKeeps, QuietRows DEF RowsInv, IndexTypeOK

\* The commits.
LEMMA CommitSteps ==
  ASSUME RowsInv, IInv, NEW w \in Workers,
         \/ \E id \in ObjectIds, p \in Payloads : CreateInline(w, id, p)
         \/ CreateLarge(w)
         \/ CommitUpdate(w)
  PROVE  RowsInv'
<1> USE DEF IInv, TypeOK, WorkersOK
<1>1. ASSUME NEW id \in ObjectIds, NEW p \in Payloads, CreateInline(w, id, p)
      PROVE  RowsInv'
  <2>1. req'[w].id = id /\ req'[w].payload = p
    BY <1>1 DEF CreateInline, PutCreate
  <2>2. \A u \in Workers \ {w} : pc'[u] = "index" => pc[u] = "index" /\ req'[u] = req[u]
    BY <1>1 DEF CreateInline, PutCreate, Goto
  <2> QED
    BY <1>1, <2>1, <2>2, CommitRowsStep DEF CreateInline
<1>2. ASSUME CreateLarge(w)
      PROVE  RowsInv'
  <2>1. pc[w] = "create" /\ req[w] \in Request
    BY <1>2 DEF CreateLarge, CreateRecord
  <2>2. req[w].id \in ObjectIds /\ req[w].payload \in Payloads
    BY <2>1 DEF Request
  <2>3. \A u \in Workers \ {w} : pc'[u] = "index" => pc[u] = "index" /\ req'[u] = req[u]
    BY <1>2 DEF CreateLarge, CreateRecord, Return, Goto
  <2>4. CASE pc'[w] = "index"
    <3>1. CommitRows(w, req[w].id, req[w].payload)
      BY <1>2, <2>4 DEF CreateLarge
    <3>2. req'[w] = req[w]
      BY <1>2, <2>4, <2>1 DEF CreateLarge, CreateRecord, Return
    <3> QED
      BY <2>2, <2>3, <3>1, <3>2, CommitRowsStep
  <2>5. CASE pc'[w] # "index"
    <3>1. UNCHANGED <<rows, gsi, plan, cleanups, written>>
      BY <1>2, <2>5 DEF CreateLarge, idxVars
    <3> QED
      BY <2>3, <2>5, <3>1, QuietRows DEF RowsInv, IndexTypeOK
  <2> QED
    BY <2>4, <2>5
<1>3. ASSUME CommitUpdate(w)
      PROVE  RowsInv'
  <2>1. pc[w] = "write" /\ req[w] \in Request
    BY <1>3 DEF CommitUpdate, WriteRecord
  <2>2. req[w].id \in ObjectIds /\ req[w].payload \in Payloads
    BY <2>1 DEF Request
  <2>3. \A u \in Workers \ {w} : pc'[u] = "index" => pc[u] = "index" /\ req'[u] = req[u]
    BY <1>3 DEF CommitUpdate, WriteRecord, Return, Goto
  <2>4. UNCHANGED <<rows, gsi, plan, cleanups>>
    BY <1>3 DEF CommitUpdate
  <2>5. CASE pc'[w] = "index"
    <3>1. written' = written \cup {<<req[w].id, req[w].payload>>} /\ req'[w] = req[w]
      BY <1>3, <2>5, <2>1 DEF CommitUpdate, Commit, WriteRecord, Return
    <3>2. WrittenRows \subseteq WrittenRows'
      BY <3>1, WrittenGrows
    <3> QED
      BY <2>2, <2>3, <2>4, <3>1, <3>2 DEF RowsInv, IndexTypeOK, RowsWereWritten
  <2>6. CASE pc'[w] # "index"
    <3>1. written' = written
      BY <1>3, <2>6 DEF CommitUpdate
    <3> QED
      BY <2>3, <2>4, <2>6, <3>1, QuietRows DEF RowsInv, IndexTypeOK
  <2> QED
    BY <2>5, <2>6
<1> QED
  BY <1>1, <1>2, <1>3

\* updateIndexes and the batches of a create.
LEMMA IndexingSteps ==
  ASSUME RowsInv, IInv, NEW w \in Workers,
         QueryRows(w) \/ DeleteRow(w) \/ PutRow(w) \/ WriteBatch(w)
  PROVE  RowsInv'
<1> USE DEF RowsInv, IndexTypeOK
<1>0. UNCHANGED <<pc, req, gsi, cleanups, written>>
  BY DEF QueryRows, DeleteRow, PutRow, WriteBatch, vars, workVars
<1>1. WrittenRows' = WrittenRows
  BY <1>0 DEF WrittenRows, RowsOf
<1>2. CASE QueryRows(w)
  <2>1. pc[w] = "index" /\ req[w] \in Request
    BY <1>2 DEF QueryRows, IInv, TypeOK, WorkersOK
  <2>2. req[w].id \in ObjectIds /\ req[w].payload \in Payloads
    BY <2>1 DEF Request
  <2> DEFINE put == RowsOf(req[w].id, req[w].payload)
  <2>3. PICK del \in LastOf(Listed(req[w].id)) : Todo(w, del, put)
    BY <1>2 DEF QueryRows
  <2>4. Listed(req[w].id) \subseteq Rows
    BY DEF Listed
  <2>5. del \subseteq Rows
    BY <2>3, <2>4, LastOfType
  <2>6. put \subseteq Rows
    BY <2>2, RowsOfType
  <2>7. put \subseteq WrittenRows
    <3>1. <<req[w].id, req[w].payload>> \in written
      BY <2>1
    <3> QED
      BY <3>1, CommittedRows
  <2> HIDE DEF put
  <2>8. [del |-> del, put |-> put] \in Plans
    BY <2>5, <2>6 DEF Plans
  <2>9. plan' = [plan EXCEPT ![w] = [del |-> del, put |-> put]] /\ rows' = rows
    BY <1>2, <2>3 DEF QueryRows, Todo
  <2>10. IndexTypeOK'
    BY <1>0, <2>8, <2>9
  <2>11. \A u \in Workers : plan'[u] # None => plan'[u].put \subseteq WrittenRows
    BY <2>7, <2>9
  <2> QED
    BY <1>0, <1>1, <2>9, <2>10, <2>11 DEF RowsWereWritten
<1>3. CASE ~QueryRows(w)
  <2>1. plan[w] \in Plans
    BY <1>3 DEF DeleteRow, PutRow, WriteBatch
  <2>2. plan[w].put \subseteq WrittenRows /\ plan[w].put \subseteq Rows
    BY <2>1, IndexAssumption DEF Plans
  <2>3. \E done \in SUBSET plan[w].put, left \in SUBSET plan[w].put :
          rows' \subseteq rows \cup done /\ Todo(w, {}, left)
    <3>1. CASE DeleteRow(w)
      <4>1. rows' \subseteq rows \cup {} /\ Todo(w, {}, plan[w].put)
        BY <3>1 DEF DeleteRow
      <4> QED
        BY <4>1
    <3>2. CASE PutRow(w)
      BY <3>2 DEF PutRow
    <3>3. CASE WriteBatch(w)
      <4>1. PICK batch \in SUBSET plan[w].put : \E done \in SUBSET batch :
              rows' = rows \cup done /\ Todo(w, {}, plan[w].put \ batch)
        BY <3>3 DEF WriteBatch
      <4>2. PICK done \in SUBSET batch :
              rows' = rows \cup done /\ Todo(w, {}, plan[w].put \ batch)
        BY <4>1
      <4>3. done \in SUBSET plan[w].put /\ plan[w].put \ batch \in SUBSET plan[w].put
        OBVIOUS
      <4> QED
        BY <4>2, <4>3
    <3> QED
      BY <1>3, <3>1, <3>2, <3>3
  <2>4. PICK done \in SUBSET plan[w].put, left \in SUBSET plan[w].put :
          rows' \subseteq rows \cup done /\ Todo(w, {}, left)
    BY <2>3
  <2>5. plan' = [plan EXCEPT ![w] = [del |-> {}, put |-> left]]
    BY <2>4 DEF Todo
  <2>6. [del |-> {}, put |-> left] \in Plans
    BY <2>2, <2>4 DEF Plans
  <2>7. IndexTypeOK'
    BY <1>0, <2>2, <2>4, <2>5, <2>6
  <2>8. \A u \in Workers : plan'[u] # None => plan'[u].put \subseteq WrittenRows
    BY <2>2, <2>4, <2>5
  <2>9. rows' \subseteq WrittenRows
    BY <2>2, <2>4 DEF RowsWereWritten
  <2> QED
    BY <1>0, <1>1, <2>7, <2>8, <2>9 DEF RowsWereWritten
<1> QED
  BY <1>2, <1>3

\* The end of a request, a Delete and its goroutine, the table's and the GSI's
\* own steps.
LEMMA OtherSteps ==
  ASSUME RowsInv, IInv, TypeInv',
         \/ \E w \in Workers : AnswerIndexed(w) \/ FailIndexing(w)
         \/ \E w \in Workers, id \in ObjectIds : DeleteObject(w, id)
         \/ \E c \in cleanups : CleanupQuery(c) \/ CleanupDelete(c) \/ CleanupCancelled(c)
         \/ \E id \in ObjectIds : PurgeObject(id)
         \/ GsiSync
         \/ UNCHANGED allVars
  PROVE  RowsInv'
<1> USE DEF RowsInv, IndexTypeOK, IInv, TypeOK
<1>1. ASSUME NEW w \in Workers, AnswerIndexed(w) \/ FailIndexing(w)
      PROVE  RowsInv'
  <2>1. UNCHANGED <<rows, gsi, cleanups, written>> /\ plan' = [plan EXCEPT ![w] = None]
    BY <1>1 DEF AnswerIndexed, FailIndexing, Forget
  <2>2. \A u \in Workers : pc'[u] = "index" => pc[u] = "index" /\ req'[u] = req[u]
    BY <1>1 DEF AnswerIndexed, FailIndexing, Answer, Fail, Return
  <2> QED
    BY <2>1, <2>2, QuietRows
<1>2. ASSUME NEW w \in Workers, NEW id \in ObjectIds, DeleteObject(w, id)
      PROVE  RowsInv'
  <2>1. UNCHANGED <<rows, gsi, plan, written>>
    BY <1>2 DEF DeleteObject
  <2>2. \A u \in Workers : pc'[u] = "index" => pc[u] = "index" /\ req'[u] = req[u]
    BY <1>2 DEF DeleteObject, Delete, ThenBlob, Goto
  <2>3. objects'[id] # None
    BY <1>2, FlipFields, NoneAssumption DEF DeleteObject, TypeInv
  <2>4. objects'[id].version \in Versions
    BY <2>3 DEF TypeInv, Record
  <2>5. cleanups' \subseteq Cleanup
    <3>1. [id |-> id, version |-> objects'[id].version, del |-> {}, queried |-> FALSE] \in Cleanup
      BY <2>4 DEF Cleanup
    <3> QED
      BY <1>2, <3>1 DEF DeleteObject
  <2> QED
    BY <2>1, <2>2, <2>5, QuietRows
<1>3. ASSUME NEW c \in cleanups, CleanupQuery(c) \/ CleanupDelete(c) \/ CleanupCancelled(c)
      PROVE  RowsInv'
  <2>1. UNCHANGED <<pc, req, gsi, plan, written>> /\ rows' \subseteq rows
    BY <1>3 DEF CleanupQuery, CleanupDelete, CleanupCancelled, vars, workVars
  <2>2. cleanups' \subseteq Cleanup
    <3>1. CASE CleanupQuery(c)
      <4>1. PICK del \in LastOf(Listed(c.id)) :
              cleanups' = (cleanups \ {c}) \cup {[c EXCEPT !.del = del, !.queried = TRUE]}
        BY <3>1 DEF CleanupQuery
      <4>2. del \subseteq Listed(c.id)
        BY <4>1, LastOfType
      <4>3. del \subseteq Rows
        BY <4>2 DEF Listed
      <4>4. [c EXCEPT !.del = del, !.queried = TRUE] \in Cleanup
        BY <4>3 DEF Cleanup
      <4> QED
        BY <4>1, <4>4
    <3> QED
      BY <1>3, <3>1 DEF CleanupDelete, CleanupCancelled
  <2> QED
    BY <2>1, <2>2, QuietRows
<1>4. ASSUME NEW id \in ObjectIds, PurgeObject(id)
      PROVE  RowsInv'
  <2>1. UNCHANGED <<pc, req, rows, gsi, plan, cleanups, written>>
    BY <1>4 DEF PurgeObject, Purge, idxVars, workVars
  <2> QED
    BY <2>1, QuietRows
<1>5. CASE GsiSync \/ UNCHANGED allVars
  <2>1. UNCHANGED <<pc, req, rows, plan, cleanups, written>> /\ gsi' \subseteq gsi \cup rows
    BY <1>5 DEF GsiSync, allVars, idxVars, vars, workVars
  <2> QED
    BY <2>1, QuietRows
<1> QED
  BY <1>1, <1>2, <1>3, <1>4, <1>5

LEMMA RowsStep ==
  ASSUME RowsInv, IInv, IInv', [IndexNext]_allVars
  PROVE  RowsInv'
<1>1. TypeInv'
  BY DEF IInv, TypeInv
<1>2. CASE RowFreeStep
  BY <1>2, RowFreeSteps
<1>3. ASSUME NEW w \in Workers, NEW id \in ObjectIds, NEW p \in Payloads, CreateInline(w, id, p)
      PROVE  RowsInv'
  BY <1>3, CommitSteps
<1>4. ASSUME NEW w \in Workers, CreateLarge(w) \/ CommitUpdate(w)
      PROVE  RowsInv'
  BY <1>4, CommitSteps
<1>5. ASSUME NEW w \in Workers, QueryRows(w) \/ DeleteRow(w) \/ PutRow(w) \/ WriteBatch(w)
      PROVE  RowsInv'
  BY <1>5, IndexingSteps
<1>6. ASSUME NEW w \in Workers, AnswerIndexed(w) \/ FailIndexing(w)
      PROVE  RowsInv'
  BY <1>1, <1>6, OtherSteps
<1>7. ASSUME NEW w \in Workers, NEW id \in ObjectIds, DeleteObject(w, id)
      PROVE  RowsInv'
  BY <1>1, <1>7, OtherSteps
<1>8. ASSUME NEW c \in cleanups, CleanupQuery(c) \/ CleanupDelete(c) \/ CleanupCancelled(c)
      PROVE  RowsInv'
  BY <1>1, <1>8, OtherSteps
<1>9. ASSUME NEW id \in ObjectIds, PurgeObject(id)
      PROVE  RowsInv'
  BY <1>1, <1>9, OtherSteps
<1>10. CASE GsiSync \/ UNCHANGED allVars
  BY <1>1, <1>10, OtherSteps
<1> QED
  BY <1>2, <1>3, <1>4, <1>5, <1>6, <1>7, <1>8, <1>9, <1>10 DEF IndexNext

LEMMA RowsInvariance == IndexSpec => []RowsInv
<1>1. IndexInit => RowsInv
  BY RowsInit
<1>2. RowsInv /\ IInv /\ IInv' /\ [IndexNext]_allVars => RowsInv'
  BY RowsStep
<1> QED
  BY <1>1, <1>2, RecordsInvariance, PTL DEF IndexSpec

\* Rows, plans and cleanups stay what they are made of.
THEOREM IndexTypesCorrect == IndexSpec => []IndexTypeOK
<1>1. RowsInv => IndexTypeOK
  BY DEF RowsInv
<1> QED
  BY <1>1, RowsInvariance, PTL

\* No index row without a committed write, for any number of indexes and
\* requests, any batch size, and a GSI that lags or not.
THEOREM RowsAreOfWrites == IndexSpec => []RowsWereWritten
<1>1. RowsInv => RowsWereWritten
  BY DEF RowsInv
<1> QED
  BY <1>1, RowsInvariance, PTL

------------------------------------------------------------------------------
(* A transacted create is whole *)

WholeInv == RemovesLaterOnly /\ CreatedWithIndexes

\* Steps that keep the rows of every object that is, or stays, at its first version.
LEMMA WholeFrame ==
  ASSUME CreatedWithIndexes,
         \A id \in ObjectIds :
           Live(objects'[id]) /\ objects'[id].version = 1 =>
             /\ objects'[id] = objects[id]
             /\ \A r \in rows : r.id = id => r \in rows'
  PROVE  CreatedWithIndexes'
<1> SUFFICES ASSUME NEW id \in ObjectIds, NEW p \in Payloads,
                    Live(objects'[id]), objects'[id].version = 1, objects'[id].dek = p,
                    Transacted(id, p)
             PROVE  RowsOf(id, p) \subseteq rows'
  BY DEF CreatedWithIndexes, Live, Transacted, RowsOf
<1>1. RowsOf(id, p) \subseteq rows
  BY DEF CreatedWithIndexes
<1>2. \A r \in RowsOf(id, p) : r.id = id
  BY DEF RowsOf
<1> QED
  BY <1>1, <1>2

\* Workers that keep their plan are where they were, as to the index phase.
LEMMA RemovesFrame ==
  ASSUME RemovesLaterOnly, UNCHANGED plan,
         \A u \in Workers : pc[u] = "index" \/ pc'[u] = "index" =>
                            pc'[u] = pc[u] /\ req'[u] = req[u],
         \A c \in cleanups' :
           /\ objects'[c.id] # None /\ objects'[c.id].version > 1
           /\ \A r \in c.del : r.id = c.id
  PROVE  RemovesLaterOnly'
BY DEF RemovesLaterOnly

LEMMA WholeInit == IndexInit => WholeInv
BY DEF IndexInit, Init, WholeInv, RemovesLaterOnly, CreatedWithIndexes, Live

\* What a worker does that is not in its index phase and does not enter it.
LEMMA WholeRowFree ==
  ASSUME WholeInv, RowsInv, IInv, RowFreeStep
  PROVE  WholeInv'
<1>1. UNCHANGED <<rows, gsi, plan, cleanups, written>>
  BY DEF RowFreeStep, idxVars
<1>2. \A id \in ObjectIds :
        \/ objects'[id] = objects[id]
        \/ objects[id] # None /\ objects'[id] # None /\ objects'[id].version > 1
  BY RowFreeKeeps
<1>3. CreatedWithIndexes'
  BY <1>1, <1>2, WholeFrame DEF WholeInv
<1>4. ASSUME NEW c \in cleanups
      PROVE  /\ objects'[c.id] # None /\ objects'[c.id].version > 1
             /\ \A r \in c.del : r.id = c.id
  BY <1>2 DEF WholeInv, RemovesLaterOnly, RowsInv, IndexTypeOK, Cleanup
<1> QED
  BY <1>1, <1>3, <1>4, RowFreeKeeps, RemovesFrame DEF WholeInv

\* A create, which finds no object there.
LEMMA WholeCreate ==
  ASSUME WholeInv, RowsInv, IInv, NEW w \in Workers, NEW id \in ObjectIds, NEW p \in Payloads,
         CommitRows(w, id, p),
         objects[id] = None, objects' = [objects EXCEPT ![id] = objects'[id]],
         objects'[id].dek = p,
         pc'[w] = "index",
         \A u \in Workers \ {w} : pc'[u] = pc[u] /\ req'[u] = req[u]
  PROVE  WholeInv'
<1> USE DEF WholeInv
<1>1. \A i \in ObjectIds \ {id} : objects'[i] = objects[i]
  BY DEF IInv, TypeOK
<1>2. rows \subseteq rows' /\ UNCHANGED cleanups
  BY DEF CommitRows
<1>3. CreatedWithIndexes'
  <2> SUFFICES ASSUME NEW i \in ObjectIds, NEW q \in Payloads,
                      Live(objects'[i]), objects'[i].version = 1, objects'[i].dek = q,
                      Transacted(i, q)
               PROVE  RowsOf(i, q) \subseteq rows'
    BY DEF CreatedWithIndexes, Live, Transacted, RowsOf
  <2>1. CASE i = id
    <3>1. rows' = rows \cup RowsOf(id, p)
      BY <2>1 DEF CommitRows
    <3> QED
      BY <2>1, <3>1
  <2>2. CASE i # id
    BY <1>1, <1>2, <2>2 DEF CreatedWithIndexes
  <2> QED
    BY <2>1, <2>2
<1>4. RemovesLaterOnly'
  <2>1. PICK put : plan' = [plan EXCEPT ![w] = [del |-> {}, put |-> put]]
    BY DEF CommitRows, Todo
  <2>2. [del |-> {}, put |-> put] # None
    <3>1. RowsOf(id, p) \subseteq Rows
      BY RowsOfType
    <3>2. put \in {{}, RowsOf(id, p)}
      <4>1. plan[w] \in Plans \cup {None} /\ plan'[w] = [del |-> {}, put |-> put]
        BY <2>1 DEF RowsInv, IndexTypeOK
      <4>2. plan'[w] \in {[del |-> {}, put |-> {}], [del |-> {}, put |-> RowsOf(id, p)]}
        BY DEF CommitRows, Todo, RowsInv, IndexTypeOK
      <4> QED
        BY <4>1, <4>2
    <3>3. [del |-> {}, put |-> put] \in Plans
      BY <3>1, <3>2 DEF Plans
    <3> QED
      BY <3>3, IndexAssumption
  <2>3. plan'[w] = [del |-> {}, put |-> put] /\ \A u \in Workers \ {w} : plan'[u] = plan[u]
    BY <2>1 DEF RowsInv, IndexTypeOK
  <2>4. \A c \in cleanups : c.id \in ObjectIds \ {id}
    BY DEF RemovesLaterOnly, RowsInv, IndexTypeOK, Cleanup
  <2>5. \A c \in cleanups' :
          /\ objects'[c.id] # None /\ objects'[c.id].version > 1
          /\ \A r \in c.del : r.id = c.id
    BY <1>1, <1>2, <2>4 DEF RemovesLaterOnly
  <2>6. \A u \in Workers \ {w} :
          /\ plan'[u] # None =>
               /\ pc'[u] = "index"
               /\ \A r \in plan'[u].del : r.id = req'[u].id /\ req'[u].version > 1
          /\ pc'[u] = "index" /\ req'[u].version = 1 => plan'[u] # None
    BY <2>3 DEF RemovesLaterOnly
  <2>7. /\ plan'[w] # None =>
             /\ pc'[w] = "index"
             /\ \A r \in plan'[w].del : r.id = req'[w].id /\ req'[w].version > 1
        /\ pc'[w] = "index" /\ req'[w].version = 1 => plan'[w] # None
    BY <2>2, <2>3
  <2> QED
    BY <2>5, <2>6, <2>7 DEF RemovesLaterOnly
<1> QED
  BY <1>3, <1>4

\* The commits.
LEMMA WholeCommits ==
  ASSUME WholeInv, RowsInv, IInv, NEW w \in Workers,
         \/ \E id \in ObjectIds, p \in Payloads : CreateInline(w, id, p)
         \/ CreateLarge(w)
         \/ CommitUpdate(w)
  PROVE  WholeInv'
<1> USE DEF IInv, TypeOK, WorkersOK
<1>1. ASSUME NEW id \in ObjectIds, NEW p \in Payloads, CreateInline(w, id, p)
      PROVE  WholeInv'
  <2> DEFINE q == [id |-> id, version |-> 1, payload |-> p, large |-> FALSE]
  <2>1. q \in Request
    BY BoundAssumption DEF Request, Versions
  <2>2. objects' = [objects EXCEPT ![id] = NewRecord(q)] /\ NewRecord(q).dek = p
    BY <1>1, <2>1, NewRecordFields DEF CreateInline, PutCreate
  <2>3. objects[id] = None
    BY <1>1 DEF CreateInline, PutCreate, IssuedOK
  <2>4. pc'[w] = "index" /\ \A u \in Workers \ {w} : pc'[u] = pc[u] /\ req'[u] = req[u]
    BY <1>1 DEF CreateInline, PutCreate, Goto
  <2>5. objects' = [objects EXCEPT ![id] = objects'[id]] /\ objects'[id].dek = p
    BY <2>2
  <2> QED
    BY <1>1, <2>3, <2>4, <2>5, WholeCreate DEF CreateInline
<1>2. ASSUME CreateLarge(w)
      PROVE  WholeInv'
  <2> DEFINE id == req[w].id
  <2>1. pc[w] = "create" /\ req[w] \in Request
    BY <1>2 DEF CreateLarge, CreateRecord
  <2>2. id \in ObjectIds /\ req[w].payload \in Payloads
    BY <2>1 DEF Request
  <2>3. \A u \in Workers \ {w} : pc'[u] = pc[u] /\ req'[u] = req[u]
    BY <1>2 DEF CreateLarge, CreateRecord, Return, Goto
  <2>4. CASE pc'[w] = "index"
    <3>1. CommitRows(w, id, req[w].payload)
      BY <1>2, <2>4 DEF CreateLarge
    <3>2. Creatable(id) /\ objects' = [objects EXCEPT ![id] = NewRecord(req[w])]
      BY <1>2, <2>1, <2>4 DEF CreateLarge, CreateRecord, Return
    <3>3. NewRecord(req[w]).dek = req[w].payload
      BY <2>1, NewRecordFields
    <3>4. objects' = [objects EXCEPT ![id] = objects'[id]] /\ objects'[id].dek = req[w].payload
      BY <2>2, <3>2, <3>3
    <3> QED
      BY <2>2, <2>3, <2>4, <3>1, <3>2, <3>4, WholeCreate DEF Creatable
  <2>5. CASE pc'[w] # "index"
    <3>1. UNCHANGED <<rows, gsi, plan, cleanups, written, objects>>
      BY <1>2, <2>5 DEF CreateLarge, CreateRecord, idxVars, Goto
    <3>2. CreatedWithIndexes'
      BY <3>1, WholeFrame DEF WholeInv
    <3>3. \A c \in cleanups' :
            /\ objects'[c.id] # None /\ objects'[c.id].version > 1
            /\ \A r \in c.del : r.id = c.id
      BY <3>1 DEF WholeInv, RemovesLaterOnly
    <3> QED
      BY <2>1, <2>3, <2>5, <3>1, <3>2, <3>3, RemovesFrame DEF WholeInv
  <2> QED
    BY <2>4, <2>5
<1>3. ASSUME CommitUpdate(w)
      PROVE  WholeInv'
  <2> DEFINE id == req[w].id
  <2>1. pc[w] = "write" /\ WriteRecord(w) /\ UNCHANGED <<rows, plan, cleanups>>
    BY <1>3 DEF CommitUpdate, WriteRecord
  <2>2. CASE Return(w)
    <3>1. UNCHANGED objects
      <4>1. pc' # [pc EXCEPT ![w] = "index"]
        BY <2>2 DEF Return
      <4> QED
        BY <2>1, <4>1 DEF WriteRecord, Goto
    <3>2. CreatedWithIndexes'
      BY <2>1, <3>1, WholeFrame DEF WholeInv
    <3>3. \A u \in Workers : pc[u] = "index" \/ pc'[u] = "index" =>
                             pc'[u] = pc[u] /\ req'[u] = req[u]
      BY <2>1, <2>2 DEF Return
    <3>4. \A c \in cleanups' :
            /\ objects'[c.id] # None /\ objects'[c.id].version > 1
            /\ \A r \in c.del : r.id = c.id
      BY <2>1, <3>1 DEF WholeInv, RemovesLaterOnly
    <3> QED
      BY <2>1, <3>2, <3>3, <3>4, RemovesFrame DEF WholeInv
  <2>3. CASE ~Return(w)
    <3>1. /\ req[w] \in Request /\ id \in ObjectIds /\ objects[id] \in Record
          /\ objects[id].version + 1 = req[w].version
          /\ objects'[id] = copy[w] /\ copy[w] \in Record /\ copy[w].version = req[w].version
      BY <2>1, <2>3, WriteRecordFacts
    <3>2. req[w].version > 1
      BY <3>1, BoundAssumption DEF Record, Versions
    <3>3. objects'[id] # None /\ objects'[id].version > 1
      BY <3>1, <3>2, NoneAssumption
    <3>4. \A i \in ObjectIds \ {id} : objects'[i] = objects[i]
      BY <2>1 DEF WriteRecord
    <3>5. /\ pc'[w] = "index" /\ req'[w] = req[w]
          /\ \A u \in Workers \ {w} : pc'[u] = pc[u] /\ req'[u] = req[u]
      BY <2>1, <2>3 DEF WriteRecord, Goto
    <3>6. CreatedWithIndexes'
      BY <2>1, <3>3, <3>4, WholeFrame DEF WholeInv
    <3>7. RemovesLaterOnly'
      <4>1. \A c \in cleanups : c.id \in ObjectIds
        BY DEF RowsInv, IndexTypeOK, Cleanup
      <4>2. plan[w] = None
        BY <2>1 DEF WholeInv, RemovesLaterOnly
      <4> QED
        BY <2>1, <3>2, <3>3, <3>4, <3>5, <4>1, <4>2 DEF WholeInv, RemovesLaterOnly
    <3> QED
      BY <3>6, <3>7 DEF WholeInv
  <2> QED
    BY <2>2, <2>3
<1> QED
  BY <1>1, <1>2, <1>3

\* updateIndexes and the batches of a create: what is removed belongs to an object that
\* IndexOK knows to be past its first version.
LEMMA WholeIndexing ==
  ASSUME WholeInv, RowsInv, IInv, NEW w \in Workers,
         QueryRows(w) \/ DeleteRow(w) \/ PutRow(w) \/ WriteBatch(w)
  PROVE  WholeInv'
<1> USE DEF WholeInv
<1>1. UNCHANGED <<pc, req, objects, cleanups>>
  BY DEF QueryRows, DeleteRow, PutRow, WriteBatch, vars, workVars, recVars
<1>2. pc[w] = "index" /\ req[w] \in Request
  BY DEF QueryRows, DeleteRow, PutRow, WriteBatch, RemovesLaterOnly, IInv, TypeOK, WorkersOK
<1>3. req[w].id \in ObjectIds /\ req[w].version \in Nat
  BY <1>2, BoundAssumption DEF Request, Versions
<1>4. \E del \in SUBSET Rows, put \in SUBSET Rows :
        /\ Todo(w, del, put)
        /\ \A r \in del : r.id = req[w].id /\ req[w].version > 1
  <2>1. CASE QueryRows(w)
    <3>1. PICK del \in LastOf(Listed(req[w].id)) :
            Todo(w, del, RowsOf(req[w].id, req[w].payload))
      BY <2>1 DEF QueryRows
    <3>2. \A r \in del : r.id = req[w].id
      BY <3>1, LastOfType DEF Listed
    <3>3. req[w].version > 1
      <4>1. req[w].version # 1 /\ req[w].version \in Versions
        BY <1>2, <2>1 DEF QueryRows, RemovesLaterOnly, Request
      <4> QED
        BY <4>1, BoundAssumption DEF Versions
    <3>4. del \in SUBSET Rows
      BY <3>1, LastOfType DEF Listed, RowsInv, IndexTypeOK
    <3>5. RowsOf(req[w].id, req[w].payload) \in SUBSET Rows
      BY <1>2, RowsOfType DEF Request
    <3> QED
      BY <3>1, <3>2, <3>3, <3>4, <3>5
  <2>2. CASE ~QueryRows(w)
    <3>1. plan[w] \in Plans
      BY <2>2 DEF DeleteRow, PutRow, WriteBatch, RowsInv, IndexTypeOK
    <3>2. \E left \in SUBSET plan[w].put : Todo(w, {}, left)
      <4>1. CASE DeleteRow(w)
        <5>1. Todo(w, {}, plan[w].put)
          BY <4>1 DEF DeleteRow
        <5> QED
          BY <5>1
      <4>2. CASE PutRow(w)
        BY <4>2 DEF PutRow
      <4>3. CASE WriteBatch(w)
        BY <4>3 DEF WriteBatch
      <4> QED
        BY <2>2, <4>1, <4>2, <4>3
    <3>3. PICK left \in SUBSET plan[w].put : Todo(w, {}, left)
      BY <3>2
    <3>4. {} \in SUBSET Rows /\ left \in SUBSET Rows
      BY <3>1, <3>3 DEF Plans
    <3> QED
      BY <3>3, <3>4
  <2> QED
    BY <2>1, <2>2
<1>5. RemovesLaterOnly'
  <2>1. PICK del \in SUBSET Rows, put \in SUBSET Rows :
          /\ Todo(w, del, put)
          /\ \A r \in del : r.id = req[w].id /\ req[w].version > 1
    BY <1>4
  <2>2. plan'[w] = [del |-> del, put |-> put] /\ \A u \in Workers \ {w} : plan'[u] = plan[u]
    BY <2>1 DEF Todo, RowsInv, IndexTypeOK
  <2>3. plan'[w] # None
    <3>1. plan'[w] \in Plans
      BY <2>1, <2>2 DEF Plans
    <3> QED
      BY <3>1, IndexAssumption
  <2> QED
    BY <1>1, <1>2, <2>1, <2>2, <2>3 DEF RemovesLaterOnly
<1>6. CreatedWithIndexes'
  <2>1. CASE DeleteRow(w)
    <3>1. \A r \in plan[w].del : r.id = req[w].id /\ req[w].version > 1
      BY <2>1 DEF DeleteRow, RemovesLaterOnly
    <3>2. rows' = rows \ plan[w].del /\ plan[w].del # {}
      BY <2>1 DEF DeleteRow
    <3>3. objects[req[w].id] # None /\ objects[req[w].id].version > 1
      <4>1. objects[req[w].id] # None /\ objects[req[w].id].version >= req[w].version
        BY <1>2 DEF IInv, IndexOK
      <4>2. objects[req[w].id].version \in Nat
        BY <1>3, <4>1, BoundAssumption DEF IInv, TypeOK, Record, Versions
      <4> QED
        BY <1>3, <3>1, <3>2, <4>1, <4>2
    <3> QED
      BY <1>1, <3>1, <3>2, <3>3, WholeFrame
  <2>2. CASE ~DeleteRow(w)
    <3>1. rows \subseteq rows'
      BY <2>2 DEF QueryRows, PutRow, WriteBatch
    <3> QED
      BY <1>1, <3>1, WholeFrame
  <2> QED
    BY <2>1, <2>2
<1> QED
  BY <1>5, <1>6

\* What the goroutine behind a Delete does.
LEMMA CleanupMoves ==
  ASSUME NEW c \in cleanups,
         CleanupQuery(c) \/ CleanupDelete(c) \/ CleanupCancelled(c)
  PROVE  /\ UNCHANGED <<pc, req, objects, plan>>
         /\ rows' = rows \/ rows' = rows \ c.del
         /\ \/ cleanups' \subseteq cleanups
            \/ \E del \in LastOf(Listed(c.id)) :
                 cleanups' = (cleanups \ {c}) \cup {[c EXCEPT !.del = del, !.queried = TRUE]}
<1>1. UNCHANGED <<vars, plan>>
  BY Zenon DEF CleanupQuery, CleanupDelete, CleanupCancelled
<1>2. rows' = rows \/ rows' = rows \ c.del
  BY Zenon DEF CleanupQuery, CleanupDelete, CleanupCancelled
<1>3. CASE CleanupQuery(c)
  BY <1>1, <1>2, <1>3, Zenon DEF CleanupQuery, vars, workVars, recVars
<1>4. CASE CleanupDelete(c) \/ CleanupCancelled(c)
  <2>1. cleanups' \subseteq cleanups
    BY <1>4, Zenon DEF CleanupDelete, CleanupCancelled
  <2> QED
    BY <1>1, <1>2, <2>1, Zenon DEF vars, workVars, recVars
<1> QED
  BY <1>3, <1>4, Zenon

\* The end of a request, a Delete and its goroutine, the table's and the GSI's own steps.
LEMMA WholeOthers ==
  ASSUME WholeInv, RowsInv, IInv,
         \/ \E w \in Workers : AnswerIndexed(w) \/ FailIndexing(w)
         \/ \E w \in Workers, id \in ObjectIds : DeleteObject(w, id)
         \/ \E c \in cleanups : CleanupQuery(c) \/ CleanupDelete(c) \/ CleanupCancelled(c)
         \/ \E id \in ObjectIds : PurgeObject(id)
         \/ GsiSync
         \/ UNCHANGED allVars
  PROVE  WholeInv'
<1> USE DEF WholeInv
<1>1. ASSUME NEW w \in Workers, AnswerIndexed(w) \/ FailIndexing(w)
      PROVE  WholeInv'
  <2>1. UNCHANGED <<rows, cleanups, objects>> /\ plan' = [plan EXCEPT ![w] = None]
    BY <1>1 DEF AnswerIndexed, FailIndexing, Forget, Answer, Fail, recVars
  <2>2. Return(w)
    BY <1>1 DEF AnswerIndexed, FailIndexing, Answer, Fail
  <2>3. CreatedWithIndexes'
    BY <2>1, WholeFrame
  <2>4. /\ plan'[w] = None /\ pc'[w] = "idle"
        /\ \A u \in Workers \ {w} : plan'[u] = plan[u] /\ pc'[u] = pc[u] /\ req'[u] = req[u]
    BY <2>1, <2>2 DEF Return, RowsInv, IndexTypeOK, IInv, TypeOK
  <2> QED
    BY <2>1, <2>3, <2>4 DEF RemovesLaterOnly
<1>2. ASSUME NEW w \in Workers, NEW id \in ObjectIds, DeleteObject(w, id)
      PROVE  WholeInv'
  <2>1. UNCHANGED <<rows, plan>>
    BY <1>2 DEF DeleteObject
  <2>2. \A u \in Workers : pc[u] = "index" \/ pc'[u] = "index" =>
                           pc'[u] = pc[u] /\ req'[u] = req[u]
    BY <1>2 DEF DeleteObject, Delete, ThenBlob, Goto, Idle, IInv, TypeOK
  <2>3. /\ objects'[id] # None /\ objects'[id].version > 1
        /\ \A i \in ObjectIds \ {id} : objects'[i] = objects[i]
    <3>1. TypeInv
      BY DEF TypeInv, IInv
    <3>2. /\ objects[id] \in Record /\ objects'[id] \in Record
          /\ objects'[id].version = objects[id].version + 1
      BY <1>2, <3>1, FlipFields DEF DeleteObject
    <3>3. objects[id].version \in Nat \ {0}
      BY <3>2, BoundAssumption DEF Record, Versions
    <3>4. \A i \in ObjectIds \ {id} : objects'[i] = objects[i]
      BY <1>2 DEF DeleteObject, Delete, IInv, TypeOK
    <3> QED
      BY <3>2, <3>3, <3>4, NoneAssumption
  <2>4. CreatedWithIndexes'
    BY <2>1, <2>3, WholeFrame
  <2>5. \A c \in cleanups' :
          /\ objects'[c.id] # None /\ objects'[c.id].version > 1
          /\ \A r \in c.del : r.id = c.id
    BY <1>2, <2>3 DEF DeleteObject, RemovesLaterOnly, RowsInv, IndexTypeOK, Cleanup
  <2> QED
    BY <2>1, <2>2, <2>4, <2>5, RemovesFrame
<1>3. ASSUME NEW c \in cleanups, CleanupQuery(c) \/ CleanupDelete(c) \/ CleanupCancelled(c)
      PROVE  WholeInv'
  <2>1. UNCHANGED <<pc, req, objects, plan>>
    BY <1>3, CleanupMoves, Zenon
  <2>2. /\ c \in Cleanup /\ objects[c.id] # None /\ objects[c.id].version > 1
        /\ \A r \in c.del : r.id = c.id
    BY DEF RemovesLaterOnly, RowsInv, IndexTypeOK
  <2>3. rows' = rows \/ rows' = rows \ c.del
    BY <1>3, CleanupMoves, Zenon
  <2>4. CreatedWithIndexes'
    BY <2>1, <2>2, <2>3, WholeFrame
  <2>5. \A d \in cleanups' :
          /\ objects'[d.id] # None /\ objects'[d.id].version > 1
          /\ \A r \in d.del : r.id = d.id
    <3>1. CASE cleanups' \subseteq cleanups
      BY <2>1, <3>1 DEF RemovesLaterOnly
    <3>2. CASE ~(cleanups' \subseteq cleanups)
      <4>1. PICK del \in LastOf(Listed(c.id)) :
              cleanups' = (cleanups \ {c}) \cup {[c EXCEPT !.del = del, !.queried = TRUE]}
        BY <1>3, <3>2, CleanupMoves, Zenon
      <4>2. \A r \in del : r.id = c.id
        BY <4>1, LastOfType DEF Listed
      <4>3. [c EXCEPT !.del = del, !.queried = TRUE].id = c.id
            /\ [c EXCEPT !.del = del, !.queried = TRUE].del = del
        BY <2>2 DEF Cleanup
      <4> QED
        BY <2>1, <2>2, <4>1, <4>2, <4>3 DEF RemovesLaterOnly
    <3> QED
      BY <3>1, <3>2
  <2> QED
    BY <2>1, <2>4, <2>5, RemovesFrame
<1>4. ASSUME NEW id \in ObjectIds, PurgeObject(id)
      PROVE  WholeInv'
  <2>1. UNCHANGED <<pc, req, rows, plan, cleanups>>
    BY <1>4 DEF PurgeObject, Purge, idxVars, workVars
  <2>2. objects'[id] = None /\ \A i \in ObjectIds \ {id} : objects'[i] = objects[i]
    BY <1>4 DEF PurgeObject, Purge, IInv, TypeOK
  <2>3. CreatedWithIndexes'
    BY <2>1, <2>2, WholeFrame DEF Live
  <2>4. \A c \in cleanups' :
          /\ objects'[c.id] # None /\ objects'[c.id].version > 1
          /\ \A r \in c.del : r.id = c.id
    <3>1. \A c \in cleanups : c.id \in ObjectIds \ {id}
      BY <1>4 DEF PurgeObject, RowsInv, IndexTypeOK, Cleanup
    <3> QED
      BY <2>1, <2>2, <3>1 DEF RemovesLaterOnly
  <2> QED
    BY <2>1, <2>3, <2>4, RemovesFrame
<1>5. CASE GsiSync \/ UNCHANGED allVars
  <2>1. UNCHANGED <<pc, req, objects, rows, plan, cleanups>>
    BY <1>5 DEF GsiSync, allVars, idxVars, vars, workVars, recVars
  <2>2. CreatedWithIndexes'
    BY <2>1, WholeFrame
  <2> QED
    BY <2>1, <2>2 DEF RemovesLaterOnly
<1> QED
  BY <1>1, <1>2, <1>3, <1>4, <1>5

LEMMA WholeStep ==
  ASSUME WholeInv, RowsInv, IInv, [IndexNext]_allVars
  PROVE  WholeInv'
<1>1. CASE RowFreeStep
  BY <1>1, WholeRowFree
<1>2. ASSUME NEW w \in Workers, NEW id \in ObjectIds, NEW p \in Payloads, CreateInline(w, id, p)
      PROVE  WholeInv'
  BY <1>2, WholeCommits
<1>3. ASSUME NEW w \in Workers, CreateLarge(w) \/ CommitUpdate(w)
      PROVE  WholeInv'
  BY <1>3, WholeCommits
<1>4. ASSUME NEW w \in Workers, QueryRows(w) \/ DeleteRow(w) \/ PutRow(w) \/ WriteBatch(w)
      PROVE  WholeInv'
  BY <1>4, WholeIndexing
<1>5. ASSUME NEW w \in Workers, AnswerIndexed(w) \/ FailIndexing(w)
      PROVE  WholeInv'
  BY <1>5, WholeOthers
<1>6. ASSUME NEW w \in Workers, NEW id \in ObjectIds, DeleteObject(w, id)
      PROVE  WholeInv'
  BY <1>6, WholeOthers
<1>7. ASSUME NEW c \in cleanups, CleanupQuery(c) \/ CleanupDelete(c) \/ CleanupCancelled(c)
      PROVE  WholeInv'
  BY <1>7, WholeOthers
<1>8. ASSUME NEW id \in ObjectIds, PurgeObject(id)
      PROVE  WholeInv'
  BY <1>8, WholeOthers
<1>9. CASE GsiSync \/ UNCHANGED allVars
  BY <1>9, WholeOthers
<1> QED
  BY <1>1, <1>2, <1>3, <1>4, <1>5, <1>6, <1>7, <1>8, <1>9 DEF IndexNext

\* An object created in one transaction is found by all its indexes while it is at its
\* first version (CreateObjectWithIndexes), whatever updateIndexes and the clean-ups of
\* Deletes remove meanwhile from stale reads.
THEOREM CreatesAreWhole == IndexSpec => []CreatedWithIndexes
<1>1. IndexInit => WholeInv
  BY WholeInit
<1>2. WholeInv /\ RowsInv /\ IInv /\ [IndexNext]_allVars => WholeInv'
  BY WholeStep
<1>3. WholeInv => CreatedWithIndexes
  BY DEF WholeInv
<1> QED
  BY <1>1, <1>2, <1>3, RowsInvariance, RecordsInvariance, PTL DEF IndexSpec

------------------------------------------------------------------------------
(* What has to go wrong for an answered write not to be found *)

\* The write that was answered is the object's current version.
Current(a) ==
  Live(objects[a[1]]) /\ objects[a[1]].version = a[2] /\ objects[a[1]].dek = a[3]

AckedFound == \A a \in acks : Current(a) => RowsOf(a[1], a[3]) \subseteq rows

\* The version a request has committed is still there.
Latest(w) == Live(objects[req[w].id]) /\ objects[req[w].id].version = req[w].version

\* A request in its index phase comes after all answered writes of its object; its
\* rows are there or on its plan, and what it removes it does before it puts any.
Completing(w) ==
  /\ \A a \in acks : a[1] = req[w].id => a[2] < req[w].version
  /\ plan[w] # None =>
       /\ plan[w].del # {} => plan[w].put = RowsOf(req[w].id, req[w].payload)
       /\ Latest(w) => RowsOf(req[w].id, req[w].payload) \subseteq rows \cup plan[w].put

FoundInv == AckedFound /\ \A w \in Workers : pc[w] = "index" => Completing(w)

\* An object is written by one request at a time.
OneAtATime ==
  \A w, u \in Workers : w # u /\ req[w] # None /\ req[u] # None => req[w].id # req[u].id

\* The goroutine of a Delete removes a row of an object that has been recovered.
LateCleanup == \E c \in cleanups : CleanupDelete(c) /\ Live(objects[c.id]) /\ rows' # rows

\* A batch comes back with items that were not written.
Unprocessed == \E w \in Workers : WriteBatch(w) /\ ~(plan[w].put \ plan'[w].put \subseteq rows')

LEMMA AckedVersions ==
  ASSUME IInv, NEW a \in acks
  PROVE  /\ a[1] \in ObjectIds /\ a[2] \in Nat /\ a[3] \in Payloads
         /\ objects[a[1]] # None /\ objects[a[1]].version \in Nat /\ a[2] <= objects[a[1]].version
<1>1. a \in ObjectIds \X Versions \X Payloads
  BY DEF IInv, TypeOK
<1>2. objects[a[1]] \in Record
  BY <1>1 DEF IInv, TypeOK, AckedWriteKept
<1> QED
  BY <1>1, <1>2, BoundAssumption DEF IInv, AckedWriteKept, Record, Versions

LEMMA IndexVersions ==
  ASSUME IInv, NEW w \in Workers, pc[w] = "index"
  PROVE  /\ req[w] \in Request /\ req[w] # None
         /\ req[w].id \in ObjectIds /\ req[w].payload \in Payloads /\ req[w].version \in Nat
         /\ objects[req[w].id] # None /\ objects[req[w].id].version \in Nat
         /\ objects[req[w].id].version >= req[w].version
<1>1. req[w] \in Request /\ req[w] # None
  BY DEF IInv, TypeOK, WorkersOK
<1>2. objects[req[w].id] # None /\ objects[req[w].id].version >= req[w].version
  BY DEF IInv, IndexOK
<1>3. req[w].id \in ObjectIds /\ req[w].version \in Versions /\ req[w].payload \in Payloads
  BY <1>1 DEF Request
<1>4. objects[req[w].id] \in Record
  BY <1>2, <1>3 DEF IInv, TypeOK
<1> QED
  BY <1>1, <1>2, <1>3, <1>4, BoundAssumption DEF Record, Versions

\* What changes a record makes another version of it: an answered write that is current
\* after the step was current before.
LEMMA CurrentBefore ==
  ASSUME IInv, [Next]_vars, NEW a \in acks, Current(a)'
  PROVE  Current(a)
<1>1. a[1] \in ObjectIds /\ a[2] \in Nat /\ objects[a[1]] # None
      /\ objects[a[1]].version \in Nat /\ a[2] <= objects[a[1]].version
  BY AckedVersions
<1>2. RecordStep(a[1])
  BY <1>1, RecordStepLemma
<1> QED
  BY <1>1, <1>2 DEF RecordStep, Current, Live

LEMMA LatestBefore ==
  ASSUME IInv, [Next]_vars, NEW w \in Workers, pc[w] = "index", req'[w] = req[w], Latest(w)'
  PROVE  Latest(w)
<1>1. RecordStep(req[w].id)
  BY IndexVersions, RecordStepLemma
<1> QED
  BY <1>1, IndexVersions DEF RecordStep, Latest, Live

LEMMA AckedFrame ==
  ASSUME IInv, FoundInv, [Next]_vars, acks' \subseteq acks,
         \A r \in rows \ rows' : \A a \in acks : a[1] = r.id => ~Current(a)'
  PROVE  AckedFound'
<1> SUFFICES ASSUME NEW a \in acks', Current(a)'
             PROVE  RowsOf(a[1], a[3]) \subseteq rows'
  BY DEF AckedFound, Current, Live, RowsOf
<1>1. a \in acks
  OBVIOUS
<1>2. RowsOf(a[1], a[3]) \subseteq rows
  BY <1>1, CurrentBefore DEF FoundInv, AckedFound
<1>3. \A r \in RowsOf(a[1], a[3]) : r.id = a[1]
  BY DEF RowsOf
<1> QED
  BY <1>1, <1>2, <1>3

LEMMA WorkerFrame ==
  ASSUME IInv, FoundInv, [Next]_vars, NEW w \in Workers, pc[w] = "index",
         req'[w] = req[w], plan'[w] = plan[w], acks' \subseteq acks,
         \A r \in rows \ rows' : r.id = req[w].id => ~Latest(w)'
  PROVE  Completing(w)'
<1>1. Completing(w)
  BY DEF FoundInv
<1>2. \A r \in RowsOf(req[w].id, req[w].payload) : r.id = req[w].id
  BY DEF RowsOf
<1>3. ASSUME Latest(w)', plan[w] # None
      PROVE  RowsOf(req[w].id, req[w].payload) \subseteq rows' \cup plan[w].put
  BY <1>1, <1>2, <1>3, LatestBefore DEF Completing
<1>4. RowsOf(req[w].id, req[w].payload)' = RowsOf(req[w].id, req[w].payload)
  BY DEF RowsOf
<1> QED
  BY <1>1, <1>3, <1>4 DEF Completing

LEMMA FoundFrame ==
  ASSUME IInv, FoundInv, [Next]_vars, acks' \subseteq acks,
         \A r \in rows \ rows' : ~Live(objects'[r.id]),
         \A u \in Workers : pc'[u] = "index" =>
           pc[u] = "index" /\ req'[u] = req[u] /\ plan'[u] = plan[u]
  PROVE  FoundInv'
<1>1. AckedFound'
  BY AckedFrame DEF Current, Live
<1>2. ASSUME NEW u \in Workers, pc'[u] = "index"
      PROVE  Completing(u)'
  BY <1>2, WorkerFrame DEF Latest, Live
<1> QED
  BY <1>1, <1>2 DEF FoundInv

\* A commit makes a version later than all that were answered, and leaves on its plan
\* what it has not put.
LEMMA FoundCommit ==
  ASSUME IInv, FoundInv, [Next]_vars, NEW w \in Workers, NEW id \in ObjectIds, NEW p,
         req'[w].id = id, req'[w].payload = p,
         objects'[id].version = req'[w].version, objects'[id].version \in Nat,
         objects[id] = None \/ objects[id].version < objects'[id].version,
         acks' = acks, rows \subseteq rows',
         plan'[w] # None => plan'[w].del = {} /\ RowsOf(id, p) \subseteq rows' \cup plan'[w].put,
         \A u \in Workers \ {w} : pc'[u] = pc[u] /\ req'[u] = req[u] /\ plan'[u] = plan[u]
  PROVE  FoundInv'
<1>1. AckedFound'
  BY AckedFrame
<1>2. ASSUME NEW u \in Workers \ {w}, pc'[u] = "index"
      PROVE  Completing(u)'
  BY <1>2, WorkerFrame
<1>3. Completing(w)'
  <2>1. ASSUME NEW a \in acks', a[1] = id
        PROVE  a[2] < req'[w].version
    BY <2>1, AckedVersions
  <2>2. RowsOf(req[w].id, req[w].payload)' = RowsOf(id, p)
    BY DEF RowsOf
  <2> QED
    BY <2>1, <2>2 DEF Completing
<1> QED
  BY <1>1, <1>2, <1>3 DEF FoundInv

LEMMA CommitRowsPlan ==
  ASSUME RowsInv, NEW w \in Workers, NEW id, NEW p, CommitRows(w, id, p)
  PROVE  /\ rows \subseteq rows'
         /\ plan'[w].del = {} /\ RowsOf(id, p) \subseteq rows' \cup plan'[w].put
         /\ \A u \in Workers \ {w} : plan'[u] = plan[u]
<1>1. PICK put : plan' = [plan EXCEPT ![w] = [del |-> {}, put |-> put]]
                 /\ rows \subseteq rows' /\ RowsOf(id, p) \subseteq rows' \cup put
  BY DEF CommitRows, Todo
<1> QED
  BY <1>1 DEF RowsInv, IndexTypeOK

LEMMA FoundCommits ==
  ASSUME IInv, RowsInv, WholeInv, FoundInv, [Next]_vars, NEW w \in Workers,
         \/ \E id \in ObjectIds, p \in Payloads : CreateInline(w, id, p)
         \/ CreateLarge(w)
         \/ CommitUpdate(w)
  PROVE  FoundInv'
<1> USE DEF IInv, TypeOK, WorkersOK
<1>1. ASSUME NEW id \in ObjectIds, NEW p \in Payloads, CreateInline(w, id, p)
      PROVE  FoundInv'
  <2> DEFINE q == [id |-> id, version |-> 1, payload |-> p, large |-> FALSE]
  <2>1. q \in Request
    BY BoundAssumption DEF Request, Versions
  <2>2. objects'[id].version = 1
    BY <1>1, <2>1, NewRecordFields DEF CreateInline, PutCreate
  <2>3. objects[id] = None
    BY <1>1 DEF CreateInline, PutCreate, IssuedOK
  <2>4. /\ req'[w] = q /\ acks' = acks
        /\ \A u \in Workers \ {w} : pc'[u] = pc[u] /\ req'[u] = req[u]
    BY <1>1 DEF CreateInline, PutCreate, Goto
  <2>5. CommitRows(w, id, p)
    BY <1>1 DEF CreateInline
  <2> QED
    BY <2>2, <2>3, <2>4, <2>5, CommitRowsPlan, FoundCommit
<1>2. ASSUME CreateLarge(w)
      PROVE  FoundInv'
  <2> DEFINE id == req[w].id
  <2>1. pc[w] = "create" /\ req[w] \in Request
    BY <1>2 DEF CreateLarge, CreateRecord
  <2>2. id \in ObjectIds /\ req[w].payload \in Payloads /\ acks' = acks
    BY <1>2, <2>1 DEF Request, CreateLarge, CreateRecord
  <2>3. \A u \in Workers \ {w} : pc'[u] = pc[u] /\ req'[u] = req[u]
    BY <1>2 DEF CreateLarge, CreateRecord, Return, Goto
  <2>4. CASE pc'[w] = "index"
    <3>1. CommitRows(w, id, req[w].payload)
      BY <1>2, <2>4 DEF CreateLarge
    <3>2. /\ Creatable(id) /\ objects' = [objects EXCEPT ![id] = NewRecord(req[w])]
          /\ req'[w] = req[w]
      BY <1>2, <2>1, <2>4 DEF CreateLarge, CreateRecord, Return
    <3>3. objects'[id].version = 1
      BY <2>1, <2>2, <3>2, NewRecordFields
    <3>4. req[w].version = 1
      BY <2>1 DEF UploadOK
    <3> QED
      BY <2>2, <2>3, <3>1, <3>2, <3>3, <3>4, CommitRowsPlan, FoundCommit DEF Creatable
  <2>5. CASE pc'[w] # "index"
    <3>1. UNCHANGED <<rows, plan>>
      BY <1>2, <2>5 DEF CreateLarge, idxVars
    <3> QED
      BY <2>2, <2>3, <2>5, <3>1, FoundFrame
  <2> QED
    BY <2>4, <2>5
<1>3. ASSUME CommitUpdate(w)
      PROVE  FoundInv'
  <2> DEFINE id == req[w].id
  <2>1. pc[w] = "write" /\ WriteRecord(w) /\ UNCHANGED <<rows, plan, acks>>
    BY <1>3 DEF CommitUpdate, WriteRecord
  <2>2. CASE Return(w)
    <3>1. \A u \in Workers : pc'[u] = "index" => pc[u] = "index" /\ req'[u] = req[u]
      BY <2>1, <2>2 DEF Return
    <3> QED
      BY <2>1, <3>1, FoundFrame
  <2>3. CASE ~Return(w)
    <3>1. /\ id \in ObjectIds /\ objects[id] \in Record
          /\ objects[id].version + 1 = req[w].version
          /\ objects'[id] = copy[w] /\ copy[w].version = req[w].version
      BY <2>1, <2>3, WriteRecordFacts
    <3>2. objects[id].version \in Nat
      BY <3>1, BoundAssumption DEF Record, Versions
    <3>3. /\ req'[w] = req[w]
          /\ \A u \in Workers \ {w} : pc'[u] = pc[u] /\ req'[u] = req[u]
      BY <2>1, <2>3 DEF WriteRecord, Goto
    <3>4. plan[w] = None
      BY <2>1 DEF WholeInv, RemovesLaterOnly
    <3>5. /\ objects'[id].version \in Nat /\ objects[id].version < objects'[id].version
          /\ objects'[id].version = req'[w].version
      BY <3>1, <3>2, <3>3
    <3> QED
      BY <2>1, <3>1, <3>3, <3>4, <3>5, FoundCommit
  <2> QED
    BY <2>2, <2>3
<1> QED
  BY <1>1, <1>2, <1>3

\* updateIndexes and the batches of a create: what is removed is put again or does not
\* belong to the version being written.
LEMMA FoundIndexing ==
  ASSUME IInv, RowsInv, WholeInv, FoundInv, OneAtATime, [Next]_vars, ~Unprocessed,
         NEW w \in Workers, QueryRows(w) \/ DeleteRow(w) \/ PutRow(w) \/ WriteBatch(w)
  PROVE  FoundInv'
<1> DEFINE id == req[w].id
           R == RowsOf(req[w].id, req[w].payload)
<1>1. UNCHANGED <<pc, req, objects, acks>>
  BY DEF QueryRows, DeleteRow, PutRow, WriteBatch, vars, workVars, recVars
<1>2. pc[w] = "index"
  BY DEF QueryRows, DeleteRow, PutRow, WriteBatch, WholeInv, RemovesLaterOnly
<1>3. Completing(w)
  BY <1>2 DEF FoundInv
\* What is removed, if anything, is a row of this object.
<1>4. \A r \in rows \ rows' : r.id = id
  BY DEF QueryRows, DeleteRow, PutRow, WriteBatch, WholeInv, RemovesLaterOnly
<1>5. AckedFound'
  <2>1. ASSUME NEW a \in acks, a[1] = id
        PROVE  ~Current(a)'
    BY <1>1, <1>2, <1>3, <2>1, IndexVersions, AckedVersions DEF Completing, Current
  <2> QED
    BY <1>1, <1>4, <2>1, AckedFrame
<1>6. ASSUME NEW u \in Workers \ {w}, pc'[u] = "index"
      PROVE  Completing(u)'
  <2>1. pc[u] = "index" /\ req[u].id # id
    BY <1>1, <1>2, <1>6, IndexVersions DEF OneAtATime
  <2>2. plan'[u] = plan[u]
    BY DEF QueryRows, DeleteRow, PutRow, WriteBatch, Todo, RowsInv, IndexTypeOK
  <2> QED
    BY <1>1, <1>4, <2>1, <2>2, WorkerFrame
<1>7. Completing(w)'
  <2>1. R' = R
    BY <1>1 DEF RowsOf
  <2>2. Latest(w)' <=> Latest(w)
    BY <1>1 DEF Latest, Live
  <2>3. \A a \in acks' : a[1] = req'[w].id => a[2] < req'[w].version
    BY <1>1, <1>3 DEF Completing
  <2>4. /\ plan'[w].del # {} => plan'[w].put = R
        /\ Latest(w) => R \subseteq rows' \cup plan'[w].put
    <3>1. CASE QueryRows(w)
      BY <3>1 DEF QueryRows, Todo, RowsInv, IndexTypeOK
    <3>2. CASE DeleteRow(w)
      <4>1. plan'[w] = [del |-> {}, put |-> plan[w].put] /\ plan[w].put = R
        BY <1>3, <3>2 DEF DeleteRow, Todo, RowsInv, IndexTypeOK, Completing
      <4> QED
        BY <4>1
    <3>3. CASE PutRow(w)
      <4>1. PICK r \in plan[w].put : /\ rows' = rows \cup {r}
                                     /\ plan'[w] = [del |-> {}, put |-> plan[w].put \ {r}]
        BY <3>3 DEF PutRow, Todo, RowsInv, IndexTypeOK
      <4>2. Latest(w) => R \subseteq rows \cup plan[w].put
        BY <1>3, <3>3 DEF PutRow, Completing
      <4> QED
        BY <4>1, <4>2
    <3>4. CASE WriteBatch(w)
      <4>1. PICK batch \in SUBSET plan[w].put :
              plan'[w] = [del |-> {}, put |-> plan[w].put \ batch]
        BY <3>4 DEF WriteBatch, Todo, RowsInv, IndexTypeOK
      <4>2. plan[w].put \ plan'[w].put \subseteq rows' /\ rows \subseteq rows'
        BY <3>4 DEF Unprocessed, WriteBatch
      <4>3. Latest(w) => R \subseteq rows \cup plan[w].put
        BY <1>3, <3>4 DEF WriteBatch, Completing
      <4> QED
        BY <4>1, <4>2, <4>3
    <3> QED
      BY <3>1, <3>2, <3>3, <3>4
  <2> QED
    BY <1>1, <2>1, <2>2, <2>3, <2>4 DEF Completing
<1> QED
  BY <1>5, <1>6, <1>7 DEF FoundInv

\* The write is answered when all its rows are done.
LEMMA FoundAnswer ==
  ASSUME IInv, RowsInv, FoundInv, OneAtATime, NEW w \in Workers, AnswerIndexed(w)
  PROVE  FoundInv'
<1> DEFINE m == <<req[w].id, req[w].version, req[w].payload>>
<1>1. /\ pc[w] = "index" /\ plan[w] = [del |-> {}, put |-> {}]
      /\ acks' = acks \cup {m} /\ UNCHANGED <<objects, rows>>
      /\ pc' = [pc EXCEPT ![w] = "idle"] /\ req' = [req EXCEPT ![w] = None]
      /\ plan' = [plan EXCEPT ![w] = None]
  BY DEF AnswerIndexed, Answer, Return, Forget, recVars
<1>2. plan[w] # None
  <2>1. plan[w] \in Plans
    BY <1>1 DEF Plans
  <2> QED
    BY <2>1, IndexAssumption
<1>3. Completing(w) /\ IndexOK
  BY <1>1 DEF FoundInv, IInv
<1>4. AckedFound'
  <2> SUFFICES ASSUME NEW a \in acks', Current(a)'
               PROVE  RowsOf(a[1], a[3]) \subseteq rows'
    BY DEF AckedFound, Current, Live, RowsOf
  <2>1. Current(a)
    BY <1>1 DEF Current, Live
  <2>2. CASE a \in acks
    BY <1>1, <2>1, <2>2 DEF FoundInv, AckedFound
  <2>3. CASE a = m
    <3>1. Latest(w)
      BY <2>1, <2>3 DEF Current, Latest
    <3> QED
      BY <1>1, <1>2, <1>3, <2>3, <3>1 DEF Completing
  <2> QED
    BY <1>1, <2>2, <2>3
<1>5. ASSUME NEW u \in Workers, pc'[u] = "index"
      PROVE  Completing(u)'
  <2>1. u # w /\ pc[u] = "index" /\ req'[u] = req[u] /\ plan'[u] = plan[u]
    BY <1>1, <1>5 DEF IInv, TypeOK, RowsInv, IndexTypeOK
  <2>2. req[u].id # req[w].id
    BY <1>1, <2>1, IndexVersions DEF OneAtATime
  <2>3. Completing(u)
    BY <2>1 DEF FoundInv
  <2>4. Latest(u)' <=> Latest(u)
    BY <1>1, <2>1 DEF Latest, Live
  <2>5. RowsOf(req[u].id, req[u].payload)' = RowsOf(req[u].id, req[u].payload)
    BY <2>1 DEF RowsOf
  <2> QED
    BY <1>1, <2>1, <2>2, <2>3, <2>4, <2>5 DEF Completing
<1> QED
  BY <1>4, <1>5 DEF FoundInv

\* Failures, Deletes and their clean-up, the table's and the GSI's own steps.
LEMMA FoundOthers ==
  ASSUME IInv, RowsInv, WholeInv, FoundInv, [Next]_vars, ~LateCleanup,
         \/ RowFreeStep
         \/ \E w \in Workers : FailIndexing(w)
         \/ \E w \in Workers, id \in ObjectIds : DeleteObject(w, id)
         \/ \E c \in cleanups : CleanupQuery(c) \/ CleanupDelete(c) \/ CleanupCancelled(c)
         \/ \E id \in ObjectIds : PurgeObject(id)
         \/ GsiSync
         \/ UNCHANGED allVars
  PROVE  FoundInv'
<1>1. CASE RowFreeStep
  <2>1. UNCHANGED <<rows, plan>>
    BY <1>1 DEF RowFreeStep, idxVars
  <2> QED
    BY <1>1, <2>1, RowFreeKeeps, FoundFrame
<1>2. ASSUME NEW w \in Workers, FailIndexing(w)
      PROVE  FoundInv'
  <2>1. /\ UNCHANGED <<rows, acks>> /\ plan' = [plan EXCEPT ![w] = None]
        /\ pc' = [pc EXCEPT ![w] = "idle"] /\ req' = [req EXCEPT ![w] = None]
    BY <1>2 DEF FailIndexing, Fail, Return, Forget
  <2>2. \A u \in Workers : pc'[u] = "index" =>
          pc[u] = "index" /\ req'[u] = req[u] /\ plan'[u] = plan[u]
    BY <2>1 DEF IInv, TypeOK, RowsInv, IndexTypeOK
  <2> QED
    BY <2>1, <2>2, FoundFrame
<1>3. ASSUME NEW w \in Workers, NEW id \in ObjectIds, DeleteObject(w, id)
      PROVE  FoundInv'
  <2>1. UNCHANGED <<rows, plan, acks>>
    BY <1>3 DEF DeleteObject, Delete
  <2>2. \A u \in Workers : pc'[u] = "index" => pc[u] = "index" /\ req'[u] = req[u]
    BY <1>3 DEF DeleteObject, Delete, ThenBlob, Goto, Idle, IInv, TypeOK
  <2> QED
    BY <2>1, <2>2, FoundFrame
<1>4. ASSUME NEW c \in cleanups, CleanupQuery(c) \/ CleanupDelete(c) \/ CleanupCancelled(c)
      PROVE  FoundInv'
  <2>1. UNCHANGED <<pc, req, objects, plan, acks>>
    <3>1. UNCHANGED vars
      BY <1>4, Zenon DEF CleanupQuery, CleanupDelete, CleanupCancelled
    <3> QED
      BY <1>4, <3>1, CleanupMoves, Zenon DEF vars
  <2>2. \A r \in rows \ rows' : ~Live(objects'[r.id])
    <3>1. CASE rows' = rows
      BY <3>1
    <3>2. CASE CleanupDelete(c) /\ rows' # rows
      <4>1. ~Live(objects[c.id]) /\ rows' = rows \ c.del
        BY <3>2 DEF LateCleanup, CleanupDelete
      <4>2. \A r \in c.del : r.id = c.id
        BY DEF WholeInv, RemovesLaterOnly
      <4> QED
        BY <2>1, <4>1, <4>2 DEF Live
    <3> QED
      BY <1>4, <3>1, <3>2, Zenon DEF CleanupQuery, CleanupCancelled
  <2> QED
    BY <2>1, <2>2, FoundFrame
<1>5. ASSUME NEW id \in ObjectIds, PurgeObject(id)
      PROVE  FoundInv'
  <2>1. UNCHANGED <<pc, req, rows, plan>> /\ acks' \subseteq acks
    BY <1>5 DEF PurgeObject, Purge, idxVars, workVars
  <2> QED
    BY <2>1, FoundFrame
<1>6. CASE GsiSync \/ UNCHANGED allVars
  <2>1. UNCHANGED <<pc, req, rows, plan, acks>>
    BY <1>6 DEF GsiSync, allVars, idxVars, vars, workVars
  <2> QED
    BY <2>1, FoundFrame
<1> QED
  BY <1>1, <1>2, <1>3, <1>4, <1>5, <1>6

LEMMA FoundStep ==
  ASSUME IInv, RowsInv, WholeInv, FoundInv, OneAtATime,
         [IndexNext /\ ~LateCleanup /\ ~Unprocessed]_allVars
  PROVE  FoundInv'
<1>1. [Next]_vars
  BY IndexStepIsRecordStep
<1>2. CASE UNCHANGED allVars
  <2>1. UNCHANGED <<vars, rows, plan>>
    BY <1>2, Zenon DEF allVars, idxVars
  <2> QED
    BY <1>1, <2>1, FoundFrame, Zenon DEF vars, workVars
<1>3. CASE IndexNext /\ ~LateCleanup /\ ~Unprocessed
  BY <1>1, <1>3, FoundCommits, FoundIndexing, FoundAnswer, FoundOthers DEF IndexNext
<1> QED
  BY <1>2, <1>3

\* An answered write that is current is found by all its indexes, though the index rows
\* follow the record in calls of their own and are worked out from a GSI that lags, unless
\* two requests are at the object at once, the clean-up of a Delete outlives a Recover,
\* or DynamoDB hands back items of a batch: nothing else can break AnsweredIsFound, not
\* failures, other objects' requests, purges, nor repeated deletes.
THEOREM AnsweredAreFound ==
  IndexSpec /\ []OneAtATime /\ [][~LateCleanup /\ ~Unprocessed]_allVars => []AnsweredIsFound
<1>1. IndexInit => FoundInv
  BY DEF IndexInit, Init, FoundInv, AckedFound
<1>2. IInv /\ RowsInv /\ WholeInv /\ FoundInv /\ OneAtATime
      /\ [IndexNext]_allVars /\ [~LateCleanup /\ ~Unprocessed]_allVars => FoundInv'
  BY FoundStep
<1>3. FoundInv => AnsweredIsFound
  BY DEF FoundInv, AckedFound, Current, AnsweredIsFound
<1>4. IndexInit => WholeInv
  BY WholeInit
<1>5. WholeInv /\ RowsInv /\ IInv /\ [IndexNext]_allVars => WholeInv'
  BY WholeStep
<1> QED
  BY <1>1, <1>2, <1>3, <1>4, <1>5, RowsInvariance, RecordsInvariance, PTL DEF IndexSpec

------------------------------------------------------------------------------
(* What has to go wrong for a stale row to stay *)

RowsAt(id) == {r \in rows : r.id = id}

InIndex(id) == \E w \in Workers : pc[w] = "index" /\ req[w].id = id

\* An object whose rows nobody is writing has rows of its current value only.
Exact(id) ==
  /\ objects[id] = None => RowsAt(id) = {}
  /\ objects[id] # None /\ ~InIndex(id) => RowsAt(id) \subseteq RowsOf(id, objects[id].dek)

\* A request in its index phase is writing the object's current value; the rows of
\* other values are on its plan to be removed.
Replacing(w) ==
  /\ objects[req[w].id].dek = req[w].payload
  /\ plan[w] # None =>
       /\ plan[w].put \subseteq RowsOf(req[w].id, req[w].payload)
       /\ RowsAt(req[w].id) \subseteq plan[w].del \cup RowsOf(req[w].id, req[w].payload)

ExactInv ==
  /\ \A id \in ObjectIds : Exact(id)
  /\ \A w \in Workers : pc[w] = "index" => Replacing(w)

\* updateIndexes does not see all the rows there are: the GSI lags, or the map that
\* GetIndexesByObjectID fills keeps one row of several.
PartialRead == \E w \in Workers : QueryRows(w) /\ plan'[w].del # RowsAt(req[w].id)

\* A request fails between the write of the record and the removal of the old rows.
CutShort ==
  \E w \in Workers :
    FailIndexing(w) /\ pc[w] = "index" /\ (plan[w] = None \/ plan[w].del # {})

\* DynamoDB removes a deleted object whose rows have not been removed.
RowsLeft == \E id \in ObjectIds : PurgeObject(id) /\ RowsAt(id) # {}

LEMMA ExactKept ==
  ASSUME NEW id \in ObjectIds, Exact(id),
         objects'[id] # None => objects[id] # None /\ objects'[id].dek = objects[id].dek,
         objects'[id] = None => RowsAt(id)' = {} \/ objects[id] = None,
         \A r \in rows' \ rows : r.id # id,
         InIndex(id) => InIndex(id)'
  PROVE  Exact(id)'
<1>1. RowsAt(id)' \subseteq RowsAt(id)
  BY DEF RowsAt
<1>2. CASE objects'[id] = None
  BY <1>1, <1>2 DEF Exact
<1>3. CASE objects'[id] # None
  <2>1. RowsOf(id, objects[id].dek)' = RowsOf(id, objects[id].dek)
    BY <1>3 DEF RowsOf
  <2> QED
    BY <1>1, <1>3, <2>1 DEF Exact
<1> QED
  BY <1>2, <1>3

LEMMA ReplacingKept ==
  ASSUME NEW u \in Workers, Replacing(u), req'[u] = req[u], plan'[u] = plan[u],
         objects'[req[u].id].dek = objects[req[u].id].dek,
         \A r \in rows' \ rows : r.id # req[u].id
  PROVE  Replacing(u)'
<1>1. RowsAt(req[u].id)' \subseteq RowsAt(req[u].id)
  BY DEF RowsAt
<1>2. RowsOf(req[u].id, req[u].payload)' = RowsOf(req[u].id, req[u].payload)
  BY DEF RowsOf
<1> QED
  BY <1>1, <1>2 DEF Replacing

\* A step of no request in its index phase, which puts no row and changes no data.
LEMMA ExactFrame ==
  ASSUME IInv, ExactInv, rows' \subseteq rows,
         \A i \in ObjectIds :
           \/ objects'[i] = objects[i]
           \/ objects[i] # None /\ objects'[i] # None /\ objects'[i].dek = objects[i].dek,
         \A u \in Workers : pc[u] = "index" \/ pc'[u] = "index" =>
           pc'[u] = pc[u] /\ req'[u] = req[u] /\ plan'[u] = plan[u]
  PROVE  ExactInv'
<1>1. ASSUME NEW i \in ObjectIds
      PROVE  Exact(i)'
  <2>1. InIndex(i) => InIndex(i)'
    BY DEF InIndex
  <2> QED
    BY <2>1, ExactKept DEF ExactInv
<1>2. ASSUME NEW u \in Workers, pc'[u] = "index"
      PROVE  Replacing(u)'
  <2>1. pc[u] = "index" /\ req[u].id \in ObjectIds
    BY <1>2, IndexVersions
  <2> QED
    BY <1>2, <2>1, ReplacingKept DEF ExactInv
<1> QED
  BY <1>1, <1>2 DEF ExactInv

\* A step of the only request that is, or is now, in the index phase of its object.
LEMMA ExactWork ==
  ASSUME IInv, ExactInv, NEW w \in Workers, NEW id \in ObjectIds,
         pc'[w] = "index", req'[w].id = id, pc[w] = "index" => req[w].id = id,
         objects'[id] # None,
         \A i \in ObjectIds \ {id} : objects'[i] = objects[i],
         \A r \in rows' \ rows : r.id = id,
         Replacing(w)',
         \A u \in Workers \ {w} :
           /\ pc'[u] = pc[u] /\ req'[u] = req[u] /\ plan'[u] = plan[u]
           /\ pc[u] = "index" => req[u].id # id
  PROVE  ExactInv'
<1>1. ASSUME NEW i \in ObjectIds
      PROVE  Exact(i)'
  <2>1. CASE i = id
    <3>1. InIndex(id)'
      BY DEF InIndex
    <3> QED
      BY <2>1, <3>1 DEF Exact
  <2>2. CASE i # id
    <3>1. InIndex(i) => InIndex(i)'
      BY <2>2 DEF InIndex
    <3> QED
      BY <2>2, <3>1, ExactKept DEF ExactInv
  <2> QED
    BY <2>1, <2>2
<1>2. ASSUME NEW u \in Workers \ {w}, pc'[u] = "index"
      PROVE  Replacing(u)'
  <2>1. pc[u] = "index" /\ req[u].id \in ObjectIds \ {id}
    BY <1>2, IndexVersions
  <2> QED
    BY <1>2, <2>1, ReplacingKept DEF ExactInv
<1> QED
  BY <1>1, <1>2 DEF ExactInv

\* A create, which puts its rows where there are none.
LEMMA ExactCreate ==
  ASSUME IInv, RowsInv, ExactInv, NEW w \in Workers, NEW id \in ObjectIds, NEW p,
         CommitRows(w, id, p),
         pc[w] # "index", pc'[w] = "index", req'[w].id = id, req'[w].payload = p,
         objects[id] = None, objects'[id] # None, objects'[id].dek = p,
         \A i \in ObjectIds \ {id} : objects'[i] = objects[i],
         \A u \in Workers \ {w} : pc'[u] = pc[u] /\ req'[u] = req[u]
  PROVE  ExactInv'
<1>1. PICK put \in SUBSET RowsOf(id, p) :
        plan' = [plan EXCEPT ![w] = [del |-> {}, put |-> put]]
  BY DEF CommitRows, Todo
<1>2. plan'[w] = [del |-> {}, put |-> put] /\ \A u \in Workers \ {w} : plan'[u] = plan[u]
  BY <1>1 DEF RowsInv, IndexTypeOK
<1>3. rows' \subseteq rows \cup RowsOf(id, p)
  BY DEF CommitRows
<1>4. \A r \in rows' \ rows : r.id = id
  BY <1>3 DEF RowsOf
<1>5. RowsAt(id)' \subseteq RowsOf(id, p)
  BY <1>3 DEF ExactInv, Exact, RowsAt
<1>6. Replacing(w)'
  <2>1. RowsOf(req[w].id, req[w].payload)' = RowsOf(id, p)
    BY DEF RowsOf
  <2>2. RowsAt(req[w].id)' = RowsAt(id)'
    BY DEF RowsAt
  <2>3. plan'[w].put = put
    BY <1>2
  <2> QED
    BY <1>5, <2>1, <2>2, <2>3 DEF Replacing
<1>7. \A u \in Workers \ {w} : pc[u] = "index" => req[u].id # id
  BY IndexVersions
<1> QED
  BY <1>2, <1>4, <1>6, <1>7, ExactWork

LEMMA ExactCommits ==
  ASSUME IInv, RowsInv, WholeInv, ExactInv, OneAtATime, NEW w \in Workers,
         \/ \E id \in ObjectIds, p \in Payloads : CreateInline(w, id, p)
         \/ CreateLarge(w)
         \/ CommitUpdate(w)
  PROVE  ExactInv'
<1> USE DEF IInv, TypeOK, WorkersOK
<1>1. ASSUME NEW id \in ObjectIds, NEW p \in Payloads, CreateInline(w, id, p)
      PROVE  ExactInv'
  <2> DEFINE q == [id |-> id, version |-> 1, payload |-> p, large |-> FALSE]
  <2>1. q \in Request
    BY BoundAssumption DEF Request, Versions
  <2>2. /\ objects' = [objects EXCEPT ![id] = NewRecord(q)]
        /\ NewRecord(q).dek = p /\ NewRecord(q) # None
    BY <1>1, <2>1, NewRecordFields, NewRecordType, NoneAssumption DEF CreateInline, PutCreate
  <2>3. objects[id] = None
    BY <1>1 DEF CreateInline, PutCreate, IssuedOK
  <2>4. /\ pc[w] # "index" /\ pc'[w] = "index" /\ req'[w] = q
        /\ \A u \in Workers \ {w} : pc'[u] = pc[u] /\ req'[u] = req[u]
    BY <1>1 DEF CreateInline, PutCreate, Goto, Idle
  <2>5. CommitRows(w, id, p)
    BY <1>1 DEF CreateInline
  <2>6. objects'[id].dek = p /\ objects'[id] # None
        /\ \A i \in ObjectIds \ {id} : objects'[i] = objects[i]
    BY <2>2
  <2> QED
    BY <2>3, <2>4, <2>5, <2>6, ExactCreate
<1>2. ASSUME CreateLarge(w)
      PROVE  ExactInv'
  <2> DEFINE id == req[w].id
  <2>1. pc[w] = "create" /\ req[w] \in Request /\ id \in ObjectIds
    BY <1>2 DEF CreateLarge, CreateRecord, Request
  <2>2. \A u \in Workers \ {w} : pc'[u] = pc[u] /\ req'[u] = req[u]
    BY <1>2 DEF CreateLarge, CreateRecord, Return, Goto
  <2>3. CASE pc'[w] = "index"
    <3>1. CommitRows(w, id, req[w].payload)
      BY <1>2, <2>3 DEF CreateLarge
    <3>2. /\ objects[id] = None /\ objects' = [objects EXCEPT ![id] = NewRecord(req[w])]
          /\ req'[w] = req[w]
      BY <1>2, <2>1, <2>3 DEF CreateLarge, CreateRecord, Return, Creatable
    <3>3. NewRecord(req[w]).dek = req[w].payload /\ NewRecord(req[w]) # None
      BY <2>1, NewRecordFields, NewRecordType, NoneAssumption
    <3>4. objects'[id].dek = req[w].payload /\ objects'[id] # None
          /\ \A i \in ObjectIds \ {id} : objects'[i] = objects[i]
      BY <2>1, <3>2, <3>3
    <3> QED
      BY <2>1, <2>2, <2>3, <3>1, <3>2, <3>4, ExactCreate
  <2>4. CASE pc'[w] # "index"
    <3>1. UNCHANGED <<rows, plan, objects>>
      BY <1>2, <2>1, <2>4 DEF CreateLarge, CreateRecord, Goto, idxVars
    <3> QED
      BY <2>1, <2>2, <2>4, <3>1, ExactFrame
  <2> QED
    BY <2>3, <2>4
<1>3. ASSUME CommitUpdate(w)
      PROVE  ExactInv'
  <2> DEFINE id == req[w].id
  <2>1. pc[w] = "write" /\ WriteRecord(w) /\ UNCHANGED <<rows, plan>>
    BY <1>3 DEF CommitUpdate, WriteRecord
  <2>2. CASE Return(w)
    <3>1. UNCHANGED objects
      BY <2>1, <2>2 DEF WriteRecord, Return, Goto
    <3>2. \A u \in Workers : pc[u] = "index" \/ pc'[u] = "index" =>
            pc'[u] = pc[u] /\ req'[u] = req[u] /\ plan'[u] = plan[u]
      BY <2>1, <2>2 DEF Return
    <3> QED
      BY <2>1, <3>1, <3>2, ExactFrame
  <2>3. CASE ~Return(w)
    <3>1. /\ id \in ObjectIds /\ req[w] \in Request /\ objects[id] \in Record
          /\ objects'[id] \in Record
          /\ objects'[id] = Applied(req[w], objects[id])
          /\ \A i \in ObjectIds \ {id} : objects'[i] = objects[i]
          /\ pc' = [pc EXCEPT ![w] = "index"] /\ req' = req
      BY <2>1, <2>3, WriteRecordFacts
    <3>2. objects'[id].dek = req[w].payload
      BY <3>1 DEF Applied, Record
    <3>3. plan[w] = None
      BY <2>1 DEF WholeInv, RemovesLaterOnly
    <3>4. Replacing(w)'
      BY <2>1, <3>1, <3>2, <3>3 DEF Replacing
    <3>5. \A u \in Workers \ {w} : pc[u] = "index" => req[u].id # id
      BY <2>1, <3>1, NoneAssumption, IndexVersions DEF OneAtATime
    <3> QED
      BY <2>1, <3>1, <3>4, <3>5, NoneAssumption, ExactWork
  <2> QED
    BY <2>2, <2>3
<1> QED
  BY <1>1, <1>2, <1>3

\* updateIndexes and the batches of a create.
LEMMA ExactIndexing ==
  ASSUME IInv, RowsInv, WholeInv, ExactInv, OneAtATime, ~PartialRead,
         NEW w \in Workers, QueryRows(w) \/ DeleteRow(w) \/ PutRow(w) \/ WriteBatch(w)
  PROVE  ExactInv'
<1> DEFINE id == req[w].id
           R == RowsOf(req[w].id, req[w].payload)
<1>1. UNCHANGED <<pc, req, objects>>
  BY DEF QueryRows, DeleteRow, PutRow, WriteBatch, vars, workVars, recVars
<1>2. pc[w] = "index"
  BY DEF QueryRows, DeleteRow, PutRow, WriteBatch, WholeInv, RemovesLaterOnly
<1>3. Replacing(w) /\ id \in ObjectIds /\ objects[id] # None
  BY <1>2, IndexVersions DEF ExactInv
<1>4. plan'[w].put \subseteq R /\ RowsAt(id)' \subseteq plan'[w].del \cup R
      /\ \A r \in rows' \ rows : r \in R
  <2>1. CASE QueryRows(w)
    <3>1. plan'[w].put = R /\ rows' = rows
      BY <2>1 DEF QueryRows, Todo, RowsInv, IndexTypeOK
    <3>2. plan'[w].del = RowsAt(id)
      BY <2>1 DEF PartialRead
    <3> QED
      BY <1>1, <3>1, <3>2 DEF RowsAt
  <2>2. CASE DeleteRow(w)
    <3>1. /\ plan[w] # None /\ rows' = rows \ plan[w].del
          /\ plan'[w] = [del |-> {}, put |-> plan[w].put]
      BY <2>2 DEF DeleteRow, Todo, RowsInv, IndexTypeOK
    <3> QED
      BY <1>1, <1>3, <3>1 DEF Replacing, RowsAt
  <2>3. CASE PutRow(w)
    <3>1. PICK r \in plan[w].put : /\ rows' = rows \cup {r}
                                   /\ plan'[w] = [del |-> {}, put |-> plan[w].put \ {r}]
      BY <2>3 DEF PutRow, Todo, RowsInv, IndexTypeOK
    <3>2. plan[w] # None /\ plan[w].del = {}
      BY <2>3 DEF PutRow
    <3> QED
      BY <1>1, <1>3, <3>1, <3>2 DEF Replacing, RowsAt
  <2>4. CASE WriteBatch(w)
    <3>1. PICK batch \in SUBSET plan[w].put, done \in SUBSET plan[w].put :
            /\ done \subseteq batch /\ rows' = rows \cup done
            /\ Todo(w, {}, plan[w].put \ batch)
      BY <2>4 DEF WriteBatch
    <3>2. plan'[w] = [del |-> {}, put |-> plan[w].put \ batch]
      BY <3>1 DEF Todo, RowsInv, IndexTypeOK
    <3>3. plan[w] # None /\ \A r \in plan[w].del : req[w].version > 1
      BY <2>4 DEF WriteBatch, WholeInv, RemovesLaterOnly
    <3>4. plan[w].del = {}
      BY <2>4, <3>3, IndexVersions DEF WriteBatch
    <3> QED
      BY <1>1, <1>3, <3>1, <3>2, <3>3, <3>4 DEF Replacing, RowsAt
  <2> QED
    BY <2>1, <2>2, <2>3, <2>4
<1>5. Replacing(w)'
  <2>1. R' = R
    BY <1>1 DEF RowsOf
  <2>2. RowsAt(req[w].id)' = RowsAt(id)'
    OBVIOUS
  <2> QED
    BY <1>1, <1>3, <1>4, <2>1, <2>2 DEF Replacing
<1>6. \A r \in rows' \ rows : r.id = id
  BY <1>4 DEF RowsOf
<1>7. \A u \in Workers \ {w} : plan'[u] = plan[u] /\ (pc[u] = "index" => req[u].id # id)
  <2>1. \A u \in Workers \ {w} : plan'[u] = plan[u]
    BY DEF QueryRows, DeleteRow, PutRow, WriteBatch, Todo, RowsInv, IndexTypeOK
  <2> QED
    BY <1>2, <2>1, IndexVersions DEF OneAtATime
<1> QED
  BY <1>1, <1>2, <1>3, <1>5, <1>6, <1>7, ExactWork

\* A request that leaves its index phase has removed what it had to.
LEMMA ExactLeave ==
  ASSUME IInv, RowsInv, WholeInv, ExactInv, ~CutShort, NEW w \in Workers,
         AnswerIndexed(w) \/ FailIndexing(w)
  PROVE  ExactInv'
<1>1. /\ UNCHANGED <<objects, rows>>
      /\ pc' = [pc EXCEPT ![w] = "idle"] /\ req' = [req EXCEPT ![w] = None]
      /\ plan' = [plan EXCEPT ![w] = None]
  BY DEF AnswerIndexed, FailIndexing, Answer, Fail, Return, Forget, recVars
<1>2. /\ pc'[w] = "idle" /\ plan'[w] = None
      /\ \A u \in Workers \ {w} : pc'[u] = pc[u] /\ req'[u] = req[u] /\ plan'[u] = plan[u]
  BY <1>1 DEF IInv, TypeOK, RowsInv, IndexTypeOK
<1>3. CASE pc[w] # "index"
  BY <1>1, <1>2, <1>3, ExactFrame
<1>4. CASE pc[w] = "index"
  <2> DEFINE id == req[w].id
  <2>1. plan[w] # None /\ plan[w].del = {}
    <3>1. CASE AnswerIndexed(w)
      <4>1. plan[w] = [del |-> {}, put |-> {}] /\ plan[w] \in Plans
        BY <3>1 DEF AnswerIndexed, Plans
      <4> QED
        BY <4>1, IndexAssumption
    <3>2. CASE FailIndexing(w)
      BY <1>4, <3>2 DEF CutShort
    <3> QED
      BY <3>1, <3>2
  <2>2. id \in ObjectIds /\ objects[id] # None
        /\ objects[id].dek = req[w].payload
        /\ RowsAt(id) \subseteq RowsOf(id, req[w].payload)
    BY <1>4, <2>1, IndexVersions DEF ExactInv, Replacing
  <2>3. ASSUME NEW i \in ObjectIds
        PROVE  Exact(i)'
    <3>1. CASE i = id
      <4>1. RowsAt(i)' = RowsAt(i)
        BY <1>1 DEF RowsAt
      <4>2. RowsOf(i, objects[i].dek)' = RowsOf(i, req[w].payload)
        BY <1>1, <2>2, <3>1 DEF RowsOf
      <4> QED
        BY <1>1, <2>2, <3>1, <4>1, <4>2 DEF Exact
    <3>2. CASE i # id
      <4>1. InIndex(i) => InIndex(i)'
        BY <1>2, <3>2 DEF InIndex
      <4> QED
        BY <1>1, <4>1, ExactKept DEF ExactInv
    <3> QED
      BY <3>1, <3>2
  <2>4. ASSUME NEW u \in Workers, pc'[u] = "index"
        PROVE  Replacing(u)'
    <3>1. u # w /\ pc[u] = "index"
      BY <1>2, <2>4
    <3> QED
      BY <1>1, <1>2, <3>1, ReplacingKept DEF ExactInv
  <2> QED
    BY <2>3, <2>4 DEF ExactInv
<1> QED
  BY <1>3, <1>4

\* Deletes and their clean-up, the table's and the GSI's own steps.
LEMMA ExactOthers ==
  ASSUME IInv, RowsInv, WholeInv, ExactInv, ~RowsLeft,
         \/ RowFreeStep
         \/ \E w \in Workers, id \in ObjectIds : DeleteObject(w, id)
         \/ \E c \in cleanups : CleanupQuery(c) \/ CleanupDelete(c) \/ CleanupCancelled(c)
         \/ \E id \in ObjectIds : PurgeObject(id)
         \/ GsiSync
         \/ UNCHANGED allVars
  PROVE  ExactInv'
<1>1. CASE RowFreeStep
  <2>1. UNCHANGED <<rows, plan>>
    BY <1>1 DEF RowFreeStep, idxVars
  <2> QED
    BY <1>1, <2>1, RowFreeKeeps, ExactFrame
<1>2. ASSUME NEW w \in Workers, NEW id \in ObjectIds, DeleteObject(w, id)
      PROVE  ExactInv'
  <2>1. UNCHANGED <<rows, plan>>
    BY <1>2 DEF DeleteObject
  <2>2. \A u \in Workers : pc[u] = "index" \/ pc'[u] = "index" =>
          pc'[u] = pc[u] /\ req'[u] = req[u]
    BY <1>2 DEF DeleteObject, Delete, ThenBlob, Goto, Idle, IInv, TypeOK
  <2>3. /\ objects[id] # None /\ objects'[id] # None /\ objects'[id].dek = objects[id].dek
        /\ \A i \in ObjectIds \ {id} : objects'[i] = objects[i]
    <3>1. TypeInv
      BY DEF TypeInv, IInv
    <3> QED
      BY <1>2, <3>1, FlipFields, NoneAssumption DEF DeleteObject
  <2> QED
    BY <2>1, <2>2, <2>3, ExactFrame
<1>3. ASSUME NEW c \in cleanups, CleanupQuery(c) \/ CleanupDelete(c) \/ CleanupCancelled(c)
      PROVE  ExactInv'
  <2>1. UNCHANGED <<pc, req, objects, plan>>
    BY <1>3, CleanupMoves, Zenon
  <2>2. rows' \subseteq rows
    BY <1>3, CleanupMoves
  <2> QED
    BY <2>1, <2>2, ExactFrame
<1>4. ASSUME NEW id \in ObjectIds, PurgeObject(id)
      PROVE  ExactInv'
  <2>1. UNCHANGED <<pc, req, rows, plan>> /\ Quiet(id) /\ RowsAt(id) = {}
    BY <1>4 DEF PurgeObject, Purge, idxVars, workVars, RowsLeft
  <2>2. objects'[id] = None /\ \A i \in ObjectIds \ {id} : objects'[i] = objects[i]
    BY <1>4 DEF PurgeObject, Purge, IInv, TypeOK
  <2>3. ASSUME NEW i \in ObjectIds
        PROVE  Exact(i)'
    <3>1. RowsAt(id)' = {}
      BY <2>1 DEF RowsAt
    <3>2. InIndex(i) => InIndex(i)'
      BY <2>1 DEF InIndex
    <3> QED
      BY <2>1, <2>2, <3>1, <3>2, ExactKept DEF ExactInv
  <2>4. ASSUME NEW u \in Workers, pc'[u] = "index"
        PROVE  Replacing(u)'
    <3>1. pc[u] = "index" /\ req[u].id \in ObjectIds \ {id}
      BY <2>1, <2>4, IndexVersions DEF Quiet
    <3> QED
      BY <2>1, <2>2, <3>1, ReplacingKept DEF ExactInv
  <2> QED
    BY <2>3, <2>4 DEF ExactInv
<1>5. CASE GsiSync \/ UNCHANGED allVars
  <2>1. UNCHANGED <<pc, req, objects, rows, plan>>
    BY <1>5 DEF GsiSync, allVars, idxVars, vars, workVars, recVars
  <2> QED
    BY <2>1, ExactFrame
<1> QED
  BY <1>1, <1>2, <1>3, <1>4, <1>5

LEMMA ExactStep ==
  ASSUME IInv, RowsInv, WholeInv, ExactInv, OneAtATime,
         [IndexNext /\ ~PartialRead /\ ~CutShort /\ ~RowsLeft]_allVars
  PROVE  ExactInv'
<1>1. CASE UNCHANGED allVars
  <2>1. UNCHANGED <<pc, req, objects, rows, plan>>
    BY <1>1, Zenon DEF allVars, idxVars, vars, workVars, recVars
  <2> QED
    BY <2>1, ExactFrame
<1>2. CASE IndexNext /\ ~PartialRead /\ ~CutShort /\ ~RowsLeft
  BY <1>2, ExactCommits, ExactIndexing, ExactLeave, ExactOthers DEF IndexNext
<1> QED
  BY <1>1, <1>2

\* ExactMatch, the claim of README.md:86 that the code breaks, holds as soon as nobody
\* writes an object that another request is writing, updateIndexes finds all the rows
\* there are, no request fails before it has removed the old ones, and rows do not
\* outlive their object: these are all the ways a row of a value that an object no
\* longer has can lead to it.
THEOREM MatchesAreExact ==
  IndexSpec /\ []OneAtATime /\ [][~PartialRead /\ ~CutShort /\ ~RowsLeft]_allVars
    => []ExactMatch
<1>1. IndexInit => ExactInv
  BY DEF IndexInit, Init, ExactInv, Exact, RowsAt
<1>2. IInv /\ RowsInv /\ WholeInv /\ ExactInv /\ OneAtATime
      /\ [IndexNext]_allVars /\ [~PartialRead /\ ~CutShort /\ ~RowsLeft]_allVars => ExactInv'
  BY ExactStep
<1>3. IInv /\ ExactInv => ExactMatch
  <2> SUFFICES ASSUME IInv, ExactInv, NEW id \in ObjectIds, Live(objects[id]), AtRest(id)
               PROVE  {r \in rows : r.id = id} \subseteq RowsOf(id, objects[id].dek)
    BY DEF ExactMatch
  <2>1. ~InIndex(id)
    BY IndexVersions DEF AtRest, Quiet, InIndex
  <2> QED
    BY <2>1 DEF ExactInv, Exact, Live, RowsAt
<1>4. IndexInit => WholeInv
  BY WholeInit
<1>5. WholeInv /\ RowsInv /\ IInv /\ [IndexNext]_allVars => WholeInv'
  BY WholeStep
<1> QED
  BY <1>1, <1>2, <1>3, <1>4, <1>5, RowsInvariance, RecordsInvariance, PTL DEF IndexSpec

==============================================================================
