--------------------------- MODULE ObjectIndexes ---------------------------
(***************************************************************************)
(* The index rows of the objects (DynamoDB's indexes table and its GSI     *)
(* gsi1), on top of ObjectRecords: how CreateObjectWithIndexes,            *)
(* updateIndexes and the background deleteIndexesByObject write them while *)
(* the records they point at move on.                                      *)
(*                                                                         *)
(* Every step is a step of ObjectRecords, which leaves the rows out, or a  *)
(* step on the rows alone.                                                 *)
(***************************************************************************)
EXTENDS ObjectRecords, FiniteSets

CONSTANTS
  Names,        \* the indexes of the table, in the order of their gsi1sk
  Tokens,       \* the deterministic encryptions of the indexed values
  IndexTokens,  \* payload -> index name -> token: the indexes the client sends along
  BatchLimit,   \* 25: rows of one transaction, and of one BatchWriteItem
  GsiLag        \* whether the GSI, read by object id, may lag behind the table

\* A row's key is pk = the index name, sk = token and object id together.
Rows == [id : ObjectIds, name : Names, token : Tokens]

Plans == [del : SUBSET Rows, put : SUBSET Rows]

Cleanup == [id : ObjectIds, version : Versions, del : SUBSET Rows, queried : BOOLEAN]

ASSUME IndexAssumption ==
  /\ Names \subseteq Nat
  /\ \A p \in Payloads : \A n \in DOMAIN IndexTokens[p] :
       n \in Names /\ IndexTokens[p][n] \in Tokens
  /\ BatchLimit \in Nat \ {0}
  /\ GsiLag \in BOOLEAN
  /\ None \notin Plans

VARIABLES
  rows,      \* the indexes table
  gsi,       \* what the GSI shows of it
  plan,      \* what a worker in its index phase has left to do; None: not known yet
  cleanups,  \* the goroutines that Deletes have left behind
  written    \* history: <<id, payload>> of the writes that were committed

idxVars == <<rows, gsi, plan, cleanups, written>>
allVars == <<vars, idxVars>>

------------------------------------------------------------------------------

\* The rows a request writes, one for each of its indexes.
RowsOf(id, p) ==
  {[id |-> id, name |-> n, token |-> IndexTokens[p][n]] : n \in DOMAIN IndexTokens[p]}

\* GetIndexesByObjectID: a query of the GSI.  It keeps the rows in a map by
\* GetIndexName.  The name is in a row's keys, but GetIndexName splits them wrongly
\* and returns "" for every row, so that only the row the GSI lists last is left.
Listed(id) == {r \in (IF GsiLag THEN gsi ELSE rows) : r.id = id}

\* Mutant: the query finds nothing.
LastOfMut(S) == {{}}

LastOf(S) ==
  IF S = {} THEN {{}} ELSE {{r} : r \in {x \in S : \A y \in S : y.name <= x.name}}

Todo(w, del, put) == plan' = [plan EXCEPT ![w] = [del |-> del, put |-> put]]

Forget(w) == plan' = [plan EXCEPT ![w] = None]

Commit(id, p) == written' = written \cup {<<id, p>>}

\* CreateObjectWithIndexes: few rows go into the transaction of the object,
\* many are left to batches.
Transacted(id, p) == Cardinality(RowsOf(id, p)) <= BatchLimit

\* Mutant: the rows always follow in batches.
CommitRowsMut(w, id, p) ==
  /\ rows' = rows
  /\ Todo(w, {}, RowsOf(id, p))
  /\ Commit(id, p)
  /\ UNCHANGED <<gsi, cleanups>>

CommitRows(w, id, p) ==
  /\ IF Transacted(id, p)
     THEN rows' = rows \cup RowsOf(id, p) /\ Todo(w, {}, {})
     ELSE rows' = rows /\ Todo(w, {}, RowsOf(id, p))
  /\ Commit(id, p)
  /\ UNCHANGED <<gsi, cleanups>>

IndexInit ==
  /\ Init
  /\ rows = {}
  /\ gsi = {}
  /\ plan = [w \in Workers |-> None]
  /\ cleanups = {}
  /\ written = {}

------------------------------------------------------------------------------
(* Steps on a record, and what they do to the rows *)

CreateInline(w, id, p) ==
  /\ PutCreate(w, id, p)
  /\ CommitRows(w, id, p)

\* The create of ConfirmPutLarge.  The transaction asks of the rows, too, that
\* they do not exist.
CreateLarge(w) ==
  /\ CreateRecord(w)
  /\ LET id == req[w].id
         p  == req[w].payload
         free == Creatable(id) /\ (Transacted(id, p) => RowsOf(id, p) \cap rows = {})
     IN IF free
        THEN pc'[w] = "index" /\ CommitRows(w, id, p)
        ELSE pc'[w] = "idle" /\ UNCHANGED idxVars

\* An update is committed before its rows are looked at.
CommitUpdate(w) ==
  /\ WriteRecord(w)
  /\ IF pc'[w] = "index" THEN Commit(req[w].id, req[w].payload) ELSE UNCHANGED written
  /\ UNCHANGED <<rows, gsi, plan, cleanups>>

\* SoftDeleteObjectAndIndexes leaves the rows to a goroutine, which works under
\* the context of the request it outlives.
DeleteObject(w, id) ==
  /\ Delete(w, id)
  /\ cleanups' = cleanups \cup
       {[id |-> id, version |-> objects'[id].version, del |-> {}, queried |-> FALSE]}
  /\ UNCHANGED <<rows, gsi, plan, written>>

\* Rows have no TTL: they stay behind when DynamoDB removes a deleted object.
PurgeObject(id) ==
  /\ Purge(id)
  /\ \A c \in cleanups : c.id # id
  /\ UNCHANGED idxVars

------------------------------------------------------------------------------
(* updateIndexes, after the record of an update is written *)

\* Mutant: the rows are worked out, and put, before the record is written.
QueryRowsMut(w) ==
  /\ pc[w] = "write"
  /\ plan[w] = None
  /\ \E del \in LastOf(Listed(req[w].id)) : Todo(w, del, RowsOf(req[w].id, req[w].payload))
  /\ UNCHANGED <<vars, rows, gsi, cleanups, written>>

\* It reads the rows the object has and compares them with those it is to have:
\* the name of the one it finds is not among the request's, so that row goes;
\* none of the request's names is found, so all its rows are put.
QueryRows(w) ==
  /\ pc[w] = "index"
  /\ plan[w] = None
  /\ \E del \in LastOf(Listed(req[w].id)) : Todo(w, del, RowsOf(req[w].id, req[w].payload))
  /\ UNCHANGED <<vars, rows, gsi, cleanups, written>>

\* DeleteItem.
DeleteRow(w) ==
  /\ plan[w] # None
  /\ plan[w].del # {}
  /\ rows' = rows \ plan[w].del
  /\ Todo(w, {}, plan[w].put)
  /\ UNCHANGED <<vars, gsi, cleanups, written>>

\* PutItem, once per row.
PutRow(w) ==
  /\ plan[w] # None
  /\ plan[w].del = {}
  /\ req[w].version # 1
  /\ \E r \in plan[w].put :
       /\ rows' = rows \cup {r}
       /\ Todo(w, {}, plan[w].put \ {r})
  /\ UNCHANGED <<vars, gsi, cleanups, written>>

\* One BatchWriteItem of a create with many indexes.  When it is throttled part
\* of it comes back as UnprocessedItems, which nobody reads.
WriteBatch(w) ==
  /\ plan[w] # None
  /\ req[w].version = 1
  /\ \E batch \in SUBSET plan[w].put :
       /\ batch # {}
       /\ Cardinality(batch) = BatchLimit \/ (batch = plan[w].put /\ Cardinality(batch) < BatchLimit)
       /\ \E done \in SUBSET batch :
            /\ Faults \/ done = batch
            /\ rows' = rows \cup done
            /\ Todo(w, {}, plan[w].put \ batch)
  /\ UNCHANGED <<vars, gsi, cleanups, written>>

\* All rows are done.
AnswerIndexed(w) ==
  /\ Answer(w)
  /\ plan[w] = [del |-> {}, put |-> {}]
  /\ Forget(w)
  /\ UNCHANGED <<rows, gsi, cleanups, written>>

FailIndexing(w) ==
  /\ Fail(w)
  /\ Forget(w)
  /\ UNCHANGED <<rows, gsi, cleanups, written>>

------------------------------------------------------------------------------
(* deleteIndexesByObject, behind a Delete *)

CleanupQuery(c) ==
  /\ c \in cleanups
  /\ ~c.queried
  /\ \E del \in LastOf(Listed(c.id)) :
       cleanups' = (cleanups \ {c}) \cup {[c EXCEPT !.del = del, !.queried = TRUE]}
  /\ UNCHANGED <<vars, rows, gsi, plan, written>>

CleanupDelete(c) ==
  /\ c \in cleanups
  /\ c.queried
  /\ rows' = rows \ c.del
  /\ cleanups' = cleanups \ {c}
  /\ UNCHANGED <<vars, gsi, plan, written>>

\* The request's context is cancelled as soon as its handler returns.
CleanupCancelled(c) ==
  /\ c \in cleanups
  /\ cleanups' = cleanups \ {c}
  /\ UNCHANGED <<vars, rows, gsi, plan, written>>

\* The GSI catches up with one change of the table.
GsiSync ==
  /\ GsiLag
  /\ \/ \E r \in rows \ gsi : gsi' = gsi \cup {r}
     \/ \E r \in gsi \ rows : gsi' = gsi \ {r}
  /\ UNCHANGED <<vars, rows, plan, cleanups, written>>

------------------------------------------------------------------------------

\* The steps of ObjectRecords that do not touch the rows.
RowFreeStep ==
  /\ \/ \E w \in Workers :
          \/ \E id \in ObjectIds, v \in Versions, p \in Payloads :
               PutUpdate(w, id, v, p) \/ ConfirmPutLarge(w, id, v, p)
          \/ ReadRecord(w) \/ TagBlob(w) \/ UntagBlob(w)
          \/ \E id \in ObjectIds : Recover(w, id)
     \/ \E id \in ObjectIds, p \in Payloads : RequestCreate(id, p) \/ RequestUpdate(id, p)
     \/ \E k \in Keys, p \in Payloads : Upload(k, p) \/ UrlExpires(k, p)
     \/ \E id \in ObjectIds : ReplicaSync(id)
     \/ \E k \in Keys : LifecycleExpire(k)
  /\ UNCHANGED idxVars

IndexNext ==
  \/ RowFreeStep
  \/ \E w \in Workers :
       \/ \E id \in ObjectIds, p \in Payloads : CreateInline(w, id, p)
       \/ CreateLarge(w)
       \/ CommitUpdate(w)
       \/ QueryRows(w)
       \/ DeleteRow(w)
       \/ PutRow(w)
       \/ WriteBatch(w)
       \/ AnswerIndexed(w)
       \/ FailIndexing(w)
       \/ \E id \in ObjectIds : DeleteObject(w, id)
  \/ \E c \in cleanups : CleanupQuery(c) \/ CleanupDelete(c) \/ CleanupCancelled(c)
  \/ \E id \in ObjectIds : PurgeObject(id)
  \/ GsiSync

IndexSpec == IndexInit /\ [][IndexNext]_allVars

------------------------------------------------------------------------------
(* Properties *)

IndexTypeOK ==
  /\ rows \subseteq Rows
  /\ gsi \subseteq Rows
  /\ plan \in [Workers -> Plans \cup {None}]
  /\ cleanups \subseteq Cleanup
  /\ written \subseteq ObjectIds \X Payloads

\* The rows of the writes that were committed.
WrittenRows == UNION {RowsOf(m[1], m[2]) : m \in written}

\* A row is never there before its write is committed, nor left by a write that
\* was refused, failed or died: no query finds an object by a value it never had.
RowsWereWritten == rows \subseteq WrittenRows

\* A create in one transaction is whole: as long as an object is at its first
\* version, whatever its creator does next, it is found by all its indexes.
CreatedWithIndexes ==
  \A id \in ObjectIds :
    \A p \in Payloads :
      /\ Live(objects[id])
      /\ objects[id].version = 1
      /\ objects[id].dek = p
      /\ Transacted(id, p)
      => RowsOf(id, p) \subseteq rows

\* What is about to be removed are rows of an object that has left its first
\* version, which the request, or the cleanup, keeps from being purged and created
\* again.  Makes CreatedWithIndexes inductive.
RemovesLaterOnly ==
  /\ \A w \in Workers :
       /\ plan[w] # None =>
            /\ pc[w] = "index"
            /\ \A r \in plan[w].del : r.id = req[w].id /\ req[w].version > 1
       /\ pc[w] = "index" /\ req[w].version = 1 => plan[w] # None
  /\ \A c \in cleanups :
       /\ objects[c.id] # None /\ objects[c.id].version > 1
       /\ \A r \in c.del : r.id = c.id

\* No request and no cleanup is working on the object.
AtRest(id) == Quiet(id) /\ \A c \in cleanups : c.id # id

\* README.md:86 "Enables exact-match queries on encrypted data": once a live
\* object is at rest, the rows that lead to it are rows of its current value.
ExactMatch ==
  \A id \in ObjectIds :
    Live(objects[id]) /\ AtRest(id) =>
      {r \in rows : r.id = id} \subseteq RowsOf(id, objects[id].dek)

\* The same line, the other way round: an answered write that is still the
\* object's current version is found by all its indexes.
AnsweredIsFound ==
  \A a \in acks :
    LET r == objects[a[1]] IN
    Live(r) /\ r.version = a[2] /\ r.dek = a[3] /\ AtRest(a[1])
      => RowsOf(a[1], a[3]) \subseteq rows

==============================================================================
