------------------------ MODULE ObjectRecordsProofs ------------------------
(* Proofs about ObjectRecords, for every number of objects, workers, payloads *)
(* and versions.                                                              *)
EXTENDS ObjectRecords, TLAPS

\* The object a create builds is a record.
LEMMA NewRecordType ==
  ASSUME NEW q \in Request
  PROVE  NewRecord(q) \in Record
<1>1. 1 \in Versions /\ {0, 1} \subseteq 0 .. MaxVersion
  BY BoundAssumption DEF Versions
<1>2. q.payload \in Payloads /\ q.large \in BOOLEAN
  BY DEF Request
<1>3. CASE q.large
  BY <1>1, <1>2, <1>3 DEF NewRecord, Record
<1>4. CASE ~q.large
  BY <1>1, <1>2, <1>4 DEF NewRecord, Record
<1> QED
  BY <1>3, <1>4

\* applyFn keeps an object a record.
LEMMA AppliedType ==
  ASSUME NEW q \in Request, NEW r \in Record
  PROVE  Applied(q, r) \in Record
<1>1. q.version \in Versions /\ q.payload \in Payloads
  BY DEF Request
<1>2. Versions \subseteq 0 .. MaxVersion /\ 0 \in 0 .. MaxVersion
  BY BoundAssumption DEF Versions
<1>3. CASE q.large
  BY <1>1, <1>2, <1>3 DEF Applied, Record
<1>4. CASE ~q.large
  BY <1>1, <1>2, <1>4 DEF Applied, Record
<1> QED
  BY <1>3, <1>4

\* The types, with the workers' states: what each request in flight carries.
TypeInv == TypeOK /\ WorkersOK

LEMMA TypeInit == Init => TypeInv
BY DEF Init, TypeInv, TypeOK, WorkersOK

LEMMA TypeStep ==
  ASSUME TypeInv, [Next]_vars
  PROVE  TypeInv'
<1> USE NoneAssumption DEF TypeInv, TypeOK, WorkersOK, Idle, Goto, Return
<1>1. ASSUME NEW w \in Workers, NEW id \in ObjectIds, NEW p \in Payloads, PutCreate(w, id, p)
      PROVE  TypeInv'
  <2>1. 1 \in Versions
    BY BoundAssumption DEF Versions
  <2>2. [id |-> id, version |-> 1, payload |-> p, large |-> FALSE] \in Request
    BY <2>1 DEF Request
  <2> QED
    BY <1>1, <2>2, NewRecordType DEF PutCreate, recVars, blobVars
<1>2. ASSUME NEW w \in Workers, NEW id \in ObjectIds, NEW v \in Versions, NEW p \in Payloads,
             PutUpdate(w, id, v, p)
      PROVE  TypeInv'
  <2>1. [id |-> id, version |-> v, payload |-> p, large |-> FALSE] \in Request
    BY DEF Request
  <2> QED
    BY <1>2, <2>1 DEF PutUpdate, recVars, blobVars
<1>3. ASSUME NEW w \in Workers, NEW id \in ObjectIds, NEW v \in Versions, NEW p \in Payloads,
             ConfirmPutLarge(w, id, v, p)
      PROVE  TypeInv'
  <2>1. [id |-> id, version |-> v, payload |-> p, large |-> TRUE] \in Request
    BY DEF Request
  <2> QED
    BY <1>3, <2>1 DEF ConfirmPutLarge, recVars, blobVars
<1>4. ASSUME NEW w \in Workers, CreateRecord(w)
      PROVE  TypeInv'
  <2>1. req[w] \in Request
    BY <1>4 DEF CreateRecord
  <2> QED
    BY <1>4, <2>1, NewRecordType DEF CreateRecord, recVars, blobVars, Request
<1>5. ASSUME NEW w \in Workers, ReadRecord(w)
      PROVE  TypeInv'
  <2>1. req[w] \in Request /\ req[w].id \in ObjectIds
    BY <1>5 DEF ReadRecord, Request
  <2>2. PICK r \in {objects[req[w].id], replica[req[w].id]} : ReadRecord(w)!2!(r)
    BY <1>5 DEF ReadRecord
  <2>3. r \in Record \cup {None}
    BY <2>1
  <2>4. Live(r) => Applied(req[w], r) \in Record
    BY <2>1, <2>3, AppliedType DEF Live
  <2> QED
    BY <1>5, <2>2, <2>4 DEF ReadRecord, Writable, Live, recVars, blobVars
<1>6. ASSUME NEW w \in Workers, WriteRecord(w)
      PROVE  TypeInv'
  <2>1. req[w] \in Request /\ req[w].id \in ObjectIds /\ copy[w] \in Record
    BY <1>6 DEF WriteRecord, Request
  <2> QED
    BY <1>6, <2>1 DEF WriteRecord, recVars, blobVars
<1>7. ASSUME NEW w \in Workers, Answer(w)
      PROVE  TypeInv'
  <2>1. req[w] \in Request
    BY <1>7 DEF Answer
  <2>2. <<req[w].id, req[w].version, req[w].payload>> \in ObjectIds \X Versions \X Payloads
    BY <2>1 DEF Request
  <2> QED
    BY <1>7, <2>2 DEF Answer, recVars, blobVars
<1>8. ASSUME NEW w \in Workers, NEW id \in ObjectIds, Delete(w, id) \/ Recover(w, id)
      PROVE  TypeInv'
  <2>1. objects[id] \in Record /\ objects[id].version < MaxVersion
    BY <1>8 DEF Delete, Recover, Live
  <2>2. objects[id].version + 1 \in Versions
    BY <2>1, BoundAssumption DEF Record, Versions
  <2>3. objects'[id] \in Record
    <3>1. CASE Delete(w, id)
      BY <3>1, <2>1, <2>2 DEF Delete, Deleted, Record
    <3>2. CASE Recover(w, id)
      BY <3>2, <2>1, <2>2 DEF Recover, Recovered, Record
    <3> QED
      BY <1>8, <3>1, <3>2
  <2>4. objects' \in [ObjectIds -> Record \cup {None}]
    BY <1>8, <2>3 DEF Delete, Recover
  <2>5. objects[id].s3 # 0 => BlobRequest(id) \in Request
    BY <2>1, BoundAssumption DEF BlobRequest, Request, Record, Versions
  <2> QED
    BY <1>8, <2>4, <2>5 DEF Delete, Recover, ThenBlob, recVars, blobVars
<1>9. ASSUME NEW w \in Workers, TagBlob(w) \/ UntagBlob(w)
      PROVE  TypeInv'
  <2>1. <<req[w].id, req[w].version>> \in Keys
    BY <1>9 DEF TagBlob, UntagBlob, Request, Keys
  <2> QED
    BY <1>9, <2>1 DEF TagBlob, UntagBlob, recVars, blobVars
<1>10. ASSUME NEW w \in Workers, Fail(w)
       PROVE  TypeInv'
  BY <1>10 DEF Fail, recVars, blobVars
<1>11. ASSUME NEW id \in ObjectIds, NEW p \in Payloads, RequestCreate(id, p) \/ RequestUpdate(id, p)
       PROVE  TypeInv'
  <2>1. LargeWrites \subseteq Versions \X Payloads
    BY BoundAssumption
  <2> QED
    BY <1>11, <2>1 DEF RequestCreate, RequestUpdate, recVars, workVars, Keys
<1>12. ASSUME NEW k \in Keys, NEW p \in Payloads, Upload(k, p) \/ UrlExpires(k, p)
       PROVE  TypeInv'
  BY <1>12 DEF Upload, UrlExpires, recVars, workVars
<1>13. ASSUME NEW id \in ObjectIds, ReplicaSync(id) \/ Purge(id)
       PROVE  TypeInv'
  BY <1>13 DEF ReplicaSync, Purge, blobVars, workVars
<1>14. ASSUME NEW k \in Keys, LifecycleExpire(k)
       PROVE  TypeInv'
  BY <1>14 DEF LifecycleExpire, recVars, workVars
<1>15. CASE UNCHANGED vars
  BY <1>15 DEF vars, recVars, blobVars, workVars
<1> QED
  BY <1>1, <1>2, <1>3, <1>4, <1>5, <1>6, <1>7, <1>8, <1>9, <1>10, <1>11, <1>12, <1>13,
     <1>14, <1>15 DEF Next

\* Every value the handlers store, wherever they are cut, is of its type.
THEOREM TypeCorrect == Spec => []TypeOK
<1>1. Init => TypeInv
  BY TypeInit
<1>2. TypeInv /\ [Next]_vars => TypeInv'
  BY TypeStep
<1>3. TypeInv => TypeOK
  BY DEF TypeInv
<1> QED
  BY <1>1, <1>2, <1>3, PTL DEF Spec

------------------------------------------------------------------------------
(* The safety invariants *)

\* What the two applyFn closures write and what they leave.
LEMMA AppliedFields ==
  ASSUME NEW q \in Request, NEW r \in Record
  PROVE  /\ Applied(q, r).version = q.version
         /\ Applied(q, r).status = r.status
         /\ Applied(q, r).ttl = r.ttl
         /\ Applied(q, r).dek = q.payload
         /\ q.large => Applied(q, r).s3 = q.version /\ Applied(q, r).blob = r.blob
         /\ ~q.large => Applied(q, r).s3 = 0 /\ Applied(q, r).blob = q.payload
<1>1. CASE q.large
  BY <1>1 DEF Applied, Record
<1>2. CASE ~q.large
  BY <1>2 DEF Applied, Record
<1> QED
  BY <1>1, <1>2

\* What a create stores.
LEMMA NewRecordFields ==
  ASSUME NEW q \in Request
  PROVE  /\ NewRecord(q).version = 1
         /\ NewRecord(q).status = "ready"
         /\ NewRecord(q).ttl = FALSE
         /\ NewRecord(q).dek = q.payload
         /\ q.large => NewRecord(q).s3 = 1
         /\ ~q.large => NewRecord(q).s3 = 0 /\ NewRecord(q).blob = q.payload
<1>1. CASE q.large
  BY <1>1 DEF NewRecord
<1>2. CASE ~q.large
  BY <1>2 DEF NewRecord
<1> QED
  BY <1>1, <1>2

\* A Delete or Recover changes the status and the TTL together and moves the
\* version on; the data stays.
LEMMA FlipFields ==
  ASSUME TypeInv, NEW w \in Workers, NEW id \in ObjectIds, Delete(w, id) \/ Recover(w, id)
  PROVE  /\ objects[id] \in Record
         /\ objects'[id] \in Record
         /\ objects'[id].version = objects[id].version + 1
         /\ objects'[id].ttl <=> objects'[id].status = "deleted"
         /\ objects'[id].blob = objects[id].blob
         /\ objects'[id].s3 = objects[id].s3
         /\ objects'[id].dek = objects[id].dek
         /\ \A i \in ObjectIds \ {id} : objects'[i] = objects[i]
<1> USE DEF TypeInv, TypeOK
<1>1. objects[id] \in Record /\ objects[id].version < MaxVersion
  BY DEF Delete, Recover, Live
<1>2. objects[id].version + 1 \in Versions
  BY <1>1, BoundAssumption DEF Record, Versions
<1>3. CASE Delete(w, id)
  BY <1>1, <1>2, <1>3 DEF Delete, Deleted, Record
<1>4. CASE Recover(w, id)
  BY <1>1, <1>2, <1>4 DEF Recover, Recovered, Record
<1> QED
  BY <1>3, <1>4

\* Each object's S3 key is the one it had, is cleared, or has been uploaded to.
LEMMA LargeFrame ==
  ASSUME LargeBlobUploaded, uploads \subseteq uploads',
         \A id \in ObjectIds :
           \/ objects'[id] = objects[id]
           \/ objects[id] # None /\ objects'[id].s3 = objects[id].s3
           \/ objects'[id].s3 = 0
           \/ \E p \in Payloads : <<<<id, objects'[id].s3>>, p>> \in uploads
  PROVE  LargeBlobUploaded'
<1> SUFFICES ASSUME NEW id \in ObjectIds, objects'[id] # None, objects'[id].s3 # 0
             PROVE  \E p \in Payloads : <<<<id, objects'[id].s3>>, p>> \in uploads
  BY DEF LargeBlobUploaded
<1>1. CASE objects[id] # None /\ objects'[id].s3 = objects[id].s3
  BY <1>1 DEF LargeBlobUploaded
<1> QED
  BY <1>1

LEMMA InvInit == Init => IInv
<1>1. Init => TypeOK /\ WorkersOK
  BY TypeInit DEF TypeInv
<1> QED
  BY <1>1 DEF Init, IInv, IssuedOK, TtlMarksDeleted, ReplicaTtl, CopiesAreOlder, Live, CopyOK,
     IndexOK, SingleWinner, AckedWriteKept, InlineBlobMatchesDek, UploadOK, LargeBlobUploaded,
     Quiet

\* One step of a request that creates an object: the id was nowhere.
LEMMA PutCreateStep ==
  ASSUME IInv, TypeInv',
         NEW w \in Workers, NEW id \in ObjectIds, NEW p \in Payloads, PutCreate(w, id, p)
  PROVE  IInv'
<1> DEFINE q == [id |-> id, version |-> 1, payload |-> p, large |-> FALSE]
<1> USE DEF IInv, TypeInv, TypeOK, WorkersOK
<1>1. q \in Request
  BY BoundAssumption DEF Request, Versions
<1>2. /\ q.id = id /\ q.version = 1 /\ q.payload = p /\ ~q.large
      /\ id \notin issued /\ issued' = issued \cup {id}
      /\ objects' = [objects EXCEPT ![id] = NewRecord(q)]
      /\ req' = [req EXCEPT ![w] = q]
      /\ pc' = [pc EXCEPT ![w] = "index"]
      /\ pc[w] = "idle"
      /\ UNCHANGED <<replica, blobs, tagged, urls, uploads, acks, copy>>
  BY DEF PutCreate, Goto, Idle, blobVars
<1> HIDE DEF q
<1>3. /\ objects'[id].version = 1 /\ objects'[id].status = "ready" /\ objects'[id].ttl = FALSE
      /\ objects'[id].dek = p /\ objects'[id].s3 = 0 /\ objects'[id].blob = p
      /\ objects'[id] # None
      /\ \A i \in ObjectIds \ {id} : objects'[i] = objects[i]
  <2>1. objects'[id] = NewRecord(q) /\ \A i \in ObjectIds \ {id} : objects'[i] = objects[i]
    BY <1>2
  <2>2. NewRecord(q) # None
    BY <1>1, NewRecordType, NoneAssumption
  <2> QED
    BY <1>1, <1>2, <2>1, <2>2, NewRecordFields
<1>4. objects[id] = None /\ replica[id] = None /\ Quiet(id)
  BY <1>2 DEF IssuedOK
<1>5. IssuedOK'
  BY <1>2, <1>3, <1>4, NoneAssumption DEF IssuedOK, Quiet
<1>6. TtlMarksDeleted' /\ ReplicaTtl' /\ CopiesAreOlder'
  BY <1>2, <1>3, <1>4 DEF TtlMarksDeleted, ReplicaTtl, CopiesAreOlder, Live
<1>7. CopyOK'
  BY <1>2, <1>3, <1>4 DEF CopyOK, Quiet
<1>8. IndexOK'
  BY <1>2, <1>3, <1>4 DEF IndexOK, Quiet
<1>9. SingleWinner'
  BY <1>2, <1>3, <1>4 DEF SingleWinner, Quiet, AckedWriteKept
<1>10. AckedWriteKept'
  BY <1>2, <1>3, <1>4 DEF AckedWriteKept
<1>11. InlineBlobMatchesDek'
  BY <1>3 DEF InlineBlobMatchesDek
<1>12. LargeBlobUploaded'
  <2>1. LargeBlobUploaded /\ uploads \subseteq uploads'
    BY <1>2
  <2> HIDE DEF IInv, TypeInv, TypeOK, WorkersOK
  <2> QED
    BY <1>3, <2>1, LargeFrame
<1>13. UploadOK'
  BY <1>2, <1>4 DEF UploadOK
<1> QED
  BY <1>5, <1>6, <1>7, <1>8, <1>9, <1>10, <1>11, <1>12, <1>13

\* A step that leaves the table and the answers alone, and brings no worker to
\* its write or past it, keeps what is said about those.
LEMMA FrameStep ==
  ASSUME IInv, TypeInv', UNCHANGED <<objects, acks>>,
         \A u \in Workers : \/ pc'[u] = pc[u] /\ req'[u] = req[u] /\ copy'[u] = copy[u]
                            \/ pc'[u] \notin {"write", "index"}
  PROVE  /\ TtlMarksDeleted' /\ InlineBlobMatchesDek' /\ AckedWriteKept'
         /\ CopyOK' /\ IndexOK' /\ SingleWinner'
<1> USE DEF IInv
<1>1. TtlMarksDeleted' /\ InlineBlobMatchesDek' /\ AckedWriteKept'
  BY DEF TtlMarksDeleted, InlineBlobMatchesDek, AckedWriteKept
<1>2. CopyOK' /\ IndexOK'
  BY DEF CopyOK, IndexOK
<1>3. SingleWinner'
  BY DEF SingleWinner
<1> QED
  BY <1>1, <1>2, <1>3

\* As long as no blob changes and no worker joins those who will write.
LEMMA UploadFrame ==
  ASSUME UploadOK, UNCHANGED <<blobs, uploads>>,
         \A u \in Workers : pc'[u] \in {"create", "read", "write"} =>
                            pc'[u] = pc[u] /\ req'[u] = req[u]
  PROVE  UploadOK'
BY DEF UploadOK

\* A worker that returns (from wherever it stands), and nothing but tags changes.
LEMMA ReturnStep ==
  ASSUME IInv, TypeInv', NEW w \in Workers, Return(w),
         UNCHANGED <<issued, objects, replica, blobs, urls, uploads, acks>>
  PROVE  IInv'
<1> USE DEF IInv, TypeInv, TypeOK, Return
<1>1. /\ TtlMarksDeleted' /\ InlineBlobMatchesDek' /\ AckedWriteKept'
      /\ CopyOK' /\ IndexOK' /\ SingleWinner'
  BY FrameStep
<1>2. IssuedOK'
  BY DEF IssuedOK, Quiet
<1>3. ReplicaTtl' /\ CopiesAreOlder' /\ LargeBlobUploaded'
  BY DEF ReplicaTtl, CopiesAreOlder, LargeBlobUploaded, Live
<1>4. UploadOK'
  BY DEF UploadOK
<1> QED
  BY <1>1, <1>2, <1>3, <1>4

\* An update or a confirmation starts: nothing is known of the object yet.
LEMMA BeginStep ==
  ASSUME IInv, TypeInv', NEW w \in Workers, NEW id \in ObjectIds, NEW v \in Versions,
         NEW p \in Payloads, PutUpdate(w, id, v, p) \/ ConfirmPutLarge(w, id, v, p)
  PROVE  IInv'
<1> USE DEF IInv, TypeInv, TypeOK, Goto
<1>1. /\ UNCHANGED <<issued, objects, replica, blobs, tagged, urls, uploads, acks, copy>>
      /\ id \in issued
      /\ pc' = [pc EXCEPT ![w] = pc'[w]] /\ pc'[w] \in {"read", "create"}
      /\ req' = [req EXCEPT ![w] = req'[w]] /\ req'[w].id = id /\ req'[w].version = v
      /\ pc'[w] = "create" => v = 1
      /\ req'[w].large => \E t \in Payloads : <<<<id, v>>, t>> \in uploads
  <2>1. CASE PutUpdate(w, id, v, p)
    BY <2>1 DEF PutUpdate, recVars, blobVars
  <2>2. CASE ConfirmPutLarge(w, id, v, p)
    <3>1. <<id, v>> \in Keys /\ blobs[<<id, v>>] # None
      BY <2>2 DEF ConfirmPutLarge, HeadObject, Keys
    <3>2. blobs[<<id, v>>] \in Payloads /\ <<<<id, v>>, blobs[<<id, v>>]>> \in uploads
      BY <3>1 DEF UploadOK
    <3> QED
      BY <2>2, <3>2 DEF ConfirmPutLarge, recVars, blobVars
  <2> QED
    BY <2>1, <2>2
<1>2. /\ TtlMarksDeleted' /\ InlineBlobMatchesDek' /\ AckedWriteKept'
      /\ CopyOK' /\ IndexOK' /\ SingleWinner'
  BY <1>1, FrameStep
<1>3. IssuedOK'
  BY <1>1 DEF IssuedOK, Quiet
<1>4. ReplicaTtl' /\ CopiesAreOlder' /\ LargeBlobUploaded'
  BY <1>1 DEF ReplicaTtl, CopiesAreOlder, LargeBlobUploaded, Live
<1>5. UploadOK'
  BY <1>1 DEF UploadOK
<1> QED
  BY <1>2, <1>3, <1>4, <1>5

\* ConfirmPutLarge creates its object, or finds it there.
LEMMA CreateRecordStep ==
  ASSUME IInv, TypeInv', NEW w \in Workers, CreateRecord(w)
  PROVE  IInv'
<1> DEFINE id == req[w].id
<1> USE DEF IInv, TypeInv, TypeOK, WorkersOK
<1>1. CASE Return(w) /\ UNCHANGED objects
  BY <1>1, ReturnStep DEF CreateRecord, blobVars
<1>2. CASE ~(Return(w) /\ UNCHANGED objects)
  <2>0. objects[id] = None
    BY <1>2 DEF CreateRecord, Creatable
  <2>1. req[w] \in Request /\ id \in ObjectIds /\ id \in issued /\ req[w].version = 1
    BY DEF CreateRecord, Request, IssuedOK, Quiet, UploadOK
  <2>2. /\ pc[w] = "create"
        /\ objects' = [objects EXCEPT ![id] = NewRecord(req[w])]
        /\ pc' = [pc EXCEPT ![w] = "index"]
        /\ UNCHANGED <<issued, replica, blobs, tagged, urls, uploads, acks, req, copy>>
    BY <1>2 DEF CreateRecord, Goto, blobVars
  <2>3. objects'[id] = NewRecord(req[w]) /\ \A i \in ObjectIds \ {id} : objects'[i] = objects[i]
    BY <2>1, <2>2
  <2>4. objects'[id] # None
    BY <2>1, <2>3, NewRecordType, NoneAssumption
  <2>5. /\ objects'[id].version = 1 /\ objects'[id].status = "ready" /\ objects'[id].ttl = FALSE
        /\ objects'[id].dek = req[w].payload
        /\ req[w].large => objects'[id].s3 = 1
        /\ ~req[w].large => objects'[id].s3 = 0 /\ objects'[id].blob = req[w].payload
    <3>1. CASE req[w].large
      BY <2>1, <2>3, <3>1 DEF NewRecord
    <3>2. CASE ~req[w].large
      BY <2>1, <2>3, <3>2 DEF NewRecord
    <3> QED
      BY <3>1, <3>2
  <2>6. \A a \in acks : a[1] # id
    BY <2>0 DEF AckedWriteKept
  <2>7. \A u \in Workers : pc[u] \in {"write", "index"} => req[u].id # id
    BY <2>0 DEF CopyOK, IndexOK
  <2> HIDE DEF id
  <2>8. IssuedOK'
    BY <2>1, <2>2, <2>3 DEF IssuedOK, Quiet
  <2>9. TtlMarksDeleted' /\ ReplicaTtl'
    BY <2>2, <2>3, <2>5 DEF TtlMarksDeleted, ReplicaTtl
  <2>10. CopiesAreOlder'
    BY <2>0, <2>1, <2>2, <2>3, <2>4 DEF CopiesAreOlder, Live
  <2>11. CopyOK'
    BY <2>2, <2>3, <2>7 DEF CopyOK
  <2>12. IndexOK'
    BY <2>1, <2>2, <2>3, <2>4, <2>5, <2>7 DEF IndexOK, id
  <2>13. SingleWinner'
    BY <2>2, <2>6, <2>7 DEF SingleWinner, id
  <2>14. AckedWriteKept'
    BY <2>2, <2>3, <2>6 DEF AckedWriteKept
  <2>15. InlineBlobMatchesDek'
    BY <2>3, <2>5, <2>1 DEF InlineBlobMatchesDek, Request
  <2>16. LargeBlobUploaded'
    <3>1. objects'[id].s3 # 0 => \E p \in Payloads : <<<<id, objects'[id].s3>>, p>> \in uploads
      BY <2>1, <2>2, <2>5 DEF UploadOK, id
    <3>2. LargeBlobUploaded /\ uploads \subseteq uploads'
      BY <2>2
    <3> HIDE DEF IInv, TypeInv, TypeOK, WorkersOK
    <3> QED
      BY <2>3, <3>1, <3>2, LargeFrame
  <2>17. UploadOK'
    BY <2>2 DEF UploadOK
  <2> QED
    BY <2>8, <2>9, <2>10, <2>11, <2>12, <2>13, <2>14, <2>15, <2>16, <2>17
<1> QED
  BY <1>1, <1>2

\* UpdateObjectWithIndexes reads: whichever copy answers, what it makes of it is
\* the request applied to the current record, if that still has that version.
LEMMA ReadRecordStep ==
  ASSUME IInv, TypeInv', NEW w \in Workers, ReadRecord(w)
  PROVE  IInv'
<1> DEFINE id == req[w].id
<1> USE DEF IInv, TypeInv, TypeOK, WorkersOK
<1>1. CASE Return(w)
  BY <1>1, ReturnStep DEF ReadRecord, recVars, blobVars
<1>2. CASE ~Return(w)
  <2>1. req[w] \in Request /\ id \in ObjectIds
    BY DEF ReadRecord, Request
  <2>2. PICK r \in {objects[id], replica[id]} :
          /\ Live(r) /\ r.version = req[w].version - 1
          /\ copy' = [copy EXCEPT ![w] = Applied(req[w], r)]
          /\ pc' = [pc EXCEPT ![w] = "write"]
          /\ pc[w] = "read"
          /\ UNCHANGED <<issued, objects, replica, blobs, tagged, urls, uploads, acks, req>>
    BY <1>2 DEF ReadRecord, Writable, Goto, recVars, blobVars
  <2>3. r \in Record /\ r.status = "ready" /\ ~r.ttl
    BY <2>1, <2>2 DEF Live, TtlMarksDeleted, ReplicaTtl
  <2>4. /\ objects[id] \in Record
        /\ r.version < objects[id].version \/ r = objects[id]
    BY <2>1, <2>2, <2>3 DEF CopiesAreOlder, Live
  <2>5. /\ copy'[w] = Applied(req[w], r)
        /\ copy'[w].version = req[w].version /\ copy'[w].status = "ready" /\ ~copy'[w].ttl
    BY <2>1, <2>2, <2>3, AppliedFields
  <2>6. objects[id].version >= req[w].version - 1
    BY <2>1, <2>2, <2>3, <2>4 DEF Record, Request, Versions
  <2>7. objects[id].version = req[w].version - 1 => copy'[w] = Applied(req[w], objects[id])
    BY <2>2, <2>3, <2>4, <2>5 DEF Record, Versions
  <2>8. objects[id] # None
    BY <2>4, NoneAssumption
  <2>9. \A u \in Workers \ {w} : pc'[u] = pc[u] /\ copy'[u] = copy[u]
    BY <2>2
  <2>10. CopyOK'
    <3> SUFFICES ASSUME NEW u \in Workers, pc'[u] = "write"
                 PROVE  CopyOK!(u)!2'
      BY DEF CopyOK
    <3>1. CASE u = w
      BY <2>2, <2>5, <2>6, <2>7, <2>8, <3>1
    <3>2. CASE u # w
      BY <2>2, <2>9, <3>2 DEF CopyOK
    <3> QED
      BY <3>1, <3>2
  <2>11. IndexOK' /\ SingleWinner'
    BY <2>2, <2>9 DEF IndexOK, SingleWinner
  <2>12. TtlMarksDeleted' /\ ReplicaTtl' /\ CopiesAreOlder' /\ AckedWriteKept'
         /\ InlineBlobMatchesDek' /\ LargeBlobUploaded'
    BY <2>2 DEF TtlMarksDeleted, ReplicaTtl, CopiesAreOlder, AckedWriteKept,
       InlineBlobMatchesDek, LargeBlobUploaded, Live
  <2>13. IssuedOK'
    BY <2>2 DEF IssuedOK, Quiet
  <2>14. UploadOK'
    BY <2>2, <2>9 DEF UploadOK
  <2> QED
    BY <2>10, <2>11, <2>12, <2>13, <2>14
<1> QED
  BY <1>1, <1>2

\* The conditional write: past it, the request applied to the current record has
\* replaced that record, and every other request for this version is too late.
LEMMA WriteRecordFacts ==
  ASSUME IInv, NEW w \in Workers, WriteRecord(w), ~Return(w)
  PROVE  LET id == req[w].id IN
         /\ req[w] \in Request /\ id \in ObjectIds /\ id \in issued
         /\ objects[id] \in Record /\ objects[id].status = "ready"
         /\ objects[id].version + 1 = req[w].version
         /\ objects'[id] = copy[w] /\ copy[w] \in Record
         /\ copy[w].version = req[w].version /\ copy[w].status = "ready" /\ ~copy[w].ttl
         /\ copy[w] = Applied(req[w], objects[id])
         /\ \A i \in ObjectIds \ {id} : objects'[i] = objects[i]
         /\ pc[w] = "write" /\ pc' = [pc EXCEPT ![w] = "index"]
         /\ copy' = [copy EXCEPT ![w] = None]
         /\ UNCHANGED <<issued, replica, blobs, tagged, urls, uploads, acks, req>>
<1> DEFINE id == req[w].id
<1> USE DEF IInv, TypeOK, WorkersOK
<1>1. /\ pc[w] = "write" /\ Live(objects[id]) /\ objects[id].version = req[w].version - 1
      /\ objects' = [objects EXCEPT ![id] = copy[w]]
      /\ copy' = [copy EXCEPT ![w] = None]
      /\ pc' = [pc EXCEPT ![w] = "index"]
      /\ UNCHANGED <<issued, replica, blobs, tagged, urls, uploads, acks, req>>
  BY DEF WriteRecord, Writable, Goto, blobVars
<1>2. req[w] \in Request /\ id \in ObjectIds /\ id \in issued /\ copy[w] \in Record
  BY <1>1 DEF Request, IssuedOK, Quiet
<1>3. objects[id] \in Record /\ objects[id].status = "ready"
  BY <1>1, <1>2 DEF Live
<1>4. objects[id].version + 1 = req[w].version
  BY <1>1, <1>2, <1>3 DEF Record, Request, Versions
<1>5. /\ copy[w].version = req[w].version /\ copy[w].status = "ready" /\ ~copy[w].ttl
      /\ copy[w] = Applied(req[w], objects[id])
  BY <1>1 DEF CopyOK
<1>6. objects'[id] = copy[w] /\ \A i \in ObjectIds \ {id} : objects'[i] = objects[i]
  BY <1>1, <1>2
<1> QED
  BY <1>1, <1>2, <1>3, <1>4, <1>5, <1>6

LEMMA WriteRecordStep ==
  ASSUME IInv, TypeInv', NEW w \in Workers, WriteRecord(w)
  PROVE  IInv'
<1> DEFINE id == req[w].id
           v == req[w].version
<1> USE DEF IInv, TypeInv, TypeOK, WorkersOK
<1>1. CASE Return(w)
  <2>1. pc' # [pc EXCEPT ![w] = "index"]
    BY <1>1 DEF Return
  <2> QED
    BY <1>1, <2>1, ReturnStep DEF WriteRecord, Goto, blobVars
<1>2. CASE ~Return(w)
  <2>1. /\ req[w] \in Request /\ id \in ObjectIds /\ id \in issued
        /\ objects[id] \in Record /\ objects[id].status = "ready"
        /\ objects[id].version + 1 = v
        /\ objects'[id] = copy[w] /\ copy[w] \in Record
        /\ copy[w].version = v /\ copy[w].status = "ready" /\ ~copy[w].ttl
        /\ copy[w] = Applied(req[w], objects[id])
        /\ \A i \in ObjectIds \ {id} : objects'[i] = objects[i]
        /\ pc[w] = "write" /\ pc' = [pc EXCEPT ![w] = "index"]
        /\ copy' = [copy EXCEPT ![w] = None]
        /\ UNCHANGED <<issued, replica, blobs, tagged, urls, uploads, acks, req>>
    BY <1>2, WriteRecordFacts
  <2>2. /\ objects[id].version \in Nat /\ v \in Nat
        /\ objects[id] # None /\ copy[w] # None
    BY <2>1, NoneAssumption DEF Record, Request, Versions
  <2>3. /\ copy[w].dek = req[w].payload
        /\ req[w].large => copy[w].s3 = v
        /\ ~req[w].large => copy[w].s3 = 0 /\ copy[w].blob = req[w].payload
    BY <2>1, AppliedFields
  <2>4. \A a \in acks : a[1] = id => a[2] < v
    BY <2>1, <2>2 DEF AckedWriteKept, Versions
  <2>5. \A u \in Workers : pc[u] = "index" /\ req[u].id = id => req[u].version < v
    <3> SUFFICES ASSUME NEW u \in Workers, pc[u] = "index", req[u].id = id
                 PROVE  req[u].version < v
      OBVIOUS
    <3>1. req[u] \in Request /\ objects[id].version >= req[u].version
      BY DEF IndexOK
    <3> QED
      BY <2>1, <2>2, <3>1 DEF Request, Versions
  <2> HIDE DEF id, v
  <2>6. IssuedOK'
    BY <2>1 DEF IssuedOK, Quiet
  <2>7. TtlMarksDeleted' /\ ReplicaTtl'
    BY <2>1 DEF TtlMarksDeleted, ReplicaTtl
  <2>8. CopiesAreOlder'
    <3> SUFFICES ASSUME NEW i \in ObjectIds, Live(replica[i])
                 PROVE  CopiesAreOlder!(i)!2'
      BY <2>1 DEF CopiesAreOlder, Live
    <3>1. CASE i # id
      BY <2>1, <3>1 DEF CopiesAreOlder
    <3>2. CASE i = id
      <4>1. replica[id] \in Record
        BY <2>1, <3>2 DEF Live
      <4>2. replica[id].version < objects[id].version \/ replica[id] = objects[id]
        BY <2>1, <3>2 DEF CopiesAreOlder
      <4>3. replica[id].version < v
        BY <2>1, <2>2, <4>1, <4>2 DEF Record, Versions
      <4> QED
        BY <2>1, <2>2, <3>2, <4>3
    <3> QED
      BY <3>1, <3>2
  <2>9. CopyOK'
    <3> SUFFICES ASSUME NEW u \in Workers, pc'[u] = "write"
                 PROVE  CopyOK!(u)!2'
      BY DEF CopyOK
    <3>1. u # w /\ pc[u] = "write" /\ copy'[u] = copy[u] /\ req'[u] = req[u]
      BY <2>1
    <3>2. CASE req[u].id # id
      <4>1. req[u].id \in ObjectIds
        BY <3>1 DEF Request
      <4> QED
        BY <2>1, <3>1, <3>2, <4>1 DEF CopyOK
    <3>3. CASE req[u].id = id
      <4>1. req[u].version \in Nat
        BY <3>1 DEF Request, Versions
      <4>2. objects[id].version >= req[u].version - 1
        BY <3>1, <3>3 DEF CopyOK
      <4>3. v > req[u].version - 1
        BY <2>1, <2>2, <4>1, <4>2
      <4> QED
        BY <2>1, <2>2, <3>1, <3>3, <4>1, <4>3 DEF CopyOK
    <3> QED
      BY <3>2, <3>3
  <2>10. IndexOK'
    <3> SUFFICES ASSUME NEW u \in Workers, pc'[u] = "index"
                 PROVE  IndexOK!(u)!2'
      BY DEF IndexOK
    <3>1. CASE u = w
      BY <2>1, <2>2, <2>3, <3>1 DEF id, v
    <3>2. CASE u # w
      <4>1. pc[u] = "index" /\ req[u] \in Request /\ req[u].id \in ObjectIds
        BY <2>1, <3>2 DEF Request
      <4>2. CASE req[u].id # id
        BY <2>1, <3>2, <4>1, <4>2 DEF IndexOK
      <4>3. CASE req[u].id = id
        BY <2>1, <2>2, <2>5, <4>1, <4>3 DEF Request, Versions
      <4> QED
        BY <4>2, <4>3
    <3> QED
      BY <3>1, <3>2
  <2>11. SingleWinner'
    <3>1. \A p \in Payloads : <<id, v, p>> \notin acks
      BY <2>2, <2>4
    <3> QED
      BY <2>1, <2>2, <2>5, <3>1 DEF SingleWinner, id, v
  <2>12. AckedWriteKept'
    BY <2>1, <2>2, <2>4 DEF AckedWriteKept
  <2>13. InlineBlobMatchesDek'
    <3>1. objects'[id].s3 = 0 => objects'[id].blob = objects'[id].dek
      BY <2>1, <2>2, <2>3 DEF Request, Versions, v
    <3> QED
      BY <2>1, <3>1 DEF InlineBlobMatchesDek
  <2>14. LargeBlobUploaded'
    <3>1. LargeBlobUploaded /\ uploads \subseteq uploads' /\ UploadOK
      BY <2>1
    <3>2. v = req[w].version /\ id = req[w].id
      BY DEF id, v
    <3> HIDE DEF IInv, TypeInv, TypeOK, WorkersOK
    <3>3. req[w].large => \E p \in Payloads : <<<<id, v>>, p>> \in uploads
      BY <2>1, <3>1, <3>2 DEF UploadOK
    <3>4. objects'[id].s3 # 0 => \E p \in Payloads : <<<<id, objects'[id].s3>>, p>> \in uploads
      BY <2>1, <2>3, <3>3
    <3> QED
      BY <2>1, <3>1, <3>4, LargeFrame
  <2>15. UploadOK'
    <3>1. \A u \in Workers : pc'[u] \in {"create", "read", "write"} =>
             pc'[u] = pc[u] /\ req'[u] = req[u]
      BY <2>1
    <3> QED
      BY <2>1, <3>1, UploadFrame
  <2> QED
    BY <2>6, <2>7, <2>8, <2>9, <2>10, <2>11, <2>12, <2>13, <2>14, <2>15
<1> QED
  BY <1>1, <1>2

\* The client gets its answer: what it committed is there or written over, and
\* nobody else holds that version.
LEMMA AnswerStep ==
  ASSUME IInv, TypeInv', NEW w \in Workers, Answer(w)
  PROVE  IInv'
<1> DEFINE m == <<req[w].id, req[w].version, req[w].payload>>
<1> USE DEF IInv, TypeInv, TypeOK, WorkersOK
<1>1. /\ pc[w] = "index" /\ req[w] \in Request
      /\ acks' = acks \cup {m}
      /\ pc' = [pc EXCEPT ![w] = "idle"] /\ req' = [req EXCEPT ![w] = None]
      /\ copy' = [copy EXCEPT ![w] = None]
      /\ UNCHANGED <<issued, objects, replica, blobs, tagged, urls, uploads>>
  BY DEF Answer, Return, recVars, blobVars
<1>2. \A u \in Workers :
        \/ (pc'[u] = pc[u] /\ req'[u] = req[u] /\ copy'[u] = copy[u])
        \/ pc'[u] = "idle"
  BY <1>1
<1>3. AckedWriteKept'
  <2>1. /\ objects[req[w].id] # None
        /\ \/ objects[req[w].id].version > req[w].version
           \/ /\ objects[req[w].id].version = req[w].version
              /\ objects[req[w].id].dek = req[w].payload
    <3>1. /\ objects[req[w].id] # None
          /\ objects[req[w].id].version >= req[w].version
          /\ objects[req[w].id].version = req[w].version =>
               objects[req[w].id].dek = req[w].payload
      BY <1>1 DEF IndexOK
    <3>2. objects[req[w].id] \in Record
      BY <1>1, <3>1 DEF Request
    <3>3. objects[req[w].id].version \in Nat /\ req[w].version \in Nat
      BY <1>1, <3>2 DEF Record, Request, Versions
    <3> QED
      BY <3>1, <3>3
  <2> SUFFICES ASSUME NEW a \in acks'
               PROVE  AckedWriteKept!(a)!1' /\ AckedWriteKept!(a)!2'
    BY DEF AckedWriteKept
  <2>2. CASE a \in acks
    BY <1>1, <2>2 DEF AckedWriteKept
  <2>3. CASE a = m
    BY <1>1, <2>1, <2>3
  <2> QED
    BY <1>1, <2>2, <2>3
<1>4. SingleWinner'
  <2> SUFFICES ASSUME NEW u \in Workers, pc'[u] = "index"
               PROVE  SingleWinner!(u)!2'
    BY DEF SingleWinner
  <2>1. u # w /\ pc[u] = "index" /\ req'[u] = req[u]
    BY <1>1
  <2>2. <<req[u].id, req[u].version>> # <<req[w].id, req[w].version>>
    BY <1>1, <2>1 DEF SingleWinner
  <2>3. \A t \in Workers : pc'[t] = "index" => pc[t] = "index" /\ req'[t] = req[t]
    BY <1>1
  <2>4. \A p \in Payloads : <<req[u].id, req[u].version, p>> \notin acks'
    BY <1>1, <2>1, <2>2 DEF SingleWinner
  <2> QED
    BY <2>1, <2>3, <2>4 DEF SingleWinner
<1>5. TtlMarksDeleted' /\ ReplicaTtl' /\ CopiesAreOlder' /\ InlineBlobMatchesDek'
      /\ LargeBlobUploaded'
  BY <1>1 DEF TtlMarksDeleted, ReplicaTtl, CopiesAreOlder, InlineBlobMatchesDek,
     LargeBlobUploaded, Live
<1>6. CopyOK' /\ IndexOK'
  BY <1>1, <1>2 DEF CopyOK, IndexOK
<1>7. IssuedOK'
  BY <1>1 DEF IssuedOK, Quiet
<1>8. UploadOK'
  BY <1>1, <1>2, UploadFrame
<1> QED
  BY <1>3, <1>4, <1>5, <1>6, <1>7, <1>8

\* Delete and Recover move the version on by one, under whoever is in flight.
LEMMA FlipStep ==
  ASSUME IInv, TypeInv', NEW w \in Workers, NEW id \in ObjectIds,
         Delete(w, id) \/ Recover(w, id)
  PROVE  IInv'
<1> USE DEF IInv, TypeInv, TypeOK, WorkersOK
<1>1. /\ objects[id] \in Record /\ objects'[id] \in Record
      /\ objects'[id].version = objects[id].version + 1
      /\ objects'[id].ttl <=> objects'[id].status = "deleted"
      /\ objects'[id].blob = objects[id].blob
      /\ objects'[id].s3 = objects[id].s3
      /\ objects'[id].dek = objects[id].dek
      /\ \A i \in ObjectIds \ {id} : objects'[i] = objects[i]
  BY FlipFields
<1>2. objects[id].version \in Nat /\ objects[id] # None /\ objects'[id] # None
  BY <1>1, NoneAssumption DEF Record, Versions
<1>3. /\ UNCHANGED <<issued, replica, blobs, tagged, urls, uploads, acks, copy>>
      /\ pc[w] = "idle"
      /\ \A u \in Workers \ {w} : pc'[u] = pc[u] /\ req'[u] = req[u]
      /\ pc'[w] \in {"idle", "tag", "untag"}
      /\ req'[w] # None => req'[w].id = id
  BY DEF Delete, Recover, ThenBlob, BlobRequest, Goto, Idle, blobVars
<1>4. id \in issued
  BY <1>2 DEF IssuedOK
<1>5. \A u \in Workers : pc'[u] \in {"create", "read", "write", "index"} =>
        pc'[u] = pc[u] /\ req'[u] = req[u] /\ req[u] \in Request
  BY <1>3
<1>6. IssuedOK'
  BY <1>1, <1>3, <1>4 DEF IssuedOK, Quiet
<1>7. TtlMarksDeleted' /\ ReplicaTtl'
  BY <1>1, <1>3 DEF TtlMarksDeleted, ReplicaTtl
<1>8. CopiesAreOlder'
  <2> SUFFICES ASSUME NEW i \in ObjectIds, Live(replica[i])
               PROVE  CopiesAreOlder!(i)!2'
    BY <1>3 DEF CopiesAreOlder, Live
  <2>1. CASE i # id
    BY <1>1, <1>3, <2>1 DEF CopiesAreOlder
  <2>2. CASE i = id
    <3>1. replica[id] \in Record
      BY <2>2 DEF Live
    <3>2. replica[id].version < objects[id].version \/ replica[id] = objects[id]
      BY <2>2 DEF CopiesAreOlder
    <3>3. replica[id].version < objects'[id].version
      BY <1>1, <1>2, <3>1, <3>2 DEF Record, Versions
    <3> QED
      BY <1>2, <1>3, <2>2, <3>3
  <2> QED
    BY <2>1, <2>2
<1>9. CopyOK'
  <2> SUFFICES ASSUME NEW u \in Workers, pc'[u] = "write"
               PROVE  CopyOK!(u)!2'
    BY DEF CopyOK
  <2>1. pc[u] = "write" /\ req'[u] = req[u] /\ copy'[u] = copy[u]
        /\ req[u].id \in ObjectIds /\ req[u].version \in Nat
    BY <1>3, <1>5 DEF Request, Versions
  <2>2. CASE req[u].id # id
    BY <1>1, <2>1, <2>2 DEF CopyOK
  <2>3. CASE req[u].id = id
    BY <1>1, <1>2, <2>1, <2>3 DEF CopyOK
  <2> QED
    BY <2>2, <2>3
<1>10. IndexOK'
  <2> SUFFICES ASSUME NEW u \in Workers, pc'[u] = "index"
               PROVE  IndexOK!(u)!2'
    BY DEF IndexOK
  <2>1. pc[u] = "index" /\ req'[u] = req[u]
        /\ req[u].id \in ObjectIds /\ req[u].version \in Nat
    BY <1>5 DEF Request, Versions
  <2>2. CASE req[u].id # id
    BY <1>1, <2>1, <2>2 DEF IndexOK
  <2>3. CASE req[u].id = id
    BY <1>1, <1>2, <2>1, <2>3 DEF IndexOK
  <2> QED
    BY <2>2, <2>3
<1>11. SingleWinner'
  BY <1>3, <1>5 DEF SingleWinner
<1>12. AckedWriteKept'
  <2> SUFFICES ASSUME NEW a \in acks
               PROVE  AckedWriteKept!(a)!1' /\ AckedWriteKept!(a)!2'
    BY <1>3 DEF AckedWriteKept
  <2>1. a[1] \in ObjectIds /\ a[2] \in Nat
    BY DEF Versions
  <2>2. CASE a[1] # id
    BY <1>1, <2>1, <2>2 DEF AckedWriteKept
  <2>3. CASE a[1] = id
    BY <1>1, <1>2, <2>1, <2>3 DEF AckedWriteKept
  <2> QED
    BY <2>2, <2>3
<1>13. InlineBlobMatchesDek'
  BY <1>1, <1>2 DEF InlineBlobMatchesDek
<1>14. LargeBlobUploaded'
  <2>1. LargeBlobUploaded /\ uploads \subseteq uploads'
    BY <1>3
  <2> HIDE DEF IInv, TypeInv, TypeOK, WorkersOK
  <2> QED
    BY <1>1, <1>2, <2>1, LargeFrame
<1>15. UploadOK'
  BY <1>3, <1>5, UploadFrame
<1> QED
  BY <1>6, <1>7, <1>8, <1>9, <1>10, <1>11, <1>12, <1>13, <1>14, <1>15

\* The clients' and the bucket's own steps: no worker moves.
LEMMA BlobStep ==
  ASSUME IInv, TypeInv', NEW k \in Keys,
         LifecycleExpire(k) \/ \E p \in Payloads : Upload(k, p) \/ UrlExpires(k, p)
  PROVE  IInv'
<1> USE DEF IInv, TypeInv, TypeOK
<1>1. UNCHANGED <<issued, objects, replica, acks, pc, req, copy>>
  BY DEF Upload, UrlExpires, LifecycleExpire, recVars, workVars
<1>2. uploads \subseteq uploads'
  BY DEF Upload, UrlExpires, LifecycleExpire
<1>3. \A j \in Keys : blobs'[j] # None => <<j, blobs'[j]>> \in uploads'
  <2>1. blobs \in [Keys -> Payloads \cup {None}]
    OBVIOUS
  <2>2. \A j \in Keys : blobs[j] # None => <<j, blobs[j]>> \in uploads
    BY DEF UploadOK
  <2> HIDE DEF IInv, TypeInv, TypeOK
  <2>3. ASSUME NEW p \in Payloads, Upload(k, p)
        PROVE  \A j \in Keys : blobs'[j] # None => <<j, blobs'[j]>> \in uploads'
    <3>1. /\ blobs'[k] = p /\ \A j \in Keys \ {k} : blobs'[j] = blobs[j]
          /\ uploads' = uploads \cup {<<k, p>>}
      BY <2>1, <2>3 DEF Upload
    <3> QED
      BY <2>2, <3>1
  <2>4. CASE LifecycleExpire(k)
    <3>1. /\ blobs'[k] = None /\ \A j \in Keys \ {k} : blobs'[j] = blobs[j]
          /\ uploads' = uploads
      BY <2>1, <2>4 DEF LifecycleExpire
    <3> QED
      BY <2>2, <3>1
  <2>5. ASSUME NEW p \in Payloads, UrlExpires(k, p)
        PROVE  \A j \in Keys : blobs'[j] # None => <<j, blobs'[j]>> \in uploads'
    BY <2>2, <2>5 DEF UrlExpires
  <2> QED
    BY <2>3, <2>4, <2>5
<1>4. /\ TtlMarksDeleted' /\ InlineBlobMatchesDek' /\ AckedWriteKept'
      /\ CopyOK' /\ IndexOK' /\ SingleWinner'
  BY <1>1, FrameStep
<1>5. IssuedOK' /\ ReplicaTtl' /\ CopiesAreOlder'
  BY <1>1 DEF IssuedOK, Quiet, ReplicaTtl, CopiesAreOlder, Live
<1>6. LargeBlobUploaded'
  BY <1>1, <1>2, LargeFrame
<1>7. UploadOK'
  BY <1>1, <1>2, <1>3 DEF UploadOK
<1> QED
  BY <1>4, <1>5, <1>6, <1>7

LEMMA RequestStep ==
  ASSUME IInv, TypeInv', NEW id \in ObjectIds, NEW p \in Payloads,
         RequestCreate(id, p) \/ RequestUpdate(id, p)
  PROVE  IInv'
<1> USE DEF IInv, TypeInv, TypeOK
<1>1. /\ UNCHANGED <<objects, replica, acks, blobs, uploads, pc, req, copy>>
      /\ issued \subseteq issued'
  BY DEF RequestCreate, RequestUpdate, recVars, workVars
<1>2. /\ TtlMarksDeleted' /\ InlineBlobMatchesDek' /\ AckedWriteKept'
      /\ CopyOK' /\ IndexOK' /\ SingleWinner'
  BY <1>1, FrameStep
<1>3. IssuedOK' /\ ReplicaTtl' /\ CopiesAreOlder' /\ LargeBlobUploaded'
  BY <1>1 DEF IssuedOK, Quiet, ReplicaTtl, CopiesAreOlder, Live, LargeBlobUploaded
<1>4. UploadOK'
  BY <1>1, UploadFrame
<1> QED
  BY <1>2, <1>3, <1>4

LEMMA ReplicaSyncStep ==
  ASSUME IInv, TypeInv', NEW id \in ObjectIds, ReplicaSync(id)
  PROVE  IInv'
<1> USE DEF IInv, TypeInv, TypeOK
<1>1. /\ UNCHANGED <<issued, objects, acks, blobs, uploads, pc, req, copy>>
      /\ replica' = [replica EXCEPT ![id] = objects[id]]
  BY DEF ReplicaSync, blobVars, workVars
<1>2. /\ TtlMarksDeleted' /\ InlineBlobMatchesDek' /\ AckedWriteKept'
      /\ CopyOK' /\ IndexOK' /\ SingleWinner'
  BY <1>1, FrameStep
<1>3. IssuedOK' /\ LargeBlobUploaded'
  BY <1>1 DEF IssuedOK, Quiet, LargeBlobUploaded
<1>4. ReplicaTtl'
  BY <1>1 DEF ReplicaTtl, TtlMarksDeleted
<1>5. CopiesAreOlder'
  BY <1>1 DEF CopiesAreOlder, Live
<1>6. UploadOK'
  BY <1>1, UploadFrame
<1> QED
  BY <1>2, <1>3, <1>4, <1>5, <1>6

\* The TTL removes an object nobody is working on, which is a deleted one.
LEMMA PurgeStep ==
  ASSUME IInv, TypeInv', NEW id \in ObjectIds, Purge(id)
  PROVE  IInv'
<1> USE DEF IInv, TypeInv, TypeOK, WorkersOK
<1>1. /\ objects[id] # None /\ objects[id].status = "deleted" /\ replica[id] = objects[id]
      /\ Quiet(id)
      /\ objects' = [objects EXCEPT ![id] = None]
      /\ acks' = {a \in acks : a[1] # id}
      /\ UNCHANGED <<issued, replica, blobs, uploads, pc, req, copy>>
  BY DEF Purge, TtlMarksDeleted, blobVars, workVars
<1>2. objects'[id] = None /\ \A i \in ObjectIds \ {id} : objects'[i] = objects[i]
  BY <1>1
<1>3. \A u \in Workers : pc[u] \in {"write", "index"} =>
        req[u].id \in ObjectIds \ {id}
  BY <1>1 DEF Quiet, Request
<1>4. IssuedOK'
  BY <1>1, <1>2 DEF IssuedOK, Quiet
<1>5. TtlMarksDeleted' /\ ReplicaTtl' /\ InlineBlobMatchesDek' /\ LargeBlobUploaded'
  <2>1. TtlMarksDeleted' /\ InlineBlobMatchesDek'
    BY <1>2 DEF TtlMarksDeleted, InlineBlobMatchesDek
  <2>2. ReplicaTtl'
    BY <1>1 DEF ReplicaTtl
  <2>3. LargeBlobUploaded'
    BY <1>1, <1>2 DEF LargeBlobUploaded
  <2> QED
    BY <2>1, <2>2, <2>3
<1>6. CopiesAreOlder'
  BY <1>1, <1>2 DEF CopiesAreOlder, Live
<1>7. CopyOK'
  BY <1>1, <1>2, <1>3 DEF CopyOK
<1>8. IndexOK'
  BY <1>1, <1>2, <1>3 DEF IndexOK
<1>9. SingleWinner'
  BY <1>1 DEF SingleWinner
<1>10. AckedWriteKept'
  BY <1>1, <1>2 DEF AckedWriteKept
<1>11. UploadOK'
  BY <1>1, UploadFrame
<1> QED
  BY <1>4, <1>5, <1>6, <1>7, <1>8, <1>9, <1>10, <1>11

LEMMA StutterStep ==
  ASSUME IInv, TypeInv', UNCHANGED vars
  PROVE  IInv'
<1> USE DEF IInv, TypeInv
<1>1. UNCHANGED <<issued, objects, replica, blobs, tagged, urls, uploads, acks, pc, req, copy>>
  BY DEF vars, recVars, blobVars, workVars
<1>2. /\ TtlMarksDeleted' /\ InlineBlobMatchesDek' /\ AckedWriteKept'
      /\ CopyOK' /\ IndexOK' /\ SingleWinner'
  BY <1>1, FrameStep
<1>3. IssuedOK' /\ ReplicaTtl' /\ CopiesAreOlder' /\ LargeBlobUploaded'
  BY <1>1 DEF IssuedOK, Quiet, ReplicaTtl, CopiesAreOlder, Live, LargeBlobUploaded
<1>4. UploadOK'
  BY <1>1, UploadFrame
<1> QED
  BY <1>2, <1>3, <1>4

\* The inductive step, one case per action.
LEMMA InvStep ==
  ASSUME IInv, [Next]_vars
  PROVE  IInv'
<1>1. TypeInv'
  BY TypeStep DEF IInv, TypeInv
<1>2. ASSUME NEW w \in Workers, NEW id \in ObjectIds, NEW p \in Payloads, PutCreate(w, id, p)
      PROVE  IInv'
  BY <1>1, <1>2, PutCreateStep
<1>3. ASSUME NEW w \in Workers, NEW id \in ObjectIds, NEW v \in Versions, NEW p \in Payloads,
             PutUpdate(w, id, v, p) \/ ConfirmPutLarge(w, id, v, p)
      PROVE  IInv'
  BY <1>1, <1>3, BeginStep
<1>4. ASSUME NEW w \in Workers, CreateRecord(w)
      PROVE  IInv'
  BY <1>1, <1>4, CreateRecordStep
<1>5. ASSUME NEW w \in Workers, ReadRecord(w)
      PROVE  IInv'
  BY <1>1, <1>5, ReadRecordStep
<1>6. ASSUME NEW w \in Workers, WriteRecord(w)
      PROVE  IInv'
  BY <1>1, <1>6, WriteRecordStep
<1>7. ASSUME NEW w \in Workers, Answer(w)
      PROVE  IInv'
  BY <1>1, <1>7, AnswerStep
<1>8. ASSUME NEW w \in Workers, NEW id \in ObjectIds, Delete(w, id) \/ Recover(w, id)
      PROVE  IInv'
  BY <1>1, <1>8, FlipStep
<1>9. ASSUME NEW w \in Workers, TagBlob(w) \/ UntagBlob(w) \/ Fail(w)
      PROVE  IInv'
  BY <1>1, <1>9, ReturnStep DEF TagBlob, UntagBlob, Fail, recVars, blobVars
<1>10. ASSUME NEW id \in ObjectIds, NEW p \in Payloads, RequestCreate(id, p) \/ RequestUpdate(id, p)
       PROVE  IInv'
  BY <1>1, <1>10, RequestStep
<1>11. ASSUME NEW k \in Keys, NEW p \in Payloads, Upload(k, p) \/ UrlExpires(k, p)
       PROVE  IInv'
  BY <1>1, <1>11, BlobStep
<1>12. ASSUME NEW id \in ObjectIds, ReplicaSync(id) \/ Purge(id)
       PROVE  IInv'
  BY <1>1, <1>12, ReplicaSyncStep, PurgeStep
<1>13. ASSUME NEW k \in Keys, LifecycleExpire(k)
       PROVE  IInv'
  BY <1>1, <1>13, BlobStep
<1>14. CASE UNCHANGED vars
  BY <1>1, <1>14, StutterStep
<1> QED
  BY <1>2, <1>3, <1>4, <1>5, <1>6, <1>7, <1>8, <1>9, <1>10, <1>11, <1>12, <1>13, <1>14 DEF Next

------------------------------------------------------------------------------
(* The theorems *)

\* The inductive invariant holds; the theorems below are its parts.
THEOREM Invariance == Spec => []IInv
<1>1. Init => IInv
  BY InvInit
<1>2. IInv /\ [Next]_vars => IInv'
  BY InvStep
<1> QED
  BY <1>1, <1>2, PTL DEF Spec

\* No live object ever carries a TTL, and every deleted one does.
THEOREM TtlCorrect == Spec => []TtlMarksDeleted
<1>1. IInv => TtlMarksDeleted
  BY DEF IInv
<1> QED
  BY <1>1, Invariance, PTL

\* Optimistic locking admits one writer per version.
THEOREM OneWinner == Spec => []SingleWinner
<1>1. IInv => SingleWinner
  BY DEF IInv
<1> QED
  BY <1>1, Invariance, PTL

\* A write answered with success is not lost.
THEOREM AckedWritesStay == Spec => []AckedWriteKept
<1>1. IInv => AckedWriteKept
  BY DEF IInv
<1> QED
  BY <1>1, Invariance, PTL

\* Whatever lagging copy GetItem reads, a version means one record.
THEOREM StaleReadsAreOlder == Spec => []CopiesAreOlder
<1>1. IInv => CopiesAreOlder
  BY DEF IInv
<1> QED
  BY <1>1, Invariance, PTL

\* An inline blob and the DEK recorded with it belong together.
THEOREM InlineDecrypts == Spec => []InlineBlobMatchesDek
<1>1. IInv => InlineBlobMatchesDek
  BY DEF IInv
<1> QED
  BY <1>1, Invariance, PTL

\* No S3Key is recorded that nobody uploaded to.
THEOREM LargeUploaded == Spec => []LargeBlobUploaded
<1>1. IInv => LargeBlobUploaded
  BY DEF IInv
<1> QED
  BY <1>1, Invariance, PTL

\* Two payloads were uploaded to one S3 key.
SharedKey == \E k \in Keys : \E p, q \in Payloads : p # q /\ {<<k, p>>, <<k, q>>} \subseteq uploads

\* A client that uploaded its blob and got its DEK recorded finds another blob (what
\* LargeBlobMatchesDek excludes, and the code does not) only after two clients uploaded
\* to the same version's key: no Delete, Recover, purge, stale read or retry of
\* ConfirmPutLarge mixes blobs and DEKs.
THEOREM OnlySharedKeysMix == Spec => [](LargeBlobMatchesDek \/ SharedKey)
<1>1. IInv => LargeBlobMatchesDek \/ SharedKey
  <2> SUFFICES ASSUME IInv, NEW id \in ObjectIds,
                      Live(objects[id]), objects[id].s3 # 0,
                      <<<<id, objects[id].s3>>, objects[id].dek>> \in uploads,
                      blobs[<<id, objects[id].s3>>] \notin {objects[id].dek, None}
               PROVE  SharedKey
    BY DEF LargeBlobMatchesDek
  <2> DEFINE k == <<id, objects[id].s3>>
  <2>1. uploads \subseteq Keys \X Payloads
    BY DEF IInv, TypeOK
  <2>2. k \in Keys /\ objects[id].dek \in Payloads
    BY <2>1
  <2>3. <<k, blobs[k]>> \in uploads
    BY <2>2 DEF IInv, UploadOK
  <2>4. blobs[k] \in Payloads /\ blobs[k] # objects[id].dek
    BY <2>1, <2>3
  <2> QED
    BY <2>2, <2>3, <2>4 DEF SharedKey
<1> QED
  BY <1>1, Invariance, PTL

\* What one step may do to one record.
RecordStep(id) ==
  \/ objects'[id] = objects[id]
  \/ objects[id] = None /\ objects'[id].version = 1
  \/ objects[id] # None /\ objects'[id] = None /\ objects[id].status = "deleted"
  \/ /\ objects[id] # None /\ objects'[id] # None
     /\ objects'[id].version = objects[id].version + 1

LEMMA RecordStepLemma ==
  ASSUME IInv, [Next]_vars, NEW i \in ObjectIds
  PROVE  RecordStep(i)
<1> USE DEF RecordStep
<1>1. ASSUME NEW w \in Workers, NEW id \in ObjectIds, NEW p \in Payloads, PutCreate(w, id, p)
      PROVE  RecordStep(i)
  <2>1. objects[id] = None
    BY <1>1 DEF PutCreate, IInv, IssuedOK
  <2>2. objects' = [objects EXCEPT ![id] =
                      NewRecord([id |-> id, version |-> 1, payload |-> p, large |-> FALSE])]
    BY <1>1 DEF PutCreate
  <2> QED
    BY <2>1, <2>2 DEF NewRecord, IInv, TypeOK
<1>2. ASSUME NEW w \in Workers, CreateRecord(w)
      PROVE  RecordStep(i)
  BY <1>2 DEF CreateRecord, Creatable, NewRecord, IInv, TypeOK
<1>3. ASSUME NEW w \in Workers, WriteRecord(w)
      PROVE  RecordStep(i)
  <2>1. CASE Return(w)
    <3>1. pc' # [pc EXCEPT ![w] = "index"]
      BY <1>3, <2>1 DEF Return, IInv, TypeOK
    <3> QED
      BY <1>3, <3>1 DEF WriteRecord, Goto
  <2>2. CASE ~Return(w)
    BY <1>3, <2>2, WriteRecordFacts, NoneAssumption
  <2> QED
    BY <2>1, <2>2
<1>4. ASSUME NEW w \in Workers, NEW id \in ObjectIds, Delete(w, id) \/ Recover(w, id)
      PROVE  RecordStep(i)
  <2>1. TypeInv
    BY DEF TypeInv, IInv
  <2> QED
    BY <1>4, <2>1, FlipFields, NoneAssumption
<1>5. ASSUME NEW id \in ObjectIds, Purge(id)
      PROVE  RecordStep(i)
  BY <1>5 DEF Purge, IInv, TypeOK, TtlMarksDeleted
<1>6. ASSUME UNCHANGED objects
      PROVE  RecordStep(i)
  BY <1>6
<1> QED
  BY <1>1, <1>2, <1>3, <1>4, <1>5, <1>6 DEF Next, vars, recVars, PutUpdate, ConfirmPutLarge,
     ReadRecord, Answer, TagBlob, UntagBlob, Fail, RequestCreate, RequestUpdate, Upload,
     UrlExpires, ReplicaSync, LifecycleExpire

\* Versions are a history: one at a time, from 1, until a deleted object is removed.
THEOREM VersionsAreAHistory == Spec => VersionStep
<1>1. IInv /\ [Next]_vars => [\A id \in ObjectIds : RecordStep(id)]_objects
  BY RecordStepLemma
<1> QED
  BY <1>1, Invariance, PTL DEF Spec, VersionStep, RecordStep

------------------------------------------------------------------------------
(* ObjectRecords implements VersionedObjects *)

Msg(q) == <<q.id, q.version, q.payload>>

\* A worker commits: one more write waits for its answer.
LEMMA UnansweredAdd ==
  ASSUME NEW w \in Workers, pc[w] # "index",
         pc' = [pc EXCEPT ![w] = "index"], TypeOK,
         \A u \in Workers \ {w} : req'[u] = req[u]
  PROVE  Unanswered' = Unanswered \cup {Msg(req'[w])}
BY DEF Unanswered, Msg, TypeOK

\* A worker that had committed returns: nobody else committed the same version.
LEMMA UnansweredDrop ==
  ASSUME TypeOK, SingleWinner, NEW w \in Workers, pc[w] = "index", Return(w)
  PROVE  Unanswered' = Unanswered \ {Msg(req[w])}
<1>1. \A u \in Workers \ {w} : /\ pc'[u] = pc[u] /\ req'[u] = req[u]
                               /\ pc[u] = "index" => Msg(req[u]) # Msg(req[w])
  BY DEF TypeOK, SingleWinner, Return, Msg
<1>2. pc'[w] = "idle"
  BY DEF Return, TypeOK
<1> QED
  BY <1>1, <1>2 DEF Unanswered, Msg

\* Nobody commits, nobody that had committed moves.
LEMMA UnansweredSame ==
  ASSUME \A u \in Workers : /\ pc'[u] = "index" <=> pc[u] = "index"
                            /\ pc[u] = "index" => req'[u] = req[u]
  PROVE  Unanswered' = Unanswered
BY DEF Unanswered

\* The abstract store changes where the table does.
LEMMA StoreChange ==
  ASSUME NEW id \in ObjectIds, \A i \in ObjectIds \ {id} : objects'[i] = objects[i]
  PROVE  Store' = [Store EXCEPT ![id] = Shown(objects'[id])]
BY DEF Store

LEMMA ShownRecord ==
  ASSUME NEW r \in Record
  PROVE  /\ Shown(r) = [version |-> r.version, deleted |-> r.status = "deleted",
                        dek |-> r.dek, inline |-> r.blob, large |-> r.s3]
         /\ Shown(r) # None
<1> DEFINE d == r.status = "deleted"
<1>1. Shown(r) = [version |-> r.version, deleted |-> r.status = "deleted",
                  dek |-> r.dek, inline |-> r.blob, large |-> r.s3]
  BY NoneAssumption DEF Shown
<1>2. d \in BOOLEAN
  OBVIOUS
<1>3. /\ r.version \in Versions /\ r.dek \in Payloads
      /\ r.blob \in Payloads \cup {None} /\ r.s3 \in 0 .. MaxVersion
  BY DEF Record
<1> HIDE DEF d
<1>4. [version |-> r.version, deleted |-> d, dek |-> r.dek, inline |-> r.blob, large |-> r.s3]
        # None
  BY <1>2, <1>3, NoneAssumption
<1> QED
  BY <1>1, <1>4 DEF d

LEMMA ShownStatus ==
  ASSUME NEW r \in Record, NEW d \in BOOLEAN, d <=> r.status = "deleted"
  PROVE  Shown(r) = [version |-> r.version, deleted |-> d,
                     dek |-> r.dek, inline |-> r.blob, large |-> r.s3]
<1>1. CASE r.status = "deleted"
  <2>1. d = TRUE /\ (r.status = "deleted") = TRUE
    BY <1>1
  <2> QED
    BY <2>1, ShownRecord
<1>2. CASE r.status # "deleted"
  <2>1. d = FALSE /\ (r.status = "deleted") = FALSE
    BY <1>2
  <2> QED
    BY <2>1, ShownRecord
<1> QED
  BY <1>1, <1>2

\* Nobody has written this version of the object before.
Fresh(id, v) ==
  \A p \in Payloads : <<id, v, p>> \notin Unanswered /\ <<id, v, p>> \notin acks

LEMMA FreshCreate ==
  ASSUME IInv, NEW id \in ObjectIds, objects[id] = None
  PROVE  Fresh(id, 1)
BY DEF IInv, IndexOK, AckedWriteKept, Fresh, Unanswered

LEMMA FreshNext ==
  ASSUME IInv, NEW id \in ObjectIds, objects[id] # None
  PROVE  Fresh(id, objects[id].version + 1)
<1> USE DEF IInv, TypeOK
<1>1. objects[id].version \in Nat
  BY DEF Record, Versions
<1>2. ASSUME NEW u \in Workers, pc[u] = "index", req[u].id = id
      PROVE  req[u].version # objects[id].version + 1
  <2>1. req[u].version \in Nat
    BY <1>2 DEF WorkersOK, Request, Versions
  <2>2. objects[id].version >= req[u].version
    BY <1>2 DEF IndexOK
  <2> QED
    BY <1>1, <2>1, <2>2
<1>3. ASSUME NEW a \in acks, a[1] = id
      PROVE  a[2] # objects[id].version + 1
  <2>1. a[2] \in Nat
    BY DEF Versions
  <2> QED
    BY <1>1, <1>3, <2>1 DEF AckedWriteKept
<1> QED
  BY <1>2, <1>3 DEF Fresh, Unanswered

\* Both creates are the abstract create.
LEMMA CreateRefines ==
  ASSUME IInv, NEW w \in Workers, NEW q \in Request, q.version = 1, objects[q.id] = None,
         objects' = [objects EXCEPT ![q.id] = NewRecord(q)],
         pc[w] # "index", pc' = [pc EXCEPT ![w] = "index"],
         req'[w] = q, \A u \in Workers \ {w} : req'[u] = req[u],
         acks' = acks
  PROVE  Promise!Create(q.id, q.payload, q.large)
<1> DEFINE id == q.id
<1>1. id \in ObjectIds /\ q.payload \in Payloads
  BY DEF Request
<1>2. Store[id] = None
  BY <1>1 DEF Store, Shown
<1>3. objects'[id] = NewRecord(q) /\ \A i \in ObjectIds \ {id} : objects'[i] = objects[i]
  BY <1>1 DEF IInv, TypeOK
<1>4. Shown(NewRecord(q)) =
        Promise!Item(1, q.payload, IF q.large THEN None ELSE q.payload, IF q.large THEN 1 ELSE 0)
  <2>1. NewRecord(q) \in Record
    BY NewRecordType
  <2> QED
    BY <2>1, ShownRecord DEF NewRecord, Promise!Item
<1>5. Store' = [Store EXCEPT ![id] = Shown(NewRecord(q))]
  BY <1>1, <1>3, StoreChange
<1>6. Unanswered' = Unanswered \cup {<<id, 1, q.payload>>}
  BY UnansweredAdd DEF Msg, IInv
<1>7. Fresh(id, 1)
  BY <1>1, FreshCreate
<1> QED
  BY <1>2, <1>4, <1>5, <1>6, <1>7 DEF Promise!Create, Promise!Written, Fresh

\* The conditional write of a whole record is an atomic update of the current one.
LEMMA WriteRefines ==
  ASSUME IInv, NEW w \in Workers, WriteRecord(w), ~Return(w)
  PROVE  \/ Promise!Put(req[w].id, req[w].payload)
         \/ Promise!Confirm(req[w].id, req[w].payload)
<1> DEFINE id == req[w].id
           r == objects[id]
<1>1. /\ req[w] \in Request /\ id \in ObjectIds
      /\ r \in Record /\ r.status = "ready"
      /\ r.version + 1 = req[w].version
      /\ objects'[id] = Applied(req[w], r)
      /\ \A i \in ObjectIds \ {id} : objects'[i] = objects[i]
      /\ pc[w] = "write" /\ pc' = [pc EXCEPT ![w] = "index"]
      /\ UNCHANGED <<acks, req>>
  BY WriteRecordFacts
<1>2. Store[id] = Shown(r)
  BY <1>1 DEF Store
<1>3. Shown(r) = [version |-> r.version, deleted |-> FALSE, dek |-> r.dek,
                  inline |-> r.blob, large |-> r.s3]
  BY <1>1, ShownRecord
<1>4. r.version < MaxVersion /\ r.version + 1 \in Versions
  BY <1>1, BoundAssumption DEF Request, Record, Versions
<1>5. Applied(req[w], r) \in Record
  BY <1>1, AppliedType
<1>6. Unanswered' = Unanswered \cup {<<id, r.version + 1, req[w].payload>>}
  <2>1. pc[w] # "index" /\ TypeOK /\ req'[w] = req[w]
    BY <1>1 DEF IInv
  <2>2. Unanswered' = Unanswered \cup {Msg(req[w])}
    BY <1>1, <2>1, UnansweredAdd
  <2> QED
    BY <1>1, <2>2 DEF Msg
<1>7. Fresh(id, r.version + 1)
  BY <1>1, NoneAssumption, FreshNext
<1>8. Store' = [Store EXCEPT ![id] = Shown(Applied(req[w], r))]
  BY <1>1, StoreChange
<1>9. Promise!Writable(id)
  <2>1. Store[id] # None
    BY <1>1, <1>2, ShownRecord
  <2>2. Store[id].deleted = FALSE /\ Store[id].version = r.version
    BY <1>2, <1>3
  <2> QED
    BY <1>4, <2>1, <2>2 DEF Promise!Writable
<1>10. Store[id].version = r.version
  BY <1>2, <1>3
<1>11. Promise!Written(id, Store[id].version + 1, req[w].payload)
  BY <1>1, <1>6, <1>7, <1>10 DEF Promise!Written, Fresh
<1>12. CASE req[w].large
  <2>1. Shown(Applied(req[w], r)) =
          Promise!Item(Store[id].version + 1, req[w].payload, Store[id].inline, Store[id].version + 1)
    <3>1. /\ Applied(req[w], r).version = req[w].version /\ Applied(req[w], r).status = "ready"
          /\ Applied(req[w], r).dek = req[w].payload /\ Applied(req[w], r).s3 = req[w].version
          /\ Applied(req[w], r).blob = r.blob
      BY <1>1, <1>12, AppliedFields
    <3>2. Store[id].version = r.version /\ Store[id].inline = r.blob
      BY <1>2, <1>3
    <3> QED
      BY <1>1, <1>5, <3>1, <3>2, ShownRecord DEF Promise!Item
  <2>2. Promise!Confirm(id, req[w].payload)
    BY <1>8, <1>9, <1>11, <2>1 DEF Promise!Confirm
  <2> QED
    BY <2>2
<1>13. CASE ~req[w].large
  <2>1. Shown(Applied(req[w], r)) =
          Promise!Item(Store[id].version + 1, req[w].payload, req[w].payload, 0)
    <3>1. /\ Applied(req[w], r).version = req[w].version /\ Applied(req[w], r).status = "ready"
          /\ Applied(req[w], r).dek = req[w].payload /\ Applied(req[w], r).s3 = 0
          /\ Applied(req[w], r).blob = req[w].payload
      BY <1>1, <1>13, AppliedFields
    <3>2. Store[id].version = r.version
      BY <1>2, <1>3
    <3> QED
      BY <1>1, <1>5, <3>1, <3>2, ShownRecord DEF Promise!Item
  <2>2. Promise!Put(id, req[w].payload)
    BY <1>8, <1>9, <1>11, <2>1 DEF Promise!Put
  <2> QED
    BY <2>2
<1> QED
  BY <1>12, <1>13

\* A record that differs in version and status only shows as a marked one.
LEMMA ShownMarked ==
  ASSUME NEW r \in Record, NEW s \in Record,
         s.version = r.version + 1, s.blob = r.blob, s.s3 = r.s3, s.dek = r.dek
  PROVE  /\ r.status # "deleted" /\ s.status = "deleted" =>
              /\ Shown(r).deleted = FALSE
              /\ Shown(s) = Promise!Marked(Shown(r), TRUE)
         /\ r.status = "deleted" /\ s.status # "deleted" =>
              /\ Shown(r).deleted = TRUE
              /\ Shown(s) = Promise!Marked(Shown(r), FALSE)
<1>1. CASE r.status # "deleted" /\ s.status = "deleted"
  <2>1. /\ Shown(r) = [version |-> r.version, deleted |-> FALSE,
                       dek |-> r.dek, inline |-> r.blob, large |-> r.s3]
        /\ Shown(s) = [version |-> s.version, deleted |-> TRUE,
                       dek |-> s.dek, inline |-> s.blob, large |-> s.s3]
    BY <1>1, ShownStatus
  <2> QED
    BY <1>1, <2>1 DEF Promise!Marked
<1>2. CASE r.status = "deleted" /\ s.status # "deleted"
  <2>1. /\ Shown(r) = [version |-> r.version, deleted |-> TRUE,
                       dek |-> r.dek, inline |-> r.blob, large |-> r.s3]
        /\ Shown(s) = [version |-> s.version, deleted |-> FALSE,
                       dek |-> s.dek, inline |-> s.blob, large |-> s.s3]
    BY <1>2, ShownStatus
  <2> QED
    BY <1>2, <2>1 DEF Promise!Marked
<1> QED
  BY <1>1, <1>2

\* Delete and Recover are the abstract ones.
LEMMA FlipRefines ==
  ASSUME IInv, NEW w \in Workers, NEW id \in ObjectIds, Delete(w, id) \/ Recover(w, id)
  PROVE  Promise!Delete(id) \/ Promise!Recover(id)
<1> DEFINE r == objects[id]
           s == objects'[id]
<1>1. /\ r \in Record /\ s \in Record /\ s.version = r.version + 1
      /\ s.blob = r.blob /\ s.s3 = r.s3 /\ s.dek = r.dek
      /\ \A i \in ObjectIds \ {id} : objects'[i] = objects[i]
  BY FlipFields DEF IInv, TypeInv
<1>2. r.version < MaxVersion /\ UNCHANGED acks
  BY DEF Delete, Recover
<1>3. Store[id] = Shown(r) /\ Store[id] # None /\ Store' = [Store EXCEPT ![id] = Shown(s)]
  BY <1>1, StoreChange, ShownRecord DEF Store
<1>4. Unanswered' = Unanswered
  <2>1. \A u \in Workers : /\ pc'[u] = "index" <=> pc[u] = "index"
                           /\ pc[u] = "index" => req'[u] = req[u]
    BY DEF Delete, Recover, ThenBlob, Goto, Idle, IInv, TypeOK
  <2> QED
    BY <2>1, UnansweredSame
<1>5. CASE Delete(w, id)
  <2>1. r.status # "deleted" /\ s.status = "deleted"
    BY <1>1, <1>5 DEF Delete, Deleted, Live, IInv, TypeOK, Record
  <2> HIDE DEF r, s
  <2>2. Shown(r).deleted = FALSE /\ Shown(s) = Promise!Marked(Shown(r), TRUE)
    BY <1>1, <2>1, ShownMarked
  <2>3. Shown(r).version = r.version
    BY <1>1, ShownRecord
  <2> QED
    BY <1>2, <1>3, <1>4, <2>2, <2>3 DEF Promise!Delete, Promise!Writable
<1>6. CASE Recover(w, id)
  <2>1. r.status = "deleted" /\ s.status # "deleted"
    BY <1>1, <1>6 DEF Recover, Recovered, IInv, TypeOK, Record
  <2> HIDE DEF r, s
  <2>2. Shown(r).deleted = TRUE /\ Shown(s) = Promise!Marked(Shown(r), FALSE)
    BY <1>1, <2>1, ShownMarked
  <2>3. Shown(r).version = r.version
    BY <1>1, ShownRecord
  <2> QED
    BY <1>2, <1>3, <1>4, <2>2, <2>3 DEF Promise!Recover
<1> QED
  BY <1>5, <1>6

LEMMA PurgeRefines ==
  ASSUME IInv, NEW id \in ObjectIds, Purge(id)
  PROVE  Promise!Purge(id)
<1>1. /\ objects[id] # None /\ objects[id].status = "deleted" /\ Quiet(id)
      /\ objects' = [objects EXCEPT ![id] = None]
      /\ acks' = {a \in acks : a[1] # id}
      /\ UNCHANGED <<pc, req, copy>>
  BY DEF Purge, IInv, TtlMarksDeleted, workVars
<1>2. objects[id] \in Record
  BY <1>1 DEF IInv, TypeOK
<1>3. Store[id] # None /\ Store[id].deleted = TRUE
  <2>1. Store[id] = Shown(objects[id])
    BY DEF Store
  <2>2. Shown(objects[id]) = [version |-> objects[id].version, deleted |-> TRUE,
          dek |-> objects[id].dek, inline |-> objects[id].blob, large |-> objects[id].s3]
    BY <1>1, <1>2, ShownStatus
  <2> QED
    <3>1. Shown(objects[id]) # None
      BY <1>2, ShownRecord
    <3>2. Shown(objects[id]).deleted = TRUE
      BY <2>2
    <3> QED
      BY <2>1, <3>1, <3>2
<1>4. Store' = [Store EXCEPT ![id] = None]
  <2>1. objects'[id] = None /\ \A i \in ObjectIds \ {id} : objects'[i] = objects[i]
    BY <1>1 DEF IInv, TypeOK
  <2>2. Shown(objects'[id]) = None
    BY <2>1 DEF Shown
  <2> QED
    BY <2>1, <2>2, StoreChange
<1>5. \A m \in Unanswered : m[1] # id
  BY <1>1 DEF Unanswered, Quiet, IInv, WorkersOK
<1>6. Unanswered' = Unanswered
  BY <1>1, UnansweredSame
<1> QED
  BY <1>1, <1>3, <1>4, <1>5, <1>6 DEF Promise!Purge

\* A committed write is answered, or its client never hears of it.
LEMMA AnswerRefines ==
  ASSUME IInv, NEW w \in Workers, pc[w] = "index", Return(w), UNCHANGED objects,
         acks' = acks \/ acks' = acks \cup {Msg(req[w])}
  PROVE  \E m \in ObjectIds \X Versions \X Payloads : Promise!Answer(m) \/ Promise!Lose(m)
<1> DEFINE m == Msg(req[w])
<1>1. m \in ObjectIds \X Versions \X Payloads
  BY DEF IInv, TypeOK, WorkersOK, Msg, Request
<1>2. m \in Unanswered
  BY DEF Unanswered, Msg
<1>3. Unanswered' = Unanswered \ {m}
  BY UnansweredDrop DEF IInv
<1>4. Store' = Store
  BY DEF Store
<1> HIDE DEF m
<1>5. Promise!Answer(m) \/ Promise!Lose(m)
  BY <1>2, <1>3, <1>4 DEF Promise!Answer, Promise!Lose, m
<1> QED
  BY <1>1, <1>5

\* Every other step shows nothing.
LEMMA StutterRefines ==
  ASSUME UNCHANGED <<objects, acks>>,
         \A u \in Workers : /\ pc'[u] = "index" <=> pc[u] = "index"
                            /\ pc[u] = "index" => req'[u] = req[u]
  PROVE  UNCHANGED Promise!vars
BY UnansweredSame DEF Promise!vars, Store

LEMMA RefinementStep ==
  ASSUME IInv, [Next]_vars
  PROVE  [Promise!Next]_(Promise!vars)
<1> USE DEF IInv, TypeOK
<1>1. ASSUME NEW w \in Workers, NEW id \in ObjectIds, NEW p \in Payloads, PutCreate(w, id, p)
      PROVE  Promise!Next
  <2> DEFINE q == [id |-> id, version |-> 1, payload |-> p, large |-> FALSE]
  <2>1. q \in Request
    BY BoundAssumption DEF Request, Versions
  <2>2. q.id = id /\ q.version = 1 /\ q.payload = p /\ q.large = FALSE
    OBVIOUS
  <2>3. /\ objects[id] = None
        /\ objects' = [objects EXCEPT ![id] = NewRecord(q)]
        /\ pc[w] # "index" /\ pc' = [pc EXCEPT ![w] = "index"]
        /\ req' = [req EXCEPT ![w] = q] /\ acks' = acks
    BY <1>1 DEF PutCreate, IssuedOK, Goto, Idle
  <2> HIDE DEF q
  <2>4. req'[w] = q /\ \A u \in Workers \ {w} : req'[u] = req[u]
    BY <2>3
  <2>5. Promise!Create(id, p, FALSE)
    BY <2>1, <2>2, <2>3, <2>4, CreateRefines
  <2> QED
    BY <2>5 DEF Promise!Next
<1>2. ASSUME NEW w \in Workers, CreateRecord(w)
      PROVE  [Promise!Next]_(Promise!vars)
  <2>1. CASE ~(Return(w) /\ UNCHANGED objects)
    <3>1. req[w] \in Request /\ req[w].version = 1
      BY <1>2 DEF CreateRecord, WorkersOK, UploadOK
    <3>2. Promise!Create(req[w].id, req[w].payload, req[w].large)
      BY <1>2, <2>1, <3>1, CreateRefines DEF CreateRecord, Creatable, Goto
    <3> QED
      BY <3>1, <3>2 DEF Promise!Next, Request
  <2>2. CASE Return(w) /\ UNCHANGED objects
    BY <1>2, <2>2, StutterRefines DEF CreateRecord, Return
  <2> QED
    BY <2>1, <2>2
<1>3. ASSUME NEW w \in Workers, WriteRecord(w)
      PROVE  [Promise!Next]_(Promise!vars)
  <2>1. CASE Return(w)
    <3>1. pc' # [pc EXCEPT ![w] = "index"]
      BY <2>1 DEF Return
    <3> QED
      BY <1>3, <2>1, <3>1, StutterRefines DEF WriteRecord, Return, Goto
  <2>2. CASE ~Return(w)
    <3>1. req[w].id \in ObjectIds /\ req[w].payload \in Payloads
      BY <1>3 DEF WriteRecord, WorkersOK, Request
    <3> QED
      BY <1>3, <2>2, <3>1, WriteRefines DEF Promise!Next
  <2> QED
    BY <2>1, <2>2
<1>4. ASSUME NEW w \in Workers, Answer(w)
      PROVE  Promise!Next
  <2>1. /\ pc[w] = "index" /\ Return(w) /\ UNCHANGED objects
        /\ acks' = acks \cup {Msg(req[w])}
    BY <1>4 DEF Answer, recVars, Msg
  <2>2. \E m \in ObjectIds \X Versions \X Payloads : Promise!Answer(m) \/ Promise!Lose(m)
    BY <2>1, AnswerRefines
  <2> QED
    BY <2>2 DEF Promise!Next, Promise!Versions, Versions
<1>5. ASSUME NEW w \in Workers, NEW id \in ObjectIds, Delete(w, id) \/ Recover(w, id)
      PROVE  Promise!Next
  BY <1>5, FlipRefines DEF Promise!Next
<1>6. ASSUME NEW id \in ObjectIds, Purge(id)
      PROVE  Promise!Next
  BY <1>6, PurgeRefines DEF Promise!Next
<1>7. ASSUME NEW w \in Workers, Fail(w)
      PROVE  [Promise!Next]_(Promise!vars)
  <2>1. CASE pc[w] = "index"
    <3>1. Return(w) /\ UNCHANGED objects /\ acks' = acks
      BY <1>7 DEF Fail, recVars
    <3>2. \E m \in ObjectIds \X Versions \X Payloads : Promise!Answer(m) \/ Promise!Lose(m)
      BY <2>1, <3>1, AnswerRefines
    <3> QED
      BY <3>2 DEF Promise!Next, Promise!Versions, Versions
  <2>2. CASE pc[w] # "index"
    BY <1>7, <2>2, StutterRefines DEF Fail, recVars, Return
  <2> QED
    BY <2>1, <2>2
<1>8. ASSUME NEW w \in Workers, ReadRecord(w) \/ TagBlob(w) \/ UntagBlob(w)
      PROVE  UNCHANGED Promise!vars
  BY <1>8, StutterRefines DEF ReadRecord, TagBlob, UntagBlob, Return, Goto, recVars
<1>9. ASSUME NEW w \in Workers, NEW id \in ObjectIds, NEW v \in Versions, NEW p \in Payloads,
             PutUpdate(w, id, v, p) \/ ConfirmPutLarge(w, id, v, p)
      PROVE  UNCHANGED Promise!vars
  BY <1>9, StutterRefines DEF PutUpdate, ConfirmPutLarge, Idle, Goto, recVars
<1>10. ASSUME UNCHANGED <<objects, acks, pc, req>>
       PROVE  UNCHANGED Promise!vars
  BY <1>10, StutterRefines
<1> QED
  BY <1>1, <1>2, <1>3, <1>4, <1>5, <1>6, <1>7, <1>8, <1>9, <1>10 DEF Next, vars, recVars,
     workVars, RequestCreate, RequestUpdate, Upload, UrlExpires, ReplicaSync, LifecycleExpire

\* The handlers, with their stale reads and lost answers, are the atomic
\* versioned register of VersionedObjects.
THEOREM Refinement == Spec => ImplementsVersionedObjects
<1>1. Init => Promise!Init
  BY DEF Init, Promise!Init, Store, Shown, Unanswered
<1>2. IInv /\ [Next]_vars => [Promise!Next]_(Promise!vars)
  BY RefinementStep
<1> QED
  BY <1>1, <1>2, Invariance, PTL DEF Spec, ImplementsVersionedObjects, Promise!Spec

=============================================================================
