--------------------------- MODULE ObjectRecords ---------------------------
(***************************************************************************)
(* The object half of the Gardbase API server: the records of the objects  *)
(* table (DynamoDB), the large blobs and their tags (S3), and the request  *)
(* handlers that move an object through its life.                          *)
(*                                                                         *)
(* A handler is a worker: one gin goroutine, cut at every call it makes to *)
(* AWS, because that is where other requests interleave and where it can   *)
(* fail.  The write of the index rows that follows a commit is one phase   *)
(* here ("index"); ObjectIndexes cuts it in turn.                          *)
(*                                                                         *)
(* A payload stands for a plaintext together with the fresh data key (DEK) *)
(* its client encrypted it under: an inline blob, an uploaded blob and a   *)
(* wrapped DEK fit together exactly when they are the same payload.        *)
(***************************************************************************)
EXTENDS Naturals

CONSTANTS
  ObjectIds,      \* the UUIDs the server can hand out
  Workers,        \* concurrent requests
  Payloads,       \* see above
  MaxVersion,     \* bound on the versions an object goes through
  LargeWrites,    \* <<version, payload>>: what clients may write as a large object
  Faults,         \* whether AWS calls may fail, contexts be cancelled, servers crash
  None            \* the absent record, blob, request or local copy

Versions == 1 .. MaxVersion

\* What models.Object carries.  s3 is the version in generateS3Key's
\* tenant/table/id/v<version>, 0 for "no S3Key"; blob is EncryptedBlob; ttl says
\* whether the TTL attribute is set; dek is the wrapped DEK and its nonce.
Record == [version : Versions, status : {"ready", "deleted"}, ttl : BOOLEAN,
           blob : Payloads \cup {None}, s3 : 0 .. MaxVersion, dek : Payloads]

\* generateS3Key: one key per object and version, whoever uploads to it.
Keys == ObjectIds \X Versions

Request == [id : ObjectIds, version : Versions, payload : Payloads, large : BOOLEAN]

ASSUME BoundAssumption ==
  /\ MaxVersion \in Nat \ {0}
  /\ LargeWrites \subseteq Versions \X Payloads
  /\ Faults \in BOOLEAN

ASSUME NoneAssumption ==
  /\ None \notin Payloads
  /\ None \notin Record
  /\ None \notin Request
  /\ None \notin [version : Versions, deleted : BOOLEAN, dek : Payloads,
                   inline : Payloads \cup {None}, large : 0 .. MaxVersion]

VARIABLES
  issued,     \* ids given to a client (by a created object or an upload URL)
  objects,    \* the objects table: id -> Record or None
  replica,    \* a lagging copy of it, which GetItem may read (no ConsistentRead)
  blobs,      \* the bucket: key -> Payload or None
  tagged,     \* keys tagged status=deleted
  urls,       \* presigned PUT URLs that have not expired: <<key, payload of its client>>
  uploads,    \* history: uploads that completed
  acks,       \* history: writes answered with success, <<id, version, payload>>
  pc,         \* where each worker is
  req,        \* the request it serves
  copy        \* its local object, after applyFn

recVars  == <<objects, replica>>
blobVars == <<blobs, tagged, urls, uploads>>
workVars == <<pc, req, copy>>
vars     == <<issued, recVars, blobVars, acks, workVars>>

------------------------------------------------------------------------------
(* Helpers *)

Live(r) == r # None /\ r.status = "ready"

\* The object Put (inline) and ConfirmPutLarge (large) build for version 1.
NewRecord(q) ==
  [version |-> 1, status |-> "ready", ttl |-> FALSE,
   blob |-> IF q.large THEN None ELSE q.payload,
   s3   |-> IF q.large THEN 1 ELSE 0,
   dek  |-> q.payload]

\* Mutant: an inline update over a large object leaves the blob it read.
AppliedMut(q, r) ==
  IF q.large
  THEN [r EXCEPT !.version = q.version, !.s3 = q.version, !.dek = q.payload]
  ELSE [r EXCEPT !.version = q.version, !.s3 = 0, !.dek = q.payload,
                 !.blob = IF r.s3 = 0 THEN q.payload ELSE @]

\* The two applyFn closures.  Put replaces the blob and clears S3Key; Confirm
\* sets S3Key and leaves EncryptedBlob as it was read.
Applied(q, r) ==
  IF q.large
  THEN [r EXCEPT !.version = q.version, !.s3 = q.version, !.dek = q.payload]
  ELSE [r EXCEPT !.version = q.version, !.s3 = 0, !.dek = q.payload, !.blob = q.payload]

\* Mutant: the create is an unconditional PutItem.
CreatableMut(id) == TRUE

\* The condition of a create: attribute_not_exists(pk) AND attribute_not_exists(sk).
Creatable(id) == objects[id] = None

\* Mutant: an update that only asks for a live object.
WritableMut(r, v) == Live(r)

\* The condition of an update to version v: #v = :current AND #s <> :deleted.
Writable(r, v) == Live(r) /\ r.version = v - 1

\* Mutants: a Delete that leaves the version alone, a Recover that leaves the
\* version alone, and a Recover that leaves the TTL set.
DeletedMut(r)      == [r EXCEPT !.status = "deleted", !.ttl = TRUE]
RecoveredMut(r)    == [r EXCEPT !.status = "ready", !.ttl = FALSE]
RecoveredTtlMut(r) == [r EXCEPT !.status = "ready", !.version = @ + 1]

\* What the UpdateItem of a Delete and of a Recover make of a record.
Deleted(r)   == [r EXCEPT !.status = "deleted", !.ttl = TRUE, !.version = @ + 1]
Recovered(r) == [r EXCEPT !.status = "ready", !.ttl = FALSE, !.version = @ + 1]

\* Mutant: a confirmation that trusts the client.
HeadObjectMut(k) == TRUE

\* CheckObjectExists: HeadObject finds the key.
HeadObject(k) == blobs[k] # None

Idle(w) == pc[w] = "idle"

\* The handler returns: nothing of the request survives it.
Return(w) ==
  /\ pc'   = [pc EXCEPT ![w] = "idle"]
  /\ req'  = [req EXCEPT ![w] = None]
  /\ copy' = [copy EXCEPT ![w] = None]

\* The handler goes on to its next call.
Goto(w, label) == pc' = [pc EXCEPT ![w] = label]

\* No request is working on the object.
Quiet(id) == \A w \in Workers : req[w] # None => req[w].id # id

Init ==
  /\ issued = {}
  /\ objects = [id \in ObjectIds |-> None]
  /\ replica = [id \in ObjectIds |-> None]
  /\ blobs = [k \in Keys |-> None]
  /\ tagged = {}
  /\ urls = {}
  /\ uploads = {}
  /\ acks = {}
  /\ pc = [w \in Workers |-> "idle"]
  /\ req = [w \in Workers |-> None]
  /\ copy = [w \in Workers |-> None]

------------------------------------------------------------------------------
(* Writing an object *)

\* Put without an object id: a fresh UUID, and CreateObjectWithIndexes' first
\* write.  The id is new, so its condition cannot fail; what is left is the
\* index phase and the answer.
PutCreate(w, id, p) ==
  LET q == [id |-> id, version |-> 1, payload |-> p, large |-> FALSE] IN
  /\ Idle(w)
  /\ id \notin issued
  /\ issued' = issued \cup {id}
  /\ objects' = [objects EXCEPT ![id] = NewRecord(q)]
  /\ req' = [req EXCEPT ![w] = q]
  /\ Goto(w, "index")
  /\ UNCHANGED <<replica, blobVars, acks, copy>>

\* Put with an object id: UpdateObjectWithIndexes starts.
PutUpdate(w, id, v, p) ==
  /\ Idle(w)
  /\ id \in issued
  /\ v \in Versions \ {1}
  /\ req' = [req EXCEPT ![w] = [id |-> id, version |-> v, payload |-> p, large |-> FALSE]]
  /\ Goto(w, "read")
  /\ UNCHANGED <<issued, recVars, blobVars, acks, copy>>

\* ConfirmPutLarge passes its HeadObject check (otherwise it answers 400 and
\* nothing changes).  The DEK is the caller's: nothing ties it to the blob.
ConfirmPutLarge(w, id, v, p) ==
  /\ Idle(w)
  /\ id \in issued
  /\ <<v, p>> \in LargeWrites
  /\ HeadObject(<<id, v>>)
  /\ req' = [req EXCEPT ![w] = [id |-> id, version |-> v, payload |-> p, large |-> TRUE]]
  /\ Goto(w, IF v = 1 THEN "create" ELSE "read")
  /\ UNCHANGED <<issued, recVars, blobVars, acks, copy>>

\* The conditional create of ConfirmPutLarge.  It is refused when the object
\* exists, and may be when one of its index rows does (ObjectIndexes says when).
CreateRecord(w) ==
  /\ pc[w] = "create"
  /\ \/ /\ Creatable(req[w].id)
        /\ objects' = [objects EXCEPT ![req[w].id] = NewRecord(req[w])]
        /\ Goto(w, "index")
        /\ UNCHANGED <<req, copy>>
     \/ /\ Return(w)
        /\ UNCHANGED objects
  /\ UNCHANGED <<issued, replica, blobVars, acks>>

\* UpdateObjectWithIndexes reads the object (eventually consistent: the table
\* or a copy that lags), checks it, and applies the request to it.
ReadRecord(w) ==
  /\ pc[w] = "read"
  /\ \E r \in {objects[req[w].id], replica[req[w].id]} :
       \/ /\ Writable(r, req[w].version)
          /\ copy' = [copy EXCEPT ![w] = Applied(req[w], r)]
          /\ Goto(w, "write")
          /\ UNCHANGED req
       \/ /\ ~Writable(r, req[w].version)
          /\ Return(w)
  /\ UNCHANGED <<issued, recVars, blobVars, acks>>

\* ... and writes the whole of it back under #v = :current AND #s <> :deleted.
WriteRecord(w) ==
  LET id == req[w].id IN
  /\ pc[w] = "write"
  /\ \/ /\ Writable(objects[id], req[w].version)
        /\ objects' = [objects EXCEPT ![id] = copy[w]]
        /\ copy' = [copy EXCEPT ![w] = None]
        /\ Goto(w, "index")
        /\ UNCHANGED req
     \/ /\ ~Writable(objects[id], req[w].version)
        /\ Return(w)
        /\ UNCHANGED objects
  /\ UNCHANGED <<issued, replica, blobVars, acks>>

\* The index rows are written and the client gets its 200 or 201.
Answer(w) ==
  /\ pc[w] = "index"
  /\ acks' = acks \cup {<<req[w].id, req[w].version, req[w].payload>>}
  /\ Return(w)
  /\ UNCHANGED <<issued, recVars, blobVars>>

------------------------------------------------------------------------------
(* Deleting and recovering *)

\* The request a Delete or Recover keeps until it has tagged or untagged the
\* blob of the record its UpdateItem returned (ALL_NEW).
BlobRequest(id) ==
  [id |-> id, version |-> objects[id].s3, payload |-> objects[id].dek, large |-> TRUE]

\* After its UpdateItem a Delete or Recover goes on to S3, or returns.
ThenBlob(w, id, label) ==
  /\ IF objects[id].s3 # 0
     THEN req' = [req EXCEPT ![w] = BlobRequest(id)] /\ Goto(w, label)
     ELSE UNCHANGED <<req, pc>>
  /\ UNCHANGED copy

\* Delete: SoftDeleteObjectAndIndexes, condition status <> deleted.
Delete(w, id) ==
  /\ Idle(w)
  /\ Live(objects[id])
  /\ objects[id].version < MaxVersion
  /\ objects' = [objects EXCEPT ![id] = Deleted(objects[id])]
  /\ ThenBlob(w, id, "tag")
  /\ UNCHANGED <<issued, replica, blobVars, acks>>

\* Delete, second call: TagForDeletion (an error if the blob is gone).
TagBlob(w) ==
  LET k == <<req[w].id, req[w].version>> IN
  /\ pc[w] = "tag"
  /\ tagged' = IF HeadObject(k) THEN tagged \cup {k} ELSE tagged
  /\ Return(w)
  /\ UNCHANGED <<issued, recVars, blobs, urls, uploads, acks>>

\* Recover: UndeleteObject, condition status = deleted.
Recover(w, id) ==
  /\ Idle(w)
  /\ objects[id] # None
  /\ objects[id].status = "deleted"
  /\ objects[id].version < MaxVersion
  /\ objects' = [objects EXCEPT ![id] = Recovered(objects[id])]
  /\ ThenBlob(w, id, "untag")
  /\ UNCHANGED <<issued, replica, blobVars, acks>>

\* Recover, second call: UntagForDeletion.
UntagBlob(w) ==
  /\ pc[w] = "untag"
  /\ tagged' = tagged \ {<<req[w].id, req[w].version>>}
  /\ Return(w)
  /\ UNCHANGED <<issued, recVars, blobs, urls, uploads, acks>>

------------------------------------------------------------------------------
(* Uploading large blobs *)

\* RequestPutLarge for a new object: a fresh UUID and a URL for its version 1.
RequestCreate(id, p) ==
  /\ <<1, p>> \in LargeWrites
  /\ id \notin issued
  /\ issued' = issued \cup {id}
  /\ urls' = urls \cup {<<<<id, 1>>, p>>}
  /\ UNCHANGED <<recVars, blobs, tagged, uploads, acks, workVars>>

\* RequestPutLarge for an update: a URL for the version after the one read.
RequestUpdate(id, p) ==
  /\ \E r \in {objects[id], replica[id]} :
       /\ Live(r)
       /\ <<r.version + 1, p>> \in LargeWrites
       /\ urls' = urls \cup {<<<<id, r.version + 1>>, p>>}
  /\ UNCHANGED <<issued, recVars, blobs, tagged, uploads, acks, workVars>>

\* A client PUTs its ciphertext; a PUT replaces the blob and drops its tags.
\* The URL stays good, so it may do so again.
Upload(k, p) ==
  /\ <<k, p>> \in urls
  /\ blobs' = [blobs EXCEPT ![k] = p]
  /\ tagged' = tagged \ {k}
  /\ uploads' = uploads \cup {<<k, p>>}
  /\ UNCHANGED <<issued, recVars, urls, acks, workVars>>

\* PresignTTL runs out.
UrlExpires(k, p) ==
  /\ <<k, p>> \in urls
  /\ urls' = urls \ {<<k, p>>}
  /\ UNCHANGED <<issued, recVars, blobs, tagged, uploads, acks, workVars>>

------------------------------------------------------------------------------
(* AWS *)

\* The eventually consistent copy catches up.
ReplicaSync(id) ==
  /\ replica[id] # objects[id]
  /\ replica' = [replica EXCEPT ![id] = objects[id]]
  /\ UNCHANGED <<issued, objects, blobVars, acks, workVars>>

\* DynamoDB's TTL removes an item whose ttl has passed.  It lies 30 days ahead
\* when it is set: by then the requests of that time have returned and the
\* copies have caught up.
Purge(id) ==
  /\ objects[id] # None
  /\ objects[id].ttl
  /\ Quiet(id)
  /\ replica[id] = objects[id]
  /\ objects' = [objects EXCEPT ![id] = None]
  /\ acks' = {a \in acks : a[1] # id}
  /\ UNCHANGED <<issued, replica, blobVars, workVars>>

\* The bucket's rule "delete-tagged-objects": tagged blobs of 30 days expire.
LifecycleExpire(k) ==
  /\ k \in tagged
  /\ blobs' = [blobs EXCEPT ![k] = None]
  /\ tagged' = tagged \ {k}
  /\ UNCHANGED <<issued, recVars, urls, uploads, acks, workVars>>

\* A call fails, the request's context is cancelled, the server dies, or the
\* reply to a call that took effect is lost: the handler ends where it stands.
Fail(w) ==
  /\ Faults
  /\ ~Idle(w)
  /\ Return(w)
  /\ UNCHANGED <<issued, recVars, blobVars, acks>>

------------------------------------------------------------------------------

Next ==
  \/ \E w \in Workers :
       \/ \E id \in ObjectIds, p \in Payloads : PutCreate(w, id, p)
       \/ \E id \in ObjectIds, v \in Versions, p \in Payloads : PutUpdate(w, id, v, p)
       \/ \E id \in ObjectIds, v \in Versions, p \in Payloads : ConfirmPutLarge(w, id, v, p)
       \/ CreateRecord(w)
       \/ ReadRecord(w)
       \/ WriteRecord(w)
       \/ Answer(w)
       \/ \E id \in ObjectIds : Delete(w, id)
       \/ TagBlob(w)
       \/ \E id \in ObjectIds : Recover(w, id)
       \/ UntagBlob(w)
       \/ Fail(w)
  \/ \E id \in ObjectIds, p \in Payloads : RequestCreate(id, p) \/ RequestUpdate(id, p)
  \/ \E k \in Keys, p \in Payloads : Upload(k, p) \/ UrlExpires(k, p)
  \/ \E id \in ObjectIds : ReplicaSync(id) \/ Purge(id)
  \/ \E k \in Keys : LifecycleExpire(k)

Spec == Init /\ [][Next]_vars

------------------------------------------------------------------------------
(* Properties *)

TypeOK ==
  /\ issued \subseteq ObjectIds
  /\ objects \in [ObjectIds -> Record \cup {None}]
  /\ replica \in [ObjectIds -> Record \cup {None}]
  /\ blobs \in [Keys -> Payloads \cup {None}]
  /\ tagged \subseteq Keys
  /\ urls \subseteq Keys \X Payloads
  /\ uploads \subseteq Keys \X Payloads
  /\ acks \subseteq ObjectIds \X Versions \X Payloads
  /\ pc \in [Workers -> {"idle", "create", "read", "write", "index", "tag", "untag"}]
  /\ req \in [Workers -> Request \cup {None}]
  /\ copy \in [Workers -> Record \cup {None}]

\* A stored object carries a TTL exactly when it is deleted: an update that
\* writes back a whole record it read earlier, from a lagging copy, racing a
\* Delete or a Recover, never leaves a live object that DynamoDB will remove,
\* nor a deleted one it will keep.
TtlMarksDeleted ==
  \A id \in ObjectIds :
    objects[id] # None => (objects[id].ttl <=> objects[id].status = "deleted")

\* Optimistic locking: of all requests writing the same version of an object,
\* at most one gets past the condition and is (or was) answered with success.
SingleWinner ==
  \A w \in Workers : pc[w] = "index" =>
    /\ \A p \in Payloads : <<req[w].id, req[w].version, p>> \notin acks
    /\ \A u \in Workers \ {w} :
         pc[u] = "index" => <<req[u].id, req[u].version>> # <<req[w].id, req[w].version>>

\* A write answered with success stays: the object still carries the DEK of
\* that request, or it has moved to a later version.
AckedWriteKept ==
  \A a \in acks :
    /\ objects[a[1]] # None
    /\ \/ objects[a[1]].version > a[2]
       \/ objects[a[1]].version = a[2] /\ objects[a[1]].dek = a[3]

\* An object without S3Key can be decrypted: the inline blob is the one its DEK
\* was made for, also after it has been large in between.
InlineBlobMatchesDek ==
  \A id \in ObjectIds :
    objects[id] # None /\ objects[id].s3 = 0 => objects[id].blob = objects[id].dek

\* An S3Key is only recorded once a client has uploaded to that key.
LargeBlobUploaded ==
  \A id \in ObjectIds :
    objects[id] # None /\ objects[id].s3 # 0 =>
      \E p \in Payloads : <<<<id, objects[id].s3>>, p>> \in uploads

\* What a lagging copy may show of a live object: the table's record or, with a
\* smaller version, an older one.  Never another record of the same version.
CopiesAreOlder ==
  \A id \in ObjectIds :
    Live(replica[id]) =>
      /\ objects[id] # None
      /\ \/ replica[id].version < objects[id].version
         \/ replica[id] = objects[id]

\* Versions are a history: a record changes by one version at a time, starts at
\* version 1, and leaves the table only as a deleted object.
VersionStep ==
  [][\A id \in ObjectIds :
       \/ objects'[id] = objects[id]
       \/ objects[id] = None /\ objects'[id].version = 1
       \/ objects[id] # None /\ objects'[id] = None /\ objects[id].status = "deleted"
       \/ /\ objects[id] # None /\ objects'[id] # None
          /\ objects'[id].version = objects[id].version + 1]_objects

------------------------------------------------------------------------------
(* The inductive invariant: what a request in flight knows, and why it is safe *)
(* for it to act on it later                                                   *)

\* A worker has a request exactly while it is busy, and a local copy to write.
WorkersOK ==
  \A w \in Workers :
    /\ pc[w] = "idle" <=> req[w] = None
    /\ pc[w] = "write" => copy[w] # None

\* An id nobody was given is nowhere yet.
IssuedOK ==
  \A id \in ObjectIds \ issued :
    /\ objects[id] = None
    /\ replica[id] = None
    /\ Quiet(id)

\* A copy that lags is a record the table held.
ReplicaTtl ==
  \A id \in ObjectIds :
    replica[id] # None => (replica[id].ttl <=> replica[id].status = "deleted")

\* The local copy is the request applied to the record it will replace, unless
\* that record has moved on, and then it never comes back to that version.
CopyOK ==
  \A w \in Workers : pc[w] = "write" =>
    LET r == objects[req[w].id] IN
    /\ copy[w].version = req[w].version
    /\ copy[w].status = "ready"
    /\ ~copy[w].ttl
    /\ r # None
    /\ r.version >= req[w].version - 1
    /\ r.version = req[w].version - 1 => copy[w] = Applied(req[w], r)

\* What an unanswered write committed is there, or has been written over since.
IndexOK ==
  \A w \in Workers : pc[w] = "index" =>
    LET r == objects[req[w].id] IN
    /\ r # None
    /\ r.version >= req[w].version
    /\ r.version = req[w].version => r.dek = req[w].payload

\* A blob got there by an upload, and a ConfirmPutLarge past its HeadObject
\* check serves a key that has been uploaded to.
UploadOK ==
  /\ \A k \in Keys : blobs[k] # None => <<k, blobs[k]>> \in uploads
  /\ \A w \in Workers :
       pc[w] \in {"create", "read", "write"} =>
         /\ req[w].large =>
              \E p \in Payloads : <<<<req[w].id, req[w].version>>, p>> \in uploads
         /\ pc[w] = "create" => req[w].version = 1

IInv ==
  /\ TypeOK /\ WorkersOK /\ IssuedOK
  /\ TtlMarksDeleted /\ ReplicaTtl /\ CopiesAreOlder
  /\ CopyOK /\ IndexOK /\ SingleWinner /\ AckedWriteKept
  /\ InlineBlobMatchesDek /\ UploadOK /\ LargeBlobUploaded

------------------------------------------------------------------------------
(* The refinement *)

\* What the API shows of a record.
Shown(r) ==
  IF r = None THEN None
  ELSE [version |-> r.version, deleted |-> r.status = "deleted", dek |-> r.dek,
        inline |-> r.blob, large |-> r.s3]

Store == [id \in ObjectIds |-> Shown(objects[id])]

\* The writes that are committed and not answered.
Unanswered ==
  {<<req[w].id, req[w].version, req[w].payload>> : w \in {u \in Workers : pc[u] = "index"}}

Promise == INSTANCE VersionedObjects WITH store <- Store, pending <- Unanswered

\* Reading a lagging copy, applying the request to it and writing all of it back
\* under a version condition is an atomic update of the current object: no field
\* of a concurrent write, delete or recover is lost or brought back.
ImplementsVersionedObjects == Promise!Spec

------------------------------------------------------------------------------
(* What the documentation and the comments promise, and the code breaks *)

\* README.md:14 "Version-based concurrency control prevents conflicts": two
\* clients that both upload the same next version do not mix their data, so a
\* client that uploaded its blob and got its DEK recorded finds its own blob.
LargeBlobMatchesDek ==
  \A id \in ObjectIds : LET r == objects[id] IN
    Live(r) /\ r.s3 # 0 /\ <<<<id, r.s3>>, r.dek>> \in uploads
      => blobs[<<id, r.s3>>] \in {r.dek, None}

\* objects.go:525 "Object recovered successfully": at rest, the blob of a live
\* large object is not marked for the bucket's clean-up.
LiveBlobUntagged ==
  \A id \in ObjectIds :
    Live(objects[id]) /\ objects[id].s3 # 0 /\ Quiet(id)
      => <<id, objects[id].s3>> \notin tagged

==============================================================================
