# Gardbase in TLA+

Gardbase is an encrypted document store. Clients encrypt; an API server (Go, gin) keeps
records in DynamoDB and large blobs in S3; a Nitro enclave (Go, reached over vsock) and KMS
handle the keys. This directory models the parts of it where order, failure and staleness
matter: what happens to objects, index rows, queries, keys, sessions, tenants and connections
when requests overlap, calls fail halfway, reads lag and processes die. All paths below are
relative to the repository; line numbers are those of the commit modelled.

Run a model with `tlc -workers 2 -config MC_X.cfg MC_X`, check proofs with `tlapm XProofs.tla`.

## 1. The system

### Components

| Component | Code | State | Operations |
|---|---|---|---|
| Object records | `apps/api/internal/handlers/objects.go`, `storage/dynamo.go`, `storage/s3.go` | objects table (version, status, TTL, inline blob, S3 key, DEK), bucket with tags, presigned URLs | Put, RequestPutLarge, ConfirmPutLarge, Get, Delete, Recover; TTL; lifecycle rule |
| Index rows | `storage/dynamo.go` (`CreateObjectWithIndexes`, `updateIndexes`, `deleteIndexesByObject`), `pkg/models/index.go` | indexes table and its GSI | create in a transaction or in batches, update, background clean-up |
| Create retry | `storage/dynamo.go:144-168` | attempts of one transaction | retry when throttled, whether or not the client is still there |
| Queries and scans | `storage/dynamo.go` (`QueryIndexes`, `ScanTable`), `handlers/objects.go` (`Query`, `Scan`) | the client's cursor; nothing on the server | key conditions, ranges, pages, batches of objects |
| Table index keys (IEK) | `handlers/encryption.go`, `storage/dynamo.go:54-85` | table configs | get or make a table's key |
| Vsock pool | `services/enclaveVSock.go`, `enclave-service/cmd/enclave/main.go` | idle connections, one line protocol | SendToEnclave, handleConnection |
| Enclave sessions | `enclave-service/internal/session`, `internal/handlers/session_*.go`, `pkg/crypto/kms.go`, `handlers/encryption.go` | map of sessions with expiry, RSA key and document, the client's session object | init, unwrap, prepare DEK, prepare IEK, table hash, one-shot decrypt |
| Tenants, API keys, permissions | `handlers/tenants.go`, `middleware/tenant.go`, `middleware/permission.go`, `storage/dynamo.go` | tenants and API keys tables | create, find, check |
| Rate limiter | `middleware/ratelimit.go` | a window of request times per client | admit or reject |
| Client cryptography | `pkg/crypto` | the session object | order-preserving normalisation, attestation check, ciphers |
| Server, logging, CORS, health | `cmd/server/main.go`, other middleware | none that outlives a request | routes, shutdown |
| Landing page, infrastructure | `apps/landing`, `infrastructure` | none; two rules of it matter (below) | |

### How they interact

A request passes the rate limiter, the check of its API key and the check of its permissions,
and then runs in one goroutine that holds no lock while it talks to AWS, so two requests
interleave at every AWS call; nothing but DynamoDB's condition expressions orders them. `GetItem`
and `Query` are eventually consistent (only the `BatchGetItem` of a query asks for a consistent
read), and rows are found by object id through a GSI, which always lags. A write of an object is
*record first, index rows after*; the rows of a delete are removed by a goroutine that outlives its
request but works under that request's context. Two AWS mechanisms act on their own: the TTL of the
objects table (`infrastructure/main/dynamodb.tf`) and the bucket's rule for objects tagged
`status=deleted` (`s3.tf:10-28`). The API reaches the enclave over pooled connections that carry one
line per request and one per answer, with no request number. To hand a client a key the API
fetches the enclave's attestation document, has KMS wrap the key for the RSA key in it, and
sends that to the enclave, which unwraps it and seals it with the key of the client's session. The
enclave keeps its sessions and its RSA key in memory only.

### What is hard here, and what makes each part correct

* **Objects.** A read-modify-write of a whole record from a possibly stale copy; two writers of
  one version; Delete and Recover racing a write; an object moving between inline and large; a
  handler that dies between the record, the rows, the tag and the answer. Correct when one writer
  per version wins, acknowledged writes stay, no live object carries a TTL, the DEK recorded
  opens the blob recorded, and all of this looks like an atomic versioned register.
* **Index rows.** Two phases; a lagging index read to decide what to delete; batches half done.
  Correct when every row belongs to a write that was committed, and an object's rows are those of
  its current value.
* **Create retry.** Lost replies, late retries, clients that hang up. Correct when a success is true,
  an error hides no object that a retry made, and a create returns (it may not: section 5).
* **Queries.** Pages between which others write; batches that come back in part; strict
  comparisons made of inclusive bounds on concatenated bytes; values cut to 32 bits, times to seconds.
  Correct when a client that follows the tokens to the end gets exactly the objects that match, in order.
* **Index keys.** A check-then-put without a condition. Correct when all clients of a table hold
  one key.
* **Vsock pool.** Time-outs with the answer still under way, a server that closes idle
  connections with an unsolicited line, crashes. Correct when an answer reaches the call that
  asked and nobody else, connections have one user, and calls return.
* **Sessions.** Sessions expire between check and use; a restart replaces the RSA key while wrapped
  keys are under way; a session is stored before it is attested; the expiry is rounded on its way to
  the client. Correct when what is wrapped for a session that is found can be unwrapped, and a
  client is refused only when its session is really gone.
* **Rate limiter, tenants.** A clock read before the lock; a tenant stored without a key; reads
  that lag behind the creation. Correct when no client gets more than its limit, or is rejected
  below it, and each request acts for the tenant of its key.

`PROJECT.json` lists the hazards line by line with the properties that watch them.

## 2. The modules

| Module | Models | Module | Models |
|---|---|---|---|
| `ObjectRecords` | records, blobs, tags, the six handlers, TTL, lifecycle | `VersionedObjects` | what the objects API promises (abstract) |
| `ObjectIndexes` | index rows, composed with `ObjectRecords` | `CreateRetry` | the transaction's retry loop |
| `IndexQueries` | queries and scans, page by page | `OrderPreserving` | values to range tokens (functions) |
| `EnclaveSessions` | client, API, KMS and enclave around a session | `TableKeys` | get-or-make of a table's index key |
| `RateLimit` | the window of one client address | `ApiRequests` | middleware, tenants and keys, on top of `RateLimit` |
| `VsockPool` | pool, line protocol and enclave loop | `EnclaveCalls` | what SendToEnclave promises (abstract) |

`MC_M` instantiates `M` for TLC, `MProofs` holds its theorems (`ApiRequestsProofs` those of
`RateLimit` too, `IndexQueriesProofs` those of `OrderPreserving`). Operators named `...Mut` are
mutated forms of a definition, used to see that a property can fail.

**ObjectRecords.** A *worker* is a request goroutine. `pc` names the call it will make next:
`read` (GetItem of an update), `write` (its conditional PutItem), `create`, `index` (the rows,
then the answer), `tag`/`untag` (the S3 call after a Delete or Recover). `req` is its request and
`copy` its local object after `applyFn`. `objects` is the table and `replica` the lagging copy
that GetItem may return instead. A *payload* stands for a plaintext with the fresh DEK it was
encrypted under, so "the DEK opens the blob" is equality of payloads. An S3 key is
`<<id, version>>` (`generateS3Key`), shared by all who upload that version. `urls`, `uploads`
follow the presigned URLs; `acks` is the history of writes answered with success. One action per
call: `PutCreate`, `PutUpdate`, `ConfirmPutLarge`, `CreateRecord`, `ReadRecord`, `WriteRecord`,
`Answer`, `Delete`, `TagBlob`, `Recover`, `UntagBlob`, `RequestCreate`, `RequestUpdate`, then
`Upload`, `UrlExpires` (client, S3), `ReplicaSync`, `Purge`, `LifecycleExpire` (AWS) and `Fail`,
which ends a handler anywhere: an error, a cancelled context, a dead server, a lost reply.
Requests that are refused before they change anything (400, 404) are not steps. `Purge` removes a
deleted record only when no request works on it and copies agree: the TTL lies 30 days ahead.

**VersionedObjects** is the promise: `store` is a register per object, `Put`, `Confirm`, `Delete`,
`Recover` apply to it *as it stands* and move it by one version, a write becomes `pending` when it
takes effect and is answered at most once.

**ObjectIndexes** extends `ObjectRecords`; every step is a step of it with its effect on the rows,
or a step on the rows alone. `IndexTokens` gives each payload the tokens of its indexes. A create
of at most `BatchLimit` (25) rows is one transaction, otherwise `WriteBatch` follows the put and
part of a batch may come back unprocessed. `QueryRows`, `DeleteRow`, `PutRow` are `updateIndexes`:
it reads the object's rows through the GSI into a map by `GetIndexName()`, which is `""` for every
row (`pkg/models/index.go:51`: the name is in the row's keys, but parsing them drops it), so one row is
left of them, of the index that sorts last. `CleanupQuery`, `CleanupDelete`, `CleanupCancelled` are the
goroutine behind a Delete, whose context dies with its request.

**CreateRetry.** Several requests run the transaction that creates one object, as a client does
when it confirms again. A call commits, fails, is throttled or loses its reply; a throttled one
enters the loop, which only success leaves. `cancelled` are the requests whose client hung up (`Cancel`):
none of their later calls succeeds, and the loop does not look.

**TableKeys.** A key is its plaintext, however wrapped. Read (table or lagging copy), generate,
put unconditionally, seal for the client. Both handlers that do so take the same four steps.

**VsockPool.** One SendToEnclave per call: `Get`, `Dial`, `Write`, `Read`, `Put`, with `Broken`
and `Timeout` closing the connection. `up` and `down` are the lines under way, `enclave` what
`handleConnection` does on each connection; `GaveUp` is the line it writes when its scanner fails
(idle for five minutes, or a line too long). `Crash` closes all connections; sent lines may be lost.

**EnclaveCalls** is the promise, without connections: a call's request is unsent, sent, running in the
enclave, answered, refused or gone, and its result is its own answer, the enclave's refusal or a failure. A
call that could not dial or was refused was never executed; one that timed out may have been, once. The
refinement reads the stage of a request off the connection it is on (`Stage`, `Promise`).

**EnclaveSessions.** `boot` numbers the processes of the enclave and names their RSA keys, `doc` is
the cached attestation document, by the key it is about, `sessions` the map with its expiries.
A session is named by the client object that asked for it; `client[c]` follows
`InitEnclaveSecureSession` (asked, stored, replied, ready or failed, closed). A call goes through four
hands, with an action for each method: the client (`SessionUnwrap`, `GenerateDEK`, `GetTableIEK`,
`AskTableHash`, `AskDecrypt`), the API (`GetAttestation`, then what KMS wraps: `UnwrapItems`,
`GenerateDataKeys`, `WrapIEK`, `DecryptTableSalt`, `HandleDecrypt`), the enclave (`GetSession`, then
`SealDEK`, `PrepareDEK`, `PrepareIEK`, `GenerateTableHash`, `Decrypt`) and the client again
(`OpenDEKs`, `OpenIEK`, `UnsealDEK`, `ReceiveTableHash`, `UnwrapSingleDEK`). Anything fails at any
point (`Fail`, `InitFails`); `Shutdown` closes the NSM session under running handlers; `Crash` ends the
process and starts another, with no sessions and a new key, while what it answered is still under way.
The clock runs in half seconds so that RFC3339's whole seconds are a real rounding. Assumed: the
client's clock is not behind the enclave's; an unwrap carries one item (the items do not interact).

**RateLimit** is the specification of the limiter alone: `Stamp` reads the clock, `Enter` takes
the lock, drops, adds and counts. `MaxDelay` bounds the time between the two; the code has no such bound,
it is what the environment's scheduling gives, and every theorem names it.

**ApiRequests** extends it: a request is sent (`Send`), limited (`Limited`), then either creates a
tenant in its steps (`GenerateKeys`, `CreateTenant`, `CreateAPIKey`) or has its credentials checked
(`Authenticate`) and uses the tenant's record (`GetTenant`, `Serve`). Reads of both tables miss rows
until they settle. `CreateFails`, `AuthenticateFails`, `RequestFails` are errors and lost answers at
each point, also after a write that took effect. An error of the key lookup is answered 401 like a wrong
key; the history `erred` has the requests it happened to. A wrapped key is the encryption context it is bound to
(tenant and purpose), which is what KMS compares. Every client comes from one address.

**OrderPreserving** are the normalisations of `ope.go` as functions of a word size: `Sign` is 2^31 in
the code. A time is counted in fractions of a second, `Second` of them (10^9 in Go), and normalised to
whole seconds. `Enc` is goope's encryption, of which only its order is used.

**IndexQueries.** `rows` are those under one hash token, any rows at all; others put and drop rows
and change objects between any two steps. `Lower`, `Upper`, `Selects` are the key conditions;
`QueryIndexes` takes a page of DynamoDB's choosing (its size limit is `MaxPage`), `BatchGetItem` is one
call of one of the parallel goroutines, any nonempty part of whose keys may be served, `Merge` puts
objects and rows together and gives the client its token; `ScanTable` is the scan. `steady` is the
history of keys that were there all the time, `answered` what the client got.

## 3. The runs

All runs finish; none needs more than about three minutes on two workers.

| Run | Instance | Shows |
|---|---|---|
| `records` | 1 object, 2 workers, 2 payloads, one of them inline or large, versions 1-3, faults | `TtlMarksDeleted`, `SingleWinner`, `CopiesAreOlder`, `InlineBlobMatchesDek` over moves from inline to large and back, `AckedWriteKept`, `VersionStep` |
| `indexes` | 2 workers, 2 payloads with 1 and 2 indexes, inline writes, `BatchLimit` 1, lagging GSI, faults | `RowsWereWritten`, of the records `AckedWriteKept`, and that the handlers implement `VersionedObjects` |
| `indexes_large` | 2 workers, 1 payload with 2 indexes, inline or large, versions 1-3, faults | `CreatedWithIndexes`, also over rows that a purge left behind; in the composition the inductive invariant `IInv` of the records, `LargeBlobUploaded`, and the refinement for large objects |
| `create_retry` | 4 requests | `OkIsMine`, `ErrorMeansLost` |
| `table_keys` | 3 requests, 4 keys, lagging copy | `HandedWasStored`, `FinalKey`, `AgreedForGood` |
| `vsock_pool` | 4 calls (1 too long), 2 connections, a pool of 1, crashes | `AnswerIsOwn`, `InSync`, `OneUser`, `NoLeak`, that the pool implements `EnclaveCalls`, and under fairness `Returned` |
| `sessions` | 2 sessions, 1 call of any kind, 3 processes of the enclave, sessions of 3 half seconds, 5 ticks | `EnvelopesOpen`, `RefusedOnlyWhenGone`, `LiveIsFound`, `GoneForGood` |
| `index_queries` | 3 objects, 4-bit values, times in half seconds, pages of 3, batches of 2, limits 0-2, both directions, every operator and type, 2 writes meanwhile | `InKeyOrder`, `ExactAnswer`, `TrueToValues`, and under fairness `TraversalEnds` |
| `api_requests` | 3 requests, a limit of 2 in 3 ticks, a delay of 1, lagging tables, shutdown | `LastMinuteLimited`, `RejectedWhenBusy`, `OwnTenantServed`, `TurnedAwayByLagOrError` |
| `mixed_upload`, `stale_rows`, `endless_create` | small; the first two without faults, `stale_rows` without lag, `endless_create` under fairness | a counterexample to what a document or comment says; section 5 |

The type invariants are proved for every module that has a theorem (section 4); `TypeOK` of `VsockPool`, which bounds the
pool, and those inside `IInv` and `ApiInv` are checked as well.

**Bounds and why they are enough.** Objects do not interact (no action reads two ids), so one
suffices; a second worker is what a race needs, and no property is about three requests of one
object, except for keys and creates, which have three and four. Two payloads tell "mine" from
"theirs", in `records`, `indexes` and `mixed_upload`. `LargeWrites` says which payloads clients may write as a
large object, as which version. In `records` it is one of the two, as the first or second version: an inline
object of one client becomes a large one and then an inline one of the other, and a large one is deleted,
recovered and untagged. With both of them large, which `mixed_upload` needs for version 2 only, the run would
not end in time; nor would it with the refinement, which is checked in `indexes` over two payloads and in
`indexes_large` over large ones. `MaxVersion` 3 lets an object be created, updated or deleted, and updated,
deleted or recovered again after it. `BatchLimit`
stands for 25: with 2, a large create of two indexes is one transaction; with 1, a payload of one index takes the
transaction and one of two the batches. Two
connections and four calls are enough for a connection to be in use, pooled, closed by the pool's limit,
closed by the enclave and dialled again. Three processes of the enclave let a session be stored by one, its
call's document fetched from the next and answered by the last; a `TTL` of 3 half seconds does
not fall on a whole second, so rounding bites. Calls do not share anything but the sessions, so one
is enough for what is checked here. In `index_queries` a page of three over
batches of two needs two goroutines, limits 1 and 2 cut a result of three rows at every place, an
object may have two rows, and the bounds lie on, below and above stored tokens. A `Second` of 2 puts two
times in one second, so that a stored time may share its token with a bound. Three requests over a
limit of two make one too many; the window of three ticks and the delay of one let a request enter
after younger ones have dropped what it would have counted. Workers, payloads, keys, sessions,
calls and requests are symmetric where no liveness is checked (only workers where payloads carry
different tokens).

**Fairness.** Safety is checked without any use of it. `CreateRetry!LuckySpec`, under which `endless_create`
finds its counterexample: weak fairness of a goroutine's step (its call returns, its sleep ends) and strong
fairness of `RetryCommits` (throttling ends, and an attempt that could succeed again and again at last does);
even so the loop may never end. `VsockPool!FairSpec`: weak fairness of a call's
own steps, justified by the deadline set on the connection before each write and read; nothing is
assumed of the enclave, so `Returned` holds when it hangs. `IndexQueries!FairSpec`: weak fairness of
DynamoDB's answers and of the client that comes back with its token. A `BatchGetItem` that processes none
of its keys is an error (DynamoDB's documented behaviour), so every round makes progress; the backoff
between rounds has no other bound.

`CHECK_DEADLOCK FALSE` is used where the system may really stop: `create_retry`, `endless_create` and
`vsock_pool` (their calls are made once), `sessions` (all calls made and the clock at its bound),
`index_queries` (the traversal is over), `api_requests` (the server is down).

## 4. The proofs

TLAPS proves, for every value of the constants under the named assumptions (`MaxVersion` positive,
`None` distinct from the values, `BatchLimit` positive, tokens in `Tokens`, answers distinct from
the words for failures, finitely many requests, an `Enc` that preserves order):

* `ObjectRecordsProofs`: `TypeCorrect`; `Invariance` of `IInv`; from it `TtlCorrect`, `OneWinner`,
  `AckedWritesStay`, `StaleReadsAreOlder`, `InlineDecrypts`, `LargeUploaded`, `OnlySharedKeysMix`; the
  action property `VersionsAreAHistory`; and `Refinement`, that the handlers implement
  `VersionedObjects`.
* `ObjectIndexesProofs`: `RecordsKept` (`IndexSpec => Spec`: rows aside, every behaviour is one of
  `ObjectRecords`, so its theorems carry over) and with it `RecordsImplement`; `IndexTypesCorrect`,
  `RowsAreOfWrites`, `CreatesAreWhole`; and under hypotheses that name what goes wrong,
  `AnsweredAreFound` and `MatchesAreExact`.
* `CreateRetryProofs`: `CreateTypeCorrect`, `OkIsTrue`, `ErrorsAreTrue`, and `HopelessForGood`: a create
  that is in its loop when its object exists, or its client is gone, stays there for good.
* `TableKeysProofs`: `KeyTypeCorrect`, `HandedKeysWereStored`, `SettledKeyIsFinal`, the action property
  `AgreedKeyIsHanded`, and `OneKeyWithoutRaces` (one request at a time, no lag: one key).
* `VsockPoolProofs`: `PoolTypeCorrect`, `ConnectionsAreExclusive`, `WiresInSync`, `AnswersAreOwn`,
  `NoConnectionLeaks`; and `PoolImplementsCalls`, that the pool implements `EnclaveCalls`.
* `EnclaveSessionsProofs`: `SessionInvariance` of `IInv`; `FoundSessionsUnwrap`,
  `RefusalsAreJustified`, `LiveSessionsAreFound`; the action property `OverIsOver`.
* `IndexQueriesProofs`: `RangeExact` (the bounds select what the operators say), `QueryInvariance`,
  `NeverBack`, `NothingMissed`, `TrueToResolution`; of `OrderPreserving`, `NarrowTypesAreExact`,
  `TimesBySecond` and `LongsByHalves`.
* `ApiRequestsProofs`: `RateInvariance`, `LastMinute`, `EveryPeriod`, `RejectionsAreEarned` of
  `RateLimit`; `ImplementsLimiter` (`ApiSpec => Spec`), and of the server `ApiInvariance`,
  `ApiLastMinute`, `ApiRejections`, `OwnTenant`, `OnlyLagOrError`.

*Why optimistic locking works* (`IInv`). None of the record properties is inductive: they depend on
what a request in flight knows. `CopiesAreOlder` says that a lagging copy that is live and has the
current version *is* the current record. `CopyOK` follows for a request that has read: its local
copy is its request applied to the current record, unless the record has moved to a later version,
and it never moves back while a request is there (`Purge` waits). The conditional write therefore
either replaces exactly the record that was read or fails, which is the atomic `Put` or `Confirm` of
`VersionedObjects`; `IndexOK` says that what was committed and not yet answered is still there
or overwritten; `SingleWinner` and `AckedWriteKept` need both. Only because Delete and Recover bump
the version too does a stale copy never resurrect a TTL or a status. In the refinement `store` is
the table as the API shows it and `pending` the requests at `index`; all other steps stutter.

*Why answers do not get mixed up* (`VsockPool`'s `IInv`). `InSync`: a connection in the pool,
or just taken from it, carries no request and no answer, at most the enclave's parting line on a
closed connection; one in use carries its user's request *or* its answer. It is inductive together
with `OneUser` because every failure closes the connection rather than pooling it, and because the
enclave stops reading after its parting line.

*Why a call is executed at most once* (`OnePlace`, added to `IInv` for the refinement). A request is on one
connection at most, under way or running, and if its call still waits then on that call's connection; a
call that has not sent is on none. So the stage of a request, which is read off the connections, moves only
as `EnclaveCalls` lets it: a call that times out leaves its request where it is, a connection given back has
none on it, a crash moves many requests to `gone` in one step.

*Why a transacted create is whole* (`RemovesLaterOnly`). `updateIndexes` and the clean-up of a Delete
choose what to remove from a read that may be stale. They remove rows of their own object only, and
by then the object is past its first version: a request in its index phase has committed (`IndexOK` of
the records), a clean-up starts with a version bump, and neither lets the object be purged and created
anew under it. So no row of an object at version 1 is ever removed.

*What has to go wrong for rows to be wrong.* The code breaks `AnsweredIsFound` and `ExactMatch` (section 5).
The two theorems say that it does so in the named ways and in no other:

| | broken only if |
|---|---|
| `AnsweredIsFound` | two requests are at one object at once (`~OneAtATime`); the clean-up of a Delete removes rows of an object that has been recovered (`LateCleanup`); a batch comes back with unprocessed items (`Unprocessed`) |
| `ExactMatch` | `~OneAtATime`; `updateIndexes` does not see all rows of the object, for the GSI's lag or the map that keeps one row (`PartialRead`); a request fails between the write of the record and the removal of its old rows (`CutShort`); a purge leaves rows behind (`RowsLeft`) |

Each line is needed: on small instances TLC finds a counterexample to either property when any one of the
hypotheses is left out, and none when all are there. The hypotheses are met when one client at a time writes
an object and DynamoDB keeps up; for `ExactMatch` the object has one index, since with more the map keeps one
row and the first update is a `PartialRead`. The first theorem allows
failures, stale reads and purges, the second allows late clean-ups and lost batch items. `FoundInv`: a
request in its index phase is later than every answered write of its object, its rows are there or on its
plan, and what it removes it removes before it puts any. `ExactInv`: an object nobody is indexing has
rows of its current value only; while one is, every other row is on the plan to go.

*What has to go wrong for a DEK not to open its blob.* `OnlySharedKeysMix`: a client that uploaded its blob
and had its DEK recorded finds another blob only if two payloads went to one S3 key, as in the run
`mixed_upload`; nothing else in the handlers mixes them.

*Why envelopes open* (`EnclaveSessions`' `IInv`). `Remembered`: the sessions in the map are those
stored by this process, so a session lives at most as long as the RSA key. `InOrder`: a call's document
is not older than its session, and not younger than the process. When the enclave finds the session
of a call both bounds meet, and the key in the call was wrapped for the RSA key it has now. That
is not the case of the one-shot decrypt, which has no session.

*Why the limit holds without a common order* (`RateLimit`'s `IInv`). `DroppedForYounger`: a time that
entered the window and is gone was dropped for a request at least a minute younger. So of the
requests of the last minute all are still in the window of the last one that entered. A whole minute in the
past may have seen more than the limit, by those that waited for the lock (`EveryPeriodLimited` holds of
periods shorter by `MaxDelay`).

*Why no row is missed* (`IndexQueries`' `IInv`). `Ahead`: the cursor separates what was answered
from what comes. `NoneLost`: a steady row is behind the cursor and answered, or in the page under way
with its object found or still to be read, or ahead. `RangeExact` takes the key bounds to the
operators, `TrueToResolution` the operators on tokens to those on values: a query errs on a value only if
the value has the token of another value that bounds the query. No two values of 32 bits share a token
(`NarrowTypesAreExact`, for zeros of one sign); two times do exactly when they lie in the same second
(`TimesBySecond`), two 64-bit integers exactly when their high halves are equal (`LongsByHalves`).

*Why a request acts for its own tenant* (`Created`). A key is stored only after its tenant's record,
under the tenant's own name, and is given out only when both are stored; so a client that was answered
is turned away only when its key lookup lags or errs (`OnlyLagOrError`). A creation that fails between its
two writes leaves a tenant without a key, which nobody can use; the theorem is about those that were
told of success.

Model-checked only: liveness (`Returned`, `TraversalEnds`), which is beyond this
prover, and everything that is refuted.

## 5. Where the code departs from what it says

Checked counterexamples:

* `mixed_upload`: two clients upload the same next version of an object to the same S3 key;
  `ConfirmPutLarge` only checks that the key exists, so one client's DEK is recorded over the other's
  blob (README.md:14, "Version-based concurrency control prevents conflicts").
* `stale_rows`: with two indexes one sequential update leaves an old row (dynamo.go:286, "if index
  doesn't exist in the new set, delete it"; README.md:86, "exact-match queries").
* `endless_create`: a throttled create whose object exists by then, or whose client hung up, never leaves
  its retry loop: `retryCount` is not incremented, and only success ends the loop (dynamo.go:150, "const
  maxRetries = 3"; dynamo.go:92, "Returns an error if any DynamoDB operation fails").

Stated as properties in the modules, violated when added to a run, and without a run of their own:

* `ObjectRecords!LiveBlobUntagged`: the S3 tag of a Delete lands after the untag of the Recover that
  followed it, or a Recover fails before its untag; the live object's blob will be cleaned up.
* `ObjectIndexes!AnsweredIsFound`: two updates commit in order and maintain their rows in the opposite
  order; the object is found under its old value only (README.md:86). Section 4 has all the causes.
* `TableKeys!OneKey`: two first requests hand out two different index keys (README.md:254, "Same value
  always produces same encrypted token").
* `EnclaveSessions!SameTableSameHash`: two requests for the hash of one table get two hashes. The API
  passes on the salt as KMS re-encrypted it for the enclave (objects.go:61), and the enclave hashes that
  ciphertext without decrypting it (session_generate_table_hash.go:38; objects.go:30, "decrypted table salt").

Read in the code while modelling, part of the models:

* The lifecycle rule counts 30 days from a blob's creation, the record's TTL from its deletion: the
  blob of an old object may go at once while Recover is still allowed (`LifecycleExpire` may fire
  at any time; dynamo.go:635). Blobs of overwritten versions are never tagged and stay.
* An update from inline to large leaves `EncryptedBlob` set (`Applied`; objects.go:215, 297).
* `UnprocessedItems` of a batch are dropped and the create answers with success (dynamo.go:200, 92).
* A failed condition inside the transaction of a create is a `TransactionCanceledException`, so
  `ErrAlreadyExists` never comes from it.
* Times within one second get the same range token, 64-bit numbers with the same high half too (ope.go:36,
  114): a strict bound leaves out, and an equality takes in, the other values of the bound's token.
* The enclave's parting line on an idle connection is read by the next call as its answer, and the dead
  connection is pooled again for another call to fail (main.go:194; enclaveVSock.go:84-99).
* The clean-up goroutine of a delete is usually cancelled by the end of its request; rows of deleted
  and purged objects stay; Recover does not bring removed rows back.
* An object with two rows in a page (a stale one, or one put since) makes DynamoDB refuse its batch:
  the query fails for as long as the row stays (`BatchRefused`).
* A query returns deleted objects, a scan does not (`Answerable`). -0 and +0 get different tokens
  (`OtherZero`). On an index without a range field the range operator is ignored, and a between is
  always refused (`Selects`, `Accepted`); a comparison without a value panics.
* `UnwrapSingleDEK` verifies the one-shot answer against a nonce and a key that the cached document
  does not carry: it cannot succeed (`UnwrapSingleDEK`; kms.go:380-404).
* `HandleSessionUnwrap` answers 500 and goes on when there is no document (`AttestationFails`).
* Nothing calls `StartSessionCleanup`: the map of sessions only grows until the next restart.
* A missing tenant record is not looked at and panics (`GetTenant`; encryption.go:180); an error of the
  key lookup is answered 401 "Invalid API key", like a wrong key (`AuthenticateFails`; tenant.go:32).
* A tenant whose first API key cannot be stored stays behind without one (`CreateFails`; tenants.go:86).

Read in passing, not part of a model: the `GetURL` of a scan or query result is the S3 key where
objects.go:385 speaks of a presigned URL; a failed refresh of the attestation document is only logged; openssl's
standard error is mixed into the plaintext it returns (`CombinedOutput`); Recover looks for
`ErrNotFound` where the store returns `ErrNotFoundOrDeleted`.

## 6. Not modelled, and what may come next

* *Get*, health probes, logging, CORS, request validation: they change nothing.
* *CreateNewAPIKey, ListAPIKeys, DeleteAPIKey* and the prefix and expiry checks of `FindAPIKey`: the handlers have no
  route, and the only keys there are have the prefix searched for and no expiry.
* *prepare_kek*: the call to it is commented out (tenants.go:60-77).
* *The ciphers, the certificate chain and the inverse normalisation* of `pkg/crypto`: keys, envelopes and
  tokens are values that open, verify or compare as the code's do.
* *The refresh of the attestation document*: a younger document about the same key. The age check of the
  client and KMS's refusal of an old document are failures.
* *Restart of the API server*: the rate limiter's windows are lost with it, tenants and objects are as a
  `Fail` of every request leaves them.
* *The order inside one BatchWriteItem*, DynamoDB's item size limits, the landing page, and provisioning
  other than the two rules of section 1.

Next: compositions of `VsockPool` with `EnclaveSessions` (that `AnswerIsOwn` gives each call
its own envelope) and of `IndexQueries` with `ObjectIndexes` (which rows a query can really meet after
updates and deletes), the retry loop inside `ObjectIndexes`, and how coarse the range tokens of 64-bit
floats are, as `LongsByHalves` says it of integers.
