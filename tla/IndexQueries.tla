---------------------------- MODULE IndexQueries ----------------------------
(***************************************************************************)
(* QueryIndexes and ScanTable: a client walks through the pages of a query *)
(* of one index, or of a scan, while other requests write rows and         *)
(* objects.  The rows are those under one hash token; what rows there can  *)
(* be is the matter of ObjectIndexes, here any may come and go.            *)
(*                                                                         *)
(* A row's key is its range value and its object's id, compared as bytes.  *)
(***************************************************************************)
EXTENDS OrderPreserving, Sequences, FiniteSets

CONSTANTS
  Ids,          \* object ids, as numbers
  MinId, MaxId, \* MinObjectID and MaxObjectID
  MaxRange,     \* MaxRangeValue
  Starts,       \* pairs of a request and the rows there are when it comes
  BatchSize,    \* 100: keys of one BatchGetItem
  MaxChanges,   \* bound of the number of writes meanwhile
  MaxPage,      \* bound of the rows of a page: DynamoDB's limit of its size
  None

Ranges == {Enc[n] : n \in 0 .. Half - 1}
Keys == Ranges \X Ids
ScanKeys == {0} \X Ids

\* The forms a request can take: which fields the index has and which of the
\* values are given.  Limit 0 is no limit.
Request == [op : {"eq", "lt", "lte", "gt", "gte", "between", "scan"}, type : Types,
            ranged : BOOLEAN, value : Int \cup {None}, between : (Int \X Int) \cup {None},
            limit : Nat, forward : BOOLEAN]

ASSUME QueryAssumption ==
  /\ MinId \in Int /\ MaxId \in Int /\ MaxRange \in Int
  /\ Ids \subseteq Int /\ \A id \in Ids : MinId < id /\ id < MaxId
  /\ \A n \in 0 .. Half - 1 : Enc[n] <= MaxRange
  /\ Starts \subseteq Request \X SUBSET Keys
  /\ \A start \in Starts : LET q == start[1] IN
       /\ q.value # None => q.value \in Values(q.type) /\ Normalizable(q.type, q.value)
       /\ q.between # None => \A i \in 1 .. 2 :
            q.between[i] \in Values(q.type) /\ Normalizable(q.type, q.between[i])
  /\ BatchSize \in Nat \ {0}
  /\ MaxChanges \in Nat /\ MaxPage \in Nat \ {0}
  /\ None \notin Int \cup (Int \X Int)

VARIABLES
  req,          \* the request, the same for every page
  objects,      \* the status of the objects, or "none"
  rows,         \* the rows that the index table shows
  changes,      \* counts the writes
  pc,           \* "ask", "fetch", then "done" or "failed"
  cursor,       \* NextToken, as the client sends it: the key it is about, or None
  page,         \* the rows of the page that is being fetched
  last,         \* LastEvaluatedKey of that page
  left,         \* the positions in it whose objects are still to be read
  found,        \* the ids of the objects read
  answered,     \* history: the rows of all pages, and if their objects came along
  steady        \* history: the answerable keys that have been so all the time

vars == <<req, objects, rows, changes, pc, cursor, page, last, left, found, answered, steady>>

------------------------------------------------------------------------------
(* What a query selects *)

\* Bytes are compared from the left.
Less(j, k) == j[1] < k[1] \/ (j[1] = k[1] /\ j[2] < k[2])
AtMost(j, k) == j = k \/ Less(j, k)

\* In the direction of the query.
Before(j, k) == IF req.forward THEN Less(j, k) ELSE Less(k, j)

Token(q, v) == RangeToken(q.type, v)

\* The request is not refused: IsHashOnly says that it has no range value.  A
\* comparison without one panics.  DynamoDB refuses bounds in the wrong order.
Accepted(q) ==
  \/ q.op = "scan"
  \/ /\ ~q.ranged
     /\ q.op # "between" /\ q.value = None /\ q.between = None
  \/ /\ q.ranged
     /\ q.op \in {"lt", "lte", "gt", "gte"} => q.value # None
     /\ q.op = "between" =>
          /\ q.value = None /\ q.between # None
          /\ Token(q, q.between[1]) <= Token(q, q.between[2])

\* Mutant: the least id instead of the greatest.
LowerMut(q) ==
  CASE q.op = "gt" -> <<Token(q, q.value), MinId>>
    [] q.op = "gte" -> <<Token(q, q.value), MinId>>
    [] q.op = "between" -> <<Token(q, q.between[1]), MinId>>
    [] OTHER -> <<0, MinId>>

Lower(q) ==
  CASE q.op = "gt" -> <<Token(q, q.value), MaxId>>
    [] q.op = "gte" -> <<Token(q, q.value), MinId>>
    [] q.op = "between" -> <<Token(q, q.between[1]), MinId>>
    [] OTHER -> <<0, MinId>>

Upper(q) ==
  CASE q.op = "lt" -> <<Token(q, q.value), MinId>>
    [] q.op = "lte" -> <<Token(q, q.value), MaxId>>
    [] q.op = "between" -> <<Token(q, q.between[2]), MaxId>>
    [] OTHER -> <<MaxRange, MaxId>>

\* The key condition.  An index without a range field ignores the operator.
Selects(q, k) ==
  \/ q.op = "scan"
  \/ ~q.ranged
  \/ q.ranged /\ q.op = "eq" /\ (q.value # None => k[1] = Token(q, q.value))
  \/ q.ranged /\ q.op \notin {"eq", "scan"} /\ AtMost(Lower(q), k) /\ AtMost(k, Upper(q))

Table == IF req.op = "scan" THEN {<<0, id>> : id \in {i \in Ids : objects[i] # "none"}} ELSE rows

\* A scan leaves out the deleted objects, a query only those that are gone.
Answerable(k) == IF req.op = "scan" THEN objects[k[2]] = "live" ELSE objects[k[2]] # "none"

SteadyNow == {k \in Table : Answerable(k)}

Init ==
  /\ \E start \in Starts : req = start[1] /\ rows = start[2]
  /\ objects = [id \in Ids |-> "live"]
  /\ changes = 0
  /\ pc = "ask"
  /\ cursor = None
  /\ page = <<>>
  /\ last = None
  /\ left = {}
  /\ found = {}
  /\ answered = <<>>
  /\ steady = SteadyNow

------------------------------------------------------------------------------
(* A page *)

\* Mutant: the row of the token is read again.
CandidatesMut == {k \in Table : Selects(req, k) /\ (cursor = None \/ ~Before(k, cursor))}

\* The rows after the cursor.
Candidates == {k \in Table : Selects(req, k) /\ (cursor = None \/ Before(cursor, k))}

Members(s) == {s[i] : i \in DOMAIN s}

\* DynamoDB's Query: the first of them, up to the limit or to a size that is its
\* own ...
FirstRows ==
  {S \in SUBSET Candidates :
    /\ IsFiniteSet(S)
    /\ \A j \in S, k \in Candidates \ S : Before(j, k)
    /\ S = {} => Candidates = {}
    /\ Cardinality(S) <= MaxPage
    /\ req.limit # 0 => Cardinality(S) <= req.limit}

\* ... in key order ...
InOrder(S) ==
  {s \in [1 .. Cardinality(S) -> S] :
    Members(s) = S /\ \A i, j \in DOMAIN s : i < j => Before(s[i], s[j])}

\* ... and the key of the last one, unless it knows that there is no more.
EndsWith(s, l) ==
  \/ l = None /\ Members(s) = Candidates /\ (req.limit # 0 => Len(s) < req.limit)
  \/ s # <<>> /\ l = s[Len(s)]

\* A page as the client gets it: without the rows whose object is missing.
AsSeen(s, seen) == [i \in 1 .. Len(s) |-> [row |-> s[i], object |-> s[i][2] \in seen]]

\* The client comes back with the token as long as it gets one.
NextPage(l) ==
  /\ cursor' = l
  /\ pc' = IF l = None THEN "done" ELSE "ask"

Refused ==
  /\ pc = "ask"
  /\ ~Accepted(req)
  /\ pc' = "failed"
  /\ UNCHANGED <<req, objects, rows, changes, cursor, page, last, left, found, answered, steady>>

\* QueryIndexes up to the fetch of the objects.
QueryIndexes ==
  /\ pc = "ask"
  /\ Accepted(req)
  /\ req.op # "scan"
  /\ \E S \in FirstRows : \E s \in InOrder(S), l \in S \cup {None} :
       /\ EndsWith(s, l)
       /\ page' = s
       /\ last' = l
       /\ left' = DOMAIN s
  /\ pc' = "fetch"
  /\ UNCHANGED <<req, objects, rows, changes, cursor, found, answered, steady>>

Batch(i) == (i - 1) \div BatchSize

\* DynamoDB takes no key twice in one BatchGetItem.
Distinct(b) ==
  \A i, j \in DOMAIN page :
    i # j /\ Batch(i) = b /\ Batch(j) = b => page[i][2] # page[j][2]

\* Mutant: the UnprocessedKeys are forgotten.
BatchGetItemMut(b) ==
  /\ pc = "fetch"
  /\ Distinct(b)
  /\ \E got \in SUBSET {i \in left : Batch(i) = b} :
       /\ got # {}
       /\ left' = {i \in left : Batch(i) # b}
       /\ found' = found \cup {page[i][2] : i \in {j \in got : objects[page[j][2]] # "none"}}
  /\ UNCHANGED <<req, objects, rows, changes, pc, cursor, page, last, answered, steady>>

\* Mutant: the last row of a page is never asked for.
BatchGetItemMut2(b) ==
  /\ pc = "fetch"
  /\ Distinct(b)
  /\ \E got \in SUBSET {i \in left : Batch(i) = b /\ i < Len(page)} :
       /\ got # {}
       /\ left' = left \ got
       /\ found' = found \cup {page[i][2] : i \in {j \in got : objects[page[j][2]] # "none"}}
  /\ UNCHANGED <<req, objects, rows, changes, pc, cursor, page, last, answered, steady>>

\* One BatchGetItem of one goroutine: some of its keys, the others come back as
\* UnprocessedKeys and are asked for again.
BatchGetItem(b) ==
  /\ pc = "fetch"
  /\ Distinct(b)
  /\ \E got \in SUBSET {i \in left : Batch(i) = b} :
       /\ got # {}
       /\ left' = left \ got
       /\ found' = found \cup {page[i][2] : i \in {j \in got : objects[page[j][2]] # "none"}}
  /\ UNCHANGED <<req, objects, rows, changes, pc, cursor, page, last, answered, steady>>

\* The query fails with its batch.
FailWith(b) ==
  /\ pc = "fetch"
  /\ \E i \in left : Batch(i) = b
  /\ pc' = "failed"
  /\ UNCHANGED <<req, objects, rows, changes, cursor, page, last, left, found, answered, steady>>

\* An object has two rows in the batch, one of them stale.
BatchRefused(b) == ~Distinct(b) /\ FailWith(b)

\* An error of DynamoDB, or the request is cancelled.
BatchFails(b) == FailWith(b)

\* So does an error of the Query itself.
QueryFails ==
  /\ pc = "ask"
  /\ pc' = "failed"
  /\ UNCHANGED <<req, objects, rows, changes, cursor, page, last, left, found, answered, steady>>

\* All batches are back: the objects are put into the order of the rows.
Merge ==
  /\ pc = "fetch"
  /\ left = {}
  /\ answered' = answered \o AsSeen(page, found)
  /\ NextPage(last)
  /\ page' = <<>>
  /\ last' = None
  /\ found' = {}
  /\ UNCHANGED <<req, objects, rows, changes, left, steady>>

\* ScanTable: a page of the objects themselves.  The limit counts the deleted
\* ones, which the filter then leaves out.
ScanTable ==
  /\ pc = "ask"
  /\ req.op = "scan"
  /\ \E S \in FirstRows : \E s \in InOrder(S), l \in S \cup {None} :
       /\ EndsWith(s, l)
       /\ answered' = answered \o AsSeen(s, {id \in Ids : objects[id] = "live"})
       /\ NextPage(l)
  /\ UNCHANGED <<req, objects, rows, changes, page, last, left, found, steady>>

------------------------------------------------------------------------------
(* What others do while the query is under way *)

Changed ==
  /\ pc \in {"ask", "fetch"}
  /\ changes < MaxChanges
  /\ changes' = changes + 1
  /\ UNCHANGED <<req, pc, cursor, page, last, left, found, answered>>
  /\ steady' = steady \cap SteadyNow'

PutRow(k) ==
  /\ k \notin rows
  /\ rows' = rows \cup {k}
  /\ UNCHANGED objects
  /\ Changed

DropRow(k) ==
  /\ k \in rows
  /\ rows' = rows \ {k}
  /\ UNCHANGED objects
  /\ Changed

\* Created, deleted, recovered, purged.
SetObject(id, status) ==
  /\ objects[id] # status
  /\ objects' = [objects EXCEPT ![id] = status]
  /\ UNCHANGED rows
  /\ Changed

Statuses == {"none", "live", "deleted"}

Answering == Refused \/ QueryIndexes \/ Merge \/ ScanTable

Fetching == \E b \in 0 .. MaxPage : BatchGetItem(b) \/ BatchRefused(b)

Failing == QueryFails \/ \E b \in 0 .. MaxPage : BatchFails(b)

Next ==
  \/ Answering
  \/ Fetching
  \/ Failing
  \/ \E k \in Keys : PutRow(k) \/ DropRow(k)
  \/ \E id \in Ids, status \in Statuses : SetObject(id, status)

Spec == Init /\ [][Next]_vars

\* DynamoDB answers, and a BatchGetItem that processed none of its keys is an
\* error; the client comes back.
FairSpec == Spec /\ WF_vars(Answering) /\ WF_vars(Fetching)

------------------------------------------------------------------------------
(* Properties *)

Rows == [row : Keys \cup ScanKeys, object : BOOLEAN]

TypeOK ==
  /\ req \in {start[1] : start \in Starts}
  /\ objects \in [Ids -> Statuses]
  /\ rows \subseteq Keys
  /\ changes \in Nat
  /\ pc \in {"ask", "fetch", "done", "failed"}
  /\ cursor \in Keys \cup ScanKeys \cup {None}
  /\ page \in Seq(Keys)
  /\ last \in Keys \cup {None}
  /\ left \subseteq DOMAIN page
  /\ found \subseteq Ids
  /\ answered \in Seq(Rows)
  /\ steady \subseteq Keys \cup ScanKeys

\* Paging neither repeats a row nor goes back, over all pages and whatever is
\* written between them; and within a page the parallel batches keep its order.
InKeyOrder ==
  \A i, j \in DOMAIN answered : i < j => Before(answered[i].row, answered[j].row)

\* The operators as their names say, on range tokens.
Holds(q, x) ==
  CASE q.op = "eq" -> q.value = None \/ x = Token(q, q.value)
    [] q.op = "lt" -> x < Token(q, q.value)
    [] q.op = "lte" -> x <= Token(q, q.value)
    [] q.op = "gt" -> x > Token(q, q.value)
    [] q.op = "gte" -> x >= Token(q, q.value)
    [] q.op = "between" -> Token(q, q.between[1]) <= x /\ x <= Token(q, q.between[2])

Matches(k) == req.op = "scan" \/ ~req.ranged \/ Holds(req, k[1])

\* A client that follows the tokens to the end is given every object that matched
\* and was there all the time, and nothing that does not match: no page boundary,
\* size limit, filter or unprocessed key loses one.
ExactAnswer ==
  /\ \A i \in DOMAIN answered : Matches(answered[i].row)
  /\ pc = "done" =>
       \A k \in steady : Matches(k) =>
         \E i \in DOMAIN answered : answered[i].row = k /\ answered[i].object

\* The rows the client has been led past.
Passed(k) == pc = "done" \/ (cursor # None /\ ~Before(cursor, k))

\* What has been answered lies behind the cursor, what is being fetched before it, up
\* to its own last key.
Ahead ==
  /\ pc \in {"ask", "fetch"} /\ answered # <<>> =>
       cursor # None /\ \A i \in DOMAIN answered : ~Before(cursor, answered[i].row)
  /\ pc = "fetch" =>
       /\ \A i \in DOMAIN page :
            /\ Selects(req, page[i])
            /\ cursor # None => Before(cursor, page[i])
            /\ last # None => ~Before(last, page[i])
       /\ last # None => \E i \in DOMAIN page : page[i] = last
       /\ \A i, j \in DOMAIN page : i < j => Before(page[i], page[j])

\* No steady row is lost: it is answered once passed, and until then its object is
\* still to be read or found.
NoneLost ==
  /\ steady \subseteq SteadyNow
  /\ \A k \in steady : Accepted(req) /\ Selects(req, k) =>
       /\ Passed(k) => \E i \in DOMAIN answered : answered[i].row = k /\ answered[i].object
       /\ pc = "fetch" /\ ~Passed(k) /\ (last # None => ~Before(last, k)) =>
            \E i \in DOMAIN page : page[i] = k
  /\ \A i \in DOMAIN page : page[i] \in steady /\ i \notin left => page[i][2] \in found

\* Only requests that were accepted get that far.
WasAccepted ==
  /\ pc \in {"fetch", "done"} \/ answered # <<>> => Accepted(req)
  /\ pc = "fetch" => req.op # "scan"
  /\ \A i \in DOMAIN answered : Selects(req, answered[i].row)

\* The inductive invariant: ExactAnswer follows from it.
IInv == TypeOK /\ InKeyOrder /\ Ahead /\ NoneLost /\ WasAccepted

\* The operators on the values themselves.
HoldsOf(q, v) ==
  LET x == Worth(q.type, v)
      b == IF q.value = None THEN None ELSE Worth(q.type, q.value)
  IN CASE q.op = "eq" -> b = None \/ x = b
       [] q.op = "lt" -> x < b
       [] q.op = "lte" -> x <= b
       [] q.op = "gt" -> x > b
       [] q.op = "gte" -> x >= b
       [] q.op = "between" ->
            Worth(q.type, q.between[1]) <= x /\ x <= Worth(q.type, q.between[2])

Bounds(q) == (IF q.value = None THEN {} ELSE {q.value}) \cup
             (IF q.between = None THEN {} ELSE {q.between[1], q.between[2]})

\* The one exception: -0 and +0 are equal and have different tokens.
OtherZero(t, v, w) == t \in {"float32", "float64"} /\ v # w /\ Worth(t, v) = Worth(t, w)

\* What is cut off before encryption costs: half of the bits of a 64-bit number, the
\* fraction of a time's second.  A query with a bound that belongs to the range misses no
\* value of the range; a strict one misses, and the others give too much, only among
\* other values that share a bound's token.
TrueToValues ==
  req.ranged /\ req.op # "scan" /\ Accepted(req) =>
    \A v \in Values(req.type) :
      Normalizable(req.type, v) /\ (\A w \in Bounds(req) : ~OtherZero(req.type, v, w)) =>
        /\ HoldsOf(req, v) /\ req.op \notin {"lt", "gt"} => Holds(req, Token(req, v))
        /\ ~(HoldsOf(req, v) <=> Holds(req, Token(req, v))) =>
             \E w \in Bounds(req) : w # v /\ Token(req, v) = Token(req, w)

\* A client that follows the tokens comes to an end.
TraversalEnds == <>(pc \in {"done", "failed"})

==============================================================================
