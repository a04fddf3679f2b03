---------------------------- MODULE CreateRetry ----------------------------
(***************************************************************************)
(* The transaction of CreateObjectWithIndexes, its retry loop and what     *)
(* DynamoDB answers: several requests create one object, as a client does  *)
(* that confirms its upload again because it heard nothing the first time. *)
(***************************************************************************)
CONSTANTS
  Workers,      \* the requests that create the object
  None          \* no object

ASSUME RetryAssumption == None \notin Workers

VARIABLES
  stored,      \* the request whose object and rows are in the tables, or None
  pc,          \* "call", "retry" (asleep before its next attempt) or "done"
  answer,      \* "none", then "ok" or "error"
  cancelled,   \* the requests whose context is cancelled: their client has hung up
  lost         \* history: requests whose write took effect and whose reply was lost

vars == <<stored, pc, answer, cancelled, lost>>

Init ==
  /\ stored = None
  /\ pc = [w \in Workers |-> "call"]
  /\ answer = [w \in Workers |-> "none"]
  /\ cancelled = {}
  /\ lost = {}

\* Mutant: items are put without attribute_not_exists.
AbsentMut == TRUE

\* attribute_not_exists, of the object and of its rows.
Absent == stored = None

Return(w, a) ==
  /\ pc' = [pc EXCEPT ![w] = "done"]
  /\ answer' = [answer EXCEPT ![w] = a]

------------------------------------------------------------------------------

\* The client hangs up: no later call under this context succeeds.
Cancel(w) ==
  /\ pc[w] # "done"
  /\ w \notin cancelled
  /\ cancelled' = cancelled \cup {w}
  /\ UNCHANGED <<stored, pc, answer, lost>>

\* The first attempt succeeds.
CallCommits(w) ==
  /\ pc[w] = "call"
  /\ w \notin cancelled
  /\ Absent
  /\ stored' = w
  /\ Return(w, "ok")
  /\ UNCHANGED <<cancelled, lost>>

\* It fails: a condition does not hold (TransactionCanceledException, which is
\* not the ConditionalCheckFailedException the code looks for), the service
\* errs, or the context is cancelled.
CallFails(w) ==
  /\ pc[w] = "call"
  /\ Return(w, "error")
  /\ UNCHANGED <<stored, cancelled, lost>>

\* It takes effect, and the reply is lost, or the context cancelled meanwhile.
CallIsLost(w) ==
  /\ pc[w] = "call"
  /\ Absent
  /\ stored' = w
  /\ lost' = lost \cup {w}
  /\ Return(w, "error")
  /\ UNCHANGED cancelled

\* It is throttled: ProvisionedThroughputExceededException.
CallThrottled(w) ==
  /\ pc[w] = "call"
  /\ w \notin cancelled
  /\ pc' = [pc EXCEPT ![w] = "retry"]
  /\ UNCHANGED <<stored, answer, cancelled, lost>>

\* Mutant: the error of the first attempt is returned though the retry succeeded.
RetryCommitsErrorMut(w) ==
  /\ pc[w] = "retry"
  /\ w \notin cancelled
  /\ Absent
  /\ stored' = w
  /\ Return(w, "error")
  /\ UNCHANGED <<cancelled, lost>>

\* An attempt in the loop succeeds.
RetryCommits(w) ==
  /\ pc[w] = "retry"
  /\ w \notin cancelled
  /\ Absent
  /\ stored' = w
  /\ Return(w, "ok")
  /\ UNCHANGED <<cancelled, lost>>

\* It fails for whatever reason, perhaps after it took effect.  The loop sleeps,
\* whether or not the context is cancelled, and tries again: its condition is
\* retryCount < maxRetries, and nothing ever increments retryCount, so only
\* success gets out of it.
RetryFails(w) ==
  /\ pc[w] = "retry"
  /\ \/ UNCHANGED <<stored, lost>>
     \/ Absent /\ stored' = w /\ lost' = lost \cup {w}
  /\ UNCHANGED <<pc, answer, cancelled>>

Step(w) ==
  \/ CallCommits(w) \/ CallFails(w) \/ CallIsLost(w) \/ CallThrottled(w)
  \/ RetryCommits(w) \/ RetryFails(w)

Next == \E w \in Workers : Step(w) \/ Cancel(w)

\* A goroutine is scheduled: its call returns, its sleep ends.
Spec == Init /\ [][Next]_vars /\ \A w \in Workers : WF_vars(Step(w))

\* And the throttling does not last: an attempt that can succeed at last does.
LuckySpec == Spec /\ \A w \in Workers : SF_vars(RetryCommits(w))

------------------------------------------------------------------------------
(* Properties *)

TypeOK ==
  /\ stored \in Workers \cup {None}
  /\ pc \in [Workers -> {"call", "retry", "done"}]
  /\ answer \in [Workers -> {"ok", "error", "none"}]
  /\ cancelled \subseteq Workers
  /\ lost \subseteq Workers

\* Of all requests that create the object one is told that it did, and it is
\* told the truth: the object in the table is its own, with its own DEK and rows.
OkIsMine == \A w \in Workers : answer[w] = "ok" => stored = w

\* A request that is told it failed has created nothing, unless the reply to its
\* first attempt was lost: an error after a throttled attempt never hides an
\* object that a retry made.
ErrorMeansLost == \A w \in Workers : answer[w] = "error" /\ stored = w => w \in lost

\* A create in its loop that cannot succeed any more: its object is there, by another
\* request or by an attempt of its own whose reply was lost, or its client is gone.
Hopeless(w) == pc[w] = "retry" /\ (stored # None \/ w \in cancelled)

------------------------------------------------------------------------------
(* What the comments promise, and the code breaks *)

\* "const maxRetries = 3" (dynamo.go:150) and "Returns an error if any DynamoDB operation
\* fails" (dynamo.go:92): a create that was throttled comes out of its loop.  It does not
\* once it is hopeless, even if an attempt that can succeed at last does.
CreateReturns == \A w \in Workers : pc[w] = "retry" ~> pc[w] = "done"

==============================================================================
