------------------------- MODULE CreateRetryProofs -------------------------
(* Proofs about CreateRetry, for any number of requests and retries. *)
EXTENDS CreateRetry, TLAPS

\* A request whose object is stored is not making its first attempt; it answers,
\* or it is in its loop because the reply was lost.
MineIsAnswered ==
  \A w \in Workers : stored = w => pc[w] = "done" \/ (pc[w] = "retry" /\ w \in lost)

\* Requests answer when they are done.
AnsweredWhenDone == \A w \in Workers : pc[w] # "done" => answer[w] = "none"

Inv == TypeOK /\ OkIsMine /\ ErrorMeansLost /\ MineIsAnswered /\ AnsweredWhenDone

LEMMA InvInit == Init => Inv
BY RetryAssumption DEF Init, Inv, TypeOK, OkIsMine, ErrorMeansLost, MineIsAnswered, AnsweredWhenDone

LEMMA InvStep ==
  ASSUME Inv, [Next]_vars
  PROVE  Inv'
<1> USE RetryAssumption DEF Inv, TypeOK, OkIsMine, ErrorMeansLost, MineIsAnswered, AnsweredWhenDone
<1>1. ASSUME NEW w \in Workers, CallCommits(w) \/ CallFails(w) \/ CallIsLost(w)
      PROVE  Inv'
  BY <1>1 DEF CallCommits, CallFails, CallIsLost, Return, Absent
<1>2. ASSUME NEW w \in Workers, CallThrottled(w)
      PROVE  Inv'
  BY <1>2 DEF CallThrottled
<1>3. ASSUME NEW w \in Workers, RetryCommits(w)
      PROVE  Inv'
  BY <1>3 DEF RetryCommits, Return, Absent
<1>4. ASSUME NEW w \in Workers, RetryFails(w)
      PROVE  Inv'
  BY <1>4 DEF RetryFails, Absent
<1>5. ASSUME NEW w \in Workers, Cancel(w)
      PROVE  Inv'
  BY <1>5 DEF Cancel
<1>6. CASE UNCHANGED vars
  BY <1>6 DEF vars
<1> QED
  BY <1>1, <1>2, <1>3, <1>4, <1>5, <1>6 DEF Next, Step

\* Requests and object stay what they are.
THEOREM CreateTypeCorrect == Spec => []TypeOK
<1>1. Inv => TypeOK
  BY DEF Inv
<1> QED
  BY <1>1, InvInit, InvStep, PTL DEF Spec

\* A request that is told it created the object did.
THEOREM OkIsTrue == Spec => []OkIsMine
<1>1. Inv => OkIsMine
  BY DEF Inv
<1> QED
  BY <1>1, InvInit, InvStep, PTL DEF Spec

\* A request that is told it failed did not create the object, or its reply was lost.
THEOREM ErrorsAreTrue == Spec => []ErrorMeansLost
<1>1. Inv => ErrorMeansLost
  BY DEF Inv
<1> QED
  BY <1>1, InvInit, InvStep, PTL DEF Spec

\* Why CreateReturns fails: a create that is caught in its loop stays there for good, by
\* whatever others do and for however long (the loop of dynamo.go:152 has no other exit
\* than success).
THEOREM HopelessForGood == Spec => [][\A w \in Workers : Hopeless(w) => Hopeless(w)']_vars
<1>1. ASSUME Inv, Next, NEW w \in Workers, Hopeless(w)
      PROVE  Hopeless(w)'
  <2> USE RetryAssumption DEF Inv, TypeOK, Hopeless
  <2>1. ASSUME NEW u \in Workers, Step(u)
        PROVE  Hopeless(w)'
    BY <1>1, <2>1 DEF Step, CallCommits, CallFails, CallIsLost, CallThrottled, RetryCommits,
       RetryFails, Return, Absent
  <2>2. ASSUME NEW u \in Workers, Cancel(u)
        PROVE  Hopeless(w)'
    BY <1>1, <2>2 DEF Cancel
  <2> QED
    BY <1>1, <2>1, <2>2 DEF Next
<1>2. Inv /\ [Next]_vars => [\A w \in Workers : Hopeless(w) => Hopeless(w)']_vars
  BY <1>1
<1> QED
  BY <1>2, InvInit, InvStep, PTL DEF Spec

==============================================================================
