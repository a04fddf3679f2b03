----------------------------- MODULE VsockPool -----------------------------
(***************************************************************************)
(* How the API talks to the enclave.  SendToEnclave takes a connection     *)
(* from a pool or dials one, writes one request line, reads one answer     *)
(* line under a deadline, and returns the connection to the pool.  The     *)
(* lines carry no request number: an answer belongs to a request only      *)
(* because it is the next line of the connection.  At the other end        *)
(* handleConnection answers line by line, and writes one more line, which  *)
(* nobody asked for, when it gives up reading.                             *)
(*                                                                         *)
(* The actions of one call are cut where another goroutine, or the         *)
(* enclave, can act in between.                                            *)
(***************************************************************************)
EXTENDS Naturals, Sequences

CONSTANTS
  Calls,      \* calls of SendToEnclave
  LongCalls,  \* those whose request exceeds the scanner's limit on a line
  Conns,      \* connections
  MaxIdle,    \* VsockPool.maxIdle
  Crashes,    \* whether the enclave may crash
  GaveUp,     \* the line "Error reading from connection"
  None        \* no connection, no result

ASSUME PoolAssumption ==
  /\ LongCalls \subseteq Calls
  /\ MaxIdle \in Nat
  /\ Crashes \in BOOLEAN
  /\ GaveUp \notin Calls
  /\ None \notin Calls \cup Conns

ASSUME NameAssumption ==
  \A name \in {"closed", "reading", "unreachable", "broken", "timeout"} : name \notin Calls

VARIABLES
  pc,      \* where each call is
  conn,    \* the connection it holds, or None
  got,     \* its result: a line it read, or how it failed
  idle,    \* VsockPool.idle, the last one in is the first one out
  open,    \* the connections the API has not closed
  enclave, \* per connection "closed", "reading" or the call it works on
  up,      \* per connection the request lines under way to the enclave
  down     \* per connection the lines under way to the API

vars == <<pc, conn, got, idle, open, enclave, up, down>>

Lines == Calls \cup {GaveUp}
Failures == {"unreachable", "broken", "timeout"}
Pooled == {idle[i] : i \in DOMAIN idle}
Busy(c) == enclave[c] \in Calls

Init ==
  /\ pc = [k \in Calls |-> "ready"]
  /\ conn = [k \in Calls |-> None]
  /\ got = [k \in Calls |-> None]
  /\ idle = <<>>
  /\ open = {}
  /\ enclave = [c \in Conns |-> "closed"]
  /\ up = [c \in Conns |-> <<>>]
  /\ down = [c \in Conns |-> <<>>]

------------------------------------------------------------------------------
(* The API.                                                                *)

\* Mutant: the connection stays in the pool.
GetMut(k) ==
  /\ pc[k] = "ready"
  /\ IF idle = <<>>
       THEN /\ pc' = [pc EXCEPT ![k] = "dial"]
            /\ UNCHANGED <<conn, idle>>
       ELSE /\ pc' = [pc EXCEPT ![k] = "write"]
            /\ conn' = [conn EXCEPT ![k] = idle[Len(idle)]]
            /\ UNCHANGED idle
  /\ UNCHANGED <<got, open, enclave, up, down>>

\* VsockPool.Get: the last connection of the pool, if there is one.
Get(k) ==
  /\ pc[k] = "ready"
  /\ IF idle = <<>>
       THEN /\ pc' = [pc EXCEPT ![k] = "dial"]
            /\ UNCHANGED <<conn, idle>>
       ELSE /\ pc' = [pc EXCEPT ![k] = "write"]
            /\ conn' = [conn EXCEPT ![k] = idle[Len(idle)]]
            /\ idle' = SubSeq(idle, 1, Len(idle) - 1)
  /\ UNCHANGED <<got, open, enclave, up, down>>

\* vsock.Dial, after the pool's lock is released; the enclave accepts.
Dial(k) ==
  /\ pc[k] = "dial"
  /\ \E c \in Conns \ open :
       /\ enclave[c] = "closed"
       /\ conn' = [conn EXCEPT ![k] = c]
       /\ open' = open \cup {c}
       /\ enclave' = [enclave EXCEPT ![c] = "reading"]
       /\ up' = [up EXCEPT ![c] = <<>>]
       /\ down' = [down EXCEPT ![c] = <<>>]
  /\ pc' = [pc EXCEPT ![k] = "write"]
  /\ UNCHANGED <<got, idle>>

DialFails(k) ==
  /\ pc[k] = "dial"
  /\ pc' = [pc EXCEPT ![k] = "done"]
  /\ got' = [got EXCEPT ![k] = "unreachable"]
  /\ UNCHANGED <<conn, idle, open, enclave, up, down>>

\* The request is written.  What is written to a connection the enclave has
\* just closed is lost.
Write(k) ==
  /\ pc[k] = "write"
  /\ up' = IF enclave[conn[k]] = "closed"
             THEN up ELSE [up EXCEPT ![conn[k]] = Append(@, k)]
  /\ pc' = [pc EXCEPT ![k] = "wait"]
  /\ UNCHANGED <<conn, got, idle, open, enclave, down>>

\* A line arrives and is the result, whatever it says.
Read(k) ==
  /\ pc[k] = "wait"
  /\ down[conn[k]] # <<>>
  /\ got' = [got EXCEPT ![k] = Head(down[conn[k]])]
  /\ down' = [down EXCEPT ![conn[k]] = Tail(@)]
  /\ pc' = [pc EXCEPT ![k] = "put"]
  /\ UNCHANGED <<conn, idle, open, enclave, up>>

\* Mutant: the call fails without closing its connection.
CloseAndFailMut(k, why) ==
  /\ conn' = [conn EXCEPT ![k] = None]
  /\ got' = [got EXCEPT ![k] = why]
  /\ pc' = [pc EXCEPT ![k] = "done"]
  /\ UNCHANGED <<idle, open, enclave, up, down>>

\* Every failure closes the connection; lines under way to it are lost.
CloseAndFail(k, why) ==
  /\ open' = open \ {conn[k]}
  /\ down' = [down EXCEPT ![conn[k]] = <<>>]
  /\ conn' = [conn EXCEPT ![k] = None]
  /\ got' = [got EXCEPT ![k] = why]
  /\ pc' = [pc EXCEPT ![k] = "done"]
  /\ UNCHANGED <<idle, enclave, up>>

\* Mutant: a call whose connection was closed tries again on a new one.
BrokenMut(k) ==
  /\ pc[k] = "write" \/ (pc[k] = "wait" /\ down[conn[k]] = <<>>)
  /\ enclave[conn[k]] = "closed"
  /\ open' = open \ {conn[k]}
  /\ down' = [down EXCEPT ![conn[k]] = <<>>]
  /\ conn' = [conn EXCEPT ![k] = None]
  /\ pc' = [pc EXCEPT ![k] = "dial"]
  /\ UNCHANGED <<got, idle, enclave, up>>

\* The enclave closed the connection: writing fails, or reading ends.
Broken(k) ==
  /\ pc[k] = "write" \/ (pc[k] = "wait" /\ down[conn[k]] = <<>>)
  /\ enclave[conn[k]] = "closed"
  /\ CloseAndFail(k, "broken")

\* Mutant: the connection goes back to the pool.
TimeoutMut(k) ==
  /\ pc[k] \in {"write", "wait"}
  /\ got' = [got EXCEPT ![k] = "timeout"]
  /\ pc' = [pc EXCEPT ![k] = "put"]
  /\ UNCHANGED <<conn, idle, open, enclave, up, down>>

\* Mutant: no deadline is set, only a closed connection ends the wait.
TimeoutNeverMut(k) ==
  /\ pc[k] \in {"write", "wait"}
  /\ enclave[conn[k]] = "closed"
  /\ CloseAndFail(k, "timeout")

\* The call's deadline passes, or the answer exceeds the scanner's limit.
Timeout(k) ==
  /\ pc[k] \in {"write", "wait"}
  /\ CloseAndFail(k, "timeout")

\* Mutant: the limit is off by one.
PutMut(k) ==
  /\ pc[k] = "put"
  /\ IF Len(idle) > MaxIdle
       THEN /\ open' = open \ {conn[k]}
            /\ down' = [down EXCEPT ![conn[k]] = <<>>]
            /\ UNCHANGED idle
       ELSE /\ idle' = Append(idle, conn[k])
            /\ UNCHANGED <<open, down>>
  /\ conn' = [conn EXCEPT ![k] = None]
  /\ pc' = [pc EXCEPT ![k] = "done"]
  /\ UNCHANGED <<got, enclave, up>>

\* VsockPool.Put: the connection is pooled, or closed when the pool is full.
Put(k) ==
  /\ pc[k] = "put"
  /\ IF Len(idle) >= MaxIdle
       THEN /\ open' = open \ {conn[k]}
            /\ down' = [down EXCEPT ![conn[k]] = <<>>]
            /\ UNCHANGED idle
       ELSE /\ idle' = Append(idle, conn[k])
            /\ UNCHANGED <<open, down>>
  /\ conn' = [conn EXCEPT ![k] = None]
  /\ pc' = [pc EXCEPT ![k] = "done"]
  /\ UNCHANGED <<got, enclave, up>>

------------------------------------------------------------------------------
(* The enclave.                                                            *)

\* What the enclave writes to a connection the API has closed is lost.
Send(c, line) ==
  down' = IF c \in open THEN [down EXCEPT ![c] = Append(@, line)] ELSE down

\* The scanner returns a request line.
Serve(c) ==
  /\ enclave[c] = "reading"
  /\ up[c] # <<>>
  /\ Head(up[c]) \notin LongCalls
  /\ enclave' = [enclave EXCEPT ![c] = Head(up[c])]
  /\ up' = [up EXCEPT ![c] = Tail(@)]
  /\ UNCHANGED <<pc, conn, got, idle, open, down>>

\* The handler answers, once, with a response or an error.
Answer(c) ==
  /\ Busy(c)
  /\ Send(c, enclave[c])
  /\ enclave' = [enclave EXCEPT ![c] = "reading"]
  /\ UNCHANGED <<pc, conn, got, idle, open, up>>

\* Mutant: the loop goes on after the error line.
GiveUpMut(c) ==
  /\ Send(c, GaveUp)
  /\ up' = [up EXCEPT ![c] = <<>>]
  /\ UNCHANGED <<pc, conn, got, idle, open, enclave>>

\* The scanner fails, which is reported as one more line.
GiveUp(c) ==
  /\ Send(c, GaveUp)
  /\ enclave' = [enclave EXCEPT ![c] = "closed"]
  /\ up' = [up EXCEPT ![c] = <<>>]
  /\ UNCHANGED <<pc, conn, got, idle, open>>

\* Five minutes without a request.  Callers wait for 30 seconds at most, so the
\* connection spent them in the pool; a call may just have taken it out, and its
\* request be under way.
IdleTimeout(c) ==
  /\ enclave[c] = "reading"
  /\ down[c] = <<>>
  /\ c \in Pooled \/ \E k \in Calls : conn[k] = c /\ pc[k] \in {"write", "wait"}
  /\ GiveUp(c)

\* A request line the scanner cannot hold.
LineTooLong(c) ==
  /\ enclave[c] = "reading"
  /\ up[c] # <<>>
  /\ Head(up[c]) \in LongCalls
  /\ GiveUp(c)

\* The API closed the connection and all its lines are served.
EndOfFile(c) ==
  /\ enclave[c] = "reading"
  /\ c \notin open
  /\ up[c] = <<>>
  /\ enclave' = [enclave EXCEPT ![c] = "closed"]
  /\ UNCHANGED <<pc, conn, got, idle, open, up, down>>

\* The enclave crashes and starts again; lines it had sent may be lost.
Crash ==
  /\ Crashes
  /\ \E c \in Conns : enclave[c] # "closed"
  /\ enclave' = [c \in Conns |-> "closed"]
  /\ up' = [c \in Conns |-> <<>>]
  /\ \E lost \in SUBSET Conns :
       down' = [c \in Conns |-> IF c \in lost THEN <<>> ELSE down[c]]
  /\ UNCHANGED <<pc, conn, got, idle, open>>

------------------------------------------------------------------------------

\* What SendToEnclave does on its own after it was called.
Proceed(k) ==
  \/ Dial(k) \/ DialFails(k) \/ Write(k) \/ Read(k)
  \/ Broken(k) \/ Timeout(k) \/ Put(k)

Next ==
  \/ \E k \in Calls : Get(k) \/ Proceed(k)
  \/ \E c \in Conns :
       Serve(c) \/ Answer(c) \/ IdleTimeout(c) \/ LineTooLong(c) \/ EndOfFile(c)
  \/ Crash

Spec == Init /\ [][Next]_vars

\* A goroutine that is not blocked runs, and deadlines end every blocking
\* read and write.  Nothing is assumed of the enclave.
FairSpec == Spec /\ \A k \in Calls : WF_vars(Proceed(k))

------------------------------------------------------------------------------

\* The shapes of the variables; the pool keeps to its limit.
TypeOK ==
  /\ pc \in [Calls -> {"ready", "dial", "write", "wait", "put", "done"}]
  /\ conn \in [Calls -> Conns \cup {None}]
  /\ got \in [Calls -> Lines \cup Failures \cup {None}]
  /\ idle \in Seq(Conns)
  /\ Len(idle) <= MaxIdle
  /\ open \subseteq Conns
  /\ enclave \in [Conns -> Calls \cup {"closed", "reading"}]
  /\ up \in [Conns -> Seq(Calls)]
  /\ down \in [Conns -> Seq(Lines)]

\* No request is under way, and no answer.
Quiet(c) ==
  /\ up[c] = <<>>
  /\ enclave[c] \in {"reading", "closed"}
  /\ down[c] # <<>> => down[c] = <<GaveUp>> /\ enclave[c] = "closed"

\* The request of k is under way, or in the enclave, or answered, or lost.
Asked(c, k) ==
  \/ up[c] = <<k>> /\ enclave[c] = "reading" /\ down[c] = <<>>
  \/ up[c] = <<>> /\ enclave[c] = k /\ down[c] = <<>>
  \/ up[c] = <<>> /\ enclave[c] = "reading" /\ down[c] = <<k>>
  \/ up[c] = <<>> /\ enclave[c] = "closed" /\ down[c] \in {<<>>, <<k>>, <<GaveUp>>}

\* Between calls a connection carries nothing but the enclave's last line, and
\* during a call that call's request or its answer (SendToEnclave closes a
\* connection on every failure, handleConnection when it stops reading).
InSync ==
  /\ \A c \in Pooled : Quiet(c)
  /\ \A k \in Calls : pc[k] \in {"write", "put"} => Quiet(conn[k])
  /\ \A k \in Calls : pc[k] = "wait" => Asked(conn[k], k)

\* No answer is given to another request, however late it comes: a call
\* that got an answer got its own (SendToEnclave matches them by order only).
AnswerIsOwn == \A k \in Calls : got[k] \in Calls => got[k] = k

\* No connection is used by two calls, used and pooled, or pooled twice, and
\* what is used or pooled is open (Get and Put).
OneUser ==
  /\ \A k \in Calls : conn[k] # None => conn[k] \in open \ Pooled
  /\ \A k, l \in Calls : conn[k] = conn[l] /\ conn[k] # None => k = l
  /\ \A i, j \in DOMAIN idle : idle[i] = idle[j] => i = j
  /\ Pooled \subseteq open

\* No connection leaks: every connection the API has open is in the pool or in
\* use by a call (each of SendToEnclave's returns closes or returns it).
NoLeak == open \subseteq Pooled \cup {conn[k] : k \in Calls}

\* Every call returns, though the enclave may never answer.
Returned == \A k \in Calls : pc[k] # "ready" ~> pc[k] = "done"

------------------------------------------------------------------------------
(* The calls without their connections.                                    *)

NotSent(k) == pc[k] \in {"ready", "dial", "write"}

\* Where the request of k is.  An answer counts while its call waits for it.
Stage(k) ==
  IF NotSent(k) THEN "unsent"
  ELSE IF \E c \in Conns : up[c] = <<k>> THEN "sent"
  ELSE IF \E c \in Conns : enclave[c] = k THEN "running"
  ELSE IF pc[k] = "wait" /\ down[conn[k]] = <<k>> THEN "answered"
  ELSE IF pc[k] = "wait" /\ down[conn[k]] = <<GaveUp>> THEN "refused"
  ELSE "gone"

Stages == [k \in Calls |-> Stage(k)]

Promise == INSTANCE EnclaveCalls WITH request <- Stages, result <- got

\* The calls over pooled connections are calls that are executed at most once
\* and answered by their own execution, and a caller who is told that the
\* enclave gave up reading knows that it was not executed (SendToEnclave never
\* sends again, handleConnection takes and answers a line once).
ImplementsEnclaveCalls == Promise!Spec

==============================================================================
