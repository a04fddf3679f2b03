---------------------------- MODULE EnclaveCalls ----------------------------
(***************************************************************************)
(* What SendToEnclave promises its callers, without connections: every     *)
(* call's request goes once through the stages of being unsent, sent,      *)
(* running in the enclave and answered, or is lost on the way.  The result *)
(* is the answer of the call's own execution, or a failure.  A call that   *)
(* could not dial, or that is told the enclave gave up reading, was never  *)
(* executed; one that timed out or lost its connection may have been, and  *)
(* may still be, but never twice.                                          *)
(***************************************************************************)

CONSTANTS Calls, LongCalls, GaveUp, None

VARIABLES
  request,  \* call -> the stage its request is in
  result    \* call -> None, its own name (an answer), GaveUp or a failure

vars == <<request, result>>

Init ==
  /\ request = [k \in Calls |-> "unsent"]
  /\ result = [k \in Calls |-> None]

Move(k, from, to) ==
  /\ request[k] \in from
  /\ \E stage \in to : request' = [request EXCEPT ![k] = stage]

Return(k, value) ==
  /\ result[k] = None
  /\ result' = [result EXCEPT ![k] = value]

\* The request leaves; it may be lost at once, or the enclave have stopped reading.
Send(k) == Move(k, {"unsent"}, {"sent", "refused", "gone"}) /\ UNCHANGED result

\* The enclave gives up reading before it has the request.
Refuse(k) == Move(k, {"sent"}, {"refused", "gone"}) /\ UNCHANGED result

\* The enclave executes the request, and ends with an answer or with none that
\* can still be read.
Start(k) == k \notin LongCalls /\ Move(k, {"sent"}, {"running"}) /\ UNCHANGED result
Finish(k) == Move(k, {"running"}, {"answered", "gone"}) /\ UNCHANGED result

\* Requests and answers are lost when the enclave crashes.
Lose ==
  /\ \E lost \in SUBSET {k \in Calls : request[k] # "unsent"} :
       request' = [k \in Calls |-> IF k \in lost THEN "gone" ELSE request[k]]
  /\ UNCHANGED result

Deliver(k) == Move(k, {"answered"}, {"gone"}) /\ Return(k, k)
Refused(k) == Move(k, {"refused"}, {"gone"}) /\ Return(k, GaveUp)

\* No connection.  The request is never sent.
Unreachable(k) == Move(k, {"unsent"}, {"gone"}) /\ Return(k, "unreachable")

\* The connection ended with nothing to read.
Broken(k) == Move(k, {"unsent", "gone"}, {"gone"}) /\ Return(k, "broken")

\* The deadline passes.  A request the enclave has, or will get, stays there.
Timeout(k) ==
  /\ \/ Move(k, {"unsent", "answered", "refused", "gone"}, {"gone"})
     \/ request[k] \in {"sent", "running"} /\ UNCHANGED request
  /\ Return(k, "timeout")

Next ==
  \/ \E k \in Calls :
       \/ Send(k) \/ Refuse(k) \/ Start(k) \/ Finish(k)
       \/ Deliver(k) \/ Refused(k) \/ Unreachable(k) \/ Broken(k) \/ Timeout(k)
  \/ Lose

Spec == Init /\ [][Next]_vars

=============================================================================
