----------------------------- MODULE RateLimit -----------------------------
(***************************************************************************)
(* RateLimitMiddleware: the window of request times it keeps for a client  *)
(* address, and the requests of one address that pass through it.  (The    *)
(* windows of different addresses have nothing in common but the mutex.)   *)
(* A request reads the clock before it takes the lock, so requests may     *)
(* enter the window in another order than their times.                     *)
(***************************************************************************)
EXTENDS Integers, FiniteSets

CONSTANTS
  Requests,
  Window,       \* time.Minute
  Limit,        \* 1000
  MaxDelay,     \* bound of the time between reading the clock and locking
  MaxTime       \* bound of the clock

ASSUME RateAssumption ==
  /\ IsFiniteSet(Requests)
  /\ Window \in Nat \ {0} /\ Limit \in Nat \ {0}
  /\ MaxDelay \in Nat /\ MaxTime \in Nat

VARIABLES
  now,          \* the clock
  pc,           \* "idle", "stamped", then "admitted" or "rejected"
  stamp,        \* the time each request has read
  window        \* clients[clientIP]: the requests whose times are in the list

vars == <<now, pc, stamp, window>>

Init ==
  /\ now = 0
  /\ pc = [r \in Requests |-> "idle"]
  /\ stamp = [r \in Requests |-> 0]
  /\ window = {}

Stamped(r) == pc[r] # "idle"
Admitted(r) == pc[r] = "admitted"
Entered(r) == pc[r] \in {"admitted", "rejected"}

\* now := time.Now()
Stamp(r) ==
  /\ pc[r] = "idle"
  /\ pc' = [pc EXCEPT ![r] = "stamped"]
  /\ stamp' = [stamp EXCEPT ![r] = now]
  /\ UNCHANGED <<now, window>>

\* Mutant: the last instant of the minute is forgotten.
ValidForMut(r) == {q \in window : stamp[r] - stamp[q] < Window - 1}

\* Mutant: nothing is ever forgotten.
ValidForMut2(r) == window

\* The times that are less than a minute before the request's own, or after it.
ValidFor(r) == {q \in window : stamp[r] - stamp[q] < Window}

\* Mutant: the request is counted before it is added.
EnterMut(r) ==
  /\ pc[r] = "stamped"
  /\ window' = ValidFor(r) \cup {r}
  /\ pc' = [pc EXCEPT ![r] =
       IF Cardinality(ValidFor(r)) > Limit THEN "rejected" ELSE "admitted"]
  /\ UNCHANGED <<now, stamp>>

\* Under the lock: drop old times, add its own, count.  A rejected request counts
\* too, against those that follow.
Enter(r) ==
  /\ pc[r] = "stamped"
  /\ window' = ValidFor(r) \cup {r}
  /\ pc' = [pc EXCEPT ![r] =
       IF Cardinality(window') > Limit THEN "rejected" ELSE "admitted"]
  /\ UNCHANGED <<now, stamp>>

Tick ==
  /\ now < MaxTime
  /\ \A r \in Requests : pc[r] = "stamped" => now - stamp[r] < MaxDelay
  /\ now' = now + 1
  /\ UNCHANGED <<pc, stamp, window>>

Next ==
  \/ \E r \in Requests : Stamp(r) \/ Enter(r)
  \/ Tick

Spec == Init /\ [][Next]_vars

------------------------------------------------------------------------------
(* Properties *)

TypeOK ==
  /\ now \in Nat
  /\ pc \in [Requests -> {"idle", "stamped", "admitted", "rejected"}]
  /\ stamp \in [Requests -> Nat]
  /\ window \subseteq Requests

\* Of the requests that came in the last minute no more than the limit were
\* admitted, in whatever order they got the lock.
LastMinuteLimited ==
  Cardinality({r \in Requests : Admitted(r) /\ now - stamp[r] < Window}) <= Limit

\* The same holds of every period of the past, if it is shorter than a minute by
\* the time a request may wait for the lock.  Of a whole minute it does not hold: a
\* request that waits finds the window without the times that later ones dropped.
EveryPeriodLimited ==
  \A t \in 0 .. now :
    Cardinality({r \in Requests :
      Admitted(r) /\ t <= stamp[r] /\ stamp[r] < t + Window - MaxDelay}) <= Limit

\* A request is rejected only if the client made as many others as it may, since a
\* minute before; in particular a client that pauses for a minute is served again.
RejectedWhenBusy ==
  \A r \in Requests :
    pc[r] = "rejected" =>
      Cardinality({q \in Requests \ {r} : Stamped(q) /\ stamp[r] - stamp[q] < Window}) >= Limit

------------------------------------------------------------------------------
(* The inductive invariant *)

\* A time that has entered the window and is no longer there was dropped for the
\* sake of a request a minute younger, which has entered too.
DroppedForYounger ==
  \A q \in Requests :
    Entered(q) => q \in window \/ \E p \in Requests : Entered(p) /\ stamp[p] - stamp[q] >= Window

\* Times are past, and a request that waits for the lock has read it lately.
TimesPast ==
  \A r \in Requests :
    /\ stamp[r] <= now
    /\ pc[r] = "stamped" => now - stamp[r] <= MaxDelay
    /\ r \in window => Entered(r)

IInv ==
  /\ TypeOK /\ DroppedForYounger /\ TimesPast
  /\ LastMinuteLimited /\ EveryPeriodLimited /\ RejectedWhenBusy

==============================================================================
