-------------------------- MODULE VersionedObjects --------------------------
(***************************************************************************)
(* What the objects API promises, whatever happens between its calls to    *)
(* AWS: every object is a register with a version, each write applies to   *)
(* the register as it stands and moves it to the next version, and every   *)
(* write is answered with success at most once, after it took effect.      *)
(***************************************************************************)
EXTENDS Naturals

CONSTANTS ObjectIds, Payloads, MaxVersion, None

VARIABLES
  store,    \* id -> None or [version, deleted, inline, large, dek]
  pending,  \* writes that took effect and are not answered: <<id, version, payload>>
  acks      \* writes answered with success and not purged since

vars == <<store, pending, acks>>

Versions == 1 .. MaxVersion

Init ==
  /\ store = [id \in ObjectIds |-> None]
  /\ pending = {}
  /\ acks = {}

\* The write of payload p makes version v of the object.
Written(id, v, p) ==
  /\ \A q \in Payloads : <<id, v, q>> \notin pending \cup acks
  /\ pending' = pending \cup {<<id, v, p>>}
  /\ UNCHANGED acks

Item(v, p, inline, large) ==
  [version |-> v, deleted |-> FALSE, dek |-> p, inline |-> inline, large |-> large]

Create(id, p, big) ==
  /\ store[id] = None
  /\ store' = [store EXCEPT ![id] =
       Item(1, p, IF big THEN None ELSE p, IF big THEN 1 ELSE 0)]
  /\ Written(id, 1, p)

Writable(id) == store[id] # None /\ ~store[id].deleted /\ store[id].version < MaxVersion

\* Replaces the data inline.
Put(id, p) ==
  /\ Writable(id)
  /\ store' = [store EXCEPT ![id] = Item(@.version + 1, p, p, 0)]
  /\ Written(id, store[id].version + 1, p)

\* Replaces the data by the blob uploaded for the next version.
Confirm(id, p) ==
  /\ Writable(id)
  /\ store' = [store EXCEPT ![id] = Item(@.version + 1, p, @.inline, @.version + 1)]
  /\ Written(id, store[id].version + 1, p)

Marked(r, d) == [version |-> r.version + 1, deleted |-> d, dek |-> r.dek,
                 inline |-> r.inline, large |-> r.large]

\* Deletes a live object, and makes a deleted one live again; the data stays.
Delete(id) ==
  /\ Writable(id)
  /\ store' = [store EXCEPT ![id] = Marked(@, TRUE)]
  /\ UNCHANGED <<pending, acks>>

Recover(id) ==
  /\ store[id] # None
  /\ store[id].deleted
  /\ store[id].version < MaxVersion
  /\ store' = [store EXCEPT ![id] = Marked(@, FALSE)]
  /\ UNCHANGED <<pending, acks>>

\* A deleted object is removed for good.
Purge(id) ==
  /\ store[id] # None
  /\ store[id].deleted
  /\ \A m \in pending : m[1] # id
  /\ store' = [store EXCEPT ![id] = None]
  /\ acks' = {a \in acks : a[1] # id}
  /\ UNCHANGED pending

Answer(m) ==
  /\ m \in pending
  /\ pending' = pending \ {m}
  /\ acks' = acks \cup {m}
  /\ UNCHANGED store

\* The write stays, its client never hears of it.
Lose(m) ==
  /\ m \in pending
  /\ pending' = pending \ {m}
  /\ UNCHANGED <<store, acks>>

Next ==
  \/ \E id \in ObjectIds, p \in Payloads :
       \/ \E big \in BOOLEAN : Create(id, p, big)
       \/ Put(id, p)
       \/ Confirm(id, p)
  \/ \E id \in ObjectIds : Delete(id) \/ Recover(id) \/ Purge(id)
  \/ \E m \in ObjectIds \X Versions \X Payloads : Answer(m) \/ Lose(m)

Spec == Init /\ [][Next]_vars

==============================================================================
