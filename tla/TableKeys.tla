----------------------------- MODULE TableKeys -----------------------------
(***************************************************************************)
(* The index key (IEK) of one table.  Clients encrypt the values they      *)
(* index, and those they query for, under it, so all of them have to hold  *)
(* the same one.  HandleSessionGenerateDEK and HandleSessionGetTableIEK    *)
(* both get it from the table-configs table of DynamoDB and make it there  *)
(* when it is missing; they differ in nothing else that touches it.        *)
(*                                                                         *)
(* A key stands for its plaintext: wrapped by KMS for the table, for the   *)
(* enclave's attestation, or sealed for a client's session, it is the      *)
(* same key.                                                               *)
(***************************************************************************)
EXTENDS Naturals

CONSTANTS
  Workers,  \* concurrent requests
  Keys,     \* the keys KMS can generate
  Lag,      \* whether GetItem (no ConsistentRead) may read a copy that lags
  None      \* no key

ASSUME KeyAssumption == None \notin Keys /\ Lag \in BOOLEAN

VARIABLES
  table,   \* the KMS-wrapped IEK of the table's config, or None
  copy,    \* a copy of it that lags
  drawn,   \* the keys KMS has generated
  pc,      \* where each request is
  iek,     \* the key it carries
  stored,  \* history: the keys that were written to the table
  handed   \* history: the keys that reached a client

vars == <<table, copy, drawn, pc, iek, stored, handed>>

Init ==
  /\ table = None
  /\ copy = None
  /\ drawn = {}
  /\ pc = [w \in Workers |-> "idle"]
  /\ iek = [w \in Workers |-> None]
  /\ stored = {}
  /\ handed = {}

Goto(w, label, k) ==
  /\ pc' = [pc EXCEPT ![w] = label]
  /\ iek' = [iek EXCEPT ![w] = k]

------------------------------------------------------------------------------

\* Mutant: the table is not looked at.
GetWrappedTableIEKMut(w) ==
  /\ pc[w] = "idle"
  /\ Goto(w, "generate", None)
  /\ UNCHANGED <<table, copy, drawn, stored, handed>>

\* GetWrappedTableIEK, of the table or of the copy.  A key that is there is
\* decrypted by KMS for the enclave; a missing one is to be generated.
GetWrappedTableIEK(w) ==
  /\ pc[w] = "idle"
  /\ \E k \in IF Lag THEN {table, copy} ELSE {table} :
       IF k = None THEN Goto(w, "generate", None) ELSE Goto(w, "prepare", k)
  /\ UNCHANGED <<table, copy, drawn, stored, handed>>

\* Mutant: the enclave is sent the new key first, and the table after that.
GenerateDataKeyMut(w) ==
  /\ pc[w] = "generate"
  /\ \E k \in Keys \ drawn :
       /\ drawn' = drawn \cup {k}
       /\ Goto(w, "prepare", k)
  /\ UNCHANGED <<table, copy, stored, handed>>

\* KMS.GenerateDataKey: a key nobody has seen.
GenerateDataKey(w) ==
  /\ pc[w] = "generate"
  /\ \E k \in Keys \ drawn :
       /\ drawn' = drawn \cup {k}
       /\ Goto(w, "store", k)
  /\ UNCHANGED <<table, copy, stored, handed>>

\* SetWrappedTableIEK: a PutItem without a condition.
SetWrappedTableIEK(w) ==
  /\ pc[w] = "store"
  /\ table' = iek[w]
  /\ stored' = stored \cup {iek[w]}
  /\ Goto(w, "prepare", iek[w])
  /\ UNCHANGED <<copy, drawn, handed>>

\* The enclave seals the key for the session, and the client gets it.
PrepareIEK(w) ==
  /\ pc[w] = "prepare"
  /\ handed' = handed \cup {iek[w]}
  /\ Goto(w, "idle", None)
  /\ UNCHANGED <<table, copy, drawn, stored>>

\* KMS, DynamoDB or the enclave answers with an error, the session is unknown,
\* or the server dies.  The key may have been generated, and stored, already.
Fail(w) ==
  /\ pc[w] # "idle"
  /\ Goto(w, "idle", None)
  /\ UNCHANGED <<table, copy, drawn, stored, handed>>

\* The copy catches up.
CopySync ==
  /\ Lag
  /\ copy # table
  /\ copy' = table
  /\ UNCHANGED <<table, drawn, pc, iek, stored, handed>>

Next ==
  \/ \E w \in Workers :
       \/ GetWrappedTableIEK(w)
       \/ GenerateDataKey(w)
       \/ SetWrappedTableIEK(w)
       \/ PrepareIEK(w)
       \/ Fail(w)
  \/ CopySync

Spec == Init /\ [][Next]_vars

------------------------------------------------------------------------------
(* Properties *)

TypeOK ==
  /\ table \in Keys \cup {None}
  /\ copy \in Keys \cup {None}
  /\ drawn \subseteq Keys
  /\ pc \in [Workers -> {"idle", "generate", "store", "prepare"}]
  /\ iek \in [Workers -> Keys \cup {None}]
  /\ stored \subseteq Keys
  /\ handed \subseteq Keys

\* No client holds a key that was never in the table: whatever fails between
\* generating, storing and sealing it, nobody indexes under a key that is lost
\* before it was ever kept.
HandedWasStored == handed \subseteq stored

\* Nobody is about to make a key, and every copy of the table has one.
Settled ==
  /\ table # None
  /\ Lag => copy # None
  /\ \A w \in Workers : pc[w] \notin {"generate", "store"}

\* The race to make the key ends: once the table's copies have a key and nobody
\* is making another, the table's key is final.
FinalKey == [][Settled => table' = table /\ Settled']_vars

\* Every copy has the table's key, and every request that carries a key has it.
Agreed ==
  /\ Settled
  /\ Lag => copy = table
  /\ \A w \in Workers : pc[w] = "prepare" => iek[w] = table

\* Once all agree they stay agreed: whatever is handed out from then on, over
\* any failures and copies, is the table's key and no other.
AgreedForGood == [][Agreed => Agreed' /\ handed' \subseteq handed \cup {table}]_vars

\* README.md:254 "Same value always produces same encrypted token": all clients
\* of the table hold one index key.
OneKey == \A j, k \in handed : j = k

==============================================================================
