-------------------------- MODULE EnclaveSessions --------------------------
(***************************************************************************)
(* Secure sessions between clients and the enclave, and the calls made in  *)
(* them: the client's session object (pkg/crypto/kms.go), the API handlers *)
(* that fetch the enclave's attestation document and have KMS wrap keys    *)
(* for it, and the enclave, which keeps its sessions and its RSA key in    *)
(* memory only and may restart at any time.                                *)
(*                                                                         *)
(* A session is named by the client object that asked for it: its id is 16 *)
(* random bytes and its key a secret of that client and the enclave.  KMS  *)
(* wraps for the RSA key of the document it is shown; that key is named by *)
(* the boot that generated it.  How a line finds its way through the pool  *)
(* is VsockPool, how a table's index key is found is TableKeys; here each  *)
(* is one step that may fail.                                              *)
(***************************************************************************)
EXTENDS Integers

CONSTANTS
  Clients,      \* session objects of clients
  Calls,        \* the calls they make
  TTL,          \* life of a session, in half seconds (60 minutes)
  MaxTime,      \* bound of the clock
  MaxBoot,      \* bound of the number of enclave processes
  None          \* no session, no client, no document

ASSUME SessionAssumption ==
  /\ TTL \in Nat /\ MaxTime \in Nat /\ MaxBoot \in Nat
  /\ None \notin Clients \cup Calls \cup Int

VARIABLES
  now,          \* the clock, in half seconds
  boot,         \* the enclave's process, which is also the name of its RSA key
  phase,        \* "starting", "up", or "stopping": nsmSession closed, exit to come
  doc,          \* attestation.Doc: the RSA key it is about, or None
  sessions,     \* the enclave's map: when each session expires, or None
  client,       \* the clients' session objects
  call          \* the calls

vars == <<now, boot, phase, doc, sessions, client, call>>

enclave == <<boot, phase, doc, sessions>>

\* The calls made in a session, and the one that is made without.
InSession == {"unwrap", "deks", "iek", "hash"}
Kinds == InSession \cup {"decrypt"}

\* What verifyAttestation compares a document with.  A document of NSM carries
\* the nonce and the public key of the request for it.
Document(nonce, key) == <<nonce, key>>
Verifies(d, nonce, key) == d = Document(nonce, key)

\* Mutant: rounded to the nearest second.
FormattedMut(t) == 2 * ((t + 1) \div 2)

\* expiresAt.Format(time.RFC3339): whole seconds.
Formatted(t) == 2 * (t \div 2)

\* When the client thinks that its session expires.
ExpiresAt(c) == Formatted(client[c].until)

Verified(c) == client[c].stage \in {"ready", "closed"}

\* The enclave has not heard of it.
Unopened == {"new", "asked"}

Init ==
  /\ now = 0
  /\ boot = 1
  /\ phase = "starting"
  /\ doc = None
  /\ sessions = [c \in Clients |-> None]
  /\ client = [c \in Clients |-> [stage |-> "new", boot |-> 0, until |-> 0, att |-> None]]
  /\ call = [r \in Calls |-> [stage |-> "idle", kind |-> "hash", client |-> None, for |-> None]]

------------------------------------------------------------------------------
(* The enclave process *)

\* Mutant: it listens before it has a document.
BootMut ==
  /\ phase = "starting"
  /\ phase' = "up"
  /\ UNCHANGED <<now, boot, doc, sessions, client, call>>

\* initiateNSM: an RSA key, then a document about it, and only then the listener.
Boot ==
  /\ phase = "starting"
  /\ phase' = "up"
  /\ doc' = boot
  /\ UNCHANGED <<now, boot, sessions, client, call>>

\* A signal: the NSM session is closed and set to nil while handlers still run.
Shutdown ==
  /\ phase = "up"
  /\ phase' = "stopping"
  /\ UNCHANGED <<now, boot, doc, sessions, client, call>>

\* Mutant: sessions survive a restart.
CrashMut ==
  /\ phase # "starting"
  /\ boot < MaxBoot
  /\ boot' = boot + 1
  /\ phase' = "starting"
  /\ doc' = None
  /\ UNCHANGED <<now, sessions, client, call>>

\* The process exits, or dies (a handler that reads from a nil NSM session
\* panics), and another one starts.  What it was working on is gone, so are its
\* sessions; what it has answered may still be under way.
Crash ==
  /\ phase # "starting"
  /\ boot < MaxBoot
  /\ boot' = boot + 1
  /\ phase' = "starting"
  /\ doc' = None
  /\ sessions' = [c \in Clients |-> None]
  /\ client' = [c \in Clients |->
       IF client[c].stage = "stored" THEN [client[c] EXCEPT !.stage = "failed"] ELSE client[c]]
  /\ call' = [r \in Calls |->
       IF call[r].stage = "found" THEN [call[r] EXCEPT !.stage = "failed"] ELSE call[r]]
  /\ UNCHANGED now

Tick ==
  /\ now < MaxTime
  /\ now' = now + 1
  /\ UNCHANGED <<enclave, client, call>>

------------------------------------------------------------------------------
(* Opening a session *)

\* The client makes a key pair and a nonce and sends them.
InitEnclaveSecureSession(c) ==
  /\ client[c].stage = "new"
  /\ client' = [client EXCEPT ![c].stage = "asked"]
  /\ UNCHANGED <<now, enclave, call>>

\* Mutant: a client that repeats its request gets its session again.
StoreSessionMut(c) ==
  /\ client[c].stage \in {"asked", "replied"}
  /\ phase # "starting"
  /\ sessions' = [sessions EXCEPT ![c] = now + TTL]
  /\ client' = [client EXCEPT ![c] =
       [stage |-> "stored", boot |-> boot, until |-> now + TTL, att |-> None]]
  /\ UNCHANGED <<now, boot, phase, doc, call>>

\* The enclave's HandleSessionInit derives the key and stores the session first ...
StoreSession(c) ==
  /\ client[c].stage = "asked"
  /\ phase # "starting"
  /\ sessions' = [sessions EXCEPT ![c] = now + TTL]
  /\ client' = [client EXCEPT ![c] =
       [stage |-> "stored", boot |-> boot, until |-> now + TTL, att |-> None]]
  /\ UNCHANGED <<now, boot, phase, doc, call>>

\* ... then it has its key attested, with the client's nonce, and answers.
\* Without an NSM session it answers without a document.
Attest(c) ==
  /\ client[c].stage = "stored"
  /\ client' = [client EXCEPT ![c].stage = "replied",
       ![c].att = IF phase = "up" THEN Document(c, c) ELSE None]
  /\ UNCHANGED <<now, enclave, call>>

\* The client derives the key too, and verifies the document it got.
VerifyAttestation(c) ==
  /\ client[c].stage = "replied"
  /\ client' = [client EXCEPT ![c].stage =
       IF Verifies(client[c].att, c, c) THEN "ready" ELSE "failed"]
  /\ UNCHANGED <<now, enclave, call>>

\* An error on the way, a lost or late answer, a document that is too old or whose
\* PCRs are others.  If the enclave has stored the session by then it keeps it.
InitFails(c) ==
  /\ client[c].stage \in {"asked", "stored", "replied"}
  /\ client' = [client EXCEPT ![c].stage = "failed"]
  /\ UNCHANGED <<now, enclave, call>>

\* Close zeroes the key and nothing else: calls can still be made.
Close(c) ==
  /\ client[c].stage = "ready"
  /\ client' = [client EXCEPT ![c].stage = "closed"]
  /\ UNCHANGED <<now, enclave, call>>

------------------------------------------------------------------------------
(* A call: the client *)

To(r, s) == call' = [call EXCEPT ![r].stage = s]

\* The step of a call of this kind from one stage to another.
Moves(r, kind, from, to) ==
  /\ call[r].kind = kind
  /\ call[r].stage = from
  /\ To(r, to)
  /\ UNCHANGED <<now, enclave, client>>

\* In a session that is not expired, and verified.
Ask(r, c, kind) ==
  /\ call[r].stage = "idle"
  /\ Verified(c)
  /\ now <= ExpiresAt(c)
  /\ call' = [call EXCEPT ![r] = [stage |-> "asked", kind |-> kind, client |-> c, for |-> None]]
  /\ UNCHANGED <<now, enclave, client>>

SessionUnwrap(r, c) == Ask(r, c, "unwrap")

GenerateDEK(r, c) == Ask(r, c, "deks")

GetTableIEK(r, c) == Ask(r, c, "iek")

\* With the table's name encrypted under the session key.
AskTableHash(r, c) == client[c].stage = "ready" /\ Ask(r, c, "hash")

\* UnwrapSingleDEK: a call of its own, without a session.
AskDecrypt(r) ==
  /\ call[r].stage = "idle"
  /\ call' = [call EXCEPT ![r] =
       [stage |-> "asked", kind |-> "decrypt", client |-> None, for |-> None]]
  /\ UNCHANGED <<now, enclave, client>>

\* What is sealed with the session key opens if the client still has the key.
OpenDEK(r) == client[call[r].client].stage = "ready"

OpenDEKs(r) == Moves(r, "deks", "sealed", IF OpenDEK(r) THEN "opened" ELSE "failed")

OpenIEK(r) == Moves(r, "iek", "sealed", IF OpenDEK(r) THEN "opened" ELSE "failed")

\* An unwrap that had no document was answered 500 long ago.
UnsealDEK(r) ==
  Moves(r, "unwrap", "sealed", IF call[r].for # None /\ OpenDEK(r) THEN "opened" ELSE "failed")

ReceiveTableHash(r) == Moves(r, "hash", "sealed", "opened")

\* A one-shot answer is verified against the document that the API used, which is
\* about the RSA key and has no nonce, with the nonce and the key of the answer's box.
UnwrapSingleDEK(r) ==
  Moves(r, "decrypt", "sealed",
        IF Verifies(Document(None, call[r].for), r, r) THEN "opened" ELSE "failed")

------------------------------------------------------------------------------
(* A call: the API *)

\* RequestAttestationDocument: the enclave's current document.
GetAttestation(r) ==
  /\ call[r].stage = "asked"
  /\ phase # "starting"
  /\ doc # None
  /\ call' = [call EXCEPT ![r].stage = "attested", ![r].for = doc]
  /\ UNCHANGED <<now, enclave, client>>

\* It cannot be had.  HandleSessionUnwrap answers 500 and, for want of a return, goes
\* on without a document; the other handlers stop.
AttestationFails(r) ==
  /\ call[r].stage = "asked"
  /\ To(r, IF call[r].kind = "unwrap" THEN "attested" ELSE "failed")
  /\ UNCHANGED <<now, enclave, client>>

\* KMS decrypts what the handler sends it, or generates it, and wraps it for the
\* document's RSA key.  HandleSessionUnwrap: a DEK ...
UnwrapItems(r) == Moves(r, "unwrap", "attested", "wrapped")

\* ... HandleSessionGenerateDEK: DEKs, the master key and the table's index key ...
GenerateDataKeys(r) == Moves(r, "deks", "attested", "wrapped")

\* ... HandleSessionGetTableIEK: the index key ...
WrapIEK(r) == Moves(r, "iek", "attested", "wrapped")

\* ... GetTableHash: the tenant's table salt ...
DecryptTableSalt(r) == Moves(r, "hash", "attested", "wrapped")

\* ... HandleDecrypt: a DEK.
HandleDecrypt(r) == Moves(r, "decrypt", "attested", "wrapped")

------------------------------------------------------------------------------
(* A call: the enclave *)

\* Mutant: a session expires at its last instant already.
HasSessionMut(c) == sessions[c] # None /\ now < sessions[c]

HasSession(c) == sessions[c] # None /\ ~(now > sessions[c])

\* The handler looks the session up, under the read lock, and goes on without it.
GetSession(r) ==
  /\ call[r].stage = "wrapped"
  /\ phase # "starting"
  /\ To(r, IF call[r].kind = "decrypt" \/ HasSession(call[r].client) THEN "found" ELSE "refused")
  /\ UNCHANGED <<now, enclave, client>>

\* Only the RSA key it was wrapped for unwraps a key.
DecryptWithOpenSSL(r) == call[r].for = boot

\* The DEK is unwrapped and sealed with the session's key, under a nonce of NSM.
SealDEK(r) ==
  \/ ~DecryptWithOpenSSL(r) /\ Moves(r, "unwrap", "found", "failed")
  \/ DecryptWithOpenSSL(r) /\ phase = "up" /\ Moves(r, "unwrap", "found", "sealed")

\* Here the nonces come first, then the master key, the DEKs and the index key.
PrepareDEK(r) ==
  /\ phase = "up"
  /\ Moves(r, "deks", "found", IF DecryptWithOpenSSL(r) THEN "sealed" ELSE "failed")

PrepareIEK(r) ==
  /\ phase = "up"
  /\ Moves(r, "iek", "found", IF DecryptWithOpenSSL(r) THEN "sealed" ELSE "failed")

\* The table's name is hashed with the salt, as it came.
GenerateTableHash(r) == Moves(r, "hash", "found", "sealed")

\* No session and no NSM: a fresh box for the client's key.
Decrypt(r) == Moves(r, "decrypt", "found", IF DecryptWithOpenSSL(r) THEN "sealed" ELSE "failed")

\* An error anywhere: the tenant or the index key cannot be read, KMS refuses,
\* NSM or openssl fails, a time-out, a lost answer.
Fail(r) ==
  /\ call[r].stage \in {"asked", "attested", "wrapped", "found", "sealed"}
  /\ To(r, "failed")
  /\ UNCHANGED <<now, enclave, client>>

------------------------------------------------------------------------------

ClientStep(c) ==
  \/ InitEnclaveSecureSession(c) \/ StoreSession(c) \/ Attest(c) \/ VerifyAttestation(c)
  \/ InitFails(c) \/ Close(c)

Asking(r) ==
  \/ \E c \in Clients : SessionUnwrap(r, c) \/ GenerateDEK(r, c) \/ GetTableIEK(r, c)
                         \/ AskTableHash(r, c)
  \/ AskDecrypt(r)

Wrapping(r) ==
  UnwrapItems(r) \/ GenerateDataKeys(r) \/ WrapIEK(r) \/ DecryptTableSalt(r) \/ HandleDecrypt(r)

Sealing(r) ==
  SealDEK(r) \/ PrepareDEK(r) \/ PrepareIEK(r) \/ GenerateTableHash(r) \/ Decrypt(r)

Receiving(r) ==
  OpenDEKs(r) \/ OpenIEK(r) \/ UnsealDEK(r) \/ ReceiveTableHash(r) \/ UnwrapSingleDEK(r)

CallStep(r) ==
  \/ Asking(r) \/ GetAttestation(r) \/ AttestationFails(r) \/ Wrapping(r)
  \/ GetSession(r) \/ Sealing(r) \/ Receiving(r) \/ Fail(r)

Next ==
  \/ Boot \/ Shutdown \/ Crash \/ Tick
  \/ \E c \in Clients : ClientStep(c)
  \/ \E r \in Calls : CallStep(r)

Spec == Init /\ [][Next]_vars

------------------------------------------------------------------------------
(* Properties *)

TypeOK ==
  /\ now \in Nat
  /\ boot \in Nat \ {0}
  /\ phase \in {"starting", "up", "stopping"}
  /\ doc \in Nat \cup {None}
  /\ sessions \in [Clients -> Nat \cup {None}]
  /\ client \in [Clients ->
       [stage : {"new", "asked", "stored", "replied", "ready", "closed", "failed"},
        boot : Nat, until : Nat, att : (Clients \X Clients) \cup {None}]]
  /\ call \in [Calls ->
       [stage : {"idle", "asked", "attested", "wrapped", "found", "refused",
                 "sealed", "opened", "failed"},
        kind : Kinds, client : Clients \cup {None}, for : Nat \cup {None}]]

\* A call whose session the enclave has found carries keys wrapped for the RSA key
\* the enclave has now, however often it restarted since the client verified the
\* session or the API fetched the document: a session that outlives its key would
\* show as keys that no longer decrypt.
EnvelopesOpen ==
  \A r \in Calls :
    /\ call[r].stage = "found"
    /\ call[r].kind # "decrypt"
    /\ call[r].for # None
    => call[r].for = boot

\* A verified session is refused only after it expired or the enclave restarted.
RefusedOnlyWhenGone ==
  \A r \in Calls :
    call[r].stage = "refused" =>
      \/ client[call[r].client].boot < boot
      \/ now > client[call[r].client].until

\* While a client thinks its session is live the enclave that opened it agrees.
LiveIsFound ==
  \A c \in Clients :
    /\ Verified(c)
    /\ client[c].boot = boot
    /\ now <= ExpiresAt(c)
    => HasSession(c)

\* A session that is over, expired or lost with its process, is never found again, so
\* a call that was refused is not worth repeating in it: the client has to open
\* another session.
GoneForGood ==
  [][\A c \in Clients :
       client[c].stage \notin Unopened /\ ~HasSession(c) => ~HasSession(c)']_vars

\* What the enclave remembers: every session its process has stored, no other.
Remembered ==
  \A c \in Clients :
    /\ client[c].boot <= boot
    /\ sessions[c] # None => client[c].boot = boot
    /\ client[c].boot = boot => sessions[c] = client[c].until /\ phase # "starting"

\* A call is made after its session was stored, and the document it fetched is of
\* the process that stored the session or of a later one.
InOrder ==
  /\ phase # "starting" => doc = boot
  /\ \A r \in Calls :
       call[r].stage \notin {"idle", "failed"} /\ call[r].kind # "decrypt" =>
         /\ call[r].client \in Clients
         /\ client[call[r].client].stage \notin Unopened
         /\ call[r].for # None =>
              client[call[r].client].boot <= call[r].for /\ call[r].for <= boot
         /\ call[r].stage = "found" => client[call[r].client].boot = boot
  /\ \A r \in Calls : call[r].stage = "refused" => call[r].kind # "decrypt"

\* The inductive invariant: EnvelopesOpen and LiveIsFound follow from it.
IInv == TypeOK /\ Remembered /\ InOrder /\ RefusedOnlyWhenGone

\* The table hash identifies a table: the same for every session of a tenant.
Envelope(r) == <<call[r].for, r>>     \* a wrapping is randomised
TableHash(r) == Envelope(r)           \* of one table: Hash(tableName, req.TableSalt)
SameTableSameHash ==
  \A r, q \in Calls :
    /\ call[r].stage = "opened" /\ call[r].kind = "hash"
    /\ call[q].stage = "opened" /\ call[q].kind = "hash"
    => TableHash(r) = TableHash(q)

==============================================================================
