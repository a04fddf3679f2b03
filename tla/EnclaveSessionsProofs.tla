----------------------- MODULE EnclaveSessionsProofs -----------------------
(* Proofs about EnclaveSessions, for any number of sessions, calls, restarts *)
(* and any clock.                                                            *)
EXTENDS EnclaveSessions, TLAPS

\* A client's time is in whole seconds and never later than the enclave's.
LEMMA FormattedIsEarlier ==
  ASSUME NEW t \in Nat
  PROVE  Formatted(t) \in Nat /\ Formatted(t) <= t
BY DEF Formatted

LEMMA InvInit == Init => IInv
BY SessionAssumption
   DEF Init, IInv, TypeOK, Remembered, InOrder, RefusedOnlyWhenGone, Kinds, InSession

\* The numbers among all this.
LEMMA Numbers ==
  ASSUME TypeOK
  PROVE  /\ now \in Nat /\ boot \in Nat
         /\ \A c \in Clients : client[c].boot \in Nat /\ client[c].until \in Nat
         /\ \A r \in Calls : call[r].for \in Nat \cup {None}
BY DEF TypeOK

\* What a step leaves of its sessions and calls, when it does not open a session
\* nor move a call, except to its failure.
SessionsStay ==
  \A c \in Clients :
    /\ client'[c].boot = client[c].boot
    /\ client'[c].until = client[c].until
    /\ client[c].stage \notin Unopened => client'[c].stage \notin Unopened

CallsStay == \A r \in Calls : call'[r] = call[r] \/ call'[r].stage = "failed"

LEMMA RefusalsStay ==
  ASSUME IInv, SessionsStay, CallsStay, now' \in Nat, boot' \in Nat, now <= now', boot <= boot'
  PROVE  RefusedOnlyWhenGone'
<1> SUFFICES ASSUME NEW r \in Calls, call'[r].stage = "refused"
             PROVE  \/ client'[call'[r].client].boot < boot'
                    \/ now' > client'[call'[r].client].until
  BY DEF RefusedOnlyWhenGone
<1>1. call'[r] = call[r] /\ call[r].stage = "refused"
  BY DEF CallsStay
<1>2. client[call[r].client].boot < boot \/ now > client[call[r].client].until
  BY <1>1 DEF IInv, RefusedOnlyWhenGone
<1>3. call[r].client \in Clients
  BY <1>1 DEF IInv, InOrder, RefusedOnlyWhenGone
<1> QED
  BY <1>1, <1>2, <1>3, Numbers DEF IInv, SessionsStay

LEMMA OrderStays ==
  ASSUME IInv, SessionsStay, CallsStay, UNCHANGED <<boot, doc>>, phase # "starting" \/ UNCHANGED phase
  PROVE  InOrder'
BY DEF IInv, InOrder, SessionsStay, CallsStay

\* The enclave's process starts, is told to stop, ends; time passes.
LEMMA EnclaveKeeps ==
  ASSUME IInv, Boot \/ Shutdown \/ Crash \/ Tick
  PROVE  IInv'
<1> USE SessionAssumption DEF SessionsStay, CallsStay, Unopened
<1>1. TypeOK'
  <2>1. CASE Boot
    BY <2>1 DEF Boot, IInv, TypeOK
  <2>2. CASE Shutdown
    BY <2>2 DEF Shutdown, IInv, TypeOK
  <2>3. CASE Crash
    <3>1. /\ now' \in Nat /\ boot' \in Nat \ {0} /\ phase' = "starting"
          /\ doc' \in Nat \cup {None} /\ sessions' \in [Clients -> Nat \cup {None}]
      BY <2>3 DEF Crash, IInv, TypeOK
    <3>2. client' \in [Clients ->
            [stage : {"new", "asked", "stored", "replied", "ready", "closed", "failed"},
             boot : Nat, until : Nat, att : (Clients \X Clients) \cup {None}]]
      <4> DEFINE T == (Clients \X Clients) \cup {None}
      <4>1. client \in [Clients ->
              [stage : {"new", "asked", "stored", "replied", "ready", "closed", "failed"},
               boot : Nat, until : Nat, att : T]]
        BY DEF IInv, TypeOK
      <4> HIDE DEF T
      <4>2. client' \in [Clients ->
              [stage : {"new", "asked", "stored", "replied", "ready", "closed", "failed"},
               boot : Nat, until : Nat, att : T]]
        BY <2>3, <4>1 DEF Crash
      <4> QED
        BY <4>2 DEF T
    <3>3. call' \in [Calls ->
            [stage : {"idle", "asked", "attested", "wrapped", "found", "refused",
                      "sealed", "opened", "failed"},
             kind : Kinds, client : Clients \cup {None}, for : Nat \cup {None}]]
      BY <2>3 DEF Crash, IInv, TypeOK
    <3> QED
      BY <3>1, <3>2, <3>3 DEF TypeOK
  <2>4. CASE Tick
    BY <2>4 DEF Tick, enclave, IInv, TypeOK
  <2> QED
    BY <2>1, <2>2, <2>3, <2>4
<1>2. SessionsStay /\ CallsStay /\ now' \in Nat /\ boot' \in Nat /\ now <= now' /\ boot <= boot'
  <2>1. CASE Crash
    BY <2>1 DEF Crash, IInv, TypeOK
  <2> QED
    BY <2>1, Numbers DEF IInv, Boot, Shutdown, Tick, enclave
<1>3. RefusedOnlyWhenGone'
  BY <1>2, RefusalsStay
<1>4. Remembered'
  <2>1. CASE Crash
    BY <2>1, <1>2, Numbers DEF Crash, IInv, Remembered
  <2> QED
    BY <2>1 DEF IInv, Remembered, Boot, Shutdown, Tick, enclave
<1>5. InOrder'
  <2>1. CASE Boot
    BY <2>1 DEF Boot, IInv, InOrder
  <2>2. CASE Shutdown
    BY <2>2 DEF Shutdown, IInv, InOrder
  <2>3. CASE Crash
    <3>1. \A r \in Calls : \/ call'[r] = call[r] /\ call[r].stage # "found"
                           \/ call'[r].stage = "failed"
      BY <2>3 DEF Crash, IInv, TypeOK
    <3>2. boot' = boot + 1 /\ phase' = "starting"
      BY <2>3 DEF Crash
    <3> QED
      BY <1>2, <3>1, <3>2, Numbers DEF IInv, InOrder
  <2>4. CASE Tick
    BY <2>4 DEF Tick, enclave, IInv, InOrder
  <2> QED
    BY <2>1, <2>2, <2>3, <2>4
<1> QED
  BY <1>1, <1>3, <1>4, <1>5 DEF IInv

\* A session is opened and closed.
LEMMA ClientKeeps ==
  ASSUME IInv, NEW c \in Clients, ClientStep(c)
  PROVE  IInv'
<1> USE SessionAssumption DEF Unopened
<1>1. CASE StoreSession(c)
  <2> USE <1>1 DEF StoreSession
  <2>1. TypeOK'
    BY DEF IInv, TypeOK
  <2>2. \A d \in Clients : d # c =>
           client'[d] = client[d] /\ sessions'[d] = sessions[d]
    BY DEF IInv, TypeOK
  <2>3. /\ client[c].stage = "asked"
        /\ client'[c].stage = "stored" /\ client'[c].boot = boot /\ client'[c].until = now + TTL
        /\ sessions'[c] = now + TTL
        /\ UNCHANGED <<now, boot, phase, doc, call>> /\ phase # "starting"
    BY DEF IInv, TypeOK
  <2> HIDE <1>1 DEF StoreSession
  <2>4. Remembered'
    BY <2>2, <2>3, Numbers DEF IInv, Remembered
  <2>5. \A r \in Calls :
          call[r].stage \notin {"idle", "failed"} /\ call[r].kind # "decrypt"
          => call[r].client \in Clients \ {c}
    BY <2>3 DEF IInv, InOrder
  <2>6. InOrder'
    BY <2>2, <2>3, <2>5 DEF IInv, InOrder
  <2>7. RefusedOnlyWhenGone'
    <3>1. \A r \in Calls : call[r].stage = "refused" => call[r].client \in Clients \ {c}
      BY <2>5 DEF IInv, InOrder, RefusedOnlyWhenGone
    <3> QED
      BY <2>2, <2>3, <3>1 DEF IInv, RefusedOnlyWhenGone
  <2> QED
    BY <2>1, <2>4, <2>6, <2>7 DEF IInv
<1>2. ASSUME NEW s \in {"asked", "replied", "ready", "closed", "failed"},
             NEW a \in (Clients \X Clients) \cup {None},
             client[c].stage \notin Unopened => s # "asked",
             client' = [client EXCEPT ![c] = [client[c] EXCEPT !.stage = s, !.att = a]],
             UNCHANGED <<now, enclave, call>>
      PROVE  IInv'
  <2>1. UNCHANGED <<now, boot, phase, doc, sessions, call>>
    BY <1>2 DEF enclave
  <2>2. TypeOK'
    <3> DEFINE e == [client[c] EXCEPT !.stage = s, !.att = a]
    <3>1. e \in [stage : {"new", "asked", "stored", "replied", "ready", "closed", "failed"},
                boot : Nat, until : Nat, att : (Clients \X Clients) \cup {None}]
      <4>1. client[c] \in [stage : {"new", "asked", "stored", "replied", "ready", "closed", "failed"},
                boot : Nat, until : Nat, att : (Clients \X Clients) \cup {None}]
        BY DEF IInv, TypeOK
      <4>2. s \in {"new", "asked", "stored", "replied", "ready", "closed", "failed"}
        OBVIOUS
      <4> DEFINE T == (Clients \X Clients) \cup {None}
      <4>3. client[c] \in [stage : {"new", "asked", "stored", "replied", "ready", "closed", "failed"},
                          boot : Nat, until : Nat, att : T] /\ a \in T
        BY <4>1
      <4> HIDE DEF T
      <4>4. e \in [stage : {"new", "asked", "stored", "replied", "ready", "closed", "failed"},
                  boot : Nat, until : Nat, att : T]
        BY <4>2, <4>3
      <4> QED
        BY <4>4 DEF T
    <3> HIDE DEF e
    <3>2. client' = [client EXCEPT ![c] = e]
      BY <1>2 DEF e
    <3> QED
      BY <2>1, <3>1, <3>2 DEF IInv, TypeOK
  <2>3. SessionsStay /\ CallsStay
    BY <1>2, <2>1 DEF IInv, TypeOK, SessionsStay, CallsStay
  <2>4. Remembered'
    BY <2>1, <2>3 DEF IInv, Remembered, SessionsStay
  <2> QED
    BY <2>1, <2>2, <2>3, <2>4, OrderStays, RefusalsStay, Numbers DEF IInv
<1>3. CASE Attest(c)
  <2> DEFINE a == IF phase = "up" THEN Document(c, c) ELSE None
  <2>1. a \in (Clients \X Clients) \cup {None}
    BY DEF Document
  <2>2. client' = [client EXCEPT ![c] = [client[c] EXCEPT !.stage = "replied", !.att = a]]
    BY <1>3 DEF Attest
  <2> HIDE DEF a
  <2> QED
    BY <1>3, <2>1, <2>2, <1>2 DEF Attest
<1>4. ASSUME NEW s \in {"asked", "ready", "closed", "failed"},
             client[c].stage \notin Unopened => s # "asked",
             client' = [client EXCEPT ![c].stage = s],
             UNCHANGED <<now, enclave, call>>
      PROVE  IInv'
  <2>1. client[c].att \in (Clients \X Clients) \cup {None}
    BY DEF IInv, TypeOK
  <2>2. client' = [client EXCEPT ![c] = [client[c] EXCEPT !.stage = s, !.att = client[c].att]]
    BY <1>4 DEF IInv, TypeOK
  <2> QED
    BY <1>4, <2>1, <2>2, <1>2
<1>5. CASE VerifyAttestation(c)
  <2> DEFINE s == IF Verifies(client[c].att, c, c) THEN "ready" ELSE "failed"
  <2>1. s \in {"ready", "failed"}
    OBVIOUS
  <2>2. client' = [client EXCEPT ![c].stage = s]
    BY <1>5 DEF VerifyAttestation
  <2> HIDE DEF s
  <2> QED
    BY <1>4, <1>5, <2>1, <2>2 DEF VerifyAttestation
<1>6. CASE InitFails(c)
  BY <1>4, <1>6 DEF InitFails
<1>7. CASE Close(c)
  BY <1>4, <1>7 DEF Close
<1>8. CASE InitEnclaveSecureSession(c)
  BY <1>4, <1>8 DEF InitEnclaveSecureSession
<1> QED
  BY <1>1, <1>3, <1>5, <1>6, <1>7, <1>8 DEF ClientStep

\* A call moves, and nothing else does.
LEMMA CallKeeps ==
  ASSUME IInv, NEW r \in Calls, CallStep(r)
  PROVE  IInv'
<1> USE SessionAssumption DEF Unopened
<1>1. UNCHANGED <<now, boot, phase, doc, sessions, client>>
  BY DEF CallStep, Asking, SessionUnwrap, GenerateDEK, GetTableIEK, AskTableHash, Ask, AskDecrypt,
     GetAttestation, AttestationFails, Wrapping, UnwrapItems, GenerateDataKeys, WrapIEK,
     DecryptTableSalt, HandleDecrypt, GetSession, Sealing, SealDEK, PrepareDEK, PrepareIEK,
     GenerateTableHash, Decrypt, Receiving, OpenDEKs, OpenIEK, UnsealDEK, ReceiveTableHash,
     UnwrapSingleDEK, Moves, Fail, enclave
<1>2. Remembered'
  BY <1>1 DEF IInv, Remembered
\* A stage, and what the invariant asks of a call that reaches it.
<1>3. ASSUME NEW e \in [stage : {"idle", "asked", "attested", "wrapped", "found", "refused",
                                "sealed", "opened", "failed"},
                        kind : Kinds, client : Clients \cup {None}, for : Nat \cup {None}],
             call' = [call EXCEPT ![r] = e],
             e.stage # "failed" /\ e.kind # "decrypt" =>
               /\ e.client \in Clients
               /\ client[e.client].stage \notin Unopened
               /\ e.for # None => client[e.client].boot <= e.for /\ e.for <= boot
               /\ e.stage = "found" => client[e.client].boot = boot,
             e.stage = "refused" =>
               /\ e.kind # "decrypt"
               /\ client[e.client].boot < boot \/ now > client[e.client].until
      PROVE  IInv'
  <2>1. TypeOK'
    BY <1>1, <1>3 DEF IInv, TypeOK
  <2>2. \A q \in Calls : call'[q] = IF q = r THEN e ELSE call[q]
    BY <1>3 DEF IInv, TypeOK
  <2>3. InOrder'
    BY <1>1, <1>3, <2>2 DEF IInv, InOrder
  <2>4. RefusedOnlyWhenGone'
    BY <1>1, <1>3, <2>2 DEF IInv, RefusedOnlyWhenGone
  <2> QED
    BY <1>2, <2>1, <2>3, <2>4 DEF IInv
<1>4. ASSUME NEW c \in Clients, NEW k \in InSession, Ask(r, c, k)
      PROVE  IInv'
  BY <1>3, <1>4 DEF Ask, Verified, Kinds, InSession
<1>5. CASE Asking(r)
  <2>1. CASE AskDecrypt(r)
    BY <1>3, <2>1 DEF AskDecrypt, Kinds
  <2> QED
    BY <1>4, <1>5, <2>1
       DEF Asking, SessionUnwrap, GenerateDEK, GetTableIEK, AskTableHash, InSession
<1>6. call[r] \in [stage : {"idle", "asked", "attested", "wrapped", "found", "refused",
                          "sealed", "opened", "failed"},
                  kind : Kinds, client : Clients \cup {None}, for : Nat \cup {None}]
  BY DEF IInv, TypeOK
<1>7. CASE GetAttestation(r)
  <2> DEFINE e == [call[r] EXCEPT !.stage = "attested", !.for = doc]
  <2>1. call' = [call EXCEPT ![r] = e]
    BY <1>7 DEF GetAttestation, IInv, TypeOK
  <2>2. doc = boot /\ call[r].stage = "asked"
    BY <1>7 DEF GetAttestation, IInv, InOrder
  <2>3. /\ e.stage = "attested" /\ e.kind = call[r].kind
        /\ e.client = call[r].client /\ e.for = boot
    BY <1>6, <2>2
  <2>4. e.kind # "decrypt" => /\ e.client \in Clients
                             /\ client[e.client].stage \notin Unopened
                             /\ client[e.client].boot <= boot /\ boot <= boot
    BY <2>2, <2>3, Numbers DEF IInv, InOrder, Remembered
  <2>5. e \in [stage : {"idle", "asked", "attested", "wrapped", "found", "refused",
                       "sealed", "opened", "failed"},
               kind : Kinds, client : Clients \cup {None}, for : Nat \cup {None}]
    BY <1>6, <2>2, Numbers DEF IInv
  <2> HIDE DEF e
  <2> QED
    BY <1>3, <2>1, <2>3, <2>4, <2>5
\* The other steps only change its stage.
<1>8. ASSUME NEW s \in {"attested", "wrapped", "found", "refused", "sealed", "opened", "failed"},
             To(r, s),
             call[r].stage \notin {"idle", "failed"},
             s = "found" /\ call[r].kind # "decrypt" => client[call[r].client].boot = boot,
             s = "refused" =>
               /\ call[r].kind # "decrypt"
               /\ client[call[r].client].boot < boot \/ now > client[call[r].client].until
      PROVE  IInv'
  <2> DEFINE e == [call[r] EXCEPT !.stage = s]
  <2>1. call' = [call EXCEPT ![r] = e]
    BY <1>8 DEF To, IInv, TypeOK
  <2>2. /\ e.stage = s /\ e.kind = call[r].kind
        /\ e.client = call[r].client /\ e.for = call[r].for
    BY <1>6
  <2>3. e \in [stage : {"idle", "asked", "attested", "wrapped", "found", "refused",
                       "sealed", "opened", "failed"},
               kind : Kinds, client : Clients \cup {None}, for : Nat \cup {None}]
    BY <1>6
  <2>4. call[r].kind # "decrypt" =>
               /\ call[r].client \in Clients
               /\ client[call[r].client].stage \notin Unopened
               /\ call[r].for # None =>
                    client[call[r].client].boot <= call[r].for /\ call[r].for <= boot
    BY <1>8 DEF IInv, InOrder
  <2> HIDE DEF e
  <2> QED
    BY <1>3, <1>8, <2>1, <2>2, <2>3, <2>4
<1>9. CASE GetSession(r)
  <2> DEFINE c == call[r].client
  <2>1. call[r].stage = "wrapped"
    BY <1>9 DEF GetSession
  <2>2. CASE call[r].kind = "decrypt"
    BY <1>8, <1>9, <2>1, <2>2 DEF GetSession
  <2>3. CASE call[r].kind # "decrypt" /\ HasSession(c)
    <3>1. c \in Clients
      BY <2>1, <2>3 DEF IInv, InOrder
    <3>2. client[c].boot = boot
      BY <2>3, <3>1 DEF HasSession, IInv, Remembered
    <3> QED
      BY <1>8, <1>9, <2>1, <2>3, <3>2 DEF GetSession
  <2>4. CASE call[r].kind # "decrypt" /\ ~HasSession(c)
    <3>1. c \in Clients
      BY <2>1, <2>4 DEF IInv, InOrder
    <3>2. client[c].boot < boot \/ now > client[c].until
      <4>1. client[c].boot # boot => client[c].boot < boot
        BY <3>1, Numbers DEF IInv, Remembered
      <4>2. client[c].boot = boot => sessions[c] = client[c].until
        BY <3>1 DEF IInv, Remembered
      <4> QED
        BY <2>4, <3>1, <4>1, <4>2, Numbers DEF IInv, HasSession
    <3> QED
      BY <1>8, <1>9, <2>1, <2>4, <3>2 DEF GetSession
  <2> QED
    BY <2>2, <2>3, <2>4
<1>10. CASE AttestationFails(r) \/ Fail(r)
  BY <1>8, <1>10 DEF AttestationFails, Fail
<1>11. ASSUME NEW k, NEW from \in {"attested", "found", "sealed"},
              NEW to \in {"wrapped", "sealed", "opened", "failed"}, Moves(r, k, from, to)
       PROVE  IInv'
  BY <1>8, <1>11 DEF Moves
<1>12. CASE Wrapping(r)
  BY <1>11, <1>12 DEF Wrapping, UnwrapItems, GenerateDataKeys, WrapIEK, DecryptTableSalt,
     HandleDecrypt
<1>13. CASE Sealing(r)
  BY <1>11, <1>13 DEF Sealing, SealDEK, PrepareDEK, PrepareIEK, GenerateTableHash, Decrypt
<1>14. CASE Receiving(r)
  BY <1>11, <1>14 DEF Receiving, OpenDEKs, OpenIEK, UnsealDEK, ReceiveTableHash, UnwrapSingleDEK
<1> QED
  BY <1>5, <1>7, <1>9, <1>10, <1>12, <1>13, <1>14 DEF CallStep

LEMMA InvStep ==
  ASSUME IInv, [Next]_vars
  PROVE  IInv'
<1>1. CASE UNCHANGED vars
  BY <1>1 DEF vars, IInv, TypeOK, Remembered, InOrder, RefusedOnlyWhenGone
<1> QED
  BY <1>1, EnclaveKeeps, ClientKeeps, CallKeeps DEF Next

\* The inductive invariant holds.
THEOREM SessionInvariance == Spec => []IInv
BY InvInit, InvStep, PTL DEF Spec

\* Keys wrapped for a call whose session is found are wrapped for the key in use.
THEOREM FoundSessionsUnwrap == Spec => []EnvelopesOpen
<1>1. IInv => EnvelopesOpen
  <2> SUFFICES ASSUME IInv, NEW r \in Calls, call[r].stage = "found",
                      call[r].kind # "decrypt", call[r].for # None
               PROVE  call[r].for = boot
    BY DEF EnvelopesOpen
  <2>1. boot <= call[r].for /\ call[r].for <= boot
    BY DEF IInv, InOrder
  <2> QED
    BY <2>1, Numbers DEF IInv
<1> QED
  BY <1>1, SessionInvariance, PTL

\* A refusal is never spurious.
THEOREM RefusalsAreJustified == Spec => []RefusedOnlyWhenGone
<1>1. IInv => RefusedOnlyWhenGone
  BY DEF IInv
<1> QED
  BY <1>1, SessionInvariance, PTL

\* What a client takes for a live session is one.
THEOREM LiveSessionsAreFound == Spec => []LiveIsFound
<1>1. IInv => LiveIsFound
  BY SessionAssumption, FormattedIsEarlier
     DEF IInv, TypeOK, Remembered, LiveIsFound, HasSession, ExpiresAt
<1> QED
  BY <1>1, SessionInvariance, PTL

\* A session that is over does not come back.
THEOREM OverIsOver == Spec => GoneForGood
<1>1. ASSUME IInv, [Next]_vars, NEW c \in Clients, client[c].stage \notin Unopened,
             ~HasSession(c)
      PROVE  ~HasSession(c)'
  <2>1. CASE sessions'[c] = sessions[c] /\ now' \in Nat /\ now <= now'
    <3>1. now \in Nat /\ sessions[c] \in Nat \cup {None}
      BY <1>1 DEF IInv, TypeOK
    <3> QED
      BY <1>1, <2>1, <3>1 DEF HasSession
  <2>2. CASE sessions'[c] = None
    BY <2>2 DEF HasSession
  <2>3. CASE UNCHANGED vars \/ Boot \/ Shutdown \/ Crash \/ Tick
    BY <1>1, <2>1, <2>2, <2>3, Numbers
       DEF IInv, TypeOK, vars, enclave, Boot, Shutdown, Crash, Tick
  <2>4. ASSUME NEW d \in Clients, ClientStep(d)
        PROVE  ~HasSession(c)'
    <3>1. CASE StoreSession(d)
      <4>1. c # d
        BY <1>1, <3>1 DEF StoreSession, Unopened
      <4> QED
        BY <1>1, <2>1, <3>1, <4>1, Numbers DEF StoreSession, IInv, TypeOK
    <3>2. CASE ~StoreSession(d)
      BY <1>1, <2>1, <2>4, <3>2, Numbers
         DEF ClientStep, InitEnclaveSecureSession, Attest, VerifyAttestation, InitFails, Close,
             enclave, IInv
    <3> QED
      BY <3>1, <3>2
  <2>5. ASSUME NEW r \in Calls, CallStep(r)
        PROVE  ~HasSession(c)'
    <3>1. UNCHANGED <<now, sessions>>
      BY <2>5 DEF CallStep, Asking, SessionUnwrap, GenerateDEK, GetTableIEK, AskTableHash, Ask,
         AskDecrypt, GetAttestation, AttestationFails, Wrapping, UnwrapItems, GenerateDataKeys,
         WrapIEK, DecryptTableSalt, HandleDecrypt, GetSession, Sealing, SealDEK, PrepareDEK,
         PrepareIEK, GenerateTableHash, Decrypt, Receiving, OpenDEKs, OpenIEK, UnsealDEK,
         ReceiveTableHash, UnwrapSingleDEK, Moves, Fail, enclave
    <3> QED
      BY <1>1, <2>1, <3>1, Numbers DEF IInv
  <2> QED
    BY <1>1, <2>3, <2>4, <2>5 DEF Next
<1>2. IInv /\ [Next]_vars =>
        \A c \in Clients :
          client[c].stage \notin Unopened /\ ~HasSession(c) => ~HasSession(c)'
  BY <1>1
<1> QED
  BY <1>2, SessionInvariance, PTL DEF Spec, GoneForGood

==============================================================================
