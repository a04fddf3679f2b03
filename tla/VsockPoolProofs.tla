-------------------------- MODULE VsockPoolProofs --------------------------
(***************************************************************************)
(* Proofs about VsockPool, for any number of calls and connections and any *)
(* size of the pool.  Lines carry no request number, so that an answer     *)
(* reaches its own call rests on the state of the wires: a connection that *)
(* no call waits on has nothing under way but at most the enclave's last   *)
(* line (Quiet), and one that a call waits on has that call's request, or  *)
(* its answer, once (Asked).                                               *)
(***************************************************************************)
EXTENDS VsockPool, TLAPS

\* A call holds a connection from Get or Dial until it returns.
Holding ==
  \A k \in Calls : conn[k] # None <=> pc[k] \in {"write", "wait", "put"}

IInv == TypeOK /\ OneUser /\ Holding /\ InSync /\ AnswerIsOwn

------------------------------------------------------------------------------
(* The sequences of the pool and the wires.                                *)

LEMMA PoolOut ==
  ASSUME TypeOK, OneUser, idle # <<>>, idle' = SubSeq(idle, 1, Len(idle) - 1)
  PROVE  /\ idle' \in Seq(Conns)
         /\ Len(idle') = Len(idle) - 1
         /\ idle[Len(idle)] \in Conns \cap Pooled
         /\ \A i, j \in DOMAIN idle' : idle'[i] = idle'[j] => i = j
         /\ Pooled' = Pooled \ {idle[Len(idle)]}
<1>1. idle \in Seq(Conns) /\ Len(idle) \in Nat \ {0} /\ DOMAIN idle = 1..Len(idle)
  BY DEF TypeOK
<1>2. /\ idle' \in Seq(Conns) /\ Len(idle') = Len(idle) - 1
      /\ DOMAIN idle' = 1..(Len(idle) - 1)
      /\ \A i \in 1..(Len(idle) - 1) : idle'[i] = idle[i]
  BY <1>1
<1>3. \A i, j \in DOMAIN idle : idle[i] = idle[j] => i = j
  BY DEF OneUser
<1>4. idle[Len(idle)] \in Conns \cap Pooled
  <2>1. idle[Len(idle)] \in Conns /\ Len(idle) \in DOMAIN idle
    BY <1>1
  <2> QED
    BY <2>1 DEF Pooled
<1>5. \A i, j \in DOMAIN idle' : idle'[i] = idle'[j] => i = j
  BY <1>1, <1>2, <1>3
<1>6. Pooled' = Pooled \ {idle[Len(idle)]}
  <2>1. \A i \in DOMAIN idle' : i \in DOMAIN idle /\ idle'[i] = idle[i] /\ idle[i] # idle[Len(idle)]
    BY <1>1, <1>2, <1>3
  <2>2. \A i \in DOMAIN idle : idle[i] # idle[Len(idle)] => i \in DOMAIN idle' /\ idle'[i] = idle[i]
    BY <1>1, <1>2
  <2>3. Pooled' \subseteq Pooled \ {idle[Len(idle)]}
    BY <2>1 DEF Pooled
  <2>4. Pooled \ {idle[Len(idle)]} \subseteq Pooled'
    BY <2>2 DEF Pooled
  <2> QED
    BY <2>3, <2>4
<1> QED
  BY <1>2, <1>4, <1>5, <1>6

LEMMA PoolIn ==
  ASSUME TypeOK, OneUser, NEW c \in Conns \ Pooled, idle' = Append(idle, c)
  PROVE  /\ idle' \in Seq(Conns)
         /\ Len(idle') = Len(idle) + 1
         /\ \A i, j \in DOMAIN idle' : idle'[i] = idle'[j] => i = j
         /\ Pooled' = Pooled \cup {c}
<1>1. idle \in Seq(Conns) /\ Len(idle) \in Nat /\ DOMAIN idle = 1..Len(idle)
  BY DEF TypeOK
<1>2. /\ idle' \in Seq(Conns) /\ Len(idle') = Len(idle) + 1
      /\ DOMAIN idle' = 1..(Len(idle) + 1)
      /\ idle'[Len(idle) + 1] = c
      /\ \A i \in 1..Len(idle) : idle'[i] = idle[i]
  BY <1>1
<1>3. /\ \A i, j \in DOMAIN idle : idle[i] = idle[j] => i = j
      /\ \A i \in DOMAIN idle : idle[i] # c
  BY DEF OneUser, Pooled
<1>4. \A i, j \in DOMAIN idle' : idle'[i] = idle'[j] => i = j
  BY <1>1, <1>2, <1>3
<1>5. Pooled' = Pooled \cup {c}
  <2>1. \A i \in DOMAIN idle' :
          (i \in DOMAIN idle /\ idle'[i] = idle[i]) \/ idle'[i] = c
    BY <1>1, <1>2
  <2>2. \A i \in DOMAIN idle : i \in DOMAIN idle' /\ idle'[i] = idle[i]
    BY <1>1, <1>2
  <2>3. \E i \in DOMAIN idle' : idle'[i] = c
    BY <1>1, <1>2
  <2>4. Pooled' \subseteq Pooled \cup {c}
    BY <2>1 DEF Pooled
  <2>5. Pooled \cup {c} \subseteq Pooled'
    BY <2>2, <2>3 DEF Pooled
  <2> QED
    BY <2>4, <2>5
<1> QED
  BY <1>2, <1>4, <1>5

LEMMA OneLine ==
  ASSUME NEW S, NEW s \in Seq(S), NEW e \in S
  PROVE  /\ s = <<>> => Append(s, e) = <<e>>
         /\ Append(s, e) \in Seq(S)
         /\ s # <<>> => Head(s) \in S /\ Tail(s) \in Seq(S)
         /\ Head(<<e>>) = e /\ Tail(<<e>>) = <<>> /\ <<e>> # <<>>
<1>1. s = <<>> => Append(s, e) = <<e>>
  OBVIOUS
<1>2. Append(s, e) \in Seq(S)
  OBVIOUS
<1>3. s # <<>> => Head(s) \in S /\ Tail(s) \in Seq(S)
  OBVIOUS
<1>4. Head(<<e>>) = e
  OBVIOUS
<1>5. Tail(<<e>>) = <<>>
  OBVIOUS
<1>6. <<e>> # <<>>
  OBVIOUS
<1> QED
  BY <1>1, <1>2, <1>3, <1>4, <1>5, <1>6

------------------------------------------------------------------------------
(* Every step keeps the invariant.                                         *)

LEMMA IInvInit == Init => IInv
BY PoolAssumption DEF Init, IInv, TypeOK, OneUser, Holding, InSync, AnswerIsOwn,
   Pooled, Quiet

\* A call closes the connection it holds, or fails before it has one.
LEMMA CloseStep ==
  ASSUME IInv, NEW k \in Calls, NEW why \in Failures,
         pc[k] \in {"write", "wait"}, CloseAndFail(k, why),
         why \notin Calls
  PROVE  IInv'
<1> USE PoolAssumption DEF IInv
<1>1. conn[k] \in Conns /\ conn[k] \in open /\ conn[k] \notin Pooled
  BY DEF TypeOK, OneUser, Holding
<1>2. Pooled' = Pooled
  BY DEF CloseAndFail, Pooled
<1>3. TypeOK'
  BY <1>1 DEF CloseAndFail, TypeOK
<1>4. OneUser'
  BY <1>1, <1>2 DEF CloseAndFail, TypeOK, OneUser
<1>5. Holding'
  BY <1>1 DEF CloseAndFail, TypeOK, Holding
<1>6. \A l \in Calls : l # k /\ conn[l] # None => conn[l] # conn[k]
  BY <1>1 DEF OneUser
<1>7. \A c \in Conns : c # conn[k] =>
        (Quiet(c) <=> Quiet(c)') /\ \A l \in Calls : Asked(c, l) <=> Asked(c, l)'
  BY <1>1 DEF CloseAndFail, TypeOK, Quiet, Asked
<1>8. InSync'
  BY <1>1, <1>2, <1>6, <1>7 DEF CloseAndFail, TypeOK, OneUser, Holding, InSync
<1>9. AnswerIsOwn'
  BY DEF CloseAndFail, TypeOK, AnswerIsOwn
<1> QED
  BY <1>3, <1>4, <1>5, <1>8, <1>9

\* A step at the enclave's end of c leaves all other connections alone.
OnlyWire(c) ==
  /\ UNCHANGED <<pc, conn, got, idle, open>>
  /\ TypeOK'
  /\ \A d \in Conns \ {c} :
       enclave'[d] = enclave[d] /\ up'[d] = up[d] /\ down'[d] = down[d]

LEMMA WireStep ==
  ASSUME IInv, NEW c \in Conns, OnlyWire(c),
         c \in open /\ Quiet(c) => Quiet(c)',
         \A k \in Calls : c \in open /\ Asked(c, k) => Asked(c, k)'
  PROVE  IInv'
<1> USE DEF IInv, OnlyWire
<1>1. Pooled' = Pooled
  BY DEF Pooled
<1>2. OneUser' /\ Holding' /\ AnswerIsOwn'
  BY <1>1 DEF OneUser, Holding, AnswerIsOwn
<1>3. \A d \in Conns \ {c} :
        (Quiet(d) => Quiet(d)') /\ \A k \in Calls : Asked(d, k) => Asked(d, k)'
  BY DEF Quiet, Asked
<1>4. \A d \in Pooled : Quiet(d)'
  BY <1>1, <1>3 DEF InSync, OneUser, TypeOK
<1>5. \A k \in Calls : pc[k] \in {"write", "wait", "put"} => conn[k] \in open \cap Conns
  BY DEF Holding, OneUser, TypeOK
<1>6. InSync'
  BY <1>1, <1>3, <1>4, <1>5 DEF InSync
<1> QED
  BY <1>2, <1>6

LEMMA GetStep ==
  ASSUME IInv, NEW k \in Calls, Get(k)
  PROVE  IInv'
<1> USE PoolAssumption DEF IInv
<1>1. CASE idle = <<>>
  <2>1. /\ pc' = [pc EXCEPT ![k] = "dial"]
        /\ UNCHANGED <<conn, got, idle, open, enclave, up, down>>
    BY <1>1 DEF Get
  <2>2. pc[k] = "ready" /\ Pooled' = Pooled
    BY <2>1 DEF Get, Pooled
  <2>3. TypeOK' /\ OneUser' /\ Holding' /\ AnswerIsOwn'
    BY <2>1, <2>2 DEF TypeOK, OneUser, Holding, AnswerIsOwn
  <2>4. InSync'
    BY <2>1, <2>2 DEF TypeOK, InSync, Quiet, Asked
  <2> QED
    BY <2>3, <2>4
<1>2. CASE idle # <<>>
  <2> DEFINE c == idle[Len(idle)]
  <2>1. /\ pc[k] = "ready"
        /\ pc' = [pc EXCEPT ![k] = "write"]
        /\ conn' = [conn EXCEPT ![k] = c]
        /\ idle' = SubSeq(idle, 1, Len(idle) - 1)
        /\ UNCHANGED <<got, open, enclave, up, down>>
    BY <1>2 DEF Get
  <2>2. /\ idle' \in Seq(Conns) /\ Len(idle') = Len(idle) - 1 /\ c \in Conns
        /\ \A i, j \in DOMAIN idle' : idle'[i] = idle'[j] => i = j
        /\ Pooled' = Pooled \ {c} /\ c \in Pooled
    BY <1>2, <2>1, PoolOut
  <2> HIDE DEF c
  <2>4. conn[k] = None
    BY <2>1 DEF Holding, TypeOK
  <2>5. TypeOK'
    <3>1. Len(idle) \in Nat
      BY DEF TypeOK
    <3> QED
      BY <2>1, <2>2, <3>1 DEF TypeOK
  <2>6. OneUser'
    BY <2>1, <2>2 DEF TypeOK, OneUser
  <2>7. Holding' /\ AnswerIsOwn'
    BY <2>1, <2>2 DEF TypeOK, Holding, AnswerIsOwn
  <2>8. InSync'
    BY <2>1, <2>2 DEF TypeOK, InSync, Quiet, Asked
  <2> QED
    BY <2>5, <2>6, <2>7, <2>8
<1> QED
  BY <1>1, <1>2

LEMMA DialStep ==
  ASSUME IInv, NEW k \in Calls, Dial(k)
  PROVE  IInv'
<1> USE PoolAssumption DEF IInv
<1>1. PICK c \in Conns \ open :
         /\ enclave[c] = "closed"
         /\ conn' = [conn EXCEPT ![k] = c]
         /\ open' = open \cup {c}
         /\ enclave' = [enclave EXCEPT ![c] = "reading"]
         /\ up' = [up EXCEPT ![c] = <<>>]
         /\ down' = [down EXCEPT ![c] = <<>>]
  BY DEF Dial
<1>2. /\ pc[k] = "dial" /\ pc' = [pc EXCEPT ![k] = "write"]
      /\ UNCHANGED <<got, idle>> /\ Pooled' = Pooled
  BY DEF Dial, Pooled
<1>3. c \notin Pooled /\ \A l \in Calls : conn[l] # c
  BY DEF OneUser
<1>4. TypeOK'
  BY <1>1, <1>2 DEF TypeOK
<1>5. OneUser'
  BY <1>1, <1>2, <1>3 DEF TypeOK, OneUser
<1>6. Holding' /\ AnswerIsOwn'
  BY <1>1, <1>2 DEF TypeOK, Holding, AnswerIsOwn
<1>7. \A d \in Conns \ {c} :
        (Quiet(d) => Quiet(d)') /\ \A l \in Calls : Asked(d, l) => Asked(d, l)'
  BY <1>1 DEF TypeOK, Quiet, Asked
<1>8. Quiet(c)'
  BY <1>1 DEF TypeOK, Quiet
<1>9. InSync'
  <2>1. \A d \in Pooled' : Quiet(d)'
    BY <1>2, <1>3, <1>7 DEF InSync, OneUser, TypeOK
  <2>2. ASSUME NEW l \in Calls, pc'[l] \in {"write", "put"}
        PROVE  Quiet(conn[l])'
    <3>1. CASE l = k
      BY <1>1, <1>8, <3>1 DEF TypeOK, Quiet
    <3>2. CASE l # k
      <4>1. pc[l] = pc'[l] /\ conn'[l] = conn[l]
        BY <1>1, <1>2, <3>2 DEF TypeOK
      <4>2. conn[l] \in Conns \ {c} /\ Quiet(conn[l])
        BY <2>2, <4>1, <1>3 DEF Holding, TypeOK, InSync
      <4> QED
        BY <4>1, <4>2, <1>7 DEF Quiet
    <3> QED
      BY <3>1, <3>2
  <2>3. ASSUME NEW l \in Calls, pc'[l] = "wait"
        PROVE  Asked(conn[l], l)'
    <3>1. l # k /\ pc[l] = "wait" /\ conn'[l] = conn[l]
      BY <1>1, <1>2, <2>3 DEF TypeOK
    <3>2. conn[l] \in Conns \ {c} /\ Asked(conn[l], l)
      BY <3>1, <1>3 DEF Holding, TypeOK, InSync
    <3> QED
      BY <3>1, <3>2, <1>7 DEF Asked
  <2> QED
    BY <2>1, <2>2, <2>3 DEF InSync
<1> QED
  BY <1>4, <1>5, <1>6, <1>9

LEMMA WriteStep ==
  ASSUME IInv, NEW k \in Calls, Write(k)
  PROVE  IInv'
<1> USE PoolAssumption DEF IInv
<1> DEFINE c == conn[k]
<1>1. /\ pc[k] = "write" /\ pc' = [pc EXCEPT ![k] = "wait"]
      /\ UNCHANGED <<conn, got, idle, open, enclave, down>>
      /\ up' = IF enclave[c] = "closed" THEN up ELSE [up EXCEPT ![c] = Append(@, k)]
      /\ Pooled' = Pooled /\ c' = c
  BY DEF Write, Pooled
<1>2. c \in Conns \ Pooled /\ \A l \in Calls \ {k} : conn[l] # c
  BY <1>1 DEF Holding, OneUser, TypeOK
<1>3. Quiet(c)
  BY <1>1 DEF InSync
<1>4. up[c] = <<>> /\ up[c] \in Seq(Calls) /\ Append(up[c], k) = <<k>>
      /\ Append(up[c], k) \in Seq(Calls)
  BY <1>2, <1>3, OneLine DEF Quiet, TypeOK
<1> HIDE DEF c
<1>5. TypeOK'
  BY <1>1, <1>2, <1>4 DEF TypeOK
<1>6. OneUser' /\ Holding' /\ AnswerIsOwn'
  BY <1>1 DEF TypeOK, OneUser, Holding, AnswerIsOwn
<1>7. \A d \in Conns \ {c} :
        (Quiet(d) => Quiet(d)') /\ \A l \in Calls : Asked(d, l) => Asked(d, l)'
  BY <1>1 DEF TypeOK, Quiet, Asked
<1>8. Asked(c, k)'
  BY <1>1, <1>2, <1>3, <1>4 DEF TypeOK, Quiet, Asked
<1>9. InSync'
  <2>1. \A d \in Pooled' : Quiet(d)'
    BY <1>1, <1>2, <1>7 DEF InSync, OneUser, TypeOK
  <2>2. ASSUME NEW l \in Calls, l # k
        PROVE  /\ pc'[l] \in {"write", "put"} => Quiet(conn[l])'
               /\ pc'[l] = "wait" => Asked(conn[l], l)'
    <3>1. pc'[l] = pc[l] /\ conn'[l] = conn[l]
      BY <1>1, <2>2 DEF TypeOK
    <3>2. pc[l] \in {"write", "put", "wait"} => conn[l] \in Conns \ {c}
      BY <1>2, <2>2 DEF Holding, TypeOK
    <3>3. pc[l] \in {"write", "put"} => Quiet(conn[l])'
      BY <3>1, <3>2, <1>7 DEF InSync, Quiet
    <3>4. pc[l] = "wait" => Asked(conn[l], l)'
      BY <3>1, <3>2, <1>7 DEF InSync, Asked
    <3> QED
      BY <3>1, <3>3, <3>4
  <2>3. pc'[k] = "wait" /\ Asked(conn[k], k)'
    BY <1>1, <1>8 DEF TypeOK, Asked, c
  <2> QED
    BY <2>1, <2>2, <2>3 DEF InSync
<1> QED
  BY <1>5, <1>6, <1>9

LEMMA ReadStep ==
  ASSUME IInv, NEW k \in Calls, Read(k)
  PROVE  IInv'
<1> USE PoolAssumption DEF IInv
<1> DEFINE c == conn[k]
<1>1. /\ pc[k] = "wait" /\ pc' = [pc EXCEPT ![k] = "put"]
      /\ down[c] # <<>>
      /\ got' = [got EXCEPT ![k] = Head(down[c])]
      /\ down' = [down EXCEPT ![c] = Tail(@)]
      /\ UNCHANGED <<conn, idle, open, enclave, up>>
      /\ Pooled' = Pooled /\ c' = c
  BY DEF Read, Pooled
<1>2. c \in Conns \ Pooled /\ \A l \in Calls \ {k} : conn[l] # c
  BY <1>1 DEF Holding, OneUser, TypeOK
<1>3. Asked(c, k)
  BY <1>1 DEF InSync
<1>4. /\ up[c] = <<>> /\ enclave[c] \in {"reading", "closed"}
      /\ Head(down[c]) \in {k, GaveUp} /\ Tail(down[c]) = <<>>
  <2>1. /\ up[c] = <<>> /\ enclave[c] \in {"reading", "closed"}
        /\ down[c] \in {<<k>>, <<GaveUp>>}
    BY <1>1, <1>3 DEF Asked
  <2>2. /\ Head(<<k>>) = k /\ Tail(<<k>>) = <<>>
        /\ Head(<<GaveUp>>) = GaveUp /\ Tail(<<GaveUp>>) = <<>>
    OBVIOUS
  <2> QED
    BY <2>1, <2>2
<1> HIDE DEF c
<1>5. TypeOK'
  <2>1. <<>> \in Seq(Lines) /\ {k, GaveUp} \subseteq Lines
    BY DEF Lines
  <2> QED
    BY <1>1, <1>2, <1>4, <2>1 DEF TypeOK
<1>6. OneUser' /\ Holding'
  BY <1>1 DEF TypeOK, OneUser, Holding
<1>7. AnswerIsOwn'
  BY <1>1, <1>4 DEF TypeOK, AnswerIsOwn
<1>8. \A d \in Conns \ {c} :
        (Quiet(d) => Quiet(d)') /\ \A l \in Calls : Asked(d, l) => Asked(d, l)'
  BY <1>1 DEF TypeOK, Quiet, Asked
<1>9. Quiet(c)'
  BY <1>1, <1>2, <1>4 DEF TypeOK, Quiet
<1>10. InSync'
  <2>1. \A d \in Pooled' : Quiet(d)'
    BY <1>1, <1>2, <1>8 DEF InSync, OneUser, TypeOK
  <2>2. ASSUME NEW l \in Calls, l # k
        PROVE  /\ pc'[l] \in {"write", "put"} => Quiet(conn[l])'
               /\ pc'[l] = "wait" => Asked(conn[l], l)'
    <3>1. pc'[l] = pc[l] /\ conn'[l] = conn[l]
      BY <1>1, <2>2 DEF TypeOK
    <3>2. pc[l] \in {"write", "put", "wait"} => conn[l] \in Conns \ {c}
      BY <1>2, <2>2 DEF Holding, TypeOK
    <3>3. pc[l] \in {"write", "put"} => Quiet(conn[l])'
      BY <3>1, <3>2, <1>8 DEF InSync, Quiet
    <3>4. pc[l] = "wait" => Asked(conn[l], l)'
      BY <3>1, <3>2, <1>8 DEF InSync, Asked
    <3> QED
      BY <3>1, <3>3, <3>4
  <2>3. pc'[k] = "put" /\ Quiet(conn[k])'
    BY <1>1, <1>9 DEF TypeOK, Quiet, c
  <2> QED
    BY <2>1, <2>2, <2>3 DEF InSync
<1> QED
  BY <1>5, <1>6, <1>7, <1>10

LEMMA PutStep ==
  ASSUME IInv, NEW k \in Calls, Put(k)
  PROVE  IInv'
<1> USE PoolAssumption DEF IInv
<1>1. /\ pc[k] = "put" /\ pc' = [pc EXCEPT ![k] = "done"]
      /\ conn' = [conn EXCEPT ![k] = None]
      /\ UNCHANGED <<got, enclave, up>>
  BY DEF Put
<1>2. PICK c \in Conns : c = conn[k]
  BY <1>1 DEF Holding, TypeOK
<1>3. c \in open \ Pooled /\ \A l \in Calls \ {k} : conn[l] # c
  BY <1>1, <1>2 DEF OneUser, TypeOK
<1>4. Quiet(c)
  BY <1>1, <1>2 DEF InSync
<1>5. CASE Len(idle) >= MaxIdle
  <2>1. /\ open' = open \ {c} /\ down' = [down EXCEPT ![c] = <<>>]
        /\ UNCHANGED idle /\ Pooled' = Pooled
    BY <1>2, <1>5 DEF Put, Pooled
  <2>2. TypeOK'
    BY <1>1, <2>1 DEF TypeOK
  <2>3. OneUser' /\ Holding' /\ AnswerIsOwn'
    BY <1>1, <1>2, <1>3, <2>1 DEF TypeOK, OneUser, Holding, AnswerIsOwn
  <2>4. \A d \in Conns \ {c} :
          (Quiet(d) => Quiet(d)') /\ \A l \in Calls : Asked(d, l) => Asked(d, l)'
    BY <1>1, <2>1 DEF TypeOK, Quiet, Asked
  <2>5. \A d \in Pooled' : Quiet(d)'
    BY <1>3, <2>1, <2>4 DEF InSync, OneUser, TypeOK
  <2>6. ASSUME NEW l \in Calls, pc'[l] \in {"write", "wait", "put"}
        PROVE  /\ pc'[l] \in {"write", "put"} => Quiet(conn[l])'
               /\ pc'[l] = "wait" => Asked(conn[l], l)'
    <3>1. l # k /\ pc'[l] = pc[l] /\ conn'[l] = conn[l]
      BY <1>1, <2>6 DEF TypeOK
    <3>2. conn[l] \in Conns \ {c}
      BY <1>3, <2>6, <3>1 DEF Holding, TypeOK
    <3>3. pc[l] \in {"write", "put"} => Quiet(conn[l])'
      BY <3>1, <3>2, <2>4 DEF InSync, Quiet
    <3>4. pc[l] = "wait" => Asked(conn[l], l)'
      BY <3>1, <3>2, <2>4 DEF InSync, Asked
    <3> QED
      BY <3>1, <3>3, <3>4
  <2>7. InSync'
    BY <2>5, <2>6 DEF InSync
  <2> QED
    BY <2>2, <2>3, <2>7
<1>6. CASE ~(Len(idle) >= MaxIdle)
  <2>1. /\ idle' = Append(idle, c)
        /\ UNCHANGED <<open, down>>
    BY <1>2, <1>6 DEF Put
  <2>2. /\ idle' \in Seq(Conns) /\ Len(idle') = Len(idle) + 1
        /\ \A i, j \in DOMAIN idle' : idle'[i] = idle'[j] => i = j
        /\ Pooled' = Pooled \cup {c}
    BY <1>3, <2>1, PoolIn
  <2>3. TypeOK'
    <3>1. Len(idle') <= MaxIdle
      <4>1. Len(idle) \in Nat
        BY DEF TypeOK
      <4> QED
        BY <4>1, <1>6, <2>2
    <3> QED
      BY <1>1, <2>1, <2>2, <3>1 DEF TypeOK
  <2>4. OneUser'
    BY <1>1, <1>2, <1>3, <2>1, <2>2 DEF TypeOK, OneUser
  <2>5. Holding' /\ AnswerIsOwn'
    BY <1>1, <1>2, <1>3, <2>1 DEF TypeOK, Holding, AnswerIsOwn
  <2>6. InSync'
    BY <1>1, <1>2, <1>4, <2>1, <2>2 DEF TypeOK, Holding, InSync, Quiet, Asked
  <2> QED
    BY <2>3, <2>4, <2>5, <2>6
<1> QED
  BY <1>5, <1>6

LEMMA EnclaveStep ==
  ASSUME IInv, NEW c \in Conns,
         \/ Serve(c) \/ Answer(c) \/ IdleTimeout(c) \/ LineTooLong(c) \/ EndOfFile(c)
  PROVE  IInv'
<1> USE PoolAssumption DEF IInv
<1>1. CASE Serve(c)
  <2>1. up[c] # <<>> => Head(up[c]) \in Calls /\ Tail(up[c]) \in Seq(Calls)
    BY DEF TypeOK
  <2>2. OnlyWire(c)
    BY <1>1, <2>1 DEF Serve, OnlyWire, TypeOK
  <2>3. ~Quiet(c)
    BY <1>1 DEF Serve, Quiet
  <2>4. ASSUME NEW k \in Calls, Asked(c, k)
        PROVE  Asked(c, k)'
    <3>1. up[c] = <<k>> /\ down[c] = <<>>
      BY <1>1, <2>4 DEF Serve, Asked
    <3>2. Head(<<k>>) = k /\ Tail(<<k>>) = <<>>
      OBVIOUS
    <3> QED
      BY <1>1, <3>1, <3>2 DEF Serve, Asked, TypeOK
  <2> QED
    BY <2>2, <2>3, <2>4, WireStep
<1>2. CASE Answer(c)
  <2>1. enclave[c] \in Calls /\ enclave[c] \in Lines
    BY <1>2 DEF Answer, Busy, Lines
  <2>2. /\ enclave' = [enclave EXCEPT ![c] = "reading"]
        /\ UNCHANGED <<pc, conn, got, idle, open, up>>
        /\ down' = IF c \in open THEN [down EXCEPT ![c] = Append(@, enclave[c])] ELSE down
    BY <1>2 DEF Answer, Send
  <2>3. Append(down[c], enclave[c]) \in Seq(Lines)
    BY <2>1, OneLine DEF TypeOK
  <2>4. OnlyWire(c)
    BY <2>2, <2>3 DEF OnlyWire, TypeOK
  <2>5. ASSUME NEW k \in Calls, Asked(c, k), c \in open
        PROVE  Asked(c, k)'
    <3>1. CASE enclave[c] = k /\ up[c] = <<>> /\ down[c] = <<>>
      <4>1. Append(down[c], k) = <<k>>
        BY <3>1
      <4> QED
        BY <2>2, <2>5, <3>1, <4>1 DEF Asked, TypeOK
    <3>2. CASE enclave[c] # k
      <4>1. enclave[c] \in {"reading", "closed"}
        BY <2>5, <3>2 DEF Asked
      <4> QED
        BY <2>1, <4>1, NameAssumption
    <3> QED
      BY <2>1, <2>5, <3>1, <3>2, NameAssumption DEF Asked
  <2>6. ~Quiet(c)
    BY <2>1, NameAssumption DEF Quiet
  <2> QED
    BY <2>4, <2>5, <2>6, WireStep
<1>3. CASE IdleTimeout(c)
  <2>1. c \in open /\ enclave[c] = "reading" /\ down[c] = <<>>
    BY <1>3 DEF IdleTimeout, OneUser, TypeOK
  <2>2. /\ enclave' = [enclave EXCEPT ![c] = "closed"]
        /\ up' = [up EXCEPT ![c] = <<>>]
        /\ down' = [down EXCEPT ![c] = Append(@, GaveUp)]
        /\ UNCHANGED <<pc, conn, got, idle, open>>
    BY <1>3, <2>1 DEF IdleTimeout, GiveUp, Send
  <2>3. Append(down[c], GaveUp) = <<GaveUp>> /\ <<GaveUp>> \in Seq(Lines)
    BY <2>1 DEF Lines
  <2>4. OnlyWire(c)
    BY <2>2, <2>3 DEF OnlyWire, TypeOK
  <2>5. up'[c] = <<>> /\ enclave'[c] = "closed" /\ down'[c] = <<GaveUp>>
    BY <2>2, <2>3 DEF TypeOK
  <2>6. Quiet(c)' /\ \A k \in Calls : Asked(c, k)'
    BY <2>5 DEF Quiet, Asked
  <2> QED
    BY <2>4, <2>6, WireStep
<1>4. CASE LineTooLong(c)
  <2>1. /\ enclave[c] = "reading" /\ up[c] # <<>>
        /\ enclave' = [enclave EXCEPT ![c] = "closed"]
        /\ up' = [up EXCEPT ![c] = <<>>]
        /\ down' = IF c \in open THEN [down EXCEPT ![c] = Append(@, GaveUp)] ELSE down
        /\ UNCHANGED <<pc, conn, got, idle, open>>
    BY <1>4 DEF LineTooLong, GiveUp, Send
  <2>2. GaveUp \in Lines /\ <<>> \in Seq(Calls)
    BY DEF Lines
  <2>3. Append(down[c], GaveUp) \in Seq(Lines)
    BY <2>2, OneLine DEF TypeOK
  <2>4. OnlyWire(c)
    BY <2>1, <2>2, <2>3 DEF OnlyWire, TypeOK
  <2>5. ~Quiet(c)
    BY <2>1 DEF Quiet
  <2>6. ASSUME NEW k \in Calls, Asked(c, k), c \in open
        PROVE  Asked(c, k)'
    <3>1. down[c] = <<>>
      BY <2>1, <2>6 DEF Asked
    <3>2. Append(down[c], GaveUp) = <<GaveUp>>
      BY <3>1
    <3> QED
      BY <2>1, <2>6, <3>1, <3>2 DEF Asked, TypeOK
  <2> QED
    BY <2>4, <2>5, <2>6, WireStep
<1>5. CASE EndOfFile(c)
  <2>1. OnlyWire(c)
    BY <1>5 DEF EndOfFile, OnlyWire, TypeOK
  <2>2. c \notin open
    BY <1>5 DEF EndOfFile
  <2> QED
    BY <2>1, <2>2, WireStep
<1> QED
  BY <1>1, <1>2, <1>3, <1>4, <1>5

LEMMA CrashStep ==
  ASSUME IInv, Crash
  PROVE  IInv'
<1> USE PoolAssumption DEF IInv
<1>1. PICK lost \in SUBSET Conns :
         down' = [c \in Conns |-> IF c \in lost THEN <<>> ELSE down[c]]
  BY DEF Crash
<1>2. /\ enclave' = [c \in Conns |-> "closed"] /\ up' = [c \in Conns |-> <<>>]
      /\ UNCHANGED <<pc, conn, got, idle, open>> /\ Pooled' = Pooled
  BY DEF Crash, Pooled
<1>3. TypeOK'
  BY <1>1, <1>2 DEF TypeOK
<1>4. OneUser' /\ Holding' /\ AnswerIsOwn'
  BY <1>2 DEF OneUser, Holding, AnswerIsOwn
<1>5. \A c \in Conns :
        (Quiet(c) => Quiet(c)') /\ \A k \in Calls : Asked(c, k) => Asked(c, k)'
  BY <1>1, <1>2 DEF Quiet, Asked
<1>6. /\ Pooled \subseteq Conns
      /\ \A k \in Calls : pc[k] \in {"write", "wait", "put"} => conn[k] \in Conns
  BY DEF OneUser, TypeOK, Holding
<1>7. InSync'
  BY <1>2, <1>5, <1>6 DEF InSync
<1> QED
  BY <1>3, <1>4, <1>7

LEMMA IInvStep ==
  ASSUME IInv, [Next]_vars
  PROVE  IInv'
<1>1. ASSUME NEW k \in Calls, Proceed(k)
      PROVE  IInv'
  <2>1. CASE Dial(k)
    BY <2>1, DialStep
  <2>2. CASE DialFails(k)
    <3>1. /\ pc[k] = "dial" /\ pc' = [pc EXCEPT ![k] = "done"]
          /\ got' = [got EXCEPT ![k] = "unreachable"]
          /\ UNCHANGED <<conn, idle, open, enclave, up, down>> /\ Pooled' = Pooled
      BY <2>2 DEF DialFails, Pooled
    <3>2. TypeOK' /\ OneUser' /\ Holding'
      BY <3>1 DEF IInv, TypeOK, OneUser, Holding, Failures
    <3>3. AnswerIsOwn'
      BY <3>1, NameAssumption DEF IInv, TypeOK, AnswerIsOwn
    <3>4. InSync'
      BY <3>1 DEF IInv, TypeOK, InSync, Quiet, Asked
    <3> QED
      BY <3>2, <3>3, <3>4 DEF IInv
  <2>3. CASE Write(k)
    BY <2>3, WriteStep
  <2>4. CASE Read(k)
    BY <2>4, ReadStep
  <2>5. CASE Broken(k)
    <3>1. pc[k] \in {"write", "wait"} /\ CloseAndFail(k, "broken")
      BY <2>5 DEF Broken
    <3> QED
      BY <3>1, CloseStep, NameAssumption DEF Failures
  <2>6. CASE Timeout(k)
    <3>1. pc[k] \in {"write", "wait"} /\ CloseAndFail(k, "timeout")
      BY <2>6 DEF Timeout
    <3> QED
      BY <3>1, CloseStep, NameAssumption DEF Failures
  <2>7. CASE Put(k)
    BY <2>7, PutStep
  <2> QED
    BY <1>1, <2>1, <2>2, <2>3, <2>4, <2>5, <2>6, <2>7 DEF Proceed
<1>2. ASSUME NEW k \in Calls, Get(k)
      PROVE  IInv'
  BY <1>2, GetStep
<1>3. ASSUME NEW c \in Conns,
             \/ Serve(c) \/ Answer(c) \/ IdleTimeout(c) \/ LineTooLong(c) \/ EndOfFile(c)
      PROVE  IInv'
  BY <1>3, EnclaveStep
<1>4. CASE Crash
  BY <1>4, CrashStep
<1>5. CASE UNCHANGED vars
  BY <1>5 DEF vars, IInv, TypeOK, OneUser, Holding, InSync, AnswerIsOwn, Pooled, Quiet, Asked
<1> QED
  BY <1>1, <1>2, <1>3, <1>4, <1>5 DEF Next

------------------------------------------------------------------------------

\* The variables keep their shapes, and the pool its limit (Put).
THEOREM PoolTypeCorrect == Spec => []TypeOK
<1>1. IInv => TypeOK
  BY DEF IInv
<1> QED
  BY <1>1, IInvInit, IInvStep, PTL DEF Spec

\* A connection has one user: one call, or the pool, once (Get and Put).
THEOREM ConnectionsAreExclusive == Spec => []OneUser
<1>1. IInv => OneUser
  BY DEF IInv
<1> QED
  BY <1>1, IInvInit, IInvStep, PTL DEF Spec

\* Between calls a connection carries nothing but the enclave's last line
\* (SendToEnclave closes it on every failure, GiveUp at the enclave's end).
THEOREM WiresInSync == Spec => []InSync
<1>1. IInv => InSync
  BY DEF IInv
<1> QED
  BY <1>1, IInvInit, IInvStep, PTL DEF Spec

\* An answer is only ever read by the call that asked (SendToEnclave), for any
\* number of calls, time-outs, idle closes and crashes of the enclave.
THEOREM AnswersAreOwn == Spec => []AnswerIsOwn
<1>1. IInv => AnswerIsOwn
  BY DEF IInv
<1> QED
  BY <1>1, IInvInit, IInvStep, PTL DEF Spec

\* An open connection stays in the pool or with its call until it is closed.
LEMMA NoLeakStep ==
  ASSUME IInv, NoLeak, [Next]_vars
  PROVE  NoLeak'
<1> USE DEF IInv
<1>1. ASSUME NEW k \in Calls, Get(k)
      PROVE  NoLeak'
  <2>1. CASE idle = <<>>
    BY <1>1, <2>1 DEF Get, NoLeak, Pooled
  <2>2. CASE idle # <<>>
    <3>1. /\ conn' = [conn EXCEPT ![k] = idle[Len(idle)]] /\ pc[k] = "ready"
          /\ idle' = SubSeq(idle, 1, Len(idle) - 1) /\ open' = open
      BY <1>1, <2>2 DEF Get
    <3>2. Pooled' = Pooled \ {idle[Len(idle)]}
      BY <2>2, <3>1, PoolOut
    <3>3. /\ conn'[k] = idle[Len(idle)] /\ conn[k] = None
          /\ \A l \in Calls \ {k} : conn'[l] = conn[l]
      BY <3>1 DEF TypeOK, Holding
    <3>4. \A c \in open : c # None
      BY PoolAssumption DEF TypeOK
    <3> QED
      BY <3>1, <3>2, <3>3, <3>4 DEF NoLeak
  <2> QED
    BY <2>1, <2>2
<1>2. ASSUME NEW k \in Calls, Dial(k)
      PROVE  NoLeak'
  <2>1. PICK c \in Conns : conn' = [conn EXCEPT ![k] = c] /\ open' = open \cup {c}
    BY <1>2 DEF Dial
  <2>2. Pooled' = Pooled /\ conn[k] = None
    <3>1. idle' = idle /\ pc[k] = "dial"
      BY <1>2 DEF Dial
    <3>2. conn[k] = None
      BY <3>1 DEF Holding, TypeOK
    <3> QED
      BY <3>1, <3>2 DEF Pooled
  <2>3. conn'[k] = c /\ \A l \in Calls \ {k} : conn'[l] = conn[l]
    BY <2>1 DEF TypeOK
  <2>4. \A d \in open : d # None
    BY PoolAssumption DEF TypeOK
  <2> QED
    BY <2>1, <2>2, <2>3, <2>4 DEF NoLeak
<1>3. ASSUME NEW k \in Calls, Broken(k) \/ Timeout(k)
      PROVE  NoLeak'
  <2>1. open' = open \ {conn[k]} /\ Pooled' = Pooled
    BY <1>3 DEF Broken, Timeout, CloseAndFail, Pooled
  <2>2. \A l \in Calls \ {k} : conn'[l] = conn[l]
    BY <1>3 DEF Broken, Timeout, CloseAndFail, TypeOK
  <2> QED
    BY <2>1, <2>2 DEF NoLeak
<1>4. ASSUME NEW k \in Calls, Put(k)
      PROVE  NoLeak'
  <2>1. \A l \in Calls \ {k} : conn'[l] = conn[l]
    BY <1>4 DEF Put, TypeOK
  <2>2. conn[k] \in Conns \ Pooled
    BY <1>4 DEF Put, Holding, OneUser, TypeOK
  <2>3. CASE Len(idle) >= MaxIdle
    <3>1. open' = open \ {conn[k]} /\ Pooled' = Pooled
      BY <1>4, <2>3 DEF Put, Pooled
    <3> QED
      BY <2>1, <3>1 DEF NoLeak
  <2>4. CASE ~(Len(idle) >= MaxIdle)
    <3>1. open' = open /\ idle' = Append(idle, conn[k])
      BY <1>4, <2>4 DEF Put
    <3>2. Pooled' = Pooled \cup {conn[k]}
      BY <2>2, <3>1, PoolIn
    <3> QED
      BY <2>1, <3>1, <3>2 DEF NoLeak
  <2> QED
    BY <2>3, <2>4
<1>5. CASE UNCHANGED <<conn, idle, open>>
  BY <1>5 DEF NoLeak, Pooled
<1>6. ASSUME NEW k \in Calls, DialFails(k) \/ Write(k) \/ Read(k)
      PROVE  UNCHANGED <<conn, idle, open>>
  BY <1>6 DEF DialFails, Write, Read
<1>7. ASSUME NEW c \in Conns,
             Serve(c) \/ Answer(c) \/ IdleTimeout(c) \/ LineTooLong(c) \/ EndOfFile(c)
      PROVE  UNCHANGED <<conn, idle, open>>
  BY <1>7 DEF Serve, Answer, IdleTimeout, LineTooLong, EndOfFile, GiveUp
<1>8. Crash => UNCHANGED <<conn, idle, open>>
  BY DEF Crash
<1> QED
  BY <1>1, <1>2, <1>3, <1>4, <1>5, <1>6, <1>7, <1>8 DEF Next, Proceed, vars

\* No sequence of failures, time-outs and crashes leaks a connection
\* (SendToEnclave and Put close what they do not keep).
THEOREM NoConnectionLeaks == Spec => []NoLeak
<1>1. Init => NoLeak
  BY DEF Init, NoLeak
<1> QED
  BY <1>1, NoLeakStep, IInvInit, IInvStep, PTL DEF Spec

------------------------------------------------------------------------------
(* Where requests are.  A connection carries one request at a time, and a  *)
(* request is in one place: on the wire of one connection, or taken from   *)
(* it by the enclave.  It is there only after its call wrote it, and while *)
(* the call waits the place is the call's own connection.  A call that is  *)
(* still waiting, or has not begun to, has no result.                      *)

Has(c, k) == up[c] = <<k>> \/ enclave[c] = k

OnePlace ==
  /\ \A c \in Conns :
       up[c] = <<>> \/ (enclave[c] = "reading" /\ \E k \in Calls : up[c] = <<k>>)
  /\ \A k \in Calls, c, d \in Conns : Has(c, k) /\ Has(d, k) => c = d
  /\ \A k \in Calls, c \in Conns :
       Has(c, k) => ~NotSent(k) /\ (pc[k] = "wait" => conn[k] = c)
  /\ \A k \in Calls : got[k] # None => pc[k] \in {"put", "done"}

LEMMA OneLineOnly ==
  ASSUME NEW k, NEW l
  PROVE  /\ Head(<<k>>) = k /\ Tail(<<k>>) = <<>> /\ <<k>> # <<>>
         /\ <<k>> = <<l>> => k = l
         /\ Append(<<>>, k) = <<k>>
OBVIOUS

LEMMA OnePlaceInit == Init => OnePlace
BY NameAssumption DEF Init, OnePlace, Has

\* A step of call k that moves no request.
LEMMA CallKeepsPlaces ==
  ASSUME IInv, OnePlace, NEW k \in Calls,
         \A c \in Conns : up'[c] = up[c] /\ (enclave'[c] = enclave[c] \/ 
            (up[c] = <<>> /\ enclave[c] = "closed" /\ enclave'[c] = "reading")),
         \A l \in Calls \ {k} : pc'[l] = pc[l] /\ conn'[l] = conn[l] /\ got'[l] = got[l],
         NotSent(k)' => NotSent(k),
         pc'[k] # "wait",
         got'[k] # None => pc'[k] \in {"put", "done"}
  PROVE  OnePlace'
<1>1. \A c \in Conns, l \in Calls : Has(c, l)' <=> Has(c, l)
  BY NameAssumption DEF Has
<1>2. \A l \in Calls : ~NotSent(l) => ~NotSent(l)'
  BY DEF NotSent
<1>3. \A c \in Conns :
        up'[c] = <<>> \/ (enclave'[c] = "reading" /\ \E l \in Calls : up'[c] = <<l>>)
  BY DEF OnePlace
<1>4. \A l \in Calls, c \in Conns :
        Has(c, l) => ~NotSent(l) /\ (pc[l] = "wait" => conn[l] = c)
  BY DEF OnePlace
<1>5. \A l \in Calls, c \in Conns :
        Has(c, l)' => ~NotSent(l)' /\ (pc'[l] = "wait" => conn'[l] = c)
  BY <1>1, <1>2, <1>4
<1>6. \A l \in Calls, c, d \in Conns : Has(c, l)' /\ Has(d, l)' => c = d
  BY <1>1 DEF OnePlace
<1>7. \A l \in Calls : got'[l] # None => pc'[l] \in {"put", "done"}
  BY DEF OnePlace
<1> QED
  BY <1>3, <1>5, <1>6, <1>7 DEF OnePlace

\* A step of the enclave that starts no request: some are lost or answered.
LEMMA EnclaveDropsPlaces ==
  ASSUME OnePlace, UNCHANGED <<pc, conn, got>>,
         \A c \in Conns, l \in Calls : Has(c, l)' => Has(c, l),
         \A c \in Conns :
           up'[c] = <<>> \/ (up'[c] = up[c] /\ enclave'[c] = enclave[c])
  PROVE  OnePlace'
<1>1. \A c \in Conns :
        up'[c] = <<>> \/ (enclave'[c] = "reading" /\ \E l \in Calls : up'[c] = <<l>>)
  BY DEF OnePlace
<1>2. \A l \in Calls, c, d \in Conns : Has(c, l)' /\ Has(d, l)' => c = d
  BY DEF OnePlace
<1>3. \A l \in Calls, c \in Conns :
        Has(c, l)' => ~NotSent(l)' /\ (pc'[l] = "wait" => conn'[l] = c)
  BY DEF OnePlace, NotSent
<1> QED
  BY <1>1, <1>2, <1>3 DEF OnePlace

\* What one call's step does to the wires.
LEMMA CallStep ==
  ASSUME IInv, OnePlace, NEW k \in Calls,
         Get(k) \/ Dial(k) \/ DialFails(k) \/ Broken(k) \/ Timeout(k) \/ Read(k) \/ Put(k)
  PROVE  /\ \A c \in Conns : up'[c] = up[c] /\ (enclave'[c] = enclave[c] \/
              (up[c] = <<>> /\ enclave[c] = "closed" /\ enclave'[c] = "reading"))
         /\ \A l \in Calls \ {k} :
              /\ pc'[l] = pc[l] /\ conn'[l] = conn[l] /\ got'[l] = got[l]
              /\ conn[l] # None => down'[conn[l]] = down[conn[l]]
<1> USE DEF IInv
<1>1. CASE Dial(k)
  <2>1. PICK c \in Conns \ open :
           /\ enclave[c] = "closed"
           /\ conn' = [conn EXCEPT ![k] = c]
           /\ enclave' = [enclave EXCEPT ![c] = "reading"]
           /\ up' = [up EXCEPT ![c] = <<>>]
           /\ down' = [down EXCEPT ![c] = <<>>]
    BY <1>1 DEF Dial
  <2>2. up[c] = <<>>
    BY <2>1 DEF OnePlace
  <2>3. pc' = [pc EXCEPT ![k] = "write"] /\ got' = got
    BY <1>1 DEF Dial
  <2> QED
    BY <2>1, <2>2, <2>3 DEF TypeOK, OneUser
<1>2. CASE Get(k) \/ DialFails(k)
  <2>1. \A l \in Calls \ {k} : pc'[l] = pc[l] /\ conn'[l] = conn[l] /\ got'[l] = got[l]
    BY <1>2 DEF Get, DialFails, TypeOK
  <2>2. UNCHANGED <<up, enclave, down>>
    BY <1>2 DEF Get, DialFails
  <2> QED
    BY <2>1, <2>2
<1>3. CASE Broken(k) \/ Timeout(k) \/ Read(k) \/ Put(k)
  <2>1. /\ UNCHANGED <<up, enclave>>
        /\ \A d \in Conns \ {conn[k]} : down'[d] = down[d]
        /\ conn[k] # None
        /\ \A l \in Calls \ {k} : pc'[l] = pc[l] /\ conn'[l] = conn[l] /\ got'[l] = got[l]
    BY <1>3 DEF Broken, Timeout, CloseAndFail, Read, Put, TypeOK, Holding
  <2>2. \A l \in Calls \ {k} : conn[l] # None => conn[l] \in Conns \ {conn[k]}
    BY <2>1 DEF TypeOK, OneUser
  <2> QED
    BY <2>1, <2>2
<1> QED
  BY <1>1, <1>2, <1>3

LEMMA CallKeeps ==
  ASSUME IInv, OnePlace, NEW k \in Calls,
         Get(k) \/ Dial(k) \/ DialFails(k) \/ Broken(k) \/ Timeout(k) \/ Read(k) \/ Put(k)
  PROVE  OnePlace'
<1>1. NotSent(k)' => NotSent(k)
  BY DEF Get, Dial, DialFails, Broken, Timeout, CloseAndFail, Read, Put, NotSent, IInv, TypeOK
<1>2. pc'[k] # "wait"
  BY DEF Get, Dial, DialFails, Broken, Timeout, CloseAndFail, Read, Put, IInv, TypeOK
<1>3. got'[k] # None => pc'[k] \in {"put", "done"}
  BY DEF Get, Dial, DialFails, Broken, Timeout, CloseAndFail, Read, Put, IInv, TypeOK, OnePlace
<1> QED
  BY <1>1, <1>2, <1>3, CallStep, CallKeepsPlaces

LEMMA WriteKeeps ==
  ASSUME IInv, OnePlace, NEW k \in Calls, Write(k)
  PROVE  OnePlace'
<1> USE DEF IInv
<1>1. /\ pc[k] = "write" /\ pc' = [pc EXCEPT ![k] = "wait"]
      /\ UNCHANGED <<conn, got, idle, open, enclave, down>>
  BY DEF Write
<1>2. PICK c \in Conns : c = conn[k]
  BY <1>1 DEF Holding, TypeOK
<1>3. Quiet(c) /\ up[c] = <<>>
  BY <1>1, <1>2 DEF InSync, Quiet
<1>4. \A d \in Conns : ~Has(d, k)
  BY <1>1 DEF OnePlace, NotSent
<1>5. Append(up[c], k) = <<k>>
  BY <1>3, OneLineOnly
<1>6. CASE enclave[c] = "closed"
  <2>1. up' = up
    BY <1>2, <1>6 DEF Write
  <2>2. \A d \in Conns, l \in Calls : Has(d, l)' <=> Has(d, l)
    BY <1>1, <2>1 DEF Has
  <2>3. \A l \in Calls \ {k} : pc'[l] = pc[l]
    BY <1>1 DEF TypeOK
  <2>4. \A l \in Calls, d \in Conns :
          Has(d, l)' => ~NotSent(l)' /\ (pc'[l] = "wait" => conn'[l] = d)
    BY <1>1, <1>4, <2>2, <2>3 DEF OnePlace, NotSent
  <2>5. \A l \in Calls : got'[l] # None => pc'[l] \in {"put", "done"}
    BY <1>1, <2>3 DEF OnePlace
  <2>6. \A d \in Conns :
          up'[d] = <<>> \/ (enclave'[d] = "reading" /\ \E l \in Calls : up'[d] = <<l>>)
    BY <1>1, <2>1 DEF OnePlace
  <2>7. \A l \in Calls, d, e \in Conns : Has(d, l)' /\ Has(e, l)' => d = e
    BY <2>2 DEF OnePlace
  <2> QED
    BY <2>4, <2>5, <2>6, <2>7 DEF OnePlace
<1>7. CASE enclave[c] # "closed"
  <2>1. up' = [up EXCEPT ![c] = <<k>>] /\ enclave[c] = "reading"
    BY <1>2, <1>3, <1>5, <1>7 DEF Write, Quiet, TypeOK
  <2>2. \A d \in Conns, l \in Calls : Has(d, l)' => Has(d, l) \/ (d = c /\ l = k)
    BY <1>1, <2>1, OneLineOnly DEF Has, TypeOK
  <2>3. \A l \in Calls \ {k} : pc'[l] = pc[l]
    BY <1>1 DEF TypeOK
  <2>4. \A l \in Calls, d \in Conns :
          Has(d, l)' => ~NotSent(l)' /\ (pc'[l] = "wait" => conn'[l] = d)
    <3>1. pc'[k] = "wait" /\ ~NotSent(k)' /\ conn'[k] = c
      BY <1>1, <1>2 DEF TypeOK, NotSent
    <3> QED
      BY <1>1, <1>4, <2>2, <2>3, <3>1 DEF OnePlace, NotSent
  <2>5. \A l \in Calls : got'[l] # None => pc'[l] \in {"put", "done"}
    BY <1>1, <2>3 DEF OnePlace
  <2>6. \A d \in Conns :
          up'[d] = <<>> \/ (enclave'[d] = "reading" /\ \E l \in Calls : up'[d] = <<l>>)
    BY <1>1, <2>1 DEF OnePlace, TypeOK
  <2>7. \A l \in Calls, d, e \in Conns : Has(d, l)' /\ Has(e, l)' => d = e
    BY <1>4, <2>2 DEF OnePlace
  <2> QED
    BY <2>4, <2>5, <2>6, <2>7 DEF OnePlace
<1> QED
  BY <1>6, <1>7

LEMMA ServeKeeps ==
  ASSUME IInv, OnePlace, NEW c \in Conns, Serve(c)
  PROVE  /\ OnePlace'
         /\ \E k \in Calls \ LongCalls :
              /\ up[c] = <<k>> /\ enclave[c] = "reading"
              /\ enclave' = [enclave EXCEPT ![c] = k]
              /\ up' = [up EXCEPT ![c] = <<>>]
<1> USE DEF IInv
<1>1. /\ enclave[c] = "reading" /\ up[c] # <<>> /\ Head(up[c]) \notin LongCalls
      /\ enclave' = [enclave EXCEPT ![c] = Head(up[c])]
      /\ up' = [up EXCEPT ![c] = Tail(@)]
      /\ UNCHANGED <<pc, conn, got, idle, open, down>>
  BY DEF Serve
<1>2. PICK k \in Calls : up[c] = <<k>>
  BY <1>1 DEF OnePlace
<1>3. /\ k \notin LongCalls /\ enclave' = [enclave EXCEPT ![c] = k]
      /\ up' = [up EXCEPT ![c] = <<>>]
  BY <1>1, <1>2, OneLineOnly
<1>4. \A d \in Conns, l \in Calls : Has(d, l)' <=> Has(d, l)
  <2>1. \A d \in Conns \ {c} : up'[d] = up[d] /\ enclave'[d] = enclave[d]
    BY <1>3 DEF TypeOK
  <2>2. up'[c] = <<>> /\ enclave'[c] = k
    BY <1>3 DEF TypeOK
  <2>3. \A l \in Calls : (Has(c, l) <=> l = k) /\ (Has(c, l)' <=> l = k)
    BY <1>1, <1>2, <2>2, OneLineOnly, NameAssumption DEF Has
  <2> QED
    BY <2>1, <2>3 DEF Has
<1>5. \A d \in Conns :
        up'[d] = <<>> \/ (enclave'[d] = "reading" /\ \E l \in Calls : up'[d] = <<l>>)
  BY <1>3 DEF OnePlace, TypeOK
<1>6. OnePlace'
  BY <1>1, <1>4, <1>5 DEF OnePlace, NotSent
<1> QED
  BY <1>1, <1>2, <1>3, <1>6

LEMMA EnclaveKeeps ==
  ASSUME IInv, OnePlace,
         \/ Crash
         \/ \E c \in Conns : Answer(c) \/ IdleTimeout(c) \/ LineTooLong(c) \/ EndOfFile(c)
  PROVE  OnePlace'
<1> USE DEF IInv
<1>1. UNCHANGED <<pc, conn, got>>
  BY DEF Crash, Answer, IdleTimeout, LineTooLong, EndOfFile, GiveUp
<1>2. CASE Crash
  <2>1. \A c \in Conns : up'[c] = <<>> /\ enclave'[c] = "closed"
    BY <1>2 DEF Crash
  <2>2. \A c \in Conns, l \in Calls : ~Has(c, l)'
    BY <2>1, OneLineOnly, NameAssumption DEF Has
  <2> QED
    BY <1>1, <2>1, <2>2, EnclaveDropsPlaces
<1>3. ASSUME NEW c \in Conns, Answer(c) \/ IdleTimeout(c) \/ LineTooLong(c) \/ EndOfFile(c)
      PROVE  OnePlace'
  <2>1. /\ \A d \in Conns \ {c} : up'[d] = up[d] /\ enclave'[d] = enclave[d]
        /\ enclave'[c] \in {"reading", "closed"}
        /\ up'[c] = <<>> \/ (up'[c] = up[c] /\ (Answer(c) \/ EndOfFile(c)))
    BY <1>3 DEF Answer, IdleTimeout, LineTooLong, EndOfFile, GiveUp, TypeOK
  <2>2. Answer(c) \/ EndOfFile(c) => up[c] = <<>>
    BY NameAssumption DEF Answer, Busy, EndOfFile, OnePlace
  <2>3. \A l \in Calls : ~Has(c, l)'
    BY <2>1, <2>2, OneLineOnly, NameAssumption DEF Has
  <2>4. \A d \in Conns, l \in Calls : Has(d, l)' => Has(d, l)
    BY <2>1, <2>3 DEF Has
  <2> QED
    BY <1>1, <2>1, <2>2, <2>4, EnclaveDropsPlaces
<1> QED
  BY <1>2, <1>3

LEMMA OnePlaceStep ==
  ASSUME IInv, OnePlace, [Next]_vars
  PROVE  OnePlace'
<1>1. CASE UNCHANGED vars
  BY <1>1 DEF vars, OnePlace, Has, NotSent
<1> QED
  BY <1>1, CallKeeps, WriteKeeps, ServeKeeps, EnclaveKeeps DEF Next, Proceed

------------------------------------------------------------------------------
(* The pool implements EnclaveCalls.                                       *)

Sent(k) == \E c \in Conns : up[c] = <<k>>
Running(k) == \E c \in Conns : enclave[c] = k

\* The stage of a call depends on these alone.
LEMMA StageKept ==
  ASSUME NEW k \in Calls,
         NotSent(k)' <=> NotSent(k), Sent(k)' <=> Sent(k), Running(k)' <=> Running(k),
         pc'[k] = "wait" <=> pc[k] = "wait",
         pc[k] = "wait" => down'[conn'[k]] = down[conn[k]]
  PROVE  Stage(k)' = Stage(k)
BY DEF Stage, Sent, Running

\* An unsent request is nowhere, and one whose call waits is not elsewhere.
LEMMA Nowhere ==
  ASSUME IInv, OnePlace, NEW k \in Calls,
         NotSent(k) \/ (pc[k] = "wait" /\ ~Has(conn[k], k))
  PROVE  ~Sent(k) /\ ~Running(k)
BY DEF OnePlace, Has, Sent, Running

\* A step of one call, other than its writing, is a step of that call's stage.
LEMMA CallStages ==
  ASSUME IInv, OnePlace, NEW k \in Calls,
         Get(k) \/ Dial(k) \/ DialFails(k) \/ Broken(k) \/ Timeout(k) \/ Read(k) \/ Put(k)
  PROVE  /\ \A l \in Calls : (Sent(l)' <=> Sent(l)) /\ (Running(l)' <=> Running(l))
         /\ \A l \in Calls \ {k} : Stage(l)' = Stage(l)
<1>1. /\ \A c \in Conns : up'[c] = up[c] /\ (enclave'[c] = enclave[c] \/
            (up[c] = <<>> /\ enclave[c] = "closed" /\ enclave'[c] = "reading"))
      /\ \A l \in Calls \ {k} :
            /\ pc'[l] = pc[l] /\ conn'[l] = conn[l]
            /\ conn[l] # None => down'[conn[l]] = down[conn[l]]
  BY CallStep
<1>2. \A l \in Calls : (Sent(l)' <=> Sent(l)) /\ (Running(l)' <=> Running(l))
  BY <1>1, NameAssumption DEF Sent, Running
<1>3. \A l \in Calls : pc[l] = "wait" => conn[l] # None
  BY DEF IInv, Holding
<1>4. \A l \in Calls \ {k} : Stage(l)' = Stage(l)
  BY <1>1, <1>2, <1>3, StageKept DEF NotSent
<1> QED
  BY <1>2, <1>4

\* A call that returns leaves its request where it is, if it is anywhere.
LEMMA CallReturns ==
  ASSUME IInv, OnePlace, NEW k \in Calls,
         DialFails(k) \/ Broken(k) \/ Timeout(k) \/ Read(k) \/ Put(k)
  PROVE  Stage(k)' = IF Stage(k) \in {"sent", "running"} THEN Stage(k) ELSE "gone"
<1>1. pc'[k] \in {"put", "done"}
  BY DEF DialFails, Broken, Timeout, CloseAndFail, Read, Put, IInv, TypeOK
<1>2. NotSent(k) => ~Sent(k) /\ ~Running(k)
  BY Nowhere
<1>3. (Sent(k)' <=> Sent(k)) /\ (Running(k)' <=> Running(k))
  BY CallStages
<1>4. Stage(k)' = IF Sent(k) THEN "sent" ELSE IF Running(k) THEN "running" ELSE "gone"
  BY <1>1, <1>3 DEF Stage, NotSent, Sent, Running
<1>5. /\ Stage(k) = "sent" <=> Sent(k)
      /\ Stage(k) = "running" <=> ~Sent(k) /\ Running(k)
  BY <1>2 DEF Stage, Sent, Running
<1> QED
  BY <1>4, <1>5

\* A step of one stage, in the words of EnclaveCalls.
LEMMA OneMoves ==
  ASSUME NEW k \in Calls, NEW from, NEW to,
         \A l \in Calls \ {k} : Stage(l)' = Stage(l),
         Stage(k) \in from, Stage(k)' \in to
  PROVE  Promise!Move(k, from, to)
<1>1. Stages' = [Stages EXCEPT ![k] = Stage(k)']
  BY DEF Stages
<1>2. Stages[k] \in from
  BY DEF Stages
<1> QED
  BY <1>1, <1>2 DEF Promise!Move

LEMMA StagesSame ==
  ASSUME \A k \in Calls : Stage(k)' = Stage(k)
  PROVE  UNCHANGED Stages
BY DEF Stages

LEMMA TakeRefines ==
  ASSUME IInv, OnePlace, NEW k \in Calls, Get(k) \/ Dial(k) \/ Put(k)
  PROVE  UNCHANGED Promise!vars
<1>1. \A l \in Calls \ {k} : Stage(l)' = Stage(l)
  BY CallStages
<1>2. Stage(k)' = Stage(k)
  <2>1. CASE Get(k) \/ Dial(k)
    <3>1. NotSent(k) /\ NotSent(k)'
      BY <2>1 DEF Get, Dial, NotSent, IInv, TypeOK
    <3> QED
      BY <3>1 DEF Stage
  <2>2. CASE Put(k)
    <3>1. Stage(k) \in {"sent", "running", "gone"}
      BY <2>2 DEF Put, Stage, NotSent
    <3> QED
      BY <2>2, <3>1, CallReturns
  <2> QED
    BY <2>1, <2>2
<1>3. got' = got
  BY DEF Get, Dial, Put
<1> QED
  BY <1>1, <1>2, <1>3, StagesSame DEF Promise!vars

\* A call that fails, before or after its request is sent.
LEMMA FailRefines ==
  ASSUME IInv, OnePlace, NEW k \in Calls, DialFails(k) \/ Broken(k) \/ Timeout(k)
  PROVE  Promise!Unreachable(k) \/ Promise!Broken(k) \/ Promise!Timeout(k)
<1> USE DEF IInv
<1>1. \A l \in Calls \ {k} : Stage(l)' = Stage(l)
  BY CallStages
<1>2. Stage(k)' = IF Stage(k) \in {"sent", "running"} THEN Stage(k) ELSE "gone"
  BY CallReturns
<1>3. got[k] = None
  BY DEF DialFails, Broken, Timeout, OnePlace
<1>4. CASE DialFails(k)
  <2>1. Stage(k) = "unsent" /\ got' = [got EXCEPT ![k] = "unreachable"]
    BY <1>4 DEF DialFails, Stage, NotSent
  <2> QED
    BY <1>1, <1>2, <1>3, <2>1, OneMoves DEF Promise!Unreachable, Promise!Return
<1>5. CASE Broken(k)
  <2>1. Stage(k) \in {"unsent", "gone"}
    <3>1. CASE pc[k] = "write"
      BY <3>1 DEF Stage, NotSent
    <3>2. CASE pc[k] = "wait" /\ down[conn[k]] = <<>>
      <4>1. enclave[conn[k]] = "closed" /\ conn[k] \in Conns
        BY <1>5, <3>2 DEF Broken, TypeOK, Holding
      <4>2. up[conn[k]] = <<>>
        BY <4>1 DEF OnePlace
      <4>3. ~Has(conn[k], k)
        BY <4>1, <4>2, OneLineOnly, NameAssumption DEF Has
      <4>4. ~Sent(k) /\ ~Running(k)
        BY <3>2, <4>3, Nowhere
      <4> QED
        BY <3>2, <4>4, OneLineOnly DEF Stage, NotSent, Sent, Running
    <3> QED
      BY <1>5, <3>1, <3>2 DEF Broken
  <2>2. got' = [got EXCEPT ![k] = "broken"]
    BY <1>5 DEF Broken, CloseAndFail
  <2> QED
    BY <1>1, <1>2, <1>3, <2>1, <2>2, OneMoves DEF Promise!Broken, Promise!Return
<1>6. CASE Timeout(k)
  <2>1. got' = [got EXCEPT ![k] = "timeout"]
    BY <1>6 DEF Timeout, CloseAndFail
  <2>2. CASE Stage(k) \in {"sent", "running"}
    <3>1. UNCHANGED Stages
      BY <1>1, <1>2, <2>2, StagesSame
    <3>2. Stages[k] \in {"sent", "running"}
      BY <2>2 DEF Stages
    <3> QED
      BY <1>3, <2>1, <3>1, <3>2 DEF Promise!Timeout, Promise!Return
  <2>3. CASE Stage(k) \notin {"sent", "running"}
    <3>1. Stage(k) \in {"unsent", "answered", "refused", "gone"}
      BY <2>3 DEF Stage
    <3> QED
      BY <1>1, <1>2, <1>3, <2>1, <2>3, <3>1, OneMoves DEF Promise!Timeout, Promise!Return
  <2> QED
    BY <2>2, <2>3
<1> QED
  BY <1>4, <1>5, <1>6

LEMMA ReadRefines ==
  ASSUME IInv, OnePlace, NEW k \in Calls, Read(k)
  PROVE  Promise!Deliver(k) \/ Promise!Refused(k)
<1> USE DEF IInv
<1> DEFINE c == conn[k]
<1>1. pc[k] = "wait" /\ down[c] # <<>> /\ got' = [got EXCEPT ![k] = Head(down[c])]
  BY DEF Read
<1>2. got[k] = None
  BY <1>1 DEF OnePlace
<1>3. Asked(c, k) /\ c \in Conns
  BY <1>1 DEF InSync, Holding, TypeOK
<1>4. /\ up[c] = <<>> /\ enclave[c] \in {"reading", "closed"}
      /\ down[c] \in {<<k>>, <<GaveUp>>}
  BY <1>1, <1>3 DEF Asked
<1>5. ~Has(c, k)
  BY <1>4, OneLineOnly, NameAssumption DEF Has
<1>6. ~Sent(k) /\ ~Running(k)
  BY <1>1, <1>5, Nowhere
<1>7. \A l \in Calls \ {k} : Stage(l)' = Stage(l)
  BY CallStages
<1>8. Stage(k)' = IF Stage(k) \in {"sent", "running"} THEN Stage(k) ELSE "gone"
  BY CallReturns
<1>9. CASE down[c] = <<k>>
  <2>1. Stage(k) = "answered"
    BY <1>1, <1>6, <1>9 DEF Stage, NotSent, Sent, Running
  <2>2. got' = [got EXCEPT ![k] = k]
    BY <1>1, <1>9, OneLineOnly
  <2> QED
    BY <1>2, <1>7, <1>8, <2>1, <2>2, OneMoves DEF Promise!Deliver, Promise!Return
<1>10. CASE down[c] = <<GaveUp>>
  <2>1. Stage(k) = "refused"
    BY <1>1, <1>6, <1>10, OneLineOnly, PoolAssumption DEF Stage, NotSent, Sent, Running
  <2>2. got' = [got EXCEPT ![k] = GaveUp]
    BY <1>1, <1>10, OneLineOnly
  <2> QED
    BY <1>2, <1>7, <1>8, <2>1, <2>2, OneMoves DEF Promise!Refused, Promise!Return
<1> QED
  BY <1>4, <1>9, <1>10

LEMMA WriteRefines ==
  ASSUME IInv, OnePlace, NEW k \in Calls, Write(k)
  PROVE  Promise!Send(k)
<1> USE DEF IInv
<1>1. /\ pc[k] = "write" /\ pc' = [pc EXCEPT ![k] = "wait"]
      /\ UNCHANGED <<conn, got, enclave, down>>
      /\ up' = IF enclave[conn[k]] = "closed"
                 THEN up ELSE [up EXCEPT ![conn[k]] = Append(@, k)]
  BY DEF Write
<1>2. PICK c \in Conns : c = conn[k]
  BY <1>1 DEF Holding, TypeOK
<1>3. up[c] = <<>> /\ Append(up[c], k) = <<k>>
  BY <1>1, <1>2, OneLineOnly DEF InSync, Quiet
<1>4. \A d \in Conns : up'[d] = up[d] \/ (d = c /\ up'[d] = <<k>>)
  BY <1>1, <1>2, <1>3 DEF TypeOK
<1>5. \A l \in Calls \ {k} :
        (Sent(l)' <=> Sent(l)) /\ (Running(l)' <=> Running(l)) /\ pc'[l] = pc[l]
  BY <1>1, <1>3, <1>4, OneLineOnly DEF Sent, Running, TypeOK
<1>6. \A l \in Calls \ {k} : Stage(l)' = Stage(l)
  BY <1>1, <1>5, StageKept DEF NotSent
<1>7. Stage(k) = "unsent"
  BY <1>1 DEF Stage, NotSent
<1>8. ~Running(k)'
  BY <1>1, Nowhere DEF NotSent, Running
<1>9. Stage(k)' \in {"sent", "refused", "gone"}
  <2>1. pc'[k] = "wait" /\ conn'[k] = c
    BY <1>1, <1>2 DEF TypeOK
  <2>2. CASE Sent(k)'
    BY <2>1, <2>2 DEF Stage, NotSent, Sent
  <2>3. CASE ~Sent(k)'
    <3>1. Quiet(c) /\ down[c] # <<k>>
      BY <1>1, <1>2, OneLineOnly, PoolAssumption DEF InSync, Quiet
    <3>2. down'[conn'[k]] # <<k>>
      BY <1>1, <2>1, <3>1
    <3> QED
      BY <1>8, <2>1, <2>3, <3>2 DEF Stage, NotSent, Sent, Running
  <2> QED
    BY <2>2, <2>3
<1>10. Promise!Move(k, {"unsent"}, {"sent", "refused", "gone"})
  BY <1>6, <1>7, <1>9, OneMoves
<1> QED
  BY <1>1, <1>10 DEF Promise!Send

LEMMA ServeRefines ==
  ASSUME IInv, OnePlace, NEW c \in Conns, Serve(c)
  PROVE  \E k \in Calls : Promise!Start(k)
<1> USE DEF IInv
<1>1. PICK k \in Calls \ LongCalls :
         /\ up[c] = <<k>> /\ enclave[c] = "reading"
         /\ enclave' = [enclave EXCEPT ![c] = k]
         /\ up' = [up EXCEPT ![c] = <<>>]
  BY ServeKeeps
<1>2. UNCHANGED <<pc, conn, got, down>> /\ OnePlace'
  BY ServeKeeps DEF Serve
<1>3. up'[c] = <<>> /\ enclave'[c] = k
  BY <1>1 DEF TypeOK
<1>4. \A d \in Conns \ {c} : up'[d] = up[d] /\ enclave'[d] = enclave[d]
  BY <1>1 DEF TypeOK
<1>5. \A l \in Calls \ {k} : (Sent(l)' <=> Sent(l)) /\ (Running(l)' <=> Running(l))
  <2>1. \A l \in Calls \ {k} : up[c] # <<l>> /\ up'[c] # <<l>> /\ enclave[c] # l /\ enclave'[c] # l
    BY <1>1, <1>3, OneLineOnly, NameAssumption
  <2> QED
    BY <1>4, <2>1 DEF Sent, Running
<1>6. \A l \in Calls \ {k} : Stage(l)' = Stage(l)
  BY <1>2, <1>5, StageKept DEF NotSent
<1>7. Stage(k) = "sent"
  <2>1. ~NotSent(k)
    BY <1>1 DEF OnePlace, Has
  <2> QED
    BY <1>1, <2>1 DEF Stage
<1>8. Stage(k)' = "running"
  <2>1. ~NotSent(k)' /\ Running(k)'
    BY <1>2, <1>3 DEF OnePlace, Has, Running
  <2>2. ~Sent(k)'
    <3>1. \A d \in Conns \ {c} : up[d] # <<k>>
      BY <1>1 DEF OnePlace, Has
    <3> QED
      BY <1>3, <1>4, <3>1, OneLineOnly DEF Sent
  <2> QED
    BY <2>1, <2>2 DEF Stage, Sent, Running
<1> QED
  BY <1>2, <1>6, <1>7, <1>8, OneMoves DEF Promise!Start

LEMMA AnswerRefines ==
  ASSUME IInv, OnePlace, NEW c \in Conns, Answer(c)
  PROVE  \E k \in Calls : Promise!Finish(k)
<1> USE DEF IInv
<1>1. PICK k \in Calls : enclave[c] = k
  BY DEF Answer, Busy
<1>2. /\ enclave' = [enclave EXCEPT ![c] = "reading"]
      /\ UNCHANGED <<pc, conn, got, up>>
      /\ down' = IF c \in open THEN [down EXCEPT ![c] = Append(@, k)] ELSE down
  BY <1>1 DEF Answer, Send
<1>3. \A d \in Conns \ {c} : enclave'[d] = enclave[d] /\ down'[d] = down[d]
  BY <1>2 DEF TypeOK
<1>4. enclave'[c] = "reading"
  BY <1>2 DEF TypeOK
<1>5. \A l \in Calls \ {k} : (Sent(l)' <=> Sent(l)) /\ (Running(l)' <=> Running(l))
  BY <1>1, <1>2, <1>3, <1>4, NameAssumption DEF Sent, Running
<1>6. \A l \in Calls : pc[l] = "wait" /\ conn[l] = c => l = k /\ down[c] = <<>>
  BY <1>1, NameAssumption DEF InSync, Asked
<1>7. \A l \in Calls : pc[l] = "wait" => conn[l] \in Conns
  BY DEF Holding, TypeOK
<1>8. \A l \in Calls \ {k} : Stage(l)' = Stage(l)
  BY <1>2, <1>3, <1>5, <1>6, <1>7, StageKept DEF NotSent
<1>9. ~NotSent(k) /\ Has(c, k)
  BY <1>1 DEF OnePlace, Has
<1>10. ~Sent(k) /\ Stage(k) = "running"
  <2>1. up[c] = <<>>
    BY <1>1, NameAssumption DEF OnePlace
  <2>2. \A d \in Conns : up[d] # <<k>>
    BY <1>9, <2>1, OneLineOnly DEF OnePlace, Has
  <2> QED
    BY <1>1, <1>9, <2>2 DEF Stage, Sent
<1>11. ~NotSent(k)' /\ ~Sent(k)' /\ ~Running(k)'
  <2>1. \A d \in Conns \ {c} : enclave[d] # k
    BY <1>1 DEF OnePlace, Has
  <2> QED
    BY <1>2, <1>3, <1>4, <1>9, <1>10, <2>1, NameAssumption DEF NotSent, Sent, Running
<1>12. Stage(k)' \in {"answered", "gone"}
  <2>1. CASE pc[k] = "wait"
    <3>1. conn[k] = c /\ down[c] = <<>>
      BY <1>6, <1>9, <2>1 DEF OnePlace
    <3>2. c \in open /\ Append(down[c], k) = <<k>>
      BY <2>1, <3>1, OneLineOnly, PoolAssumption DEF OneUser, TypeOK
    <3>3. down'[c] = <<k>>
      BY <1>2, <3>2 DEF TypeOK
    <3> QED
      BY <1>2, <1>11, <2>1, <3>1, <3>3 DEF Stage, Sent, Running
  <2>2. CASE pc[k] # "wait"
    BY <1>2, <1>11, <2>2 DEF Stage, Sent, Running
  <2> QED
    BY <2>1, <2>2
<1> QED
  BY <1>2, <1>8, <1>10, <1>12, OneMoves DEF Promise!Finish

\* The enclave's last line: the request it did not read is refused, or lost
\* when its call no longer waits.
LEMMA GiveUpRefines ==
  ASSUME IInv, OnePlace, NEW c \in Conns, IdleTimeout(c) \/ LineTooLong(c)
  PROVE  (\E k \in Calls : Promise!Refuse(k)) \/ UNCHANGED Promise!vars
<1> USE DEF IInv
<1>1. /\ enclave[c] = "reading"
      /\ enclave' = [enclave EXCEPT ![c] = "closed"]
      /\ up' = [up EXCEPT ![c] = <<>>]
      /\ UNCHANGED <<pc, conn, got>>
      /\ down' = IF c \in open THEN [down EXCEPT ![c] = Append(@, GaveUp)] ELSE down
  BY DEF IdleTimeout, LineTooLong, GiveUp, Send
<1>2. /\ \A d \in Conns \ {c} :
           up'[d] = up[d] /\ enclave'[d] = enclave[d] /\ down'[d] = down[d]
      /\ enclave'[c] = "closed" /\ up'[c] = <<>>
  BY <1>1 DEF TypeOK
<1>3. \A l \in Calls : Running(l)' <=> Running(l)
  BY <1>1, <1>2, NameAssumption DEF Running
<1>4. \A l \in Calls : pc[l] = "wait" => conn[l] \in Conns \cap open /\ Asked(conn[l], l)
  BY PoolAssumption DEF Holding, TypeOK, OneUser, InSync
<1>5. \A l \in Calls : up[c] # <<l>> => Sent(l)' = Sent(l)
  BY <1>2, OneLineOnly DEF Sent
<1>6. IdleTimeout(c) => down[c] = <<>>
  BY DEF IdleTimeout
<1>7. LineTooLong(c) => up[c] # <<>>
  BY DEF LineTooLong
<1>8. ASSUME NEW l \in Calls, pc[l] = "wait", conn[l] = c
      PROVE  up[c] = <<l>> /\ down[c] = <<>>
  <2>1. \/ up[c] = <<l>> /\ down[c] = <<>>
        \/ up[c] = <<>> /\ down[c] = <<l>>
    BY <1>1, <1>4, <1>8, NameAssumption DEF Asked
  <2> QED
    BY <1>6, <1>7, <2>1, OneLineOnly
<1>9. CASE up[c] = <<>>
  <2>1. \A l \in Calls : Stage(l)' = Stage(l)
    BY <1>1, <1>2, <1>3, <1>4, <1>5, <1>8, <1>9, OneLineOnly, StageKept DEF NotSent
  <2> QED
    BY <1>1, <2>1, StagesSame DEF Promise!vars
<1>10. CASE up[c] # <<>>
  <2>1. PICK k \in Calls : up[c] = <<k>>
    BY <1>10 DEF OnePlace
  <2>2. \A l \in Calls \ {k} : up[c] # <<l>>
    BY <2>1, OneLineOnly
  <2>3. \A l \in Calls \ {k} : Stage(l)' = Stage(l)
    BY <1>1, <1>2, <1>3, <1>4, <1>5, <1>8, <2>2, StageKept DEF NotSent
  <2>4. ~NotSent(k) /\ Stage(k) = "sent"
    BY <2>1 DEF OnePlace, Has, Stage
  <2>5. ~Sent(k)' /\ ~Running(k)'
    <3>1. \A d \in Conns \ {c} : up[d] # <<k>> /\ enclave[d] # k
      BY <2>1 DEF OnePlace, Has
    <3> QED
      BY <1>2, <3>1, OneLineOnly, NameAssumption DEF Sent, Running
  <2>6. Stage(k)' \in {"refused", "gone"}
    <3>1. CASE pc[k] = "wait"
      <4>1. conn[k] = c /\ down[c] = <<>> /\ c \in open
        BY <1>4, <1>8, <2>1, <3>1 DEF OnePlace, Has
      <4>2. down'[c] = <<GaveUp>> /\ <<GaveUp>> # <<k>>
        BY <1>1, <4>1, OneLineOnly, PoolAssumption DEF TypeOK
      <4> QED
        BY <1>1, <2>5, <3>1, <4>1, <4>2 DEF Stage, NotSent, Sent, Running
    <3>2. CASE pc[k] # "wait"
      BY <1>1, <2>4, <2>5, <3>2 DEF Stage, NotSent, Sent, Running
    <3> QED
      BY <3>1, <3>2
  <2> QED
    BY <1>1, <2>3, <2>4, <2>6, OneMoves DEF Promise!Refuse
<1> QED
  BY <1>9, <1>10

LEMMA EndOfFileRefines ==
  ASSUME IInv, OnePlace, NEW c \in Conns, EndOfFile(c)
  PROVE  UNCHANGED Promise!vars
<1>1. /\ enclave[c] = "reading" /\ enclave' = [enclave EXCEPT ![c] = "closed"]
      /\ UNCHANGED <<pc, conn, got, up, down>>
  BY DEF EndOfFile
<1>2. \A l \in Calls : (Running(l)' <=> Running(l)) /\ (Sent(l)' <=> Sent(l))
  BY <1>1, NameAssumption DEF Running, Sent, IInv, TypeOK
<1> QED
  BY <1>1, <1>2, StageKept, StagesSame DEF Promise!vars, NotSent

LEMMA CrashRefines ==
  ASSUME IInv, OnePlace, Crash
  PROVE  Promise!Lose
<1> USE DEF IInv
<1>1. /\ UNCHANGED <<pc, conn, got>>
      /\ \A c \in Conns : enclave'[c] = "closed" /\ up'[c] = <<>>
      /\ \A c \in Conns : down'[c] \in {<<>>, down[c]}
  BY DEF Crash
<1>2. \A k \in Calls : ~Sent(k)' /\ ~Running(k)'
  BY <1>1, OneLineOnly, NameAssumption DEF Sent, Running
<1>3. ASSUME NEW k \in Calls
      PROVE  Stage(k)' = Stage(k) \/ (Stage(k) # "unsent" /\ Stage(k)' = "gone")
  <2>1. CASE NotSent(k)
    BY <1>1, <2>1 DEF Stage, NotSent
  <2>2. CASE ~NotSent(k) /\ pc[k] # "wait"
    BY <1>1, <1>2, <2>2 DEF Stage, NotSent, Sent, Running
  <2>3. CASE ~NotSent(k) /\ pc[k] = "wait"
    <3>1. conn[k] \in Conns /\ Asked(conn[k], k)
      BY <2>3 DEF InSync, Holding, TypeOK
    <3>2. CASE Has(conn[k], k)
      <4>1. down[conn[k]] = <<>>
        BY <3>1, <3>2, OneLineOnly, NameAssumption DEF Asked, Has
      <4> QED
        BY <1>1, <1>2, <2>3, <3>1, <3>2, <4>1, OneLineOnly DEF Stage, NotSent, Sent, Running, Has
    <3>3. CASE ~Has(conn[k], k)
      <4>1. ~Sent(k) /\ ~Running(k)
        BY <2>3, <3>3, Nowhere
      <4> QED
        BY <1>1, <1>2, <2>3, <3>1, <4>1, OneLineOnly DEF Stage, NotSent, Sent, Running
    <3> QED
      BY <3>2, <3>3
  <2> QED
    BY <2>1, <2>2, <2>3
<1> DEFINE lost == {k \in Calls : Stage(k) # "unsent" /\ Stage(k)' = "gone"}
<1>4. lost \in SUBSET {k \in Calls : Stages[k] # "unsent"}
  BY DEF Stages
<1>5. Stages' = [k \in Calls |-> IF k \in lost THEN "gone" ELSE Stages[k]]
  BY <1>3 DEF Stages
<1> QED
  BY <1>1, <1>4, <1>5 DEF Promise!Lose

LEMMA RefinementStep ==
  ASSUME IInv, OnePlace, [Next]_vars
  PROVE  [Promise!Next]_(Promise!vars)
<1>1. ASSUME NEW k \in Calls, Get(k) \/ Proceed(k)
      PROVE  [Promise!Next]_(Promise!vars)
  BY <1>1, TakeRefines, FailRefines, ReadRefines, WriteRefines DEF Proceed, Promise!Next
<1>2. ASSUME NEW c \in Conns,
             Serve(c) \/ Answer(c) \/ IdleTimeout(c) \/ LineTooLong(c) \/ EndOfFile(c)
      PROVE  [Promise!Next]_(Promise!vars)
  BY <1>2, ServeRefines, AnswerRefines, GiveUpRefines, EndOfFileRefines DEF Promise!Next
<1>3. CASE Crash
  BY <1>3, CrashRefines DEF Promise!Next
<1>4. CASE UNCHANGED vars
  <2>1. UNCHANGED Stages
    BY <1>4 DEF vars, Stages, Stage, NotSent
  <2> QED
    BY <1>4, <2>1 DEF vars, Promise!vars
<1> QED
  BY <1>1, <1>2, <1>3, <1>4 DEF Next

\* Every call is executed at most once and answered by its own execution, and
\* a call told that the enclave gave up was not executed (SendToEnclave,
\* handleConnection), for any number of calls, connections and crashes.
THEOREM PoolImplementsCalls == Spec => ImplementsEnclaveCalls
<1>1. Init => Promise!Init
  BY DEF Init, Promise!Init, Stages, Stage, NotSent
<1>2. IInv /\ OnePlace /\ [Next]_vars => [Promise!Next]_(Promise!vars)
  BY RefinementStep
<1> QED
  BY <1>1, <1>2, IInvInit, IInvStep, OnePlaceInit, OnePlaceStep, PTL
     DEF Spec, ImplementsEnclaveCalls, Promise!Spec
==============================================================================
