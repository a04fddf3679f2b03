-------------------------- MODULE ApiRequestsProofs --------------------------
(***************************************************************************)
(* Proofs about RateLimit and ApiRequests, for any limit, window, delay    *)
(* and any finite number of requests.                                      *)
(***************************************************************************)
EXTENDS ApiRequests, FiniteSetTheorems, TLAPS

------------------------------------------------------------------------------
(* The rate limiter alone *)

\* The requests that EveryPeriodLimited and LastMinuteLimited count.
InPeriod(t) ==
  {r \in Requests : Admitted(r) /\ t <= stamp[r] /\ stamp[r] < t + Window - MaxDelay}
InLastMinute == {r \in Requests : Admitted(r) /\ now - stamp[r] < Window}

\* And those that RejectedWhenBusy counts.
Others(r) == {q \in Requests \ {r} : Stamped(q) /\ stamp[r] - stamp[q] < Window}

\* Sets of requests are finite, and a larger one has no fewer elements.
LEMMA Counts ==
  ASSUME NEW S, NEW T, S \subseteq T, T \subseteq Requests
  PROVE  /\ Cardinality(S) \in Nat /\ Cardinality(T) \in Nat
         /\ Cardinality(S) <= Cardinality(T)
<1>1. IsFiniteSet(T) /\ IsFiniteSet(S)
  BY FS_Subset, RateAssumption
<1> QED
  BY <1>1, FS_Subset, FS_CardinalityType

LEMMA InvInit == Init => IInv
<1> SUFFICES ASSUME Init PROVE IInv
  OBVIOUS
<1>1. TypeOK /\ DroppedForYounger /\ TimesPast /\ RejectedWhenBusy
  BY RateAssumption
     DEF Init, TypeOK, DroppedForYounger, TimesPast, RejectedWhenBusy, Entered
<1>2. \A r \in Requests : ~Admitted(r)
  BY DEF Init, Admitted
<1>3. LastMinuteLimited
  <2>1. {r \in Requests : Admitted(r) /\ now - stamp[r] < Window} = {}
    BY <1>2
  <2> QED
    BY <2>1, FS_EmptySet, RateAssumption DEF LastMinuteLimited
<1>4. EveryPeriodLimited
  <2> SUFFICES ASSUME NEW t \in 0 .. now PROVE Cardinality(InPeriod(t)) <= Limit
    BY DEF EveryPeriodLimited, InPeriod
  <2>1. InPeriod(t) = {}
    BY <1>2 DEF InPeriod
  <2> QED
    BY <2>1, FS_EmptySet, RateAssumption
<1> QED
  BY <1>1, <1>3, <1>4 DEF IInv

\* A request that reads the clock, and the clock.
LEMMA OthersKeep ==
  ASSUME IInv, Tick \/ \E r \in Requests : Stamp(r)
  PROVE  IInv'
<1> USE RateAssumption
<1>1. TypeOK'
  BY DEF IInv, TypeOK, Tick, Stamp
<1>2. DroppedForYounger' /\ TimesPast'
  <2>1. CASE Tick
    BY <2>1 DEF IInv, TypeOK, DroppedForYounger, TimesPast, Entered, Tick
  <2>2. ASSUME NEW r \in Requests, Stamp(r)
        PROVE  DroppedForYounger' /\ TimesPast'
    BY <2>2 DEF IInv, TypeOK, DroppedForYounger, TimesPast, Entered, Stamp
  <2> QED
    BY <2>1, <2>2
<1>3. now <= now' /\ now' \in Nat /\ now \in Nat
  BY DEF IInv, TypeOK, Tick, Stamp
<1>4. \A q \in Requests :
        /\ Admitted(q)' = Admitted(q)
        /\ Stamped(q) => Stamped(q)' /\ stamp'[q] = stamp[q]
        /\ Admitted(q) => stamp'[q] = stamp[q]
        /\ (pc'[q] = "rejected") = (pc[q] = "rejected")
        /\ stamp[q] \in Nat /\ stamp'[q] \in Nat
  BY <1>1 DEF IInv, TypeOK, Tick, Stamp, Admitted, Stamped
<1>5. LastMinuteLimited'
  <2>1. InLastMinute' \subseteq InLastMinute /\ InLastMinute \subseteq Requests
    BY <1>3, <1>4 DEF InLastMinute
  <2>2. Cardinality(InLastMinute) <= Limit
    BY DEF IInv, LastMinuteLimited, InLastMinute
  <2> QED
    BY <2>1, <2>2, Counts DEF LastMinuteLimited, InLastMinute
<1>6. EveryPeriodLimited'
  <2> SUFFICES ASSUME NEW t \in 0 .. now' PROVE Cardinality(InPeriod(t)') <= Limit
    BY DEF EveryPeriodLimited, InPeriod
  <2>1. InPeriod(t)' = InPeriod(t)
    BY <1>4 DEF InPeriod
  <2>2. CASE t \in 0 .. now
    BY <2>1, <2>2 DEF IInv, EveryPeriodLimited, InPeriod
  <2>3. CASE t \notin 0 .. now
    <3>1. InPeriod(t) = {}
      BY <1>3, <2>3 DEF InPeriod, IInv, TypeOK, TimesPast
    <3> QED
      BY <2>1, <3>1, FS_EmptySet
  <2> QED
    BY <2>2, <2>3
<1>7. RejectedWhenBusy'
  <2> SUFFICES ASSUME NEW r \in Requests, pc'[r] = "rejected"
               PROVE  Cardinality(Others(r)') >= Limit
    BY DEF RejectedWhenBusy, Others
  <2>1. Cardinality(Others(r)) >= Limit
    BY <1>4 DEF IInv, RejectedWhenBusy, Others
  <2>2. pc[r] = "rejected" /\ stamp'[r] = stamp[r]
    BY <1>4 DEF Stamped
  <2>3. Others(r) \subseteq Others(r)' /\ Others(r)' \subseteq Requests
    BY <1>4, <2>2 DEF Others
  <2> QED
    BY <2>1, <2>3, Counts
<1> QED
  BY <1>1, <1>2, <1>5, <1>6, <1>7 DEF IInv

\* A request enters the window.
LEMMA EnterKeeps ==
  ASSUME IInv, NEW r \in Requests, Enter(r)
  PROVE  IInv'
<1> USE RateAssumption
<1>1. /\ UNCHANGED <<now, stamp>>
      /\ window' = ValidFor(r) \cup {r}
      /\ pc[r] = "stamped"
      /\ \A q \in Requests \ {r} : pc'[q] = pc[q]
      /\ pc'[r] = IF Cardinality(window') > Limit THEN "rejected" ELSE "admitted"
  BY DEF Enter, IInv, TypeOK
<1>2. TypeOK'
  BY DEF IInv, TypeOK, Enter, ValidFor
<1>3. now \in Nat /\ \A q \in Requests : stamp[q] \in Nat /\ stamp[q] <= now
  BY DEF IInv, TypeOK, TimesPast
<1>4. DroppedForYounger'
  <2> SUFFICES ASSUME NEW q \in Requests, Entered(q)', q \notin window'
               PROVE  \E p \in Requests : Entered(p)' /\ stamp'[p] - stamp'[q] >= Window
    BY DEF DroppedForYounger
  <2>1. Entered(r)'
    BY <1>1 DEF Entered
  <2>2. q # r /\ Entered(q)
    BY <1>1 DEF Entered
  <2>3. CASE q \in window
    <3>1. stamp[r] - stamp[q] >= Window
      BY <1>1, <1>3, <2>3 DEF ValidFor
    <3> QED
      BY <1>1, <2>1, <3>1
  <2>4. CASE q \notin window
    <3>1. PICK p \in Requests : Entered(p) /\ stamp[p] - stamp[q] >= Window
      BY <2>2, <2>4 DEF IInv, DroppedForYounger
    <3>2. Entered(p)'
      BY <1>1, <3>1 DEF Entered
    <3> QED
      BY <1>1, <3>1, <3>2
  <2> QED
    BY <2>3, <2>4
<1>5. TimesPast'
  BY <1>1 DEF IInv, TimesPast, Entered, ValidFor
\* What is counted while the request is admitted is in the window it entered.
<1>6. ASSUME NEW S \in SUBSET Requests, pc'[r] = "admitted",
             \A q \in S : Entered(q)',
             \A q \in S : \A p \in Requests : Entered(p)' => stamp[p] - stamp[q] < Window
      PROVE  Cardinality(S) <= Limit
  <2>1. S \subseteq window'
    <3> SUFFICES ASSUME NEW q \in S, q \notin window' PROVE FALSE
      OBVIOUS
    <3>1. PICK p \in Requests : Entered(p)' /\ stamp'[p] - stamp'[q] >= Window
      BY <1>4, <1>6 DEF DroppedForYounger
    <3>2. stamp[p] \in Nat /\ stamp[q] \in Nat /\ UNCHANGED stamp
      BY <1>1, <1>3
    <3> QED
      BY <1>6, <3>1, <3>2
  <2>2. window' \subseteq Requests
    BY <1>2 DEF TypeOK
  <2>3. ~(Cardinality(window') > Limit)
    BY <1>1, <1>6
  <2> QED
    BY <2>1, <2>2, <2>3, Counts
<1>7. pc'[r] # "admitted" => \A q \in Requests : Admitted(q)' = Admitted(q)
  BY <1>1 DEF Admitted
<1>8. \A q \in Requests : Admitted(q)' => Entered(q)'
  BY DEF Admitted, Entered
<1>9. LastMinuteLimited'
  <2>1. CASE pc'[r] # "admitted"
    <3>1. InLastMinute' = InLastMinute
      BY <1>1, <1>7, <2>1 DEF InLastMinute
    <3> QED
      BY <3>1 DEF IInv, LastMinuteLimited, InLastMinute
  <2>2. CASE pc'[r] = "admitted"
    <3>1. InLastMinute' \in SUBSET Requests /\ \A q \in InLastMinute' : Entered(q)'
      BY <1>8 DEF InLastMinute
    <3>2. \A q \in InLastMinute' : now - stamp[q] < Window
      BY <1>1 DEF InLastMinute
    <3>3. \A q \in InLastMinute' : \A p \in Requests : stamp[p] - stamp[q] < Window
      BY <1>3, <3>1, <3>2
    <3> QED
      BY <1>6, <2>2, <3>1, <3>3 DEF LastMinuteLimited, InLastMinute
  <2> QED
    BY <2>1, <2>2
<1>10. EveryPeriodLimited'
  <2> SUFFICES ASSUME NEW t \in 0 .. now' PROVE Cardinality(InPeriod(t)') <= Limit
    BY DEF EveryPeriodLimited, InPeriod
  <2>1. CASE pc'[r] # "admitted" \/ ~(t <= stamp[r] /\ stamp[r] < t + Window - MaxDelay)
    <3>1. InPeriod(t)' = InPeriod(t)
      BY <1>1, <1>7, <2>1 DEF InPeriod, Admitted
    <3>2. t \in 0 .. now
      BY <1>1
    <3> QED
      BY <3>1, <3>2 DEF IInv, EveryPeriodLimited, InPeriod
  <2>2. CASE pc'[r] = "admitted" /\ t <= stamp[r] /\ stamp[r] < t + Window - MaxDelay
    <3>1. InPeriod(t)' \in SUBSET Requests /\ \A q \in InPeriod(t)' : Entered(q)' /\ t <= stamp[q]
      BY <1>1, <1>8 DEF InPeriod
    <3>2. now - stamp[r] <= MaxDelay
      BY <1>1 DEF IInv, TimesPast
    <3>3. now < t + Window
      BY <1>1, <1>3, <2>2, <3>2
    <3>4. \A q \in InPeriod(t)' : \A p \in Requests : stamp[p] - stamp[q] < Window
      BY <1>1, <1>3, <3>1, <3>3
    <3> QED
      BY <1>6, <2>2, <3>1, <3>4
  <2> QED
    BY <2>1, <2>2
<1>11. RejectedWhenBusy'
  <2> SUFFICES ASSUME NEW q \in Requests, pc'[q] = "rejected"
               PROVE  Cardinality(Others(q)') >= Limit
    BY DEF RejectedWhenBusy, Others
  <2>1. CASE q # r
    <3>1. Cardinality(Others(q)) >= Limit
      BY <1>1, <2>1 DEF IInv, RejectedWhenBusy, Others
    <3>2. Others(q) \subseteq Others(q)' /\ Others(q)' \subseteq Requests
      BY <1>1 DEF Others, Stamped
    <3> QED
      BY <3>1, <3>2, Counts
  <2>2. CASE q = r
    <3>1. window' \subseteq Requests /\ r \in window' /\ Cardinality(window') > Limit
      BY <1>1, <1>2, <2>2 DEF TypeOK
    <3>2. IsFiniteSet(window')
      BY <3>1, FS_Subset
    <3>3. Cardinality(window' \ {r}) = Cardinality(window') - 1 /\ Cardinality(window') \in Nat
      BY <3>1, <3>2, FS_RemoveElement, FS_CardinalityType
    <3>4. window' \ {r} \subseteq Others(r)' /\ Others(r)' \subseteq Requests
      BY <1>1, <1>5 DEF Others, ValidFor, Stamped, TimesPast, Entered, IInv, TypeOK
    <3> QED
      BY <2>2, <3>1, <3>3, <3>4, Counts
  <2> QED
    BY <2>1, <2>2
<1> QED
  BY <1>2, <1>4, <1>5, <1>9, <1>10, <1>11 DEF IInv

LEMMA InvStep ==
  ASSUME IInv, [Next]_vars
  PROVE  IInv'
<1>1. CASE UNCHANGED vars
  BY <1>1 DEF vars, IInv, TypeOK, DroppedForYounger, TimesPast, LastMinuteLimited,
     EveryPeriodLimited, RejectedWhenBusy, Admitted, Entered, Stamped
<1> QED
  BY <1>1, OthersKeep, EnterKeeps DEF Next

\* The inductive invariant holds.
THEOREM RateInvariance == Spec => []IInv
BY InvInit, InvStep, PTL DEF Spec

\* The limit holds for the last minute, at any time.
THEOREM LastMinute == Spec => []LastMinuteLimited
<1>1. IInv => LastMinuteLimited
  BY DEF IInv
<1> QED
  BY <1>1, RateInvariance, PTL

\* And for every period of the past that is shorter by the delay.
THEOREM EveryPeriod == Spec => []EveryPeriodLimited
<1>1. IInv => EveryPeriodLimited
  BY DEF IInv
<1> QED
  BY <1>1, RateInvariance, PTL

\* Nobody is rejected who has not used up the limit.
THEOREM RejectionsAreEarned == Spec => []RejectedWhenBusy
<1>1. IInv => RejectedWhenBusy
  BY DEF IInv
<1> QED
  BY <1>1, RateInvariance, PTL

------------------------------------------------------------------------------
(* The server with its rate limiter *)

\* Requests pass the rate limiter as RateLimit says, whatever their handlers do.
LEMMA LimiterInside ==
  /\ ApiInit => Init
  /\ [ApiNext]_allVars => [Next]_vars
<1>1. ApiInit => Init
  BY DEF ApiInit
<1>2. ASSUME ApiNext PROVE [Next]_vars
  <2>1. ASSUME NEW r \in Requests, NEW q \in Asks, Send(r, q) PROVE Next
    BY <2>1 DEF Send, Next
  <2>2. ASSUME NEW r \in Requests, Limited(r) PROVE Next
    BY <2>2 DEF Limited, Next
  <2>3. ASSUME NEW r \in Requests, Creating(r) \/ Handling(r) PROVE UNCHANGED vars
    BY <2>3 DEF Creating, GenerateKeys, CreateTenant, CreateAPIKey, CreateFails, Handling,
       Authenticate, AuthenticateFails, GetTenant, Serve, RequestFails, Goes, Moves
  <2>4. ASSUME NEW t, SettleTenant(t) \/ SettleKey(t) PROVE UNCHANGED vars
    BY <2>4 DEF SettleTenant, SettleKey
  <2>5. CASE Shutdown \/ Exit
    BY <2>5 DEF Shutdown, Exit
  <2>6. CASE Clock
    BY <2>6 DEF Clock, Next
  <2> QED BY <1>2, <2>1, <2>2, <2>3, <2>4, <2>5, <2>6 DEF ApiNext
<1>3. UNCHANGED allVars => UNCHANGED vars
  BY DEF allVars
<1> QED BY <1>1, <1>2, <1>3

\* The server implements the specification of its rate limiter.
THEOREM ImplementsLimiter == ApiSpec => Spec
BY LimiterInside, PTL DEF ApiSpec, Spec

------------------------------------------------------------------------------
(* Tenants and credentials *)

ApiSafe == ApiTypeOK /\ OwnTenantServed /\ Created

LEMMA SafeInit == ApiInit => ApiSafe
  BY DEF ApiInit, Init, ApiSafe, ApiTypeOK, OwnTenantServed, Created, Stages, Stamped

LEMMA SendKeeps ==
  ASSUME TypeOK, ApiSafe, NEW r \in Requests, NEW q \in Asks, Send(r, q)
  PROVE  ApiSafe'
<1>1. /\ UNCHANGED <<server, at, tenants, keys, tenantsSettled, keysSettled, erred>>
      /\ ask' = [ask EXCEPT ![r] = q]
      /\ pc[r] = "idle"
      /\ pc' = [pc EXCEPT ![r] = "stamped"]
  BY DEF Send, Stamp
<1>2. q \in Questions /\ q # None
  BY ApiAssumption DEF Asks, Questions, Answered
<1>3. ApiTypeOK'
  BY <1>1, <1>2 DEF ApiSafe, ApiTypeOK
<1>4. ask[r] = None /\ at[r] = "new"
  BY <1>1 DEF ApiSafe, Created, Stamped
<1>5. \A s \in Requests : s # r => ask'[s] = ask[s] /\ (Stamped(s)' <=> Stamped(s))
  BY <1>1 DEF ApiSafe, ApiTypeOK, Stamped, TypeOK
<1>6. ask'[r] = q /\ at'[r] = "new" /\ Stamped(r)'
  BY <1>1, <1>4 DEF ApiSafe, ApiTypeOK, Stamped, TypeOK
<1>7. OwnTenantServed'
  BY <1>1, <1>4, <1>5 DEF ApiSafe, OwnTenantServed
<1>8. q.route # "create" => <<q.tenant, q.tenant>> \in keys /\ <<q.key, q.key>> \in keys
  BY DEF Asks, Answered, ApiSafe, Created
<1>9. Created'
  <2>1. /\ \A row \in keys' : row[1] = row[2] /\ tenants'[row[1]] # None
        /\ \A t \in Requests : tenants'[t] \in {None, NewTenantConfig(t)}
    BY <1>1 DEF ApiSafe, Created
  <2>2. ASSUME NEW s \in Requests
        PROVE /\ at'[s] = "tenant" => tenants'[s] # None
              /\ at'[s] = "answered" => <<s, s>> \in keys'
              /\ ~Stamped(s)' <=> ask'[s] = None
              /\ ~Stamped(s)' => at'[s] = "new"
              /\ ask'[s] # None /\ ask'[s].route # "create" =>
                   /\ <<ask'[s].tenant, ask'[s].tenant>> \in keys'
                   /\ <<ask'[s].key, ask'[s].key>> \in keys'
                   /\ at'[s] \notin {"generated", "tenant", "answered"}
              /\ ask'[s] # None /\ ask'[s].route = "create" =>
                   at'[s] \in {"new", "generated", "tenant", "answered", "failed"}
    <3>1. CASE s = r
      BY <3>1, <1>1, <1>2, <1>6, <1>8
    <3>2. CASE s # r
      BY <3>2, <1>1, <1>5 DEF ApiSafe, Created
    <3> QED BY <3>1, <3>2
  <2> QED BY <2>1, <2>2 DEF Created
<1> QED BY <1>3, <1>7, <1>9 DEF ApiSafe

\* The request of a handler has been sent.
LEMMA HandledAsks ==
  ASSUME ApiSafe, NEW r \in Requests, NEW stage, Handled(r, stage)
  PROVE  ask[r] # None /\ at[r] = stage /\ ask[r] \in Questions
  BY DEF Handled, Admitted, ApiSafe, ApiTypeOK, Created, Stamped

\* The step of one request that writes at most its own tenant and key.
LEMMA OneStepKeeps ==
  ASSUME ApiSafe, NEW r \in Requests, NEW stage \in Stages, Moves(r, stage),
         ask[r] # None, erred' \subseteq Requests,
         tenants' = tenants \/ tenants' = [tenants EXCEPT ![r] = NewTenantConfig(r)],
         keys' = keys \/ (keys' = keys \cup {<<r, r>>} /\ tenants[r] # None),
         stage = "tenant" => tenants'[r] # None,
         stage = "answered" => <<r, r>> \in keys',
         ask[r].route # "create" => stage \notin {"generated", "tenant", "answered"},
         ask[r].route = "create" => stage \in {"generated", "tenant", "answered", "failed"},
         stage \in {"permitted", "panicked", "refused", "served"} =>
           /\ stage # "refused" /\ ask[r].tenant = ask[r].key
           /\ tenants[ask[r].tenant] = NewTenantConfig(ask[r].tenant)
  PROVE  ApiSafe'
<1>1. /\ at' = [at EXCEPT ![r] = stage]
      /\ UNCHANGED <<pc, server, ask, tenantsSettled, keysSettled>>
  BY DEF Moves, vars
<1>2. NewTenantConfig(r) \in Configs /\ NewTenantConfig(r) # None
  BY ApiAssumption DEF Configs
<1>3. /\ \A t \in Requests : tenants[t] = NewTenantConfig(t) => tenants'[t] = NewTenantConfig(t)
      /\ \A t \in Requests : tenants'[t] \in {None, NewTenantConfig(t)}
      /\ \A t \in Requests : tenants[t] # None => tenants'[t] # None
  BY <1>2 DEF ApiSafe, ApiTypeOK, Created
<1>4. at'[r] = stage /\ \A s \in Requests : s # r => at'[s] = at[s]
  BY <1>1 DEF ApiSafe, ApiTypeOK
<1>5. ApiTypeOK'
  BY <1>1, <1>2 DEF ApiSafe, ApiTypeOK
<1>6. OwnTenantServed'
  <2> SUFFICES ASSUME NEW s \in Requests, at'[s] \in {"permitted", "panicked", "refused", "served"}
               PROVE  /\ at'[s] # "refused" /\ ask[s].tenant = ask[s].key
                      /\ tenants'[ask[s].tenant] = NewTenantConfig(ask[s].tenant)
    BY <1>1 DEF OwnTenantServed
  <2>1. /\ at'[s] # "refused" /\ ask[s].tenant = ask[s].key
        /\ tenants[ask[s].tenant] = NewTenantConfig(ask[s].tenant)
    <3>1. CASE s = r
      BY <3>1, <1>4
    <3>2. CASE s # r
      BY <3>2, <1>4 DEF ApiSafe, OwnTenantServed
    <3> QED BY <3>1, <3>2
  <2>2. ask[s] \in Questions /\ ask[s].route # "create"
    <3>1. ask[s] # None
      <4>1. CASE s = r
        BY <4>1
      <4>2. CASE s # r
        BY <4>2, <1>4 DEF ApiSafe, Created
      <4> QED BY <4>1, <4>2
    <3>2. ask[s].route # "create"
      <4>1. CASE s = r
        BY <4>1, <1>4
      <4>2. CASE s # r
        BY <4>2, <3>1, <1>4 DEF ApiSafe, Created
      <4> QED BY <4>1, <4>2
    <3> QED BY <3>1, <3>2 DEF ApiSafe, ApiTypeOK
  <2>3. ask[s].tenant \in Requests
    BY <2>2 DEF Questions
  <2> QED BY <2>1, <2>3, <1>3
<1>7. keys \subseteq keys' /\ \A row \in keys' : row \in keys \/ (row = <<r, r>> /\ tenants[r] # None)
  OBVIOUS
<1>8. \A row \in keys' : row[1] = row[2] /\ tenants'[row[1]] # None
  <2> TAKE row \in keys'
  <2>1. CASE row \in keys
    BY <2>1, <1>3 DEF ApiSafe, ApiTypeOK, Created
  <2>2. CASE row = <<r, r>> /\ tenants[r] # None
    BY <2>2, <1>3
  <2> QED BY <2>1, <2>2, <1>7
<1>9. ASSUME NEW s \in Requests
      PROVE /\ at'[s] = "tenant" => tenants'[s] # None
            /\ at'[s] = "answered" => <<s, s>> \in keys'
            /\ ~Stamped(s)' <=> ask'[s] = None
            /\ ~Stamped(s)' => at'[s] = "new"
            /\ ask'[s] # None /\ ask'[s].route # "create" =>
                 /\ <<ask'[s].tenant, ask'[s].tenant>> \in keys'
                 /\ <<ask'[s].key, ask'[s].key>> \in keys'
                 /\ at'[s] \notin {"generated", "tenant", "answered"}
            /\ ask'[s] # None /\ ask'[s].route = "create" =>
                 at'[s] \in {"new", "generated", "tenant", "answered", "failed"}
  <2>1. CASE s = r
    BY <2>1, <1>1, <1>4, <1>7 DEF ApiSafe, Created, Stamped
  <2>2. CASE s # r
    BY <2>2, <1>1, <1>3, <1>4, <1>7 DEF ApiSafe, Created, Stamped
  <2> QED BY <2>1, <2>2
<1>10. Created'
  BY <1>3, <1>8, <1>9 DEF Created
<1> QED BY <1>5, <1>6, <1>10 DEF ApiSafe

LEMMA CreatingKeeps ==
  ASSUME ApiSafe, NEW r \in Requests, Creating(r)
  PROVE  ApiSafe'
<1> USE HandledAsks DEF Stages, Goes
<1>t. erred \subseteq Requests
  BY DEF ApiSafe, ApiTypeOK
<1>0. tenants \in [Requests -> {None} \cup Configs] /\ NewTenantConfig(r) # None
  BY ApiAssumption DEF ApiSafe, ApiTypeOK, Configs
<1>1. CASE GenerateKeys(r)
  BY <1>1, <1>t, OneStepKeeps DEF GenerateKeys
<1>2. CASE CreateTenant(r)
  <2>1. ask[r] # None /\ at[r] = "generated" /\ Goes(r, "tenant") /\ UNCHANGED keys
    BY <1>2 DEF CreateTenant
  <2>2. ask[r].route = "create"
    BY <2>1 DEF ApiSafe, Created
  <2>3. tenants' = [tenants EXCEPT ![r] = NewTenantConfig(r)] /\ tenants'[r] # None
    BY <1>0, <1>2 DEF CreateTenant, PutTenant
  <2> QED BY <2>1, <2>2, <2>3, <1>t, OneStepKeeps
<1>3. CASE CreateAPIKey(r)
  <2>1. /\ ask[r] # None /\ at[r] = "tenant" /\ Goes(r, "answered") /\ UNCHANGED tenants
        /\ keys' = keys \cup {<<r, r>>}
    BY <1>3 DEF CreateAPIKey
  <2>2. ask[r].route = "create" /\ tenants[r] # None
    BY <2>1 DEF ApiSafe, Created
  <2> QED BY <2>1, <2>2, <1>t, OneStepKeeps
<1>4. CASE CreateFails(r)
  <2>1. ask[r] # None /\ ask[r].route = "create" /\ Goes(r, "failed")
    BY <1>4 DEF CreateFails
  <2>2. at[r] = "tenant" => tenants[r] # None
    BY DEF ApiSafe, Created
  <2>3. /\ tenants' = tenants \/ tenants' = [tenants EXCEPT ![r] = NewTenantConfig(r)]
        /\ keys' = keys \/ (keys' = keys \cup {<<r, r>>} /\ tenants[r] # None)
    BY <1>4, <2>2 DEF CreateFails, PutTenant, Handled
  <2> QED BY <2>1, <2>3, <1>t, OneStepKeeps
<1> QED BY <1>1, <1>2, <1>3, <1>4 DEF Creating

\* Whoever gets past the middleware has the key of the tenant, and the tenant.
LEMMA PermittedHasOwn ==
  ASSUME ApiSafe, NEW q \in Questions, NEW view \in SUBSET keys, q.route # "create",
         Verdict(q, view) = "permitted"
  PROVE  q.tenant = q.key /\ tenants[q.tenant] = NewTenantConfig(q.tenant)
<1>1. <<q.tenant, q.key>> \in keys
  BY DEF Verdict, FindAPIKey
<1>2. q.tenant \in Requests
  BY DEF Questions
<1> QED BY <1>1, <1>2 DEF ApiSafe, Created

LEMMA HandlingKeeps ==
  ASSUME ApiSafe, NEW r \in Requests, Handling(r)
  PROVE  ApiSafe'
<1> USE HandledAsks DEF Stages, Goes
<1>t. erred \subseteq Requests
  BY DEF ApiSafe, ApiTypeOK
<1>1. CASE Authenticate(r)
  <2>1. PICK missed \in SUBSET (keys \ keysSettled) : Goes(r, Verdict(ask[r], keys \ missed))
    BY <1>1 DEF Authenticate
  <2>2. /\ ask[r] # None /\ ask[r] \in Questions /\ ask[r].route # "create"
        /\ UNCHANGED <<tenants, keys>>
    BY <1>1 DEF Authenticate
  <2>3. Verdict(ask[r], keys \ missed) \in {"unauthorized", "forbidden", "permitted"}
    BY DEF Verdict
  <2>4. Verdict(ask[r], keys \ missed) = "permitted" =>
          ask[r].tenant = ask[r].key /\ tenants[ask[r].tenant] = NewTenantConfig(ask[r].tenant)
    BY <2>2, PermittedHasOwn
  <2> QED BY <2>1, <2>2, <2>3, <2>4, <1>t, OneStepKeeps
<1>2. CASE AuthenticateFails(r)
  BY <1>2, <1>t, OneStepKeeps DEF AuthenticateFails
<1>3. ASSUME Handled(r, "permitted")
      PROVE  /\ ask[r] # None /\ ask[r] \in Questions /\ ask[r].route # "create"
             /\ ask[r].tenant = ask[r].key
             /\ tenants[ask[r].tenant] = NewTenantConfig(ask[r].tenant)
  <2>1. ask[r] # None /\ ask[r] \in Questions /\ at[r] = "permitted"
    BY <1>3
  <2> QED BY <2>1 DEF ApiSafe, Created, OwnTenantServed
<1>4. CASE GetTenant(r)
  <2>1. Handled(r, "permitted") /\ UNCHANGED <<tenants, keys>>
    BY <1>4 DEF GetTenant
  <2>2. Unwraps(ask[r], tenants[ask[r].tenant])
    BY <1>3, <2>1 DEF Unwraps, NewTenantConfig
  <2>3. Goes(r, "panicked") \/ Goes(r, "served")
    BY <1>4, <2>2 DEF GetTenant
  <2> QED BY <2>1, <2>3, <1>3, <1>t, OneStepKeeps
<1>5. CASE Serve(r)
  BY <1>3, <1>5, <1>t, OneStepKeeps DEF Serve
<1>6. CASE RequestFails(r)
  BY <1>3, <1>6, <1>t, OneStepKeeps DEF RequestFails
<1> QED BY <1>1, <1>2, <1>4, <1>5, <1>6 DEF Handling

\* What does not touch a request's question, a stage or a row.
LEMMA OthersKeepSafe ==
  ASSUME ApiSafe, UNCHANGED <<ask, at, tenants, keys>>,
         server' \in {"up", "stopping", "down"}, tenantsSettled' \subseteq Requests,
         keysSettled' \subseteq keys, erred' \subseteq Requests,
         \A r \in Requests : Stamped(r)' <=> Stamped(r)
  PROVE  ApiSafe'
  BY DEF ApiSafe, ApiTypeOK, OwnTenantServed, Created

LEMMA SafeStep ==
  ASSUME TypeOK, ApiSafe, [ApiNext]_allVars
  PROVE  ApiSafe'
<1>0. /\ server \in {"up", "stopping", "down"} /\ tenantsSettled \subseteq Requests
      /\ keysSettled \subseteq keys /\ erred \subseteq Requests
  BY DEF ApiSafe, ApiTypeOK
<1>1. ASSUME NEW r \in Requests, Limited(r) PROVE ApiSafe'
  <2>1. \A s \in Requests : Stamped(s)' <=> Stamped(s)
    BY <1>1 DEF Limited, Enter, Stamped, TypeOK
  <2> QED BY <1>0, <1>1, <2>1, OthersKeepSafe DEF Limited, apiVars
<1>2. CASE Shutdown \/ Exit
  BY <1>0, <1>2, OthersKeepSafe DEF Shutdown, Exit, vars, Stamped
<1>3. CASE Clock
  BY <1>0, <1>3, OthersKeepSafe DEF Clock, Tick, apiVars, Stamped
<1>4. ASSUME NEW t \in Requests, SettleTenant(t) PROVE ApiSafe'
  BY <1>0, <1>4, OthersKeepSafe DEF SettleTenant, vars, Stamped
<1>5. ASSUME NEW row \in keys, SettleKey(row) PROVE ApiSafe'
  BY <1>0, <1>5, OthersKeepSafe DEF SettleKey, vars, Stamped
<1>6. CASE UNCHANGED allVars
  BY <1>0, <1>6, OthersKeepSafe DEF allVars, apiVars, vars, Stamped
<1> QED BY <1>1, <1>2, <1>3, <1>4, <1>5, <1>6, SendKeeps, CreatingKeeps, HandlingKeeps DEF ApiNext

\* The inductive invariant of the server with its rate limiter.
THEOREM ApiInvariance == ApiSpec => []ApiInv
<1>1. ApiInit => Init /\ ApiSafe
  BY SafeInit DEF ApiInit
<1>2. IInv /\ ApiSafe /\ [ApiNext]_allVars => ApiSafe'
  BY SafeStep DEF IInv
<1>3. ApiInv <=> IInv /\ ApiSafe
  BY DEF ApiInv, ApiSafe
<1> QED BY <1>1, <1>2, <1>3, ImplementsLimiter, RateInvariance, PTL DEF ApiSpec

\* The limit holds for the last minute, at any time, of the requests that get through.
THEOREM ApiLastMinute == ApiSpec => []LastMinuteLimited
BY ImplementsLimiter, LastMinute, PTL

\* Nobody is turned away by the limiter who has not used up the limit.
THEOREM ApiRejections == ApiSpec => []RejectedWhenBusy
BY ImplementsLimiter, RejectionsAreEarned, PTL

\* A request gets past the middleware only with the key of a tenant that is stored whole
\* (TenantMiddleware, CreateTenant, CreateAPIKey).
THEOREM OwnTenant == ApiSpec => []OwnTenantServed
<1>1. ApiInv => OwnTenantServed
  BY DEF ApiInv
<1> QED BY <1>1, ApiInvariance, PTL

\* What TurnedAwayByLagOrError says of a step and a request.
TurnedAway(r) ==
  at'[r] # at[r] /\ ask[r] # None =>
    /\ at'[r] \in {"unauthorized", "forbidden"} /\ ask[r].tenant = ask[r].key =>
         /\ at'[r] # "forbidden"
         /\ <<ask[r].tenant, ask[r].key>> \in keys
         /\ <<ask[r].tenant, ask[r].key>> \notin keysSettled \/ r \in erred'
    /\ at'[r] = "panicked" =>
         tenants[ask[r].tenant] # None /\ ask[r].tenant \notin tenantsSettled

LEMMA TurnedAwayStep ==
  ASSUME ApiSafe, ApiNext, NEW r \in Requests
  PROVE  TurnedAway(r)
<1> USE HandledAsks
<1>0. at \in [Requests -> Stages]
  BY DEF ApiSafe, ApiTypeOK
<1>1. ASSUME NEW s \in Requests, NEW stage, Moves(s, stage), s # r
      PROVE  TurnedAway(r)
  BY <1>0, <1>1 DEF Moves, TurnedAway
<1>2. ASSUME NEW stage, Goes(r, stage), stage \notin {"unauthorized", "forbidden", "panicked"}
      PROVE  TurnedAway(r)
  BY <1>0, <1>2 DEF Goes, Moves, TurnedAway
<1>3. ASSUME UNCHANGED at PROVE TurnedAway(r)
  BY <1>3 DEF TurnedAway
<1>4. ASSUME Authenticate(r) PROVE TurnedAway(r)
  <2>1. PICK missed \in SUBSET (keys \ keysSettled) : Goes(r, Verdict(ask[r], keys \ missed))
    BY <1>4 DEF Authenticate
  <2>2. ask[r] # None /\ ask[r] \in Questions /\ ask[r].route # "create"
    BY <1>4 DEF Authenticate
  <2>3. at'[r] = Verdict(ask[r], keys \ missed)
    BY <2>1, <1>0 DEF Goes, Moves
  <2>4. ask[r].route \in Routes
    BY <2>2 DEF Questions
  <2>5. Required[ask[r].route] \subseteq Permissions
    BY <2>4 DEF Required, Routes, Permissions
  <2>6. at'[r] # "forbidden" /\ at'[r] # "panicked"
    BY <2>3, <2>5 DEF Verdict
  <2>7. ASSUME at'[r] = "unauthorized", ask[r].tenant = ask[r].key
        PROVE  /\ <<ask[r].tenant, ask[r].key>> \in keys
               /\ <<ask[r].tenant, ask[r].key>> \notin keysSettled
    <3>1. <<ask[r].tenant, ask[r].key>> \notin keys \ missed
      BY <2>3, <2>5, <2>7 DEF Verdict, FindAPIKey
    <3>2. <<ask[r].tenant, ask[r].key>> \in keys
      BY <2>2, <2>7 DEF ApiSafe, Created
    <3> QED BY <3>1, <3>2
  <2> QED BY <2>6, <2>7 DEF TurnedAway
<1>5. ASSUME GetTenant(r) PROVE TurnedAway(r)
  <2>1. Handled(r, "permitted")
    BY <1>5 DEF GetTenant
  <2>0. ask[r] # None /\ ask[r] \in Questions /\ at[r] = "permitted"
    BY <2>1
  <2>2. /\ ask[r] \in Questions /\ ask[r].route # "create"
        /\ tenants[ask[r].tenant] = NewTenantConfig(ask[r].tenant)
    BY <2>0 DEF ApiSafe, Created, OwnTenantServed
  <2>3. tenants[ask[r].tenant] # None
    BY <2>2, ApiAssumption DEF Questions, Configs
  <2>4. \/ ask[r].tenant \notin tenantsSettled /\ Goes(r, "panicked")
        \/ Goes(r, "served") \/ Goes(r, "refused")
    BY <1>5, <2>3 DEF GetTenant
  <2>5. CASE ask[r].tenant \notin tenantsSettled /\ Goes(r, "panicked")
    <3>1. at'[r] = "panicked"
      BY <2>5, <1>0 DEF Goes, Moves
    <3> QED BY <3>1, <2>3, <2>5 DEF TurnedAway
  <2> QED BY <2>4, <2>5, <1>2
<1>6. ASSUME Creating(r) \/ Serve(r) \/ RequestFails(r) PROVE TurnedAway(r)
  BY <1>2, <1>6 DEF Creating, GenerateKeys, CreateTenant, CreateAPIKey, CreateFails,
     Serve, RequestFails
<1>10. ASSUME AuthenticateFails(r) PROVE TurnedAway(r)
  <2>1. /\ ask[r] # None /\ ask[r] \in Questions /\ ask[r].route # "create"
        /\ at'[r] = "unauthorized" /\ r \in erred'
    BY <1>10, <1>0 DEF AuthenticateFails, Moves
  <2>2. ask[r].tenant = ask[r].key => <<ask[r].tenant, ask[r].key>> \in keys
    BY <2>1 DEF ApiSafe, Created
  <2> QED BY <2>1, <2>2 DEF TurnedAway
<1>7. ASSUME NEW s \in Requests, s # r, Creating(s) \/ Handling(s)
      PROVE  TurnedAway(r)
  BY <1>1, <1>7 DEF Creating, GenerateKeys, CreateTenant, CreateAPIKey, CreateFails, Handling,
     Authenticate, AuthenticateFails, GetTenant, Serve, RequestFails, Goes
<1>8. ASSUME NEW s \in Requests, (\E q \in Asks : Send(s, q)) \/ Limited(s) PROVE TurnedAway(r)
  BY <1>3, <1>8 DEF Send, Limited, apiVars
<1>9. ASSUME \/ \E t \in Requests : SettleTenant(t)
             \/ \E row \in keys : SettleKey(row)
             \/ Shutdown \/ Exit \/ Clock
      PROVE  TurnedAway(r)
  BY <1>3, <1>9 DEF SettleTenant, SettleKey, Shutdown, Exit, Clock, apiVars
<1> QED BY <1>4, <1>5, <1>6, <1>7, <1>8, <1>9, <1>10 DEF ApiNext, Handling

\* No failed creation leaves a client with a half: a client with its own key is refused
\* only by a read that lags or an error of the read, and its tenant is missing only to a
\* read that lags.
THEOREM OnlyLagOrError == ApiSpec => TurnedAwayByLagOrError
<1>1. ApiSafe /\ [ApiNext]_allVars => [\A r \in Requests : TurnedAway(r)]_allVars
  BY TurnedAwayStep
<1>2. ApiInv => ApiSafe
  BY DEF ApiInv, ApiSafe
<1>3. TurnedAwayByLagOrError <=> [][\A r \in Requests : TurnedAway(r)]_allVars
  BY DEF TurnedAwayByLagOrError, TurnedAway
<1> QED BY <1>1, <1>2, <1>3, ApiInvariance, PTL DEF ApiSpec

==============================================================================
