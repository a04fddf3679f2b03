----------------------------- MODULE ApiRequests -----------------------------
(***************************************************************************)
(* The way of a request through the API server: the rate limiter, then     *)
(* either the creation of a tenant, or the check of the credentials it     *)
(* carries and the tenant's record, up to the handler's own work, which    *)
(* other modules describe.  All requests come from one address.            *)
(*                                                                         *)
(* The ids and keys are random, so a tenant and its key are named after    *)
(* the request that creates them.  The reads of both tables are eventually *)
(* consistent: until a row is settled, a read may miss it.                 *)
(***************************************************************************)
EXTENDS RateLimit

CONSTANT None

VARIABLES
  server,       \* "up", "stopping", "down"
  ask,          \* what a request wants: None before it is sent
  at,           \* how far its handler is
  tenants,      \* the tenant configs
  keys,         \* the API keys: pairs of a tenant and a key
  tenantsSettled, keysSettled,  \* those that every read sees
  erred         \* history: the requests whose look for the key was an error

apiVars == <<server, ask, at, tenants, keys, tenantsSettled, keysSettled, erred>>

allVars == <<vars, apiVars>>

Permissions == {"read", "write", "crypto"}

\* One route of each group: get-table-hash, generate-deks, get and put.
Required == [hash |-> {"read", "write"}, deks |-> {"crypto"}, get |-> {"read"}, put |-> {"write"}]
Routes == DOMAIN Required

\* What KMS binds a wrapped key to, and asks for to unwrap it.
Context(t, purpose) == [tenant |-> t, purpose |-> purpose]

\* Mutant: the wrapped keys change places.
NewTenantConfigMut(t) ==
  [WrappedMasterKey |-> Context(t, "TABLE_SALT"), WrappedTableSalt |-> Context(t, "MASTER_KEY")]

NewTenantConfig(t) ==
  [WrappedMasterKey |-> Context(t, "MASTER_KEY"), WrappedTableSalt |-> Context(t, "TABLE_SALT")]

Answered == {r \in Requests : at[r] = "answered"}

\* A client creates a tenant, or sends the credentials that answers have given it,
\* not always those that belong together.
Asks ==
  [route : {"create"}] \cup [route : Routes, tenant : Answered, key : Answered]

\* What a request can be, and a stored config.
Questions == [route : {"create"}] \cup [route : Routes, tenant : Requests, key : Requests]
Configs == {NewTenantConfig(t) : t \in Requests}

ASSUME ApiAssumption == None \notin Questions \cup Configs

ApiInit ==
  /\ Init
  /\ server = "up"
  /\ ask = [r \in Requests |-> None]
  /\ at = [r \in Requests |-> "new"]
  /\ tenants = [t \in Requests |-> None]
  /\ keys = {}
  /\ tenantsSettled = {} /\ keysSettled = {}
  /\ erred = {}

------------------------------------------------------------------------------
(* The rate limiter *)

Send(r, q) ==
  /\ server = "up"
  /\ Stamp(r)
  /\ ask' = [ask EXCEPT ![r] = q]
  /\ UNCHANGED <<server, at, tenants, keys, tenantsSettled, keysSettled, erred>>

Limited(r) ==
  /\ server # "down"
  /\ Enter(r)
  /\ UNCHANGED apiVars

\* The request is in its handler, or in the middleware before it.
Handled(r, stage) == server # "down" /\ Admitted(r) /\ at[r] = stage

Moves(r, stage) ==
  /\ at' = [at EXCEPT ![r] = stage]
  /\ UNCHANGED <<vars, server, ask, tenantsSettled, keysSettled>>

Goes(r, stage) == Moves(r, stage) /\ UNCHANGED erred

------------------------------------------------------------------------------
(* HandleCreateTenant *)

\* The attestation document, the master key and the table salt.
GenerateKeys(r) ==
  /\ Handled(r, "new")
  /\ ask[r].route = "create"
  /\ Goes(r, "generated")
  /\ UNCHANGED <<tenants, keys>>

PutTenant(r) == tenants' = [tenants EXCEPT ![r] = NewTenantConfig(r)]

CreateTenant(r) ==
  /\ Handled(r, "generated")
  /\ PutTenant(r)
  /\ Goes(r, "tenant")
  /\ UNCHANGED keys

\* Mutant: the error of the second write is not looked at.
CreateAPIKeyMut(r) ==
  /\ Handled(r, "tenant")
  /\ keys' \in {keys, keys \cup {<<r, r>>}}
  /\ Goes(r, "answered")
  /\ UNCHANGED tenants

\* The key gets all permissions and no expiry; then the client has the answer.
CreateAPIKey(r) ==
  /\ Handled(r, "tenant")
  /\ keys' = keys \cup {<<r, r>>}
  /\ Goes(r, "answered")
  /\ UNCHANGED tenants

\* An error, which the write may have survived, or an answer that is lost.
CreateFails(r) ==
  /\ ask[r] # None
  /\ ask[r].route = "create"
  /\ \/ Handled(r, "new") /\ UNCHANGED <<tenants, keys>>
     \/ Handled(r, "generated") /\ (UNCHANGED tenants \/ PutTenant(r)) /\ UNCHANGED keys
     \/ Handled(r, "tenant") /\ keys' \in {keys, keys \cup {<<r, r>>}} /\ UNCHANGED tenants
  /\ Goes(r, "failed")

------------------------------------------------------------------------------
(* TenantMiddleware, PermissionMiddleware and the tenant's record *)

\* Mutant: the keys of all tenants are searched.
FindAPIKeyMut(q, view) == \E row \in view : row[2] = q.key

FindAPIKey(q, view) == <<q.tenant, q.key>> \in view

Verdict(q, view) ==
  IF ~FindAPIKey(q, view) THEN "unauthorized"
  ELSE IF ~(Required[q.route] \subseteq Permissions) THEN "forbidden"
  ELSE "permitted"

Authenticate(r) ==
  /\ Handled(r, "new")
  /\ ask[r].route # "create"
  /\ \E missed \in SUBSET (keys \ keysSettled) : Goes(r, Verdict(ask[r], keys \ missed))
  /\ UNCHANGED <<tenants, keys>>

\* An error of the query is answered as a wrong key is, with 401.
AuthenticateFails(r) ==
  /\ Handled(r, "new")
  /\ ask[r].route # "create"
  /\ Moves(r, "unauthorized")
  /\ erred' = erred \cup {r}
  /\ UNCHANGED <<tenants, keys>>

\* The key that the route needs is unwrapped: KMS compares the contexts.
Unwraps(q, config) ==
  IF q.route = "hash"
  THEN config.WrappedTableSalt = Context(q.tenant, "TABLE_SALT")
  ELSE config.WrappedMasterKey = Context(q.tenant, "MASTER_KEY")

\* The handler does not look if there is a record: without one it panics.
GetTenant(r) ==
  /\ Handled(r, "permitted")
  /\ ask[r].route \in {"hash", "deks"}
  /\ LET t == ask[r].tenant IN
     \/ /\ tenants[t] = None \/ t \notin tenantsSettled
        /\ Goes(r, "panicked")
     \/ /\ tenants[t] # None
        /\ Goes(r, IF Unwraps(ask[r], tenants[t]) THEN "served" ELSE "refused")
  /\ UNCHANGED <<tenants, keys>>

\* The other handlers do without the record.
Serve(r) ==
  /\ Handled(r, "permitted")
  /\ ask[r].route \notin {"hash", "deks"}
  /\ Goes(r, "served")
  /\ UNCHANGED <<tenants, keys>>

\* An error of DynamoDB, KMS, the enclave or the client's network.
RequestFails(r) ==
  /\ Handled(r, "permitted")
  /\ Goes(r, "failed")
  /\ UNCHANGED <<tenants, keys>>

------------------------------------------------------------------------------
(* The tables and the server *)

SettleTenant(t) ==
  /\ tenants[t] # None /\ t \notin tenantsSettled
  /\ tenantsSettled' = tenantsSettled \cup {t}
  /\ UNCHANGED <<vars, server, ask, at, tenants, keys, keysSettled, erred>>

SettleKey(row) ==
  /\ row \in keys \ keysSettled
  /\ keysSettled' = keysSettled \cup {row}
  /\ UNCHANGED <<vars, server, ask, at, tenants, keys, tenantsSettled, erred>>

\* SIGTERM: no new connections.
Shutdown ==
  /\ server = "up"
  /\ server' = "stopping"
  /\ UNCHANGED <<vars, ask, at, tenants, keys, tenantsSettled, keysSettled, erred>>

\* All requests are done, or ten seconds are over: then those under way are cut off.
Exit ==
  /\ server = "stopping"
  /\ server' = "down"
  /\ UNCHANGED <<vars, ask, at, tenants, keys, tenantsSettled, keysSettled, erred>>

Clock == Tick /\ UNCHANGED apiVars

Creating(r) == GenerateKeys(r) \/ CreateTenant(r) \/ CreateAPIKey(r) \/ CreateFails(r)

Handling(r) ==
  Authenticate(r) \/ AuthenticateFails(r) \/ GetTenant(r) \/ Serve(r) \/ RequestFails(r)

ApiNext ==
  \/ \E r \in Requests : (\E q \in Asks : Send(r, q)) \/ Limited(r) \/ Creating(r) \/ Handling(r)
  \/ \E t \in Requests : SettleTenant(t)
  \/ \E row \in keys : SettleKey(row)
  \/ Shutdown \/ Exit \/ Clock

ApiSpec == ApiInit /\ [][ApiNext]_allVars

------------------------------------------------------------------------------
(* Properties *)

Stages == {"new", "generated", "tenant", "answered", "failed", "unauthorized", "forbidden",
           "permitted", "panicked", "refused", "served"}

ApiTypeOK ==
  /\ server \in {"up", "stopping", "down"}
  /\ ask \in [Requests -> {None} \cup Questions]
  /\ at \in [Requests -> Stages]
  /\ tenants \in [Requests -> {None} \cup Configs]
  /\ keys \subseteq Requests \X Requests
  /\ tenantsSettled \subseteq Requests
  /\ keysSettled \subseteq keys
  /\ erred \subseteq Requests

\* Whatever fails on the way, a request gets past the middleware only for the tenant
\* that its key was made for, whose record is stored, with keys that KMS unwraps for
\* this tenant and this purpose and nothing else.
OwnTenantServed ==
  \A r \in Requests :
    at[r] \in {"permitted", "panicked", "refused", "served"} =>
      /\ at[r] # "refused"
      /\ ask[r].tenant = ask[r].key
      /\ tenants[ask[r].tenant] = NewTenantConfig(ask[r].tenant)

\* A client that has been given a tenant and its key has both: no failure of the creation
\* leaves it with a half.  It is told that its key is wrong only when the read of the key
\* missed a row that not every read sees yet, or was an error, which is answered with
\* the same 401 (tenant.go); and it gets the panic of a missing record only when the read
\* of the record missed it.
TurnedAwayByLagOrError ==
  [][\A r \in Requests : at'[r] # at[r] /\ ask[r] # None =>
       /\ at'[r] \in {"unauthorized", "forbidden"} /\ ask[r].tenant = ask[r].key =>
            /\ at'[r] # "forbidden"
            /\ <<ask[r].tenant, ask[r].key>> \in keys
            /\ <<ask[r].tenant, ask[r].key>> \notin keysSettled \/ r \in erred'
       /\ at'[r] = "panicked" =>
            tenants[ask[r].tenant] # None /\ ask[r].tenant \notin tenantsSettled]_allVars

\* A key is only there with its tenant, and a client that has an answer, or uses it,
\* has both.
Created ==
  /\ \A row \in keys : row[1] = row[2] /\ tenants[row[1]] # None
  /\ \A t \in Requests : tenants[t] \in {None, NewTenantConfig(t)}
  /\ \A r \in Requests :
       /\ at[r] = "tenant" => tenants[r] # None
       /\ at[r] = "answered" => <<r, r>> \in keys
       /\ ~Stamped(r) <=> ask[r] = None
       /\ ~Stamped(r) => at[r] = "new"
       /\ ask[r] # None /\ ask[r].route # "create" =>
            /\ <<ask[r].tenant, ask[r].tenant>> \in keys
            /\ <<ask[r].key, ask[r].key>> \in keys
            /\ at[r] \notin {"generated", "tenant", "answered"}
       /\ ask[r] # None /\ ask[r].route = "create" =>
            at[r] \in {"new", "generated", "tenant", "answered", "failed"}

\* The inductive invariant.
ApiInv == IInv /\ ApiTypeOK /\ OwnTenantServed /\ Created

==============================================================================
