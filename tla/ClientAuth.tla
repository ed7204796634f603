----------------------------- MODULE ClientAuth -----------------------------
(***************************************************************************)
(* Client credentials: ClientStore (crates/pgapp-core/src/client_auth.rs), *)
(* the AuthLayer in front of every gRPC service                            *)
(* (crates/pgapp-server/src/auth.rs) and the admin routes that create,     *)
(* rotate and deactivate a client (crates/pgapp-server/src/admin_http.rs). *)
(*                                                                         *)
(* Grain.  Each statement of ClientStore is one step, on a connection of   *)
(* the pool.  authenticate compares the secret after its SELECT returned,  *)
(* and an admin route writes its log row before it answers: both hold what *)
(* they read or generated while other requests run.                        *)
(*                                                                         *)
(* Data.  A secret is the number of its generation: generate_secret never  *)
(* repeats one, and verify_secret tells the hashes of two apart.  Roles    *)
(* and timestamps are stored and returned, and decide nothing.             *)
(***************************************************************************)
EXTENDS Integers

CONSTANTS
    Keys,       \* client keys
    Admins,     \* admin HTTP requests being handled
    Callers,    \* gRPC requests being handled
    MaxSecrets, \* bound: secrets ever generated
    None

ASSUME ConstantsAssumption == MaxSecrets \in Nat /\ None \notin Keys

VARIABLES
    enabled,        \* auth_enabled of the configuration
    pgapp_clients,  \* key -> its row
    next_secret,    \* the secret generate_secret returns next
    admin,          \* admin request -> the state of its handler
    call,           \* gRPC request -> the state of AuthService::call
    delivered,      \* secrets that an admin response carried to a client
    owner,          \* history: secret -> the key it was generated for
    entitled        \* history: requests whose credentials were current when
                    \* they arrived

vars == <<enabled, pgapp_clients, next_secret, admin, call, delivered, owner,
          entitled>>
history == <<owner, entitled>>

Secrets == 1..MaxSecrets
NoSecret == 0

\* secret_hash and active; absent when there is no row with the key's hash
Client == [secret: Secrets, state: {"active", "inactive"}]
Absent == [secret |-> NoSecret, state |-> "absent"]

Ops == {"create_client", "rotate_secret", "deactivate"}
IdleAdmin == [step |-> "idle", key |-> None, secret |-> NoSecret]
Admin == [step: {"record_request"} \cup Ops, key: Keys,
          secret: Secrets \cup {NoSecret}] \cup {IdleAdmin}

\* row: the secret_hash that authenticate selected.  "inner": the request was
\* passed on; "denied": UNAUTHENTICATED; "error": INTERNAL.
Call == [step: {"idle", "select", "verify", "inner", "denied", "error"},
         path: {"health", "service"}, key: Keys \cup {None},
         secret: Secrets \cup {NoSecret}, row: Secrets \cup {NoSecret}]
IdleCall == [step |-> "idle", path |-> "service", key |-> None,
             secret |-> NoSecret, row |-> NoSecret]

TypeOK ==
    /\ enabled \in {"on", "off"}
    /\ pgapp_clients \in [Keys -> Client \cup {Absent}]
    /\ next_secret \in 1..(MaxSecrets + 1)
    /\ admin \in [Admins -> Admin]
    /\ call \in [Callers -> Call]
    /\ delivered \in SUBSET Secrets
    /\ owner \in [Secrets -> Keys \cup {None}]
    /\ entitled \in SUBSET Callers

Init ==
    /\ enabled \in {"on", "off"}
    /\ pgapp_clients = [k \in Keys |-> Absent]
    /\ next_secret = 1
    /\ admin = [a \in Admins |-> IdleAdmin]
    /\ call = [c \in Callers |-> IdleCall]
    /\ delivered = {}
    /\ owner = [s \in Secrets |-> None]
    /\ entitled = {}

-----------------------------------------------------------------------------
(* The admin routes.  An unauthorized request and an invalid key or role   *)
(* return before any effect and are no step.                               *)

Generates == {"create_client", "rotate_secret"}

\* client_create, client_rotate and client_deactivate up to their statement:
\* the first two generate the secret and hash it before they touch a row.
admin_request(a, op, key) ==
    /\ admin[a].step = "idle"
    /\ \/ /\ op \in Generates /\ next_secret <= MaxSecrets
          /\ admin' = [admin EXCEPT ![a] =
                [step |-> op, key |-> key, secret |-> next_secret]]
          /\ owner' = [owner EXCEPT ![next_secret] = key]
          /\ next_secret' = next_secret + 1
       \/ /\ op \notin Generates
          /\ admin' = [admin EXCEPT ![a] =
                [step |-> op, key |-> key, secret |-> NoSecret]]
          /\ UNCHANGED <<owner, next_secret>>
    /\ UNCHANGED <<enabled, pgapp_clients, call, delivered, entitled>>

IsActive(key) == pgapp_clients[key].state = "active"

\* The statement of a is over; its response will carry the given secret.
Respond(a, secret) ==
    /\ admin' = [admin EXCEPT ![a] = [step |-> "record_request",
                                      key |-> admin[a].key, secret |-> secret]]
    /\ UNCHANGED <<enabled, next_secret, call, delivered, history>>

\* CONFLICT and NOT_FOUND: no row changed, no secret in the response.
Reject(a) == Respond(a, NoSecret) /\ UNCHANGED pgapp_clients

Put(key, secret, state) ==
    pgapp_clients' = [pgapp_clients EXCEPT ![key] =
                        [secret |-> secret, state |-> state]]

\* INSERT; key_hash is unique, and a deactivated client keeps its row.
create_client_revives(a) ==
    /\ admin[a].step = "create_client"
    /\ IF IsActive(admin[a].key)
       THEN Reject(a)
       ELSE Put(admin[a].key, admin[a].secret, "active") /\ Respond(a, admin[a].secret)

create_client(a) ==
    /\ admin[a].step = "create_client"
    /\ IF pgapp_clients[admin[a].key] # Absent
       THEN Reject(a)
       ELSE Put(admin[a].key, admin[a].secret, "active") /\ Respond(a, admin[a].secret)

rotate_secret_of_all(a) ==
    /\ admin[a].step = "rotate_secret"
    /\ pgapp_clients' = [k \in Keys |-> IF IsActive(k)
            THEN [pgapp_clients[k] EXCEPT !.secret = admin[a].secret]
            ELSE pgapp_clients[k]]
    /\ Respond(a, admin[a].secret)

rotate_secret(a) ==
    /\ admin[a].step = "rotate_secret"
    /\ IF ~IsActive(admin[a].key)
       THEN Reject(a)
       ELSE Put(admin[a].key, admin[a].secret, "active") /\ Respond(a, admin[a].secret)

deactivate(a) ==
    /\ admin[a].step = "deactivate"
    /\ IF ~IsActive(admin[a].key)
       THEN Reject(a)
       ELSE /\ Put(admin[a].key, pgapp_clients[admin[a].key].secret, "inactive")
            /\ Respond(a, NoSecret)

\* The log row is written, and only then the response leaves.
record_request(a) ==
    /\ admin[a].step = "record_request"
    /\ delivered' = delivered \cup ({admin[a].secret} \ {NoSecret})
    /\ admin' = [admin EXCEPT ![a] = IdleAdmin]
    /\ UNCHANGED <<enabled, pgapp_clients, next_secret, call, history>>

\* The connection closes, or the store fails: what is committed stays, and a
\* secret that was not delivered is gone.
admin_drop(a) ==
    /\ admin[a].step # "idle"
    /\ admin' = [admin EXCEPT ![a] = IdleAdmin]
    /\ UNCHANGED <<enabled, pgapp_clients, next_secret, call, delivered, history>>

-----------------------------------------------------------------------------
(* AuthService::call.                                                      *)

Current(key, secret) == IsActive(key) /\ pgapp_clients[key].secret = secret

Become(c, r) == /\ call' = [call EXCEPT ![c] = r]
                /\ UNCHANGED <<enabled, pgapp_clients, next_secret, admin,
                               delivered, owner>>

\* extract_credentials finds both headers, and neither is empty.
WithCredentials(c, key, secret) ==
    /\ secret \in delivered
    /\ Become(c, [step |-> "select", path |-> "service", key |-> key,
                  secret |-> secret, row |-> NoSecret])
    /\ entitled' = IF Current(key, secret) THEN entitled \cup {c}
                                           ELSE entitled \ {c}

\* No lookup: health paths, a server without auth, missing credentials.
WithoutLookup(c, path, step) ==
    /\ Become(c, [step |-> step, path |-> path, key |-> None,
                  secret |-> NoSecret, row |-> NoSecret])
    /\ entitled' = entitled \ {c}

request(c) ==
    /\ call[c].step = "idle"
    /\ \/ WithoutLookup(c, "health", "inner")
       \/ enabled = "off" /\ WithoutLookup(c, "service", "inner")
       \/ enabled = "on" /\ WithoutLookup(c, "service", "denied")
       \/ /\ enabled = "on"
          /\ \E key \in Keys, secret \in Secrets : WithCredentials(c, key, secret)

\* WHERE key_hash = $1 AND active = true
authenticate_any_row(c) ==
    /\ call[c].step = "select"
    /\ IF pgapp_clients[call[c].key] # Absent
       THEN Become(c, [call[c] EXCEPT !.step = "verify",
                            !.row = pgapp_clients[call[c].key].secret])
       ELSE Become(c, [call[c] EXCEPT !.step = "denied"])
    /\ UNCHANGED entitled

authenticate(c) ==
    /\ call[c].step = "select"
    /\ IF IsActive(call[c].key)
       THEN Become(c, [call[c] EXCEPT !.step = "verify",
                            !.row = pgapp_clients[call[c].key].secret])
       ELSE Become(c, [call[c] EXCEPT !.step = "denied"])
    /\ UNCHANGED entitled

\* Of the row as it was selected, whatever has happened to it since.
verify_secret(c) ==
    /\ call[c].step = "verify"
    /\ Become(c, [call[c] EXCEPT !.step =
            IF call[c].row = call[c].secret THEN "inner" ELSE "denied"])
    /\ UNCHANGED entitled

\* Err and Ok(None) are different answers: no verdict is no denial.
authenticate_error_denies(c) ==
    /\ call[c].step = "select"
    /\ Become(c, [call[c] EXCEPT !.step = "denied"])
    /\ UNCHANGED entitled

\* No connection of the pool in time, or the SELECT failed.
authenticate_error(c) ==
    /\ call[c].step = "select"
    /\ Become(c, [call[c] EXCEPT !.step = "error"])
    /\ UNCHANGED entitled

\* The answer is sent, or the client cancels the request.
answer(c) ==
    /\ call[c].step # "idle"
    /\ Become(c, IdleCall)
    /\ UNCHANGED entitled

-----------------------------------------------------------------------------
AdminStep(a) ==
    \/ \E op \in Ops, key \in Keys : admin_request(a, op, key)
    \/ create_client(a) \/ rotate_secret(a) \/ deactivate(a)
    \/ record_request(a) \/ admin_drop(a)

CallStep(c) ==
    request(c) \/ authenticate(c) \/ verify_secret(c) \/ authenticate_error(c)
        \/ answer(c)

Next == (\E a \in Admins : AdminStep(a)) \/ (\E c \in Callers : CallStep(c))

Spec == Init /\ [][Next]_vars

-----------------------------------------------------------------------------
(* Properties.                                                             *)

\* With auth on, a service request that AuthService::call passes on came with
\* the secret of its own key, and that secret was current when the request
\* arrived: a request that arrives after rotate_secret or deactivate has
\* committed never gets through with what was current before, whatever the
\* order in which statements, log rows and answers of other requests fall.
AdmitsOnlyCurrent ==
    \A c \in Callers :
        enabled = "on" /\ call[c].step = "inner" /\ call[c].path = "service" =>
            c \in entitled /\ owner[call[c].secret] = call[c].key

\* authenticate answers Ok(None) to no client whose credentials are good: a
\* request that is denied has credentials that are not current (a lookup that
\* fails is an error of its own, not a denial).
DeniesOnlyStale ==
    \A c \in Callers : call[c].step = "denied" /\ call[c].key # None =>
        ~Current(call[c].key, call[c].secret)

\* A secret works at most from the statement that stored it to the one that
\* replaced it or deactivated its client: credentials that were handed out and
\* are not current any more are not made current again by any sequence of
\* create_client, rotate_secret and deactivate, and a deactivated client never
\* becomes active.
RevokedForGood ==
    [][\A k \in Keys :
        /\ pgapp_clients[k].state = "inactive" =>
                pgapp_clients'[k].state = "inactive"
        /\ \A s \in delivered : ~Current(k, s) => ~Current(k, s)']_vars

-----------------------------------------------------------------------------
(* The inductive invariant.                                                *)

\* What was generated for a key stays with that key.
SecretsOwned ==
    /\ \A k \in Keys : pgapp_clients[k].secret # NoSecret =>
            owner[pgapp_clients[k].secret] = k
    /\ \A a \in Admins : admin[a].secret # NoSecret =>
            owner[admin[a].secret] = admin[a].key

\* generate_secret never repeats one.
SecretsGenerated ==
    /\ \A k \in Keys : pgapp_clients[k].secret < next_secret
    /\ \A a \in Admins : admin[a].secret < next_secret
    /\ \A s \in delivered : s < next_secret

\* A secret that no statement has stored yet is nobody else's.
PendingSecretsFresh ==
    \A a \in Admins : admin[a].step \in Generates =>
        /\ admin[a].secret # NoSecret
        /\ admin[a].secret \notin delivered
        /\ \A b \in Admins \ {a} : admin[b].secret # admin[a].secret

\* No request about to get through has credentials that were not current when
\* it arrived.
Sound(c) ==
    /\ call[c].key # None => call[c].secret \in delivered
    /\ call[c].step \in {"select", "verify"} =>
            call[c].key # None /\ call[c].path = "service"
    /\ enabled = "on" /\ call[c].step = "inner" /\ call[c].path = "service" =>
            call[c].key # None
    /\ call[c].step = "select" /\ Current(call[c].key, call[c].secret) =>
            c \in entitled
    /\ call[c].step = "verify" /\ call[c].row = call[c].secret =>
            c \in entitled /\ owner[call[c].secret] = call[c].key
    /\ call[c].step = "verify" /\ call[c].row # call[c].secret =>
            ~Current(call[c].key, call[c].secret)

CallsSound == \A c \in Callers : Sound(c)

\* What of the credentials the requests depend on.
Ledger == SecretsOwned /\ SecretsGenerated /\ PendingSecretsFresh

IInv == TypeOK /\ Ledger /\ CallsSound /\ AdmitsOnlyCurrent /\ DeniesOnlyStale
=============================================================================
