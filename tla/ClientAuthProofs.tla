-------------------------- MODULE ClientAuthProofs --------------------------
(***************************************************************************)
(* That authentication admits and denies by what was current, for any      *)
(* number of clients, secrets and concurrent requests.                     *)
(***************************************************************************)
EXTENDS ClientAuth, TLAPS

LEMMA InitIInv == Init => IInv
<1> SUFFICES ASSUME Init PROVE IInv
  OBVIOUS
<1>1. TypeOK
  BY ConstantsAssumption DEF Init, TypeOK, Client, Absent, Admin, IdleAdmin, Call,
     IdleCall, NoSecret, Secrets, Ops
<1>2. Ledger
  BY DEF Init, Ledger, SecretsOwned, SecretsGenerated, PendingSecretsFresh,
         Absent, IdleAdmin, NoSecret, Generates
<1>3. CallsSound /\ AdmitsOnlyCurrent /\ DeniesOnlyStale
  BY DEF Init, CallsSound, Sound, AdmitsOnlyCurrent, DeniesOnlyStale, IdleCall
<1> QED BY <1>1, <1>2, <1>3 DEF IInv

-----------------------------------------------------------------------------
(* Steps of the requests: Become(c, r) leaves the credentials alone.       *)

\* The step of a request keeps the invariant if the request's own conjuncts
\* hold after it.
LEMMA BecomeKeeps ==
    ASSUME IInv, NEW c \in Callers, NEW r \in Call, Become(c, r),
           entitled' \in SUBSET Callers,
           \A d \in Callers \ {c} : d \in entitled' <=> d \in entitled,
           r.key # None => r.secret \in delivered,
           r.step \in {"select", "verify"} =>
                r.key # None /\ r.path = "service",
           enabled = "on" /\ r.step = "inner" /\ r.path = "service" =>
                r.key # None /\ c \in entitled' /\ owner[r.secret] = r.key,
           r.step = "select" /\ Current(r.key, r.secret) => c \in entitled',
           r.step = "verify" /\ r.row = r.secret =>
                c \in entitled' /\ owner[r.secret] = r.key,
           r.step = "verify" /\ r.row # r.secret => ~Current(r.key, r.secret),
           r.step = "denied" /\ r.key # None => ~Current(r.key, r.secret)
    PROVE  IInv'
<1>1. call' = [call EXCEPT ![c] = r] /\ call \in [Callers -> Call]
  BY DEF Become, IInv, TypeOK
<1>2. call'[c] = r /\ \A d \in Callers \ {c} : call'[d] = call[d]
  BY <1>1
<1>3. UNCHANGED <<enabled, pgapp_clients, next_secret, admin, delivered, owner>>
  BY DEF Become
<1>4. \A k, s : Current(k, s)' <=> Current(k, s)
  BY <1>3 DEF Current, IsActive
<1>5. TypeOK'
  BY <1>1, <1>3 DEF IInv, TypeOK
<1>6. Ledger'
  BY <1>3 DEF IInv, Ledger, SecretsOwned, SecretsGenerated, PendingSecretsFresh
<1>7. ASSUME NEW d \in Callers
      PROVE  /\ Sound(d)'
             /\ (enabled = "on" /\ call[d].step = "inner" /\ call[d].path = "service" =>
                    d \in entitled /\ owner[call[d].secret] = call[d].key)'
             /\ (call[d].step = "denied" /\ call[d].key # None =>
                    ~Current(call[d].key, call[d].secret))'
  <2>1. CASE d = c
    BY <2>1, <1>2, <1>3, <1>4 DEF Sound
  <2>2. CASE d # c
    BY <2>2, <1>2, <1>3, <1>4
       DEF Sound, IInv, CallsSound, AdmitsOnlyCurrent, DeniesOnlyStale
  <2> QED BY <2>1, <2>2
<1>8. CallsSound' /\ AdmitsOnlyCurrent' /\ DeniesOnlyStale'
  BY <1>7 DEF CallsSound, AdmitsOnlyCurrent, DeniesOnlyStale
<1> QED BY <1>5, <1>6, <1>8 DEF IInv

LEMMA CallKeeps == ASSUME IInv, NEW c \in Callers, CallStep(c) PROVE IInv'
<1>0. /\ call[c] \in Call /\ entitled \in SUBSET Callers
      /\ pgapp_clients \in [Keys -> Client \cup {Absent}]
      /\ delivered \in SUBSET Secrets
  BY DEF IInv, TypeOK
<1>s. Sound(c)
  BY DEF IInv, CallsSound
<1>k. call[c].key # None => call[c].key \in Keys
  BY <1>0 DEF Call
<1>1. CASE request(c)
  <2>1. ASSUME NEW path \in {"health", "service"}, NEW step \in {"inner", "denied"},
               WithoutLookup(c, path, step),
               path = "service" /\ step = "inner" => enabled = "off"
        PROVE  IInv'
    <3> DEFINE r == [step |-> step, path |-> path, key |-> None,
                     secret |-> NoSecret, row |-> NoSecret]
    <3>1. r \in Call
      BY DEF Call
    <3>2. Become(c, r) /\ entitled' = entitled \ {c}
      BY <2>1 DEF WithoutLookup
    <3>3. /\ r.key = None /\ r.step \notin {"select", "verify"}
          /\ ~(enabled = "on" /\ r.step = "inner" /\ r.path = "service")
      BY <2>1
    <3> HIDE DEF r
    <3> QED BY <3>1, <3>2, <3>3, <1>0, BecomeKeeps
  <2>2. ASSUME NEW key \in Keys, NEW secret \in Secrets,
               WithCredentials(c, key, secret)
        PROVE  IInv'
    <3> DEFINE r == [step |-> "select", path |-> "service", key |-> key,
                     secret |-> secret, row |-> NoSecret]
    <3>1. r \in Call
      BY DEF Call
    <3>2. Become(c, r) /\ secret \in delivered
      BY <2>2 DEF WithCredentials
    <3>3. /\ r.key = key /\ r.secret = secret
          /\ r.step = "select" /\ r.path = "service"
      OBVIOUS
    <3>4. key # None
      BY ConstantsAssumption
    <3>5. /\ entitled' \in SUBSET Callers
          /\ \A d \in Callers \ {c} : d \in entitled' <=> d \in entitled
          /\ Current(key, secret) => c \in entitled'
      BY <2>2, <1>0 DEF WithCredentials
    <3> HIDE DEF r
    <3> QED BY <3>1, <3>2, <3>3, <3>4, <3>5, BecomeKeeps
  <2> QED BY <1>1, <2>1, <2>2 DEF request
<1>2. CASE authenticate(c)
  <2>0. /\ call[c].step = "select" /\ call[c].key \in Keys /\ call[c].key # None
        /\ entitled' = entitled
        /\ call[c].path = "service" /\ call[c].secret \in delivered
    BY <1>2, <1>s, <1>k DEF authenticate, Sound
  <2>1. CASE IsActive(call[c].key)
    <3> DEFINE s == pgapp_clients[call[c].key].secret
               r == [call[c] EXCEPT !.step = "verify", !.row = s]
    <3>0. s \in Secrets
      BY <2>0, <2>1, <1>0 DEF IsActive, Client, Absent
    <3>1. r \in Call
      BY <1>0, <3>0 DEF Call
    <3>2. /\ r.step = "verify" /\ r.row = s /\ r.key = call[c].key
          /\ r.secret = call[c].secret /\ r.path = call[c].path
      BY <1>0 DEF Call
    <3>3. Become(c, r)
      BY <1>2, <2>1 DEF authenticate
    <3>4. call[c].secret = s => c \in entitled /\ owner[s] = call[c].key
      BY <1>s, <2>0, <2>1, <3>0 DEF Sound, Current, IInv, Ledger, SecretsOwned,
                                    NoSecret, Secrets
    <3>5. call[c].secret # s => ~Current(call[c].key, call[c].secret)
      BY DEF Current
    <3> HIDE DEF r, s
    <3> QED BY <3>1, <3>2, <3>3, <3>4, <3>5, <2>0, <1>0, BecomeKeeps
  <2>2. CASE ~IsActive(call[c].key)
    <3> DEFINE r == [call[c] EXCEPT !.step = "denied"]
    <3>1. r \in Call /\ r.step = "denied" /\ r.key = call[c].key
          /\ r.secret = call[c].secret
      BY <1>0 DEF Call
    <3>2. Become(c, r) /\ ~Current(call[c].key, call[c].secret)
      BY <1>2, <2>2 DEF authenticate, Current
    <3> HIDE DEF r
    <3> QED BY <3>1, <3>2, <2>0, <1>0, BecomeKeeps
  <2> QED BY <2>1, <2>2
<1>3. CASE verify_secret(c)
  <2> DEFINE st == IF call[c].row = call[c].secret THEN "inner" ELSE "denied"
             r == [call[c] EXCEPT !.step = st]
  <2>1. r \in Call /\ r.step = st /\ r.key = call[c].key
        /\ r.secret = call[c].secret /\ r.path = call[c].path
    BY <1>0 DEF Call
  <2>2. Become(c, r) /\ entitled' = entitled /\ call[c].step = "verify"
    BY <1>3 DEF verify_secret
  <2>3. /\ st = "inner" => c \in entitled /\ owner[call[c].secret] = call[c].key
        /\ st = "denied" => ~Current(call[c].key, call[c].secret)
        /\ st \in {"inner", "denied"}
        /\ call[c].key # None /\ call[c].secret \in delivered
    BY <2>2, <1>s DEF Sound
  <2> HIDE DEF r, st
  <2> QED BY <2>1, <2>2, <2>3, <1>0, BecomeKeeps
<1>4. CASE authenticate_error(c)
  <2> DEFINE r == [call[c] EXCEPT !.step = "error"]
  <2>1. r \in Call /\ r.step = "error" /\ r.key = call[c].key
        /\ r.secret = call[c].secret
    BY <1>0 DEF Call
  <2>2. Become(c, r) /\ entitled' = entitled
    BY <1>4 DEF authenticate_error
  <2>3. call[c].key # None => call[c].secret \in delivered
    BY <1>s DEF Sound
  <2> HIDE DEF r
  <2> QED BY <2>1, <2>2, <2>3, <1>0, BecomeKeeps
<1>5. CASE answer(c)
  <2>1. IdleCall \in Call /\ IdleCall.step = "idle" /\ IdleCall.key = None
    BY DEF IdleCall, Call
  <2>2. Become(c, IdleCall) /\ entitled' = entitled
    BY <1>5 DEF answer
  <2> QED BY <2>1, <2>2, <1>0, BecomeKeeps
<1> QED BY <1>1, <1>2, <1>3, <1>4, <1>5 DEF CallStep

-----------------------------------------------------------------------------
(* Steps of the admin routes: the requests stand still.                    *)

\* What every request depends on: no secret that was handed out is made
\* current, and no secret in use changes hands.
LEMMA CredentialsKeepCalls ==
    ASSUME IInv, UNCHANGED <<enabled, call, entitled>>, delivered \subseteq delivered',
           \A s \in delivered : owner'[s] = owner[s],
           \A k \in Keys, s \in delivered : Current(k, s)' => Current(k, s)
    PROVE  CallsSound' /\ AdmitsOnlyCurrent' /\ DeniesOnlyStale'
<1>1. ASSUME NEW c \in Callers
      PROVE  /\ Sound(c)'
             /\ (enabled = "on" /\ call[c].step = "inner" /\ call[c].path = "service" =>
                    c \in entitled /\ owner[call[c].secret] = call[c].key)'
             /\ (call[c].step = "denied" /\ call[c].key # None =>
                    ~Current(call[c].key, call[c].secret))'
  <2>1. call[c].key # None => call[c].key \in Keys
    BY DEF IInv, TypeOK, Call
  <2>2. call[c].key # None => call[c].secret \in delivered
    BY DEF IInv, CallsSound, Sound
  <2>3. call[c].key # None =>
            /\ owner'[call[c].secret] = owner[call[c].secret]
            /\ Current(call[c].key, call[c].secret)' =>
                    Current(call[c].key, call[c].secret)
    BY <2>1, <2>2
  <2> QED BY <2>2, <2>3 DEF IInv, CallsSound, Sound, AdmitsOnlyCurrent, DeniesOnlyStale
<1> QED BY <1>1 DEF CallsSound, AdmitsOnlyCurrent, DeniesOnlyStale

\* A statement of an admin route stores a secret that nobody was given yet, or
\* takes one away: no credentials in the hands of a client become current.
LEMMA NothingRevived ==
    ASSUME IInv, NEW a \in Admins, AdminStep(a), NEW k \in Keys
    PROVE  /\ \A s \in delivered : Current(k, s)' => Current(k, s)
           /\ pgapp_clients[k].state = "inactive" =>
                    pgapp_clients'[k].state = "inactive"
<1>0. /\ pgapp_clients \in [Keys -> Client \cup {Absent}]
      /\ admin[a] \in Admin
      /\ admin[a].step \in Generates => admin[a].secret \notin delivered
  BY DEF IInv, TypeOK, Ledger, PendingSecretsFresh
<1>1. CASE UNCHANGED pgapp_clients
  BY <1>1 DEF Current, IsActive
<1>2. ASSUME NEW s, NEW st, Put(admin[a].key, s, st),
             pgapp_clients[admin[a].key].state # "inactive",
             st = "active" => s \notin delivered,
             st \in {"active", "inactive"}
      PROVE  /\ \A t \in delivered : Current(k, t)' => Current(k, t)
             /\ pgapp_clients[k].state = "inactive" =>
                    pgapp_clients'[k].state = "inactive"
  <2> DEFINE r == [secret |-> s, state |-> st]
  <2>1. /\ r.secret = s /\ r.state = st
        /\ pgapp_clients' = [pgapp_clients EXCEPT ![admin[a].key] = r]
    BY <1>2 DEF Put
  <2> HIDE DEF r
  <2>2. CASE k = admin[a].key
    BY <2>1, <2>2, <1>0, <1>2 DEF Current, IsActive
  <2>3. CASE k # admin[a].key
    BY <2>1, <2>3, <1>0 DEF Current, IsActive
  <2> QED BY <2>2, <2>3
<1>3. CASE create_client(a)
  BY <1>0, <1>1, <1>2, <1>3 DEF create_client, Reject, Generates, Absent
<1>4. CASE rotate_secret(a)
  BY <1>0, <1>1, <1>2, <1>4 DEF rotate_secret, Reject, Generates, IsActive
<1>5. CASE deactivate(a)
  BY <1>0, <1>1, <1>2, <1>5 DEF deactivate, Reject, IsActive
<1>6. CASE record_request(a) \/ admin_drop(a) \/
           \E op \in Ops, key \in Keys : admin_request(a, op, key)
  BY <1>1, <1>6 DEF record_request, admin_drop, admin_request
<1> QED BY <1>3, <1>4, <1>5, <1>6 DEF AdminStep

\* The handler of a moves on with a secret it had, or with none; if it had one
\* to store, the row of its key may have it now.
LEMMA HandlerKeeps ==
    ASSUME IInv, NEW a \in Admins, NEW r \in Admin,
           admin' = [admin EXCEPT ![a] = r], r.step \notin Generates,
           r.secret = NoSecret \/ (r.secret = admin[a].secret /\ r.key = admin[a].key),
           UNCHANGED <<enabled, next_secret, call, history>>,
           pgapp_clients' \in [Keys -> Client \cup {Absent}],
           \A k \in Keys : \/ pgapp_clients'[k].secret = pgapp_clients[k].secret
                           \/ k = admin[a].key /\ pgapp_clients'[k].secret = admin[a].secret,
           \/ delivered' = delivered
           \/ /\ admin[a].step \notin Generates /\ admin[a].secret # NoSecret
              /\ delivered' = delivered \cup {admin[a].secret}
    PROVE  TypeOK' /\ Ledger'
<1>0. /\ admin \in [Admins -> Admin] /\ admin[a] \in Admin
      /\ admin[a].secret \in Secrets \cup {NoSecret}
      /\ next_secret \in 1..(MaxSecrets + 1)
  BY DEF IInv, TypeOK, Admin, IdleAdmin
<1>1. admin'[a] = r /\ \A b \in Admins \ {a} : admin'[b] = admin[b]
  BY <1>0
<1>2. TypeOK'
  BY <1>0 DEF IInv, TypeOK, history
<1>3. SecretsOwned'
  BY <1>1 DEF IInv, Ledger, SecretsOwned, history
<1>4. SecretsGenerated'
  BY <1>0, <1>1, ConstantsAssumption
     DEF IInv, Ledger, SecretsGenerated, NoSecret, Secrets
<1>5. PendingSecretsFresh'
  <2> SUFFICES ASSUME NEW b \in Admins, admin'[b].step \in Generates
               PROVE  /\ admin'[b].secret # NoSecret
                      /\ admin'[b].secret \notin delivered'
                      /\ \A d \in Admins \ {b} : admin'[d].secret # admin'[b].secret
    BY DEF PendingSecretsFresh
  <2>1. b # a /\ admin'[b] = admin[b]
    BY <1>1
  <2>2. /\ admin[b].secret # NoSecret /\ admin[b].secret \notin delivered
        /\ \A d \in Admins \ {b} : admin[d].secret # admin[b].secret
    BY <2>1 DEF IInv, Ledger, PendingSecretsFresh
  <2> QED BY <2>1, <2>2, <1>1
<1> QED BY <1>2, <1>3, <1>4, <1>5 DEF Ledger

LEMMA AdminKeeps == ASSUME IInv, NEW a \in Admins, AdminStep(a) PROVE IInv'
<1>0. /\ pgapp_clients \in [Keys -> Client \cup {Absent}]
      /\ admin \in [Admins -> Admin] /\ admin[a] \in Admin
      /\ next_secret \in 1..(MaxSecrets + 1) /\ delivered \in SUBSET Secrets
      /\ owner \in [Secrets -> Keys \cup {None}]
  BY DEF IInv, TypeOK
<1>c. ASSUME UNCHANGED <<enabled, call, entitled>>, delivered \subseteq delivered',
             \A s \in delivered : owner'[s] = owner[s], TypeOK', Ledger'
      PROVE  IInv'
  BY <1>c, NothingRevived, CredentialsKeepCalls DEF IInv
<1>1. ASSUME NEW op \in Ops, NEW key \in Keys, admin_request(a, op, key)
      PROVE  IInv'
  <2>1. CASE op \in Generates /\ next_secret <= MaxSecrets
    <3> DEFINE r == [step |-> op, key |-> key, secret |-> next_secret]
    <3>1. r \in Admin /\ r.step = op /\ r.key = key /\ r.secret = next_secret
      BY <2>1, <1>0, ConstantsAssumption DEF Admin, IdleAdmin, Ops, Secrets
    <3>2. /\ admin' = [admin EXCEPT ![a] = r]
          /\ owner' = [owner EXCEPT ![next_secret] = key]
          /\ next_secret' = next_secret + 1
          /\ UNCHANGED <<enabled, pgapp_clients, call, delivered, entitled>>
      BY <1>1, <2>1 DEF admin_request
    <3> HIDE DEF r
    <3>3. next_secret \in Secrets /\ next_secret # NoSecret
      BY <1>0, <2>1, ConstantsAssumption DEF Secrets, NoSecret
    <3>4. admin'[a] = r /\ \A b \in Admins \ {a} : admin'[b] = admin[b]
      BY <3>2, <1>0
    <3>5. TypeOK'
      <4>1. next_secret' \in 1..(MaxSecrets + 1)
        BY <3>2, <1>0, <2>1, ConstantsAssumption
      <4>2. owner' \in [Secrets -> Keys \cup {None}] /\ admin' \in [Admins -> Admin]
        BY <3>1, <3>2, <1>0
      <4> QED BY <4>1, <4>2, <3>2 DEF IInv, TypeOK
    <3>6. /\ \A k \in Keys : pgapp_clients[k].secret # next_secret
          /\ \A b \in Admins : admin[b].secret # next_secret
          /\ next_secret \notin delivered
      <4>1. \A k \in Keys : pgapp_clients[k].secret \in Int
        BY <1>0 DEF Client, Absent, Secrets, NoSecret
      <4>2. \A b \in Admins : admin[b].secret \in Int
        BY <1>0 DEF Admin, IdleAdmin, Secrets, NoSecret
      <4> QED BY <4>1, <4>2, <1>0 DEF IInv, Ledger, SecretsGenerated, Secrets
    <3>7. owner'[next_secret] = key
          /\ \A s \in Secrets : s # next_secret => owner'[s] = owner[s]
      BY <3>2, <3>3, <1>0
    <3>8. SecretsOwned'
      <4>1. \A k \in Keys : pgapp_clients[k].secret # NoSecret =>
                                pgapp_clients[k].secret \in Secrets
        BY <1>0 DEF Client, Absent
      <4>2. \A b \in Admins : admin[b].secret # NoSecret => admin[b].secret \in Secrets
        BY <1>0 DEF Admin, IdleAdmin
      <4> QED BY <4>1, <4>2, <3>1, <3>2, <3>4, <3>6, <3>7
              DEF IInv, Ledger, SecretsOwned
    <3>9. SecretsGenerated'
      <4>1. \A k \in Keys : pgapp_clients[k].secret \in Int
        BY <1>0 DEF Client, Absent, Secrets, NoSecret
      <4>2. \A b \in Admins : admin[b].secret \in Int
        BY <1>0 DEF Admin, IdleAdmin, Secrets, NoSecret
      <4> QED BY <4>1, <4>2, <3>1, <3>2, <3>4, <1>0
              DEF IInv, Ledger, SecretsGenerated, Secrets
    <3>10. PendingSecretsFresh'
      BY <3>1, <3>2, <3>3, <3>4, <3>6 DEF IInv, Ledger, PendingSecretsFresh
    <3> QED BY <3>2, <3>5, <3>6, <3>7, <3>8, <3>9, <3>10, <1>0, <1>c DEF Ledger
  <2>2. CASE op \notin Generates
    <3> DEFINE r == [step |-> op, key |-> key, secret |-> NoSecret]
    <3>1. r \in Admin /\ r.step = op /\ r.secret = NoSecret
      BY DEF Admin, IdleAdmin, Ops
    <3>2. /\ admin' = [admin EXCEPT ![a] = r]
          /\ UNCHANGED <<enabled, pgapp_clients, next_secret, call, delivered, history>>
      BY <1>1, <2>2 DEF admin_request, history
    <3> HIDE DEF r
    <3>3. TypeOK' /\ Ledger'
      BY <3>1, <3>2, <2>2, <1>0, HandlerKeeps
    <3> QED BY <3>2, <3>3, <1>c DEF history
  <2> QED BY <1>1, <2>1, <2>2 DEF admin_request
<1>2. ASSUME NEW s, Respond(a, s), admin[a].key \in Keys,
             s = NoSecret \/ s = admin[a].secret,
             pgapp_clients' \in [Keys -> Client \cup {Absent}],
             \A k \in Keys : \/ pgapp_clients'[k].secret = pgapp_clients[k].secret
                             \/ k = admin[a].key
                                    /\ pgapp_clients'[k].secret = admin[a].secret
      PROVE  IInv'
  <2> DEFINE r == [step |-> "record_request", key |-> admin[a].key, secret |-> s]
  <2>1. r \in Admin /\ r.step \notin Generates /\ r.key = admin[a].key /\ r.secret = s
    BY <1>0, <1>2 DEF Admin, IdleAdmin, Generates
  <2>2. /\ admin' = [admin EXCEPT ![a] = r]
        /\ UNCHANGED <<enabled, next_secret, call, delivered, history>>
    BY <1>2 DEF Respond
  <2> HIDE DEF r
  <2>3. TypeOK' /\ Ledger'
    BY <2>1, <2>2, <1>2, HandlerKeeps
  <2> QED BY <2>2, <2>3, <1>c DEF history
<1>3. ASSUME NEW s \in Secrets, NEW st \in {"active", "inactive"},
             admin[a].key \in Keys, Put(admin[a].key, s, st),
             s \in {admin[a].secret, pgapp_clients[admin[a].key].secret}
      PROVE  /\ pgapp_clients' \in [Keys -> Client \cup {Absent}]
             /\ \A k \in Keys :
                    \/ pgapp_clients'[k].secret = pgapp_clients[k].secret
                    \/ k = admin[a].key /\ pgapp_clients'[k].secret = admin[a].secret
  <2> DEFINE r == [secret |-> s, state |-> st]
  <2>1. r \in Client /\ r.secret = s
    BY DEF Client
  <2>2. pgapp_clients' = [pgapp_clients EXCEPT ![admin[a].key] = r]
    BY <1>3 DEF Put
  <2> HIDE DEF r
  <2> QED BY <2>1, <2>2, <1>0, <1>3
<1>4. ASSUME admin[a].step \in Ops
      PROVE  admin[a].key \in Keys
  BY <1>0, <1>4 DEF Admin, IdleAdmin, Ops
<1>5. ASSUME admin[a].step \in Generates
      PROVE  admin[a].secret \in Secrets /\ admin[a].key \in Keys
  BY <1>0, <1>4, <1>5 DEF IInv, Ledger, PendingSecretsFresh, Admin, IdleAdmin,
                          Generates, Ops
<1>6. ASSUME admin[a].step \in Ops, Reject(a) PROVE IInv'
  BY <1>0, <1>2, <1>4, <1>6 DEF Reject
<1>7. ASSUME admin[a].step \in Generates, Put(admin[a].key, admin[a].secret, "active"),
             Respond(a, admin[a].secret)
      PROVE  IInv'
  BY <1>2, <1>3, <1>5, <1>7
<1>8. CASE create_client(a)
  BY <1>6, <1>7, <1>8 DEF create_client, Generates, Ops
<1>9. CASE rotate_secret(a)
  BY <1>6, <1>7, <1>9 DEF rotate_secret, Generates, Ops
<1>10. CASE deactivate(a)
  <2>1. admin[a].step \in Ops /\ admin[a].key \in Keys
    BY <1>4, <1>10 DEF deactivate, Ops
  <2>2. CASE ~IsActive(admin[a].key)
    BY <1>6, <1>10, <2>1, <2>2 DEF deactivate
  <2>3. CASE IsActive(admin[a].key)
    <3>1. pgapp_clients[admin[a].key].secret \in Secrets
      BY <1>0, <2>1, <2>3 DEF IsActive, Client, Absent
    <3> QED BY <1>2, <1>3, <1>10, <2>1, <2>3, <3>1 DEF deactivate
  <2> QED BY <2>2, <2>3
<1>11. CASE record_request(a) \/ admin_drop(a)
  <2>1. IdleAdmin \in Admin /\ IdleAdmin.step \notin Generates
        /\ IdleAdmin.secret = NoSecret
    BY DEF Admin, IdleAdmin, Generates
  <2>2. /\ admin' = [admin EXCEPT ![a] = IdleAdmin]
        /\ UNCHANGED <<enabled, pgapp_clients, next_secret, call, history>>
        /\ \/ delivered' = delivered
           \/ /\ admin[a].step = "record_request"
              /\ delivered' = delivered \cup ({admin[a].secret} \ {NoSecret})
    BY <1>11 DEF record_request, admin_drop
  <2>3. \/ delivered' = delivered
        \/ /\ admin[a].step \notin Generates /\ admin[a].secret # NoSecret
           /\ delivered' = delivered \cup {admin[a].secret}
    BY <2>2 DEF Generates
  <2>4. TypeOK' /\ Ledger'
    BY <2>1, <2>2, <2>3, <1>0, HandlerKeeps
  <2>5. delivered \subseteq delivered'
    BY <2>3
  <2> QED BY <2>2, <2>4, <2>5, <1>c DEF history
<1> QED BY <1>1, <1>8, <1>9, <1>10, <1>11 DEF AdminStep

-----------------------------------------------------------------------------
\* The inductive invariant, for any number of clients, secrets, admin requests
\* and gRPC requests: what was generated for a key stays with it, what no
\* statement has stored is nobody's, and no request about to get through came
\* with credentials that were not current.
THEOREM Invariance == Spec => []IInv
<1>1. IInv /\ [Next]_vars => IInv'
  <2> SUFFICES ASSUME IInv, [Next]_vars PROVE IInv'
    OBVIOUS
  <2>1. CASE Next
    BY <2>1, AdminKeeps, CallKeeps DEF Next
  <2>2. CASE UNCHANGED vars
    BY <2>2 DEF vars, IInv, TypeOK, Ledger, SecretsOwned, SecretsGenerated,
                PendingSecretsFresh, CallsSound, Sound, Current, IsActive,
                AdmitsOnlyCurrent, DeniesOnlyStale
  <2> QED BY <2>1, <2>2
<1> QED BY InitIInv, <1>1, PTL DEF Spec

\* AuthService::call passes a service request on only if its credentials were
\* current when it arrived (AdmitsOnlyCurrent), however the statements of
\* concurrent rotations, deactivations and requests are ordered.
THEOREM AdmissionCorrect == Spec => []AdmitsOnlyCurrent
<1>1. IInv => AdmitsOnlyCurrent
  BY DEF IInv
<1> QED BY Invariance, <1>1, PTL

\* authenticate answers Ok(None) to no request with current credentials
\* (DeniesOnlyStale).
THEOREM DenialCorrect == Spec => []DeniesOnlyStale
<1>1. IInv => DeniesOnlyStale
  BY DEF IInv
<1> QED BY Invariance, <1>1, PTL

\* create_client, rotate_secret and deactivate bring no credentials back that
\* were handed out and revoked (RevokedForGood).
THEOREM RevocationFinal == Spec => RevokedForGood
<1> DEFINE Final == \A k \in Keys :
        /\ pgapp_clients[k].state = "inactive" =>
                pgapp_clients'[k].state = "inactive"
        /\ \A s \in delivered : ~Current(k, s) => ~Current(k, s)'
<1>1. IInv /\ [Next]_vars => [Final]_vars
  <2> SUFFICES ASSUME IInv, Next PROVE Final
    OBVIOUS
  <2>1. ASSUME NEW a \in Admins, AdminStep(a) PROVE Final
    BY <2>1, NothingRevived
  <2>2. ASSUME NEW c \in Callers, CallStep(c) PROVE Final
    <3>1. UNCHANGED pgapp_clients
      BY <2>2 DEF CallStep, request, WithoutLookup, WithCredentials, authenticate,
                  verify_secret, authenticate_error, answer, Become
    <3> QED BY <3>1 DEF Current, IsActive
  <2> QED BY <2>1, <2>2 DEF Next
<1> QED BY Invariance, <1>1, PTL DEF Spec, RevokedForGood
=============================================================================
