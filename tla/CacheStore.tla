----------------------------- MODULE CacheStore -----------------------------
(***************************************************************************)
(* The cache of pgapp: CacheStore (crates/pgapp-core/src/cache.rs) over    *)
(* the tables of migrations/0001_cache.sql.                                *)
(*                                                                         *)
(* Grain.  One step per SQL statement (PostgreSQL, READ COMMITTED), but    *)
(* for three statements that work on what they saw when they began.        *)
(* sweep_expired and the eviction of enforce_capacity choose rows in a     *)
(* subquery that locks nothing and delete them by id; invalidate_namespace *)
(* deletes the rows its snapshot has.  The choice is a step of its own:    *)
(* until the DELETE reaches a row it may change, and only what the DELETE  *)
(* joins on is checked again; rows that come later are not seen.  A DELETE *)
(* of many rows locks them one after the other, in any order.  What a      *)
(* transaction writes is applied at its COMMIT, and the rows it has        *)
(* deleted, or selected FOR UPDATE, are locked from that statement on.     *)
(*                                                                         *)
(* Data.  A value is the set of write calls that contributed to it: Set    *)
(* and GetSet replace it, Increment, Decrement, Append and Prepend add to  *)
(* it; its size is its cardinality.  hash_key is injective, so a key       *)
(* stands for its hash.  Time starts at 1; expires_at 0 is NULL, ttl 0 is  *)
(* "not given".  generation[ns] is one more than the column, and 0 while   *)
(* the namespace has no row.  The counters of cache_stats are left out: no *)
(* operation but stats reads them.                                         *)
(***************************************************************************)
EXTENDS Integers, FiniteSets

CONSTANTS
    Workers,            \* RPCs served concurrently
    Namespaces, Keys,
    Ops,                \* the operations clients call, a subset of AllOps
    Ttls,               \* ttl_seconds clients give, 0 for none
    MaxKeys,            \* CacheLimits.max_keys, 0 for None
    MaxBytes,           \* CacheLimits.max_bytes, 0 for None
    MaxCalls,           \* bound: calls
    MaxGeneration,      \* bound: the last generation to be invalidated, plus 1
    MaxTime             \* bound: ticks of the clock

AtomicOps == {"get_set", "add_integer", "concat"}
WriteOps == AtomicOps \cup {"set", "set_nx"}
AllOps == WriteOps \cup {"get", "delete"}

ASSUME ConstantsAssumption ==
    /\ Namespaces # {} /\ Keys # {}
    /\ Ops \subseteq AllOps
    /\ Ttls \subseteq Nat
    /\ MaxKeys \in Nat /\ MaxBytes \in Nat /\ MaxCalls \in Nat
    /\ MaxGeneration \in Nat \ {0} /\ MaxTime \in Nat

VARIABLES
    generation,         \* cache_namespaces
    cache_entries,      \* the set of rows
    next_id,            \* sequence of cache_entries.id
    now,                \* the database clock
    rpc,                \* worker -> the state of its handler
    calls,              \* calls so far: the number of the latest one
    invalidated,        \* history: namespace -> invalidations so far
    born                \* history: call -> invalidations when it began

vars == <<generation, cache_entries, next_id, now, rpc, calls, invalidated, born>>

Calls == 1..MaxCalls
Ids == Nat \ {0}            \* what the sequence returns
Value == SUBSET Calls

Row == [id: Ids, namespace: Namespaces, generation: Nat \ {0},
        cache_key: Keys, value: Value, expires_at: Nat, accessed: Nat]

Steps == {"idle", "set", "begin", "lock", "delete_expired", "insert", "select",
          "write", "sweep", "sweep_delete", "generation", "usage", "evict",
          "evict_delete", "bytes", "get", "touch", "delete",
          "invalidate", "invalidate_delete"}
WriteSteps == {"set", "begin", "lock", "delete_expired", "insert", "select", "write"}
\* The steps of a statement that deletes many rows.
DeleteSteps == {"sweep_delete", "invalidate_delete"}

\* A handler: its arguments, then what it carries from statement to statement:
\* t is now() of its transaction, locked the rows that transaction holds,
\* id and value what it selected (0 for none), picked the ids of a subquery.
Rpc == [step: Steps, op: AllOps \cup {"invalidate"}, namespace: Namespaces,
        cache_key: Keys, ttl: Nat, n: 0..MaxCalls, generation: Nat, t: Nat,
        locked: SUBSET Ids, id: Nat, value: Value,
        picked: SUBSET Ids, excess: Int, bytes: Nat]
Idle == [step |-> "idle", op |-> "get",
         namespace |-> CHOOSE ns \in Namespaces : TRUE,
         cache_key |-> CHOOSE k \in Keys : TRUE,
         ttl |-> 0, n |-> 0, generation |-> 0, t |-> 0, locked |-> {},
         id |-> 0, value |-> {}, picked |-> {}, excess |-> 0, bytes |-> 0]

TypeOK ==
    /\ generation \in [Namespaces -> Nat]
    /\ cache_entries \in SUBSET Row
    /\ next_id \in Ids
    /\ now \in Nat
    /\ rpc \in [Workers -> Rpc]
    /\ calls \in 0..MaxCalls
    /\ invalidated \in [Namespaces -> Nat]
    /\ born \in [Calls -> Nat]

\* apply_schema on an empty database.
Init ==
    /\ generation = [ns \in Namespaces |-> 0]
    /\ cache_entries = {}
    /\ next_id = 1 /\ now = 1
    /\ rpc = [w \in Workers |-> Idle]
    /\ calls = 0
    /\ invalidated = [ns \in Namespaces |-> 0]
    /\ born = [c \in Calls |-> 0]

-----------------------------------------------------------------------------
(* What the SQL conditions say, and the locks.                             *)

\* expires_at IS NOT NULL AND expires_at <= t
Expired(r, t) == r.expires_at # 0 /\ r.expires_at <= t

In(ns, g) == {r \in cache_entries : r.namespace = ns /\ r.generation = g}

\* The rows of w's key in the generation w read when it began.
RowsOfKey(w) == {r \in In(rpc[w].namespace, rpc[w].generation) :
                    r.cache_key = rpc[w].cache_key}

IdsOf(S) == {r.id : r \in S}
RowsById(ids) == {r \in cache_entries : r.id \in ids}

\* A statement of w waits until no other transaction has a row of S locked.
Free(w, S) == \A v \in Workers \ {w} : rpc[v].locked \cap IdsOf(S) = {}

\* pg_advisory_xact_lock on namespace:generation:key_hash
HoldsKeyLock(v) == /\ rpc[v].op \in AtomicOps
                   /\ rpc[v].step \in {"delete_expired", "select", "write"}
SameKey(v, w) == /\ rpc[v].namespace = rpc[w].namespace
                 /\ rpc[v].generation = rpc[w].generation
                 /\ rpc[v].cache_key = rpc[w].cache_key

ExpiresAt(t, ttl) == IF ttl = 0 THEN 0 ELSE t + ttl

NewRow(w, t, value) ==
    [id |-> next_id, namespace |-> rpc[w].namespace,
     generation |-> rpc[w].generation, cache_key |-> rpc[w].cache_key,
     value |-> value, expires_at |-> ExpiresAt(t, rpc[w].ttl), accessed |-> t]

At(w, step) == rpc[w].step = step
Goto(w, step) == rpc' = [rpc EXCEPT ![w].step = step]
Return(w) == rpc' = [rpc EXCEPT ![w] = Idle]

\* COMMIT: the locks go, and enforce_capacity(namespace) is next.
WrittenUncommitted(w) ==
    rpc' = [rpc EXCEPT ![w] = [Idle EXCEPT !.step = "sweep",
                !.namespace = rpc[w].namespace,
                !.locked = {r.id : r \in {q \in cache_entries' :
                    /\ q.namespace = rpc[w].namespace
                    /\ q.generation = rpc[w].generation
                    /\ q.cache_key = rpc[w].cache_key}}]]
Written(w) == rpc' = [rpc EXCEPT ![w] = [Idle EXCEPT !.step = "sweep",
                                             !.namespace = rpc[w].namespace]]

NoCall == UNCHANGED <<generation, now, calls, invalidated, born>>
OnlyRpc == NoCall /\ UNCHANGED <<cache_entries, next_id>>
OnlyRows == NoCall /\ UNCHANGED next_id

-----------------------------------------------------------------------------
(* Calls, the clock, dropped futures.                                      *)

Tick ==
    /\ now < MaxTime
    /\ now' = now + 1
    /\ UNCHANGED <<generation, cache_entries, next_id, rpc, calls, invalidated, born>>

\* Request timeout, cancellation or a database or argument error: the open
\* transaction is rolled back and what should follow a COMMIT never happens.
Abandon(w) == ~At(w, "idle") /\ Return(w) /\ OnlyRpc

FirstStep(op) == CASE op = "set" -> "set"
                   [] op = "get" -> "get"
                   [] op = "delete" -> "delete"
                   [] OTHER -> "begin"

\* INSERT INTO cache_namespaces ... ON CONFLICT DO NOTHING, the first statement
\* of every write and of invalidate_namespace.  The call carries nothing over
\* to its next statement, so it has no worker yet: a worker at "idle" may have
\* a call that is past this one, or waits in it for an invalidation.
ensure_namespace(ns) ==
    /\ generation[ns] = 0
    /\ generation' = [generation EXCEPT ![ns] = 1]
    /\ UNCHANGED <<cache_entries, next_id, now, rpc, calls, invalidated, born>>

\* SELECT generation: what the call works with.  Without a row get is a miss
\* and delete returns false, so neither takes a step; a write has ensured it.
Calling(w, op, ns, k, ttl) ==
    /\ At(w, "idle") /\ calls < MaxCalls
    /\ op \in WriteOps \/ ttl = 0
    /\ calls' = calls + 1
    /\ born' = [born EXCEPT ![calls + 1] = invalidated[ns]]
    /\ rpc' = [rpc EXCEPT ![w] =
            [Idle EXCEPT !.step = FirstStep(op), !.op = op, !.namespace = ns,
                         !.cache_key = k, !.ttl = ttl, !.n = calls + 1,
                         !.generation = generation[ns]]]
    /\ UNCHANGED <<generation, cache_entries, next_id, now, invalidated>>
namespace_generation(w, op, ns, k, ttl) ==
    generation[ns] # 0 /\ Calling(w, op, ns, k, ttl)

-----------------------------------------------------------------------------
(* Reading, deleting, invalidating.                                        *)

\* expires_at IS NULL OR expires_at > now()
get(w) ==
    /\ At(w, "get")
    /\ LET hits == {r \in RowsOfKey(w) : ~Expired(r, now)} IN
        \/ hits = {} /\ Return(w)
        \/ \E r \in hits : rpc' = [rpc EXCEPT ![w].step = "touch",
                                              ![w].id = r.id, ![w].value = r.value]
    /\ OnlyRpc

\* last_accessed_at of the row with that id, whatever has become of it.
get_touch(w) ==
    /\ At(w, "touch")
    /\ LET found == RowsById({rpc[w].id}) IN
        /\ Free(w, found)
        /\ cache_entries' = (cache_entries \ found)
                \cup {[r EXCEPT !.accessed = now] : r \in found}
    /\ Return(w) /\ OnlyRows

delete(w) ==
    /\ At(w, "delete")
    /\ Free(w, RowsOfKey(w))
    /\ cache_entries' = cache_entries \ RowsOfKey(w)
    /\ Return(w) /\ OnlyRows

\* One statement.  Its snapshot has the rows that its DELETE will find: all of
\* them are of earlier generations than the one it will create.
invalidate_namespace(w, ns) ==
    /\ At(w, "idle")
    /\ generation[ns] \in 1..(MaxGeneration - 1)
    /\ rpc' = [rpc EXCEPT ![w] =
            [Idle EXCEPT !.step = "invalidate", !.op = "invalidate", !.namespace = ns,
                         !.picked = IdsOf({r \in cache_entries : r.namespace = ns})]]
    /\ OnlyRpc

\* UPDATE cache_namespaces waits for another one that has the row.
HoldsNamespace(v, ns) == At(v, "invalidate_delete") /\ rpc[v].namespace = ns
invalidate_update(w) ==
    /\ At(w, "invalidate")
    /\ \A v \in Workers : ~HoldsNamespace(v, rpc[w].namespace)
    /\ Goto(w, "invalidate_delete")
    /\ OnlyRpc

\* The DELETE of many rows comes to one that is left of them, and locks it.
Left(w) == {r \in RowsById(rpc[w].picked) : r.id \notin rpc[w].locked}
delete_row(w) ==
    /\ rpc[w].step \in DeleteSteps
    /\ \E r \in Left(w) : /\ Free(w, {r})
                          /\ rpc' = [rpc EXCEPT ![w].locked = @ \cup {r.id}]
    /\ OnlyRpc

\* COMMIT: generation + 1 in the row that ensure_namespace made, and the rows
\* are gone.
invalidate_rows_only(w) ==
    /\ At(w, "invalidate_delete") /\ Left(w) = {}
    /\ cache_entries' = cache_entries \ RowsById(rpc[w].picked)
    /\ invalidated' = [invalidated EXCEPT ![rpc[w].namespace] = @ + 1]
    /\ Return(w)
    /\ UNCHANGED <<generation, next_id, now, calls, born>>
invalidate_delete(w) ==
    /\ At(w, "invalidate_delete") /\ Left(w) = {}
    /\ generation[rpc[w].namespace] # 0
    /\ generation' = [generation EXCEPT ![rpc[w].namespace] = @ + 1]
    /\ cache_entries' = cache_entries \ RowsById(rpc[w].picked)
    /\ invalidated' = [invalidated EXCEPT ![rpc[w].namespace] = @ + 1]
    /\ Return(w)
    /\ UNCHANGED <<next_id, now, calls, born>>

-----------------------------------------------------------------------------
(* Writing.                                                                *)

\* INSERT ... ON CONFLICT DO UPDATE: the conflicting row keeps its id and its
\* last_accessed_at.
set(w) ==
    /\ At(w, "set")
    /\ LET old == RowsOfKey(w)
           new == NewRow(w, now, {rpc[w].n}) IN
        /\ Free(w, old)
        /\ cache_entries' = (cache_entries \ old) \cup
                (IF old = {} THEN {new}
                 ELSE {[new EXCEPT !.id = r.id, !.accessed = r.accessed] : r \in old})
    /\ next_id' = next_id + 1
    /\ Written(w) /\ NoCall

\* BEGIN fixes now() for the transaction.
begin(w) ==
    /\ At(w, "begin")
    /\ rpc' = [rpc EXCEPT ![w].t = now,
            ![w].step = IF rpc[w].op = "set_nx" THEN "delete_expired" ELSE "lock"]
    /\ OnlyRpc

lock_key_for_atomic_write(w) ==
    /\ At(w, "lock")
    /\ \A v \in Workers : HoldsKeyLock(v) => ~SameKey(v, w)
    /\ Goto(w, "delete_expired")
    /\ OnlyRpc

delete_key_even_live(w) ==
    /\ At(w, "delete_expired")
    /\ Free(w, RowsOfKey(w))
    /\ rpc' = [rpc EXCEPT ![w].locked = IdsOf(RowsOfKey(w)),
            ![w].step = IF rpc[w].op = "set_nx" THEN "insert" ELSE "select"]
    /\ OnlyRpc
delete_expired_key(w) ==
    /\ At(w, "delete_expired")
    /\ LET old == {r \in RowsOfKey(w) : Expired(r, rpc[w].t)} IN
        /\ Free(w, old)
        /\ rpc' = [rpc EXCEPT ![w].locked = IdsOf(old),
                ![w].step = IF rpc[w].op = "set_nx" THEN "insert" ELSE "select"]
    /\ OnlyRpc

\* Rows of the key that the transaction has not deleted itself.
Remaining(w) == RowsOfKey(w) \ RowsById(rpc[w].locked)

\* ON CONFLICT DO NOTHING, COMMIT.
set_nx(w) ==
    /\ At(w, "insert")
    /\ Free(w, Remaining(w))
    /\ IF Remaining(w) = {}
       THEN /\ cache_entries' = (cache_entries \ RowsById(rpc[w].locked))
                    \cup {NewRow(w, rpc[w].t, {rpc[w].n})}
            /\ Written(w)
       ELSE /\ cache_entries' = cache_entries \ RowsById(rpc[w].locked)
            /\ Return(w)
    /\ next_id' = next_id + 1
    /\ NoCall

select_key_unlocked(w) ==
    /\ At(w, "select")
    /\ LET live == {r \in Remaining(w) : ~Expired(r, rpc[w].t)} IN
        \/ live = {} /\ Goto(w, "write")
        \/ \E r \in live :
                rpc' = [rpc EXCEPT ![w].step = "write", ![w].id = r.id,
                                   ![w].value = r.value]
    /\ OnlyRpc

select_key_for_update(w) ==
    /\ At(w, "select")
    /\ LET live == {r \in Remaining(w) : ~Expired(r, rpc[w].t)} IN
        /\ Free(w, live)
        /\ \/ live = {} /\ Goto(w, "write")
           \/ \E r \in live :
                rpc' = [rpc EXCEPT ![w].step = "write", ![w].id = r.id,
                                   ![w].value = r.value,
                                   ![w].locked = @ \cup {r.id}]
    /\ OnlyRpc

\* What the operation stores, given what it selected.
Stored(w) == IF rpc[w].op = "get_set" THEN {rpc[w].n}
                                      ELSE rpc[w].value \cup {rpc[w].n}

\* Increment without a ttl keeps the expiry; the others clear it.
KeepsExpiry(w) == rpc[w].ttl = 0 /\ rpc[w].op = "add_integer"

\* Of the row selected, which nobody else could touch since; COMMIT.
update_value(w) ==
    /\ At(w, "write") /\ rpc[w].id # 0
    /\ cache_entries' = {IF r.id = rpc[w].id
                         THEN [r EXCEPT !.value = Stored(w),
                                        !.expires_at = IF KeepsExpiry(w) THEN @
                                             ELSE ExpiresAt(rpc[w].t, rpc[w].ttl)]
                         ELSE r : r \in cache_entries}
    /\ Written(w) /\ OnlyRows

\* A plain INSERT: it waits for a row that is being deleted; a row that set or
\* set_nx put there meanwhile violates UNIQUE (namespace, generation, key_hash),
\* and the operation fails.
insert_value(w) ==
    /\ At(w, "write") /\ rpc[w].id = 0
    /\ Free(w, Remaining(w))
    /\ IF Remaining(w) = {}
       THEN /\ cache_entries' = (cache_entries \ RowsById(rpc[w].locked))
                    \cup {NewRow(w, rpc[w].t, Stored(w))}
            /\ Written(w)
       ELSE UNCHANGED cache_entries /\ Return(w)
    /\ next_id' = next_id + 1
    /\ NoCall

-----------------------------------------------------------------------------
(* enforce_capacity, after every write.                                    *)

\* The subquery of sweep_expired, over all namespaces.
sweep_select(w) ==
    /\ At(w, "sweep")
    /\ LET doomed == {r \in cache_entries : Expired(r, now)} IN
        rpc' = [rpc EXCEPT ![w].picked = IdsOf(doomed),
                           ![w].step = IF doomed = {} THEN "generation"
                                                      ELSE "sweep_delete"]
    /\ OnlyRpc

\* Its DELETE, by id, has come to the end.  Having removed anything, enforce_capacity returns.
sweep_delete(w) ==
    /\ At(w, "sweep_delete") /\ Left(w) = {}
    /\ LET found == RowsById(rpc[w].picked) IN
        /\ cache_entries' = cache_entries \ found
        /\ IF found # {} THEN Return(w)
           ELSE rpc' = [rpc EXCEPT ![w].step = "generation", ![w].picked = {},
                                   ![w].locked = {}]
    /\ OnlyRows

try_namespace_generation(w) ==
    /\ At(w, "generation")
    /\ rpc' = [rpc EXCEPT ![w].step = "usage",
                          ![w].generation = generation[rpc[w].namespace]]
    /\ OnlyRpc

\* The sum of the sizes, as the size of the disjoint union of the values.
ByteSize(S) == Cardinality(UNION {{r.id} \X r.value : r \in S})

\* COUNT and SUM, over expired rows too.
usage(w) ==
    /\ At(w, "usage")
    /\ LET rows == In(rpc[w].namespace, rpc[w].generation) IN
        rpc' = [rpc EXCEPT ![w].step = "evict",
                ![w].excess = IF MaxKeys = 0 THEN 0 ELSE Cardinality(rows) - MaxKeys,
                ![w].bytes = IF MaxBytes = 0 THEN 0 ELSE ByteSize(rows)]
    /\ OnlyRpc

OverLimit(w) == rpc[w].excess > 0 \/ (MaxBytes > 0 /\ rpc[w].bytes > MaxBytes)

\* ORDER BY last_accessed_at ASC, id ASC LIMIT 1
LeastRecentlyUsed(S) ==
    {r \in S : \A q \in S : r.accessed < q.accessed
                            \/ (r.accessed = q.accessed /\ r.id <= q.id)}

\* The loop's condition, and the victim of the next round if there is one.
evict_select(w) ==
    /\ At(w, "evict")
    /\ IF OverLimit(w)
       THEN rpc' = [rpc EXCEPT ![w].step = "evict_delete",
                ![w].picked = IdsOf(LeastRecentlyUsed(
                                In(rpc[w].namespace, rpc[w].generation)))]
       ELSE Return(w)
    /\ OnlyRpc

\* Its DELETE, by id.  No row deleted, no victim or one gone already: break.
evict_delete_no_break(w) ==
    /\ At(w, "evict_delete")
    /\ LET found == RowsById(rpc[w].picked) IN
        /\ Free(w, found)
        /\ cache_entries' = cache_entries \ found
        /\ rpc' = [rpc EXCEPT ![w].step = IF MaxBytes = 0 THEN "evict" ELSE "bytes",
                              ![w].excess = @ - Cardinality(found), ![w].picked = {}]
    /\ OnlyRows
evict_delete(w) ==
    /\ At(w, "evict_delete")
    /\ LET found == RowsById(rpc[w].picked) IN
        /\ Free(w, found)
        /\ cache_entries' = cache_entries \ found
        /\ IF found = {} THEN Return(w)
           ELSE rpc' = [rpc EXCEPT
                    ![w].step = IF MaxBytes = 0 THEN "evict" ELSE "bytes",
                    ![w].excess = @ - 1, ![w].picked = {}]
    /\ OnlyRows

evict_bytes(w) ==
    /\ At(w, "bytes")
    /\ rpc' = [rpc EXCEPT ![w].step = "evict",
            ![w].bytes = ByteSize(In(rpc[w].namespace, rpc[w].generation))]
    /\ OnlyRpc

-----------------------------------------------------------------------------
Transaction(w) ==
    \/ begin(w) \/ lock_key_for_atomic_write(w) \/ delete_expired_key(w)
    \/ set_nx(w) \/ select_key_for_update(w) \/ update_value(w) \/ insert_value(w)

enforce_capacity(w) ==
    \/ sweep_select(w) \/ sweep_delete(w) \/ try_namespace_generation(w)
    \/ usage(w) \/ evict_select(w) \/ evict_delete(w) \/ evict_bytes(w)

Handler(w) ==
    \/ get(w) \/ get_touch(w) \/ delete(w) \/ set(w)
    \/ invalidate_update(w) \/ delete_row(w) \/ invalidate_delete(w)
    \/ Transaction(w) \/ enforce_capacity(w)

-----------------------------------------------------------------------------
(* Who waits for whom.                                                     *)

\* The rows whose locks the statement of w still asks for, by its step.
Wanted(w) ==
    CASE At(w, "touch") -> RowsById({rpc[w].id})
      [] At(w, "delete") \/ At(w, "set") -> RowsOfKey(w)
      [] At(w, "delete_expired") -> {r \in RowsOfKey(w) : Expired(r, rpc[w].t)}
      [] At(w, "insert") -> Remaining(w)
      [] At(w, "select") -> {r \in Remaining(w) : ~Expired(r, rpc[w].t)}
      [] At(w, "write") /\ rpc[w].id = 0 -> Remaining(w)
      [] At(w, "evict_delete") -> RowsById(rpc[w].picked)
      [] rpc[w].step \in DeleteSteps -> Left(w)
      [] OTHER -> {}

\* w has to wait until the transaction of v ends: for a row, for the advisory
\* lock of its key or for the row of its namespace.
WaitsFor(w, v) ==
    \/ v # w /\ rpc[v].locked \cap IdsOf(Wanted(w)) # {}
    \/ At(w, "lock") /\ HoldsKeyLock(v) /\ SameKey(v, w)
    \/ At(w, "invalidate") /\ HoldsNamespace(v, rpc[w].namespace)

\* Calls that wait for each other in circles.
Circle(C) == \A w \in C : /\ \E v \in C : WaitsFor(w, v)
                          /\ \E v \in C : WaitsFor(v, w)

\* PostgreSQL breaks a circle after deadlock_timeout: one of the statements
\* fails and its transaction is rolled back.
detect_deadlock(w) ==
    /\ \E C \in SUBSET Workers : w \in C /\ Circle(C)
    /\ Return(w) /\ OnlyRpc

-----------------------------------------------------------------------------
Next ==
    \/ Tick
    \/ \E ns \in Namespaces : ensure_namespace(ns)
    \/ \E w \in Workers, ns \in Namespaces : invalidate_namespace(w, ns)
    \/ \E w \in Workers : Abandon(w) \/ detect_deadlock(w) \/ Handler(w)
    \/ \E w \in Workers, op \in Ops, ns \in Namespaces, k \in Keys, ttl \in Ttls :
            namespace_generation(w, op, ns, k, ttl)

Spec == Init /\ [][Next]_vars

-----------------------------------------------------------------------------
(* Properties.                                                             *)

\* Namespace invalidation fences writers as well as rows: a get that begins
\* after an invalidation returns nothing that a write begun before it wrote,
\* not even when that write, or its transaction, commits after it.
InvalidationFences ==
    \A w \in Workers : At(w, "touch") =>
        \A c \in rpc[w].value : born[c] >= born[rpc[w].n]

\* The atomic operations are atomic: from select_key_for_update to COMMIT the
\* row still has the value that GetSet will return and that Increment,
\* Decrement, Append and Prepend build on, so no concurrent write is lost.
NothingSlipsIn ==
    \A w \in Workers : At(w, "write") /\ rpc[w].id # 0 =>
        \E r \in RowsOfKey(w) : r.id = rpc[w].id /\ r.value = rpc[w].value

\* SetNX as a lock: while a key has an unexpired row in the generation of the
\* call, SetNX creates none; two clients never both hold what SetNX gave.
SetNxExclusive ==
    [][\A w \in Workers :
        At(w, "insert") /\ rpc'[w].step = "sweep" =>
            \A r \in RowsOfKey(w) : Expired(r, now)]_vars

\* What openspec/specs/cache-service/spec.md says of an entry: it stays until
\* it expires, is deleted, invalidated or evicted.
LiveEntriesStay ==
    [][\A w \in Workers : At(w, "sweep_delete") =>
            \A r \in cache_entries :
                r.id \in IdsOf(cache_entries') \/ Expired(r, now)
                \/ rpc'[w] = rpc[w]]_vars

\* Only sweeps and invalidations deadlock: a call that reads or writes its key
\* never waits in a circle, however its advisory lock, its row locks and its
\* transaction meet those of others.  So PostgreSQL never has to roll back a
\* write to break a deadlock: only a DELETE of many rows is ever its victim.
OnlyDeletesDeadlock ==
    \A C \in SUBSET Workers :
        Circle(C) => \A w \in C : rpc[w].step \in DeleteSteps

-----------------------------------------------------------------------------
(* Why the invariants hold: an inductive invariant.                        *)

\* The steps of a call that still works with the generation it read first.
CallSteps == WriteSteps \cup {"get", "touch", "delete"}

\* The calls of S began in the generation of the namespace that is g.
BornIn(S, g) == \A c \in S : c <= calls /\ born[c] = g - 1

\* UNIQUE (namespace, generation, key_hash), and ids name one row: what the
\* handlers do between a SELECT by key and an UPDATE or DELETE by id rests
\* on both.
RowsUnique ==
    \A r, s \in cache_entries :
        \/ r = s
        \/ /\ r.id # s.id
           /\ \/ r.namespace # s.namespace
              \/ r.generation # s.generation
              \/ r.cache_key # s.cache_key

\* A handler that works with a generation began in it.  One in a transaction
\* on a key holds locks on rows of that key, all expired when it began but for
\* the row it selected, which it will find as it was.
LockSteps == {"insert", "select", "write"}
HandlerSound(w) ==
    /\ \A i \in rpc[w].locked : i < next_id
    /\ rpc[w].step \in LockSteps \cup DeleteSteps \/ rpc[w].locked = {}
    /\ rpc[w].step \in WriteSteps => At(w, "write") \/ rpc[w].id = 0
    /\ rpc[w].step \in CallSteps =>
          /\ rpc[w].n # 0
          /\ rpc[w].generation \in 1..generation[rpc[w].namespace]
          /\ BornIn(rpc[w].value \cup {rpc[w].n}, rpc[w].generation)
    /\ rpc[w].t <= now
    /\ rpc[w].step \in LockSteps => \A r \in RowsById(rpc[w].locked) :
          Expired(r, rpc[w].t) \/ (At(w, "write") /\ r.id = rpc[w].id)
    /\ At(w, "write") /\ rpc[w].id # 0 =>
          /\ rpc[w].id \in rpc[w].locked
          /\ \E r \in RowsOfKey(w) : r.id = rpc[w].id /\ r.value = rpc[w].value

\* No row is locked by two transactions.
LocksExclusive ==
    \A v, w \in Workers : v # w => rpc[v].locked \cap rpc[w].locked = {}

\* Rows were numbered by the sequence, none is ahead of its namespace, and
\* whoever contributed to its value began in its generation.
RowSound(r) == /\ r.id < next_id
               /\ r.generation <= generation[r.namespace]
               /\ BornIn(r.value, r.generation)

\* The generation of a namespace counts its invalidations.
GenerationCounts ==
    \A ns \in Namespaces :
        invalidated[ns] = IF generation[ns] = 0 THEN 0 ELSE generation[ns] - 1

\* A row the cache keeps, a lock a transaction holds and a generation a
\* handler carries all agree with the tables, whatever the other handlers do.
IInv ==
    /\ TypeOK
    /\ RowsUnique
    /\ \A r \in cache_entries : RowSound(r)
    /\ \A w \in Workers : HandlerSound(w)
    /\ LocksExclusive
    /\ GenerationCounts

-----------------------------------------------------------------------------
(* Fairness: tokio polls every handler and PostgreSQL answers it, grants   *)
(* locks in the order in which they are asked for (hence SF: others may    *)
(* come and go before a statement that waits), and breaks every circle.    *)
Fairness == \A w \in Workers : SF_vars(Handler(w)) /\ WF_vars(detect_deadlock(w))
FairSpec == Spec /\ Fairness

\* Every call returns: waits for advisory locks, row locks and the row of the
\* namespace end, with sweeps and invalidations that deadlock among them, and
\* the eviction loop ends however its rows are deleted, invalidated or evicted
\* by others meanwhile.
EveryCallReturns == \A w \in Workers : ~At(w, "idle") ~> At(w, "idle")
=============================================================================
