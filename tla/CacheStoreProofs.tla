-------------------------- MODULE CacheStoreProofs --------------------------
(***************************************************************************)
(* That the cache keeps its promises, and that a call on a key never waits *)
(* in a circle, whatever the number of concurrent calls, namespaces, keys, *)
(* generations and ticks.                                                  *)
(***************************************************************************)
EXTENDS CacheStore, FiniteSetTheorems, FunctionTheorems, TLAPS

\* What every step does: ids, time, calls and generations only grow, and when
\* a call began stays what it was.
Monotone ==
    /\ next_id <= next_id' /\ now <= now' /\ calls <= calls'
    /\ \A ns \in Namespaces : generation[ns] <= generation'[ns]
    /\ \A c \in 1..calls : born'[c] = born[c]

LEMMA IdleType == Idle \in Rpc
  BY ConstantsAssumption
     DEF Idle, Rpc, Steps, AllOps, WriteOps, AtomicOps, Value, Ids

LEMMA InitIInv == Init => IInv
<1> SUFFICES ASSUME Init PROVE IInv
  OBVIOUS
<1>1. TypeOK
  BY IdleType, ConstantsAssumption DEF Init, TypeOK, Ids
<1>2. RowsUnique /\ \A r \in cache_entries : RowSound(r)
  BY DEF Init, RowsUnique
<1>3. ASSUME NEW w \in Workers PROVE HandlerSound(w) /\ rpc[w].locked = {}
  <2>1. /\ rpc[w] = Idle /\ rpc[w].locked = {} /\ rpc[w].step = "idle"
        /\ rpc[w].t = 0 /\ now = 1
    BY DEF Init, Idle
  <2> QED BY <2>1 DEF HandlerSound, At, WriteSteps, CallSteps, LockSteps, RowsById
<1>4. LocksExclusive
  BY <1>3 DEF LocksExclusive
<1>5. GenerationCounts
  BY DEF Init, GenerationCounts
<1> QED BY <1>1, <1>2, <1>3, <1>4, <1>5 DEF IInv

-----------------------------------------------------------------------------
(* What a step leaves alone stays sound.                                   *)

LEMMA BornInKept ==
    ASSUME TypeOK, TypeOK', Monotone, NEW S \in SUBSET Calls, NEW g, BornIn(S, g)
    PROVE  BornIn(S, g)'
<1> SUFFICES ASSUME NEW c \in S PROVE c <= calls' /\ born'[c] = g - 1
  BY DEF BornIn
<1>1. c \in 1..MaxCalls /\ c <= calls /\ born[c] = g - 1
  BY DEF BornIn, Calls
<1>2. calls \in Nat /\ calls' \in Nat /\ MaxCalls \in Nat /\ calls <= calls'
  BY ConstantsAssumption DEF TypeOK, Monotone
<1>3. c \in 1..calls
  BY <1>1, <1>2
<1> QED BY <1>1, <1>2, <1>3 DEF Monotone

LEMMA RowKept ==
    ASSUME TypeOK, TypeOK', Monotone, NEW r \in Row, RowSound(r)
    PROVE  RowSound(r)'
<1>1. /\ r.namespace \in Namespaces /\ r.value \in SUBSET Calls
      /\ r.id \in Nat /\ r.generation \in Nat
  BY ConstantsAssumption DEF Row, Value, Ids
<1>2. /\ next_id \in Nat /\ next_id' \in Nat
      /\ generation[r.namespace] \in Nat /\ generation'[r.namespace] \in Nat
  BY <1>1, ConstantsAssumption DEF TypeOK, Ids
<1>3. BornIn(r.value, r.generation)'
  BY <1>1, BornInKept DEF RowSound
<1>4. r.id < next_id' /\ r.generation <= generation'[r.namespace]
  BY <1>1, <1>2 DEF RowSound, Monotone
<1> QED BY <1>3, <1>4 DEF RowSound

LEMMA HandlerKept ==
    ASSUME TypeOK, TypeOK', Monotone, NEW v \in Workers, HandlerSound(v),
           rpc'[v] = rpc[v],
           RowsById(rpc[v].locked)' = RowsById(rpc[v].locked)
    PROVE  HandlerSound(v)'
<1>0. PICK m : m = rpc[v]
  OBVIOUS
<1>1. /\ m \in Rpc /\ m.namespace \in Namespaces /\ m.value \in SUBSET Calls
      /\ m.n \in 0..MaxCalls /\ m.generation \in Nat /\ m.t \in Nat
      /\ m.locked \in SUBSET Nat
  BY <1>0, ConstantsAssumption DEF TypeOK, Rpc, Value, Ids
<1>2. /\ next_id \in Nat /\ next_id' \in Nat /\ now \in Nat /\ now' \in Nat
      /\ generation[m.namespace] \in Nat /\ generation'[m.namespace] \in Nat
      /\ next_id <= next_id' /\ now <= now'
      /\ generation[m.namespace] <= generation'[m.namespace]
  BY <1>1, ConstantsAssumption DEF TypeOK, Ids, Monotone
<1>3. rpc'[v] = m
  BY <1>0
<1>4. \A i \in m.locked : i < next_id'
  BY <1>0, <1>1, <1>2 DEF HandlerSound
<1>5. m.t <= now'
  BY <1>0, <1>1, <1>2 DEF HandlerSound
<1>6. ASSUME m.step \in CallSteps
      PROVE  /\ m.n # 0 /\ m.generation \in 1..generation'[m.namespace]
             /\ BornIn(m.value \cup {m.n}, m.generation)'
  <2>1. /\ m.n # 0 /\ m.generation \in 1..generation[m.namespace]
        /\ BornIn(m.value \cup {m.n}, m.generation)
    BY <1>0, <1>6 DEF HandlerSound
  <2>2. m.value \cup {m.n} \in SUBSET Calls
    BY <1>1, <2>1, ConstantsAssumption DEF Calls
  <2>3. BornIn(m.value \cup {m.n}, m.generation)'
    BY <2>1, <2>2, BornInKept
  <2> QED BY <1>1, <1>2, <2>1, <2>3
<1>7. m.step \in LockSteps => \A r \in RowsById(rpc[v].locked)' :
          Expired(r, m.t) \/ (m.step = "write" /\ r.id = m.id)
  BY <1>0 DEF HandlerSound, At
<1>8. ASSUME m.step = "write", m.id # 0
      PROVE  m.id \in m.locked /\ \E r \in RowsOfKey(v)' : r.id = m.id /\ r.value = m.value
  <2>1. m.id \in m.locked
    BY <1>0, <1>8 DEF HandlerSound, At
  <2>2. PICK r \in RowsOfKey(v) : r.id = m.id /\ r.value = m.value
    BY <1>0, <1>8 DEF HandlerSound, At
  <2>3. r \in RowsById(m.locked)
    BY <2>1, <2>2 DEF RowsOfKey, In, RowsById
  <2>4. r \in cache_entries'
    BY <1>0, <2>3 DEF RowsById
  <2> QED BY <1>0, <2>1, <2>2, <2>4 DEF RowsOfKey, In
<1>9. /\ m.step \in LockSteps \cup DeleteSteps \/ m.locked = {}
      /\ m.step \in WriteSteps => m.step = "write" \/ m.id = 0
  BY <1>0 DEF HandlerSound, At
<1> QED BY <1>3, <1>4, <1>5, <1>6, <1>7, <1>8, <1>9 DEF HandlerSound, At

-----------------------------------------------------------------------------
(* The kinds of step of a handler.                                         *)

\* A step that only changes the state of its handler.
LEMMA RpcStep ==
    ASSUME IInv, NEW w \in Workers, NEW x \in Rpc, OnlyRpc,
           rpc' = [rpc EXCEPT ![w] = x],
           HandlerSound(w)',
           \A v \in Workers \ {w} : rpc[v].locked \cap x.locked = {}
    PROVE  IInv'
<1>1. UNCHANGED <<generation, now, calls, invalidated, born, cache_entries, next_id>>
  BY DEF OnlyRpc, NoCall
<1>2. TypeOK /\ rpc \in [Workers -> Rpc]
  BY DEF IInv, TypeOK
<1>3. rpc'[w] = x /\ \A v \in Workers \ {w} : rpc'[v] = rpc[v]
  BY <1>2
<1>4. TypeOK'
  BY <1>1, <1>2 DEF TypeOK
<1>5. Monotone
  BY <1>1, <1>2, ConstantsAssumption DEF Monotone, TypeOK, Ids
<1>6. RowsUnique' /\ GenerationCounts'
  BY <1>1 DEF IInv, RowsUnique, GenerationCounts
<1>7. \A r \in cache_entries' : RowSound(r)'
  BY <1>1 DEF IInv, RowSound, BornIn
<1>8. ASSUME NEW v \in Workers PROVE HandlerSound(v)'
  <2>1. CASE v # w
    <3>1. RowsById(rpc[v].locked)' = RowsById(rpc[v].locked)
      BY <2>1, <1>1, <1>3 DEF RowsById
    <3> QED BY <2>1, <3>1, <1>2, <1>3, <1>4, <1>5, HandlerKept DEF IInv
  <2> QED BY <2>1
<1>9. LocksExclusive'
  BY <1>3 DEF IInv, LocksExclusive
<1> QED BY <1>4, <1>6, <1>7, <1>8, <1>9 DEF IInv

SameKeyRows(r, s) == /\ r.namespace = s.namespace
                     /\ r.generation = s.generation
                     /\ r.cache_key = s.cache_key

\* A step that replaces the rows D by at most one row, A, and leaves its
\* handler with no lock and no call to do: a DELETE, an UPDATE of one row or
\* an INSERT, with its COMMIT.
LEMMA RowsStep ==
    ASSUME IInv, NEW w \in Workers, NEW x \in Rpc, NoCall,
           rpc' = [rpc EXCEPT ![w] = x],
           x.locked = {}, x.step \notin CallSteps, x.t <= now,
           NEW D \in SUBSET cache_entries, Free(w, D),
           NEW A \in SUBSET Row, \A a, b \in A : a = b,
           cache_entries' = (cache_entries \ D) \cup A,
           next_id' = next_id \/ next_id' = next_id + 1,
           \A a \in A : /\ a.id \in IdsOf(D) \/ (a.id = next_id /\ next_id' = next_id + 1)
                        /\ a.generation <= generation[a.namespace]
                        /\ BornIn(a.value, a.generation)
                        /\ \A s \in cache_entries \ D : ~SameKeyRows(a, s)
    PROVE  IInv'
<1>1. UNCHANGED <<generation, now, calls, invalidated, born>>
  BY DEF NoCall
<1>2. /\ TypeOK /\ rpc \in [Workers -> Rpc] /\ next_id \in Nat \ {0}
      /\ cache_entries \in SUBSET Row
  BY DEF IInv, TypeOK, Ids
<1>3. rpc'[w] = x /\ \A v \in Workers \ {w} : rpc'[v] = rpc[v]
  BY <1>2
<1>4. next_id' \in Ids /\ next_id <= next_id'
  BY <1>2 DEF Ids
<1>5. TypeOK'
  BY <1>1, <1>2, <1>4 DEF TypeOK
<1>6. Monotone
  BY <1>1, <1>2, <1>4, ConstantsAssumption DEF Monotone, TypeOK, Ids
<1>7. \A r \in Row : r.id \in Nat
  BY DEF Row, Ids
<1>8. \A r \in cache_entries : r.id \in Nat /\ r.id < next_id
  BY <1>2, <1>7 DEF IInv, RowSound
<1>f. /\ \A r \in cache_entries : r.id # next_id
      /\ \A v \in Workers : next_id \notin rpc[v].locked
  <2>1. ~(next_id < next_id)
    BY <1>2
  <2>2. \A v \in Workers : \A i \in rpc[v].locked : i < next_id
    BY DEF IInv, HandlerSound
  <2> QED BY <2>1, <2>2, <1>8, Zenon
<1>9. \A a \in A, s \in cache_entries \ D : a.id # s.id
  <2> SUFFICES ASSUME NEW a \in A, NEW s \in cache_entries \ D, a.id = s.id PROVE FALSE
    OBVIOUS
  <2>1. CASE a.id \in IdsOf(D)
    BY <2>1 DEF IdsOf, IInv, RowsUnique
  <2>2. CASE a.id = next_id
    BY <2>2, <1>f
  <2> QED BY <2>1, <2>2
<1>10. RowsUnique'
  <2> SUFFICES ASSUME NEW r \in cache_entries', NEW s \in cache_entries', r # s
               PROVE  r.id # s.id /\ ~SameKeyRows(r, s)
    BY DEF RowsUnique, SameKeyRows
  <2>1. CASE r \in cache_entries \ D /\ s \in cache_entries \ D
    BY <2>1 DEF IInv, RowsUnique, SameKeyRows
  <2>2. CASE r \in A /\ s \in cache_entries \ D
    BY <2>2, <1>9
  <2>3. CASE s \in A /\ r \in cache_entries \ D
    BY <2>3, <1>9 DEF SameKeyRows
  <2> QED BY <2>1, <2>2, <2>3
<1>11. ASSUME NEW r \in cache_entries' PROVE RowSound(r)'
  <2>1. CASE r \in cache_entries
    BY <2>1, <1>2, <1>5, <1>6, RowKept DEF IInv
  <2>2. CASE r \in A
    <3>1. r.id < next_id'
      BY <2>2, <1>2, <1>4, <1>8 DEF IdsOf, Ids
    <3> QED BY <2>2, <3>1, <1>1 DEF RowSound, BornIn
  <2> QED BY <2>1, <2>2
<1>12. ASSUME NEW v \in Workers \ {w}
       PROVE  RowsById(rpc[v].locked)' = RowsById(rpc[v].locked)
  <2>1. rpc[v].locked \cap IdsOf(D) = {}
    BY DEF Free
  <2>2. next_id \notin rpc[v].locked
    BY <1>f
  <2>3. \A a \in A : a.id \notin rpc[v].locked
    BY <2>1, <2>2
  <2>4. \A r \in D : r.id \notin rpc[v].locked
    BY <2>1 DEF IdsOf
  <2> QED BY <2>3, <2>4, <1>3 DEF RowsById
<1>13. ASSUME NEW v \in Workers PROVE HandlerSound(v)'
  <2>1. CASE v # w
    BY <2>1, <1>2, <1>3, <1>5, <1>6, <1>12, HandlerKept DEF IInv
  <2>2. CASE v = w
    BY <2>2, <1>1, <1>3 DEF HandlerSound, At, CallSteps, WriteSteps, LockSteps, RowsById
  <2> QED BY <2>1, <2>2
<1>14. LocksExclusive'
  BY <1>3 DEF IInv, LocksExclusive
<1>15. GenerationCounts'
  BY <1>1 DEF IInv, GenerationCounts
<1> QED BY <1>5, <1>10, <1>11, <1>13, <1>14, <1>15 DEF IInv

\* A step that deletes the rows D, or none.
LEMMA DeleteStep ==
    ASSUME IInv, NEW w \in Workers, NEW x \in Rpc, NoCall,
           rpc' = [rpc EXCEPT ![w] = x],
           x.locked = {}, x.step \notin CallSteps, x.t <= now,
           NEW D \in SUBSET cache_entries, Free(w, D),
           cache_entries' = cache_entries \ D,
           next_id' = next_id \/ next_id' = next_id + 1
    PROVE  IInv'
<1> DEFINE A == {}
<1>1. A \in SUBSET Row /\ cache_entries' = (cache_entries \ D) \cup A
      /\ (\A a, b \in A : a = b) /\ \A a \in A : FALSE
  OBVIOUS
<1> HIDE DEF A
<1> QED BY <1>1, RowsStep

\* A step that is not part of the call proper and only changes its handler.
LEMMA RestStep ==
    ASSUME IInv, NEW w \in Workers, NEW x \in Rpc, OnlyRpc,
           rpc' = [rpc EXCEPT ![w] = x],
           x.locked = {}, x.step \notin CallSteps, x.t <= now
    PROVE  IInv'
<1> DEFINE D == {}
<1>1. D \in SUBSET cache_entries /\ Free(w, D) /\ cache_entries' = cache_entries \ D
      /\ NoCall /\ next_id' = next_id
  BY DEF OnlyRpc, Free, IdsOf
<1> HIDE DEF D
<1> QED BY <1>1, DeleteStep

\* What Return leaves.
LEMMA IdleFacts ==
    ASSUME TypeOK
    PROVE  /\ Idle \in Rpc /\ Idle.locked = {} /\ Idle.step = "idle"
           /\ Idle.step \notin CallSteps /\ Idle.t <= now
<1>1. Idle.locked = {} /\ Idle.step = "idle" /\ Idle.t = 0
  BY DEF Idle
<1> QED BY <1>1, IdleType DEF TypeOK, CallSteps, WriteSteps

LEMMA ReturnKeeps ==
    ASSUME IInv, NEW w \in Workers, Return(w), OnlyRpc
    PROVE  IInv'
  BY IdleFacts, RestStep DEF Return, IInv

LEMMA ReturnDeletes ==
    ASSUME IInv, NEW w \in Workers, Return(w), NoCall,
           NEW D \in SUBSET cache_entries, Free(w, D),
           cache_entries' = cache_entries \ D,
           next_id' = next_id \/ next_id' = next_id + 1
    PROVE  IInv'
<1>1. rpc' = [rpc EXCEPT ![w] = Idle] /\ TypeOK
  BY DEF Return, IInv
<1> HIDE DEF Idle
<1> QED BY <1>1, IdleFacts, DeleteStep

\* What COMMIT leaves.
LEMMA WrittenFacts ==
    ASSUME IInv, NEW w \in Workers, Written(w)
    PROVE  \E x \in Rpc :
              /\ rpc' = [rpc EXCEPT ![w] = x]
              /\ x.locked = {} /\ x.step = "sweep" /\ x.step \notin CallSteps
              /\ x.t <= now
<1> DEFINE x == [Idle EXCEPT !.step = "sweep", !.namespace = rpc[w].namespace]
<1>1. /\ rpc \in [Workers -> Rpc] /\ rpc[w] \in Rpc /\ rpc[w].namespace \in Namespaces
      /\ now \in Nat
  BY DEF IInv, TypeOK, Rpc
<1>2. x \in Rpc /\ x.locked = {} /\ x.step = "sweep" /\ x.t = 0
  <2>1. Idle.locked = {} /\ Idle.t = 0
    BY DEF Idle
  <2> QED BY <1>1, <2>1, IdleType DEF Rpc, Steps
<1>3. rpc' = [rpc EXCEPT ![w] = x]
  BY <1>1 DEF Written
<1>4. "sweep" \notin CallSteps /\ 0 <= now
  BY <1>1 DEF CallSteps, WriteSteps
<1> HIDE DEF x
<1> QED BY <1>1, <1>2, <1>3, <1>4

-----------------------------------------------------------------------------
(* Reading, deleting, the transaction up to its last statement.            *)

\* Facts about handlers, rows and rows of a key in a state of the invariant.
LEMMA TypeFacts ==
    ASSUME IInv, NEW w \in Workers
    PROVE  /\ TypeOK /\ rpc \in [Workers -> Rpc] /\ rpc[w] \in Rpc
           /\ rpc[w].namespace \in Namespaces /\ rpc[w].cache_key \in Keys
           /\ rpc[w].value \in SUBSET Calls /\ rpc[w].n \in 0..MaxCalls
           /\ rpc[w].ttl \in Nat /\ rpc[w].t \in Nat /\ rpc[w].t <= now
           /\ rpc[w].locked \in SUBSET Ids /\ rpc[w].generation \in Nat
           /\ now \in Nat /\ next_id \in Ids /\ cache_entries \in SUBSET Row
           /\ generation \in [Namespaces -> Nat]
           /\ HandlerSound(w)
  BY DEF IInv, TypeOK, Rpc, Value, HandlerSound

LEMMA RowType ==
    ASSUME NEW r \in Row
    PROVE  /\ r.id \in Ids /\ r.namespace \in Namespaces
           /\ r.generation \in Nat \ {0} /\ r.cache_key \in Keys
           /\ r.value \in SUBSET Calls /\ r.expires_at \in Nat /\ r.accessed \in Nat
  BY DEF Row, Value

\* A row of the key of a call was written in the generation of the call.
LEMMA RowsOfKeyFacts ==
    ASSUME IInv, NEW w \in Workers, NEW r \in RowsOfKey(w)
    PROVE  /\ r \in cache_entries /\ r \in Row
           /\ r.id \in Ids /\ r.value \in SUBSET Calls
           /\ r.namespace = rpc[w].namespace /\ r.generation = rpc[w].generation
           /\ r.cache_key = rpc[w].cache_key
           /\ BornIn(r.value, rpc[w].generation) /\ r.id < next_id
<1>1. /\ r \in cache_entries /\ r.namespace = rpc[w].namespace
      /\ r.generation = rpc[w].generation /\ r.cache_key = rpc[w].cache_key
  BY DEF RowsOfKey, In
<1>2. r \in Row /\ RowSound(r)
  BY <1>1, TypeFacts DEF IInv
<1> QED BY <1>1, <1>2, RowType DEF RowSound

LEMMA GetKeeps == ASSUME IInv, NEW w \in Workers, get(w) PROVE IInv'
<1>0. OnlyRpc /\ rpc[w].step = "get"
  BY DEF get, At
<1>1. CASE Return(w)
  BY <1>0, <1>1, ReturnKeeps
<1>2. ASSUME NEW r \in RowsOfKey(w),
             rpc' = [rpc EXCEPT ![w].step = "touch", ![w].id = r.id, ![w].value = r.value]
      PROVE  IInv'
  <2> DEFINE x == [rpc[w] EXCEPT !.step = "touch", !.id = r.id, !.value = r.value]
  <2>0. rpc[w] \in Rpc /\ r.id \in Nat /\ r.value \in SUBSET Calls
    BY TypeFacts, RowsOfKeyFacts DEF Ids
  <2>1. x \in Rpc
    BY <2>0 DEF Rpc, Steps, Value
  <2>2. /\ x.step = "touch" /\ x.value = r.value /\ x.locked = rpc[w].locked
        /\ x.n = rpc[w].n /\ x.generation = rpc[w].generation
        /\ x.namespace = rpc[w].namespace /\ x.t = rpc[w].t
    BY TypeFacts DEF Rpc
  <2>3. rpc' = [rpc EXCEPT ![w] = x] /\ rpc'[w] = x
    BY <1>2, TypeFacts
  <2>4. rpc[w].locked = {}
    BY <1>0, TypeFacts DEF HandlerSound, At, LockSteps, DeleteSteps
  <2>5. UNCHANGED <<generation, now, calls, born, cache_entries, next_id>>
    BY <1>0 DEF OnlyRpc, NoCall
  <2>6. /\ rpc[w].n # 0 /\ rpc[w].generation \in 1..generation[rpc[w].namespace]
        /\ BornIn({rpc[w].n}, rpc[w].generation)
    BY <1>0, TypeFacts DEF HandlerSound, CallSteps, BornIn
  <2>7. BornIn(r.value \cup {rpc[w].n}, rpc[w].generation)
    BY <2>6, RowsOfKeyFacts DEF BornIn
  <2>8. rpc[w].t <= now
    BY TypeFacts
  <2> HIDE DEF x
  <2>9. HandlerSound(w)'
    BY <2>2, <2>3, <2>4, <2>5, <2>6, <2>7, <2>8
       DEF HandlerSound, At, WriteSteps, RowsById, BornIn
  <2> QED BY <1>0, <2>1, <2>2, <2>3, <2>4, <2>9, RpcStep
<1> QED BY <1>1, <1>2 DEF get

LEMMA DeleteKeeps == ASSUME IInv, NEW w \in Workers, delete(w) PROVE IInv'
<1>1. RowsOfKey(w) \in SUBSET cache_entries
  BY DEF RowsOfKey, In
<1> QED BY <1>1, ReturnDeletes DEF delete, OnlyRows

LEMMA BeginKeeps == ASSUME IInv, NEW w \in Workers, begin(w) PROVE IInv'
<1>0. OnlyRpc /\ rpc[w].step = "begin"
  BY DEF begin, At
<1> DEFINE x == [rpc[w] EXCEPT !.t = now,
                   !.step = IF rpc[w].op = "set_nx" THEN "delete_expired" ELSE "lock"]
<1>t. rpc[w] \in Rpc /\ now \in Nat
  BY TypeFacts
<1>1. x \in Rpc
  BY <1>t DEF Rpc, Steps
<1>2. /\ x.step \in {"delete_expired", "lock"} /\ x.value = rpc[w].value
      /\ x.locked = rpc[w].locked /\ x.id = rpc[w].id
      /\ x.n = rpc[w].n /\ x.generation = rpc[w].generation
      /\ x.namespace = rpc[w].namespace /\ x.t = now
  BY TypeFacts DEF Rpc
<1>3. rpc' = [rpc EXCEPT ![w] = x] /\ rpc'[w] = x
  BY TypeFacts DEF begin
<1>4. rpc[w].locked = {} /\ rpc[w].id = 0
  BY <1>0, TypeFacts DEF HandlerSound, At, WriteSteps, LockSteps, DeleteSteps
<1>5. UNCHANGED <<generation, now, calls, born, cache_entries, next_id>>
  BY <1>0 DEF OnlyRpc, NoCall
<1>6. /\ rpc[w].n # 0 /\ rpc[w].generation \in 1..generation[rpc[w].namespace]
      /\ BornIn(rpc[w].value \cup {rpc[w].n}, rpc[w].generation)
  BY <1>0, TypeFacts DEF HandlerSound, CallSteps, WriteSteps
<1>7. now <= now
  BY TypeFacts
<1> HIDE DEF x
<1>8. HandlerSound(w)'
  BY <1>2, <1>3, <1>4, <1>5, <1>6, <1>7 DEF HandlerSound, At, RowsById, BornIn
<1> QED BY <1>0, <1>1, <1>2, <1>3, <1>4, <1>8, RpcStep

LEMMA LockKeeps ==
    ASSUME IInv, NEW w \in Workers, lock_key_for_atomic_write(w) PROVE IInv'
<1>0. OnlyRpc /\ rpc[w].step = "lock"
  BY DEF lock_key_for_atomic_write, At
<1> DEFINE x == [rpc[w] EXCEPT !.step = "delete_expired"]
<1>t. rpc[w] \in Rpc
  BY TypeFacts
<1>1. x \in Rpc
  BY <1>t DEF Rpc, Steps
<1>2. /\ x.step = "delete_expired" /\ x.value = rpc[w].value
      /\ x.locked = rpc[w].locked /\ x.id = rpc[w].id
      /\ x.n = rpc[w].n /\ x.generation = rpc[w].generation
      /\ x.namespace = rpc[w].namespace /\ x.t = rpc[w].t
  BY <1>t DEF Rpc
<1>3. rpc' = [rpc EXCEPT ![w] = x] /\ rpc'[w] = x
  BY TypeFacts DEF lock_key_for_atomic_write, Goto
<1>4. rpc[w].locked = {} /\ rpc[w].id = 0
  BY <1>0, TypeFacts DEF HandlerSound, At, WriteSteps, LockSteps, DeleteSteps
<1>5. UNCHANGED <<generation, now, calls, born, cache_entries, next_id>>
  BY <1>0 DEF OnlyRpc, NoCall
<1>6. /\ rpc[w].n # 0 /\ rpc[w].generation \in 1..generation[rpc[w].namespace]
      /\ BornIn(rpc[w].value \cup {rpc[w].n}, rpc[w].generation)
  BY <1>0, TypeFacts DEF HandlerSound, CallSteps, WriteSteps
<1>7. rpc[w].t <= now
  BY TypeFacts
<1> HIDE DEF x
<1>8. HandlerSound(w)'
  BY <1>2, <1>3, <1>4, <1>5, <1>6, <1>7 DEF HandlerSound, At, RowsById, BornIn
<1> QED BY <1>0, <1>1, <1>2, <1>3, <1>4, <1>8, RpcStep

LEMMA DeleteExpiredKeeps ==
    ASSUME IInv, NEW w \in Workers, delete_expired_key(w) PROVE IInv'
<1>0. OnlyRpc /\ rpc[w].step = "delete_expired"
  BY DEF delete_expired_key, At
<1> DEFINE old == {r \in RowsOfKey(w) : Expired(r, rpc[w].t)}
           L == IdsOf(old)
           x == [rpc[w] EXCEPT !.locked = L,
                   !.step = IF rpc[w].op = "set_nx" THEN "insert" ELSE "select"]
<1>t. rpc[w] \in Rpc
  BY TypeFacts
<1>l. /\ L \in SUBSET Ids /\ \A i \in L : i < next_id
      /\ \A v \in Workers \ {w} : rpc[v].locked \cap L = {}
  <2>1. \A i \in L : i \in Ids /\ i < next_id
    BY RowsOfKeyFacts DEF IdsOf
  <2>2. \A v \in Workers \ {w} : rpc[v].locked \cap L = {}
    BY DEF delete_expired_key, Free
  <2> QED BY <2>1, <2>2
<1>e. \A r \in RowsById(L) : Expired(r, rpc[w].t)
  <2> SUFFICES ASSUME NEW r \in RowsById(L) PROVE Expired(r, rpc[w].t)
    OBVIOUS
  <2>1. r \in cache_entries /\ r.id \in L
    BY DEF RowsById
  <2>2. PICK s \in old : s.id = r.id
    BY <2>1 DEF IdsOf
  <2>3. s = r
    BY <2>1, <2>2 DEF IInv, RowsUnique, RowsOfKey, In
  <2> QED BY <2>2, <2>3
<1>3. rpc' = [rpc EXCEPT ![w] = x] /\ rpc'[w] = x
  BY TypeFacts DEF delete_expired_key
<1> HIDE DEF L
<1>1. x \in Rpc
  BY <1>t, <1>l DEF Rpc, Steps
<1>2. /\ x.step \in {"insert", "select"} /\ x.value = rpc[w].value
      /\ x.locked = L /\ x.id = rpc[w].id
      /\ x.n = rpc[w].n /\ x.generation = rpc[w].generation
      /\ x.namespace = rpc[w].namespace /\ x.t = rpc[w].t
  BY <1>t DEF Rpc
<1>4. rpc[w].id = 0
  BY <1>0, TypeFacts DEF HandlerSound, At, WriteSteps
<1>5. UNCHANGED <<generation, now, calls, born, cache_entries, next_id>>
  BY <1>0 DEF OnlyRpc, NoCall
<1>6. /\ rpc[w].n # 0 /\ rpc[w].generation \in 1..generation[rpc[w].namespace]
      /\ BornIn(rpc[w].value \cup {rpc[w].n}, rpc[w].generation)
  BY <1>0, TypeFacts DEF HandlerSound, CallSteps, WriteSteps
<1>7. rpc[w].t <= now
  BY TypeFacts
<1> HIDE DEF x
<1>8. HandlerSound(w)'
  BY <1>l, <1>e, <1>2, <1>3, <1>4, <1>5, <1>6, <1>7
     DEF LockSteps, HandlerSound, At, RowsById, BornIn
<1> QED BY <1>0, <1>l, <1>1, <1>2, <1>3, <1>8, RpcStep

LEMMA SelectKeeps ==
    ASSUME IInv, NEW w \in Workers, select_key_for_update(w) PROVE IInv'
<1>0. OnlyRpc /\ rpc[w].step = "select"
  BY DEF select_key_for_update, At
<1>t. rpc[w] \in Rpc
  BY TypeFacts
<1>3. UNCHANGED <<generation, now, calls, born, cache_entries, next_id>>
  BY <1>0 DEF OnlyRpc, NoCall
<1>4. /\ rpc[w].id = 0 /\ \A i \in rpc[w].locked : i < next_id
      /\ \A r \in RowsById(rpc[w].locked) : Expired(r, rpc[w].t)
  BY <1>0, TypeFacts DEF HandlerSound, At, WriteSteps, LockSteps, DeleteSteps
<1>5. /\ rpc[w].n # 0 /\ rpc[w].generation \in 1..generation[rpc[w].namespace]
      /\ BornIn(rpc[w].value \cup {rpc[w].n}, rpc[w].generation)
  BY <1>0, TypeFacts DEF HandlerSound, CallSteps, WriteSteps
<1>6. rpc[w].t <= now
  BY TypeFacts
<1>7. \A v \in Workers \ {w} : rpc[v].locked \cap rpc[w].locked = {}
  BY DEF IInv, LocksExclusive
<1>1. CASE Goto(w, "write")
  <2> DEFINE x == [rpc[w] EXCEPT !.step = "write"]
  <2>1. x \in Rpc
    BY <1>t DEF Rpc, Steps
  <2>2. /\ x.step = "write" /\ x.value = rpc[w].value
        /\ x.locked = rpc[w].locked /\ x.id = rpc[w].id
        /\ x.n = rpc[w].n /\ x.generation = rpc[w].generation
        /\ x.namespace = rpc[w].namespace /\ x.t = rpc[w].t
    BY <1>t DEF Rpc
  <2>3. rpc' = [rpc EXCEPT ![w] = x] /\ rpc'[w] = x
    BY <1>1, TypeFacts DEF Goto
  <2> HIDE DEF x
  <2>4. HandlerSound(w)'
    BY <2>2, <2>3, <1>3, <1>4, <1>5, <1>6 DEF LockSteps, HandlerSound, At, RowsById, BornIn
  <2> QED BY <1>0, <1>7, <2>1, <2>2, <2>3, <2>4, RpcStep
<1>2. ASSUME NEW r \in Remaining(w), Free(w, {q \in Remaining(w) : ~Expired(q, rpc[w].t)}),
             ~Expired(r, rpc[w].t),
             rpc' = [rpc EXCEPT ![w].step = "write", ![w].id = r.id,
                                ![w].value = r.value, ![w].locked = @ \cup {r.id}]
      PROVE  IInv'
  <2> DEFINE L == rpc[w].locked \cup {r.id}
             x == [rpc[w] EXCEPT !.step = "write", !.id = r.id,
                                 !.value = r.value, !.locked = L]
  <2>0. r \in RowsOfKey(w)
    BY DEF Remaining
  <2>r. /\ r \in cache_entries /\ r.id \in Ids /\ r.id # 0 /\ r.value \in SUBSET Calls
        /\ BornIn(r.value, rpc[w].generation) /\ r.id < next_id
        /\ r.namespace = rpc[w].namespace /\ r.generation = rpc[w].generation
        /\ r.cache_key = rpc[w].cache_key
    BY <2>0, RowsOfKeyFacts DEF Ids
  <2>3. rpc' = [rpc EXCEPT ![w] = x] /\ rpc'[w] = x
    BY <1>2, TypeFacts
  <2>l. /\ L \in SUBSET Ids /\ r.id \in L /\ \A i \in L : i < next_id
        /\ \A v \in Workers \ {w} : rpc[v].locked \cap L = {}
    <3>1. L \in SUBSET Ids /\ \A i \in L : i < next_id
      BY <1>4, <2>r, TypeFacts
    <3>2. \A v \in Workers \ {w} : r.id \notin rpc[v].locked
      BY <1>2 DEF Free, IdsOf
    <3> QED BY <3>1, <3>2, <1>7
  <2>e. \A q \in RowsById(L) : Expired(q, rpc[w].t) \/ q.id = r.id
    BY <1>4 DEF RowsById
  <2> HIDE DEF L
  <2>1. x \in Rpc
    BY <1>t, <2>r, <2>l DEF Rpc, Steps, Value, Ids
  <2>2. /\ x.step = "write" /\ x.value = r.value
        /\ x.locked = L /\ x.id = r.id
        /\ x.n = rpc[w].n /\ x.generation = rpc[w].generation
        /\ x.namespace = rpc[w].namespace /\ x.t = rpc[w].t
        /\ x.cache_key = rpc[w].cache_key
    BY <1>t DEF Rpc
  <2> HIDE DEF x
  <2>5. BornIn(r.value \cup {rpc[w].n}, rpc[w].generation)
    BY <1>5, <2>r DEF BornIn
  <2>6. r \in RowsOfKey(w)'
    BY <2>r, <2>2, <2>3, <1>3 DEF RowsOfKey, In
  <2>4. HandlerSound(w)'
    BY <2>2, <2>3, <2>5, <2>6, <2>l, <2>e, <1>3, <1>5, <1>6
       DEF LockSteps, HandlerSound, At, RowsById, BornIn
  <2> QED BY <1>0, <2>l, <2>1, <2>2, <2>3, <2>4, RpcStep
<1> QED BY <1>1, <1>2 DEF select_key_for_update

-----------------------------------------------------------------------------
(* The statements that change rows.                                        *)

\* A transaction's own locks are no obstacle to it.
LEMMA OwnRowsFree ==
    ASSUME IInv, NEW w \in Workers, NEW ids \in SUBSET rpc[w].locked
    PROVE  RowsById(ids) \in SUBSET cache_entries /\ Free(w, RowsById(ids))
<1>1. IdsOf(RowsById(ids)) \subseteq rpc[w].locked
  BY DEF IdsOf, RowsById
<1> QED BY <1>1 DEF IInv, LocksExclusive, Free, RowsById

LEMMA NewRowType ==
    ASSUME IInv, NEW w \in Workers, rpc[w].generation # 0,
           NEW t \in Nat, NEW V \in SUBSET Calls
    PROVE  NewRow(w, t, V) \in Row
<1>1. ExpiresAt(t, rpc[w].ttl) \in Nat
  BY TypeFacts DEF ExpiresAt
<1>2. /\ next_id \in Ids /\ rpc[w].namespace \in Namespaces
      /\ rpc[w].generation \in Nat \ {0} /\ rpc[w].cache_key \in Keys
  BY TypeFacts, ConstantsAssumption
<1> QED BY <1>1, <1>2 DEF NewRow, Row, Value

LEMMA InsertStep ==
    ASSUME IInv, NEW w \in Workers, rpc[w].step \in CallSteps, NoCall, Written(w),
           NEW D \in SUBSET cache_entries, Free(w, D), RowsOfKey(w) \subseteq D,
           NEW t \in Nat, NEW V \in SUBSET Calls, BornIn(V, rpc[w].generation),
           cache_entries' = (cache_entries \ D) \cup {NewRow(w, t, V)},
           next_id' = next_id + 1
    PROVE  IInv'
<1> DEFINE new == NewRow(w, t, V)
           A == {new}
<1>1. rpc[w].generation \in 1..generation[rpc[w].namespace]
  BY TypeFacts DEF HandlerSound
<1>2. new \in Row
  BY <1>1, NewRowType
<1>3. /\ new.id = next_id /\ new.value = V /\ new.namespace = rpc[w].namespace
      /\ new.generation = rpc[w].generation /\ new.cache_key = rpc[w].cache_key
  BY DEF NewRow
<1>4. new.generation <= generation[new.namespace]
  BY <1>1, <1>3
<1>5. \A s \in cache_entries \ D : ~SameKeyRows(new, s)
  BY <1>3 DEF SameKeyRows, RowsOfKey, In
<1> HIDE DEF new
<1>6. /\ A \in SUBSET Row /\ (\A a, b \in A : a = b)
      /\ \A a \in A : a = new
  BY <1>2
<1>7. cache_entries' = (cache_entries \ D) \cup A
  BY DEF new
<1> HIDE DEF A
<1>8. \A a \in A : /\ a.id \in IdsOf(D) \/ (a.id = next_id /\ next_id' = next_id + 1)
                   /\ a.generation <= generation[a.namespace]
                   /\ BornIn(a.value, a.generation)
                   /\ \A s \in cache_entries \ D : ~SameKeyRows(a, s)
  BY <1>3, <1>4, <1>5, <1>6
<1>9. PICK x \in Rpc : /\ rpc' = [rpc EXCEPT ![w] = x]
                       /\ x.locked = {} /\ x.step \notin CallSteps /\ x.t <= now
  BY WrittenFacts
<1> QED BY <1>6, <1>7, <1>8, <1>9, RowsStep

\* An UPDATE of one row keeps its id and its key.
LEMMA UpdateStep ==
    ASSUME IInv, NEW w \in Workers, NoCall, NEW x \in Rpc,
           rpc' = [rpc EXCEPT ![w] = x],
           x.locked = {}, x.step \notin CallSteps, x.t <= now,
           NEW r \in cache_entries, Free(w, {r}),
           NEW q \in Row, q.id = r.id, SameKeyRows(q, r),
           BornIn(q.value, q.generation),
           cache_entries' = (cache_entries \ {r}) \cup {q},
           next_id' = next_id \/ next_id' = next_id + 1
    PROVE  IInv'
<1>1. r.generation <= generation[r.namespace]
  BY DEF IInv, RowSound
<1>2. q.generation <= generation[q.namespace]
  BY <1>1 DEF SameKeyRows
<1>3. \A s \in cache_entries \ {r} : ~SameKeyRows(q, s)
  BY DEF IInv, RowsUnique, SameKeyRows
<1>4. PICK D : D = {r}
  OBVIOUS
<1>5. PICK A : A = {q}
  OBVIOUS
<1>6. D \in SUBSET cache_entries /\ Free(w, D) /\ q.id \in IdsOf(D)
  BY <1>4 DEF IdsOf
<1>7. A \in SUBSET Row /\ \A a, b \in A : a = b
  BY <1>5
<1>8. cache_entries' = (cache_entries \ D) \cup A
  BY <1>4, <1>5
<1>9. \A a \in A : /\ a.id \in IdsOf(D) \/ (a.id = next_id /\ next_id' = next_id + 1)
                   /\ a.generation <= generation[a.namespace]
                   /\ BornIn(a.value, a.generation)
                   /\ \A s \in cache_entries \ D : ~SameKeyRows(a, s)
  BY <1>2, <1>3, <1>4, <1>5, <1>6
<1> QED BY <1>6, <1>7, <1>8, <1>9, RowsStep

LEMMA TouchKeeps == ASSUME IInv, NEW w \in Workers, get_touch(w) PROVE IInv'
<1> DEFINE found == RowsById({rpc[w].id})
<1>0. /\ NoCall /\ next_id' = next_id /\ Return(w) /\ Free(w, found)
      /\ cache_entries' = (cache_entries \ found)
                \cup {[r EXCEPT !.accessed = now] : r \in found}
  BY DEF get_touch, OnlyRows
<1>1. CASE found = {}
  <2>1. cache_entries' = cache_entries
    BY <1>0, <1>1
  <2> QED BY <1>0, <2>1, ReturnKeeps DEF OnlyRpc
<1>2. ASSUME NEW r \in found PROVE IInv'
  <2>1. found = {r} /\ r \in cache_entries
    BY DEF RowsById, IInv, RowsUnique
  <2> DEFINE q == [r EXCEPT !.accessed = now]
  <2>2. r \in Row /\ now \in Nat
    BY <2>1, TypeFacts
  <2>3. /\ q \in Row /\ q.id = r.id /\ SameKeyRows(q, r)
        /\ q.value = r.value /\ q.generation = r.generation
    BY <2>2 DEF Row, SameKeyRows
  <2>4. cache_entries' = (cache_entries \ {r}) \cup {q}
    BY <1>0, <2>1
  <2> HIDE DEF q
  <2>5. BornIn(q.value, q.generation)
    BY <2>1, <2>3 DEF IInv, RowSound
  <2>6. Free(w, {r})
    BY <1>0, <2>1
  <2>7. rpc' = [rpc EXCEPT ![w] = Idle]
    BY <1>0 DEF Return
  <2>8. /\ Idle \in Rpc /\ Idle.locked = {} /\ Idle.step \notin CallSteps
        /\ Idle.t <= now
    BY IdleFacts DEF IInv
  <2> QED BY <1>0, <2>1, <2>3, <2>4, <2>5, <2>6, <2>7, <2>8, UpdateStep
<1> QED BY <1>1, <1>2

LEMMA SetKeeps == ASSUME IInv, NEW w \in Workers, set(w) PROVE IInv'
<1> DEFINE old == RowsOfKey(w)
           new == NewRow(w, now, {rpc[w].n})
<1>0. /\ rpc[w].step = "set" /\ rpc[w].step \in CallSteps /\ NoCall /\ Written(w)
      /\ next_id' = next_id + 1 /\ Free(w, old)
      /\ cache_entries' = (cache_entries \ old) \cup
                (IF old = {} THEN {new}
                 ELSE {[new EXCEPT !.id = r.id, !.accessed = r.accessed] : r \in old})
  BY DEF set, At, CallSteps, WriteSteps
<1>1. /\ old \in SUBSET cache_entries /\ now \in Nat
      /\ {rpc[w].n} \in SUBSET Calls /\ rpc[w].generation # 0
      /\ BornIn({rpc[w].n}, rpc[w].generation)
  <2>1. /\ rpc[w].n # 0 /\ rpc[w].generation \in 1..generation[rpc[w].namespace]
        /\ BornIn({rpc[w].n}, rpc[w].generation)
    BY <1>0, TypeFacts DEF HandlerSound, BornIn
  <2>2. rpc[w].n \in Calls
    BY <2>1, TypeFacts, ConstantsAssumption DEF Calls
  <2> QED BY <2>1, <2>2, TypeFacts DEF RowsOfKey, In
<1>2. CASE old = {}
  <2>1. cache_entries' = (cache_entries \ old) \cup {new}
    BY <1>0, <1>2
  <2> QED BY <1>0, <1>1, <2>1, InsertStep
<1>3. ASSUME NEW r \in old PROVE IInv'
  <2>1. old = {r}
    BY DEF RowsOfKey, In, IInv, RowsUnique
  <2> DEFINE q == [new EXCEPT !.id = r.id, !.accessed = r.accessed]
  <2>2. /\ r \in Row /\ r \in cache_entries /\ r.namespace = rpc[w].namespace
        /\ r.generation = rpc[w].generation /\ r.cache_key = rpc[w].cache_key
    BY RowsOfKeyFacts
  <2>3. new \in Row
    BY <1>1, NewRowType
  <2>4. /\ new.value = {rpc[w].n} /\ new.namespace = rpc[w].namespace
        /\ new.generation = rpc[w].generation /\ new.cache_key = rpc[w].cache_key
    BY DEF NewRow
  <2>5. cache_entries' = (cache_entries \ {r}) \cup {q}
    BY <1>0, <2>1
  <2> HIDE DEF new
  <2>6. /\ q \in Row /\ q.id = r.id /\ q.value = new.value
        /\ q.namespace = new.namespace /\ q.generation = new.generation
        /\ q.cache_key = new.cache_key
    BY <2>2, <2>3 DEF Row
  <2> HIDE DEF q
  <2>7. SameKeyRows(q, r) /\ BornIn(q.value, q.generation)
    BY <1>1, <2>2, <2>4, <2>6 DEF SameKeyRows
  <2>8. Free(w, {r})
    BY <1>0, <2>1
  <2>9. PICK x \in Rpc : /\ rpc' = [rpc EXCEPT ![w] = x]
                         /\ x.locked = {} /\ x.step \notin CallSteps /\ x.t <= now
    BY <1>0, WrittenFacts
  <2> QED BY <1>0, <2>2, <2>5, <2>6, <2>7, <2>8, <2>9, UpdateStep
<1> QED BY <1>2, <1>3

\* What the operation stores was contributed in the generation of the call.
LEMMA StoredFacts ==
    ASSUME IInv, NEW w \in Workers, rpc[w].step \in CallSteps
    PROVE  /\ Stored(w) \in SUBSET Calls /\ {rpc[w].n} \in SUBSET Calls
           /\ BornIn(Stored(w), rpc[w].generation)
           /\ BornIn({rpc[w].n}, rpc[w].generation)
           /\ rpc[w].generation # 0
<1>1. /\ rpc[w].n # 0 /\ rpc[w].generation \in 1..generation[rpc[w].namespace]
      /\ BornIn(rpc[w].value \cup {rpc[w].n}, rpc[w].generation)
  BY TypeFacts DEF HandlerSound
<1>2. rpc[w].n \in Calls
  BY <1>1, TypeFacts, ConstantsAssumption DEF Calls
<1>3. rpc[w].value \in SUBSET Calls
  BY TypeFacts
<1> QED BY <1>1, <1>2, <1>3 DEF Stored, BornIn

LEMMA SetNxKeeps == ASSUME IInv, NEW w \in Workers, set_nx(w) PROVE IInv'
<1> DEFINE D == RowsById(rpc[w].locked)
<1>0. /\ rpc[w].step \in CallSteps /\ NoCall /\ next_id' = next_id + 1
  BY DEF set_nx, At, CallSteps, WriteSteps
<1>1. D \in SUBSET cache_entries /\ Free(w, D)
  BY OwnRowsFree
<1>2. CASE Remaining(w) = {}
  <2>1. /\ cache_entries' = (cache_entries \ D) \cup {NewRow(w, rpc[w].t, {rpc[w].n})}
        /\ Written(w)
    BY <1>2 DEF set_nx
  <2>2. RowsOfKey(w) \subseteq D
    BY <1>2 DEF Remaining
  <2>3. rpc[w].t \in Nat
    BY TypeFacts
  <2> HIDE DEF D
  <2> QED BY <1>0, <1>1, <2>1, <2>2, <2>3, StoredFacts, InsertStep
<1>3. CASE Remaining(w) # {}
  <2>1. cache_entries' = cache_entries \ D /\ Return(w)
    BY <1>3 DEF set_nx
  <2> HIDE DEF D
  <2> QED BY <1>0, <1>1, <2>1, ReturnDeletes
<1> QED BY <1>2, <1>3

LEMMA InsertKeeps == ASSUME IInv, NEW w \in Workers, insert_value(w) PROVE IInv'
<1> DEFINE D == RowsById(rpc[w].locked)
<1>0. /\ rpc[w].step \in CallSteps /\ NoCall /\ next_id' = next_id + 1
  BY DEF insert_value, At, CallSteps, WriteSteps
<1>1. D \in SUBSET cache_entries /\ Free(w, D)
  BY OwnRowsFree
<1>2. CASE Remaining(w) = {}
  <2>1. /\ cache_entries' = (cache_entries \ D) \cup {NewRow(w, rpc[w].t, Stored(w))}
        /\ Written(w)
    BY <1>2 DEF insert_value
  <2>2. RowsOfKey(w) \subseteq D
    BY <1>2 DEF Remaining
  <2>3. rpc[w].t \in Nat
    BY TypeFacts
  <2> HIDE DEF D
  <2> QED BY <1>0, <1>1, <2>1, <2>2, <2>3, StoredFacts, InsertStep
<1>3. CASE Remaining(w) # {}
  <2> DEFINE E == {}
  <2>1. /\ cache_entries' = cache_entries \ E /\ Return(w)
        /\ E \in SUBSET cache_entries /\ Free(w, E)
    BY <1>3 DEF insert_value, Free, IdsOf
  <2> HIDE DEF E
  <2> QED BY <1>0, <2>1, ReturnDeletes
<1> QED BY <1>2, <1>3

LEMMA UpdateKeeps == ASSUME IInv, NEW w \in Workers, update_value(w) PROVE IInv'
<1> DEFINE e(r) == IF KeepsExpiry(w) THEN r.expires_at
                                     ELSE ExpiresAt(rpc[w].t, rpc[w].ttl)
           new(r) == [r EXCEPT !.value = Stored(w), !.expires_at = e(r)]
<1>0. /\ rpc[w].step = "write" /\ rpc[w].step \in CallSteps /\ rpc[w].id # 0
      /\ NoCall /\ Written(w) /\ next_id' = next_id
      /\ cache_entries' = {IF r.id = rpc[w].id THEN new(r) ELSE r : r \in cache_entries}
  BY DEF update_value, At, CallSteps, WriteSteps, OnlyRows
<1>1. PICK r \in RowsOfKey(w) : r.id = rpc[w].id /\ r.id \in rpc[w].locked
  BY <1>0, TypeFacts DEF HandlerSound, At
<1>2. /\ r \in Row /\ r \in cache_entries /\ r.generation = rpc[w].generation
  BY RowsOfKeyFacts
<1>3. \A s \in cache_entries : s.id = rpc[w].id <=> s = r
  BY <1>1, <1>2 DEF IInv, RowsUnique
<1>4. cache_entries' = (cache_entries \ {r}) \cup {new(r)}
  BY <1>0, <1>2, <1>3
<1>5. e(r) \in Nat
  BY <1>2, RowType, TypeFacts DEF ExpiresAt
<1> HIDE DEF e
<1> DEFINE q == new(r)
<1>6. Stored(w) \in SUBSET Calls /\ BornIn(Stored(w), rpc[w].generation)
  BY <1>0, StoredFacts
<1>7. /\ q \in Row /\ q.id = r.id /\ SameKeyRows(q, r)
      /\ q.value = Stored(w) /\ q.generation = r.generation
  BY <1>2, <1>5, <1>6 DEF Row, SameKeyRows, Value
<1>8. cache_entries' = (cache_entries \ {r}) \cup {q}
  BY <1>4
<1> HIDE DEF q, new
<1>9. BornIn(q.value, q.generation)
  BY <1>2, <1>6, <1>7
<1>10. Free(w, {r})
  BY <1>1 DEF Free, IdsOf, IInv, LocksExclusive
<1>11. PICK x \in Rpc : /\ rpc' = [rpc EXCEPT ![w] = x]
                        /\ x.locked = {} /\ x.step \notin CallSteps /\ x.t <= now
  BY <1>0, WrittenFacts
<1> QED BY <1>0, <1>2, <1>7, <1>8, <1>9, <1>10, <1>11, UpdateStep

-----------------------------------------------------------------------------
(* enforce_capacity.                                                       *)

\* The table is finite, since the sequence has numbered its rows: counts and
\* sums over it are numbers.
LEMMA RowsFinite ==
    ASSUME IInv, NEW S \in SUBSET cache_entries
    PROVE  /\ IsFiniteSet(S) /\ Cardinality(S) \in Nat /\ ByteSize(S) \in Nat
<1>1. /\ cache_entries \in SUBSET Row /\ next_id \in Nat
      /\ \A r \in cache_entries : r.id < next_id
  BY DEF IInv, TypeOK, Ids, RowSound
<1>2. \A r \in S : r.id \in 0..next_id /\ r.value \in SUBSET (1..MaxCalls)
  BY <1>1, RowType DEF Ids, Calls
<1>3. IsFiniteSet(0..next_id) /\ IsFiniteSet(1..MaxCalls)
  BY <1>1, FS_Interval, ConstantsAssumption
<1>4. IsFiniteSet(S) /\ Cardinality(S) \in Nat
  <2> DEFINE f == [r \in S |-> r.id]
  <2>1. f \in Injection(S, 0..next_id)
    BY <1>2 DEF Injection, IsInjective, IInv, RowsUnique
  <2> QED BY <1>3, <2>1, FS_Injection, FS_CardinalityType
<1>5. ByteSize(S) \in Nat
  <2> DEFINE T == UNION {{r.id} \X r.value : r \in S}
  <2>1. T \in SUBSET ((0..next_id) \X (1..MaxCalls))
    BY <1>2
  <2>2. IsFiniteSet((0..next_id) \X (1..MaxCalls))
    BY <1>3, FS_Product
  <2> HIDE DEF T
  <2>3. IsFiniteSet(T)
    BY <2>1, <2>2, FS_Subset
  <2>4. Cardinality(T) \in Nat
    BY <2>3, FS_CardinalityType
  <2> QED BY <2>4 DEF T, ByteSize
<1> QED BY <1>4, <1>5

\* When none of the rows it picked is left, a DELETE has locked all of them.
LEMMA PickedFree ==
    ASSUME IInv, NEW w \in Workers, Left(w) = {}
    PROVE  /\ RowsById(rpc[w].picked) \in SUBSET cache_entries
           /\ Free(w, RowsById(rpc[w].picked))
<1>1. \A r \in RowsById(rpc[w].picked) : r.id \in rpc[w].locked
  BY DEF Left
<1>2. RowsById(rpc[w].picked) \in SUBSET cache_entries
  BY DEF RowsById
<1> QED BY <1>1, <1>2 DEF IInv, LocksExclusive, Free, IdsOf

LEMMA CapacityKeeps ==
    ASSUME IInv, NEW w \in Workers, enforce_capacity(w) PROVE IInv'
<1>t. /\ rpc \in [Workers -> Rpc] /\ rpc[w] \in Rpc /\ rpc[w].t <= now
      /\ rpc[w].namespace \in Namespaces
      /\ cache_entries \in SUBSET Row /\ generation \in [Namespaces -> Nat]
  BY TypeFacts
<1>l. rpc[w].step \notin LockSteps \cup DeleteSteps => rpc[w].locked = {}
  BY TypeFacts DEF HandlerSound, At
<1>i. \A S \in SUBSET cache_entries : IdsOf(S) \in SUBSET Ids
  BY <1>t, RowType DEF IdsOf
<1>n. {"sweep", "sweep_delete", "generation", "usage", "evict", "evict_delete", "bytes"}
        \cap CallSteps = {}
  BY DEF CallSteps, WriteSteps
<1>1. CASE sweep_select(w)
  <2> DEFINE doomed == {r \in cache_entries : Expired(r, now)}
             st == IF doomed = {} THEN "generation" ELSE "sweep_delete"
             P == IdsOf(doomed)
             x == [rpc[w] EXCEPT !.picked = P, !.step = st]
  <2>1. OnlyRpc /\ rpc[w].locked = {} /\ rpc' = [rpc EXCEPT ![w] = x]
    BY <1>1, <1>t, <1>l DEF sweep_select, At, LockSteps, DeleteSteps
  <2>2. P \in SUBSET Ids /\ st \in {"generation", "sweep_delete"}
    BY <1>i
  <2> HIDE DEF P, st
  <2>3. x \in Rpc /\ x.step = st /\ x.locked = rpc[w].locked /\ x.t = rpc[w].t
    BY <1>t, <2>2 DEF Rpc, Steps
  <2> HIDE DEF x
  <2> QED BY <1>t, <1>n, <2>1, <2>2, <2>3, RestStep
<1>2. CASE sweep_delete(w)
  <2> DEFINE found == RowsById(rpc[w].picked)
             x == [rpc[w] EXCEPT !.step = "generation", !.picked = {}, !.locked = {}]
  <2>1. /\ cache_entries' = cache_entries \ found /\ NoCall /\ next_id' = next_id
        /\ Return(w) \/ rpc' = [rpc EXCEPT ![w] = x]
    BY <1>2, <1>t DEF sweep_delete, OnlyRows, At
  <2>5. found \in SUBSET cache_entries /\ Free(w, found)
    BY <1>2, PickedFree DEF sweep_delete
  <2>2. /\ x \in Rpc /\ x.step = "generation" /\ x.locked = {}
        /\ x.t = rpc[w].t
    BY <1>t DEF Rpc, Steps
  <2> HIDE DEF x, found
  <2>3. CASE Return(w)
    BY <2>1, <2>3, <2>5, ReturnDeletes
  <2>4. CASE rpc' = [rpc EXCEPT ![w] = x]
    BY <1>t, <1>n, <2>1, <2>2, <2>4, <2>5, DeleteStep
  <2> QED BY <2>1, <2>3, <2>4
<1>3. CASE try_namespace_generation(w)
  <2> DEFINE x == [rpc[w] EXCEPT !.step = "usage",
                                 !.generation = generation[rpc[w].namespace]]
  <2>1. OnlyRpc /\ rpc[w].locked = {} /\ rpc' = [rpc EXCEPT ![w] = x]
    BY <1>3, <1>t, <1>l DEF try_namespace_generation, At, LockSteps, DeleteSteps
  <2>2. /\ x \in Rpc /\ x.step = "usage" /\ x.locked = rpc[w].locked
        /\ x.t = rpc[w].t
    BY <1>t DEF Rpc, Steps
  <2> HIDE DEF x
  <2> QED BY <1>t, <1>n, <2>1, <2>2, RestStep
<1>4. CASE usage(w)
  <2> DEFINE rows == In(rpc[w].namespace, rpc[w].generation)
             e == IF MaxKeys = 0 THEN 0 ELSE Cardinality(rows) - MaxKeys
             b == IF MaxBytes = 0 THEN 0 ELSE ByteSize(rows)
             x == [rpc[w] EXCEPT !.step = "evict", !.excess = e, !.bytes = b]
  <2>1. OnlyRpc /\ rpc[w].locked = {} /\ rpc' = [rpc EXCEPT ![w] = x]
    BY <1>4, <1>t, <1>l DEF usage, At, LockSteps, DeleteSteps
  <2>2. rows \in SUBSET cache_entries
    BY DEF In
  <2> HIDE DEF rows
  <2>3. Cardinality(rows) \in Nat /\ ByteSize(rows) \in Nat
    BY <2>2, RowsFinite
  <2>4. e \in Int /\ b \in Nat
    BY <2>3, ConstantsAssumption
  <2> HIDE DEF e, b
  <2>5. /\ x \in Rpc /\ x.step = "evict" /\ x.locked = rpc[w].locked
        /\ x.t = rpc[w].t
    BY <1>t, <2>4 DEF Rpc, Steps
  <2> HIDE DEF x
  <2> QED BY <1>t, <1>n, <2>1, <2>5, RestStep
<1>5. CASE evict_select(w)
  <2> DEFINE victims == LeastRecentlyUsed(In(rpc[w].namespace, rpc[w].generation))
             P == IdsOf(victims)
             x == [rpc[w] EXCEPT !.step = "evict_delete", !.picked = P]
  <2>1. /\ OnlyRpc /\ rpc[w].locked = {}
        /\ Return(w) \/ rpc' = [rpc EXCEPT ![w] = x]
    BY <1>5, <1>t, <1>l DEF evict_select, At, LockSteps, DeleteSteps
  <2>2. P \in SUBSET Ids
    BY <1>i DEF LeastRecentlyUsed, In
  <2> HIDE DEF P
  <2>3. /\ x \in Rpc /\ x.step = "evict_delete" /\ x.locked = rpc[w].locked
        /\ x.t = rpc[w].t
    BY <1>t, <2>2 DEF Rpc, Steps
  <2> HIDE DEF x
  <2>4. CASE Return(w)
    BY <2>1, <2>4, ReturnKeeps
  <2>5. CASE rpc' = [rpc EXCEPT ![w] = x]
    BY <1>t, <1>n, <2>1, <2>3, <2>5, RestStep
  <2> QED BY <2>1, <2>4, <2>5
<1>6. CASE evict_delete(w)
  <2> DEFINE found == RowsById(rpc[w].picked)
             st == IF MaxBytes = 0 THEN "evict" ELSE "bytes"
             e == rpc[w].excess - 1
             x == [rpc[w] EXCEPT !.step = st, !.excess = e, !.picked = {}]
  <2>1. /\ found \in SUBSET cache_entries /\ Free(w, found)
        /\ cache_entries' = cache_entries \ found /\ NoCall /\ next_id' = next_id
        /\ rpc[w].locked = {}
        /\ Return(w) \/ rpc' = [rpc EXCEPT ![w] = x]
    BY <1>6, <1>t, <1>l DEF evict_delete, RowsById, OnlyRows, At, LockSteps, DeleteSteps
  <2>2. st \in {"evict", "bytes"} /\ e \in Int
    BY <1>t DEF Rpc
  <2> HIDE DEF st, e
  <2>3. /\ x \in Rpc /\ x.step = st /\ x.locked = rpc[w].locked
        /\ x.t = rpc[w].t
    BY <1>t, <2>2 DEF Rpc, Steps
  <2> HIDE DEF x, found
  <2>4. CASE Return(w)
    BY <2>1, <2>4, ReturnDeletes
  <2>5. CASE rpc' = [rpc EXCEPT ![w] = x]
    BY <1>t, <1>n, <2>1, <2>2, <2>3, <2>5, DeleteStep
  <2> QED BY <2>1, <2>4, <2>5
<1>7. CASE evict_bytes(w)
  <2> DEFINE rows == In(rpc[w].namespace, rpc[w].generation)
             b == ByteSize(rows)
             x == [rpc[w] EXCEPT !.step = "evict", !.bytes = b]
  <2>1. OnlyRpc /\ rpc[w].locked = {} /\ rpc' = [rpc EXCEPT ![w] = x]
    BY <1>7, <1>t, <1>l DEF evict_bytes, At, LockSteps, DeleteSteps
  <2>2. rows \in SUBSET cache_entries
    BY DEF In
  <2> HIDE DEF rows
  <2>3. b \in Nat
    BY <2>2, RowsFinite
  <2> HIDE DEF b
  <2>4. /\ x \in Rpc /\ x.step = "evict" /\ x.locked = rpc[w].locked
        /\ x.t = rpc[w].t
    BY <1>t, <2>3 DEF Rpc, Steps
  <2> HIDE DEF x
  <2> QED BY <1>t, <1>n, <2>1, <2>4, RestStep
<1> QED BY <1>1, <1>2, <1>3, <1>4, <1>5, <1>6, <1>7 DEF enforce_capacity

-----------------------------------------------------------------------------
(* Invalidation, and the DELETE of many rows.                              *)

LEMMA InvalidateKeeps ==
    ASSUME IInv, NEW w \in Workers, NEW ns \in Namespaces, invalidate_namespace(w, ns)
    PROVE  IInv'
<1> DEFINE P == IdsOf({r \in cache_entries : r.namespace = ns})
           x == [Idle EXCEPT !.step = "invalidate", !.op = "invalidate",
                             !.namespace = ns, !.picked = P]
<1>1. OnlyRpc /\ rpc' = [rpc EXCEPT ![w] = x]
  BY DEF invalidate_namespace
<1>2. P \in SUBSET Ids
  BY TypeFacts, RowType DEF IdsOf
<1> HIDE DEF P
<1>3. x \in Rpc
  BY <1>2, IdleType DEF Rpc, Steps
<1>4. x.locked = {} /\ x.step = "invalidate" /\ x.t = 0
  BY DEF Idle
<1>5. x.step \notin CallSteps /\ x.t <= now
  BY <1>4, TypeFacts DEF CallSteps, WriteSteps
<1> HIDE DEF x
<1> QED BY <1>1, <1>3, <1>4, <1>5, RestStep

LEMMA InvalidateUpdateKeeps ==
    ASSUME IInv, NEW w \in Workers, invalidate_update(w) PROVE IInv'
<1> DEFINE x == [rpc[w] EXCEPT !.step = "invalidate_delete"]
<1>t. rpc[w] \in Rpc /\ rpc \in [Workers -> Rpc]
  BY TypeFacts
<1>1. OnlyRpc /\ rpc[w].step = "invalidate" /\ rpc' = [rpc EXCEPT ![w] = x]
  BY <1>t DEF invalidate_update, Goto, At
<1>2. rpc[w].locked = {} /\ rpc[w].t <= now
  BY <1>1, TypeFacts DEF HandlerSound, LockSteps, DeleteSteps
<1>3. /\ x \in Rpc /\ x.step = "invalidate_delete" /\ x.locked = rpc[w].locked
      /\ x.t = rpc[w].t
  BY <1>t DEF Rpc, Steps
<1>4. x.step \notin CallSteps
  BY <1>3 DEF CallSteps, WriteSteps
<1> HIDE DEF x
<1> QED BY <1>1, <1>2, <1>3, <1>4, RestStep

LEMMA DeleteRowKeeps ==
    ASSUME IInv, NEW w \in Workers, delete_row(w) PROVE IInv'
<1>0. OnlyRpc /\ rpc[w].step \in DeleteSteps
  BY DEF delete_row
<1>1. PICK r \in Left(w) : Free(w, {r}) /\ rpc' = [rpc EXCEPT ![w].locked = @ \cup {r.id}]
  BY DEF delete_row
<1> DEFINE L == rpc[w].locked \cup {r.id}
           x == [rpc[w] EXCEPT !.locked = L]
<1>t. rpc[w] \in Rpc /\ rpc \in [Workers -> Rpc] /\ rpc[w].t <= now
  BY TypeFacts
<1>2. r \in cache_entries /\ r.id \in Ids /\ r.id < next_id
  <2>1. r \in cache_entries
    BY DEF Left, RowsById
  <2>2. r \in Row /\ RowSound(r)
    BY <2>1, TypeFacts DEF IInv
  <2> QED BY <2>1, <2>2, RowType DEF RowSound
<1>3. /\ L \in SUBSET Ids /\ \A i \in L : i < next_id
      /\ \A v \in Workers \ {w} : rpc[v].locked \cap L = {}
  <2>1. L \in SUBSET Ids /\ \A i \in L : i < next_id
    BY <1>2, TypeFacts DEF HandlerSound
  <2>2. \A v \in Workers \ {w} : r.id \notin rpc[v].locked
    BY <1>1 DEF Free, IdsOf
  <2>3. \A v \in Workers \ {w} : rpc[v].locked \cap rpc[w].locked = {}
    BY DEF IInv, LocksExclusive
  <2> QED BY <2>1, <2>2, <2>3
<1>4. rpc' = [rpc EXCEPT ![w] = x] /\ rpc'[w] = x
  BY <1>1, <1>t
<1> HIDE DEF L
<1>5. /\ x \in Rpc /\ x.step = rpc[w].step /\ x.locked = L /\ x.t = rpc[w].t
  BY <1>t, <1>3 DEF Rpc
<1> HIDE DEF x
<1>6. UNCHANGED <<now, next_id>>
  BY <1>0 DEF OnlyRpc, NoCall
<1>7. HandlerSound(w)'
  BY <1>0, <1>t, <1>3, <1>4, <1>5, <1>6
     DEF HandlerSound, At, DeleteSteps, LockSteps, WriteSteps, CallSteps
<1> QED BY <1>0, <1>3, <1>4, <1>5, <1>7, RpcStep

LEMMA InvalidateDeleteKeeps ==
    ASSUME IInv, NEW w \in Workers, invalidate_delete(w) PROVE IInv'
<1>0. PICK ns : ns = rpc[w].namespace
  OBVIOUS
<1> DEFINE old == RowsById(rpc[w].picked)
<1>1. /\ generation' = [generation EXCEPT ![ns] = @ + 1]
      /\ cache_entries' = cache_entries \ old
      /\ invalidated' = [invalidated EXCEPT ![ns] = @ + 1]
      /\ rpc' = [rpc EXCEPT ![w] = Idle]
      /\ rpc[w].step = "invalidate_delete"
      /\ UNCHANGED <<next_id, now, calls, born>>
  BY <1>0 DEF invalidate_delete, Return, At
<1>2. /\ TypeOK /\ generation \in [Namespaces -> Nat] /\ ns \in Namespaces
      /\ invalidated \in [Namespaces -> Nat] /\ rpc \in [Workers -> Rpc]
      /\ cache_entries \in SUBSET Row
      /\ next_id \in Nat /\ now \in Nat /\ calls \in Nat
  BY <1>0, TypeFacts DEF TypeOK, Ids
<1>3. /\ Idle \in Rpc /\ Idle.locked = {} /\ Idle.step = "idle" /\ Idle.t <= now
      /\ Idle.step \notin CallSteps
  BY <1>2, IdleFacts
<1>4. /\ rpc'[w] = Idle /\ \A v \in Workers \ {w} : rpc'[v] = rpc[v]
      /\ rpc' \in [Workers -> Rpc]
  BY <1>1, <1>2, <1>3
<1>5. generation' \in [Namespaces -> Nat] /\ invalidated' \in [Namespaces -> Nat]
  BY <1>1, <1>2
<1>6. TypeOK'
  BY <1>1, <1>2, <1>4, <1>5 DEF TypeOK
<1>7. \A m \in Namespaces : generation[m] <= generation'[m]
  BY <1>1, <1>2
<1>8. Monotone
  BY <1>1, <1>2, <1>7 DEF Monotone
<1>f. Free(w, old)
  BY PickedFree DEF invalidate_delete
<1>9. ASSUME NEW v \in Workers PROVE HandlerSound(v)'
  <2>1. CASE v # w
    <3>1. \A r \in old : r.id \notin rpc[v].locked
      BY <1>f, <2>1 DEF Free, IdsOf
    <3> HIDE DEF old
    <3>2. RowsById(rpc[v].locked)' = RowsById(rpc[v].locked)
      BY <1>1, <1>4, <2>1, <3>1 DEF RowsById
    <3> QED BY <1>4, <1>2, <1>6, <1>8, <2>1, <3>2, HandlerKept DEF IInv
  <2>2. CASE v = w
    <3>1. Idle.step \notin LockSteps /\ Idle.step \notin WriteSteps /\ Idle.step # "write"
      BY <1>3 DEF LockSteps, WriteSteps
    <3> QED BY <1>1, <1>3, <1>4, <2>2, <3>1 DEF HandlerSound, At
  <2> QED BY <2>1, <2>2
<1>10. \A r \in cache_entries' : RowSound(r)'
  BY <1>1, <1>2, <1>6, <1>8, RowKept DEF IInv
<1>11. RowsUnique' /\ LocksExclusive'
  BY <1>1, <1>3, <1>4 DEF IInv, RowsUnique, LocksExclusive
<1>12. generation[ns] # 0
  BY <1>0 DEF invalidate_delete
<1>13. ASSUME NEW m \in Namespaces
       PROVE  (invalidated[m] = IF generation[m] = 0 THEN 0 ELSE generation[m] - 1)'
  <2>1. invalidated[m] = IF generation[m] = 0 THEN 0 ELSE generation[m] - 1
    BY DEF IInv, GenerationCounts
  <2>2. CASE m = ns
    <3>1. generation'[m] = generation[m] + 1 /\ invalidated'[m] = invalidated[m] + 1
      BY <1>1, <1>2, <2>2
    <3> QED BY <1>2, <1>12, <2>1, <2>2, <3>1
  <2>3. CASE m # ns
    BY <1>1, <1>2, <2>1, <2>3
  <2> QED BY <2>2, <2>3
<1>14. GenerationCounts'
  BY <1>13 DEF GenerationCounts
<1> QED BY <1>6, <1>9, <1>10, <1>11, <1>14 DEF IInv

LEMMA HandlerKeeps == ASSUME IInv, NEW w \in Workers, Handler(w) PROVE IInv'
  BY GetKeeps, TouchKeeps, DeleteKeeps, SetKeeps, BeginKeeps, LockKeeps,
     DeleteExpiredKeeps, SetNxKeeps, SelectKeeps, UpdateKeeps, InsertKeeps,
     InvalidateUpdateKeeps, DeleteRowKeeps, InvalidateDeleteKeeps, CapacityKeeps
     DEF Handler, Transaction

LEMMA AbandonKeeps ==
    ASSUME IInv, NEW w \in Workers, Abandon(w) \/ detect_deadlock(w) PROVE IInv'
  BY ReturnKeeps DEF Abandon, detect_deadlock

-----------------------------------------------------------------------------
(* The clock and the beginning of a call.                                  *)

LEMMA TickKeeps == ASSUME IInv, Tick PROVE IInv'
<1>1. /\ UNCHANGED <<generation, cache_entries, next_id, rpc, calls, invalidated, born>>
      /\ now' = now + 1
  BY DEF Tick
<1>2. TypeOK /\ now \in Nat
  BY DEF IInv, TypeOK
<1>3. TypeOK'
  BY <1>1, <1>2 DEF TypeOK
<1>4. Monotone
  BY <1>1, <1>2, ConstantsAssumption DEF Monotone, TypeOK, Ids
<1>5. \A v \in Workers : HandlerSound(v)'
  BY <1>1, <1>2, <1>3, <1>4, HandlerKept DEF IInv, RowsById
<1>6. \A r \in cache_entries' : RowSound(r)'
  BY <1>1 DEF IInv, RowSound, BornIn
<1>7. RowsUnique' /\ LocksExclusive' /\ GenerationCounts'
  BY <1>1 DEF IInv, RowsUnique, LocksExclusive, GenerationCounts
<1> QED BY <1>3, <1>5, <1>6, <1>7 DEF IInv

LEMMA EnsureKeeps ==
    ASSUME IInv, NEW ns \in Namespaces, ensure_namespace(ns) PROVE IInv'
<1>1. /\ generation[ns] = 0
      /\ generation' = [generation EXCEPT ![ns] = 1]
      /\ UNCHANGED <<cache_entries, next_id, now, rpc, calls, invalidated, born>>
  BY DEF ensure_namespace
<1>2. /\ TypeOK /\ generation \in [Namespaces -> Nat]
      /\ next_id \in Nat /\ now \in Nat /\ calls \in Nat
  BY DEF IInv, TypeOK, Ids
<1>3. TypeOK'
  BY <1>1, <1>2 DEF TypeOK
<1>4. Monotone
  BY <1>1, <1>2 DEF Monotone
<1>5. \A v \in Workers : HandlerSound(v)'
  BY <1>1, <1>2, <1>3, <1>4, HandlerKept DEF IInv, RowsById
<1>6. \A r \in cache_entries' : RowSound(r)'
  BY <1>1, <1>2, <1>3, <1>4, RowKept DEF IInv, TypeOK
<1>7. RowsUnique' /\ LocksExclusive'
  BY <1>1 DEF IInv, RowsUnique, LocksExclusive
<1>8. GenerationCounts'
  BY <1>1, <1>2 DEF IInv, GenerationCounts
<1> QED BY <1>3, <1>5, <1>6, <1>7, <1>8 DEF IInv

LEMMA CallKeeps ==
    ASSUME IInv, NEW w \in Workers, NEW op \in Ops, NEW ns \in Namespaces,
           NEW k \in Keys, NEW ttl \in Ttls, namespace_generation(w, op, ns, k, ttl)
    PROVE  IInv'
<1> DEFINE g == generation[ns]
           x == [Idle EXCEPT !.step = FirstStep(op), !.op = op, !.namespace = ns,
                             !.cache_key = k, !.ttl = ttl, !.n = calls + 1,
                             !.generation = g]
<1>0. /\ TypeOK /\ generation \in [Namespaces -> Nat]
      /\ MaxCalls \in Nat /\ calls \in 0..MaxCalls
      /\ rpc \in [Workers -> Rpc] /\ born \in [Calls -> Nat]
      /\ invalidated \in [Namespaces -> Nat]
      /\ next_id \in Nat /\ now \in Nat
  BY ConstantsAssumption DEF IInv, TypeOK, Ids
<1>1. /\ generation[ns] # 0
      /\ calls < MaxCalls /\ calls' = calls + 1
      /\ born' = [born EXCEPT ![calls + 1] = invalidated[ns]]
      /\ UNCHANGED <<generation, cache_entries, next_id, now, invalidated>>
  BY DEF namespace_generation, Calling
<1>2. g \in Nat \ {0}
  BY <1>0, <1>1
<1>g. g = invalidated[ns] + 1
  BY <1>0, <1>1 DEF IInv, GenerationCounts
<1>3. generation'[ns] = g
  BY <1>1
<1>4. rpc' = [rpc EXCEPT ![w] = x]
  BY DEF namespace_generation, Calling
<1> HIDE DEF g
<1>5. FirstStep(op) \in {"set", "get", "delete", "begin"}
  BY DEF FirstStep
<1>6. op \in AllOps /\ ttl \in Nat /\ calls + 1 \in 1..MaxCalls
  BY <1>0, <1>1, ConstantsAssumption
<1>7. x \in Rpc
  <2>1. FirstStep(op) \in Steps /\ g \in Nat /\ calls + 1 \in 0..MaxCalls
    BY <1>2, <1>5, <1>6 DEF Steps
  <2> QED BY <2>1, <1>6, IdleType DEF Rpc
<1>8. /\ x.step = FirstStep(op) /\ x.n = calls + 1 /\ x.generation = g
      /\ x.namespace = ns /\ x.locked = {} /\ x.value = {} /\ x.id = 0 /\ x.t = 0
  BY DEF Idle
<1> HIDE DEF x
<1>9. /\ rpc'[w] = x /\ rpc' \in [Workers -> Rpc]
      /\ \A v \in Workers \ {w} : rpc'[v] = rpc[v]
  BY <1>0, <1>4, <1>7
<1>10. /\ born' \in [Calls -> Nat] /\ born'[calls + 1] = g - 1
       /\ \A c \in 1..calls : born'[c] = born[c]
  <2>1. calls + 1 \in Calls /\ \A c \in 1..calls : c \in Calls /\ c # calls + 1
    BY <1>0, <1>6 DEF Calls
  <2>2. invalidated[ns] \in Nat /\ invalidated[ns] = g - 1
    BY <1>0, <1>2, <1>g
  <2> QED BY <1>0, <1>1, <2>1, <2>2
<1>11. TypeOK'
  BY <1>0, <1>1, <1>3, <1>6, <1>9, <1>10 DEF TypeOK
<1>12. Monotone
  BY <1>0, <1>1, <1>2, <1>10 DEF Monotone
<1>13. ASSUME NEW v \in Workers PROVE HandlerSound(v)'
  <2>1. CASE v # w
    <3>1. RowsById(rpc[v].locked)' = RowsById(rpc[v].locked)
      BY <2>1, <1>1, <1>9 DEF RowsById
    <3> QED BY <2>1, <3>1, <1>0, <1>9, <1>11, <1>12, HandlerKept DEF IInv
  <2>2. CASE v = w
    <3>1. PICK y : y = x
      OBVIOUS
    <3>2. y.n # 0 /\ \A c \in y.value \cup {y.n} : c <= calls' /\ born'[c] = y.generation - 1
      BY <1>0, <1>1, <1>6, <1>8, <1>10, <3>1
    <3>3. y.generation \in 1..generation'[y.namespace] /\ y.t <= now'
      BY <1>0, <1>1, <1>2, <1>3, <1>8, <3>1
    <3>4. /\ y.step \in {"set", "get", "delete", "begin"} /\ y.locked = {} /\ y.id = 0
          /\ rpc'[w] = y
      BY <1>5, <1>8, <1>9, <3>1
    <3> QED BY <2>2, <3>2, <3>3, <3>4
            DEF HandlerSound, At, RowsById, WriteSteps, CallSteps, LockSteps, BornIn
  <2> QED BY <2>1, <2>2
<1>14. \A r \in cache_entries' : RowSound(r)'
  BY <1>0, <1>1, <1>11, <1>12, RowKept DEF IInv, TypeOK
<1>15. RowsUnique' /\ LocksExclusive'
  BY <1>1, <1>8, <1>9 DEF IInv, RowsUnique, LocksExclusive
<1>16. GenerationCounts'
  BY <1>1 DEF IInv, GenerationCounts
<1> QED BY <1>11, <1>13, <1>14, <1>15, <1>16 DEF IInv

LEMMA NextIInv == IInv /\ [Next]_vars => IInv'
<1> SUFFICES ASSUME IInv, [Next]_vars PROVE IInv'
  OBVIOUS
<1>1. CASE Tick
  BY <1>1, TickKeeps
<1>2. ASSUME NEW ns \in Namespaces, ensure_namespace(ns) PROVE IInv'
  BY <1>2, EnsureKeeps
<1>6. ASSUME NEW w \in Workers, NEW ns \in Namespaces, invalidate_namespace(w, ns) PROVE IInv'
  BY <1>6, InvalidateKeeps
<1>3. ASSUME NEW w \in Workers, Abandon(w) \/ detect_deadlock(w) \/ Handler(w) PROVE IInv'
  BY <1>3, AbandonKeeps, HandlerKeeps
<1>4. ASSUME NEW w \in Workers, NEW op \in Ops, NEW ns \in Namespaces,
             NEW k \in Keys, NEW ttl \in Ttls, namespace_generation(w, op, ns, k, ttl)
      PROVE  IInv'
  BY <1>4, CallKeeps
<1>5. CASE UNCHANGED vars
  BY <1>5 DEF vars, IInv, TypeOK, RowsUnique, RowSound, BornIn, HandlerSound, At,
              RowsById, RowsOfKey, In, LocksExclusive, GenerationCounts
<1> QED BY <1>1, <1>2, <1>3, <1>4, <1>5, <1>6 DEF Next

-----------------------------------------------------------------------------
(* The theorems.                                                           *)

\* The inductive invariant: rows, locks and handlers agree in every state, for
\* every number of concurrent calls, namespaces, keys and generations.
THEOREM Invariance == Spec => []IInv
  BY InitIInv, NextIInv, PTL DEF Spec

\* From SELECT ... FOR UPDATE to COMMIT nobody changes the row that GetSet,
\* Increment, Decrement, Append and Prepend have selected: no write is lost.
THEOREM AtomicityCorrect == Spec => []NothingSlipsIn
<1>1. IInv => NothingSlipsIn
  BY DEF IInv, HandlerSound, NothingSlipsIn
<1> QED BY <1>1, Invariance, PTL

\* A get that begins after invalidate_namespace returns nothing that a write
\* begun before it contributed to, whenever that write commits.
THEOREM InvalidationCorrect == Spec => []InvalidationFences
<1>1. IInv => InvalidationFences
  <2> SUFFICES ASSUME IInv, NEW w \in Workers, rpc[w].step = "touch", NEW c \in rpc[w].value
               PROVE  born[c] >= born[rpc[w].n]
    BY DEF InvalidationFences, At
  <2>1. BornIn(rpc[w].value \cup {rpc[w].n}, rpc[w].generation) /\ rpc[w].n # 0
    BY TypeFacts DEF HandlerSound, CallSteps
  <2>2. born[c] = born[rpc[w].n]
    BY <2>1 DEF BornIn
  <2>3. rpc[w].n \in Calls /\ born \in [Calls -> Nat]
    BY <2>1, TypeFacts, ConstantsAssumption DEF Calls, TypeOK
  <2>4. born[rpc[w].n] \in Nat
    BY <2>3
  <2> QED BY <2>2, <2>4
<1> QED BY <1>1, Invariance, PTL

\* set_nx creates a row only when every row of the key has expired: what it
\* does not have locked conflicts, and what it has locked it found expired.
THEOREM SetNxCorrect == Spec => SetNxExclusive
<1>1. IInv /\ [Next]_vars => [\A w \in Workers :
        At(w, "insert") /\ rpc'[w].step = "sweep" =>
            \A r \in RowsOfKey(w) : Expired(r, now)]_vars
  <2> SUFFICES ASSUME IInv, Next, NEW w \in Workers, rpc[w].step = "insert",
                      rpc'[w].step = "sweep", NEW r \in RowsOfKey(w)
               PROVE  Expired(r, now)
    BY DEF At
  <2>0. rpc \in [Workers -> Rpc] /\ rpc'[w] # rpc[w]
    BY TypeFacts
  <2>1. \A v \in Workers \ {w} : \A x : rpc' = [rpc EXCEPT ![v] = x] => rpc'[w] = rpc[w]
    BY <2>0
  <2>2. set_nx(w)
    <3>1. ~Tick /\ \A ns \in Namespaces : ~ensure_namespace(ns)
      BY <2>0 DEF Tick, ensure_namespace
    <3>6. \A v \in Workers, ns \in Namespaces : ~invalidate_namespace(v, ns)
      <4> SUFFICES ASSUME NEW v \in Workers, NEW ns \in Namespaces, invalidate_namespace(v, ns)
                   PROVE  FALSE
        OBVIOUS
      <4>1. v # w
        BY DEF invalidate_namespace, At
      <4> QED BY <2>0, <2>1, <4>1 DEF invalidate_namespace
    <3>2. \A v \in Workers, op \in Ops, ns \in Namespaces, k \in Keys, ttl \in Ttls :
              ~namespace_generation(v, op, ns, k, ttl)
      <4> SUFFICES ASSUME NEW v \in Workers, NEW op \in Ops, NEW ns \in Namespaces,
                          NEW k \in Keys, NEW ttl \in Ttls,
                          namespace_generation(v, op, ns, k, ttl)
                   PROVE  FALSE
        OBVIOUS
      <4>1. v # w
        BY DEF namespace_generation, Calling, At
      <4> QED BY <2>0, <2>1, <4>1 DEF namespace_generation, Calling
    <3>3. PICK v \in Workers : Abandon(v) \/ detect_deadlock(v) \/ Handler(v)
      BY <3>1, <3>2, <3>6 DEF Next
    <3>4. v = w
      <4> SUFFICES ASSUME v # w PROVE FALSE
        OBVIOUS
      <4> QED BY <2>0, <3>3 DEF Abandon, detect_deadlock, Handler, Transaction, enforce_capacity, Return,
                 Written, Goto, get, get_touch, delete, set, begin,
                 lock_key_for_atomic_write, delete_expired_key, set_nx,
                 select_key_for_update, update_value, insert_value, sweep_select,
                 sweep_delete, try_namespace_generation, usage, evict_select,
                 evict_delete, evict_bytes, invalidate_update, delete_row,
                 invalidate_delete
    <3>5. ~Abandon(w) /\ ~detect_deadlock(w)
      <4>1. Idle.step = "idle"
        BY DEF Idle
      <4> QED BY <2>0, <4>1 DEF Abandon, detect_deadlock, Return
    <3> QED BY <3>3, <3>4, <3>5 DEF Handler, Transaction, enforce_capacity, At, get,
               get_touch, delete, set, begin,
               lock_key_for_atomic_write, delete_expired_key,
               select_key_for_update, update_value, insert_value, sweep_select,
               sweep_delete, try_namespace_generation, usage, evict_select,
               evict_delete, evict_bytes, invalidate_update, delete_row,
               invalidate_delete, DeleteSteps
  <2>3. Remaining(w) = {}
    <3> SUFFICES ASSUME Remaining(w) # {} PROVE FALSE
      OBVIOUS
    <3>1. rpc' = [rpc EXCEPT ![w] = Idle] /\ Idle.step = "idle"
      BY <2>2 DEF set_nx, Return, Idle
    <3> QED BY <2>0, <3>1
  <2>4. r \in RowsById(rpc[w].locked)
    BY <2>3 DEF Remaining
  <2>5. Expired(r, rpc[w].t) /\ rpc[w].t <= now /\ rpc[w].t \in Nat /\ now \in Nat
    BY <2>4, TypeFacts DEF HandlerSound, At, LockSteps
  <2>6. r.expires_at \in Nat
    BY RowsOfKeyFacts, RowType
  <2> QED BY <2>5, <2>6 DEF Expired
<1> QED BY <1>1, Invariance, PTL DEF Spec, SetNxExclusive

-----------------------------------------------------------------------------
(* Who waits in a circle.                                                  *)

\* A transaction on a key has locked rows of that key only.
LocksOwnKey ==
    \A w \in Workers : rpc[w].step \notin DeleteSteps =>
        RowsById(rpc[w].locked) \subseteq RowsOfKey(w)

\* A call does not run while it waits, except that a DELETE of many rows may
\* come to another row first.
LEMMA WaitingIsWaiting ==
    ASSUME NEW w \in Workers, NEW v \in Workers, WaitsFor(w, v), Handler(w)
    PROVE  delete_row(w)
<1>1. CASE At(w, "lock") /\ HoldsKeyLock(v) /\ SameKey(v, w)
  BY <1>1 DEF At, Handler, Transaction, enforce_capacity, get, get_touch, delete, set, begin,
     lock_key_for_atomic_write, delete_expired_key, set_nx, select_key_for_update,
     update_value, insert_value, sweep_select, sweep_delete, try_namespace_generation,
     usage, evict_select, evict_delete, evict_bytes, invalidate_update, delete_row,
     invalidate_delete, DeleteSteps
<1>2. CASE At(w, "invalidate") /\ HoldsNamespace(v, rpc[w].namespace)
  BY <1>2 DEF At, Handler, Transaction, enforce_capacity, get, get_touch, delete, set, begin,
     lock_key_for_atomic_write, delete_expired_key, set_nx, select_key_for_update,
     update_value, insert_value, sweep_select, sweep_delete, try_namespace_generation,
     usage, evict_select, evict_delete, evict_bytes, invalidate_update, delete_row,
     invalidate_delete, DeleteSteps
<1>3. CASE v # w /\ rpc[v].locked \cap IdsOf(Wanted(w)) # {}
  <2>1. ~Free(w, Wanted(w)) /\ Wanted(w) # {}
    BY <1>3 DEF Free, IdsOf
  <2> QED BY <2>1 DEF Wanted, At, Handler, Transaction, enforce_capacity, get, get_touch,
      delete, set, begin, lock_key_for_atomic_write, delete_expired_key, set_nx,
      select_key_for_update, update_value, insert_value, sweep_select, sweep_delete,
      try_namespace_generation, usage, evict_select, evict_delete, evict_bytes,
      invalidate_update, delete_row, invalidate_delete, DeleteSteps
<1> QED BY <1>1, <1>2, <1>3 DEF WaitsFor

LEMMA WantedExist == ASSUME NEW w \in Workers PROVE Wanted(w) \subseteq cache_entries
  BY DEF Wanted, Left, RowsById, RowsOfKey, In, Remaining

\* A call on a key that has a row locked has all there is of the key, and waits
\* for nobody.
LEMMA HolderRuns ==
    ASSUME IInv, LocksOwnKey, NEW v \in Workers, rpc[v].step \notin DeleteSteps,
           NEW r \in cache_entries, r.id \in rpc[v].locked
    PROVE  \A x \in Workers : ~WaitsFor(v, x)
<1>1. At(v, "insert") \/ At(v, "select") \/ At(v, "write")
  BY DEF IInv, HandlerSound, LockSteps, At
<1>2. r \in RowsOfKey(v)
  BY DEF LocksOwnKey, RowsById
<1>3. ASSUME NEW q \in RowsOfKey(v) PROVE q = r
  <2>1. /\ q \in cache_entries /\ q.namespace = r.namespace /\ q.generation = r.generation
        /\ q.cache_key = r.cache_key
    BY <1>2, <1>3 DEF RowsOfKey, In
  <2> QED BY <2>1 DEF IInv, RowsUnique
<1>4. Remaining(v) = {}
  BY <1>3 DEF Remaining, RowsById
<1>5. Wanted(v) = {}
  BY <1>1, <1>4 DEF Wanted, At, DeleteSteps
<1> QED BY <1>1, <1>5 DEF WaitsFor, At, IdsOf

\* Who waits for a key or a namespace holds nothing and is waited for by nobody;
\* who holds a row of its key does not wait.
LEMMA NoCircles == ASSUME IInv, LocksOwnKey PROVE OnlyDeletesDeadlock
<1> SUFFICES ASSUME NEW C \in SUBSET Workers, Circle(C), NEW w \in C,
                    rpc[w].step \notin DeleteSteps
             PROVE  FALSE
  BY DEF OnlyDeletesDeadlock
<1>0. C \subseteq Workers /\ w \in Workers
  OBVIOUS
<1>1. PICK v \in C : WaitsFor(w, v)
  BY DEF Circle
<1>2. PICK u \in C : WaitsFor(u, w)
  BY DEF Circle
<1>3. PICK t \in C : WaitsFor(t, u)
  BY <1>2 DEF Circle
<1>4. CASE rpc[w].locked \cap IdsOf(Wanted(u)) # {}
  <2>1. PICK r \in Wanted(u) : r.id \in rpc[w].locked
    BY <1>4 DEF IdsOf
  <2>2. r \in cache_entries
    BY <1>0, <2>1, WantedExist
  <2> QED BY <1>0, <1>1, <2>1, <2>2, HolderRuns
<1>5. CASE At(u, "lock")
  <2>1. ~HoldsKeyLock(u) /\ ~At(u, "invalidate_delete")
    BY <1>5 DEF HoldsKeyLock, At
  <2>2. HandlerSound(u)
    BY <1>0 DEF IInv
  <2>3. rpc[u].locked = {}
    BY <1>5, <2>2 DEF HandlerSound, At, LockSteps, DeleteSteps
  <2> QED BY <1>3, <2>1, <2>3 DEF WaitsFor, HoldsNamespace
<1>6. CASE HoldsNamespace(w, rpc[u].namespace)
  BY <1>6 DEF HoldsNamespace, At, DeleteSteps
<1> QED BY <1>2, <1>4, <1>5, <1>6 DEF WaitsFor

\* Every row is the one its id named before, of the same key, or a new one.
LEMMA RowsTraced ==
    ASSUME IInv, Next, NEW q \in cache_entries'
    PROVE  \/ q.id = next_id
           \/ \E r \in cache_entries : r.id = q.id /\ SameKeyRows(q, r)
<1>1. CASE q \in cache_entries
  BY <1>1 DEF SameKeyRows
<1>2. CASE q \notin cache_entries
  <2>1. PICK w \in Workers : get_touch(w) \/ set(w) \/ set_nx(w) \/ update_value(w) \/ insert_value(w)
    BY <1>2 DEF Next, Handler, Transaction, enforce_capacity, Tick, ensure_namespace, Abandon,
       detect_deadlock, invalidate_namespace, invalidate_update, delete_row, invalidate_delete,
       get, delete, begin, lock_key_for_atomic_write, delete_expired_key, select_key_for_update,
       sweep_select, sweep_delete, try_namespace_generation, usage, evict_select, evict_delete,
       evict_bytes, namespace_generation, Calling, OnlyRpc
  <2>2. CASE get_touch(w)
    <3>1. PICK r \in RowsById({rpc[w].id}) : q = [r EXCEPT !.accessed = now]
      BY <1>2, <2>2 DEF get_touch
    <3>2. r \in cache_entries /\ r \in Row
      BY <3>1, TypeFacts DEF RowsById
    <3>3. q.id = r.id /\ SameKeyRows(q, r)
      BY <3>1, <3>2 DEF Row, SameKeyRows
    <3> QED BY <3>2, <3>3
  <2>3. CASE set(w)
    <3> DEFINE new == NewRow(w, now, {rpc[w].n})
    <3>1. CASE RowsOfKey(w) = {}
      <4>1. q = new
        BY <1>2, <2>3, <3>1 DEF set
      <4> QED BY <4>1 DEF NewRow
    <3>2. CASE RowsOfKey(w) # {}
      <4>1. PICK r \in RowsOfKey(w) : q = [new EXCEPT !.id = r.id, !.accessed = r.accessed]
        BY <1>2, <2>3, <3>2 DEF set
      <4>2. /\ r \in cache_entries /\ r.namespace = rpc[w].namespace
            /\ r.generation = rpc[w].generation /\ r.cache_key = rpc[w].cache_key
        BY <4>1 DEF RowsOfKey, In
      <4>3. q.id = r.id /\ SameKeyRows(q, r)
        BY <4>1, <4>2 DEF NewRow, SameKeyRows
      <4> QED BY <4>2, <4>3
    <3> QED BY <3>1, <3>2
  <2>4. CASE set_nx(w)
    <3>1. q = NewRow(w, rpc[w].t, {rpc[w].n})
      BY <1>2, <2>4 DEF set_nx
    <3> QED BY <3>1 DEF NewRow
  <2>5. CASE update_value(w)
    <3>1. PICK r \in cache_entries :
             \/ q = r
             \/ q = [r EXCEPT !.value = Stored(w),
                              !.expires_at = IF KeepsExpiry(w) THEN @
                                             ELSE ExpiresAt(rpc[w].t, rpc[w].ttl)]
      BY <2>5 DEF update_value
    <3>2. r \in Row
      BY TypeFacts
    <3>3. q.id = r.id /\ SameKeyRows(q, r)
      BY <3>1, <3>2 DEF Row, SameKeyRows
    <3> QED BY <3>3
  <2>6. CASE insert_value(w)
    <3>1. q = NewRow(w, rpc[w].t, Stored(w))
      BY <1>2, <2>6 DEF insert_value
    <3> QED BY <3>1 DEF NewRow
  <2> QED BY <2>1, <2>2, <2>3, <2>4, <2>5, <2>6
<1> QED BY <1>1, <1>2

\* A transaction locks in two statements; otherwise it keeps its locks and its
\* key, or has no locks.
LEMMA LocksTraced ==
    ASSUME IInv, Next, NEW w \in Workers, rpc'[w].step \notin DeleteSteps
    PROVE  \/ rpc'[w].locked = {}
           \/ /\ rpc[w].step \notin DeleteSteps
              /\ rpc'[w].locked = rpc[w].locked
              /\ rpc'[w].namespace = rpc[w].namespace
              /\ rpc'[w].generation = rpc[w].generation
              /\ rpc'[w].cache_key = rpc[w].cache_key
           \/ delete_expired_key(w)
           \/ select_key_for_update(w)
<1>0. rpc \in [Workers -> Rpc] /\ rpc[w] \in Rpc /\ Idle.locked = {} /\ HandlerSound(w)
  BY TypeFacts, IdleFacts
<1>1. CASE rpc'[w] = rpc[w]
  BY <1>1
<1>2. ASSUME NEW op \in Ops, NEW ns \in Namespaces, NEW k \in Keys, NEW ttl \in Ttls,
             namespace_generation(w, op, ns, k, ttl)
      PROVE  rpc'[w].locked = {}
  <2>1. rpc' = [rpc EXCEPT ![w] =
            [Idle EXCEPT !.step = FirstStep(op), !.op = op, !.namespace = ns,
                         !.cache_key = k, !.ttl = ttl, !.n = calls + 1,
                         !.generation = generation[ns]]]
    BY <1>2 DEF namespace_generation, Calling
  <2> QED BY <1>0, <2>1 DEF Idle
<1>3. ASSUME Return(w) \/ Written(w) PROVE rpc'[w].locked = {}
  <2>1. CASE Return(w)
    <3>1. rpc'[w] = Idle
      BY <1>0, <2>1 DEF Return
    <3> QED BY <1>0, <3>1
  <2>2. CASE Written(w)
    <3>1. rpc'[w] = [Idle EXCEPT !.step = "sweep", !.namespace = rpc[w].namespace]
      BY <1>0, <2>2 DEF Written
    <3> QED BY <1>0, <3>1, IdleType DEF Rpc
  <2> QED BY <1>3, <2>1, <2>2
<1>4. CASE try_namespace_generation(w)
  <2>1. rpc[w].locked = {}
    BY <1>0, <1>4 DEF try_namespace_generation, HandlerSound, At, LockSteps, DeleteSteps
  <2> QED BY <1>0, <1>4, <2>1 DEF try_namespace_generation, Rpc
<1>5. CASE get(w) \/ begin(w) \/ lock_key_for_atomic_write(w)
  <2>1. CASE get(w)
    <3>1. CASE Return(w)
      BY <1>3, <3>1
    <3>2. ASSUME NEW r, rpc' = [rpc EXCEPT ![w].step = "touch", ![w].id = r.id, ![w].value = r.value]
          PROVE  /\ rpc'[w].locked = rpc[w].locked
                 /\ rpc'[w].namespace = rpc[w].namespace
                 /\ rpc'[w].generation = rpc[w].generation
                 /\ rpc'[w].cache_key = rpc[w].cache_key
      BY <1>0, <3>2 DEF Rpc
    <3> QED BY <2>1, <3>1, <3>2 DEF get, At, DeleteSteps
  <2>2. CASE begin(w)
    BY <1>0, <2>2 DEF begin, Rpc, At, DeleteSteps
  <2>3. CASE lock_key_for_atomic_write(w)
    BY <1>0, <2>3 DEF lock_key_for_atomic_write, Goto, Rpc, At, DeleteSteps
  <2> QED BY <1>5, <2>1, <2>2, <2>3
<1>6. CASE sweep_select(w) \/ sweep_delete(w) \/ usage(w)
  <2>1. CASE sweep_select(w)
    BY <1>0, <2>1 DEF sweep_select, Rpc, At, DeleteSteps
  <2>2. CASE sweep_delete(w)
    BY <1>0, <1>3, <2>2 DEF sweep_delete, Rpc
  <2>3. CASE usage(w)
    BY <1>0, <2>3 DEF usage, Rpc, At, DeleteSteps
  <2> QED BY <1>6, <2>1, <2>2, <2>3
<1>7. CASE evict_select(w) \/ evict_delete(w) \/ evict_bytes(w)
  <2>1. CASE evict_select(w)
    BY <1>0, <1>3, <2>1 DEF evict_select, Rpc, At, DeleteSteps
  <2>2. CASE evict_delete(w)
    BY <1>0, <1>3, <2>2 DEF evict_delete, Rpc, At, DeleteSteps
  <2>3. CASE evict_bytes(w)
    BY <1>0, <2>3 DEF evict_bytes, Rpc, At, DeleteSteps
  <2> QED BY <1>7, <2>1, <2>2, <2>3
<1>8. CASE get_touch(w) \/ delete(w) \/ set(w) \/ set_nx(w) \/ update_value(w) \/ insert_value(w)
           \/ Abandon(w) \/ detect_deadlock(w) \/ invalidate_delete(w)
  BY <1>3, <1>8 DEF get_touch, delete, set, set_nx, update_value, insert_value, Abandon,
     detect_deadlock, invalidate_delete
<1>12. CASE invalidate_update(w) \/ delete_row(w)
  <2>1. CASE invalidate_update(w)
    BY <1>0, <2>1 DEF invalidate_update, Goto, Rpc, DeleteSteps
  <2>2. CASE delete_row(w)
    <3>1. PICK i : rpc' = [rpc EXCEPT ![w].locked = @ \cup {i}]
      BY <2>2 DEF delete_row
    <3> QED BY <1>0, <2>2, <3>1 DEF delete_row, Rpc
  <2> QED BY <1>12, <2>1, <2>2
<1>13. ASSUME NEW ns \in Namespaces, invalidate_namespace(w, ns) PROVE rpc'[w].locked = {}
  <2>1. PICK P : rpc'[w] = [Idle EXCEPT !.step = "invalidate", !.op = "invalidate",
                                       !.namespace = ns, !.picked = P]
    BY <1>0, <1>13 DEF invalidate_namespace
  <2> QED BY <2>1 DEF Idle
<1>14. ASSUME NEW v \in Workers, v # w, NEW ns \in Namespaces, invalidate_namespace(v, ns)
       PROVE  rpc'[w] = rpc[w]
  BY <1>0, <1>14 DEF invalidate_namespace
<1>9. ASSUME NEW v \in Workers, v # w, Abandon(v) \/ detect_deadlock(v) \/ Handler(v)
      PROVE  rpc'[w] = rpc[w]
  BY <1>0, <1>9 DEF Abandon, detect_deadlock, invalidate_update, delete_row,
     invalidate_delete, Handler, Transaction, enforce_capacity, Return,
     Written, Goto, get, get_touch, delete, set, begin,
     lock_key_for_atomic_write, delete_expired_key, set_nx,
     select_key_for_update, update_value, insert_value, sweep_select,
     sweep_delete, try_namespace_generation, usage, evict_select,
     evict_delete, evict_bytes
<1>10. ASSUME NEW v \in Workers, v # w, NEW op \in Ops, NEW ns \in Namespaces, NEW k \in Keys,
              NEW ttl \in Ttls, namespace_generation(v, op, ns, k, ttl)
       PROVE  rpc'[w] = rpc[w]
  BY <1>0, <1>10 DEF namespace_generation, Calling
<1>11. CASE Tick \/ \E ns \in Namespaces : ensure_namespace(ns)
  BY <1>11 DEF Tick, ensure_namespace
<1> QED BY <1>1, <1>2, <1>4, <1>5, <1>6, <1>7, <1>8, <1>9, <1>10, <1>11, <1>12, <1>13, <1>14
        DEF Next, Handler, Transaction, enforce_capacity

LEMMA OwnKeyNext == ASSUME IInv, LocksOwnKey, [Next]_vars PROVE LocksOwnKey'
<1>1. CASE UNCHANGED vars
  BY <1>1 DEF vars, LocksOwnKey, RowsById, RowsOfKey, In
<1>2. ASSUME Next, NEW w \in Workers, rpc'[w].step \notin DeleteSteps,
             NEW q \in cache_entries', q.id \in rpc'[w].locked
      PROVE  q \in RowsOfKey(w)'
  <2>0. rpc \in [Workers -> Rpc] /\ rpc[w] \in Rpc /\ next_id \in Nat
    BY TypeFacts DEF Ids
  <2>1. CASE /\ rpc[w].step \notin DeleteSteps
             /\ rpc'[w].locked = rpc[w].locked
             /\ rpc'[w].namespace = rpc[w].namespace
             /\ rpc'[w].generation = rpc[w].generation
             /\ rpc'[w].cache_key = rpc[w].cache_key
    <3>1. q.id < next_id
      BY <1>2, <2>1, TypeFacts DEF HandlerSound
    <3>2. q.id # next_id
      BY <2>0, <3>1
    <3>3. PICK r \in cache_entries : r.id = q.id /\ SameKeyRows(q, r)
      BY <1>2, <3>2, RowsTraced
    <3>4. r \in RowsOfKey(w)
      BY <1>2, <2>1, <3>3 DEF LocksOwnKey, RowsById
    <3> QED BY <1>2, <2>1, <3>3, <3>4 DEF RowsOfKey, In, SameKeyRows
  <2>2. CASE delete_expired_key(w)
    <3>1. PICK L : /\ L = IdsOf({r \in RowsOfKey(w) : Expired(r, rpc[w].t)})
                   /\ rpc' = [rpc EXCEPT ![w].locked = L,
                        ![w].step = IF rpc[w].op = "set_nx" THEN "insert" ELSE "select"]
                   /\ cache_entries' = cache_entries
      BY <2>2 DEF delete_expired_key, OnlyRpc
    <3>2. /\ rpc'[w].locked = L
          /\ rpc'[w].namespace = rpc[w].namespace
          /\ rpc'[w].generation = rpc[w].generation
          /\ rpc'[w].cache_key = rpc[w].cache_key
      BY <2>0, <3>1 DEF Rpc
    <3>3. PICK r \in RowsOfKey(w) : r.id = q.id
      BY <1>2, <3>1, <3>2 DEF IdsOf
    <3>4. r = q
      BY <1>2, <3>1, <3>3 DEF IInv, RowsUnique, RowsOfKey, In
    <3> QED BY <3>1, <3>2, <3>3, <3>4 DEF RowsOfKey, In
  <2>3. CASE select_key_for_update(w)
    <3>1. /\ cache_entries' = cache_entries
          /\ \/ Goto(w, "write")
             \/ \E r \in RowsOfKey(w) :
                   rpc' = [rpc EXCEPT ![w].step = "write", ![w].id = r.id,
                                      ![w].value = r.value, ![w].locked = @ \cup {r.id}]
      BY <2>3 DEF select_key_for_update, OnlyRpc, Remaining
    <3>2. /\ rpc'[w].namespace = rpc[w].namespace
          /\ rpc'[w].generation = rpc[w].generation
          /\ rpc'[w].cache_key = rpc[w].cache_key
          /\ \/ rpc'[w].locked = rpc[w].locked
             \/ \E r \in RowsOfKey(w) : rpc'[w].locked = rpc[w].locked \cup {r.id}
      <4>1. CASE Goto(w, "write")
        BY <2>0, <4>1 DEF Goto, Rpc
      <4>2. ASSUME NEW r \in RowsOfKey(w),
                   rpc' = [rpc EXCEPT ![w].step = "write", ![w].id = r.id,
                                      ![w].value = r.value, ![w].locked = @ \cup {r.id}]
            PROVE  /\ rpc'[w].namespace = rpc[w].namespace
                   /\ rpc'[w].generation = rpc[w].generation
                   /\ rpc'[w].cache_key = rpc[w].cache_key
                   /\ rpc'[w].locked = rpc[w].locked \cup {r.id}
        BY <2>0, <4>2 DEF Rpc
      <4> QED BY <3>1, <4>1, <4>2
    <3>3. CASE q.id \in rpc[w].locked
      <4>1. q \in RowsOfKey(w)
        BY <1>2, <2>3, <3>1, <3>3
           DEF LocksOwnKey, RowsById, select_key_for_update, At, DeleteSteps
      <4> QED BY <3>1, <3>2, <4>1 DEF RowsOfKey, In
    <3>4. CASE q.id \notin rpc[w].locked
      <4>1. PICK r \in RowsOfKey(w) : r.id = q.id
        BY <1>2, <3>2, <3>4
      <4>2. r = q
        BY <1>2, <3>1, <4>1 DEF IInv, RowsUnique, RowsOfKey, In
      <4> QED BY <3>1, <3>2, <4>1, <4>2 DEF RowsOfKey, In
    <3> QED BY <3>3, <3>4
  <2> QED BY <1>2, <2>1, <2>2, <2>3, LocksTraced
<1>3. CASE Next
  BY <1>2, <1>3 DEF LocksOwnKey, RowsById
<1> QED BY <1>1, <1>3

\* For any number of calls on any keys, only sweeps and invalidations can wait
\* for each other in a circle: a call on a key that waits for a row has none
\* locked, and one that waits for pg_advisory_xact_lock, or for the row of the
\* namespace, keeps nobody waiting.  Any order in which a DELETE of many rows
\* comes to them is allowed.
THEOREM KeyCallsNeverDeadlock == Spec => []OnlyDeletesDeadlock
<1>1. Init => LocksOwnKey
  <2> SUFFICES ASSUME Init, NEW w \in Workers PROVE RowsById(rpc[w].locked) = {}
    BY DEF LocksOwnKey
  <2> QED BY DEF Init, RowsById
<1>2. IInv /\ LocksOwnKey /\ [Next]_vars => LocksOwnKey'
  BY OwnKeyNext
<1>3. IInv /\ LocksOwnKey => OnlyDeletesDeadlock
  BY NoCircles
<1> QED BY <1>1, <1>2, <1>3, Invariance, PTL DEF Spec
=============================================================================
