------------------------- MODULE ConfigStoreProofs -------------------------
(***************************************************************************)
(* Proofs about ConfigStore, for any number of admins, watchers, scopes,   *)
(* keys, values and publications.                                          *)
(***************************************************************************)
EXTENDS ConfigStore, TLAPS

USE ConstantsAssumption

LEMMA IdleType == Idle \in Rpc /\ Empty \in Draft
  BY DEF Idle, Rpc, Empty, Draft, WriteSteps, Op

LEMMA EndTxType == ASSUME TypeOK, NEW a \in Admins, EndTx(a)
                   PROVE  /\ lock' \in [Scopes -> Admins \cup {None}]
                          /\ rpc' \in [Admins -> Rpc]
  BY IdleType DEF EndTx, TypeOK

-----------------------------------------------------------------------------
(* The admins' steps preserve the invariant.                               *)

\* a's transaction ends and scope s, if it had it, may change: no other
\* admin had read anything of s.
LEMMA EndTxHolds ==
    ASSUME IInv, NEW a \in Admins, EndTx(a), NEW s \in Scopes, lock[s] = a,
           \A z \in Scopes : z # s =>
               /\ current_revision'[z] = current_revision[z]
               /\ config_items'[z] = config_items[z]
               /\ json_schema'[z] = json_schema[z]
    PROVE  \A b \in Admins : HoldsScope(b)'
<1> SUFFICES ASSUME NEW b \in Admins PROVE HoldsScope(b)'
  OBVIOUS
<1>1. CASE b = a
  <2>1. rpc'[b] = Idle
    BY <1>1 DEF EndTx, IInv, TypeOK
  <2> QED BY <2>1 DEF HoldsScope, At, Idle
<1>2. CASE b # a
  <2>1. rpc'[b] = rpc[b] /\ HoldsScope(b)
    BY <1>2 DEF EndTx, IInv, TypeOK
  <2>2. CASE rpc[b].step \in {"idle", "ensure_scope"}
    BY <2>1, <2>2 DEF HoldsScope, At
  <2>3. CASE rpc[b].step \notin {"idle", "ensure_scope"}
    <3>1. /\ rpc[b].scope \in Scopes /\ rpc[b].scope # s
          /\ lock'[rpc[b].scope] = b
      BY <1>2, <2>1, <2>3 DEF HoldsScope, At, EndTx, IInv, TypeOK
    <3> QED BY <2>1, <2>3, <3>1 DEF HoldsScope, At, Conforms
  <2> QED BY <2>2, <2>3
<1> QED BY <1>1, <1>2

\* An admin's statement that only reads, or waits for nobody's scope.
LEMMA ReadStepHolds ==
    ASSUME IInv, NEW a \in Admins, UNCHANGED tables,
           \A b \in Admins : b # a => rpc'[b] = rpc[b],
           \A s \in Scopes : lock[s] \in Admins \ {a} => lock'[s] = lock[s],
           HoldsScope(a)'
    PROVE  \A b \in Admins : HoldsScope(b)'
<1> SUFFICES ASSUME NEW b \in Admins, b # a PROVE HoldsScope(b)'
  OBVIOUS
<1>1. rpc'[b] = rpc[b] /\ HoldsScope(b)
  BY DEF IInv
<1> QED BY <1>1 DEF HoldsScope, At, Conforms, tables

LEMMA WriteInv == ASSUME IInv, NEW a \in Admins, Write(a) \/ Rollback(a) PROVE IInv'
<1> USE DEF IInv
<1> DEFINE s == rpc[a].scope
<1>0. rpc[a] \in Rpc /\ HoldsScope(a)
  BY DEF TypeOK
<1>1. CASE ensure_scope(a)
  <2>1. s \in Scopes /\ lock[s] = None /\ FirstStep(rpc[a].op) \in {"validate", "revision", "write"}
    BY <1>0, <1>1 DEF ensure_scope, HoldsScope, At, ScopeFree, FirstStep
  <2>2. /\ rpc'[a] = [rpc[a] EXCEPT !.step = FirstStep(rpc[a].op)]
        /\ rpc' \in [Admins -> Rpc]
        /\ \A b \in Admins : b # a => rpc'[b] = rpc[b]
    BY <1>0, <1>1, <2>1 DEF ensure_scope, Goto, TypeOK, Rpc, WriteSteps
  <2>3. lock' \in [Scopes -> Admins \cup {None}] /\ lock'[s] = a
        /\ \A z \in Scopes : lock[z] \in Admins \ {a} => lock'[z] = lock[z]
    BY <1>1, <2>1 DEF ensure_scope, TypeOK
  <2>4. TypeOK' /\ ReleasesContiguous'
    BY <1>1, <2>2, <2>3 DEF ensure_scope, tables, clients, TypeOK, ReleasesContiguous
  <2>5. HoldsScope(a)'
    BY <1>0, <2>1, <2>2, <2>3 DEF HoldsScope, At, Rpc
  <2> QED BY <1>1, <2>2, <2>3, <2>4, <2>5, ReadStepHolds DEF ensure_scope
<1>2. CASE validate_item(a) \/ publish_revision(a) \/ publish_rows(a) \/ publish_schema(a)
  <2>1. UNCHANGED <<tables, lock, clients, edits>>
    BY <1>2 DEF validate_item, publish_revision, publish_rows, publish_schema
  <2>2. s \in Scopes /\ lock[s] = a
    BY <1>0, <1>2 DEF validate_item, publish_revision, publish_rows,
                      publish_schema, At, HoldsScope
  <2>3. /\ rpc' \in [Admins -> Rpc]
        /\ \A b \in Admins : b # a => rpc'[b] = rpc[b]
        /\ HoldsScope(a)'
    <3>1. CASE validate_item(a)
      BY <1>0, <2>1, <2>2, <3>1 DEF validate_item, Goto, At, TypeOK, Rpc, WriteSteps, HoldsScope
    <3>2. CASE publish_revision(a)
      <4>1. current_revision[s] \in 0..MaxRevision
        BY <2>2 DEF TypeOK
      <4>2. rpc'[a] = [rpc[a] EXCEPT !.step = "rows", !.rev = current_revision[s]]
        BY <1>0, <3>2 DEF publish_revision, TypeOK, Rpc
      <4>3. rpc' \in [Admins -> Rpc] /\ \A b \in Admins : b # a => rpc'[b] = rpc[b]
        <5>1. [rpc[a] EXCEPT !.step = "rows", !.rev = current_revision[s]] \in Rpc
          BY <1>0, <4>1 DEF Rpc, WriteSteps
        <5> QED BY <3>2, <4>2, <5>1 DEF publish_revision, TypeOK
      <4> QED BY <1>0, <2>1, <2>2, <4>2, <4>3 DEF At, Rpc, HoldsScope, tables
    <3>3. CASE publish_rows(a)
      <4>1. config_items[s] \in Draft
        BY <2>2 DEF TypeOK
      <4>2. rpc'[a] = [rpc[a] EXCEPT !.step = "schema", !.rows = config_items[s]]
        BY <1>0, <3>3 DEF publish_rows, TypeOK, Rpc
      <4>3. rpc' \in [Admins -> Rpc] /\ \A b \in Admins : b # a => rpc'[b] = rpc[b]
        <5>1. [rpc[a] EXCEPT !.step = "schema", !.rows = config_items[s]] \in Rpc
          BY <1>0, <4>1 DEF Rpc, WriteSteps
        <5> QED BY <3>3, <4>2, <5>1 DEF publish_rows, TypeOK
      <4>4. rpc[a].step = "rows"
        BY <3>3 DEF publish_rows, At
      <4> QED BY <1>0, <2>1, <2>2, <4>2, <4>3, <4>4 DEF At, Rpc, HoldsScope, tables
    <3>4. CASE publish_schema(a)
      <4>1. rpc'[a] = [rpc[a] EXCEPT !.step = "publish"]
        BY <1>0, <3>4 DEF publish_schema, Goto, TypeOK, Rpc
      <4>2. rpc' \in [Admins -> Rpc] /\ \A b \in Admins : b # a => rpc'[b] = rpc[b]
        BY <3>4 DEF publish_schema, Goto, TypeOK, Rpc, WriteSteps
      <4>3. rpc[a].step = "schema" /\ Conforms(rpc[a].rows, json_schema[s])
        BY <3>4 DEF publish_schema, At
      <4> QED BY <1>0, <2>1, <2>2, <4>1, <4>2, <4>3 DEF At, Rpc, HoldsScope, Conforms, tables
    <3> QED BY <1>2, <3>1, <3>2, <3>3, <3>4
  <2>4. TypeOK' /\ ReleasesContiguous'
    BY <2>1, <2>3 DEF tables, clients, TypeOK, ReleasesContiguous
  <2> QED BY <2>1, <2>3, <2>4, ReadStepHolds
<1>3. CASE Rollback(a)
  <2>1. EndTx(a) /\ UNCHANGED <<tables, clients, edits>>
    BY <1>3 DEF Rollback
  <2>2. TypeOK' /\ ReleasesContiguous'
    BY <2>1, EndTxType DEF tables, clients, TypeOK, ReleasesContiguous
  <2>3. /\ rpc'[a] = Idle
        /\ \A b \in Admins : b # a => rpc'[b] = rpc[b]
        /\ \A z \in Scopes : lock[z] \in Admins \ {a} => lock'[z] = lock[z]
    BY <2>1 DEF EndTx, TypeOK
  <2>4. HoldsScope(a)'
    BY <2>3 DEF HoldsScope, At, Idle
  <2> QED BY <2>1, <2>2, <2>3, <2>4, ReadStepHolds
<1>4. CASE upsert_item(a) \/ delete_item(a) \/ set_schema(a)
  <2>1. s \in Scopes /\ lock[s] = a
    BY <1>0, <1>4 DEF upsert_item, delete_item, set_schema, Edit, At, HoldsScope
  <2>2. /\ EndTx(a) /\ edits' \in 0..MaxEdits
        /\ UNCHANGED <<current_revision, config_releases, clients>>
    BY <1>4 DEF upsert_item, delete_item, set_schema, PutItem, Edit, TypeOK
  <2>3. /\ config_items' \in [Scopes -> Draft]
        /\ json_schema' \in [Scopes -> SUBSET Values]
        /\ \A z \in Scopes : z # s => /\ config_items'[z] = config_items[z]
                                      /\ json_schema'[z] = json_schema[z]
    <3>1. CASE set_schema(a)
      BY <1>0, <3>1 DEF set_schema, TypeOK, Rpc
    <3>2. ASSUME NEW v \in Values \cup {None}, PutItem(a, v)
          PROVE  /\ config_items' \in [Scopes -> Draft]
                 /\ \A z \in Scopes : z # s => config_items'[z] = config_items[z]
                 /\ json_schema' = json_schema
      BY <2>1, <3>2 DEF PutItem, TypeOK, Draft
    <3>3. CASE upsert_item(a) \/ delete_item(a)
      BY <1>0, <3>2, <3>3 DEF upsert_item, delete_item, TypeOK, Rpc
    <3> QED BY <1>4, <3>1, <3>3
  <2>4. TypeOK' /\ ReleasesContiguous'
    BY <2>2, <2>3, EndTxType DEF clients, TypeOK, ReleasesContiguous
  <2> QED BY <2>1, <2>2, <2>3, <2>4, EndTxHolds
<1>5. CASE publish(a)
  <2> DEFINE revision == rpc[a].rev + 1
             release == [revision |-> revision, snapshot |-> rpc[a].rows]
  <2>1. s \in Scopes /\ lock[s] = a /\ rpc[a].rev = current_revision[s]
    BY <1>0, <1>5 DEF publish, At, HoldsScope
  <2>2. /\ EndTx(a) /\ UNCHANGED <<json_schema, config_items, clients, edits>>
        /\ revision <= MaxRevision
        /\ \A r \in config_releases[s] : r.revision # revision
        /\ config_releases' = [config_releases EXCEPT ![s] = @ \cup {release}]
        /\ current_revision' = [current_revision EXCEPT ![s] = revision]
    BY <1>5 DEF publish
  <2>3. revision \in 1..MaxRevision /\ release \in Release
    BY <1>0, <2>2 DEF Rpc, Release
  <2>4. TypeOK'
    BY <2>1, <2>2, <2>3, EndTxType DEF clients, TypeOK
  <2>5. ASSUME NEW z \in Scopes
        PROVE  /\ {r.revision : r \in config_releases'[z]} = 1..current_revision'[z]
               /\ \A r, q \in config_releases'[z] : r.revision = q.revision => r = q
    <3>1. CASE z # s
      BY <2>2, <3>1 DEF ReleasesContiguous, TypeOK
    <3>2. CASE z = s
      <4>1. /\ config_releases'[z] = config_releases[s] \cup {release}
            /\ current_revision'[z] = current_revision[s] + 1
            /\ current_revision[s] \in Nat
        BY <2>1, <2>2, <3>2 DEF TypeOK
      <4>2. {r.revision : r \in config_releases'[z]} =
                {r.revision : r \in config_releases[s]} \cup {revision}
        <5>1. release.revision = revision
          OBVIOUS
        <5> HIDE DEF release, revision
        <5> QED BY <4>1, <5>1
      <4>3. {r.revision : r \in config_releases[s]} = 1..current_revision[s]
        BY <2>1 DEF ReleasesContiguous
      <4>4. {r.revision : r \in config_releases'[z]} = 1..current_revision'[z]
        <5>1. \A n \in Nat : 1..(n + 1) = (1..n) \cup {n + 1}
          OBVIOUS
        <5> QED BY <2>1, <4>1, <4>2, <4>3, <5>1
      <4>5. \A r, q \in config_releases'[z] : r.revision = q.revision => r = q
        BY <2>1, <2>2, <4>1 DEF ReleasesContiguous
      <4> QED BY <4>4, <4>5
    <3> QED BY <3>1, <3>2
  <2>6. ReleasesContiguous'
    BY <2>5 DEF ReleasesContiguous
  <2>7. \A z \in Scopes : z # s => current_revision'[z] = current_revision[z]
    BY <2>2 DEF TypeOK
  <2> QED BY <2>1, <2>2, <2>4, <2>6, <2>7, EndTxHolds
<1> QED BY <1>1, <1>2, <1>3, <1>4, <1>5 DEF Write

LEMMA BeginInv == ASSUME IInv, NEW a \in Admins, NEW s \in Scopes, Request(a, s)
                  PROVE  IInv'
<1> USE DEF IInv
<1>0. PICK op \in Op, k \in Keys \cup {None}, v \in Values \cup {None},
           schema \in SUBSET Values : Begin(a, op, s, k, v, schema)
  BY DEF Request, Op
<1>1. /\ UNCHANGED <<tables, lock, clients, edits>>
      /\ rpc'[a].step = "ensure_scope" /\ rpc'[a].scope = s
      /\ rpc' \in [Admins -> Rpc]
      /\ \A b \in Admins : b # a => rpc'[b] = rpc[b]
  <2>1. [step |-> "ensure_scope", op |-> op, scope |-> s, key |-> k, value |-> v,
         schema |-> schema, rev |-> 0, rows |-> Empty] \in Rpc
    BY IdleType DEF Rpc, WriteSteps
  <2> QED BY <1>0, <2>1 DEF Begin, TypeOK
<1>2. TypeOK' /\ ReleasesContiguous'
  BY <1>1 DEF tables, clients, TypeOK, ReleasesContiguous
<1>3. HoldsScope(a)'
  BY <1>1 DEF HoldsScope, At
<1> QED BY <1>1, <1>2, <1>3, ReadStepHolds

LEMMA WatchInv == ASSUME IInv, NEW c \in Watchers, Poll(c) \/ deadline(c) \/ watch_abandon(c)
                  PROVE  IInv'
<1> USE DEF IInv
<1>1. UNCHANGED <<tables, lock, rpc, edits>>
  BY DEF Poll, watch_begin, latest_newer_than, watch_current, watch_wake, deadline, watch_abandon
<1>2. /\ watch' \in [Watchers -> Watch]
      /\ known' \in [Watchers -> 0..MaxRevision]
      /\ answer' \in [Watchers -> Answer]
  <2>0. /\ watch \in [Watchers -> Watch]
        /\ [watch[c] EXCEPT !.step = "newer", !.deadline = "ahead"] \in Watch
        /\ [watch[c] EXCEPT !.deadline = "passed"] \in Watch
        /\ \A step \in WatchSteps : [watch[c] EXCEPT !.step = step] \in Watch
    <3>1. watch \in [Watchers -> Watch] /\ watch[c] \in Watch
      BY DEF TypeOK
    <3> QED BY <3>1 DEF Watch, WatchSteps
  <2> USE DEF WatchSteps
  <2>1. CASE watch_begin(c) \/ watch_wake(c) \/ deadline(c) \/ watch_abandon(c)
    <3>1. watch' \in [Watchers -> Watch]
      <4>1. CASE watch_begin(c)
        BY <2>0, <4>1 DEF watch_begin
      <4>2. CASE watch_wake(c) \/ watch_abandon(c)
        BY <2>0, <4>2 DEF watch_wake, watch_abandon
      <4>3. CASE deadline(c)
        BY <2>0, <4>3 DEF deadline
      <4> QED BY <2>1, <4>1, <4>2, <4>3
    <3> QED BY <2>1, <3>1 DEF watch_begin, watch_wake, deadline, watch_abandon, TypeOK
  <2>2. ASSUME NEW changed \in BOOLEAN, NEW latest \in 0..MaxRevision, Reply(c, changed, latest)
        PROVE  watch' \in [Watchers -> Watch] /\ answer' \in [Watchers -> Answer]
    <3>1. watch' \in [Watchers -> Watch]
      BY <2>0, <2>2 DEF Reply
    <3>2. [changed |-> changed, latest_revision |-> latest, known |-> known[c]] \in Answer
      BY DEF Answer, TypeOK
    <3> QED BY <2>2, <3>1, <3>2 DEF Reply, TypeOK
  <2>3. CASE latest_newer_than(c)
    <3>1. CASE Newer(watch[c].scope, known[c]) = {}
      <4>1. watch' \in [Watchers -> Watch]
        BY <2>0, <2>3, <3>1 DEF latest_newer_than
      <4> QED BY <2>3, <3>1, <4>1 DEF latest_newer_than, TypeOK
    <3>2. CASE Newer(watch[c].scope, known[c]) # {}
      <4>1. PICK r \in Newer(watch[c].scope, known[c]) :
                Reply(c, TRUE, r.revision) /\ known' = [known EXCEPT ![c] = r.revision]
        BY <2>3, <3>2 DEF latest_newer_than
      <4>2. r.revision \in 0..MaxRevision
        BY DEF Newer, TypeOK, Watch, Release
      <4> QED BY <2>2, <4>1, <4>2 DEF TypeOK
    <3> QED BY <3>1, <3>2
  <2>4. CASE watch_current(c)
    <3>1. current_revision[watch[c].scope] \in 0..MaxRevision
      BY DEF TypeOK, Watch
    <3>2. CASE Expired(c)
      BY <2>2, <2>4, <3>1, <3>2 DEF watch_current, TypeOK
    <3>3. CASE ~Expired(c)
      <4>1. watch' \in [Watchers -> Watch]
        BY <2>0, <2>4, <3>3 DEF watch_current
      <4> QED BY <2>4, <3>3, <4>1 DEF watch_current, TypeOK
    <3> QED BY <3>2, <3>3
  <2> QED BY <2>1, <2>3, <2>4 DEF Poll
<1>3. TypeOK' /\ ReleasesContiguous'
  BY <1>1, <1>2 DEF tables, TypeOK, ReleasesContiguous
<1>4. \A a \in Admins : HoldsScope(a)'
  BY <1>1 DEF HoldsScope, At, Conforms, tables
<1> QED BY <1>3, <1>4

-----------------------------------------------------------------------------
LEMMA IInvInit == Init => IInv
<1> SUFFICES ASSUME Init PROVE IInv
  OBVIOUS
<1>1. TypeOK
  BY IdleType DEF Init, TypeOK, Watch, WatchSteps, Answer, NoAnswer
<1>2. ReleasesContiguous
  BY DEF Init, ReleasesContiguous
<1>3. \A a \in Admins : HoldsScope(a)
  BY DEF Init, HoldsScope, At, Idle
<1> QED BY <1>1, <1>2, <1>3 DEF IInv

LEMMA IInvNext == IInv /\ [Next]_vars => IInv'
<1> SUFFICES ASSUME IInv, [Next]_vars PROVE IInv'
  OBVIOUS
<1>1. CASE UNCHANGED vars
  BY <1>1 DEF vars, tables, clients, IInv, TypeOK, ReleasesContiguous,
              HoldsScope, At, Conforms
<1>2. CASE Next
  BY <1>2, WriteInv, BeginInv, WatchInv DEF Next
<1> QED BY <1>1, <1>2

\* From ensure_scope to commit a transaction owns its scope.
THEOREM Invariance == Spec => []IInv
  BY IInvInit, IInvNext, PTL DEF Spec

\* Every scope's releases are numbered 1..current_revision without gap or
\* repetition, under any interleaving and any number of failed publications.
THEOREM RevisionsCorrect == Spec => []ReleasesContiguous
<1>1. IInv => ReleasesContiguous
  BY DEF IInv
<1> QED BY <1>1, Invariance, PTL

\* A committed release is the draft of that moment and conforms to the schema
\* of that moment.
THEOREM PublishCorrect == Spec => PublishesTheDraft
<1> DEFINE Faithful == \A s \in Scopes : \A r \in config_releases'[s] \ config_releases[s] :
                r.snapshot = config_items[s] /\ Conforms(r.snapshot, json_schema[s])
<1>1. IInv /\ [Next]_vars => [Faithful]_vars
  <2> SUFFICES ASSUME IInv, Next, NEW s \in Scopes,
                      NEW r \in config_releases'[s] \ config_releases[s]
               PROVE  r.snapshot = config_items[s] /\ Conforms(r.snapshot, json_schema[s])
    OBVIOUS
  <2>1. PICK a \in Admins : publish(a)
    BY DEF Next, Write, Poll, Rollback, Request, Begin, ensure_scope, validate_item,
       upsert_item, delete_item, PutItem, set_schema, publish_revision,
       publish_rows, publish_schema, watch_begin, latest_newer_than,
       watch_current, watch_wake, deadline, watch_abandon, tables
  <2>2. HoldsScope(a) /\ At(a, "publish") /\ rpc[a].scope \in Scopes
    BY <2>1 DEF IInv, publish, HoldsScope, At
  <2>3. rpc[a].scope = s /\ r.snapshot = rpc[a].rows
    BY <2>1, <2>2 DEF publish, IInv, TypeOK
  <2> QED BY <2>2, <2>3 DEF HoldsScope, At
<1> QED BY <1>1, Invariance, PTL DEF Spec, PublishesTheDraft
\* What a step may do to the revision a watcher has: move it on, to the latest
\* release of its scope at that moment.
MovesOn(c) ==
    known'[c] # known[c] =>
        known[c] < known'[c] /\ known'[c] = current_revision[watch[c].scope]

\* A client that watches never goes back to an older release, and whenever it
\* moves it gets the latest one, not one in between: ORDER BY revision DESC of
\* latest_newer_than is current_revision because revisions have no gap,
\* whatever is being published between the two statements of a poll.
THEOREM WatchersMoveOn == Spec => [][\A c \in Watchers : MovesOn(c)]_vars
<1>1. IInv /\ [Next]_vars => [\A c \in Watchers : MovesOn(c)]_vars
  <2> SUFFICES ASSUME IInv, Next, NEW c \in Watchers, known'[c] # known[c]
               PROVE  known[c] < known'[c] /\ known'[c] = current_revision[watch[c].scope]
    BY DEF MovesOn
  <2>1. latest_newer_than(c)
    BY DEF IInv, TypeOK, Next, Write, Poll, Rollback, Request, Begin, EndTx, ensure_scope,
       validate_item, upsert_item, delete_item, PutItem, set_schema, publish_revision,
       publish_rows, publish_schema, publish, watch_begin, latest_newer_than,
       watch_current, watch_wake, deadline, watch_abandon, clients
  <2>2. PICK s \in Scopes : s = watch[c].scope
    BY DEF IInv, TypeOK, Watch
  <2>3. PICK r \in Newer(s, known[c]) :
            /\ \A other \in Newer(s, known[c]) : other.revision <= r.revision
            /\ known' = [known EXCEPT ![c] = r.revision]
    BY <2>1, <2>2 DEF latest_newer_than
  <2>4. known'[c] = r.revision /\ r \in config_releases[s] /\ r.revision > known[c]
    BY <2>3 DEF IInv, TypeOK, Newer
  <2>5. {q.revision : q \in config_releases[s]} = 1 .. current_revision[s] /\ current_revision[s] \in Nat
    BY DEF IInv, TypeOK, ReleasesContiguous
  <2>6. r.revision \in 1 .. current_revision[s] /\ known[c] \in Nat
    BY <2>4, <2>5 DEF IInv, TypeOK
  <2>7. PICK q \in config_releases[s] : q.revision = current_revision[s]
    <3>1. current_revision[s] \in 1 .. current_revision[s]
      BY <2>5, <2>6
    <3> QED BY <2>5, <3>1
  <2>8. q \in Newer(s, known[c])
    BY <2>4, <2>5, <2>6, <2>7 DEF Newer
  <2>9. r.revision = current_revision[s]
    BY <2>3, <2>5, <2>6, <2>7, <2>8
  <2> QED BY <2>2, <2>4, <2>6, <2>9
<1> QED BY <1>1, Invariance, PTL DEF Spec

\* Releases are immutable: publish adds one with the next revision, and no
\* operation, failure or rollback changes or removes one, so a revision that a
\* client was told means the same configuration ever after.
THEOREM HistoryIsKept ==
    Spec => [][\A s \in Scopes : /\ config_releases[s] \subseteq config_releases'[s]
                                 /\ current_revision'[s] \in {current_revision[s], current_revision[s] + 1}]_vars
<1>1. ASSUME IInv, Next, NEW s \in Scopes
      PROVE  /\ config_releases[s] \subseteq config_releases'[s]
             /\ current_revision'[s] \in {current_revision[s], current_revision[s] + 1}
  <2>1. CASE \E a \in Admins : publish(a)
    <3>1. PICK a \in Admins : publish(a)
      BY <2>1
    <3>2. HoldsScope(a) /\ At(a, "publish") /\ rpc[a].scope \in Scopes
      BY <1>1, <3>1 DEF IInv, publish, HoldsScope, At
    <3>3. rpc[a].rev = current_revision[rpc[a].scope]
      BY <3>2 DEF HoldsScope, At
    <3> QED BY <1>1, <3>1, <3>2, <3>3 DEF publish, IInv, TypeOK
  <2>2. CASE ~\E a \in Admins : publish(a)
    <3>1. UNCHANGED <<config_releases, current_revision>>
      BY <1>1, <2>2 DEF Next, Write, Poll, Rollback, Request, Begin, ensure_scope, validate_item,
       upsert_item, delete_item, PutItem, set_schema, publish_revision,
       publish_rows, publish_schema, watch_begin, latest_newer_than,
       watch_current, watch_wake, deadline, watch_abandon, tables
    <3> QED BY <3>1
  <2> QED BY <2>1, <2>2
<1>2. IInv /\ [Next]_vars =>
        [\A s \in Scopes : /\ config_releases[s] \subseteq config_releases'[s]
                           /\ current_revision'[s] \in {current_revision[s], current_revision[s] + 1}]_vars
  BY <1>1
<1> QED BY <1>2, Invariance, PTL DEF Spec
=============================================================================
