---------------------------- MODULE ConfigStore ----------------------------
(***************************************************************************)
(* The Config Center of pgapp: ConfigStore                                 *)
(* (crates/pgapp-core/src/config_center.rs) over the tables of             *)
(* migrations/0004_config.sql and 0007_config_schema.sql.                  *)
(*                                                                         *)
(* Grain.  One step per SQL statement that another transaction could be    *)
(* ordered against.  A statement whose effect nobody sees before COMMIT is *)
(* one step with the COMMIT.  ensure_scope's INSERT ... ON CONFLICT DO     *)
(* UPDATE locks the scope's row until the transaction ends; lock is that.  *)
(*                                                                         *)
(* Data.  A JSON Schema is the set of values it accepts, and NULL accepts  *)
(* them all.  A draft item that is deleted and one that was never written  *)
(* are both None: publish tells neither from the other.  A checksum is a   *)
(* function of its snapshot.  A scope without a row reads as revision 0.   *)
(***************************************************************************)
EXTENDS Integers, FiniteSets

CONSTANTS
    Admins,         \* RPCs that write: drafts, schemas, publications
    Watchers,       \* clients that follow a scope
    Scopes, Keys,
    Values,         \* JSON values
    Schemas,        \* JSON Schemas SetSchema is called with
    None,           \* no value, key, scope or admin
    MaxRevision,    \* bound: publications per scope
    MaxEdits        \* bound: committed draft and schema edits

ASSUME ConstantsAssumption ==
    /\ None \notin Values \cup Admins \cup Scopes \cup Keys
    /\ Schemas \subseteq SUBSET Values
    /\ MaxRevision \in Nat /\ MaxEdits \in Nat

VARIABLES
    current_revision,   \* scope -> its config_scopes.current_revision
    json_schema,        \* scope -> values its schema accepts
    config_items,       \* scope -> key -> live value, or None
    config_releases,    \* scope -> its releases
    lock,               \* scope -> the admin whose transaction has the row
    rpc,                \* admin -> the state of its handler
    watch,              \* watcher -> the state of its Watch call
    known,              \* watcher -> revision of the release it has
    answer,             \* history: watcher -> the latest response
    edits               \* committed edits so far, for the bound

tables == <<current_revision, json_schema, config_items, config_releases>>
clients == <<watch, known, answer>>
vars == <<tables, lock, rpc, clients, edits>>

Draft == [Keys -> Values \cup {None}]
Empty == [k \in Keys |-> None]
Release == [revision: 1..MaxRevision, snapshot: Draft]

WriteSteps == {"idle", "ensure_scope", "validate", "write", "revision", "rows",
               "schema", "publish"}
Op == {"upsert_item", "delete_item", "set_schema", "publish"}
Rpc == [step: WriteSteps, op: Op, scope: Scopes \cup {None},
        key: Keys \cup {None}, value: Values \cup {None},
        schema: SUBSET Values, rev: 0..MaxRevision, rows: Draft]
Idle == [step |-> "idle", op |-> "publish", scope |-> None, key |-> None,
         value |-> None, schema |-> {}, rev |-> 0, rows |-> Empty]

WatchSteps == {"idle", "newer", "current", "sleep"}
Watch == [step: WatchSteps, scope: Scopes, deadline: {"ahead", "passed"}]
Answer == [changed: BOOLEAN, latest_revision: 0..MaxRevision,
           known: 0..MaxRevision]
NoAnswer == [changed |-> FALSE, latest_revision |-> 0, known |-> 0]

\* validate_value_against_schema, for every live row
Conforms(rows, schema) == \A k \in Keys : rows[k] = None \/ rows[k] \in schema

TypeOK ==
    /\ current_revision \in [Scopes -> 0..MaxRevision]
    /\ json_schema \in [Scopes -> SUBSET Values]
    /\ config_items \in [Scopes -> Draft]
    /\ config_releases \in [Scopes -> SUBSET Release]
    /\ lock \in [Scopes -> Admins \cup {None}]
    /\ rpc \in [Admins -> Rpc]
    /\ watch \in [Watchers -> Watch]
    /\ known \in [Watchers -> 0..MaxRevision]
    /\ answer \in [Watchers -> Answer]
    /\ edits \in 0..MaxEdits

\* apply_schema on an empty database.
Init ==
    /\ current_revision = [s \in Scopes |-> 0]
    /\ json_schema = [s \in Scopes |-> Values]
    /\ config_items = [s \in Scopes |-> Empty]
    /\ config_releases = [s \in Scopes |-> {}]
    /\ lock = [s \in Scopes |-> None]
    /\ rpc = [a \in Admins |-> Idle]
    /\ \E follows \in [Watchers -> Scopes] :
        watch = [c \in Watchers |->
                    [step |-> "idle", scope |-> follows[c], deadline |-> "ahead"]]
    /\ known = [c \in Watchers |-> 0]
    /\ answer = [c \in Watchers |-> NoAnswer]
    /\ edits = 0

-----------------------------------------------------------------------------
(* Transactions of the admins.                                             *)

At(a, step) == rpc[a].step = step
Goto(a, step) == rpc' = [rpc EXCEPT ![a].step = step]

\* The transaction of a is over: committed, rolled back or dropped.
EndTx(a) ==
    /\ lock' = [s \in Scopes |-> IF lock[s] = a THEN None ELSE lock[s]]
    /\ rpc' = [rpc EXCEPT ![a] = Idle]

\* A handler of ConfigService or an admin route enters the store.
Begin(a, op, s, k, v, schema) ==
    /\ At(a, "idle")
    /\ rpc' = [rpc EXCEPT ![a] =
            [step |-> "ensure_scope", op |-> op, scope |-> s, key |-> k,
             value |-> v, schema |-> schema, rev |-> 0, rows |-> Empty]]
    /\ UNCHANGED <<tables, lock, clients, edits>>

\* A request that passed validation; each carries what its operation needs.
Request(a, s) ==
    \/ \E k \in Keys, v \in Values : Begin(a, "upsert_item", s, k, v, {})
    \/ \E k \in Keys : Begin(a, "delete_item", s, k, None, {})
    \/ \E schema \in Schemas : Begin(a, "set_schema", s, None, None, schema)
    \/ Begin(a, "publish", s, None, None, {})

\* Request timeout, cancellation, validation or database error: the future
\* and its transaction are dropped.
Rollback(a) ==
    /\ ~At(a, "idle")
    /\ EndTx(a)
    /\ UNCHANGED <<tables, clients, edits>>

FirstStep(op) == CASE op = "upsert_item" -> "validate"
                   [] op = "publish" -> "revision"
                   [] OTHER -> "write"

\* Waits for the row of its scope, then holds it.
ScopeFree(s) == lock[s] = None

ensure_scope_do_nothing(a) ==
    /\ At(a, "ensure_scope")
    /\ Goto(a, FirstStep(rpc[a].op))
    /\ UNCHANGED <<tables, lock, clients, edits>>

ensure_scope(a) ==
    /\ At(a, "ensure_scope")
    /\ ScopeFree(rpc[a].scope)
    /\ lock' = [lock EXCEPT ![rpc[a].scope] = a]
    /\ Goto(a, FirstStep(rpc[a].op))
    /\ UNCHANGED <<tables, clients, edits>>

\* schema_for_scope_id and the check of the new value against it; a value
\* the schema rejects is an error, and Rollback is all that is left.
validate_item(a) ==
    /\ At(a, "validate")
    /\ rpc[a].value \in json_schema[rpc[a].scope]
    /\ Goto(a, "write")
    /\ UNCHANGED <<tables, lock, clients, edits>>

Edit(a) == At(a, "write") /\ edits < MaxEdits /\ edits' = edits + 1

PutItem(a, v) ==
    /\ config_items' = [config_items EXCEPT ![rpc[a].scope][rpc[a].key] = v]
    /\ EndTx(a)
    /\ UNCHANGED <<current_revision, json_schema, config_releases, clients>>

upsert_item(a) ==
    /\ Edit(a) /\ rpc[a].op = "upsert_item"
    /\ PutItem(a, rpc[a].value)

delete_item(a) ==
    /\ Edit(a) /\ rpc[a].op = "delete_item"
    /\ PutItem(a, None)

\* The draft is not checked against the new schema; publish will.
set_schema(a) ==
    /\ Edit(a) /\ rpc[a].op = "set_schema"
    /\ json_schema' = [json_schema EXCEPT ![rpc[a].scope] = rpc[a].schema]
    /\ EndTx(a)
    /\ UNCHANGED <<current_revision, config_items, config_releases, clients>>

\* SELECT current_revision ... FOR UPDATE
publish_revision(a) ==
    /\ At(a, "revision")
    /\ rpc' = [rpc EXCEPT ![a].step = "rows",
                          ![a].rev = current_revision[rpc[a].scope]]
    /\ UNCHANGED <<tables, lock, clients, edits>>

publish_rows(a) ==
    /\ At(a, "rows")
    /\ rpc' = [rpc EXCEPT ![a].step = "schema",
                          ![a].rows = config_items[rpc[a].scope]]
    /\ UNCHANGED <<tables, lock, clients, edits>>

publish_schema(a) ==
    /\ At(a, "schema")
    /\ Conforms(rpc[a].rows, json_schema[rpc[a].scope])
    /\ Goto(a, "publish")
    /\ UNCHANGED <<tables, lock, clients, edits>>

\* INSERT of the release, UPDATE of current_revision, COMMIT.  Under UNIQUE
\* (scope_id, revision) a revision that is taken would be an error.
publish_without_update(a) ==
    /\ At(a, "publish")
    /\ LET s == rpc[a].scope
           revision == rpc[a].rev + 1 IN
        /\ revision <= MaxRevision
        /\ \A r \in config_releases[s] : r.revision # revision
        /\ config_releases' = [config_releases EXCEPT ![s] = @ \cup
                {[revision |-> revision, snapshot |-> rpc[a].rows]}]
    /\ EndTx(a)
    /\ UNCHANGED <<current_revision, json_schema, config_items, clients, edits>>
publish(a) ==
    /\ At(a, "publish")
    /\ LET s == rpc[a].scope
           revision == rpc[a].rev + 1 IN
        /\ revision <= MaxRevision
        /\ \A r \in config_releases[s] : r.revision # revision
        /\ config_releases' = [config_releases EXCEPT ![s] = @ \cup
                {[revision |-> revision, snapshot |-> rpc[a].rows]}]
        /\ current_revision' = [current_revision EXCEPT ![s] = revision]
    /\ EndTx(a)
    /\ UNCHANGED <<json_schema, config_items, clients, edits>>

-----------------------------------------------------------------------------
(* Watch.  A watcher follows one scope with the revision it has, asks again *)
(* when a call ends, and takes its new revision from a release it receives. *)

watch_begin(c) ==
    /\ watch[c].step = "idle"
    /\ watch' = [watch EXCEPT ![c].step = "newer", ![c].deadline = "ahead"]
    /\ UNCHANGED <<tables, lock, rpc, known, answer, edits>>

\* The call is cut off: request timeout, cancellation or a database error.
watch_abandon(c) ==
    /\ watch[c].step # "idle"
    /\ watch' = [watch EXCEPT ![c].step = "idle"]
    /\ UNCHANGED <<tables, lock, rpc, known, answer, edits>>

\* Utc::now() reaches the deadline of the call.
deadline(c) ==
    /\ watch[c].step # "idle" /\ watch[c].deadline = "ahead"
    /\ watch' = [watch EXCEPT ![c].deadline = "passed"]
    /\ UNCHANGED <<tables, lock, rpc, known, answer, edits>>

Reply(c, changed, latest) ==
    /\ answer' = [answer EXCEPT ![c] =
            [changed |-> changed, latest_revision |-> latest, known |-> known[c]]]
    /\ watch' = [watch EXCEPT ![c].step = "idle"]

\* Releases latest_newer_than finds.
NewerOffByOne(s, revision) == {r \in config_releases[s] : r.revision > revision + 1}
Newer(s, revision) == {r \in config_releases[s] : r.revision > revision}

\* ORDER BY revision DESC LIMIT 1
latest_newer_than(c) ==
    /\ watch[c].step = "newer"
    /\ LET newer == Newer(watch[c].scope, known[c]) IN
        \/ \E r \in newer :
            /\ \A other \in newer : other.revision <= r.revision
            /\ Reply(c, TRUE, r.revision)
            /\ known' = [known EXCEPT ![c] = r.revision]
        \/ /\ newer = {}
           /\ watch' = [watch EXCEPT ![c].step = "current"]
           /\ UNCHANGED <<known, answer>>
    /\ UNCHANGED <<tables, lock, rpc, edits>>

\* Utc::now() >= deadline
ExpiredNever(c) == FALSE
Expired(c) == watch[c].deadline = "passed"

\* A second statement, with its own view of the table, supplies the revision
\* of the answer; then the deadline is checked.
watch_current(c) ==
    /\ watch[c].step = "current"
    /\ IF Expired(c)
       THEN Reply(c, FALSE, current_revision[watch[c].scope])
       ELSE watch' = [watch EXCEPT ![c].step = "sleep"] /\ UNCHANGED answer
    /\ UNCHANGED <<tables, lock, rpc, known, edits>>

watch_wake(c) ==
    /\ watch[c].step = "sleep"
    /\ watch' = [watch EXCEPT ![c].step = "newer"]
    /\ UNCHANGED <<tables, lock, rpc, known, answer, edits>>

-----------------------------------------------------------------------------
Write(a) ==
    \/ ensure_scope(a) \/ validate_item(a)
    \/ upsert_item(a) \/ delete_item(a) \/ set_schema(a)
    \/ publish_revision(a) \/ publish_rows(a) \/ publish_schema(a) \/ publish(a)

Poll(c) == watch_begin(c) \/ latest_newer_than(c) \/ watch_current(c) \/ watch_wake(c)

Next ==
    \/ \E a \in Admins : Write(a) \/ Rollback(a)
    \/ \E a \in Admins, s \in Scopes : Request(a, s)
    \/ \E c \in Watchers : Poll(c) \/ deadline(c) \/ watch_abandon(c)

Spec == Init /\ [][Next]_vars

-----------------------------------------------------------------------------
(* Properties.                                                             *)

\* The revisions of a scope are 1..current_revision, each published once:
\* concurrent, failing and abandoned publications neither repeat a revision
\* nor leave a gap, and UNIQUE (scope_id, revision) never rejects one.
ReleasesContiguous ==
    \A s \in Scopes :
        /\ {r.revision : r \in config_releases[s]} = 1..current_revision[s]
        /\ \A r, q \in config_releases[s] : r.revision = q.revision => r = q

\* A release is the whole draft as it stands when publish commits, and the
\* schema in force at that moment accepts it: no edit or set_schema slips in
\* between the statements of publish.
PublishesTheDraft ==
    [][\A s \in Scopes : \A r \in config_releases'[s] \ config_releases[s] :
            r.snapshot = config_items[s] /\ Conforms(r.snapshot, json_schema[s])]_vars

\* Why: from ensure_scope on a transaction has its scope's row, and what it
\* read of the scope is still so.
HoldsScope(a) ==
    /\ ~At(a, "idle") => rpc[a].scope \in Scopes
    /\ rpc[a].step \notin {"idle", "ensure_scope"} => lock[rpc[a].scope] = a
    /\ rpc[a].step \in {"rows", "schema", "publish"} =>
            rpc[a].rev = current_revision[rpc[a].scope]
    /\ rpc[a].step \in {"schema", "publish"} =>
            rpc[a].rows = config_items[rpc[a].scope]
    /\ At(a, "publish") => Conforms(rpc[a].rows, json_schema[rpc[a].scope])

\* The inductive invariant of the proofs.
IInv == TypeOK /\ ReleasesContiguous /\ \A a \in Admins : HoldsScope(a)

\* What openspec/specs/config-center/spec.md and docs/config-center.md say of
\* Watch: with a newer release it answers changed=true, so changed=false
\* means that the latest revision is one the client knows.
UnchangedMeansNothingNewer ==
    \A c \in Watchers : ~answer[c].changed => answer[c].latest_revision <= answer[c].known

-----------------------------------------------------------------------------
(* Fairness: the client asks again after every call, the server's polling   *)
(* loop runs on, deadlines arrive; a call may be cut off at any step, but   *)
(* not every call before its first query.                                  *)
Fairness ==
    \A c \in Watchers :
        /\ WF_vars(watch_begin(c)) /\ SF_vars(latest_newer_than(c))
        /\ WF_vars(watch_current(c)) /\ WF_vars(watch_wake(c))
        /\ WF_vars(deadline(c))

FairSpec == Spec /\ Fairness

\* Every release reaches every watcher of its scope, or a newer one does:
\* polling misses none, whatever is published between its two statements.
WatcherCatchesUp ==
    \A c \in Watchers, n \in 1..MaxRevision :
        current_revision[watch[c].scope] >= n ~> known[c] >= n

\* A call of Watch ends: polling does not go on past the deadline.
WatchEnds == \A c \in Watchers : watch[c].step # "idle" ~> watch[c].step = "idle"
=============================================================================
