# A verification project for pgapp

pgapp serves a message queue, a cache and a Config Center over gRPC, with
PostgreSQL as the only place where state lives, an SDK to call it and a web
page to administer it. This directory holds TLA+ models of the stores, of the
TypeScript SDK with its generated code, and of the Admin UI, the TLC configurations that check them on small
instances, and proofs that TLAPS checks for all instances. `PROJECT.json` maps
every definition to the lines it models, lists every run, mutant, finding,
hazard and theorem; this file explains them.

Check a run with `tlc -config MqLifecycle.cfg MCMqStore`, a proof module with
`tlapm MqStoreProofs.tla`.

## 1. The system

| Component | Source | State | Operations |
|---|---|---|---|
| Message queue store | `crates/pgapp-core/src/mq.rs`, `migrations/0002_mq.sql`, `0005_dlq.sql` | tables `mq_queues`, `mq_messages`, `mq_dlq`, `mq_archives`, the sequences of their ids | create and drop a queue, send, send_batch, read, ack, archive, set_visibility_timeout, purge, dead_letter, reprocess, purge_dlq, retention sweep |
| Cache store | `cache.rs`, `0001_cache.sql` | `cache_namespaces` (a generation each), `cache_entries`, `cache_stats` | get, set, set_nx, get_set, increment and decrement, append and prepend, delete, invalidate_namespace, sweep_expired, enforce_capacity |
| Config Center store | `config_center.rs`, `0004_config.sql`, `0007_config_schema.sql` | `config_scopes`, `config_items` (the draft), `config_releases` | upsert_item, delete_item, set_schema, publish, watch, queries |
| Long polling and streaming reads | `mq.rs` (`read_with_poll`), `listen.rs`, `pgapp-server/src/lib.rs` (`read_with_notify_or_poll`, `stream_read_next`) | per call: a deadline, a listener or the polling fallback | wait for NOTIFY or a poll interval, read, yield |
| gRPC services | `pgapp-server/src/lib.rs` | none | map requests to store calls and errors to statuses, each under the request timeout of `record_rpc` |
| Client authentication | `client_auth.rs`, `pgapp-server/src/auth.rs`, `0006_auth.sql` | `pgapp_clients` | create, rotate, deactivate; check of every call but the health probes |
| Generated TypeScript messages and stubs | `sdk/typescript/src/gen/pgapp/v1/*.ts` | none | per message class: create, read, write; per stub: look up the method, hand it to the transport |
| TypeScript SDK | `sdk/typescript/src/index.ts` | endpoint, timeout and credentials of a client; per stream: a generator and what it has received | 30 wrappers, `streamRead`, the mapping of errors |
| Admin UI | `apps/admin-ui/src/App.tsx` | a token in `sessionStorage`; per view: loads, editors, feedback, a secret shown once | save the token, navigate, select a scope, edit, and the buttons that send requests |
| Admin HTTP, logs, metrics, health, configuration, other SDKs | `admin.rs`, `admin_http.rs`, `metrics.rs`, `config.rs`, `validation.rs`, `sdk/` | counters in memory, a log table | views and the same store operations |

How they interact. A gRPC handler or an admin route calls a store; a store
runs SQL statements over a pool, one connection per statement or one per
transaction. Handlers share nothing in memory that matters: all interaction is
through rows, row locks, advisory locks, sequences, `now()` and NOTIFY. Every
gRPC handler runs inside `record_rpc`, which drops its future when the request
timeout passes, so a handler can stop at any `.await`, and its transaction, if
one is open, is rolled back. An application calls through the SDK: a wrapper
makes a request message, a stub finds the method by its position in the
service, the message class writes it, the transport carries it, and the answer
comes back the same way. The Admin UI calls the Admin HTTP API with `fetch`;
nothing is pushed to it, and nothing it has asked for is ever aborted.

What is hard. Most operations are several statements under READ COMMITTED:

* *what was looked up may be stale*: a queue's id, a cache generation, a value
  selected before it is written, rows chosen in a subquery and deleted by id;
* *`now()` differs* between two statements, and inside a transaction is the
  time of its BEGIN, possibly long before a lock was granted;
* *handlers stop half way*, between two statements that belong together;
* *limits are tested in one statement and relied on in another*
  (`max_redelivery_count`, `max_keys`, `max_bytes`);
* *polling loops* must neither miss what they wait for nor run for ever;
* *answers are lost or late*: a promise is rejected although the call took
  effect, and the page receives answers for what is no longer selected;
* *what is absent on the wire has several meanings*: a default, a miss, an
  empty value; and a JavaScript number has 53 bits for an int64;
* *a loop that is left does not end its call*: the server goes on leasing
  messages into a stream nobody reads.

The list `hazards` of `PROJECT.json` has each of these at its line, with the
properties that would catch it going wrong.

What makes each component correct:

* *message queue*: a message is in one table at a time; it is never handed out
  while the window promised to its previous consumer is open; only its latest
  consumer settles it, once and for all; nothing outlives its queue; a message
  read `max_redelivery_count` times goes to the DLQ;
* *cache*: atomic operations lose no update; SetNX excludes; invalidation also
  fences off the writers already under way; entries live until they expire, are
  deleted or must be evicted; limits hold; no call on a key is ever part of a
  deadlock, and calls return;
* *Config Center*: revisions have no gap and no repetition; a release is the
  draft of its moment and conforms to the schema; watchers catch up;
* *authentication*: a request gets through if and only if its credentials are
  current at some moment while it is checked, and what was revoked stays so;
* *SDK*: a call takes effect at most once, the server handles what was passed
  and the caller gets what was answered; a call with a deadline ends; a stream
  yields everything, once and in order, and what it loses comes again or, where
  the queue limits redelivery, ends in the DLQ;
* *Admin UI*: a panel shows what is selected and nothing older than the
  selection; success is reported only of what was done; a secret stands beside
  the name of its client; nothing loads for ever.

## 2. Modules

| Module | Models |
|---|---|
| `MqStore` | the message queue store |
| `MqContract` | what it promises: leases, without workers, SQL or tokens |
| `MqStoreProofs` | theorems about `MqStore`, and that it implements `MqContract` |
| `ConfigStore`, `ConfigStoreProofs` | the Config Center store and its theorems |
| `CacheStore`, `CacheStoreProofs` | the cache store and its theorems |
| `MqLongPoll`, `MqLongPollProofs` | waiting for messages: LISTEN/NOTIFY, polling, streams; its theorems |
| `ClientAuth`, `ClientAuthProofs` | client credentials: the store, the auth layer, the admin routes; its theorems |
| `ProtoMessages` | the generated TypeScript code as data: the fields of its 78 message classes, the services, the stubs |
| `ProtoCodec` | what create, `internalBinaryRead` and `internalBinaryWrite` do with the fields; the reference `Denotes`, which says what a wire means |
| `SdkCalls`, `SdkCallsProofs` | a unary call through the TypeScript SDK, from its arguments to the server and back, which extends `ProtoCodec`; its theorems, and those about the codec |
| `SdkStream`, `SdkStreamProofs` | a consumer on `streamRead`, with the leases of the server behind it; its theorems |
| `AdminUi`, `AdminUiProofs` | the Admin UI, and the Admin HTTP API as it sees it; its theorems |
| `MCMqStore`, `MCConfigStore`, `MCCacheStore`, `MCMqLongPoll`, `MCClientAuth`, `MCSdkCalls`, `MCSdkStream`, `MCAdminUi` | symmetry and constants for TLC |

### How state and actions correspond to the code

A *worker* (an *admin*, a *watcher*) is one call being served. `rpc[w]` is what
its future carries from one await to the next: the step it is at and the local
variables that are used later. An action is one SQL statement with everything
the code does up to the next one; actions carry the name of the function whose
statement they are. The statements of a transaction whose effects nobody can
see before COMMIT are applied at COMMIT; the locks they take are taken at the
statement.

PostgreSQL is modelled from how the code uses it. One statement is one step,
with the exceptions that READ COMMITTED makes visible:

* `sweep_expired` and the eviction of `enforce_capacity` are
  `DELETE ... WHERE id IN (SELECT ...)`: the subquery locks nothing, and when
  the DELETE meets a row that changed since, only `id = ...` is checked again
  on the new version. These are two steps. (The claim of `read` locks in its
  subquery, `FOR UPDATE SKIP LOCKED`; the moves to the DLQ and back, `ack` and
  `archive` are a DELETE whose WHERE is about the row itself, and PostgreSQL
  evaluates all of it again on a row it had to wait for: one step.)
* `invalidate_namespace` is one statement with one snapshot: its DELETE sees the
  rows that were there when it began, and not those that writers commit while it
  waits for the row of the namespace or for rows that are locked. Three kinds of
  steps: the snapshot, the UPDATE that takes the namespace, the DELETE.
* the DELETE of a sweep or of an invalidation locks its rows one after the other
  (`delete_row`), in an order that depends on the plan and is left open, and keeps
  them until it ends. Two of them may therefore wait in a circle;
  `detect_deadlock` is PostgreSQL's detector, which fails one of the statements.
* `SKIP LOCKED` may pass over rows that somebody else is touching: a read that
  is not alone on its queue may skip any of them.
* `INSERT` into a table with a foreign key locks the parent row, and `DELETE`
  of the parent waits (`SendLocks`); ids drawn from a sequence are burnt by a
  rollback.
* `ensure_scope` updates the scope's row and so holds it for the transaction.
* `pg_advisory_xact_lock` is `HoldsKeyLock`; rows selected FOR UPDATE or
  deleted are `locked` until the transaction ends.
* `now()` is the clock for a single statement and `rpc[w].t` in a transaction.

`Call`, `CallWithToken`, `Request` and `namespace_generation` are the gRPC
handlers and the admin routes that change the same tables, up to the first
statement whose result they keep; the map names both. In the cache that is the
SELECT of the generation. The INSERT before it (`ensure_namespace`) leaves nothing
in the handler and is a step of nobody in particular: a worker that is idle may
have a call that is past it, or that waits in it for an invalidation to commit.
The admin routes have no request timeout, but a
client that goes away drops them just the same.

`Abandon` (`Rollback`, `watch_abandon`, `admin_drop`) is everything that stops a handler
between two statements: the request timeout, a client that cancels, a
database or validation error.

In `SdkCalls` a client makes one call, since calls share nothing. `Invoke` is a
wrapper up to the await: the arguments go through `create`, `rpcOptions` adds
the credentials and the deadline, and a request that cannot be written is
rejected before it is sent. `transit` is the request on its way, which arrives
late, or not at all; `Execute` reads it on the other side with the class of the
method that was called. The answer is built up field by field (`ReadAnswer`, one
turn of the loop of `internalBinaryRead`) from whatever fields a server, or a
newer one, may write, and `Fulfil` is the rest of the wrapper. The methods of
`HealthService`, and those of `ConfigService` that have no wrapper, are called
through their stubs. Every class has the same three methods with different
fields, so `ProtoCodec` has them once; `WriteField`, `ReadField` and `Value` are
mapped to one class that shows all the forms a field takes. A method that meets
a message inside its message calls the same method of another class. These calls
are parameters of the module (`WriteMessage`, `CanWrite`, `ReadMessage`, and
`Meaning` for the reference), so that the definitions are not recursive;
`SdkCalls.cfg` gives each parameter the definition it stands for, which closes the
recursion, and `Recursion` states the same for the proofs. What an application
passes (`Arguments`) and what a server writes (`AnswersOf`) are parameters too,
with assumptions that say what is typed; `MCSdkCalls` has the values TLC tries.

In `SdkStream` a stream is the call together with the generator over it. The
application works on one delivery at a time (`held`), may acknowledge it, go on
or leave the loop; the generator then forgets what it has received, and the call
stays open on the server's side. A delivery is `live` while its lease is. For an
open stream the server calls `read` again and again: its first statement moves
what was read `max_redelivery_count` times to the DLQ
(`dead_letter_due_messages`), its second claims what is visible by then (`Push`)
or nothing (`FindNothing`). `reads` is the read count up to the limit, which is
all that is ever compared. The lease itself, that a message is handed out to one
consumer at a time, is what `MqStore` proves; here it is `Push` and `Expire`.

In `AdminUi` a step is an event with the state it sets, the renders and the
effects that follow. For a click React does all that without giving way; the
effects of an answer it runs after it has painted, so that for one frame the page
shows a new draft beside the old editor. That frame is left out. `load` has the state of
every `useAsyncData`; `net` has every `fetch` without an answer, those whose
effect was cleaned up included (`cancelled`); `server` is the sequence of all
states the server has had, so that an answer may be of any time between the
request and now. `Navigate` unmounts a view: the requests of its buttons still
run on the server, and their answers change nothing on the page. `Reload`
starts the page again with what `sessionStorage` has: without a token the
overview says so at once and nothing is asked for.

Data. A payload is its message id. A token is the triple of what the code
hashes: id, read count, and the fresh number that `clock_timestamp()` and
`random()` provide. A cache value is the set of the calls that contributed to
it, so that a lost update is a missing member. A secret is the number of its
generation, since a UUID pair does not repeat, and a hash is compared as the
secret it was made of. A JSON Schema is the set of
values it accepts. A wire is a sequence of fields; a varint is its 64-bit
pattern, an int64 the number its decimal string denotes, and widths are
constants. A text of a JSON editor is the value it parses to, or `Garbage`. NULL timestamps are 0, where the code's comparisons
give the same answer. Variables commented *history* do not exist in the
program; no guard reads them.

## 3. What is checked

Runs that pass:

| Run | Checks | Shows |
|---|---|---|
| `mq_lifecycle` | `IInv`, `SinglePlacement`, `SettledIsFinal`, `NoOrphans`, `NoOverlappingDelivery`, `ImplementsContract` | one message through every operation, two workers, the queue dropped and created again: never copied, orphaned, or held by two; every statement is a step of the contract |
| `mq_long_poll` | `IInv`, `NoLostWakeup`, `LongPollEnds`, `StreamDelivers` | two waiting calls of any kind: a notification is never lost between read and wait, every long poll ends, and what stays visible reaches an open stream with or without NOTIFY, with or without its listener |
| `config_release` | `IInv`, `ReleasesContiguous`, `PublishesTheDraft`, `WatcherCatchesUp`, `WatchEnds` | two admins edit and publish at the same time and fail anywhere; a client that repeats Watch receives every release or a later one |
| `cache_atomic` | `IInv`, `InvalidationFences`, `NothingSlipsIn`, `SetNxExclusive` | all operations on one key, two at a time, with expiry and invalidation |
| `cache_evict` | `OnlyDeletesDeadlock`, `EveryCallReturns` | two writers over both limits, with rows that expire, sweeps and an invalidation: circles of a sweep and an invalidation, or of two sweeps, are reached and broken, no call on a key is in one, and locks and eviction loops come to an end |
| `client_auth` | `IInv`, `AdmitsOnlyCurrent`, `DeniesOnlyStale`, `RevokedForGood` | two admin requests create, rotate and deactivate two clients and lose their answers, while requests come with any secret ever handed out |
| `sdk_calls` | `AtMostOnce`, `ServerSeesTheCall`, `AnswerReachesTheCaller`, `CallEnds` | all unary methods, with default, negative, fractional and too large arguments and with any two fields as the answer, over a network that loses either; the reader agrees with `Denotes` on every response class |
| `sdk_stream` | `TypeOK`, `OneLiveDelivery`, `NothingSkipped`, `EventuallyHandled` | a consumer that leaves its loop twice, with two streams, two messages, windows that end in buffers, and a queue without a limit or with `max_redelivery_count = 2` |
| `admin_ui` | `IInv`, `FreshPanels`, `EditorFollowsDraft`, `HonestFeedback`, `SecretIsOfTheNamed`, `EverythingIsAnswered` | any three actions of a user with any token, answers in any order, one request that fails although it need not |

Runs that end in a counterexample, each against a sentence of the repository's
own documents (quoted under `findings`):

| Run | Property | What happens |
|---|---|---|
| `mq_redelivery` | `RedeliveryBounded` | `read` moves due messages to the DLQ and then claims; a window that ends between the two statements gets a message delivered once more than `max_redelivery_count` |
| `config_watch_unchanged` | `UnchangedMeansNothingNewer` | a publication between the two queries of the last round of `watch`: `changed=false` with a revision the client does not have. `WatcherCatchesUp` shows that a client that keeps its own revision recovers; one that adopted `latest_revision` would miss the release |
| `cache_sweep` | `LiveEntriesStay` | the sweep chooses an expired row, Set refreshes it under the same id, the sweep deletes it |

Every property of a passing run has a mutant in `PROJECT.json`: a definition
changed the way a plausible bug would change it (a dropped lock, a token
without its random part, an off-by-one), which makes TLC find that property
violated.

### Bounds, and why they are enough

Constants named `Max...` that the code does not have are bounds; they stop
counters and appear in the guards. Two concurrent handlers are enough for every
interleaving hazard listed: each is a race between two statements of one handler
and one statement of another. In `mq_lifecycle` two queue ids under one name
make ids stale; one message with two deliveries and three ticks lets a window
end, the message be delivered again, and a token of the first delivery be
presented, also after a reprocessing has reset its read count; windows of
length 0 are legal and included. Batches of several messages are left
to the proofs. In `cache_atomic`
three calls are a first write, and two that race over its row; two generations
are one invalidation. In `cache_evict` two keys against limits of one
make every write after the first evict, and two rows that expire are what two
statements can lock in opposite orders. `config_release` has two revisions,
so that the second publication finds the first, and two edits, an item and the
schema that rejects it, or a change and its undoing.
`client_auth` has three secrets: one to create a client with, and two rotations
of it, or a second client; gRPC requests do not touch each other's state there,
so one at a time is enough. `mq_long_poll` has two messages, sent together or one after the other, and a
call that competes with the one that waits. In `sdk_calls` the widths 3, 4 and 6 stand for 32, 53 and 64 bits: all that
matters is their order, and that each has values the next smaller one cannot
hold. Two fields in an answer are enough for a field that comes twice, a message
in two pieces, and an unknown field before or after a known one. In `sdk_stream`
two streams are one that was abandoned and the one that is read, or two that were
abandoned; a limit of two is reached when each of them swallows a message, or one
of them does so twice. In `admin_ui` three
actions are, for instance: open the view, select another scope, select the
first again, with three generations of answers on their way; or open the view
and rotate two clients. What the
bounds leave out, the proofs cover where there is one. Symmetry is over the
workers and is not used where liveness is checked. `CHECK_DEADLOCK FALSE`
is set where the bounds let the models stop; the Config Center,
long polling, authentication and stream models never stop, and deadlock is checked there.

### Fairness

* `config_release`: the client asks again; the polling loop goes on and its
  deadline arrives (tokio's timer). A call may be cut off at any step. The
  query for newer releases has strong fairness: not every call is cut off
  before it.
* `cache_evict`: strong fairness of a handler as a whole, which is tokio polling
  it and PostgreSQL answering and granting locks in the order in which they are
  asked for: others may get a row before a statement that waits for it, but not
  for ever. Weak fairness of `detect_deadlock`, which is `deadlock_timeout`.
  Nothing else makes a lock be granted but its holder's progress. `Abandon` has
  no fairness.
* `mq_long_poll`: weak fairness of each waiting call's own steps and of its
  timers. None for NOTIFY (PostgreSQL delivers it, or the connection breaks),
  for a reconnection, or for the client of a stream, which may never ask for
  the next item: `StreamDelivers` ends where an item is ready.
* `sdk_calls`: a timer that was set fires, and reading an answer that is there
  comes to an end. None for the server or the network: `CallEnds` is the deadline's doing.
* `sdk_stream`: the generator runs while it is waited for; timers fire; windows
  end; the server reads for the open streams, and a visible message is pushed
  sooner or later (strong fairness: a stream may be cut before its first read, and
  the buffers of others may be full and empty in turn; `StreamDelivers` of
  `MqLongPoll` is what justifies it). The application
  acknowledges a message sooner or later while it has the lease, which is the
  one thing the SDK cannot see to; at most `MaxLate` windows end too early.
* `admin_ui`: every `fetch` is settled, by an answer or by an error. None for
  the user.

## 4. What is proved

TLAPS proves, for any number of processes, objects and steps:

* `MqStoreProofs`: `TypeCorrect`, `Invariance` (`IInv`), and from it
  `PlacementCorrect`, `SettlementCorrect`, `OwnershipCorrect` and
  `DeliveryCorrect`, that is `Spec => []SinglePlacement`, `[]SettledIsFinal`,
  `[]NoOrphans` and `NoOverlappingDelivery`; `ReadsInOrder`, that a read takes
  at most a batch and passes over no older message but those that `SKIP LOCKED`
  lets it; and `ContractImplemented`, that is `Spec => ImplementsContract`: the
  store refines the lease contract;
* `ConfigStoreProofs`: `Invariance` (`IInv`), `RevisionsCorrect`
  (`ReleasesContiguous`), `PublishCorrect` (`PublishesTheDraft`),
  `WatchersMoveOn`, that a watcher only ever moves to the latest release, and
  `HistoryIsKept`, that releases are immutable;
* `CacheStoreProofs`: `Invariance` (`IInv`), `AtomicityCorrect`
  (`NothingSlipsIn`), `InvalidationCorrect` (`InvalidationFences`),
  `SetNxCorrect` (`SetNxExclusive`) and `KeyCallsNeverDeadlock`
  (`OnlyDeletesDeadlock`), that only sweeps and invalidations can wait for each
  other in a circle;
* `MqLongPollProofs`: `Invariance` (`IInv`) and `WakeupCorrect`
  (`NoLostWakeup`);
* `ClientAuthProofs`: `Invariance` (`IInv`), `AdmissionCorrect`
  (`AdmitsOnlyCurrent`), `DenialCorrect` (`DeniesOnlyStale`) and
  `RevocationFinal` (`RevokedForGood`);
* `SdkCallsProofs`: `TakesEffectOnce` (`AtMostOnce`), `ServerSeesEveryCall`
  (`ServerSeesTheCall`) and `AnswersReachTheCaller` (`AnswerReachesTheCaller`);
* `SdkStreamProofs`: `TypeCorrect`, `DeliveryUnique` (`OneLiveDelivery`) and
  `DeliveredInOrder` (`NothingSkipped`);
* `AdminUiProofs`: `Invariance` (`IInv`), `FreshnessCorrect` (`FreshPanels`),
  `EditorCorrect` (`EditorFollowsDraft`), `FeedbackCorrect` (`HonestFeedback`)
  and `SecretCorrect` (`SecretIsOfTheNamed`).

The assumptions are those of the modules, which TLC evaluates in every run:
the bounds are natural numbers and the operations those that exist
(`ConstantsAssumption`); in the cache, there is a namespace and a key; in the
stream, the messages are finite in number, since a response lists its messages in
a sequence, limits are natural numbers, and `None` is no delivery; in the SDK, the widths are
ordered and their powers of two are what powers of two are (`Widths`, `Powers`),
no class has two fields of one number and messages nest at most three deep
(`Schema`), each wrapper passes the fields of its request to a method with that
request and takes from the answer fields that are there (`WrappersAssumption`),
an argument has the fields of its class with a message, a list or a boolean where
one belongs, though any number, in range or not (`ArgumentsAssumption`), and an
answer may have any fields in any order, with data of their types
(`AnswersAssumption`); in the
Admin UI, scopes, queues and the draft are sequences and `None` is not the name
of a scope or a queue (`ServerAssumption`).

Two theorems about the SDK have a hypothesis besides. `Recursion` says that the
calls of the codec for a nested message are calls of the codec. Since `Schema`
lets messages nest three deep only, such calls exist: they are the definitions of
`ProtoCodec` unrolled three times, and TLC's instance has them. `Objects` says
that `undefined` and `null`, constants here, are not objects that the codec
makes, as they are not in JavaScript.

The argument for the queue. None of the properties is inductive. That an
INSERT meets no other row of its id needs `IdsFresh`: ids not drawn yet, and
ids drawn by a transaction that is still open, have no row and no past. That
only the latest consumer settles needs `TokensCurrent` and `DeliveriesReal`: a
token in a row names the latest delivery of its message, and what a consumer
presents names the delivery it was part of. That windows do not overlap needs
`PromisesKept`: the promise made last is covered by the row's window or is
over, and a dead message has no promise left. That dropping a queue leaves
nothing behind needs `QueueIdsUnique`: ids of queues are never reused, and
`SendLocks`. `IInv` is the conjunction; the proof has a step per action, and
`mq_lifecycle` checks `IInv` too. `ReadsInOrder` is about `FirstN`, the
`ORDER BY id LIMIT n` of `read`: that it has at most n members needs a largest
member, found with the well-foundedness of the numbers.

The argument for the Config Center. From `ensure_scope` on a transaction has
its scope's row; what it read of the scope is therefore still so when it
commits (`HoldsScope`). The watchers do not write. That the release with the
largest revision, which a watcher is given, is the current one needs
`ReleasesContiguous`: without a gap the current revision is one of those that
are newer than the watcher's.

The argument for long polling. `fresh` are the messages that have been visible
since they were sent and that no read has locked. They are available
(`FreshIsAvailable`, which needs `LockedAreSent`), so a read that found nothing
left none; whatever became fresh since was sent while the call listened, and
has notified it (`ListensSinceRead`). A connection that broke excuses the call
until its next read (`MissedListens`).

The argument for authentication. A secret that is generated and not stored yet
is in nobody's hands and in no other handler (`PendingSecretsFresh`, which
needs `SecretsGenerated`), so the statement that stores it makes no credentials
current that a client could be presenting (`NothingRevived`). What a request
presents can therefore only stop being current; if its SELECT finds it current,
it was so on arrival (`Sound`), and if the comparison fails, it is not current
now. `SecretsOwned` keeps a secret with the key it was generated for.

The argument for the refinement. The mapping takes the lease of a message from
its row: the random part of the token and the end of the window. Every statement
either keeps place, holder and end of every message (`Unmoved`), or moves a set of
messages from one place to another (`MoveSteps`), or is a lease, an extension or
a settlement of one message. `IInv` is what makes the last kind legal: a
message that is settled was held by whoever settles it.

The argument for the cache. A handler in a transaction on a key has locked rows
that exist, all expired at its BEGIN but for the one it selected, which it will
find as it was (`HandlerSound`); two transactions never have the same row
(`LocksExclusive`), those that delete many rows included. What a row holds was
written by calls that began in the row's generation (`RowSound`), and generations
count the invalidations (`GenerationCounts`), so what a get finds is no older than
its own generation, whichever rows an invalidation did not see. `SetNxExclusive`
needs that a row which is not locked conflicts with the INSERT, and that a locked
one had expired. That there is one row per key and generation (`RowsUnique`, a
part of `IInv`) is the UNIQUE constraint, which the steps have from the database;
it is used and not claimed. `KeyCallsNeverDeadlock` adds that a transaction on a
key has locked rows of its own key only (`LocksOwnKey`, inductive with `IInv` since
a row keeps its key as long as it keeps its id). There is one row per key, so
whoever has one locked finds no other to wait for: a call on a key that waits for
a row has none. The advisory lock, the only thing such a call may hold while it
waits, is waited for by calls that hold nothing, and so is the row of a namespace.
In a circle everybody waits and is waited for; what remains are statements that
hold some of their rows and wait for others, `sweep_delete` and
`invalidate_delete`.

The argument for the calls of the SDK. The inductive invariant says what each
phase of a call knows: one transmission in all (`Counted`), a call that was made
with arguments that can be written (`Made`), an answer of which the first fields
have been read (`Reading`), and what a settled call has (`Fulfilled`, `Failed`).
`TakesEffectOnce` needs no more, whatever the codec does.

`ServerSeesEveryCall` is the round trip: reading what was written gives back what
was passed. The loop of `internalBinaryRead` is a function on the positions of the
wire; that it exists, that reading two wires one after the other is reading
their concatenation (`ReadConcat`), and what joining the parts of a wire gives are inductions on numbers,
made by hand from the well-foundedness of the numbers. A field is then dealt with
by itself: the part written for it, if any, puts its value in its place and
leaves the others alone, and what is not written because it has its default is
what `create` put there. Scalars come back through their bit patterns, a negative
one by sign extension. Messages inside messages are three levels, one after the
other, from those that hold none.

`AnswersReachTheCaller` compares the loop with `Denotes`, which says what a wire
means without it. A further field is appended to what its field number has so
far, and what the occurrences of a field come to changes accordingly: the last
one of a scalar, one more element of a list, a message merged with the piece
before it, which is where `ReadConcat` is needed again. That a number up to 2^53
is exact rests on such a number being a double, so that it is nearest to itself.

The argument for the stream. A delivery is at a place: a row of a stream's
buffer and a position in it, or in the body of the loop. `OneLiveDelivery` is
inductive with the types: handing on moves places without merging them, what is
dead-lettered or pushed was visible and so live nowhere, each id of a response once, and the end
of a window makes all deliveries of a message stale wherever they are.
`DeliveredInOrder` is about the concatenation of all buffered responses: that
taking one off the front leaves the concatenation of the others is an induction
on their number, made by hand as for the codec.

The argument for the Admin UI. Of the requests of a panel all but one have been
cleaned up, and that one asks for what is selected and was sent since
(`OneEffect`); a panel that is loading has it (`LoadsUnderWay`). An answer that
is taken is therefore one to the present question (`FreshPanels`). Panels
belong to the view that is open, and `ConfigDetails` to a scope
(`PanelsBelong`), or else the effects of an answer could start what no view
shows. The request of a button that was executed has left its trace at the
server, and one whose answer will still be shown was made since the view was
opened (`ClicksSound`); feedback and secret follow. `SignedOut` says that
without a token there are no requests. The effects of a step are dealt with once,
for every panel that starts, stops or stays (`EffectsSound`), and every step is
shown to satisfy its hypotheses. Working out `Reload` for the proof showed that
the model had left the overview switched off after a reload without a token,
where the page says that the token is missing; it is as in the code now.

Only model-checked:

* liveness (`WatcherCatchesUp`, `WatchEnds`, `EveryCallReturns`, `LongPollEnds`,
  `StreamDelivers`, `CallEnds`, `EventuallyHandled`, `EverythingIsAnswered`),
  which is out of the prover's reach. What they rest on is proved where it
  is a matter of safety: that calls on keys of the cache do not wait in a circle
  (`KeyCallsNeverDeadlock`), that a notification is not lost (`WakeupCorrect`), and that a
  watcher moves forward (`WatchersMoveOn`).

## 5. What is not modelled

* `cache_stats` and the metrics: counters that only their own views read.
* Queries and views (lists, gets, `admin.rs`): they change nothing.
* JSON Schema validation, hashing, encoding, pagination cursors: data.
* Connection pools and their limits; a crash of PostgreSQL, whose committed
  state survives: to the server it is a failing statement, hence `Abandon`.
* A COMMIT that succeeds while its reply is lost: to the tables it is the
  completed action, and the client's retry is another call.
* The Rust, Go and Python SDKs: the same wrappers over other generators' code.
* Bytes, tags and lengths of the wire format, HTTP/2 and the channel: the
  libraries' business. That a stream of bytes can be cut at any place is to the
  SDK a call that fails.
* What the Admin UI looks like; its search field, which nothing reads; the filters
  and pages of the admin views, of which the UI asks for the first only.
* Health and readiness, which are queries, and the log table.
* In `MqLongPoll`, a read that fails after it has locked rows, and the length
  of intervals: that `read_with_poll` of the store may sleep past its deadline
  when the interval is longer than what remains is therefore not visible.

Seen while modelling, and kept as remarks rather than runs:

* Cache expiry. Append, GetSet and Increment compare `expires_at` with the
  `now()` of their BEGIN, taken before they wait for the advisory lock
  (`cache.rs:589`, `640`): a value that expires meanwhile is extended, without a
  TTL for ever, after gets have already reported it missing. `CacheStore` has
  the steps (`rpc[w].t`), and `openspec/specs/cache-atomic-operations/spec.md:63`
  says that expired entries are treated as non-existent.
* Cache capacity. `enforce_capacity` returns once the sweep removed any row, also
  of another namespace, with the namespace of the write still over its limit
  (`cache.rs:442`); the next write that finds nothing to sweep makes up for it.
* `archive` opens a transaction, so the `now()` its DELETE compares with is
  that of BEGIN: a token that has expired since is accepted, as long as nobody
  else was handed the message. `MqContract` says so (`Archive`, unlike `Ack`,
  does not ask for an open lease).
* Cache rows of old generations. `invalidate_namespace` deletes what its snapshot
  has (`cache.rs:341-354`). A writer that read the generation before may commit
  after that, and its row stays: no get, count or eviction reaches it
  (`InvalidationFences`), so nothing bounds such rows but the next invalidation,
  or a sweep once they expire.
* Cache sweeps and invalidations that deadlock. Neither orders the rows it locks,
  so two of them may wait for each other and PostgreSQL fails one. For the sweep
  that follows a write this fails the call although the write is committed: Set
  reports an error for a value that gets return.
* Two writers that count the same excess in `enforce_capacity` both evict it,
  the second from a namespace that is within its limits by then.
* `openspec/specs/mq-listen-notify-push/spec.md` asks for one LISTEN connection
  for all queues, re-established at an interval; the code opens one per call,
  leaves the reconnection to sqlx and polls for the rest of the call when that
  fails. `StreamDelivers` holds all the same.
* A request is checked once, when it arrives: a `StreamRead` that was let through
  goes on after its client is deactivated, and a request whose SELECT came first
  is let through after it. `AdmitsOnlyCurrent` states what is guaranteed.
* `create_client` of a deactivated key is a conflict for ever: no operation
  activates a client again, and none deletes one.
* A secret whose answer is lost after `rotate_secret` has committed is gone, and
  the old one no longer works; only another rotation helps.
* `openspec/specs/grpc-client-authentication/spec.md` says bcrypt; the code uses
  Argon2.
* SDK: `mget` hands on the items as they came, so a miss has an empty value and
  not `null` as `openspec/specs/typescript-sdk/spec.md:33` says, and `read`,
  `readWithPoll` and `streamRead` leave the payload a JSON text where line 40 says
  parsed. The code disagrees with its specification there, so
  `AnswerReachesTheCaller` makes no claim about the results of these wrappers
  (`NotConverted`). `PGAppError.code` is typed as a number; the transport's errors
  carry the name of the status. An int64 above 2^53 is rounded (`Number`), so
  exactness is claimed only up to there.
* SDK: leaving the loop over `streamRead` does not cancel the call. Without
  `timeoutMs` the stream stays open and leases messages until the connection
  ends; `EventuallyHandled` needs the deadline (`TimeoutMs = TRUE`), and the
  mutant that forgets it violates the property. On a queue with
  `max_redelivery_count` the abandoned stream's leases count as deliveries
  (`mq.rs:201`, `217`): a message may be dead-lettered that no application ever
  saw. `EventuallyHandled` says so: in the end a message is acknowledged, or it is
  in the DLQ and was leased that often.
* SDK: a snapshot that is no JSON rejects `getRelease` and `watch` although the call
  succeeded (`NotJson`).
* Admin UI: while the draft of a newly selected scope loads, and after it could
  not be loaded, the editor still holds the item of the previous one and Save
  writes it into the new scope (`App.tsx:674-718`); `EditorFollowsDraft` holds once
  the draft is there, and would not catch this. The late answer of `removeSchema`
  clears the schema editor of whatever scope is selected by then.
* Admin UI: `openspec/specs/config-center/spec.md:114` asks that the saved draft
  value is shown after a Save, and line 118 that the newly published revision is
  shown in the release history after a Publish. The loads of `ConfigDetails` depend
  on the selected scope alone (`[query]`, `App.tsx:660-668`), so neither table is
  loaded again: both appear when the scope is selected anew. `FreshPanels` claims
  no more than that a table is no older than its selection, and passes although
  this requirement is not met.
* Admin UI: a token the server refuses is kept, and nothing asks for another; the
  page reports a failure everywhere until the tab is closed.
* Admin UI: of two rotations of one client answered out of order the older secret
  stays on the screen, which no longer works, and one that is answered after the
  view was left is lost. `SecretIsOfTheNamed` claims only whose it is. The feedback of an
  older action may replace that of a newer one; Publish may overtake a Save that
  is still under way.

## 6. Plan

1. Done: `MqStore`, `MqContract`, `ConfigStore`, `CacheStore`, `MqLongPoll`,
   `ClientAuth`, `ProtoMessages`, `ProtoCodec`, `SdkCalls`, `SdkStream`, `AdminUi`
   and their runs; every invariant and every safety property of a passing run
   proved, and the refinement of the contract.
2. Left: the liveness properties, which stay with TLC; the remarks of section 5
   on cache expiry and capacity, on the results of `mget` and `read`, and on the
   Admin UI after Save and Publish, as properties with runs of their own.
