------------------------------ MODULE MqStore ------------------------------
(***************************************************************************)
(* The message queue of pgapp: MqStore (crates/pgapp-core/src/mq.rs) over  *)
(* the tables of migrations/0002_mq.sql and 0005_dlq.sql.                  *)
(*                                                                         *)
(* Grain.  Every SQL statement is one atomic step (PostgreSQL, READ        *)
(* COMMITTED); every `.await` between two statements of a handler is a     *)
(* point where other workers and the clock run.  A worker is one RPC being *)
(* served; rpc[w] is what its future carries from one await to the next.   *)
(*                                                                         *)
(* Data.  A payload is its message id.  Time is a count of ticks from 1    *)
(* on, and SQL's NULL timestamp is the time 0: the code only ever asks     *)
(* "IS NULL OR <= now()" and "> now()", and 0 answers both as NULL does.   *)
(* A row whose queue_id is 0 is not in the table.                          *)
(***************************************************************************)
EXTENDS Integers, FiniteSets

CONSTANTS
    Workers,        \* RPCs served concurrently
    Names,          \* queue names clients use
    Ops,            \* the store operations clients call, a subset of AllOps
    Limits,         \* values of PGAPP_MAX_REDELIVERY_COUNT over restarts
    Delays,         \* delay_seconds clients ask for
    Visibilities,   \* visibility_timeout_seconds clients ask for
    MaxBatch,       \* max_batch_size, for SendBatch and Read
    Retention,      \* PGAPP_DLQ_RETENTION_DAYS in ticks, 0 is no sweeper
    MaxQueues,      \* bound: queue rows ever created
    MaxMsgs,        \* bound: message ids ever drawn from the sequence
    MaxReads,       \* bound: reads that deliver something
    MaxTime         \* bound: ticks of the clock

AllOps == {"send", "read", "ack", "archive", "set_visibility_timeout",
           "purge_queue", "dead_letter", "reprocess_dlq_message",
           "purge_dlq"}

ASSUME ConstantsAssumption ==
    /\ Ops \subseteq AllOps
    /\ Limits \subseteq Nat /\ Delays \subseteq Nat /\ Visibilities \subseteq Nat
    /\ MaxBatch \in Nat /\ MaxQueues \in Nat /\ MaxMsgs \in Nat
    /\ MaxReads \in Nat /\ MaxTime \in Nat /\ Retention \in Nat

VARIABLES
    mq_queues,      \* name -> id of the queue row, 0 if there is none
    limit,          \* queue id -> its max_redelivery_count, 0 for NULL
    next_queue,     \* sequence of mq_queues.id
    mq_messages,    \* message id -> active row
    mq_dlq,         \* original_message_id -> dead letter row
    mq_archives,    \* original_message_id -> queue_id, 0 if not archived
    next_id,        \* sequence of mq_messages.id
    now,            \* the database clock
    reads,          \* reads that delivered so far: the source of fresh tokens
    rpc,            \* worker -> the state of its handler
    deliveries,     \* history: what consumers were handed
    sent,           \* history: ids of committed sends
    last,           \* history: message -> number of its latest delivery
    promised,       \* history: message -> end of the window promised last
    settled         \* history: message -> delivery that acked or archived it

tables == <<mq_queues, limit, next_queue, mq_messages, mq_dlq, mq_archives>>
history == <<deliveries, sent, last, promised, settled>>
vars == <<tables, next_id, now, reads, rpc, history>>

MsgIds == 1..MaxMsgs
QueueIds == 1..MaxQueues
Token == (0..MaxMsgs) \X Nat \X Nat
NullToken == <<0, 0, 0>>

\* A delivery is one message of one read response; n numbers the read.
Delivery == [m: 0..MaxMsgs, tok: Token, n: Nat]
NoDelivery == [m |-> 0, tok |-> NullToken, n |-> 0]

MsgRow == [queue_id: 0..MaxQueues, available_at: Nat,
           visibility_timeout_at: Nat, ack_token: Token, read_count: Nat]
NoMsg == [queue_id |-> 0, available_at |-> 0, visibility_timeout_at |-> 0,
          ack_token |-> NullToken, read_count |-> 0]

DlqRow == [queue_id: 0..MaxQueues, read_count: Nat, dead_lettered_at: Nat]
NoDlq == [queue_id |-> 0, read_count |-> 0, dead_lettered_at |-> 0]

Steps == {"idle", "send_begin", "send_insert", "read_dead_letter",
          "read_claim", "ack", "archive_begin", "archive",
          "set_visibility_timeout", "purge_queue", "dead_letter",
          "reprocess_dlq_message", "purge_dlq"}

Rpc == [step: Steps, queue_id: 0..MaxQueues, ids: SUBSET MsgIds,
        d: Delivery, t: Nat]
Idle == [step |-> "idle", queue_id |-> 0, ids |-> {}, d |-> NoDelivery,
         t |-> 0]

-----------------------------------------------------------------------------
(* What the SQL conditions say.                                            *)

Active(m) == mq_messages[m].queue_id # 0
Dead(m) == mq_dlq[m].queue_id # 0
Archived(m) == mq_archives[m] # 0

QueueExists(q) == q # 0 /\ \E name \in Names : mq_queues[name] = q

VisibleIgnoringWindow(q) == {m \in MsgIds : /\ mq_messages[m].queue_id = q
                                            /\ mq_messages[m].available_at <= now}

\* available_at <= now() AND (visibility_timeout_at IS NULL OR <= now())
Visible(q) == {m \in MsgIds : /\ mq_messages[m].queue_id = q
                              /\ mq_messages[m].available_at <= now
                              /\ mq_messages[m].visibility_timeout_at <= now}

\* Rows dead_letter_due_messages moves: visible and read often enough.
DueDeadLetter(q) ==
    {m \in Visible(q) : limit[q] > 0 /\ mq_messages[m].read_count >= limit[q]}

\* ORDER BY id LIMIT n
FirstN(S, n) == {m \in S : Cardinality({k \in S : k <= m}) <= n}

\* md5(id : read_count + 1 : clock_timestamp() : random()); the clock and the
\* random part are one fresh number, md5 is taken to be injective.
AckTokenWithoutNonce(m, count, nonce) == <<m, count, 0>>
AckToken(m, count, nonce) == <<m, count, nonce>>

\* queue_id = $1 AND id = $2 AND ack_token = $3 AND visibility_timeout_at > t
HoldsNoToken(q, d, t) ==
    /\ d.m \in MsgIds
    /\ mq_messages[d.m].queue_id = q
    /\ mq_messages[d.m].visibility_timeout_at > t
HoldsNoExpiry(q, d, t) ==
    /\ d.m \in MsgIds
    /\ mq_messages[d.m].queue_id = q
    /\ mq_messages[d.m].ack_token = d.tok
Holds(q, d, t) ==
    /\ d.m \in MsgIds
    /\ mq_messages[d.m].queue_id = q
    /\ mq_messages[d.m].ack_token = d.tok
    /\ mq_messages[d.m].visibility_timeout_at > t

-----------------------------------------------------------------------------
TypeOK ==
    /\ mq_queues \in [Names -> 0..MaxQueues]
    /\ limit \in [QueueIds -> Nat]
    /\ next_queue \in 1..(MaxQueues + 1)
    /\ mq_messages \in [MsgIds -> MsgRow]
    /\ mq_dlq \in [MsgIds -> DlqRow]
    /\ mq_archives \in [MsgIds -> 0..MaxQueues]
    /\ next_id \in 1..(MaxMsgs + 1)
    /\ now \in Nat /\ reads \in Nat
    /\ rpc \in [Workers -> Rpc]
    /\ deliveries \in SUBSET Delivery
    /\ sent \in SUBSET MsgIds
    /\ last \in [MsgIds -> Nat]
    /\ promised \in [MsgIds -> Nat]
    /\ settled \in [MsgIds -> Nat]

\* apply_schema on an empty database.
Init ==
    /\ mq_queues = [name \in Names |-> 0]
    /\ limit = [q \in QueueIds |-> 0]
    /\ next_queue = 1
    /\ mq_messages = [m \in MsgIds |-> NoMsg]
    /\ mq_dlq = [m \in MsgIds |-> NoDlq]
    /\ mq_archives = [m \in MsgIds |-> 0]
    /\ next_id = 1
    /\ now = 1 /\ reads = 0
    /\ rpc = [w \in Workers |-> Idle]
    /\ deliveries = {} /\ sent = {}
    /\ last = [m \in MsgIds |-> 0]
    /\ promised = [m \in MsgIds |-> 0]
    /\ settled = [m \in MsgIds |-> 0]

-----------------------------------------------------------------------------
(* The environment: the clock, and futures dropped between two awaits.     *)

Tick ==
    /\ now < MaxTime
    /\ now' = now + 1
    /\ UNCHANGED <<tables, next_id, reads, rpc, history>>

Return(w) == rpc' = [rpc EXCEPT ![w] = Idle]

\* The request timeout drops the handler, the client cancels, or a statement
\* fails (a foreign key violation included): nothing uncommitted survives.
Abandon(w) ==
    /\ rpc[w].step # "idle"
    /\ Return(w)
    /\ UNCHANGED <<tables, next_id, now, reads, history>>

-----------------------------------------------------------------------------
(* Queue lifecycle.                                                        *)

\* ON CONFLICT (name) DO NOTHING: an existing queue keeps its row and limit.
create_queue(name, max_redelivery_count) ==
    /\ mq_queues[name] = 0
    /\ next_queue <= MaxQueues
    /\ mq_queues' = [mq_queues EXCEPT ![name] = next_queue]
    /\ limit' = [limit EXCEPT ![next_queue] = max_redelivery_count]
    /\ next_queue' = next_queue + 1
    /\ UNCHANGED <<mq_messages, mq_dlq, mq_archives, next_id, now, reads, rpc,
                   history>>

\* An uncommitted INSERT holds a key share lock on its queue's row: the
\* DELETE of that row waits for it, and then cascades to the new rows too.
SendLocks(q) == \E w \in Workers : rpc[w].ids # {} /\ rpc[w].queue_id = q

drop_queue_keeps_dlq(name) ==
    /\ mq_queues[name] # 0
    /\ ~SendLocks(mq_queues[name])
    /\ LET q == mq_queues[name] IN
        /\ mq_messages' = [m \in MsgIds |->
                IF mq_messages[m].queue_id = q THEN NoMsg ELSE mq_messages[m]]
        /\ mq_archives' = [m \in MsgIds |->
                IF mq_archives[m] = q THEN 0 ELSE mq_archives[m]]
    /\ mq_queues' = [mq_queues EXCEPT ![name] = 0]
    /\ UNCHANGED <<mq_dlq, limit, next_queue, next_id, now, reads, rpc, history>>

drop_queue(name) ==
    /\ mq_queues[name] # 0
    /\ ~SendLocks(mq_queues[name])
    /\ LET q == mq_queues[name] IN
        /\ mq_messages' = [m \in MsgIds |->
                IF mq_messages[m].queue_id = q THEN NoMsg ELSE mq_messages[m]]
        /\ mq_dlq' = [m \in MsgIds |->
                IF mq_dlq[m].queue_id = q THEN NoDlq ELSE mq_dlq[m]]
        /\ mq_archives' = [m \in MsgIds |->
                IF mq_archives[m] = q THEN 0 ELSE mq_archives[m]]
    /\ mq_queues' = [mq_queues EXCEPT ![name] = 0]
    /\ UNCHANGED <<limit, next_queue, next_id, now, reads, rpc, history>>

-----------------------------------------------------------------------------
(* Calls.  Every other operation first looks its queue up by name and then *)
(* works with the id it found, which may be stale by then.  NotFound and   *)
(* validation errors return before any effect and are no step.             *)

FirstStep(op) == CASE op = "send" -> "send_begin"
                   [] op = "read" -> "read_dead_letter"
                   [] op = "archive" -> "archive_begin"
                   [] OTHER -> op

TokenOps == {"ack", "archive", "set_visibility_timeout"}

queue_id(w, op, name, d) ==
    /\ rpc[w].step = "idle"
    /\ op \in Ops
    /\ mq_queues[name] # 0
    /\ rpc' = [rpc EXCEPT ![w] = [Idle EXCEPT !.step = FirstStep(op),
                                              !.queue_id = mq_queues[name],
                                              !.d = d]]
    /\ UNCHANGED <<tables, next_id, now, reads, history>>

\* From a handler of MqService or an admin route of the DLQ.
Call(w, op, name) == op \notin TokenOps /\ queue_id(w, op, name, NoDelivery)

\* A consumer settles or extends a delivery it was handed, however long ago.
CallWithToken(w, op, name, d) == op \in TokenOps /\ queue_id(w, op, name, d)

At(w, step) == rpc[w].step = step

-----------------------------------------------------------------------------
(* Production: send_value and send_batch are one transaction.              *)

\* BEGIN fixes now(), and with it available_at, for the whole batch.
send_begin(w) ==
    /\ At(w, "send_begin")
    /\ \E delay \in Delays :
        rpc' = [rpc EXCEPT ![w].step = "send_insert", ![w].t = now + delay]
    /\ UNCHANGED <<tables, next_id, now, reads, history>>

\* One INSERT: its id comes from the sequence and is burnt by a rollback; the
\* foreign key needs the queue row.  The row is invisible until commit.
send_insert(w) ==
    /\ At(w, "send_insert")
    /\ QueueExists(rpc[w].queue_id)
    /\ Cardinality(rpc[w].ids) < MaxBatch
    /\ next_id <= MaxMsgs
    /\ next_id' = next_id + 1
    /\ rpc' = [rpc EXCEPT ![w].ids = @ \cup {next_id}]
    /\ UNCHANGED <<tables, now, reads, history>>

\* pg_notify takes effect here as well; who hears it is left to long polling.
send_commit(w) ==
    /\ At(w, "send_insert")
    /\ rpc[w].ids # {}
    /\ mq_messages' = [m \in MsgIds |->
            IF m \in rpc[w].ids
            THEN [NoMsg EXCEPT !.queue_id = rpc[w].queue_id,
                               !.available_at = rpc[w].t]
            ELSE mq_messages[m]]
    /\ sent' = sent \cup rpc[w].ids
    /\ Return(w)
    /\ UNCHANGED <<mq_queues, limit, next_queue, mq_dlq, mq_archives, next_id,
                   now, reads, deliveries, last, promised, settled>>

-----------------------------------------------------------------------------
(* Consumption: read is two statements, each with its own now().           *)

\* Moves rows S from mq_messages to mq_dlq in one statement.  A row already
\* in mq_dlq stays as it is (ON CONFLICT DO NOTHING): SinglePlacement shows
\* that this never swallows a message.
MoveToDlq(S) ==
    /\ mq_messages' = [m \in MsgIds |-> IF m \in S THEN NoMsg
                                                   ELSE mq_messages[m]]
    /\ mq_dlq' = [m \in MsgIds |->
            IF m \in S /\ ~Dead(m)
            THEN [queue_id |-> mq_messages[m].queue_id,
                  read_count |-> mq_messages[m].read_count,
                  dead_lettered_at |-> now]
            ELSE mq_dlq[m]]

dead_letter_due_messages(w) ==
    /\ At(w, "read_dead_letter")
    /\ IF QueueExists(rpc[w].queue_id)
       THEN MoveToDlq(DueDeadLetter(rpc[w].queue_id))
       ELSE UNCHANGED <<mq_messages, mq_dlq>>
    /\ rpc' = [rpc EXCEPT ![w].step = "read_claim"]
    /\ UNCHANGED <<mq_queues, limit, next_queue, mq_archives, next_id, now,
                   reads, history>>

\* SKIP LOCKED: rows another worker on the same queue is touching are passed
\* over; alone on the queue a reader skips nothing.
MaySkip(w) == \E v \in Workers \ {w} : /\ rpc[v].step # "idle"
                                       /\ rpc[v].queue_id = rpc[w].queue_id

\* The UPDATE of the claimed rows, the response, and its history.
Claim(picked, secs) ==
    LET n == reads + 1
        token(m) == AckToken(m, mq_messages[m].read_count + 1, n)
    IN /\ reads' = n
       /\ mq_messages' = [m \in MsgIds |->
              IF m \in picked
              THEN [mq_messages[m] EXCEPT
                        !.visibility_timeout_at = now + secs,
                        !.ack_token = token(m),
                        !.read_count = @ + 1]
              ELSE mq_messages[m]]
       /\ deliveries' = deliveries \cup
              {[m |-> m, tok |-> token(m), n |-> n] : m \in picked}
       /\ last' = [m \in MsgIds |-> IF m \in picked THEN n ELSE last[m]]
       /\ promised' = [m \in MsgIds |->
              IF m \in picked THEN now + secs ELSE promised[m]]

Claimable(w) == Visible(rpc[w].queue_id)

read(w) ==
    /\ At(w, "read_claim")
    /\ \E quantity \in 1..MaxBatch, secs \in Visibilities,
          skipped \in SUBSET Claimable(w) :
        LET picked == FirstN(Claimable(w) \ skipped, quantity) IN
        /\ skipped # {} => MaySkip(w)
        /\ picked # {}
        /\ reads < MaxReads
        /\ Claim(picked, secs)
    /\ Return(w)
    /\ UNCHANGED <<mq_queues, limit, next_queue, mq_dlq, mq_archives, next_id,
                   now, sent, settled>>

read_empty(w) ==
    /\ At(w, "read_claim")
    /\ Claimable(w) = {} \/ MaySkip(w)
    /\ Return(w)
    /\ UNCHANGED <<tables, next_id, now, reads, history>>

-----------------------------------------------------------------------------
(* Acknowledgement: the delivery a consumer names must hold the message.   *)

\* History of a successful ack or archive of delivery d.
Settle(d) == settled' = [settled EXCEPT ![d.m] = d.n]

Remove(m) == mq_messages' = [mq_messages EXCEPT ![m] = NoMsg]

ack(w) ==
    /\ At(w, "ack")
    /\ LET d == rpc[w].d IN
        IF Holds(rpc[w].queue_id, d, now)
        THEN Remove(d.m) /\ Settle(d)
        ELSE UNCHANGED <<mq_messages, settled>>
    /\ Return(w)
    /\ UNCHANGED <<mq_queues, limit, next_queue, mq_dlq, mq_archives, next_id,
                   now, reads, deliveries, sent, last, promised>>

\* BEGIN fixes now() for the whole transaction, a round trip before the
\* statement that compares visibility_timeout_at with it.
archive_begin(w) ==
    /\ At(w, "archive_begin")
    /\ rpc' = [rpc EXCEPT ![w].step = "archive", ![w].t = now]
    /\ UNCHANGED <<tables, next_id, now, reads, history>>

archive(w) ==
    /\ At(w, "archive")
    /\ LET d == rpc[w].d IN
        IF Holds(rpc[w].queue_id, d, rpc[w].t)
        THEN /\ Remove(d.m)
             /\ Settle(d)
             /\ mq_archives' = [mq_archives EXCEPT ![d.m] = rpc[w].queue_id]
        ELSE UNCHANGED <<mq_messages, settled, mq_archives>>
    /\ Return(w)
    /\ UNCHANGED <<mq_queues, limit, next_queue, mq_dlq, next_id, now, reads,
                   deliveries, sent, last, promised>>

\* Only the latest consumer can move the end of what it was promised.
set_visibility_timeout(w) ==
    /\ At(w, "set_visibility_timeout")
    /\ LET d == rpc[w].d IN
        IF Holds(rpc[w].queue_id, d, now)
        THEN \E secs \in Visibilities :
                /\ mq_messages' = [mq_messages EXCEPT
                        ![d.m].visibility_timeout_at = now + secs]
                /\ promised' = IF d.n = last[d.m]
                               THEN [promised EXCEPT ![d.m] = now + secs]
                               ELSE promised
        ELSE UNCHANGED <<mq_messages, promised>>
    /\ Return(w)
    /\ UNCHANGED <<mq_queues, limit, next_queue, mq_dlq, mq_archives, next_id,
                   now, reads, deliveries, sent, last, settled>>

-----------------------------------------------------------------------------
(* Administration.                                                         *)

purge_queue(w) ==
    /\ At(w, "purge_queue")
    /\ mq_messages' = [m \in MsgIds |->
            IF mq_messages[m].queue_id = rpc[w].queue_id THEN NoMsg
                                                         ELSE mq_messages[m]]
    /\ Return(w)
    /\ UNCHANGED <<mq_queues, limit, next_queue, mq_dlq, mq_archives, next_id,
                   now, reads, history>>

\* Takes the message away even from a consumer that holds it: the promise
\* made to that consumer is revoked.
dead_letter(w) ==
    /\ At(w, "dead_letter")
    /\ \E m \in MsgIds :
        IF mq_messages[m].queue_id = rpc[w].queue_id
        THEN MoveToDlq({m}) /\ promised' = [promised EXCEPT ![m] = 0]
        ELSE UNCHANGED <<mq_messages, mq_dlq, promised>>
    /\ Return(w)
    /\ UNCHANGED <<mq_queues, limit, next_queue, mq_archives, next_id, now,
                   reads, deliveries, sent, last, settled>>

\* The row goes back under its original id with read_count 0.  The INSERT
\* names the id, so a row already there would make it fail.
reprocess_keeps_dlq(w) ==
    /\ At(w, "reprocess_dlq_message")
    /\ \E m \in MsgIds :
        /\ mq_dlq[m].queue_id = rpc[w].queue_id /\ ~Active(m)
        /\ mq_messages' = [mq_messages EXCEPT
               ![m] = [NoMsg EXCEPT !.queue_id = rpc[w].queue_id,
                                    !.available_at = now]]
    /\ Return(w)
    /\ UNCHANGED <<mq_queues, limit, next_queue, mq_dlq, mq_archives, next_id,
                   now, reads, history>>
reprocess_dlq_message(w) ==
    /\ At(w, "reprocess_dlq_message")
    /\ \E m \in MsgIds :
        IF mq_dlq[m].queue_id = rpc[w].queue_id /\ ~Active(m)
        THEN /\ mq_dlq' = [mq_dlq EXCEPT ![m] = NoDlq]
             /\ mq_messages' = [mq_messages EXCEPT
                    ![m] = [NoMsg EXCEPT !.queue_id = rpc[w].queue_id,
                                         !.available_at = now]]
        ELSE UNCHANGED <<mq_messages, mq_dlq>>
    /\ Return(w)
    /\ UNCHANGED <<mq_queues, limit, next_queue, mq_archives, next_id, now,
                   reads, history>>

DeleteDlq(S) == mq_dlq' = [m \in MsgIds |-> IF m \in S THEN NoDlq ELSE mq_dlq[m]]

purge_dlq(w) ==
    /\ At(w, "purge_dlq")
    /\ DeleteDlq({m \in MsgIds : mq_dlq[m].queue_id = rpc[w].queue_id})
    /\ Return(w)
    /\ UNCHANGED <<mq_queues, limit, next_queue, mq_messages, mq_archives,
                   next_id, now, reads, history>>

\* The hourly task of spawn_dlq_sweeper, for every queue at once.
sweep_dlq ==
    /\ Retention > 0
    /\ LET old == {m \in MsgIds : Dead(m)
                        /\ mq_dlq[m].dead_lettered_at < now - Retention} IN
        old # {} /\ DeleteDlq(old)
    /\ UNCHANGED <<mq_queues, limit, next_queue, mq_messages, mq_archives,
                   next_id, now, reads, rpc, history>>

-----------------------------------------------------------------------------
Handler(w) ==
    \/ send_begin(w) \/ send_insert(w) \/ send_commit(w)
    \/ dead_letter_due_messages(w) \/ read(w) \/ read_empty(w)
    \/ ack(w) \/ archive_begin(w) \/ archive(w) \/ set_visibility_timeout(w)
    \/ purge_queue(w) \/ dead_letter(w)
    \/ reprocess_dlq_message(w) \/ purge_dlq(w)

Next ==
    \/ Tick \/ sweep_dlq
    \/ \E name \in Names : drop_queue(name)
    \/ \E name \in Names, lim \in Limits : create_queue(name, lim)
    \/ \E w \in Workers :
        \/ Abandon(w) \/ Handler(w)
        \/ \E name \in Names, op \in Ops : Call(w, op, name)
        \/ \E name \in Names, op \in Ops, d \in deliveries :
                CallWithToken(w, op, name, d)

Spec == Init /\ [][Next]_vars

-----------------------------------------------------------------------------
(* Properties.                                                             *)

\* A message id is in at most one of mq_messages, mq_dlq and mq_archives: no
\* interleaving of read, dead_letter, reprocess_dlq_message and archive makes
\* a copy, and ON CONFLICT DO NOTHING in mq_dlq never swallows a message.
SinglePlacement ==
    \A m \in MsgIds : /\ ~(Active(m) /\ Dead(m))
                      /\ ~(Active(m) /\ Archived(m))
                      /\ ~(Dead(m) /\ Archived(m))

\* Acking or archiving is final and belongs to the latest delivery: whoever
\* settles a message is the last consumer it was handed to, and afterwards it
\* is neither delivered again nor found in mq_messages or mq_dlq.
SettledIsFinal ==
    \A m \in MsgIds : settled[m] # 0 =>
        settled[m] = last[m] /\ ~Active(m) /\ ~Dead(m)

\* drop_queue and a concurrent send, archive, dead lettering or reprocessing
\* leave no row of a queue that is gone, not even an uncommitted one.
NoOrphans ==
    /\ \A m \in MsgIds :
        /\ Active(m) => QueueExists(mq_messages[m].queue_id)
        /\ Dead(m) => QueueExists(mq_dlq[m].queue_id)
        /\ Archived(m) => QueueExists(mq_archives[m])
    /\ \A w \in Workers : rpc[w].ids # {} => QueueExists(rpc[w].queue_id)

\* A message is handed out only when the window promised to its previous
\* consumer, extensions included, is over: read never delivers it to two
\* consumers at a time, whoever dead letters and reprocesses it in between.
NoOverlappingDelivery ==
    [][\A d \in deliveries' \ deliveries : promised[d.m] <= now]_vars

\* What docs/dlq.md and openspec/specs/mq-dead-letter-queue/spec.md say of
\* max_redelivery_count: once it is reached, the next read moves the message
\* to mq_dlq instead of returning it.
RedeliveryBounded ==
    \A m \in MsgIds : LET q == mq_messages[m].queue_id IN
        Active(m) /\ limit[q] > 0 => mq_messages[m].read_count <= limit[q]

-----------------------------------------------------------------------------
(* Why they hold: the invariant the proofs are by induction on.            *)

\* Queue ids are never reused, no two names share one, and a handler has one.
QueueIdsUnique ==
    /\ \A w \in Workers : rpc[w].step # "idle" => rpc[w].queue_id # 0
    /\ \A name \in Names : mq_queues[name] < next_queue
    /\ \A a, b \in Names : mq_queues[a] = mq_queues[b] /\ mq_queues[a] # 0 => a = b

\* An id that is not committed: it has no row and no history.
Unborn(m) == /\ ~Active(m) /\ ~Dead(m) /\ ~Archived(m)
             /\ m \notin sent /\ last[m] = 0 /\ promised[m] = 0

\* Ids not drawn yet, or drawn by a transaction still open, are unborn, and
\* no two transactions draw the same id.
IdsFresh ==
    /\ \A m \in MsgIds : m >= next_id => Unborn(m)
    /\ \A w \in Workers : \A m \in rpc[w].ids : m < next_id /\ Unborn(m)
    /\ \A v, w \in Workers : v # w => rpc[v].ids \cap rpc[w].ids = {}
    /\ \A m \in MsgIds : Active(m) \/ Dead(m) \/ Archived(m) => m \in sent

\* The token of a row is NULL or names the latest delivery of the message.
TokensCurrent ==
    /\ \A m \in MsgIds : mq_messages[m].ack_token[3] \in {0, last[m]}
    /\ \A m \in MsgIds : last[m] <= reads

\* What a consumer can present: a delivery that took place, or nothing.
DeliveriesReal ==
    /\ \A d \in deliveries : d.m \in MsgIds /\ d.n > 0 /\ d.tok[3] = d.n
    /\ \A w \in Workers : rpc[w].d \in deliveries \cup {NoDelivery}

\* A promise to a consumer is kept by the row's window or is over.
PromisesKept ==
    \A m \in MsgIds :
        /\ Active(m) => \/ promised[m] <= mq_messages[m].visibility_timeout_at
                        \/ promised[m] <= now
        /\ Dead(m) => promised[m] <= now

\* A row that is not there has no window and no token.
AbsentIsNoMsg == \A m \in MsgIds : ~Active(m) => mq_messages[m] = NoMsg

\* The inductive invariant: the properties above hold because ids, queue ids
\* and tokens are fresh, and because uncommitted rows have no past.
IInv ==
    /\ TypeOK /\ SinglePlacement /\ SettledIsFinal /\ NoOrphans
    /\ QueueIdsUnique /\ IdsFresh /\ TokensCurrent /\ DeliveriesReal
    /\ PromisesKept /\ AbsentIsNoMsg

-----------------------------------------------------------------------------
(* The store implements the contract.  A lease is the token in the row.    *)

placeOf(m) == IF Active(m) THEN "queued"
              ELSE IF Dead(m) THEN "dead"
              ELSE IF Archived(m) THEN "archived"
              ELSE IF m \in sent THEN "gone" ELSE "unsent"

Contract == INSTANCE MqContract WITH
    Messages <- MsgIds,
    place <- [m \in MsgIds |-> placeOf(m)],
    holder <- [m \in MsgIds |-> mq_messages[m].ack_token[3]],
    until <- [m \in MsgIds |-> mq_messages[m].visibility_timeout_at],
    serial <- reads,
    clock <- now,
    settledBy <- settled

\* Every statement of mq.rs, whatever runs between it and the previous one,
\* is one step of the contract or changes nothing a client could tell.
ImplementsContract == Contract!CSpec
=============================================================================
