----------------------------- MODULE MqLongPoll -----------------------------
(***************************************************************************)
(* Waiting for messages: ReadWithPoll and StreamRead of the MQ service     *)
(* (crates/pgapp-server/src/lib.rs), read_with_poll of MqStore (mq.rs) and *)
(* the LISTEN connection of listen.rs.                                     *)
(*                                                                         *)
(* Grain.  A read is two steps, because calls on one queue run into each   *)
(* other there: its subquery locks rows FOR UPDATE SKIP LOCKED, and the    *)
(* statement ends.  MqStore has the rest of what read does.                *)
(*                                                                         *)
(* Data.  One queue; of a message only where it is; of a read's quantity   *)
(* and order only that it takes something if there is anything.  Time is   *)
(* left out: a delay, a window, a poll interval and a deadline may end at  *)
(* any moment after they began.                                            *)
(***************************************************************************)
EXTENDS Integers, FiniteSets

CONSTANTS
    Calls,      \* calls that wait for messages
    Messages,   \* messages ever sent
    MaxSends    \* bound: committed sends

ASSUME ConstantsAssumption == MaxSends \in Nat

VARIABLES
    place,      \* message -> where it is
    call,       \* call -> the state of its handler
    pending,    \* call -> notifications its listener has not handed out
    sends,      \* committed sends so far, for the bound
    fresh,      \* history: visible since they were sent, and never locked
    missed      \* history: calls whose connection broke since their last read

vars == <<place, call, pending, sends, fresh, missed>>

Places == {"unsent", "delayed", "visible", "leased"}

\* "poll" is MqStore::read_with_poll, when notify_enabled is off; "notify" is
\* read_with_notify_or_poll; "stream" is StreamRead.
Kinds == {"poll", "notify", "stream"}

Steps == {"idle", "connect", "read", "claim", "check", "wait", "sleep", "yield"}

\* listener: None, a connection that listens, or one that broke unnoticed
Call == [step: Steps, kind: Kinds, listener: {"none", "up", "lost"},
         deadline: {"ahead", "passed"}, locked: SUBSET Messages]
Idle == [step |-> "idle", kind |-> "poll", listener |-> "none",
         deadline |-> "ahead", locked |-> {}]

TypeOK ==
    /\ place \in [Messages -> Places]
    /\ call \in [Calls -> Call]
    /\ pending \in [Calls -> Nat]
    /\ sends \in Nat
    /\ fresh \in SUBSET Messages
    /\ missed \in SUBSET Calls

Init ==
    /\ place = [m \in Messages |-> "unsent"]
    /\ call = [c \in Calls |-> Idle]
    /\ pending = [c \in Calls |-> 0]
    /\ sends = 0
    /\ fresh = {} /\ missed = {}

At(c, step) == call[c].step = step
Goto(c, step) == call' = [call EXCEPT ![c].step = step]
In(S, p) == \A m \in S : place[m] = p
Move(S, p) == place' = [m \in Messages |-> IF m \in S THEN p ELSE place[m]]

-----------------------------------------------------------------------------
(* The queue, as the other operations of MqStore move it.                  *)

\* pg_notify of the transaction, once whatever the number of messages: it
\* reaches the connections that listen when it commits.
NotifiedSingle(c, S) == call[c].listener = "up" /\ Cardinality(S) = 1
Notified(c, S) == call[c].listener = "up"

\* send or send_batch commits.
send(S, p) ==
    /\ S # {} /\ In(S, "unsent") /\ p \in {"visible", "delayed"}
    /\ sends < MaxSends
    /\ sends' = sends + 1
    /\ Move(S, p)
    /\ pending' = [c \in Calls |-> IF Notified(c, S) THEN pending[c] + 1
                                                     ELSE pending[c]]
    /\ fresh' = IF p = "visible" THEN fresh \cup S ELSE fresh
    /\ UNCHANGED <<call, missed>>

\* A delay or a visibility window is over.  Nothing is notified.  A message
\* that is settled stays "leased" for good.
becomes_visible(m) ==
    /\ place[m] \in {"delayed", "leased"}
    /\ Move({m}, "visible")
    /\ UNCHANGED <<call, pending, sends, fresh, missed>>

-----------------------------------------------------------------------------
(* A waiting call.                                                         *)

\* Validation, and the deadline is set.  Only "poll" does not listen.
begin(c, kind) ==
    /\ At(c, "idle")
    /\ call' = [call EXCEPT ![c] = [Idle EXCEPT !.kind = kind,
            !.step = IF kind = "poll" THEN "read" ELSE "connect"]]
    /\ UNCHANGED <<place, pending, sends, fresh, missed>>

\* MqListener::connect, before the first read.  It fails, or a stream finds
\* notify_enabled off: polling it is, for the rest of the call.
connect(c) ==
    /\ At(c, "connect")
    /\ \E listener \in {"up", "none"} :
        call' = [call EXCEPT ![c].step = "read", ![c].listener = listener]
    /\ UNCHANGED <<place, pending, sends, fresh, missed>>

Locked(m) == \E c \in Calls : m \in call[c].locked
Available == {m \in Messages : place[m] = "visible" /\ ~Locked(m)}

\* FOR UPDATE SKIP LOCKED
read_lock(c) ==
    /\ At(c, "read")
    /\ \E S \in SUBSET Available :
        /\ S = {} => Available = {}
        /\ call' = [call EXCEPT ![c].step = IF S = {} THEN "check" ELSE "claim",
                                ![c].locked = S]
        /\ fresh' = fresh \ S
    /\ missed' = IF call[c].listener = "up" THEN missed \ {c} ELSE missed
    /\ UNCHANGED <<place, pending, sends>>

\* The call is over; its listener goes with it.
Ended(c) ==
    /\ call' = [call EXCEPT ![c] = Idle]
    /\ pending' = [pending EXCEPT ![c] = 0]
    /\ missed' = missed \ {c}

\* The UPDATE takes effect.  A long poll answers, a stream hands out an item.
read_claim(c) ==
    /\ At(c, "claim")
    /\ Move(call[c].locked, "leased")
    /\ \/ /\ call[c].kind = "stream"
          /\ call' = [call EXCEPT ![c].step = "yield", ![c].locked = {}]
          /\ UNCHANGED <<pending, missed>>
       \/ call[c].kind # "stream" /\ Ended(c)
    /\ UNCHANGED <<sends, fresh>>

\* The client takes the item and asks for the next one: unfold runs on.
stream_read_next(c) ==
    /\ At(c, "yield")
    /\ Goto(c, "read")
    /\ UNCHANGED <<place, pending, sends, fresh, missed>>

\* Instant::now() >= deadline; a stream has none.
ExpiredNever(c) == FALSE
Expired(c) == call[c].kind # "stream" /\ call[c].deadline = "passed"

\* Nothing read: the empty answer, or a wait on the listener or a sleep.
check_then_listen(c) ==
    /\ At(c, "check")
    /\ IF Expired(c) THEN Ended(c)
       ELSE /\ call' = [call EXCEPT ![c].step = "wait", ![c].listener = "up"]
            /\ UNCHANGED <<pending, missed>>
    /\ UNCHANGED <<place, sends, fresh>>
check(c) ==
    /\ At(c, "check")
    /\ IF Expired(c) THEN Ended(c)
       ELSE /\ Goto(c, IF call[c].listener = "none" THEN "sleep" ELSE "wait")
            /\ UNCHANGED <<pending, missed>>
    /\ UNCHANGED <<place, sends, fresh>>

\* tokio::time::timeout(wait, listener.recv()): a notification, ...
recv(c) ==
    /\ At(c, "wait") /\ call[c].listener = "up" /\ pending[c] > 0
    /\ pending' = [pending EXCEPT ![c] = @ - 1]
    /\ Goto(c, "read")
    /\ UNCHANGED <<place, sends, fresh, missed>>

\* ... the poll interval (or what remains of the deadline), ...
wait_without_timeout(c) == FALSE /\ UNCHANGED vars
wait_timeout(c) ==
    /\ At(c, "wait")
    /\ Goto(c, "read")
    /\ UNCHANGED <<place, pending, sends, fresh, missed>>

\* ... or an error, after which the call never listens again.
recv_error(c) ==
    /\ At(c, "wait") /\ call[c].listener = "lost"
    /\ call' = [call EXCEPT ![c].listener = "none", ![c].step = "sleep"]
    /\ missed' = missed \ {c}
    /\ UNCHANGED <<place, pending, sends, fresh>>

sleep_over(c) ==
    /\ At(c, "sleep")
    /\ Goto(c, "read")
    /\ UNCHANGED <<place, pending, sends, fresh, missed>>

deadline(c) ==
    /\ ~At(c, "idle") /\ call[c].kind # "stream" /\ call[c].deadline = "ahead"
    /\ call' = [call EXCEPT ![c].deadline = "passed"]
    /\ UNCHANGED <<place, pending, sends, fresh, missed>>

\* The request timeout, a client that cancels, a read that fails.  Dropping
\* the future does not cancel a statement PostgreSQL is executing: it commits
\* and nobody hears of it.
Abandon(c) ==
    /\ ~At(c, "idle")
    /\ Move(call[c].locked, "leased")
    /\ Ended(c)
    /\ UNCHANGED <<sends, fresh>>

-----------------------------------------------------------------------------
(* The LISTEN connection: PgListener of sqlx.                              *)

\* The connection breaks; what it had received is gone.
connection_lost(c) ==
    /\ call[c].listener = "up"
    /\ call' = [call EXCEPT ![c].listener = "lost"]
    /\ pending' = [pending EXCEPT ![c] = 0]
    /\ missed' = missed \cup {c}
    /\ UNCHANGED <<place, sends, fresh>>

\* recv reconnects and listens again by itself, if it can; what was notified
\* in between is lost, and recv goes on waiting.
recv_reconnect(c) ==
    /\ At(c, "wait") /\ call[c].listener = "lost"
    /\ call' = [call EXCEPT ![c].listener = "up"]
    /\ UNCHANGED <<place, pending, sends, fresh, missed>>

-----------------------------------------------------------------------------
Handler(c) ==
    \/ connect(c) \/ read_lock(c) \/ read_claim(c) \/ check(c)
    \/ wait_timeout(c) \/ sleep_over(c)

Next ==
    \/ \E S \in SUBSET Messages, p \in Places : send(S, p)
    \/ \E m \in Messages : becomes_visible(m)
    \/ \E c \in Calls :
        \/ Handler(c) \/ recv(c) \/ recv_error(c) \/ stream_read_next(c)
        \/ deadline(c) \/ Abandon(c) \/ connection_lost(c) \/ recv_reconnect(c)
        \/ \E kind \in Kinds : begin(c, kind)

Spec == Init /\ [][Next]_vars

-----------------------------------------------------------------------------
(* Properties.                                                             *)

\* No wakeup is lost: a call that has read nothing and waits on its listener
\* has a notification to come for a message sent since.  LISTEN comes before
\* the read, and pg_notify commits with the message; only what was locked by
\* another read, delayed, or sent while the connection was broken is left to
\* the poll interval.
NoLostWakeup ==
    \A c \in Calls \ missed :
        At(c, "wait") /\ call[c].listener = "up" /\ fresh # {} => pending[c] > 0

\* Why: the notification is there from the moment the read found nothing; and
\* what is fresh is visible and not locked, so that an empty read saw none.
ListensSinceRead ==
    \A c \in Calls \ missed :
        call[c].step \in {"check", "wait"} /\ call[c].listener = "up"
            /\ fresh # {} => pending[c] > 0
FreshIsAvailable == fresh \subseteq Available
LockedAreSent == \A c \in Calls : \A m \in call[c].locked : place[m] # "unsent"
MissedListens == \A c \in Calls : call[c].listener = "lost" => c \in missed

\* The inductive invariant of the proofs.
IInv == TypeOK /\ ListensSinceRead /\ FreshIsAvailable /\ LockedAreSent
        /\ MissedListens

-----------------------------------------------------------------------------
(* Fairness: tokio polls every call, PostgreSQL answers its reads, timers   *)
(* fire.  None for notifications, reconnections, consumers or clients.     *)
Fairness == \A c \in Calls : WF_vars(Handler(c)) /\ WF_vars(deadline(c))
FairSpec == Spec /\ Fairness

\* A long poll ends, whatever is sent, stolen by others or lost meanwhile.
LongPollEnds ==
    \A c \in Calls : ~At(c, "idle") /\ call[c].kind # "stream" ~> At(c, "idle")

\* A message that stays visible does not wait for a NOTIFY: an open stream
\* hands out something, or the message goes to somebody else.
StreamDelivers ==
    \A c \in Calls, m \in Messages :
        ~At(c, "idle") /\ call[c].kind = "stream" /\ place[m] = "visible"
            ~> call[c].step \in {"yield", "idle"} \/ place[m] # "visible"
=============================================================================
