------------------------------ MODULE SdkStream ------------------------------
(***************************************************************************)
(* A consumer on streamRead of the TypeScript SDK                          *)
(* (sdk/typescript/src/index.ts): an application that iterates over the    *)
(* messages of a queue, acknowledges them, leaves the loop when it likes   *)
(* and comes back.  The server leases what it pushes into a stream until a *)
(* window ends; a delivery is live as long as its lease is.  Leaving the   *)
(* loop ends the generator but not the call: nothing in the SDK cancels    *)
(* it, so the server goes on pushing into a stream nobody reads until the  *)
(* deadline of the client ends it.                                         *)
(***************************************************************************)
EXTENDS Naturals, FiniteSets, SequencesExt

CONSTANTS Messages, Streams,
          TimeoutMs,   \* whether the client has a timeoutMs
          Limits,      \* max_redelivery_count of the queue, 0 for no limit
          Quantity,    \* messages in a response, at most
          None,
          MaxBuffer,   \* bound: responses that wait to be read
          MaxBreaks,   \* bound: how often the application leaves the loop
          MaxLate      \* bound: windows that end before the consumer is done

ASSUME StreamAssumption ==
    /\ IsFiniteSet(Messages) /\ TimeoutMs \in BOOLEAN /\ Limits \subseteq Nat
    /\ Quantity \in Nat \ {0} /\ MaxBuffer \in Nat \ {0} /\ MaxBreaks \in Nat /\ MaxLate \in Nat

VARIABLES queue,    \* message -> "visible", "leased", "gone" (acknowledged) or "dead" (in the DLQ)
          limit,    \* max_redelivery_count
          reads,    \* message -> its read_count, as far as limit tells it apart
          stream,   \* the streams: the call, and the generator over it
          held,     \* the delivery the body of the loop is working on
          breaks, late

server == <<limit, reads>>
vars == <<queue, server, stream, held, breaks, late>>

QueueState == {"visible", "leased", "gone", "dead"}

Delivery == [msg : Messages, live : BOOLEAN]
ASSUME NoneAssumption == None \notin Delivery
Fresh(m) == [msg |-> m, live |-> TRUE]

NoStream == [open |-> FALSE, deadline |-> FALSE, claiming |-> FALSE, read |-> FALSE,
             responses |-> <<>>, current |-> <<>>]

TypeOK ==
    /\ queue \in [Messages -> QueueState]
    /\ limit \in Limits /\ reads \in [Messages -> 0 .. limit]
    /\ stream \in [Streams -> [open : BOOLEAN, deadline : BOOLEAN, claiming : BOOLEAN, read : BOOLEAN,
                               responses : Seq(Seq(Delivery)), current : Seq(Delivery)]]
    /\ held \in Delivery \cup {None}
    /\ breaks \in 0 .. MaxBreaks /\ late \in 0 .. MaxLate

Init ==
    /\ queue = [m \in Messages |-> "visible"]
    /\ limit \in Limits /\ reads = [m \in Messages |-> 0]
    /\ stream = [s \in Streams |-> NoStream]
    /\ held = None
    /\ breaks = 0 /\ late = 0

Reading(s) == stream[s].read
-----------------------------------------------------------------------------
(* The generator.  It runs while the application waits for the next value. *)

OpenWithoutOptions(s) ==
    /\ held = None
    /\ \A t \in Streams : ~Reading(t)
    /\ ~stream[s].open
    /\ stream' = [stream EXCEPT ![s] = [NoStream EXCEPT !.open = TRUE, !.read = TRUE]]
    /\ UNCHANGED <<queue, server, held, breaks, late>>

\* The call is made with rpcOptions, so timeoutMs limits the stream too.
Open(s) ==
    /\ held = None
    /\ \A t \in Streams : ~Reading(t)
    /\ ~stream[s].open
    /\ stream' = [stream EXCEPT ![s] = [NoStream EXCEPT !.open = TRUE, !.read = TRUE,
                                                         !.deadline = TimeoutMs]]
    /\ UNCHANGED <<queue, server, held, breaks, late>>

NextResponseKept(s) ==
    /\ Reading(s) /\ held = None
    /\ stream[s].current = <<>>
    /\ stream[s].responses # <<>>
    /\ stream' = [stream EXCEPT ![s].current = Head(stream[s].responses)]
    /\ UNCHANGED <<queue, server, held, breaks, late>>

\* for await: the next response, when the last one is used up.
NextResponse(s) ==
    /\ Reading(s) /\ held = None
    /\ stream[s].current = <<>>
    /\ stream[s].responses # <<>>
    /\ stream' = [stream EXCEPT ![s].current = Head(stream[s].responses),
                                ![s].responses = Tail(stream[s].responses)]
    /\ UNCHANGED <<queue, server, held, breaks, late>>

YieldFirst(s) ==
    /\ Reading(s) /\ held = None
    /\ stream[s].current # <<>>
    /\ held' = Head(stream[s].current)
    /\ stream' = [stream EXCEPT ![s].current = <<>>]
    /\ UNCHANGED <<queue, server, breaks, late>>

YieldId(s) ==
    /\ Reading(s) /\ held = None
    /\ stream[s].current # <<>>
    /\ held' = Head(stream[s].current).msg
    /\ stream' = [stream EXCEPT ![s].current = Tail(stream[s].current)]
    /\ UNCHANGED <<queue, server, breaks, late>>

Yield(s) ==
    /\ Reading(s) /\ held = None
    /\ stream[s].current # <<>>
    /\ held' = Head(stream[s].current)
    /\ stream' = [stream EXCEPT ![s].current = Tail(stream[s].current)]
    /\ UNCHANGED <<queue, server, breaks, late>>

\* What was received before the call ended is yielded first; then the
\* generator throws a PGAppError, or returns.
End(s) ==
    /\ Reading(s) /\ held = None
    /\ ~stream[s].open
    /\ stream[s].current = <<>> /\ stream[s].responses = <<>>
    /\ stream' = [stream EXCEPT ![s] = NoStream]
    /\ UNCHANGED <<queue, server, held, breaks, late>>
-----------------------------------------------------------------------------
(* The application: the body of its loop. *)

Settle(d) == IF d.live THEN [queue EXCEPT ![d.msg] = "gone"] ELSE queue

\* mq.ack with the token of the delivery: false if the lease is over.
Ack ==
    /\ held # None
    /\ queue' = Settle(held)
    /\ held' = None
    /\ UNCHANGED <<server, stream, breaks, late>>

\* continue
Skip ==
    /\ held # None
    /\ held' = None
    /\ UNCHANGED <<queue, server, stream, breaks, late>>

\* break, or the exception of an ack whose outcome is unknown: the generator
\* returns and forgets what it has not yielded; the call stays open.
Leave ==
    /\ held # None
    /\ breaks < MaxBreaks
    /\ queue' \in {queue, Settle(held)}
    /\ held' = None
    /\ stream' = [s \in Streams |->
                    IF Reading(s) THEN [stream[s] EXCEPT !.read = FALSE, !.responses = <<>>,
                                                         !.current = <<>>]
                    ELSE stream[s]]
    /\ breaks' = breaks + 1
    /\ UNCHANGED <<server, late>>
-----------------------------------------------------------------------------
(* The server and the transport. *)

\* The messages that have been delivered as often as the queue allows.
Due == {m \in Messages : queue[m] = "visible" /\ limit > 0 /\ reads[m] >= limit}

\* The first statement of a read: whatever is due goes to the DLQ.
dead_letter_due_messages(s) ==
    /\ stream[s].open /\ ~stream[s].claiming
    /\ Len(stream[s].responses) < MaxBuffer
    /\ queue' = [m \in Messages |-> IF m \in Due THEN "dead" ELSE queue[m]]
    /\ stream' = [stream EXCEPT ![s].claiming = TRUE]
    /\ UNCHANGED <<server, held, breaks, late>>

\* The second statement finds nothing: the server waits and reads again.
FindNothing(s) ==
    /\ stream[s].open /\ stream[s].claiming
    /\ \A m \in Messages : queue[m] # "visible"
    /\ stream' = [stream EXCEPT ![s].claiming = FALSE]
    /\ UNCHANGED <<queue, server, held, breaks, late>>

Counted(n) == IF n < limit THEN n + 1 ELSE n

Response(S) == LET ids == SetToSeq(S) IN [i \in DOMAIN ids |-> Fresh(ids[i])]

\* A stream that nobody reads swallows the response.
Pushed(x, S) ==
    IF x.read THEN [x EXCEPT !.claiming = FALSE, !.responses = Append(x.responses, Response(S))]
    ELSE [x EXCEPT !.claiming = FALSE]

\* It claims messages that are visible, also one whose window has ended
\* since the first statement, and the server pushes them as a response.
Push(s, S) ==
    /\ stream[s].open /\ stream[s].claiming
    /\ S # {} /\ Cardinality(S) <= Quantity
    /\ \A m \in S : queue[m] = "visible"
    /\ queue' = [m \in Messages |-> IF m \in S THEN "leased" ELSE queue[m]]
    /\ reads' = [m \in Messages |-> IF m \in S THEN Counted(reads[m]) ELSE reads[m]]
    /\ stream' = [stream EXCEPT ![s] = Pushed(stream[s], S)]
    /\ UNCHANGED <<limit, held, breaks, late>>

\* The call of read in stream_read_next.
Read(s) == dead_letter_due_messages(s) \/ FindNothing(s) \/ \E S \in SUBSET Messages : Push(s, S)

Stale(m, d) == IF d.msg = m THEN [d EXCEPT !.live = FALSE] ELSE d
StaleSeq(m, q) == [i \in DOMAIN q |-> Stale(m, q[i])]

\* What the consumer of stream s is still to be given.
Pending(s) == stream[s].current \o FlattenSeq(stream[s].responses)

\* The delivery of m is buffered or worked on.
AtConsumer(m) == held = Fresh(m) \/ \E s \in Streams : Contains(Pending(s), Fresh(m))

\* The visibility window of m ends, wherever its delivery is.
Expire(m) ==
    /\ queue[m] = "leased"
    /\ AtConsumer(m) => late < MaxLate
    /\ late' = IF AtConsumer(m) THEN late + 1 ELSE late
    /\ queue' = [queue EXCEPT ![m] = "visible"]
    /\ held' = IF held = None THEN None ELSE Stale(m, held)
    /\ stream' = [s \in Streams |->
                    [stream[s] EXCEPT !.current = StaleSeq(m, @),
                                      !.responses = [i \in DOMAIN @ |-> StaleSeq(m, @[i])]]]
    /\ UNCHANGED <<server, breaks>>

Close(s) ==
    /\ stream[s].open
    /\ stream' = [stream EXCEPT ![s].open = FALSE, ![s].claiming = FALSE]
    /\ UNCHANGED <<queue, server, held, breaks, late>>

Deadline(s) == stream[s].deadline /\ Close(s)

\* The server stops or the connection breaks.
Disconnect(s) == Close(s)

Next ==
    \/ \E s \in Streams : Open(s) \/ NextResponse(s) \/ Yield(s) \/ End(s) \/ Deadline(s) \/ Disconnect(s)
    \/ \E s \in Streams : Read(s)
    \/ Ack \/ Skip \/ Leave
    \/ \E m \in Messages : Expire(m)

Spec == Init /\ [][Next]_vars

PushOf(m) == \E s \in Streams, S \in SUBSET Messages : m \in S /\ Push(s, S)
AckOf(m) == held # None /\ held.msg = m /\ held.live /\ Ack

\* A generator that is waited for runs on, timers fire, windows end, and the
\* server reads for the open streams: not every one is cut before it does,
\* and by the order of the ids it does not pass over a message for ever.  The application opens a stream
\* whenever it has none, and sooner or later acknowledges a message while it
\* has the lease.  That it is done in time, after MaxLate times at most, is
\* what the choice of visibilityTimeoutSeconds is for.
Fairness ==
    /\ \A s \in Streams : WF_vars(NextResponse(s)) /\ WF_vars(Yield(s)) /\ WF_vars(End(s))
                          /\ WF_vars(Deadline(s))
                          /\ SF_vars(dead_letter_due_messages(s)) /\ WF_vars(FindNothing(s))
    /\ WF_vars(\E s \in Streams : Open(s))
    /\ WF_vars(Ack \/ Skip)
    /\ \A m \in Messages : WF_vars(~AtConsumer(m) /\ Expire(m)) /\ SF_vars(PushOf(m)) /\ SF_vars(AckOf(m))

FairSpec == Spec /\ Fairness
-----------------------------------------------------------------------------
(* What is checked. *)

Ids(q) == [i \in DOMAIN q |-> q[i].msg]

\* What stream s has buffered, a row for every response.
Rows(s) == <<stream[s].current>> \o stream[s].responses

\* The i-th delivery in the k-th row of stream s, if it is one of m that is live.
LiveAt(m, s, k, i) == k \in DOMAIN Rows(s) /\ i \in DOMAIN Rows(s)[k] /\ Rows(s)[k][i] = Fresh(m)

\* At no time can a message be acknowledged through two deliveries, whatever
\* the generators have buffered; and one that is live is still in the queue.
OneLiveDelivery ==
    \A m \in Messages :
        /\ held = Fresh(m) => queue[m] = "leased"
        /\ \A s \in Streams : \A k \in DOMAIN Rows(s) : \A i \in DOMAIN Rows(s)[k] :
              LiveAt(m, s, k, i) =>
                  /\ queue[m] = "leased" /\ held # Fresh(m)
                  /\ \A t \in Streams : \A l \in DOMAIN Rows(t) : \A j \in DOMAIN Rows(t)[l] :
                        LiveAt(m, t, l, j) => t = s /\ l = k /\ j = i

\* While a stream is read, messages leave it one at a time, from the front
\* and into the body of the loop: none is skipped, repeated or overtaken.
NothingSkipped ==
    [][\A s \in Streams :
          Reading(s) /\ Reading(s)' =>
              LET before == Ids(Pending(s))
                  after == Ids(Pending(s))'
              IN  \/ IsPrefix(before, after)
                  \/ /\ held = None /\ before # <<>>
                     /\ held'.msg = Head(before) /\ after = Tail(before)]_vars

\* No message is left behind, although streams are cut by their deadline,
\* leases end in buffers and abandoned streams swallow messages: the deadline
\* closes those too.  Without max_redelivery_count every message is
\* acknowledged in the end; with it a message may go to the DLQ unseen by
\* the application, but not before it was leased that often.
EventuallyHandled ==
    \A m \in Messages :
        <>(\/ queue[m] = "gone"
           \/ queue[m] = "dead" /\ limit > 0 /\ reads[m] = limit)
=============================================================================
