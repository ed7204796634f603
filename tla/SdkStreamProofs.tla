-------------------------- MODULE SdkStreamProofs --------------------------
(***************************************************************************)
(* That a message can never be acknowledged through two deliveries, and    *)
(* that a stream is read in the order of what it received, whatever the    *)
(* number of messages, streams, buffered responses, breaks and windows     *)
(* that end early.                                                         *)
(***************************************************************************)
EXTENDS SdkStream, FiniteSetTheorems, SequenceTheorems, NaturalsInduction, WellFoundedInduction, TLAPS

IInv == TypeOK /\ OneLiveDelivery

StreamState == [open : BOOLEAN, deadline : BOOLEAN, claiming : BOOLEAN, read : BOOLEAN,
                responses : Seq(Seq(Delivery)), current : Seq(Delivery)]

\* OneLiveDelivery in terms of places alone.
HeldIsLeased == \A m \in Messages : held = Fresh(m) => queue[m] = "leased"
LiveIsLeased ==
    \A m \in Messages, s \in Streams : \A k, i :
        LiveAt(m, s, k, i) => queue[m] = "leased" /\ held # Fresh(m)
LiveIsUnique ==
    \A m \in Messages, s, t \in Streams : \A k, i, l, j :
        LiveAt(m, s, k, i) /\ LiveAt(m, t, l, j) => t = s /\ l = k /\ j = i

LEMMA Places == OneLiveDelivery <=> HeldIsLeased /\ LiveIsLeased /\ LiveIsUnique
<1>1. OneLiveDelivery => HeldIsLeased
  BY DEF OneLiveDelivery, HeldIsLeased
<1>2. OneLiveDelivery => LiveIsLeased /\ LiveIsUnique
  <2> SUFFICES ASSUME OneLiveDelivery PROVE LiveIsLeased /\ LiveIsUnique
    OBVIOUS
  <2>1. \A m \in Messages, s \in Streams : \A k, i :
          LiveAt(m, s, k, i) => k \in DOMAIN Rows(s) /\ i \in DOMAIN Rows(s)[k]
    BY DEF LiveAt
  <2> QED BY <2>1 DEF OneLiveDelivery, LiveIsLeased, LiveIsUnique
<1>3. HeldIsLeased /\ LiveIsLeased /\ LiveIsUnique => OneLiveDelivery
  BY DEF OneLiveDelivery, HeldIsLeased, LiveIsLeased, LiveIsUnique
<1> QED BY <1>1, <1>2, <1>3

LEMMA PlacesAfter == (OneLiveDelivery <=> HeldIsLeased /\ LiveIsLeased /\ LiveIsUnique)'
  BY Places, PTL

\* The deliveries themselves.
LEMMA FreshFacts ==
    /\ \A m \in Messages : Fresh(m) \in Delivery /\ Fresh(m).msg = m /\ Fresh(m).live /\ Fresh(m) # None
    /\ \A m, n \in Messages : Fresh(m) = Fresh(n) => m = n
    /\ \A d \in Delivery : d.live => d = Fresh(d.msg)
<1>1. \A m \in Messages : Fresh(m) \in Delivery /\ Fresh(m).msg = m /\ Fresh(m).live
  BY DEF Fresh, Delivery
<1>2. \A d \in Delivery : d.live => d = Fresh(d.msg)
  BY DEF Fresh, Delivery
<1> QED BY <1>1, <1>2, NoneAssumption

LEMMA StaleFacts ==
    ASSUME NEW m \in Messages, NEW d \in Delivery
    PROVE  /\ Stale(m, d) \in Delivery /\ Stale(m, d) # Fresh(m)
           /\ \A n \in Messages : Stale(m, d) = Fresh(n) => d = Fresh(n)
<1>1. CASE d.msg = m
  <2>1. PICK x : x = [d EXCEPT !.live = FALSE]
    OBVIOUS
  <2>2. x \in Delivery /\ ~x.live /\ Stale(m, d) = x
    BY <1>1, <2>1 DEF Delivery, Stale
  <2> QED BY <2>2, FreshFacts
<1>2. CASE d.msg # m
  BY <1>2, FreshFacts DEF Stale
<1> QED BY <1>1, <1>2

\* The rows of a stream.
LEMMA RowsFacts ==
    ASSUME NEW c \in Seq(Delivery), NEW r \in Seq(Seq(Delivery))
    PROVE  /\ <<c>> \o r \in Seq(Seq(Delivery)) /\ Len(<<c>> \o r) = Len(r) + 1
           /\ DOMAIN (<<c>> \o r) = 1 .. Len(r) + 1
           /\ (<<c>> \o r)[1] = c
           /\ \A k \in 2 .. Len(r) + 1 : (<<c>> \o r)[k] = r[k - 1]
  OBVIOUS

LEMMA StreamFacts ==
    ASSUME TypeOK, NEW s \in Streams
    PROVE  /\ stream[s] \in StreamState /\ stream[s].current \in Seq(Delivery)
           /\ stream[s].responses \in Seq(Seq(Delivery))
           /\ Rows(s) = <<stream[s].current>> \o stream[s].responses
<1>1. stream[s] \in StreamState
  BY DEF TypeOK, StreamState
<1> QED BY <1>1 DEF StreamState, Rows

\* Steps that move no delivery, and make some of them stale or forget them.
LEMMA Forgotten ==
    ASSUME OneLiveDelivery,
           \A m \in Messages, t \in Streams : \A l, j :
             LiveAt(m, t, l, j)' => LiveAt(m, t, l, j) /\ queue'[m] = "leased",
           \A m \in Messages : held' = Fresh(m) => held = Fresh(m) /\ queue'[m] = "leased"
    PROVE  OneLiveDelivery'
<1>1. HeldIsLeased /\ LiveIsLeased /\ LiveIsUnique
  BY Places
<1>2. HeldIsLeased'
  BY DEF HeldIsLeased
<1>3. LiveIsLeased'
  BY <1>1 DEF LiveIsLeased
<1>4. LiveIsUnique'
  BY <1>1 DEF LiveIsUnique
<1> QED BY <1>2, <1>3, <1>4, PlacesAfter

\* The rows of a stream that is as it was.
LEMMA RowsKept ==
    ASSUME NEW t, stream'[t].current = stream[t].current, stream'[t].responses = stream[t].responses
    PROVE  Rows(t)' = Rows(t) /\ \A m, l, j : LiveAt(m, t, l, j)' <=> LiveAt(m, t, l, j)
<1>1. Rows(t)' = Rows(t)
  BY DEF Rows
<1> QED BY <1>1 DEF LiveAt

\* The rows of a stream that has nothing buffered.
LEMMA NothingBuffered ==
    ASSUME NEW t, stream'[t].current = <<>>, stream'[t].responses = <<>>
    PROVE  \A m, l, j : ~LiveAt(m, t, l, j)'
<1>1. Rows(t)' = <<<<>>>>
  BY DEF Rows
<1> QED BY <1>1 DEF LiveAt
-----------------------------------------------------------------------------
(* The initial states and the steps. *)

LEMMA NoStreamType == NoStream \in StreamState /\ NoStream.current = <<>> /\ NoStream.responses = <<>>
  BY DEF NoStream, StreamState

LEMMA InitIInv == Init => IInv
<1> SUFFICES ASSUME Init PROVE IInv
  OBVIOUS
<1>1. TypeOK
  BY NoStreamType, StreamAssumption DEF Init, TypeOK, StreamState, QueueState
<1>2. ASSUME NEW s \in Streams, NEW m, NEW k, NEW i PROVE ~LiveAt(m, s, k, i)
  <2>1. Rows(s) = <<<<>>>>
    <3>1. stream[s].current = <<>> /\ stream[s].responses = <<>>
      BY <1>2, NoStreamType DEF Init
    <3> QED BY <3>1 DEF Rows
  <2> QED BY <2>1 DEF LiveAt
<1>3. held = None
  BY DEF Init
<1>4. HeldIsLeased /\ LiveIsLeased /\ LiveIsUnique
  BY <1>2, <1>3, FreshFacts DEF HeldIsLeased, LiveIsLeased, LiveIsUnique
<1> QED BY <1>1, <1>4, Places DEF IInv

LEMMA TypeFacts ==
    ASSUME TypeOK
    PROVE  /\ queue \in [Messages -> QueueState]
           /\ limit \in Limits /\ limit \in Nat /\ reads \in [Messages -> 0 .. limit]
           /\ stream \in [Streams -> StreamState]
           /\ held \in Delivery \cup {None}
           /\ breaks \in 0 .. MaxBreaks /\ late \in 0 .. MaxLate
  BY StreamAssumption DEF TypeOK, StreamState

\* A stream is replaced by one without anything buffered, or keeps its buffer.
LEMMA OneStreamStep ==
    ASSUME IInv, NEW s \in Streams, NEW x \in StreamState, stream' = [stream EXCEPT ![s] = x],
           \/ x.current = <<>> /\ x.responses = <<>>
           \/ x.current = stream[s].current /\ x.responses = stream[s].responses,
           UNCHANGED <<queue, limit, reads, held, breaks, late>>
    PROVE  IInv'
<1>0. TypeOK /\ OneLiveDelivery /\ HeldIsLeased /\ LiveIsLeased
  BY Places DEF IInv
<1>1. /\ stream \in [Streams -> StreamState]
      /\ stream'[s] = x /\ \A t \in Streams : t # s => stream'[t] = stream[t]
  BY <1>0, TypeFacts
<1>2. TypeOK'
  BY <1>0, <1>1, TypeFacts DEF TypeOK, StreamState
<1>3. ASSUME NEW m \in Messages, NEW t \in Streams, NEW l, NEW j, LiveAt(m, t, l, j)'
      PROVE  LiveAt(m, t, l, j) /\ queue'[m] = "leased"
  <2>1. LiveAt(m, t, l, j)
    <3>1. CASE t = s /\ x.current = <<>> /\ x.responses = <<>>
      BY <1>1, <1>3, <3>1, NothingBuffered
    <3>2. CASE t # s \/ (x.current = stream[s].current /\ x.responses = stream[s].responses)
      BY <1>1, <1>3, <3>2, RowsKept
    <3> QED BY <3>1, <3>2
  <2> QED BY <1>0, <2>1 DEF LiveIsLeased
<1>4. \A m \in Messages : held' = Fresh(m) => held = Fresh(m) /\ queue'[m] = "leased"
  BY <1>0 DEF HeldIsLeased
<1>5. OneLiveDelivery'
  BY <1>0, <1>3, <1>4, Forgotten
<1> QED BY <1>2, <1>5 DEF IInv

LEMMA OpenStep == ASSUME IInv, NEW s \in Streams, Open(s) PROVE IInv'
<1>1. PICK x : x = [NoStream EXCEPT !.open = TRUE, !.read = TRUE, !.deadline = TimeoutMs]
  OBVIOUS
<1>2. x \in StreamState /\ x.current = <<>> /\ x.responses = <<>>
  <2>1. x = [open |-> TRUE, deadline |-> TimeoutMs, claiming |-> FALSE, read |-> TRUE, responses |-> <<>>, current |-> <<>>]
    BY <1>1 DEF NoStream
  <2> QED BY <2>1, StreamAssumption DEF StreamState
<1>3. stream' = [stream EXCEPT ![s] = x] /\ UNCHANGED <<queue, limit, reads, held, breaks, late>>
  BY <1>1 DEF Open, server
<1> QED BY <1>2, <1>3, OneStreamStep

LEMMA EndStep == ASSUME IInv, NEW s \in Streams, End(s) PROVE IInv'
  BY NoStreamType, OneStreamStep DEF End, server

LEMMA CloseStep == ASSUME IInv, NEW s \in Streams, Close(s) PROVE IInv'
<1>1. stream \in [Streams -> StreamState] /\ stream[s] \in StreamState
  BY TypeFacts DEF IInv
<1>2. PICK x : x = [stream[s] EXCEPT !.open = FALSE, !.claiming = FALSE]
  OBVIOUS
<1>3. x \in StreamState /\ x.current = stream[s].current /\ x.responses = stream[s].responses
  BY <1>1, <1>2 DEF StreamState
<1>4. stream' = [stream EXCEPT ![s] = x] /\ UNCHANGED <<queue, limit, reads, held, breaks, late>>
  BY <1>1, <1>2 DEF Close, server
<1> QED BY <1>3, <1>4, OneStreamStep

\* The first response becomes the current one: the rows move up by one.
LEMMA NextResponseStep == ASSUME IInv, NEW s \in Streams, NextResponse(s) PROVE IInv'
<1>0. TypeOK /\ HeldIsLeased /\ LiveIsLeased /\ LiveIsUnique
  BY Places DEF IInv
<1>1. PICK c, r : c = stream[s].current /\ r = stream[s].responses
  OBVIOUS
<1>2. /\ stream \in [Streams -> StreamState] /\ stream[s] \in StreamState
      /\ r \in Seq(Seq(Delivery)) /\ r # <<>> /\ c = <<>> /\ c \in Seq(Delivery)
      /\ UNCHANGED <<queue, limit, reads, held, breaks, late>>
  BY <1>0, <1>1, TypeFacts, StreamFacts DEF NextResponse, server
<1>3. Head(r) \in Seq(Delivery) /\ Tail(r) \in Seq(Seq(Delivery)) /\ Len(Tail(r)) = Len(r) - 1
      /\ \A k \in 1 .. Len(r) - 1 : Tail(r)[k] = r[k + 1]
  BY <1>2
<1>4. PICK x : x = [stream[s] EXCEPT !.current = Head(r), !.responses = Tail(r)]
  OBVIOUS
<1>5. x \in StreamState /\ x.current = Head(r) /\ x.responses = Tail(r)
  BY <1>2, <1>3, <1>4 DEF StreamState
<1>6. stream' = [stream EXCEPT ![s] = x]
  BY <1>1, <1>2, <1>4 DEF NextResponse
<1>7. stream'[s] = x /\ \A t \in Streams : t # s => stream'[t] = stream[t]
  BY <1>2, <1>6
<1>8. TypeOK'
  BY <1>0, <1>2, <1>5, <1>6, TypeFacts DEF TypeOK, StreamState
<1>9. \A l \in DOMAIN Rows(s)' : l \in Nat /\ l + 1 \in DOMAIN Rows(s) /\ Rows(s)'[l] = Rows(s)[l + 1]
  <2>1. Rows(s) = <<c>> \o r /\ Rows(s)' = <<Head(r)>> \o Tail(r)
    BY <1>1, <1>5, <1>7 DEF Rows
  <2>2. Len(r) \in Nat \ {0} /\ Head(r) = r[1]
    BY <1>2
  <2>3. /\ DOMAIN Rows(s) = 1 .. Len(r) + 1 /\ \A k \in 2 .. Len(r) + 1 : Rows(s)[k] = r[k - 1]
    BY <1>2, <2>1, RowsFacts
  <2>4. /\ DOMAIN Rows(s)' = 1 .. Len(r) /\ Rows(s)'[1] = Head(r)
        /\ \A k \in 2 .. Len(r) : Rows(s)'[k] = Tail(r)[k - 1]
    <3>1. Len(Tail(r)) + 1 = Len(r)
      BY <1>3, <2>2
    <3> QED BY <1>3, <2>1, <3>1, RowsFacts
  <2>5. ASSUME NEW l \in DOMAIN Rows(s)'
        PROVE  l \in Nat /\ l + 1 \in DOMAIN Rows(s) /\ Rows(s)'[l] = Rows(s)[l + 1]
    <3>1. l \in Nat /\ l \in 1 .. Len(r) /\ l + 1 \in 2 .. Len(r) + 1 /\ (l + 1) - 1 = l
      BY <2>2, <2>4, <2>5
    <3>2. Rows(s)[l + 1] = r[l]
      BY <2>3, <3>1
    <3>3. Rows(s)'[l] = r[l]
      <4>1. CASE l = 1
        BY <2>2, <2>4, <4>1
      <4>2. CASE l # 1
        <5>1. l \in 2 .. Len(r) /\ l - 1 \in 1 .. Len(r) - 1 /\ (l - 1) + 1 = l
          BY <2>2, <3>1, <4>2
        <5> QED BY <1>3, <2>4, <5>1
      <4> QED BY <4>1, <4>2
    <3> QED BY <2>3, <3>1, <3>2, <3>3
  <2> QED BY <2>5
<1>10. ASSUME NEW m \in Messages, NEW t \in Streams, NEW l, NEW j, LiveAt(m, t, l, j)'
       PROVE  \/ t = s /\ l \in Nat /\ LiveAt(m, s, l + 1, j)
              \/ t # s /\ LiveAt(m, t, l, j)
  <2>1. CASE t = s
    BY <1>9, <1>10, <2>1 DEF LiveAt
  <2>2. CASE t # s
    BY <1>7, <1>10, <2>2, RowsKept
  <2> QED BY <2>1, <2>2
<1>11. HeldIsLeased'
  BY <1>0, <1>2 DEF HeldIsLeased
<1>12. LiveIsLeased'
  BY <1>0, <1>2, <1>10 DEF LiveIsLeased
<1>13. LiveIsUnique'
  <2> SUFFICES ASSUME NEW m \in Messages, NEW t \in Streams, NEW u \in Streams, NEW k, NEW i, NEW l, NEW j,
                      LiveAt(m, t, k, i)', LiveAt(m, u, l, j)'
               PROVE  u = t /\ l = k /\ j = i
    BY DEF LiveIsUnique
  <2>1. CASE t = s /\ u = s
    <3>1. k \in Nat /\ l \in Nat /\ LiveAt(m, s, k + 1, i) /\ LiveAt(m, s, l + 1, j)
      BY <1>10, <2>1
    <3>2. l + 1 = k + 1 /\ j = i
      BY <1>0, <3>1 DEF LiveIsUnique
    <3> QED BY <2>1, <3>1, <3>2
  <2>2. CASE t # s /\ u # s
    BY <1>0, <1>10, <2>2 DEF LiveIsUnique
  <2>3. CASE t = s /\ u # s
    BY <1>0, <1>10, <2>3 DEF LiveIsUnique
  <2>4. CASE t # s /\ u = s
    BY <1>0, <1>10, <2>4 DEF LiveIsUnique
  <2> QED BY <2>1, <2>2, <2>3, <2>4
<1> QED BY <1>8, <1>11, <1>12, <1>13, PlacesAfter DEF IInv
\* The first delivery of the current response is handed to the application.
LEMMA YieldStep == ASSUME IInv, NEW s \in Streams, Yield(s) PROVE IInv'
<1>0. TypeOK /\ HeldIsLeased /\ LiveIsLeased /\ LiveIsUnique
  BY Places DEF IInv
<1>1. PICK c, r : c = stream[s].current /\ r = stream[s].responses
  OBVIOUS
<1>2. /\ stream \in [Streams -> StreamState] /\ stream[s] \in StreamState
      /\ r \in Seq(Seq(Delivery)) /\ c # <<>> /\ c \in Seq(Delivery)
      /\ held' = Head(c) /\ UNCHANGED <<queue, limit, reads, breaks, late>>
  BY <1>0, <1>1, TypeFacts, StreamFacts DEF Yield, server
<1>3. Head(c) = c[1] /\ c[1] \in Delivery /\ 1 \in DOMAIN c /\ Tail(c) \in Seq(Delivery)
      /\ \A j \in DOMAIN Tail(c) : j \in Nat /\ j # 0 /\ j + 1 \in DOMAIN c /\ Tail(c)[j] = c[j + 1]
  BY <1>2
<1>4. PICK x : x = [stream[s] EXCEPT !.current = Tail(c)]
  OBVIOUS
<1>5. x \in StreamState /\ x.current = Tail(c) /\ x.responses = r
  BY <1>1, <1>2, <1>3, <1>4 DEF StreamState
<1>6. stream' = [stream EXCEPT ![s] = x]
  BY <1>1, <1>2, <1>4 DEF Yield
<1>7. stream'[s] = x /\ \A t \in Streams : t # s => stream'[t] = stream[t]
  BY <1>2, <1>6
<1>8. TypeOK'
  BY <1>0, <1>2, <1>3, <1>5, <1>6, TypeFacts DEF TypeOK, StreamState
<1>9. /\ DOMAIN Rows(s)' = DOMAIN Rows(s) /\ 1 \in DOMAIN Rows(s)
      /\ Rows(s)[1] = c /\ Rows(s)'[1] = Tail(c)
      /\ \A k \in DOMAIN Rows(s) : k # 1 => Rows(s)'[k] = Rows(s)[k]
  <2>1. Rows(s) = <<c>> \o r /\ Rows(s)' = <<Tail(c)>> \o r
    BY <1>1, <1>5, <1>7 DEF Rows
  <2>2. /\ DOMAIN Rows(s) = 1 .. Len(r) + 1 /\ Rows(s)[1] = c
        /\ \A k \in 2 .. Len(r) + 1 : Rows(s)[k] = r[k - 1]
    BY <1>2, <2>1, RowsFacts
  <2>3. /\ DOMAIN Rows(s)' = 1 .. Len(r) + 1 /\ Rows(s)'[1] = Tail(c)
        /\ \A k \in 2 .. Len(r) + 1 : Rows(s)'[k] = r[k - 1]
    BY <1>2, <1>3, <2>1, RowsFacts
  <2>4. Len(r) \in Nat
    BY <1>2
  <2>5. \A k \in 1 .. Len(r) + 1 : k # 1 => k \in 2 .. Len(r) + 1
    BY <2>4
  <2> QED BY <2>2, <2>3, <2>4, <2>5
<1>10. ASSUME NEW m \in Messages, NEW t \in Streams, NEW l, NEW j, LiveAt(m, t, l, j)'
       PROVE  \/ t = s /\ l = 1 /\ j \in Nat /\ j # 0 /\ LiveAt(m, s, 1, j + 1)
              \/ (t # s \/ l # 1) /\ LiveAt(m, t, l, j)
  <2>1. CASE t = s /\ l = 1
    BY <1>3, <1>9, <1>10, <2>1 DEF LiveAt
  <2>2. CASE t = s /\ l # 1
    BY <1>9, <1>10, <2>2 DEF LiveAt
  <2>3. CASE t # s
    BY <1>7, <1>10, <2>3, RowsKept
  <2> QED BY <2>1, <2>2, <2>3
<1>11. \A m \in Messages : held' = Fresh(m) => LiveAt(m, s, 1, 1)
  BY <1>2, <1>3, <1>9 DEF LiveAt
<1>12. HeldIsLeased'
  BY <1>0, <1>2, <1>11 DEF HeldIsLeased, LiveIsLeased
<1>13. LiveIsLeased'
  <2> SUFFICES ASSUME NEW m \in Messages, NEW t \in Streams, NEW l, NEW j, LiveAt(m, t, l, j)'
               PROVE  queue'[m] = "leased" /\ held' # Fresh(m)
    BY DEF LiveIsLeased
  <2>1. queue[m] = "leased"
    BY <1>0, <1>10 DEF LiveIsLeased
  <2>2. ASSUME held' = Fresh(m) PROVE FALSE
    <3>1. LiveAt(m, s, 1, 1)
      BY <1>11, <2>2
    <3>2. CASE t = s /\ l = 1 /\ j \in Nat /\ j # 0 /\ LiveAt(m, s, 1, j + 1)
      <4>1. j + 1 = 1
        BY <1>0, <3>1, <3>2 DEF LiveIsUnique
      <4> QED BY <3>2, <4>1
    <3>3. CASE (t # s \/ l # 1) /\ LiveAt(m, t, l, j)
      BY <1>0, <3>1, <3>3 DEF LiveIsUnique
    <3> QED BY <1>10, <3>2, <3>3
  <2> QED BY <1>2, <2>1, <2>2
<1>14. LiveIsUnique'
  <2> SUFFICES ASSUME NEW m \in Messages, NEW t \in Streams, NEW u \in Streams, NEW k, NEW i, NEW l, NEW j,
                      LiveAt(m, t, k, i)', LiveAt(m, u, l, j)'
               PROVE  u = t /\ l = k /\ j = i
    BY DEF LiveIsUnique
  <2>1. CASE t = s /\ k = 1 /\ u = s /\ l = 1
    <3>1. i \in Nat /\ j \in Nat /\ LiveAt(m, s, 1, i + 1) /\ LiveAt(m, s, 1, j + 1)
      BY <1>10, <2>1
    <3>2. j + 1 = i + 1
      BY <1>0, <3>1 DEF LiveIsUnique
    <3> QED BY <2>1, <3>1, <3>2
  <2>2. CASE ~(t = s /\ k = 1) /\ ~(u = s /\ l = 1)
    BY <1>0, <1>10, <2>2 DEF LiveIsUnique
  <2>3. CASE (t = s /\ k = 1) /\ ~(u = s /\ l = 1)
    BY <1>0, <1>10, <2>3 DEF LiveIsUnique
  <2>4. CASE ~(t = s /\ k = 1) /\ (u = s /\ l = 1)
    BY <1>0, <1>10, <2>4 DEF LiveIsUnique
  <2> QED BY <2>1, <2>2, <2>3, <2>4
<1> QED BY <1>8, <1>12, <1>13, <1>14, PlacesAfter DEF IInv

\* The application is done with a delivery: it acknowledged it, or not.
LEMMA SettleFacts ==
    ASSUME IInv, held # None, queue' \in {queue, Settle(held)}
    PROVE  /\ queue' \in [Messages -> QueueState]
           /\ \A m \in Messages, t \in Streams : \A l, j :
                LiveAt(m, t, l, j) => queue'[m] = "leased"
<1>0. TypeOK /\ LiveIsLeased
  BY Places DEF IInv
<1>1. held \in Delivery /\ held.msg \in Messages /\ queue \in [Messages -> QueueState]
  BY <1>0, TypeFacts DEF Delivery, QueueState
<1>2. CASE queue' = queue
  BY <1>0, <1>1, <1>2 DEF LiveIsLeased
<1>3. CASE queue' = Settle(held)
  <2>1. CASE held.live
    <3>1. held = Fresh(held.msg) /\ queue' = [queue EXCEPT ![held.msg] = "gone"]
      BY <1>1, <1>3, <2>1, FreshFacts DEF Settle
    <3> QED BY <1>0, <1>1, <3>1 DEF LiveIsLeased, QueueState
  <2>2. CASE ~held.live
    BY <1>0, <1>1, <1>3, <2>2 DEF LiveIsLeased, Settle
  <2> QED BY <2>1, <2>2
<1> QED BY <1>2, <1>3

LEMMA AckStep == ASSUME IInv, Ack \/ Skip PROVE IInv'
<1>0. TypeOK /\ OneLiveDelivery
  BY DEF IInv
<1>1. held # None /\ queue' \in {queue, Settle(held)} /\ held' = None
      /\ UNCHANGED <<limit, reads, stream, breaks, late>>
  BY DEF Ack, Skip, server
<1>2. TypeOK'
  BY <1>0, <1>1, SettleFacts, TypeFacts DEF TypeOK, StreamState
<1>3. \A m \in Messages, t \in Streams : \A l, j :
        LiveAt(m, t, l, j)' => LiveAt(m, t, l, j) /\ queue'[m] = "leased"
  <2>1. \A t \in Streams : \A m, l, j : LiveAt(m, t, l, j)' <=> LiveAt(m, t, l, j)
    BY <1>1, RowsKept
  <2> QED BY <1>1, <2>1, SettleFacts
<1>4. OneLiveDelivery'
  BY <1>0, <1>1, <1>3, FreshFacts, Forgotten
<1> QED BY <1>2, <1>4 DEF IInv

\* break: what the generator has buffered is forgotten.
LEMMA LeaveStep == ASSUME IInv, Leave PROVE IInv'
<1>0. TypeOK /\ OneLiveDelivery
  BY DEF IInv
<1>1. held # None /\ queue' \in {queue, Settle(held)} /\ held' = None /\ UNCHANGED <<limit, reads, late>>
      /\ breaks < MaxBreaks /\ breaks' = breaks + 1
  BY DEF Leave, server
<1>2. ASSUME NEW t \in Streams
      PROVE  /\ stream'[t] \in StreamState
             /\ \/ stream'[t] = stream[t]
                \/ stream'[t].current = <<>> /\ stream'[t].responses = <<>>
  <2>1. PICK x : x = [stream[t] EXCEPT !.read = FALSE, !.responses = <<>>, !.current = <<>>]
    OBVIOUS
  <2>2. stream[t] \in StreamState
    BY <1>0, <1>2, StreamFacts
  <2>3. x \in StreamState /\ x.current = <<>> /\ x.responses = <<>>
    <3>1. x = [open |-> stream[t].open, deadline |-> stream[t].deadline, claiming |-> stream[t].claiming,
               read |-> FALSE, responses |-> <<>>, current |-> <<>>]
      BY <2>1, <2>2 DEF StreamState
    <3>2. stream[t].open \in BOOLEAN /\ stream[t].deadline \in BOOLEAN /\ stream[t].claiming \in BOOLEAN
      BY <2>2 DEF StreamState
    <3> QED BY <3>1, <3>2 DEF StreamState
  <2>4. stream'[t] \in {x, stream[t]}
    BY <1>2, <2>1 DEF Leave
  <2> QED BY <2>2, <2>3, <2>4
<1>3. TypeOK'
  <2>1. stream' \in [Streams -> StreamState]
    <3>1. stream' = [t \in Streams |-> stream'[t]]
      BY DEF Leave
    <3> QED BY <1>2, <3>1
  <2>2. breaks' \in 0 .. MaxBreaks
    BY <1>0, <1>1, TypeFacts, StreamAssumption
  <2> QED BY <1>0, <1>1, <2>1, <2>2, SettleFacts, TypeFacts DEF TypeOK, StreamState
<1>4. ASSUME NEW m \in Messages, NEW t \in Streams, NEW l, NEW j, LiveAt(m, t, l, j)'
      PROVE  LiveAt(m, t, l, j) /\ queue'[m] = "leased"
  <2>1. LiveAt(m, t, l, j)
    BY <1>2, <1>4, RowsKept, NothingBuffered
  <2> QED BY <1>1, <2>1, SettleFacts
<1>5. OneLiveDelivery'
  BY <1>0, <1>1, <1>4, FreshFacts, Forgotten
<1> QED BY <1>3, <1>5 DEF IInv
\* A window ends: the deliveries of m become stale where they are.
LEMMA ExpireStep == ASSUME IInv, NEW m \in Messages, Expire(m) PROVE IInv'
<1>0. TypeOK /\ OneLiveDelivery /\ HeldIsLeased /\ LiveIsLeased
  BY Places DEF IInv
<1>1. /\ queue' = [queue EXCEPT ![m] = "visible"] /\ UNCHANGED <<limit, reads, breaks>>
      /\ held' = IF held = None THEN None ELSE Stale(m, held)
      /\ queue \in [Messages -> QueueState] /\ held \in Delivery \cup {None}
  BY <1>0, TypeFacts DEF Expire, server
<1>2. late' \in 0 .. MaxLate
  <2>1. late' = late \/ (late' = late + 1 /\ late < MaxLate)
    BY DEF Expire
  <2> QED BY <1>0, <2>1, TypeFacts, StreamAssumption
<1>3. \A q \in Seq(Delivery) :
        /\ StaleSeq(m, q) \in Seq(Delivery) /\ DOMAIN StaleSeq(m, q) = DOMAIN q
        /\ \A i \in DOMAIN q : StaleSeq(m, q)[i] = Stale(m, q[i]) /\ q[i] \in Delivery
  <2> SUFFICES ASSUME NEW q \in Seq(Delivery)
               PROVE  /\ StaleSeq(m, q) \in Seq(Delivery) /\ DOMAIN StaleSeq(m, q) = DOMAIN q
                      /\ \A i \in DOMAIN q : StaleSeq(m, q)[i] = Stale(m, q[i]) /\ q[i] \in Delivery
    OBVIOUS
  <2>1. \A i \in 1 .. Len(q) : Stale(m, q[i]) \in Delivery
    BY StaleFacts
  <2>2. Len(q) \in Nat /\ DOMAIN q = 1 .. Len(q)
    OBVIOUS
  <2> QED BY <2>1, <2>2 DEF StaleSeq
<1>4. ASSUME NEW t \in Streams
      PROVE  /\ stream'[t] \in StreamState
             /\ DOMAIN Rows(t)' = DOMAIN Rows(t)
             /\ \A k \in DOMAIN Rows(t) : Rows(t)[k] \in Seq(Delivery) /\ Rows(t)'[k] = StaleSeq(m, Rows(t)[k])
  <2>1. PICK y, c, r : y = stream[t] /\ c = stream[t].current /\ r = stream[t].responses
    OBVIOUS
  <2>2. y \in StreamState /\ c = y.current /\ r = y.responses /\ c \in Seq(Delivery) /\ r \in Seq(Seq(Delivery))
    BY <1>0, <1>4, <2>1, StreamFacts
  <2>3. PICK d, w : d = StaleSeq(m, c) /\ w = [i \in DOMAIN r |-> StaleSeq(m, r[i])]
    OBVIOUS
  <2>4. PICK x : x = [y EXCEPT !.current = d, !.responses = w]
    OBVIOUS
  <2>5. stream'[t] = x
    <3>1. stream'[t] = [stream[t] EXCEPT !.current = StaleSeq(m, @),
                                         !.responses = [i \in DOMAIN @ |-> StaleSeq(m, @[i])]]
      BY <1>4 DEF Expire
    <3>2. stream'[t] = [y EXCEPT !.current = StaleSeq(m, y.current),
                                 !.responses = [i \in DOMAIN y.responses |-> StaleSeq(m, y.responses[i])]]
      BY <2>1, <3>1
    <3> QED BY <2>2, <2>3, <2>4, <3>2
  <2>6. d \in Seq(Delivery) /\ w \in Seq(Seq(Delivery)) /\ Len(w) = Len(r)
        /\ Len(r) \in Nat /\ \A k \in 1 .. Len(r) : w[k] = StaleSeq(m, r[k]) /\ r[k] \in Seq(Delivery)
    <3>1. Len(r) \in Nat /\ DOMAIN r = 1 .. Len(r) /\ \A k \in 1 .. Len(r) : r[k] \in Seq(Delivery)
      BY <2>2
    <3>2. w \in [1 .. Len(r) -> Seq(Delivery)]
      BY <1>3, <2>3, <3>1
    <3> QED BY <1>3, <2>2, <2>3, <3>1, <3>2
  <2>7. x \in StreamState /\ x.current = d /\ x.responses = w
    BY <2>2, <2>4, <2>6 DEF StreamState
  <2>8. Rows(t) = <<c>> \o r /\ Rows(t)' = <<d>> \o w
    BY <2>1, <2>5, <2>7 DEF Rows
  <2>9. /\ DOMAIN Rows(t) = 1 .. Len(r) + 1 /\ Rows(t)[1] = c
        /\ \A k \in 2 .. Len(r) + 1 : Rows(t)[k] = r[k - 1]
    BY <2>2, <2>8, RowsFacts
  <2>10. /\ DOMAIN Rows(t)' = 1 .. Len(r) + 1 /\ Rows(t)'[1] = d
         /\ \A k \in 2 .. Len(r) + 1 : Rows(t)'[k] = w[k - 1]
    BY <2>6, <2>8, RowsFacts
  <2>11. \A k \in 1 .. Len(r) + 1 : k = 1 \/ (k \in 2 .. Len(r) + 1 /\ k - 1 \in 1 .. Len(r))
    BY <2>6
  <2>12. ASSUME NEW k \in DOMAIN Rows(t)
         PROVE  Rows(t)[k] \in Seq(Delivery) /\ Rows(t)'[k] = StaleSeq(m, Rows(t)[k])
    <3>1. CASE k = 1
      BY <2>2, <2>3, <2>9, <2>10, <3>1
    <3>2. CASE k # 1
      <4>1. k \in 2 .. Len(r) + 1 /\ k - 1 \in 1 .. Len(r)
        BY <2>9, <2>11, <2>12, <3>2
      <4> QED BY <2>6, <2>9, <2>10, <4>1
    <3> QED BY <3>1, <3>2
  <2> QED BY <2>5, <2>7, <2>9, <2>10, <2>12
<1>5. TypeOK'
  <2>1. stream' \in [Streams -> StreamState]
    <3>1. stream' = [t \in Streams |-> stream'[t]]
      BY DEF Expire
    <3> QED BY <1>4, <3>1
  <2>2. held' \in Delivery \cup {None}
    BY <1>1, StaleFacts
  <2> QED BY <1>0, <1>1, <1>2, <2>1, <2>2, TypeFacts DEF TypeOK, StreamState, QueueState
<1>6. \A n \in Messages : n # m => queue'[n] = queue[n]
  BY <1>1
<1>7. ASSUME NEW n \in Messages, NEW t \in Streams, NEW l, NEW j, LiveAt(n, t, l, j)'
      PROVE  LiveAt(n, t, l, j) /\ queue'[n] = "leased"
  <2>1. /\ l \in DOMAIN Rows(t) /\ j \in DOMAIN Rows(t)[l] /\ Rows(t)[l][j] \in Delivery
        /\ Stale(m, Rows(t)[l][j]) = Fresh(n)
    BY <1>3, <1>4, <1>7 DEF LiveAt
  <2>2. Rows(t)[l][j] = Fresh(n) /\ n # m
    BY <2>1, StaleFacts
  <2>3. LiveAt(n, t, l, j)
    BY <2>1, <2>2 DEF LiveAt
  <2> QED BY <1>0, <1>6, <2>2, <2>3 DEF LiveIsLeased
<1>8. ASSUME NEW n \in Messages, held' = Fresh(n)
      PROVE  held = Fresh(n) /\ queue'[n] = "leased"
  <2>1. held # None /\ held \in Delivery /\ Stale(m, held) = Fresh(n)
    BY <1>1, <1>8, FreshFacts
  <2>2. held = Fresh(n) /\ n # m
    BY <2>1, StaleFacts
  <2> QED BY <1>0, <1>6, <2>2 DEF HeldIsLeased
<1>9. OneLiveDelivery'
  BY <1>0, <1>7, <1>8, Forgotten
<1> QED BY <1>5, <1>9 DEF IInv

\* The ids of a response are those of S, each once.
LEMMA ResponseFacts ==
    ASSUME NEW S \in SUBSET Messages, NEW ids, ids = SetToSeq(S)
    PROVE  /\ ids \in Seq(S) /\ \A i, j \in DOMAIN ids : ids[i] = ids[j] => i = j
<1>1. IsFiniteSet(S)
  BY FS_Subset, StreamAssumption
<1>2. PICK n : n = Cardinality(S)
  OBVIOUS
<1>3. n \in Nat /\ ExistsBijection(1 .. n, S)
  BY <1>1, <1>2, FS_CardinalityType
<1>4. \E f \in [1 .. n -> S] : IsInjective(f)
  BY <1>3 DEF ExistsBijection, Bijection, Injection
<1>5. ids \in [1 .. n -> S] /\ IsInjective(ids)
  BY <1>2, <1>4 DEF SetToSeq
<1> QED BY <1>3, <1>5 DEF IsInjective
\* What is pushed was visible, so no delivery of it is live anywhere.
LEMMA PushStep == ASSUME IInv, NEW s \in Streams, NEW S \in SUBSET Messages, Push(s, S) PROVE IInv'
<1>0. TypeOK /\ OneLiveDelivery /\ HeldIsLeased /\ LiveIsLeased /\ LiveIsUnique
  BY Places DEF IInv
<1>1. /\ \A m \in S : queue[m] = "visible"
      /\ queue' = [m \in Messages |-> IF m \in S THEN "leased" ELSE queue[m]]
      /\ UNCHANGED <<limit, held, breaks, late>>
      /\ queue \in [Messages -> QueueState]
      /\ stream' = [stream EXCEPT ![s] = Pushed(stream[s], S)]
  BY <1>0, TypeFacts DEF Push
<1>2. \A m \in Messages : queue[m] = "leased" => queue'[m] = "leased" /\ m \notin S
  BY <1>1
<1>3. queue' \in [Messages -> QueueState] /\ reads' \in [Messages -> 0 .. limit']
  <2>1. queue' \in [Messages -> QueueState]
    BY <1>1 DEF QueueState
  <2>2. \A n \in 0 .. limit : Counted(n) \in 0 .. limit
    BY <1>0, TypeFacts DEF Counted
  <2>3. reads' = [m \in Messages |-> IF m \in S THEN Counted(reads[m]) ELSE reads[m]]
    BY DEF Push
  <2> QED BY <1>0, <1>1, <2>1, <2>2, <2>3, TypeFacts
<1>4. CASE ~Reading(s)
  <2>0. PICK x : x = [stream[s] EXCEPT !.claiming = FALSE]
    OBVIOUS
  <2>1. /\ x \in StreamState /\ x.current = stream[s].current /\ x.responses = stream[s].responses
        /\ stream' = [stream EXCEPT ![s] = x] /\ stream \in [Streams -> StreamState]
    <3>1. stream \in [Streams -> StreamState] /\ stream[s] \in StreamState
      BY <1>0, TypeFacts
    <3>2. x \in StreamState /\ x.current = stream[s].current /\ x.responses = stream[s].responses
      BY <2>0, <3>1 DEF StreamState
    <3> QED BY <1>1, <1>4, <2>0, <3>1, <3>2 DEF Pushed, Reading
  <2>2. TypeOK'
    BY <1>0, <1>1, <1>3, <2>1, TypeFacts DEF TypeOK, StreamState
  <2>3. \A m \in Messages, t \in Streams : \A l, j :
          LiveAt(m, t, l, j)' => LiveAt(m, t, l, j) /\ queue'[m] = "leased"
    <3>1. \A t \in Streams : stream'[t].current = stream[t].current /\ stream'[t].responses = stream[t].responses
      BY <2>1
    <3>2. \A t \in Streams : \A m, l, j : LiveAt(m, t, l, j)' <=> LiveAt(m, t, l, j)
      BY <3>1, RowsKept
    <3> QED BY <1>0, <1>2, <3>2 DEF LiveIsLeased
  <2>4. \A m \in Messages : held' = Fresh(m) => held = Fresh(m) /\ queue'[m] = "leased"
    BY <1>0, <1>1, <1>2 DEF HeldIsLeased
  <2>5. OneLiveDelivery'
    BY <1>0, <2>3, <2>4, Forgotten
  <2> QED BY <2>2, <2>5 DEF IInv
<1>5. CASE Reading(s)
  <2>1. PICK c, r, ids : c = stream[s].current /\ r = stream[s].responses /\ ids = SetToSeq(S)
    OBVIOUS
  <2>2. /\ stream \in [Streams -> StreamState] /\ stream[s] \in StreamState
        /\ r \in Seq(Seq(Delivery)) /\ c \in Seq(Delivery) /\ Len(r) \in Nat
    <3>1. r \in Seq(Seq(Delivery)) /\ c \in Seq(Delivery) /\ stream[s] \in StreamState
      BY <1>0, <2>1, StreamFacts
    <3> QED BY <1>0, <3>1, TypeFacts
  <2>3. ids \in Seq(S) /\ \A i, j \in DOMAIN ids : ids[i] = ids[j] => i = j
    BY <2>1, ResponseFacts
  <2>4. PICK new : new = [i \in DOMAIN ids |-> Fresh(ids[i])]
    OBVIOUS
  <2>5. new \in Seq(Delivery) /\ DOMAIN new = DOMAIN ids
        /\ \A i \in DOMAIN new : new[i] = Fresh(ids[i]) /\ ids[i] \in S
    <3>1. Len(ids) \in Nat /\ DOMAIN ids = 1 .. Len(ids) /\ \A i \in 1 .. Len(ids) : ids[i] \in S
      BY <2>3
    <3>2. \A i \in 1 .. Len(ids) : Fresh(ids[i]) \in Delivery
      BY <3>1, FreshFacts
    <3>3. new \in [1 .. Len(ids) -> Delivery]
      BY <2>4, <3>1, <3>2
    <3> QED BY <2>4, <3>1, <3>3
  <2>6. PICK w : w = Append(r, new)
    OBVIOUS
  <2>7. w \in Seq(Seq(Delivery)) /\ Len(w) = Len(r) + 1 /\ w[Len(r) + 1] = new
        /\ \A k \in 1 .. Len(r) : w[k] = r[k]
    BY <2>2, <2>5, <2>6
  <2>8. PICK x : x = [stream[s] EXCEPT !.claiming = FALSE, !.responses = w]
    OBVIOUS
  <2>9. x \in StreamState /\ x.current = c /\ x.responses = w
    BY <2>1, <2>2, <2>7, <2>8 DEF StreamState
  <2>10. stream' = [stream EXCEPT ![s] = x]
    <3>1. Response(S) = new
      BY <2>1, <2>4 DEF Response
    <3>2. Pushed(stream[s], S) = x
      BY <1>5, <2>1, <2>6, <2>8, <3>1 DEF Pushed, Reading
    <3> QED BY <1>1, <3>2
  <2>11. stream'[s] = x /\ \A t \in Streams : t # s => stream'[t] = stream[t]
    BY <2>2, <2>10
  <2>12. TypeOK'
    BY <1>0, <1>1, <1>3, <2>2, <2>9, <2>10, TypeFacts DEF TypeOK, StreamState
  <2>13. PICK last : last = Len(r) + 2
    OBVIOUS
  <2>14. \A l \in DOMAIN Rows(s)' : \/ l = last /\ Rows(s)'[l] = new
                                    \/ l # last /\ l \in DOMAIN Rows(s) /\ Rows(s)'[l] = Rows(s)[l]
    <3>1. Rows(s) = <<c>> \o r /\ Rows(s)' = <<c>> \o w
      BY <2>1, <2>9, <2>11 DEF Rows
    <3>2. /\ DOMAIN Rows(s) = 1 .. Len(r) + 1 /\ Rows(s)[1] = c
          /\ \A k \in 2 .. Len(r) + 1 : Rows(s)[k] = r[k - 1]
      BY <2>2, <3>1, RowsFacts
    <3>3. /\ DOMAIN Rows(s)' = 1 .. last /\ Rows(s)'[1] = c
          /\ \A k \in 2 .. last : Rows(s)'[k] = w[k - 1]
      <4>1. Len(w) + 1 = last
        BY <2>2, <2>7, <2>13
      <4> QED BY <2>2, <2>7, <3>1, <4>1, RowsFacts
    <3>4. ASSUME NEW l \in DOMAIN Rows(s)'
          PROVE  \/ l = last /\ Rows(s)'[l] = new
                 \/ l # last /\ l \in DOMAIN Rows(s) /\ Rows(s)'[l] = Rows(s)[l]
      <4>1. CASE l = 1
        BY <2>2, <2>13, <3>2, <3>3, <4>1
      <4>2. CASE l = last
        <5>1. l \in 2 .. last /\ l - 1 = Len(r) + 1
          BY <2>2, <2>13, <4>2
        <5> QED BY <2>7, <3>3, <4>2, <5>1
      <4>3. CASE l # 1 /\ l # last
        <5>1. l \in 2 .. last /\ l \in 2 .. Len(r) + 1 /\ l \in 1 .. Len(r) + 1 /\ l - 1 \in 1 .. Len(r)
          BY <2>2, <2>13, <3>3, <3>4, <4>3
        <5> QED BY <2>7, <3>2, <3>3, <4>3, <5>1
      <4> QED BY <4>1, <4>2, <4>3
    <3> QED BY <3>4
  <2>15. ASSUME NEW m \in Messages, NEW t \in Streams, NEW l, NEW j, LiveAt(m, t, l, j)'
         PROVE  \/ t = s /\ l = last /\ j \in DOMAIN ids /\ ids[j] = m /\ m \in S
                \/ (t # s \/ l # last) /\ LiveAt(m, t, l, j) /\ m \notin S
    <3>1. CASE t = s /\ l = last
      <4>1. j \in DOMAIN new /\ new[j] = Fresh(m)
        BY <2>14, <2>15, <3>1 DEF LiveAt
      <4> QED BY <2>5, <3>1, <4>1, FreshFacts
    <3>2. CASE t = s /\ l # last
      <4>1. LiveAt(m, t, l, j)
        BY <2>14, <2>15, <3>2 DEF LiveAt
      <4> QED BY <1>0, <1>2, <3>2, <4>1 DEF LiveIsLeased
    <3>3. CASE t # s
      <4>1. LiveAt(m, t, l, j)
        BY <2>11, <2>15, <3>3, RowsKept
      <4> QED BY <1>0, <1>2, <3>3, <4>1 DEF LiveIsLeased
    <3> QED BY <3>1, <3>2, <3>3
  <2>16. HeldIsLeased'
    BY <1>0, <1>1, <1>2 DEF HeldIsLeased
  <2>17. LiveIsLeased'
    <3>1. \A m \in S : queue'[m] = "leased" /\ held # Fresh(m)
      BY <1>0, <1>1 DEF HeldIsLeased
    <3> QED BY <1>0, <1>1, <1>2, <2>15, <3>1 DEF LiveIsLeased
  <2>18. LiveIsUnique'
    <3> SUFFICES ASSUME NEW m \in Messages, NEW t \in Streams, NEW u \in Streams, NEW k, NEW i, NEW l, NEW j,
                        LiveAt(m, t, k, i)', LiveAt(m, u, l, j)'
                 PROVE  u = t /\ l = k /\ j = i
      BY DEF LiveIsUnique
    <3>1. CASE m \in S
      BY <2>3, <2>15, <3>1
    <3>2. CASE m \notin S
      BY <1>0, <2>15, <3>2 DEF LiveIsUnique
    <3> QED BY <3>1, <3>2
  <2> QED BY <2>12, <2>16, <2>17, <2>18, PlacesAfter DEF IInv
<1> QED BY <1>4, <1>5

\* What is due is visible, so no delivery of it is live anywhere.
LEMMA DeadLetterStep == ASSUME IInv, NEW s \in Streams, dead_letter_due_messages(s) PROVE IInv'
<1>0. TypeOK /\ OneLiveDelivery /\ HeldIsLeased /\ LiveIsLeased
  BY Places DEF IInv
<1>1. /\ queue' = [m \in Messages |-> IF m \in Due THEN "dead" ELSE queue[m]]
      /\ UNCHANGED <<limit, reads, held, breaks, late>>
      /\ queue \in [Messages -> QueueState] /\ stream \in [Streams -> StreamState]
  BY <1>0, TypeFacts DEF dead_letter_due_messages, server
<1>2. queue' \in [Messages -> QueueState]
  BY <1>1 DEF QueueState
<1>3. \A m \in Messages : queue[m] = "leased" => queue'[m] = "leased"
  BY <1>1 DEF Due
<1>4. PICK x : x = [stream[s] EXCEPT !.claiming = TRUE]
  OBVIOUS
<1>5. x \in StreamState /\ x.current = stream[s].current /\ x.responses = stream[s].responses
  BY <1>1, <1>4 DEF StreamState
<1>6. stream' = [stream EXCEPT ![s] = x]
  BY <1>1, <1>4 DEF dead_letter_due_messages
<1>7. TypeOK'
  BY <1>0, <1>1, <1>2, <1>5, <1>6, TypeFacts DEF TypeOK, StreamState
<1>8. \A t \in Streams : stream'[t].current = stream[t].current /\ stream'[t].responses = stream[t].responses
  BY <1>1, <1>5, <1>6
<1>9. \A t \in Streams : \A m, l, j : LiveAt(m, t, l, j)' <=> LiveAt(m, t, l, j)
  BY <1>8, RowsKept
<1>10. \A m \in Messages, t \in Streams : \A l, j :
         LiveAt(m, t, l, j)' => LiveAt(m, t, l, j) /\ queue'[m] = "leased"
  BY <1>0, <1>3, <1>9 DEF LiveIsLeased
<1>11. \A m \in Messages : held' = Fresh(m) => held = Fresh(m) /\ queue'[m] = "leased"
  BY <1>0, <1>1, <1>3 DEF HeldIsLeased
<1>12. OneLiveDelivery'
  BY <1>0, <1>10, <1>11, Forgotten
<1> QED BY <1>7, <1>12 DEF IInv

LEMMA FindNothingStep == ASSUME IInv, NEW s \in Streams, FindNothing(s) PROVE IInv'
<1>1. stream \in [Streams -> StreamState] /\ stream[s] \in StreamState
  BY TypeFacts DEF IInv
<1>2. PICK x : x = [stream[s] EXCEPT !.claiming = FALSE]
  OBVIOUS
<1>3. x \in StreamState /\ x.current = stream[s].current /\ x.responses = stream[s].responses
  BY <1>1, <1>2 DEF StreamState
<1>4. stream' = [stream EXCEPT ![s] = x] /\ UNCHANGED <<queue, limit, reads, held, breaks, late>>
  BY <1>1, <1>2 DEF FindNothing, server
<1> QED BY <1>3, <1>4, OneStreamStep

LEMMA StutteringStep == ASSUME IInv, UNCHANGED vars PROVE IInv'
<1>1. UNCHANGED <<queue, limit, reads, stream, held, breaks, late>>
  BY DEF vars, server
<1>2. TypeOK'
  BY <1>1 DEF IInv, TypeOK
<1>3. \A t \in Streams : \A m, l, j : LiveAt(m, t, l, j)' <=> LiveAt(m, t, l, j)
  BY <1>1, RowsKept
<1>4. OneLiveDelivery /\ HeldIsLeased /\ LiveIsLeased
  BY Places DEF IInv
<1>5. OneLiveDelivery'
  <2>1. \A m \in Messages, t \in Streams : \A l, j :
          LiveAt(m, t, l, j)' => LiveAt(m, t, l, j) /\ queue'[m] = "leased"
    BY <1>1, <1>3, <1>4 DEF LiveIsLeased
  <2>2. \A m \in Messages : held' = Fresh(m) => held = Fresh(m) /\ queue'[m] = "leased"
    BY <1>1, <1>4 DEF HeldIsLeased
  <2> QED BY <1>4, <2>1, <2>2, Forgotten
<1> QED BY <1>2, <1>5 DEF IInv

LEMMA NextIInv == IInv /\ [Next]_vars => IInv'
<1> SUFFICES ASSUME IInv, [Next]_vars PROVE IInv'
  OBVIOUS
<1>1. ASSUME NEW s \in Streams,
             Open(s) \/ NextResponse(s) \/ Yield(s) \/ End(s) \/ Deadline(s) \/ Disconnect(s)
      PROVE  IInv'
  BY <1>1, OpenStep, NextResponseStep, YieldStep, EndStep, CloseStep DEF Deadline, Disconnect
<1>2. ASSUME NEW s \in Streams, Read(s) PROVE IInv'
  BY <1>2, DeadLetterStep, FindNothingStep, PushStep DEF Read
<1>3. CASE Ack \/ Skip
  BY <1>3, AckStep
<1>4. CASE Leave
  BY <1>4, LeaveStep
<1>5. ASSUME NEW m \in Messages, Expire(m) PROVE IInv'
  BY <1>5, ExpireStep
<1>6. CASE UNCHANGED vars
  BY <1>6, StutteringStep
<1> QED BY <1>1, <1>2, <1>3, <1>4, <1>5, <1>6 DEF Next

-----------------------------------------------------------------------------
(* What FlattenSeq does to a sequence of responses. *)

\* A set of numbers that is closed under "all smaller ones" up to n holds n.
LEMMA Climb ==
    ASSUME NEW n \in Nat, NEW S, 1 \in S, \A k \in 1 .. n : k \in S /\ k + 1 <= n => k + 1 \in S
    PROVE  \A k \in 1 .. n : k \in S
<1>1. PICK T : T = {k \in 1 .. n : k \notin S}
  OBVIOUS
<1>2. ASSUME T # {} PROVE FALSE
  <2>1. PICK x \in T : \A y \in T : ~(<<y, x>> \in OpToRel(<, Nat))
    <3>1. T \in SUBSET Nat
      BY <1>1
    <3> QED BY <1>2, <3>1, NatLessThanWellFounded, WFMin
  <2>2. x \in 1 .. n /\ x \notin S /\ x # 1
    BY <1>1, <2>1
  <2>3. x - 1 \in 1 .. n /\ x - 1 < x
    BY <2>2
  <2>4. x - 1 \notin T
    <3>1. x - 1 \in Nat /\ x \in Nat
      BY <2>2, <2>3
    <3>2. <<x - 1, x>> \in OpToRel(<, Nat)
      BY <2>3, <3>1 DEF OpToRel
    <3> QED BY <2>1, <3>2
  <2>5. x - 1 \in S
    BY <1>1, <2>3, <2>4
  <2>6. (x - 1) + 1 = x
    BY <2>2
  <2> QED BY <2>2, <2>3, <2>5, <2>6
<1> QED BY <1>1, <1>2

\* g holds what the first responses come to, for each number of them.
Flattens(ss, g, n) ==
    \A i \in 1 .. n : g[i] = IF i = 1 THEN ss[i] ELSE g[i - 1] \o ss[i]

LEMMA FlattenExists ==
    ASSUME NEW D, NEW ss \in Seq(Seq(D)), NEW n \in 1 .. Len(ss)
    PROVE  \E g \in [1 .. n -> Seq(D)] : Flattens(ss, g, n)
<1>1. PICK S : S = {k \in 1 .. Len(ss) : \E g \in [1 .. k -> Seq(D)] : Flattens(ss, g, k)}
  OBVIOUS
<1>2. Len(ss) \in Nat /\ 1 \in 1 .. Len(ss) /\ \A k \in 1 .. Len(ss) : ss[k] \in Seq(D)
  OBVIOUS
<1>3. 1 \in S
  <2>1. PICK g : g = [i \in 1 .. 1 |-> ss[1]]
    OBVIOUS
  <2>2. g \in [1 .. 1 -> Seq(D)] /\ Flattens(ss, g, 1)
    BY <1>2, <2>1 DEF Flattens
  <2> QED BY <1>1, <1>2, <2>2
<1>4. ASSUME NEW k \in 1 .. Len(ss), k \in S, k + 1 <= Len(ss) PROVE k + 1 \in S
  <2>1. PICK g \in [1 .. k -> Seq(D)] : Flattens(ss, g, k)
    BY <1>1, <1>4
  <2>2. PICK h : h = [i \in 1 .. k + 1 |-> IF i = k + 1 THEN g[k] \o ss[k + 1] ELSE g[i]]
    OBVIOUS
  <2>3. k + 1 \in 1 .. Len(ss) /\ g[k] \in Seq(D) /\ ss[k + 1] \in Seq(D) /\ k + 1 # 1 /\ (k + 1) - 1 = k
    BY <1>2, <1>4
  <2>4. g[k] \o ss[k + 1] \in Seq(D)
    BY <2>3
  <2>5. h \in [1 .. k + 1 -> Seq(D)]
    BY <2>2, <2>4
  <2>6. \A i \in 1 .. k : h[i] = g[i]
    BY <1>4, <2>2
  <2>7. h[k + 1] = g[k] \o ss[k + 1]
    <3>1. k + 1 \in 1 .. k + 1
      BY <1>4
    <3> QED BY <2>2, <3>1
  <2>8. ASSUME NEW i \in 1 .. k + 1 PROVE h[i] = IF i = 1 THEN ss[i] ELSE h[i - 1] \o ss[i]
    <3>1. CASE i = k + 1
      <4>1. k \in 1 .. k
        BY <1>4
      <4> QED BY <2>3, <2>6, <2>7, <3>1, <4>1
    <3>2. CASE i # k + 1
      <4>1. i \in 1 .. k /\ (i # 1 => i - 1 \in 1 .. k)
        BY <3>2
      <4> QED BY <2>1, <2>6, <4>1 DEF Flattens
    <3> QED BY <3>1, <3>2
  <2>9. Flattens(ss, h, k + 1)
    BY <2>5, <2>8 DEF Flattens
  <2> QED BY <1>1, <2>3, <2>5, <2>9
<1>5. \A k \in 1 .. Len(ss) : k \in S
  BY <1>2, <1>3, <1>4, Climb
<1> QED BY <1>1, <1>5

Agree(p, q, n) == \A i \in 1 .. n : p[i] = q[i]

LEMMA FlattenUnique ==
    ASSUME NEW n \in Nat, NEW p, NEW q, NEW g, NEW h, Agree(p, q, n),
           Flattens(p, g, n), Flattens(q, h, n)
    PROVE  Agree(g, h, n)
<1>1. PICK S : S = {k \in Nat : k \in 1 .. n => g[k] = h[k]}
  OBVIOUS
<1>2. 1 \in S
  BY <1>1 DEF Flattens, Agree
<1>3. ASSUME NEW k \in 1 .. n, k \in S, k + 1 <= n PROVE k + 1 \in S
  <2>1. k + 1 \in 1 .. n /\ k + 1 # 1 /\ (k + 1) - 1 = k
    BY <1>3
  <2>2. g[k] = h[k]
    BY <1>1, <1>3
  <2>3. g[k + 1] = g[k] \o p[k + 1] /\ h[k + 1] = h[k] \o q[k + 1]
    BY <2>1 DEF Flattens
  <2>4. p[k + 1] = q[k + 1] /\ k + 1 \in Nat
    BY <2>1 DEF Agree
  <2>5. g[k + 1] = h[k + 1]
    BY <2>2, <2>3, <2>4
  <2> QED BY <1>1, <2>4, <2>5
<1>4. \A k \in 1 .. n : k \in S
  BY <1>2, <1>3, Climb
<1> QED BY <1>1, <1>4 DEF Agree

\* FlattenSeq does what its recursive function says.
LEMMA FlattenFacts ==
    ASSUME NEW D, NEW ss \in Seq(Seq(D)), ss # <<>>
    PROVE  \E g \in [1 .. Len(ss) -> Seq(D)] :
              Flattens(ss, g, Len(ss)) /\ FlattenSeq(ss) = g[Len(ss)]
<1>1. Len(ss) \in 1 .. Len(ss) /\ Len(ss) # 0
  OBVIOUS
<1>2. PICK g \in [1 .. Len(ss) -> Seq(D)] : Flattens(ss, g, Len(ss))
  BY <1>1, FlattenExists
<1>3. g = [i \in 1 .. Len(ss) |-> IF i = 1 THEN ss[i] ELSE g[i - 1] \o ss[i]]
  BY <1>2 DEF Flattens
<1>4. PICK h : /\ h = [i \in 1 .. Len(ss) |-> IF i = 1 THEN ss[i] ELSE h[i - 1] \o ss[i]]
               /\ FlattenSeq(ss) = h[Len(ss)]
  BY <1>1, <1>3 DEF FlattenSeq
<1>5. Flattens(ss, h, Len(ss))
  BY <1>4 DEF Flattens
<1>6. h[Len(ss)] = g[Len(ss)]
  <2>1. Len(ss) \in Nat
    OBVIOUS
  <2>2. Agree(ss, ss, Len(ss))
    BY DEF Agree
  <2>3. Agree(h, g, Len(ss))
    BY <1>2, <1>5, <2>1, <2>2, FlattenUnique
  <2> QED BY <1>1, <2>3 DEF Agree
<1> QED BY <1>2, <1>4, <1>6

LEMMA FlattenType ==
    ASSUME NEW D, NEW ss \in Seq(Seq(D)) PROVE FlattenSeq(ss) \in Seq(D)
<1>1. CASE ss = <<>>
  BY <1>1 DEF FlattenSeq
<1>2. CASE ss # <<>>
  <2>1. PICK g \in [1 .. Len(ss) -> Seq(D)] : FlattenSeq(ss) = g[Len(ss)]
    BY <1>2, FlattenFacts
  <2>2. Len(ss) \in 1 .. Len(ss)
    BY <1>2
  <2> QED BY <2>1, <2>2
<1> QED BY <1>1, <1>2

LEMMA FlattenEmpty == FlattenSeq(<<>>) = <<>>
  BY DEF FlattenSeq

\* A response that is received comes last.
LEMMA FlattenAppend ==
    ASSUME NEW D, NEW ss \in Seq(Seq(D)), NEW x \in Seq(D)
    PROVE  FlattenSeq(Append(ss, x)) = FlattenSeq(ss) \o x
<1>1. PICK tt : tt = Append(ss, x)
  OBVIOUS
<1>2. PICK n : n = Len(ss)
  OBVIOUS
<1>3. /\ tt \in Seq(Seq(D)) /\ tt # <<>> /\ Len(tt) = n + 1 /\ n \in Nat
      /\ \A i \in 1 .. n : tt[i] = ss[i]
      /\ tt[n + 1] = x
  BY <1>1, <1>2
<1>4. PICK h \in [1 .. n + 1 -> Seq(D)] : Flattens(tt, h, n + 1) /\ FlattenSeq(tt) = h[n + 1]
  BY <1>3, FlattenFacts
<1>5. CASE ss = <<>>
  <2>1. n = 0 /\ FlattenSeq(ss) = <<>>
    BY <1>2, <1>5, FlattenEmpty
  <2>2. h[1] = tt[1]
    BY <1>4, <2>1 DEF Flattens
  <2> QED BY <1>1, <1>3, <1>4, <2>1, <2>2
<1>6. CASE ss # <<>>
  <2>1. n # 0 /\ n \in 1 .. n /\ n + 1 \in 1 .. n + 1 /\ n + 1 # 1 /\ (n + 1) - 1 = n
        /\ \A i \in 1 .. n : i \in 1 .. n + 1
    BY <1>2, <1>3, <1>6
  <2>2. PICK g \in [1 .. n -> Seq(D)] : Flattens(ss, g, n) /\ FlattenSeq(ss) = g[n]
    BY <1>2, <1>6, FlattenFacts
  <2>3. Flattens(tt, h, n)
    BY <1>4, <2>1 DEF Flattens
  <2>5. h[n] = g[n]
    <3>1. Agree(tt, ss, n)
      BY <1>3 DEF Agree
    <3>2. Agree(h, g, n)
      BY <1>3, <2>2, <2>3, <3>1, FlattenUnique
    <3> QED BY <2>1, <3>2 DEF Agree
  <2>6. h[n + 1] = h[n] \o tt[n + 1]
    BY <1>4, <2>1 DEF Flattens
  <2> QED BY <1>1, <1>3, <1>4, <2>2, <2>5, <2>6
<1> QED BY <1>5, <1>6

LEMMA InThatOrder ==
    ASSUME NEW D, NEW a \in Seq(D), NEW x \in Seq(D), NEW y \in Seq(D)
    PROVE  (a \o x) \o y = a \o (x \o y)
  OBVIOUS

\* The first response comes first.
\* h adds up what g does, from a on.
From(D, a, tt, g, h, n) ==
    /\ h[1] = a
    /\ \A k \in 1 .. n : /\ tt[k] \in Seq(D) /\ g[k] \in Seq(D)
                         /\ h[k + 1] = h[k] \o tt[k]

LEMMA FlattenFrom ==
    ASSUME NEW D, NEW a \in Seq(D), NEW n \in Nat \ {0}, NEW tt, NEW g, NEW h,
           Flattens(tt, g, n), From(D, a, tt, g, h, n)
    PROVE  h[n + 1] = a \o g[n]
<1>1. PICK S : S = {k \in Nat : k \in 1 .. n => h[k + 1] = a \o g[k]}
  OBVIOUS
<1>2. 1 \in S
  <2>1. 1 \in 1 .. n
    OBVIOUS
  <2>2. g[1] = tt[1] /\ h[1 + 1] = a \o tt[1]
    BY <2>1 DEF Flattens, From
  <2> QED BY <1>1, <2>2
<1>3. ASSUME NEW k \in 1 .. n, k \in S, k + 1 <= n PROVE k + 1 \in S
  <2>1. k + 1 \in 1 .. n /\ k + 1 # 1 /\ (k + 1) - 1 = k /\ k + 1 \in Nat
    BY <1>3
  <2>2. h[k + 1] = a \o g[k]
    BY <1>1, <1>3
  <2>3. g[k + 1] = g[k] \o tt[k + 1]
    BY <2>1 DEF Flattens
  <2>4. h[(k + 1) + 1] = h[k + 1] \o tt[k + 1]
    BY <2>1 DEF From
  <2>5. g[k] \in Seq(D) /\ tt[k + 1] \in Seq(D)
    BY <1>3, <2>1 DEF From
  <2>6. h[(k + 1) + 1] = a \o g[k + 1]
    <3>1. PICK x \in Seq(D), y \in Seq(D) : x = g[k] /\ y = tt[k + 1]
      BY <2>5
    <3>2. (a \o x) \o y = a \o (x \o y)
      BY InThatOrder
    <3>3. h[(k + 1) + 1] = (a \o x) \o y /\ g[k + 1] = x \o y
      BY <2>2, <2>3, <2>4, <3>1
    <3> QED BY <3>2, <3>3
  <2> QED BY <1>1, <2>1, <2>6
<1>4. \A k \in 1 .. n : k \in S
  BY <1>2, <1>3, Climb
<1>5. n \in 1 .. n
  OBVIOUS
<1> QED BY <1>1, <1>4, <1>5

LEMMA FlattenHead ==
    ASSUME NEW D, NEW ss \in Seq(Seq(D)), ss # <<>>
    PROVE  FlattenSeq(ss) = Head(ss) \o FlattenSeq(Tail(ss))
<1>1. PICK tt, n, a : tt = Tail(ss) /\ n = Len(tt) /\ a = Head(ss)
  OBVIOUS
<1>2. /\ tt \in Seq(Seq(D)) /\ Len(ss) = n + 1 /\ n \in Nat /\ a \in Seq(D) /\ ss[1] = a
      /\ \A i \in 1 .. n : tt[i] = ss[i + 1]
  BY <1>1
<1>3. PICK h : h \in [1 .. n + 1 -> Seq(D)] /\ Flattens(ss, h, n + 1) /\ FlattenSeq(ss) = h[n + 1]
  BY <1>2, FlattenFacts
<1>4. h[1] = a
  BY <1>2, <1>3 DEF Flattens
<1>5. CASE tt = <<>>
  <2>1. n = 0 /\ FlattenSeq(tt) = <<>>
    BY <1>1, <1>5, FlattenEmpty
  <2>2. a \o <<>> = a
    BY <1>2
  <2> QED BY <1>1, <1>3, <1>4, <2>1, <2>2
<1>6. CASE tt # <<>>
  <2>1. n \in Nat \ {0}
    BY <1>1, <1>2, <1>6, EmptySeq
  <2>2. PICK g : g \in [1 .. n -> Seq(D)] /\ Flattens(tt, g, n) /\ FlattenSeq(tt) = g[n]
    BY <1>1, <1>2, <1>6, FlattenFacts
  <2>3. ASSUME NEW k \in 1 .. n PROVE h[k + 1] = h[k] \o tt[k]
    <3>1. k + 1 \in 1 .. n + 1 /\ k + 1 # 1 /\ (k + 1) - 1 = k
      BY <1>2
    <3> QED BY <1>2, <1>3, <3>1 DEF Flattens
  <2>4. \A i \in 1 .. n : tt[i] \in Seq(D) /\ g[i] \in Seq(D)
    <3>1. \A i \in 1 .. n : tt[i] \in Seq(D)
      BY <1>1, <1>2
    <3> QED BY <2>2, <3>1
  <2>5. From(D, a, tt, g, h, n)
    BY <1>4, <2>3, <2>4 DEF From
  <2>6. a \in Seq(D)
    BY <1>2
  <2>7. h[n + 1] = a \o g[n]
    <3>1. Flattens(tt, g, n)
      BY <2>2
    <3> QED BY <2>1, <2>5, <2>6, <3>1, FlattenFrom
  <2> QED BY <1>1, <1>3, <2>2, <2>7
<1> QED BY <1>5, <1>6

\* Two sequences of deliveries are about the same messages.
SameIds(p, q) == Len(p) = Len(q) /\ \A i \in 1 .. Len(p) : p[i].msg = q[i].msg

LEMMA SameIdsConcat ==
    ASSUME NEW D, NEW a \in Seq(D), NEW b \in Seq(D), NEW c \in Seq(D), NEW d \in Seq(D),
           SameIds(a, b), SameIds(c, d)
    PROVE  SameIds(a \o c, b \o d)
<1>1. /\ Len(a) \in Nat /\ Len(c) \in Nat /\ Len(b) = Len(a) /\ Len(d) = Len(c)
      /\ Len(a \o c) = Len(a) + Len(c) /\ Len(b \o d) = Len(a) + Len(c)
  <2>1. Len(a) \in Nat /\ Len(c) \in Nat /\ Len(b) = Len(a) /\ Len(d) = Len(c)
    BY DEF SameIds
  <2>2. Len(a \o c) = Len(a) + Len(c) /\ Len(b \o d) = Len(b) + Len(d)
    BY ConcatProperties
  <2> QED BY <2>1, <2>2
<1>2. ASSUME NEW i \in 1 .. Len(a) + Len(c) PROVE (a \o c)[i].msg = (b \o d)[i].msg
  <2>1. CASE i <= Len(a)
    <3>1. i \in 1 .. Len(a) /\ (a \o c)[i] = a[i] /\ (b \o d)[i] = b[i]
      BY <1>1, <2>1
    <3> QED BY <3>1 DEF SameIds
  <2>2. CASE ~(i <= Len(a))
    <3>1. i - Len(a) \in 1 .. Len(c) /\ (a \o c)[i] = c[i - Len(a)] /\ (b \o d)[i] = d[i - Len(a)]
      BY <1>1, <2>2
    <3> QED BY <3>1 DEF SameIds
  <2> QED BY <2>1, <2>2
<1> QED BY <1>1, <1>2 DEF SameIds

LEMMA FlattenSameIds ==
    ASSUME NEW D, NEW ss \in Seq(Seq(D)), NEW tt \in Seq(Seq(D)), Len(tt) = Len(ss),
           \A i \in 1 .. Len(ss) : SameIds(ss[i], tt[i])
    PROVE  SameIds(FlattenSeq(ss), FlattenSeq(tt))
<1>1. PICK n : n = Len(ss)
  OBVIOUS
<1>2. n \in Nat /\ Len(tt) = n /\ \A i \in 1 .. n : ss[i] \in Seq(D) /\ tt[i] \in Seq(D)
  BY <1>1
<1>3. CASE n = 0
  <2>1. ss = <<>> /\ tt = <<>>
    BY <1>1, <1>2, <1>3, EmptySeq
  <2> QED BY <2>1, FlattenEmpty DEF SameIds
<1>4. CASE n # 0
  <2>1. ss # <<>> /\ tt # <<>>
    BY <1>1, <1>2, <1>4
  <2>2. PICK g \in [1 .. n -> Seq(D)] : Flattens(ss, g, n) /\ FlattenSeq(ss) = g[n]
    BY <1>1, <2>1, FlattenFacts
  <2>3. PICK h \in [1 .. n -> Seq(D)] : Flattens(tt, h, n) /\ FlattenSeq(tt) = h[n]
    BY <1>2, <2>1, FlattenFacts
  <2>4. PICK S : S = {k \in Nat : k \in 1 .. n => SameIds(g[k], h[k])}
    OBVIOUS
  <2>5. 1 \in S
    BY <1>1, <1>2, <2>2, <2>3, <2>4 DEF Flattens
  <2>6. ASSUME NEW k \in 1 .. n, k \in S, k + 1 <= n PROVE k + 1 \in S
    <3>1. k + 1 \in 1 .. n /\ k + 1 # 1 /\ (k + 1) - 1 = k /\ k + 1 \in Nat
      BY <1>2, <2>6
    <3>2. g[k + 1] = g[k] \o ss[k + 1] /\ h[k + 1] = h[k] \o tt[k + 1]
      BY <2>2, <2>3, <3>1 DEF Flattens
    <3>3. SameIds(g[k], h[k])
      BY <2>4, <2>6
    <3>4. SameIds(ss[k + 1], tt[k + 1])
      BY <1>1, <3>1
    <3>5. g[k] \in Seq(D) /\ h[k] \in Seq(D) /\ ss[k + 1] \in Seq(D) /\ tt[k + 1] \in Seq(D)
      BY <1>2, <2>2, <2>3, <3>1
    <3>6. SameIds(g[k + 1], h[k + 1])
      BY <3>2, <3>3, <3>4, <3>5, SameIdsConcat
    <3> QED BY <2>4, <3>1, <3>6
  <2>7. \A k \in 1 .. n : k \in S
    BY <1>2, <2>5, <2>6, Climb
  <2>8. n \in 1 .. n
    BY <1>2, <1>4
  <2> QED BY <2>2, <2>3, <2>4, <2>7, <2>8
<1> QED BY <1>3, <1>4
-----------------------------------------------------------------------------
(* What a step does to the messages a consumer is still to be given. *)

LEMMA IdsFacts ==
    ASSUME NEW p \in Seq(Delivery)
    PROVE  /\ Ids(p) \in Seq(Messages) /\ Len(Ids(p)) = Len(p) /\ Len(p) \in Nat
           /\ \A i \in 1 .. Len(p) : Ids(p)[i] = p[i].msg
<1>1. DOMAIN p = 1 .. Len(p) /\ Len(p) \in Nat /\ \A i \in 1 .. Len(p) : p[i].msg \in Messages
  <2>1. DOMAIN p = 1 .. Len(p) /\ Len(p) \in Nat /\ \A i \in 1 .. Len(p) : p[i] \in Delivery
    OBVIOUS
  <2>2. \A d \in Delivery : d.msg \in Messages
    BY DEF Delivery
  <2> QED BY <2>1, <2>2
<1> QED BY <1>1 DEF Ids

LEMMA IdsSame ==
    ASSUME NEW p \in Seq(Delivery), NEW q \in Seq(Delivery), SameIds(p, q)
    PROVE  Ids(p) = Ids(q)
<1>1. DOMAIN p = 1 .. Len(p) /\ DOMAIN q = 1 .. Len(q)
  OBVIOUS
<1> QED BY <1>1 DEF Ids, SameIds

LEMMA PrefixOfItself == ASSUME NEW M, NEW p \in Seq(M) PROVE IsPrefix(p, p)
  BY DEF IsPrefix

LEMMA IdsPrefix ==
    ASSUME NEW p \in Seq(Delivery), NEW q \in Seq(Delivery)
    PROVE  IsPrefix(Ids(p), Ids(p \o q))
<1>1. p \o q \in Seq(Delivery) /\ Len(p \o q) = Len(p) + Len(q) /\ Len(p) \in Nat /\ Len(q) \in Nat
      /\ \A i \in 1 .. Len(p) : (p \o q)[i] = p[i]
  BY ConcatProperties
<1>2. /\ Ids(p) \in Seq(Messages) /\ Len(Ids(p)) = Len(p)
      /\ Ids(p \o q) \in Seq(Messages) /\ Len(Ids(p \o q)) = Len(p) + Len(q)
      /\ \A i \in 1 .. Len(p) : Ids(p)[i] = p[i].msg
      /\ \A i \in 1 .. Len(p) + Len(q) : Ids(p \o q)[i] = (p \o q)[i].msg
  BY <1>1, IdsFacts
<1>3. PICK a, b, n : a = Ids(p) /\ b = Ids(p \o q) /\ n = Len(p)
  OBVIOUS
<1>4. /\ a \in Seq(Messages) /\ b \in Seq(Messages) /\ n \in Nat /\ Len(a) = n /\ n <= Len(b)
      /\ \A i \in 1 .. n : a[i] = b[i]
  <2>1. a \in Seq(Messages) /\ b \in Seq(Messages) /\ n \in Nat /\ Len(a) = n
    BY <1>1, <1>2, <1>3
  <2>2. Len(b) = Len(p) + Len(q)
    BY <1>2, <1>3
  <2>3. n <= Len(b)
    BY <1>1, <1>3, <2>2
  <2>4. ASSUME NEW i \in 1 .. n PROVE a[i] = b[i]
    <3>1. i \in 1 .. Len(p) /\ i \in 1 .. Len(p) + Len(q)
      BY <1>1, <1>3
    <3> QED BY <1>1, <1>2, <1>3, <3>1
  <2> QED BY <2>1, <2>3, <2>4
<1>5. SubSeq(a, 1, n) = SubSeq(b, 1, n)
  BY <1>4
<1> QED BY <1>3, <1>4, <1>5 DEF IsPrefix

LEMMA IdsTaken ==
    ASSUME NEW c \in Seq(Delivery), NEW q \in Seq(Delivery), c # <<>>
    PROVE  /\ Ids(c \o q) # <<>> /\ Head(Ids(c \o q)) = Head(c).msg
           /\ Ids(Tail(c) \o q) = Tail(Ids(c \o q))
<1>1. /\ Tail(c) \in Seq(Delivery) /\ Len(c) \in Nat \ {0} /\ Len(q) \in Nat /\ Head(c) = c[1]
      /\ Len(Tail(c)) = Len(c) - 1 /\ \A i \in 1 .. Len(c) - 1 : Tail(c)[i] = c[i + 1]
  BY EmptySeq
<1>2. /\ c \o q \in Seq(Delivery) /\ Len(c \o q) = Len(c) + Len(q)
      /\ \A i \in 1 .. Len(c) + Len(q) : (c \o q)[i] = IF i <= Len(c) THEN c[i] ELSE q[i - Len(c)]
  BY ConcatProperties
<1>3. /\ Tail(c) \o q \in Seq(Delivery) /\ Len(Tail(c) \o q) = Len(Tail(c)) + Len(q)
      /\ \A i \in 1 .. Len(Tail(c)) + Len(q) :
            (Tail(c) \o q)[i] = IF i <= Len(Tail(c)) THEN Tail(c)[i] ELSE q[i - Len(Tail(c))]
  BY <1>1, ConcatProperties
<1>4. PICK a, b, n : a = Ids(c \o q) /\ b = Ids(Tail(c) \o q) /\ n = Len(c) + Len(q)
  OBVIOUS
<1>5. /\ a \in Seq(Messages) /\ b \in Seq(Messages) /\ n \in Nat \ {0} /\ Len(a) = n /\ Len(b) = n - 1
      /\ \A i \in 1 .. n : a[i] = (c \o q)[i].msg
      /\ \A i \in 1 .. n - 1 : b[i] = (Tail(c) \o q)[i].msg
  <2>1. n \in Nat \ {0} /\ Len(c \o q) = n /\ Len(Tail(c) \o q) = n - 1
    BY <1>1, <1>2, <1>3, <1>4
  <2>2. PICK u \in Seq(Delivery), v \in Seq(Delivery) : u = c \o q /\ v = Tail(c) \o q
    BY <1>2, <1>3
  <2>3. /\ a \in Seq(Messages) /\ Len(a) = n /\ \A i \in 1 .. n : a[i] = u[i].msg
    BY <1>4, <2>1, <2>2, IdsFacts
  <2>4. /\ b \in Seq(Messages) /\ Len(b) = n - 1 /\ \A i \in 1 .. n - 1 : b[i] = v[i].msg
    BY <1>4, <2>1, <2>2, IdsFacts
  <2> QED BY <2>1, <2>2, <2>3, <2>4
<1>6. ASSUME NEW i \in 1 .. n - 1 PROVE b[i] = a[i + 1]
  <2>1. i + 1 \in 1 .. n
    BY <1>5
  <2>2. (Tail(c) \o q)[i] = (c \o q)[i + 1]
    <3>1. CASE i <= Len(c) - 1
      BY <1>1, <1>2, <1>3, <1>4, <2>1, <3>1
    <3>2. CASE ~(i <= Len(c) - 1)
      BY <1>1, <1>2, <1>3, <1>4, <2>1, <3>2
    <3> QED BY <3>1, <3>2
  <2> QED BY <1>5, <2>1, <2>2
<1>7. a # <<>> /\ Head(a) = a[1] /\ Tail(a) \in Seq(Messages) /\ Len(Tail(a)) = n - 1
      /\ \A i \in 1 .. n - 1 : Tail(a)[i] = a[i + 1]
  BY <1>5
<1>8. b = Tail(a)
  BY <1>5, <1>6, <1>7, SeqEqual
<1>9. a[1] = Head(c).msg
  BY <1>1, <1>2, <1>4, <1>5
<1> QED BY <1>4, <1>7, <1>8, <1>9

\* The part of NothingSkipped that is about one stream.
InOrder(s) ==
    Reading(s) /\ Reading(s)' =>
        \/ IsPrefix(Ids(Pending(s)), Ids(Pending(s))')
        \/ /\ held = None /\ Ids(Pending(s)) # <<>>
           /\ held'.msg = Head(Ids(Pending(s))) /\ Ids(Pending(s))' = Tail(Ids(Pending(s)))

LEMMA PendingFacts ==
    ASSUME TypeOK, NEW s \in Streams
    PROVE  /\ stream[s].current \in Seq(Delivery) /\ stream[s].responses \in Seq(Seq(Delivery))
           /\ FlattenSeq(stream[s].responses) \in Seq(Delivery)
           /\ Pending(s) \in Seq(Delivery) /\ Ids(Pending(s)) \in Seq(Messages)
<1>1. stream[s].current \in Seq(Delivery) /\ stream[s].responses \in Seq(Seq(Delivery))
  BY StreamFacts
<1>2. FlattenSeq(stream[s].responses) \in Seq(Delivery)
  BY <1>1, FlattenType
<1>3. Pending(s) \in Seq(Delivery)
  BY <1>1, <1>2, ConcatProperties DEF Pending
<1> QED BY <1>1, <1>2, <1>3, IdsFacts

\* A stream that keeps its buffer, whatever else changes.
LEMMA KeptInOrder ==
    ASSUME TypeOK, NEW s \in Streams,
           stream'[s].current = stream[s].current, stream'[s].responses = stream[s].responses
    PROVE  InOrder(s)
<1>1. Pending(s)' = Pending(s)
  BY DEF Pending
<1>2. Ids(Pending(s))' = Ids(Pending(s))
  BY <1>1 DEF Ids
<1>3. IsPrefix(Ids(Pending(s)), Ids(Pending(s)))
  BY PendingFacts, PrefixOfItself
<1> QED BY <1>2, <1>3 DEF InOrder

LEMMA NextResponseInOrder == ASSUME TypeOK, NEW s \in Streams, NextResponse(s) PROVE InOrder(s)
<1>1. PICK r : r = stream[s].responses
  OBVIOUS
<1>2. stream \in [Streams -> StreamState] /\ r \in Seq(Seq(Delivery)) /\ r # <<>> /\ stream[s].current = <<>>
  BY <1>1, TypeFacts, StreamFacts DEF NextResponse
<1>3. stream'[s].current = Head(r) /\ stream'[s].responses = Tail(r)
  BY <1>1, <1>2 DEF NextResponse, StreamState
<1>4. FlattenSeq(r) \in Seq(Delivery) /\ FlattenSeq(r) = Head(r) \o FlattenSeq(Tail(r))
  BY <1>2, FlattenType, FlattenHead
<1>5. Pending(s) = <<>> \o FlattenSeq(r) /\ Pending(s)' = Head(r) \o FlattenSeq(Tail(r))
  BY <1>1, <1>2, <1>3 DEF Pending
<1>6. Pending(s)' = Pending(s)
  BY <1>4, <1>5, ConcatEmptySeq
<1>7. Ids(Pending(s))' = Ids(Pending(s))
  BY <1>6 DEF Ids
<1>8. IsPrefix(Ids(Pending(s)), Ids(Pending(s)))
  BY PendingFacts, PrefixOfItself
<1> QED BY <1>7, <1>8 DEF InOrder

LEMMA YieldInOrder == ASSUME TypeOK, NEW s \in Streams, Yield(s) PROVE InOrder(s)
<1>1. PICK c, f : c = stream[s].current /\ f = FlattenSeq(stream[s].responses)
  OBVIOUS
<1>2. stream \in [Streams -> StreamState] /\ c \in Seq(Delivery) /\ f \in Seq(Delivery) /\ c # <<>>
      /\ held = None /\ held' = Head(c)
  BY <1>1, TypeFacts, PendingFacts DEF Yield
<1>3. stream'[s].current = Tail(c) /\ stream'[s].responses = stream[s].responses
  BY <1>1, <1>2 DEF Yield, StreamState
<1>4. Pending(s) = c \o f /\ Pending(s)' = Tail(c) \o f
  BY <1>1, <1>3 DEF Pending
<1>5. Ids(Pending(s)) = Ids(c \o f) /\ Ids(Pending(s))' = Ids(Tail(c) \o f)
  BY <1>4 DEF Ids
<1>6. /\ Ids(c \o f) # <<>> /\ Head(Ids(c \o f)) = Head(c).msg
      /\ Ids(Tail(c) \o f) = Tail(Ids(c \o f))
  BY <1>2, IdsTaken
<1> QED BY <1>2, <1>5, <1>6 DEF InOrder

LEMMA PushInOrder ==
    ASSUME TypeOK, NEW s \in Streams, NEW S \in SUBSET Messages, Push(s, S), Reading(s)
    PROVE  InOrder(s)
<1>1. PICK c, r, ids, x : /\ c = stream[s].current /\ r = stream[s].responses /\ ids = SetToSeq(S)
                         /\ x = [i \in DOMAIN ids |-> Fresh(ids[i])]
  OBVIOUS
<1>2. stream \in [Streams -> StreamState] /\ c \in Seq(Delivery) /\ r \in Seq(Seq(Delivery))
      /\ FlattenSeq(r) \in Seq(Delivery)
  BY <1>1, TypeFacts, PendingFacts
<1>3. x \in Seq(Delivery)
  <2>1. ids \in Seq(S)
    BY <1>1, ResponseFacts
  <2>2. DOMAIN ids = 1 .. Len(ids) /\ Len(ids) \in Nat /\ \A i \in DOMAIN ids : ids[i] \in Messages
    BY <2>1
  <2>3. \A i \in DOMAIN ids : Fresh(ids[i]) \in Delivery
    BY <2>2, FreshFacts
  <2> QED BY <1>1, <2>2, <2>3
<1>4. stream' = [stream EXCEPT ![s] = [stream[s] EXCEPT !.claiming = FALSE, !.responses = Append(r, x)]]
  <2>1. Response(S) = x
    BY <1>1 DEF Response
  <2> QED BY <1>1, <2>1 DEF Push, Pushed, Reading
<1>5. stream'[s].current = c /\ stream'[s].responses = Append(r, x)
  BY <1>1, <1>2, <1>4 DEF StreamState
<1>6. PICK f \in Seq(Delivery) : f = FlattenSeq(r)
  BY <1>2
<1>7. FlattenSeq(Append(r, x)) = f \o x
  BY <1>2, <1>3, <1>6, FlattenAppend
<1>8. Pending(s) = c \o f /\ Pending(s)' = c \o (f \o x)
  BY <1>1, <1>5, <1>6, <1>7 DEF Pending
<1>9. (c \o f) \o x = c \o (f \o x) /\ c \o f \in Seq(Delivery)
  BY <1>2, <1>3, InThatOrder, ConcatProperties
<1>10. Ids(Pending(s)) = Ids(c \o f) /\ Ids(Pending(s))' = Ids((c \o f) \o x)
  BY <1>8, <1>9 DEF Ids
<1>11. IsPrefix(Ids(c \o f), Ids((c \o f) \o x))
  BY <1>3, <1>9, IdsPrefix
<1> QED BY <1>10, <1>11 DEF InOrder

LEMMA StaleSameIds ==
    ASSUME NEW m \in Messages, NEW q \in Seq(Delivery)
    PROVE  StaleSeq(m, q) \in Seq(Delivery) /\ SameIds(q, StaleSeq(m, q))
<1>1. ASSUME NEW d \in Delivery PROVE Stale(m, d) \in Delivery /\ Stale(m, d).msg = d.msg
  <2>1. Stale(m, d) \in Delivery
    BY StaleFacts
  <2>2. Stale(m, d).msg = d.msg
    BY DEF Stale, Delivery
  <2> QED BY <2>1, <2>2
<1>2. DOMAIN q = 1 .. Len(q) /\ Len(q) \in Nat /\ \A i \in 1 .. Len(q) : q[i] \in Delivery
  OBVIOUS
<1>3. StaleSeq(m, q) = [i \in 1 .. Len(q) |-> Stale(m, q[i])]
  BY <1>2 DEF StaleSeq
<1>4. StaleSeq(m, q) \in Seq(Delivery) /\ Len(StaleSeq(m, q)) = Len(q)
  BY <1>1, <1>2, <1>3
<1> QED BY <1>1, <1>2, <1>3, <1>4 DEF SameIds

LEMMA ExpireInOrder ==
    ASSUME TypeOK, NEW m \in Messages, Expire(m), NEW s \in Streams
    PROVE  InOrder(s)
<1>1. PICK c, r : c = stream[s].current /\ r = stream[s].responses
  OBVIOUS
<1>2. c \in Seq(Delivery) /\ r \in Seq(Seq(Delivery)) /\ stream \in [Streams -> StreamState]
  BY <1>1, TypeFacts, PendingFacts
<1>3. PICK d, t : d = StaleSeq(m, c) /\ t = [i \in DOMAIN r |-> StaleSeq(m, r[i])]
  OBVIOUS
<1>4. stream'[s].current = d /\ stream'[s].responses = t
  BY <1>1, <1>2, <1>3 DEF Expire, StreamState
<1>5. d \in Seq(Delivery) /\ SameIds(c, d)
  BY <1>2, <1>3, StaleSameIds
<1>6. DOMAIN r = 1 .. Len(r) /\ Len(r) \in Nat /\ \A i \in 1 .. Len(r) : r[i] \in Seq(Delivery)
  BY <1>2
<1>7. \A i \in 1 .. Len(r) : StaleSeq(m, r[i]) \in Seq(Delivery) /\ SameIds(r[i], StaleSeq(m, r[i]))
  BY <1>6, StaleSameIds
<1>8. t = [i \in 1 .. Len(r) |-> StaleSeq(m, r[i])]
  BY <1>3, <1>6
<1>9. t \in Seq(Seq(Delivery)) /\ Len(t) = Len(r)
  BY <1>6, <1>7, <1>8
<1>10. \A i \in 1 .. Len(r) : SameIds(r[i], t[i])
  BY <1>7, <1>8
<1>11. SameIds(FlattenSeq(r), FlattenSeq(t))
  BY <1>2, <1>9, <1>10, FlattenSameIds
<1>12. FlattenSeq(r) \in Seq(Delivery) /\ FlattenSeq(t) \in Seq(Delivery)
  BY <1>2, <1>9, FlattenType
<1>13. PICK a \in Seq(Delivery), b \in Seq(Delivery) : a = FlattenSeq(r) /\ b = FlattenSeq(t)
  BY <1>12
<1>14. SameIds(c \o a, d \o b) /\ c \o a \in Seq(Delivery) /\ d \o b \in Seq(Delivery)
  BY <1>2, <1>5, <1>11, <1>13, SameIdsConcat, ConcatProperties
<1>15. Ids(c \o a) = Ids(d \o b)
  BY <1>14, IdsSame
<1>16. Pending(s) = c \o a /\ Pending(s)' = d \o b
  BY <1>1, <1>4, <1>13 DEF Pending
<1>17. Ids(Pending(s)) = Ids(c \o a) /\ Ids(Pending(s))' = Ids(d \o b)
  BY <1>16 DEF Ids
<1>18. IsPrefix(Ids(Pending(s)), Ids(Pending(s)))
  BY PendingFacts, PrefixOfItself
<1> QED BY <1>15, <1>17, <1>18 DEF InOrder

LEMMA NextInOrder == TypeOK /\ Next => \A s \in Streams : InOrder(s)
<1> SUFFICES ASSUME TypeOK, Next, NEW s \in Streams PROVE InOrder(s)
  OBVIOUS
<1>0. stream \in [Streams -> StreamState]
  BY TypeFacts
<1>1. ASSUME NEW t \in Streams, t # s, NEW x, stream' = [stream EXCEPT ![t] = x] PROVE InOrder(s)
  <2>1. stream'[s] = stream[s]
    BY <1>0, <1>1
  <2> QED BY <2>1, KeptInOrder
<1>2. ASSUME NEW t \in Streams, Open(t) PROVE InOrder(s)
  BY <1>2 DEF Open, InOrder
<1>3. ASSUME NEW t \in Streams, NextResponse(t) PROVE InOrder(s)
  <2>1. CASE t = s
    BY <1>3, <2>1, NextResponseInOrder
  <2>2. CASE t # s
    BY <1>1, <1>3, <2>2 DEF NextResponse
  <2> QED BY <2>1, <2>2
<1>4. ASSUME NEW t \in Streams, Yield(t) PROVE InOrder(s)
  <2>1. CASE t = s
    BY <1>4, <2>1, YieldInOrder
  <2>2. CASE t # s
    BY <1>1, <1>4, <2>2 DEF Yield
  <2> QED BY <2>1, <2>2
<1>5. ASSUME NEW t \in Streams, End(t) PROVE InOrder(s)
  <2>1. CASE t = s
    <3>1. stream'[s] = NoStream
      BY <1>0, <1>5, <2>1 DEF End
    <3>2. ~Reading(s)'
      BY <3>1 DEF Reading, NoStream
    <3> QED BY <3>2 DEF InOrder
  <2>2. CASE t # s
    BY <1>1, <1>5, <2>2 DEF End
  <2> QED BY <2>1, <2>2
<1>6. ASSUME NEW t \in Streams, Close(t) PROVE InOrder(s)
  <2>1. CASE t = s
    <3>1. stream'[s].current = stream[s].current /\ stream'[s].responses = stream[s].responses
      BY <1>0, <1>6, <2>1 DEF Close, StreamState
    <3> QED BY <3>1, KeptInOrder
  <2>2. CASE t # s
    BY <1>1, <1>6, <2>2 DEF Close
  <2> QED BY <2>1, <2>2
<1>7. ASSUME NEW t \in Streams, NEW S \in SUBSET Messages, Push(t, S) PROVE InOrder(s)
  <2>1. CASE t = s /\ Reading(s)
    BY <1>7, <2>1, PushInOrder
  <2>2. CASE t = s /\ ~Reading(s)
    BY <2>2 DEF InOrder
  <2>3. CASE t # s
    BY <1>1, <1>7, <2>3 DEF Push
  <2> QED BY <2>1, <2>2, <2>3
<1>8. CASE Ack \/ Skip
  <2>1. stream' = stream
    BY <1>8 DEF Ack, Skip
  <2> QED BY <2>1, KeptInOrder
<1>9. CASE Leave
  <2>1. ASSUME Reading(s) PROVE ~Reading(s)'
    <3>1. stream'[s] = [stream[s] EXCEPT !.read = FALSE, !.responses = <<>>, !.current = <<>>]
      BY <1>9, <2>1 DEF Leave
    <3> QED BY <1>0, <3>1 DEF Reading, StreamState
  <2> QED BY <2>1 DEF InOrder
<1>10. ASSUME NEW m \in Messages, Expire(m) PROVE InOrder(s)
  BY <1>10, ExpireInOrder
<1>11. ASSUME NEW t \in Streams, dead_letter_due_messages(t) \/ FindNothing(t) PROVE InOrder(s)
  <2>1. CASE t = s
    <3>1. stream'[s].current = stream[s].current /\ stream'[s].responses = stream[s].responses
      BY <1>0, <1>11, <2>1 DEF dead_letter_due_messages, FindNothing, StreamState
    <3> QED BY <3>1, KeptInOrder
  <2>2. CASE t # s
    <3>1. stream'[s] = stream[s]
      BY <1>0, <1>11, <2>2 DEF dead_letter_due_messages, FindNothing
    <3> QED BY <3>1, KeptInOrder
  <2> QED BY <2>1, <2>2
<1> QED BY <1>2, <1>3, <1>4, <1>5, <1>6, <1>7, <1>8, <1>9, <1>10, <1>11 DEF Next, Read, Deadline, Disconnect
-----------------------------------------------------------------------------
(* The theorems. *)

\* The generator of streamRead hands out deliveries, never part of one, and
\* its buffers hold nothing else, for any number of streams and messages.
THEOREM TypeCorrect == Spec => []TypeOK
<1>1. Init => IInv
  BY InitIInv
<1>2. IInv /\ [Next]_vars => IInv'
  BY NextIInv
<1>3. IInv => TypeOK
  BY DEF IInv
<1> QED BY <1>1, <1>2, <1>3, PTL DEF Spec

\* However many streams are open, left or cut off, and whatever the
\* generators of streamRead have buffered when a window ends: a message is
\* never live in two deliveries, and a live one is leased.
THEOREM DeliveryUnique == Spec => []OneLiveDelivery
<1>1. Init => IInv
  BY InitIInv
<1>2. IInv /\ [Next]_vars => IInv'
  BY NextIInv
<1>3. IInv => OneLiveDelivery
  BY DEF IInv
<1> QED BY <1>1, <1>2, <1>3, PTL DEF Spec

\* The generator of streamRead hands out what it has received in the order of
\* the responses and of the messages in them, one at a time, whatever the
\* server pushes, expires or cuts off meanwhile: of a stream that is being
\* read nothing is dropped, repeated or overtaken.
THEOREM DeliveredInOrder == Spec => NothingSkipped
<1>1. TypeOK /\ [Next]_vars => [\A s \in Streams :
          Reading(s) /\ Reading(s)' =>
              LET before == Ids(Pending(s))
                  after == Ids(Pending(s))'
              IN  \/ IsPrefix(before, after)
                  \/ /\ held = None /\ before # <<>>
                     /\ held'.msg = Head(before) /\ after = Tail(before)]_vars
  BY NextInOrder DEF InOrder
<1>2. Spec => []TypeOK
  BY TypeCorrect
<1> QED BY <1>1, <1>2, PTL DEF Spec, NothingSkipped
=============================================================================
