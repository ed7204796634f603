--------------------------- MODULE MqStoreProofs ---------------------------
(***************************************************************************)
(* Proofs about MqStore, for any number of workers, queues, messages,      *)
(* reads and ticks: its types, its safety properties, the order of a read, *)
(* and that it implements MqContract.                                      *)
(***************************************************************************)
EXTENDS MqStore, FiniteSetTheorems, NaturalsInduction, WellFoundedInduction, TLAPS

USE ConstantsAssumption

-----------------------------------------------------------------------------
(* Types.                                                                  *)

LEMMA IdleType == Idle \in Rpc /\ NoMsg \in MsgRow /\ NoDlq \in DlqRow /\ NoDelivery \in Delivery
<1>1. NullToken \in Token
  BY DEF NullToken, Token
<1>2. NoDelivery \in Delivery
  BY <1>1 DEF NoDelivery, Delivery
<1>3. Idle \in Rpc
  BY <1>2 DEF Idle, Rpc, Steps
<1>4. NoMsg \in MsgRow /\ NoDlq \in DlqRow
  BY <1>1 DEF NoMsg, MsgRow, NoDlq, DlqRow
<1> QED BY <1>2, <1>3, <1>4

LEMMA ReturnType == ASSUME TypeOK, NEW w \in Workers, Return(w)
                    PROVE  rpc' \in [Workers -> Rpc]
  BY IdleType DEF Return, TypeOK

LEMMA TypeInit == Init => TypeOK
  BY IdleType DEF Init, TypeOK, MsgIds, QueueIds

LEMMA MoveToDlqType == ASSUME TypeOK, NEW S, MoveToDlq(S)
                       PROVE  /\ mq_messages' \in [MsgIds -> MsgRow]
                              /\ mq_dlq' \in [MsgIds -> DlqRow]
  BY IdleType DEF MoveToDlq, TypeOK, MsgRow, DlqRow

LEMMA TypeNext == TypeOK /\ [Next]_vars => TypeOK'
<1> SUFFICES ASSUME TypeOK, [Next]_vars PROVE TypeOK'
  OBVIOUS
<1>1. CASE UNCHANGED vars
  BY <1>1 DEF vars, tables, history, TypeOK
<1>2. CASE Tick \/ sweep_dlq
  BY <1>2, IdleType DEF Tick, sweep_dlq, DeleteDlq, tables, history, TypeOK
<1>3. ASSUME NEW name \in Names, drop_queue(name) PROVE TypeOK'
  BY <1>3, IdleType DEF drop_queue, tables, history, TypeOK
<1>4. ASSUME NEW name \in Names, NEW lim \in Limits, create_queue(name, lim)
      PROVE  TypeOK'
  BY <1>4 DEF create_queue, tables, history, TypeOK, QueueIds
<1>5. ASSUME NEW w \in Workers, Abandon(w) PROVE TypeOK'
  BY <1>5, ReturnType DEF Abandon, tables, history, TypeOK
<1>6. ASSUME NEW w \in Workers, NEW name \in Names, NEW op \in Ops,
             NEW d \in Delivery, queue_id(w, op, name, d)
      PROVE  TypeOK'
  <2>1. FirstStep(op) \in Steps
    BY DEF FirstStep, AllOps, Steps
  <2>2. [Idle EXCEPT !.step = FirstStep(op), !.queue_id = mq_queues[name],
                     !.d = d] \in Rpc
    BY <2>1, IdleType DEF Rpc, TypeOK
  <2> QED BY <1>6, <2>2 DEF queue_id, tables, history, TypeOK
<1>7. ASSUME NEW w \in Workers, Handler(w) PROVE TypeOK'
  <2>1. CASE send_begin(w) \/ archive_begin(w)
    BY <2>1 DEF send_begin, archive_begin, tables, history, TypeOK, Rpc, Steps
  <2>2. CASE send_insert(w)
    <3>1. next_id \in MsgIds /\ next_id' \in 1..(MaxMsgs + 1)
      BY <2>2 DEF send_insert, TypeOK, MsgIds
    <3>2. rpc' \in [Workers -> Rpc]
      BY <2>2, <3>1 DEF send_insert, TypeOK, Rpc
    <3> QED BY <2>2, <3>1, <3>2 DEF send_insert, tables, history, TypeOK
  <2>3. CASE send_commit(w)
    <3>1. ASSUME NEW m \in rpc[w].ids
          PROVE [NoMsg EXCEPT !.queue_id = rpc[w].queue_id,
                               !.available_at = rpc[w].t] \in MsgRow
      BY IdleType DEF TypeOK, Rpc, MsgRow
    <3> QED BY <2>3, <3>1, ReturnType DEF send_commit, tables, history, TypeOK, Rpc
  <2>4. CASE dead_letter_due_messages(w)
    <3>1. rpc' \in [Workers -> Rpc]
      BY <2>4 DEF dead_letter_due_messages, TypeOK, Rpc, Steps
    <3> QED BY <2>4, <3>1, MoveToDlqType DEF dead_letter_due_messages, tables, history, TypeOK
  <2>5. CASE read(w)
    <3> PICK quantity \in 1..MaxBatch, secs \in Visibilities, skipped \in SUBSET Claimable(w) :
            Claim(FirstN(Claimable(w) \ skipped, quantity), secs)
      BY <2>5 DEF read
    <3> DEFINE picked == FirstN(Claimable(w) \ skipped, quantity)
    <3>1. Claim(picked, secs)
      OBVIOUS
    <3>2. picked \subseteq MsgIds
      BY DEF FirstN, Claimable, Visible
    <3> HIDE DEF picked
    <3>3. ASSUME NEW m \in MsgIds, NEW c \in Nat, NEW n \in Nat PROVE AckToken(m, c, n) \in Token
      BY DEF AckToken, Token, MsgIds
    <3>0. secs \in Nat /\ now + secs \in Nat /\ reads + 1 \in Nat
      BY DEF TypeOK
    <3>4. mq_messages' \in [MsgIds -> MsgRow]
      <4>1. ASSUME NEW m \in MsgIds
            PROVE  [mq_messages[m] EXCEPT
                        !.visibility_timeout_at = now + secs,
                        !.ack_token = AckToken(m, mq_messages[m].read_count + 1, reads + 1),
                        !.read_count = @ + 1] \in MsgRow
        <5>1. mq_messages[m] \in MsgRow /\ mq_messages[m].read_count + 1 \in Nat
          BY DEF TypeOK, MsgRow
        <5>2. AckToken(m, mq_messages[m].read_count + 1, reads + 1) \in Token
          BY <5>1, <3>0, <3>3
        <5> QED BY <5>1, <5>2, <3>0 DEF MsgRow
      <4>2. mq_messages' = [m \in MsgIds |->
              IF m \in picked
              THEN [mq_messages[m] EXCEPT
                        !.visibility_timeout_at = now + secs,
                        !.ack_token = AckToken(m, mq_messages[m].read_count + 1, reads + 1),
                        !.read_count = @ + 1]
              ELSE mq_messages[m]]
        BY <3>1, Zenon DEF Claim
      <4> QED BY <4>1, <4>2, Zenon DEF TypeOK
    <3>5. deliveries' \in SUBSET Delivery
      <4>1. ASSUME NEW m \in picked
            PROVE  [m |-> m, tok |-> AckToken(m, mq_messages[m].read_count + 1, reads + 1),
                    n |-> reads + 1] \in Delivery
        <5>1. m \in MsgIds /\ mq_messages[m].read_count + 1 \in Nat
          BY <3>2 DEF TypeOK, MsgRow
        <5>2. AckToken(m, mq_messages[m].read_count + 1, reads + 1) \in Token
          BY <5>1, <3>0, <3>3
        <5> QED BY <5>1, <5>2, <3>0 DEF Delivery, MsgIds
      <4>2. deliveries' = deliveries \cup
              {[m |-> m, tok |-> AckToken(m, mq_messages[m].read_count + 1, reads + 1),
                n |-> reads + 1] : m \in picked}
        BY <3>1, Zenon DEF Claim
      <4>3. deliveries \subseteq Delivery
        BY DEF TypeOK
      <4> QED BY <4>1, <4>2, <4>3, Zenon
    <3>6. reads' \in Nat /\ last' \in [MsgIds -> Nat] /\ promised' \in [MsgIds -> Nat]
      BY <3>1, <3>0 DEF Claim, TypeOK
    <3> QED BY <2>5, <3>4, <3>5, <3>6, ReturnType DEF read, TypeOK
  <2>6. CASE read_empty(w)
    BY <2>6, ReturnType DEF read_empty, tables, history, TypeOK
  <2>7. CASE ack(w) \/ archive(w)
    <3>1. rpc[w].d.n \in Nat /\ rpc[w].queue_id \in 0..MaxQueues
      BY DEF TypeOK, Rpc, Delivery
    <3>2. /\ mq_messages' \in [MsgIds -> MsgRow]
          /\ settled' \in [MsgIds -> Nat]
          /\ mq_archives' \in [MsgIds -> 0..MaxQueues]
      <4>1. CASE ack(w)
        BY <4>1, <3>1, IdleType DEF ack, Remove, Settle, TypeOK
      <4>2. CASE archive(w)
        BY <4>2, <3>1, IdleType DEF archive, Remove, Settle, TypeOK
      <4> QED BY <2>7, <4>1, <4>2
    <3> QED BY <2>7, <3>2, ReturnType DEF ack, archive, TypeOK
  <2>8. CASE set_visibility_timeout(w)
    <3>1. ASSUME NEW secs \in Visibilities PROVE now + secs \in Nat
      BY DEF TypeOK
    <3>2. CASE ~Holds(rpc[w].queue_id, rpc[w].d, now)
      BY <2>8, <3>2, ReturnType DEF set_visibility_timeout, TypeOK
    <3>3. CASE Holds(rpc[w].queue_id, rpc[w].d, now)
      <4> DEFINE d == rpc[w].d
      <4> PICK secs \in Visibilities :
              /\ mq_messages' = [mq_messages EXCEPT
                        ![d.m].visibility_timeout_at = now + secs]
              /\ promised' = IF d.n = last[d.m]
                             THEN [promised EXCEPT ![d.m] = now + secs]
                             ELSE promised
        BY <2>8, <3>3 DEF set_visibility_timeout
      <4>1. promised' \in [MsgIds -> Nat]
        BY <3>1 DEF TypeOK
      <4>2. d.m \in MsgIds
        BY <3>3 DEF Holds
      <4>3. mq_messages' \in [MsgIds -> MsgRow]
        BY <3>1, <4>2 DEF TypeOK, MsgRow
      <4> QED BY <2>8, <4>1, <4>3, ReturnType DEF set_visibility_timeout, TypeOK
    <3> QED BY <3>2, <3>3
  <2>9. CASE purge_queue(w) \/ purge_dlq(w)
    BY <2>9, ReturnType, IdleType DEF purge_queue, purge_dlq, DeleteDlq, history, TypeOK
  <2>10. CASE dead_letter(w)
    BY <2>10, ReturnType, MoveToDlqType DEF dead_letter, history, TypeOK
  <2>11. CASE reprocess_dlq_message(w)
    <3>1. [NoMsg EXCEPT !.queue_id = rpc[w].queue_id, !.available_at = now] \in MsgRow
      BY IdleType DEF TypeOK, MsgRow, Rpc
    <3>2. mq_messages' \in [MsgIds -> MsgRow] /\ mq_dlq' \in [MsgIds -> DlqRow]
      BY <2>11, <3>1, IdleType DEF reprocess_dlq_message, TypeOK
    <3> QED BY <2>11, <3>2, ReturnType DEF reprocess_dlq_message, history, TypeOK
  <2> QED BY <1>7, <2>1, <2>2, <2>3, <2>4, <2>5, <2>6, <2>7, <2>8, <2>9, <2>10, <2>11 DEF Handler
<1>8. NoDelivery \in Delivery /\ deliveries \subseteq Delivery
  BY IdleType DEF TypeOK
<1> QED BY <1>1, <1>2, <1>3, <1>4, <1>5, <1>6, <1>7, <1>8 DEF Next, Call, CallWithToken

\* Every state of the store is of its tables' types, whatever the bounds.
THEOREM TypeCorrect == Spec => []TypeOK
  BY TypeInit, TypeNext, PTL DEF Spec

-----------------------------------------------------------------------------
(* What a handler does to one message.  Every statement that changes rows  *)
(* does one of these to each message, for some worker's benefit.           *)

Kept(m) ==
    /\ mq_messages'[m] = mq_messages[m] /\ mq_dlq'[m] = mq_dlq[m]
    /\ mq_archives'[m] = mq_archives[m]
    /\ promised'[m] = promised[m] /\ settled'[m] = settled[m]

\* ack and archive, by the delivery whose token is in the row
Settling(m) ==
    /\ Active(m) /\ mq_messages'[m] = NoMsg /\ mq_dlq'[m] = mq_dlq[m]
    /\ mq_archives'[m] \in {mq_archives[m], mq_messages[m].queue_id}
    /\ promised'[m] = promised[m]
    /\ settled'[m] = last[m] /\ last[m] # 0

\* set_visibility_timeout
Extending(m) ==
    /\ Active(m) /\ mq_dlq'[m] = mq_dlq[m] /\ mq_archives'[m] = mq_archives[m]
    /\ mq_messages'[m].queue_id = mq_messages[m].queue_id
    /\ mq_messages'[m].ack_token = mq_messages[m].ack_token
    /\ promised'[m] = mq_messages'[m].visibility_timeout_at
    /\ settled'[m] = settled[m]

\* dead lettering: of a message nobody holds, or revoking the promise
Burying(m) ==
    /\ Active(m) /\ mq_messages'[m] = NoMsg
    /\ mq_dlq'[m].queue_id = mq_messages[m].queue_id
    /\ mq_archives'[m] = mq_archives[m]
    /\ promised'[m] <= now /\ settled'[m] = settled[m]

\* reprocess_dlq_message
Reviving(m) ==
    /\ Dead(m) /\ mq_dlq'[m] = NoDlq /\ mq_archives'[m] = mq_archives[m]
    /\ mq_messages'[m].queue_id = mq_dlq[m].queue_id
    /\ mq_messages'[m].ack_token = NullToken
    /\ promised'[m] = promised[m] /\ settled'[m] = settled[m]

\* purge_queue, purge_dlq, sweep_dlq
Discarding(m) ==
    /\ mq_messages'[m] \in {mq_messages[m], NoMsg}
    /\ mq_dlq'[m] \in {mq_dlq[m], NoDlq}
    /\ mq_archives'[m] = mq_archives[m]
    /\ promised'[m] = promised[m] /\ settled'[m] = settled[m]

Touched(m) == \/ Kept(m) \/ Settling(m) \/ Extending(m) \/ Burying(m)
              \/ Reviving(m) \/ Discarding(m)

\* What happens to the future of a worker: nothing, it ends, or it moves on.
Proceeds == \A w \in Workers :
    \/ rpc'[w] \in {rpc[w], Idle}
    \/ /\ rpc[w].step # "idle"
       /\ rpc'[w].ids = rpc[w].ids
       /\ rpc'[w].queue_id = rpc[w].queue_id
       /\ rpc'[w].d = rpc[w].d

LEMMA MessageSteps ==
    ASSUME IInv, TypeOK', Proceeds, now' \in {now, now + 1},
           UNCHANGED <<mq_queues, next_queue, next_id, reads, deliveries,
                       sent, last>>,
           \A m \in MsgIds : Touched(m)
    PROVE  IInv'
<1> USE DEF IInv, Touched
<1>1. ASSUME NEW m \in MsgIds
      PROVE  /\ ~(Active(m)' /\ Dead(m)') /\ ~(Active(m)' /\ Archived(m)')
             /\ ~(Dead(m)' /\ Archived(m)')
  BY <1>1 DEF Kept, Settling, Extending, Burying, Reviving, Discarding, SinglePlacement,
              Active, Dead, Archived, NoMsg, NoDlq
<1>2. ASSUME NEW m \in MsgIds, settled'[m] # 0
      PROVE  settled'[m] = last'[m] /\ ~Active(m)' /\ ~Dead(m)'
  BY <1>2 DEF Kept, Settling, Extending, Burying, Reviving, Discarding, SettledIsFinal,
              SinglePlacement, Active, Dead, NoMsg, NoDlq
<1>3. NoOrphans'
  <2>1. ASSUME NEW m \in MsgIds
        PROVE  /\ Active(m)' => QueueExists(mq_messages[m].queue_id)'
               /\ Dead(m)' => QueueExists(mq_dlq[m].queue_id)'
               /\ Archived(m)' => QueueExists(mq_archives[m])'
    BY <2>1 DEF Kept, Settling, Extending, Burying, Reviving, Discarding, NoOrphans,
                QueueExists, Active, Dead, Archived, NoMsg, NoDlq
  <2>2. ASSUME NEW v \in Workers, rpc'[v].ids # {}
        PROVE  QueueExists(rpc[v].queue_id)'
    BY <2>2 DEF Proceeds, NoOrphans, QueueExists, Idle
  <2> QED BY <2>1, <2>2 DEF NoOrphans
<1>4. QueueIdsUnique'
  BY DEF QueueIdsUnique, Proceeds, Idle
<1>5. ASSUME NEW m \in MsgIds, Unborn(m) PROVE Unborn(m)'
  BY <1>5 DEF Unborn, Kept, Settling, Extending, Burying, Reviving, Discarding,
              Active, Dead, Archived, NoMsg, NoDlq
<1>6. IdsFresh'
  <2>1. ASSUME NEW v \in Workers PROVE rpc'[v].ids \subseteq rpc[v].ids
    BY DEF Proceeds, Idle
  <2>2. \A v \in Workers : rpc[v].ids \subseteq MsgIds
    BY DEF TypeOK, Rpc
  <2>3. ASSUME NEW m \in MsgIds, Active(m)' \/ Dead(m)' \/ Archived(m)'
        PROVE  m \in sent'
    BY <2>3 DEF IdsFresh, Kept, Settling, Extending, Burying, Reviving, Discarding,
                Active, Dead, Archived, NoMsg, NoDlq
  <2> QED BY <1>5, <2>1, <2>2, <2>3 DEF IdsFresh
<1>7. TokensCurrent'
  <2>1. ASSUME NEW m \in MsgIds PROVE mq_messages'[m].ack_token[3] \in {0, last'[m]}
    BY <2>1 DEF TokensCurrent, Kept, Settling, Extending, Burying, Reviving, Discarding,
                NoMsg, NullToken
  <2> QED BY <2>1 DEF TokensCurrent
<1>8. DeliveriesReal'
  BY DEF DeliveriesReal, Proceeds, Idle
<1>9. ASSUME NEW m \in MsgIds
      PROVE  /\ Active(m)' => \/ promised'[m] <= mq_messages'[m].visibility_timeout_at
                              \/ promised'[m] <= now'
             /\ Dead(m)' => promised'[m] <= now'
  <2> USE DEF PromisesKept, SinglePlacement, Active, Dead, NoMsg, NoDlq
  <2>1. /\ now \in Nat /\ now <= now' /\ now' \in Nat
        /\ promised[m] \in Nat /\ promised'[m] \in Nat
        /\ mq_messages[m].visibility_timeout_at \in Nat
        /\ mq_messages'[m].visibility_timeout_at \in Nat
    BY DEF TypeOK, MsgRow
  <2>2. CASE Kept(m) \/ Discarding(m)
    BY <2>1, <2>2 DEF Kept, Discarding
  <2>3. CASE Settling(m) \/ Extending(m)
    BY <2>1, <2>3 DEF Settling, Extending
  <2>4. CASE Burying(m) \/ Reviving(m)
    BY <2>1, <2>4 DEF Burying, Reviving
  <2> QED BY <2>2, <2>3, <2>4
<1>10. AbsentIsNoMsg'
  BY DEF AbsentIsNoMsg, Kept, Settling, Extending, Burying, Reviving, Discarding, Active,
         Dead, NoMsg
<1> QED BY <1>1, <1>2, <1>3, <1>4, <1>6, <1>7, <1>8, <1>9, <1>10
        DEF SinglePlacement, SettledIsFinal, PromisesKept

\* A delivery whose token is in the row is the latest one.
LEMMA HolderIsLast ==
    ASSUME IInv, NEW w \in Workers, NEW q, NEW t, Holds(q, rpc[w].d, t)
    PROVE  /\ rpc[w].d.m \in MsgIds
           /\ rpc[w].d.n = last[rpc[w].d.m] /\ rpc[w].d.n # 0
<1>1. rpc[w].d \in deliveries
  BY DEF IInv, Holds, DeliveriesReal, NoDelivery, MsgIds
<1> QED BY <1>1 DEF IInv, Holds, DeliveriesReal, TokensCurrent, TypeOK, Delivery

LEMMA ReturnProceeds == ASSUME TypeOK, NEW w \in Workers, Return(w) PROVE Proceeds
  BY DEF Return, Proceeds, TypeOK

LEMMA AckInv == ASSUME IInv, TypeOK', NEW w \in Workers, ack(w) PROVE IInv'
<1>1. Proceeds
  BY ReturnProceeds DEF ack, IInv
<1>2. ASSUME NEW m \in MsgIds PROVE Kept(m) \/ Settling(m)
  <2>1. CASE ~Holds(rpc[w].queue_id, rpc[w].d, now)
    BY <2>1 DEF ack, Kept
  <2>2. CASE Holds(rpc[w].queue_id, rpc[w].d, now)
    <3>1. /\ mq_messages' = [mq_messages EXCEPT ![rpc[w].d.m] = NoMsg]
          /\ settled' = [settled EXCEPT ![rpc[w].d.m] = rpc[w].d.n]
          /\ UNCHANGED <<mq_dlq, mq_archives, promised, last>>
      BY <2>2 DEF ack, Remove, Settle
    <3>2. /\ rpc[w].d.m \in MsgIds
          /\ rpc[w].d.n = last[rpc[w].d.m] /\ rpc[w].d.n # 0
      BY <2>2, HolderIsLast
    <3>3. Active(rpc[w].d.m)
      BY <2>2, <3>2 DEF Holds, IInv, AbsentIsNoMsg, Active, NoMsg, TypeOK
    <3> QED BY <3>1, <3>2, <3>3 DEF Kept, Settling, IInv, TypeOK
  <2> QED BY <2>1, <2>2
<1> QED BY <1>1, <1>2, MessageSteps DEF ack, Touched

LEMMA ArchiveInv == ASSUME IInv, TypeOK', NEW w \in Workers, archive(w) PROVE IInv'
<1>1. Proceeds
  BY ReturnProceeds DEF archive, IInv
<1>2. ASSUME NEW m \in MsgIds PROVE Kept(m) \/ Settling(m)
  <2>1. CASE ~Holds(rpc[w].queue_id, rpc[w].d, rpc[w].t)
    BY <2>1 DEF archive, Kept
  <2>2. CASE Holds(rpc[w].queue_id, rpc[w].d, rpc[w].t)
    <3>1. /\ mq_messages' = [mq_messages EXCEPT ![rpc[w].d.m] = NoMsg]
          /\ settled' = [settled EXCEPT ![rpc[w].d.m] = rpc[w].d.n]
          /\ mq_archives' = [mq_archives EXCEPT ![rpc[w].d.m] = rpc[w].queue_id]
          /\ UNCHANGED <<mq_dlq, promised, last>>
      BY <2>2 DEF archive, Remove, Settle
    <3>2. /\ rpc[w].d.m \in MsgIds
          /\ rpc[w].d.n = last[rpc[w].d.m] /\ rpc[w].d.n # 0
      BY <2>2, HolderIsLast
    <3>3. /\ Active(rpc[w].d.m)
          /\ mq_messages[rpc[w].d.m].queue_id = rpc[w].queue_id
      BY <2>2, <3>2 DEF Holds, IInv, AbsentIsNoMsg, Active, NoMsg, TypeOK, Rpc
    <3> QED BY <3>1, <3>2, <3>3 DEF Kept, Settling, IInv, TypeOK
  <2> QED BY <2>1, <2>2
<1> QED BY <1>1, <1>2, MessageSteps DEF archive, Touched

LEMMA SetVisibilityInv ==
    ASSUME IInv, TypeOK', NEW w \in Workers, set_visibility_timeout(w) PROVE IInv'
<1>1. Proceeds
  BY ReturnProceeds DEF set_visibility_timeout, IInv
<1>2. ASSUME NEW m \in MsgIds PROVE Kept(m) \/ Extending(m)
  <2>1. CASE ~Holds(rpc[w].queue_id, rpc[w].d, now)
    BY <2>1 DEF set_visibility_timeout, Kept
  <2>2. CASE Holds(rpc[w].queue_id, rpc[w].d, now)
    <3>1. /\ rpc[w].d.m \in MsgIds
          /\ rpc[w].d.n = last[rpc[w].d.m] /\ rpc[w].d.n # 0
      BY <2>2, HolderIsLast
    <3>2. PICK secs \in Visibilities :
              /\ mq_messages' = [mq_messages EXCEPT
                        ![rpc[w].d.m].visibility_timeout_at = now + secs]
              /\ promised' = [promised EXCEPT ![rpc[w].d.m] = now + secs]
      BY <2>2, <3>1 DEF set_visibility_timeout
    <3>3. Active(rpc[w].d.m)
      BY <2>2, <3>1 DEF Holds, IInv, AbsentIsNoMsg, Active, NoMsg, TypeOK
    <3>4. UNCHANGED <<mq_dlq, mq_archives, settled>>
      BY DEF set_visibility_timeout
    <3> QED BY <3>1, <3>2, <3>3, <3>4 DEF Kept, Extending, IInv, TypeOK, MsgRow
  <2> QED BY <2>1, <2>2
<1> QED BY <1>1, <1>2, MessageSteps DEF set_visibility_timeout, Touched

LEMMA DeadLetterInv ==
    ASSUME IInv, TypeOK', NEW w \in Workers,
           dead_letter_due_messages(w) \/ dead_letter(w)
    PROVE  IInv'
<1> USE DEF IInv
<1>1. Proceeds
  <2>1. CASE dead_letter_due_messages(w)
    BY <2>1 DEF dead_letter_due_messages, At, Proceeds, TypeOK, Rpc
  <2>2. CASE dead_letter(w)
    BY <2>2, ReturnProceeds DEF dead_letter
  <2> QED BY <2>1, <2>2
<1>2. ASSUME NEW m \in MsgIds, NEW S, MoveToDlq(S), m \in S, Active(m),
             promised'[m] <= now, UNCHANGED <<mq_archives, settled>>
      PROVE  Burying(m)
  BY <1>2 DEF MoveToDlq, Burying, SinglePlacement
<1>3. ASSUME NEW m \in MsgIds, NEW S, MoveToDlq(S), m \notin S,
             promised'[m] = promised[m], UNCHANGED <<mq_archives, settled>>
      PROVE  Kept(m)
  BY <1>3 DEF MoveToDlq, Kept
<1>4. ASSUME NEW m \in MsgIds PROVE Kept(m) \/ Burying(m)
  <2>1. CASE dead_letter_due_messages(w)
    <3> DEFINE q == rpc[w].queue_id
    <3>1. CASE ~QueueExists(q)
      BY <2>1, <3>1 DEF dead_letter_due_messages, Kept, history
    <3>2. CASE QueueExists(q)
      <4>1. /\ MoveToDlq(DueDeadLetter(q))
            /\ UNCHANGED <<mq_archives, promised, settled>>
        BY <2>1, <3>2 DEF dead_letter_due_messages, history
      <4>2. ASSUME m \in DueDeadLetter(q) PROVE Active(m) /\ promised[m] <= now
        BY <3>2, <4>2 DEF DueDeadLetter, Visible, Active, QueueExists, PromisesKept, TypeOK, MsgRow
      <4> QED BY <1>2, <1>3, <4>1, <4>2
    <3> QED BY <3>1, <3>2
  <2>2. CASE dead_letter(w)
    <3> PICK k \in MsgIds :
            IF mq_messages[k].queue_id = rpc[w].queue_id
            THEN MoveToDlq({k}) /\ promised' = [promised EXCEPT ![k] = 0]
            ELSE UNCHANGED <<mq_messages, mq_dlq, promised>>
      BY <2>2 DEF dead_letter
    <3>1. UNCHANGED <<mq_archives, settled>>
      BY <2>2 DEF dead_letter
    <3>2. CASE mq_messages[k].queue_id # rpc[w].queue_id
      BY <3>1, <3>2 DEF Kept
    <3>3. CASE mq_messages[k].queue_id = rpc[w].queue_id
      <4>1. Active(k)
        BY <2>2, <3>3 DEF dead_letter, At, QueueIdsUnique, Active
      <4>2. MoveToDlq({k}) /\ promised' = [promised EXCEPT ![k] = 0]
        BY <3>3
      <4>3. CASE m = k
        <5>1. promised'[k] <= now
          BY <4>2 DEF TypeOK
        <5> QED BY <1>2, <3>1, <4>1, <4>2, <4>3, <5>1
      <4>4. CASE m # k
        <5>1. promised'[m] = promised[m] /\ m \notin {k}
          BY <4>2, <4>4 DEF TypeOK
        <5> QED BY <1>3, <3>1, <4>2, <5>1
      <4> QED BY <4>3, <4>4
    <3> QED BY <3>2, <3>3
  <2> QED BY <2>1, <2>2
<1> QED BY <1>1, <1>4, MessageSteps
        DEF dead_letter_due_messages, dead_letter, history, Touched

LEMMA ReprocessInv ==
    ASSUME IInv, TypeOK', NEW w \in Workers, reprocess_dlq_message(w) PROVE IInv'
<1>1. Proceeds
  BY ReturnProceeds DEF reprocess_dlq_message, IInv
<1>2. ASSUME NEW m \in MsgIds PROVE Kept(m) \/ Reviving(m)
  <2> PICK k \in MsgIds :
        IF mq_dlq[k].queue_id = rpc[w].queue_id /\ ~Active(k)
        THEN /\ mq_dlq' = [mq_dlq EXCEPT ![k] = NoDlq]
             /\ mq_messages' = [mq_messages EXCEPT
                    ![k] = [NoMsg EXCEPT !.queue_id = rpc[w].queue_id,
                                         !.available_at = now]]
        ELSE UNCHANGED <<mq_messages, mq_dlq>>
    BY DEF reprocess_dlq_message
  <2>1. UNCHANGED <<mq_archives, promised, settled>>
    BY DEF reprocess_dlq_message, history
  <2>2. rpc[w].queue_id # 0
    BY DEF reprocess_dlq_message, At, IInv, QueueIdsUnique
  <2>3. CASE m = k /\ mq_dlq[k].queue_id = rpc[w].queue_id /\ ~Active(k)
    <3>1. mq_messages'[m] = [NoMsg EXCEPT !.queue_id = rpc[w].queue_id,
                                          !.available_at = now]
      BY <2>3 DEF IInv, TypeOK
    <3>2. mq_dlq'[m] = NoDlq
      BY <2>3 DEF IInv, TypeOK
    <3> QED BY <2>1, <2>2, <2>3, <3>1, <3>2 DEF Reviving, Dead, NoMsg
  <2>4. CASE ~(m = k /\ mq_dlq[k].queue_id = rpc[w].queue_id /\ ~Active(k))
    BY <2>1, <2>4 DEF Kept, IInv, TypeOK
  <2> QED BY <2>3, <2>4
<1> QED BY <1>1, <1>2, MessageSteps DEF reprocess_dlq_message, history, Touched

LEMMA EnvironmentInv == ASSUME IInv, TypeOK', Tick \/ sweep_dlq PROVE IInv'
<1>1. Proceeds
  BY DEF Tick, sweep_dlq, Proceeds
<1>2. ASSUME NEW m \in MsgIds PROVE Discarding(m)
  BY DEF Tick, sweep_dlq, DeleteDlq, Discarding, tables, history, IInv, TypeOK
<1> QED BY <1>1, <1>2, MessageSteps DEF Tick, sweep_dlq, tables, history, Touched

\* Handlers that delete rows, or change no row at all.
LEMMA DiscardInv ==
    ASSUME IInv, TypeOK', NEW w \in Workers,
           \/ purge_queue(w) \/ purge_dlq(w)
           \/ Abandon(w) \/ send_begin(w) \/ archive_begin(w) \/ read_empty(w)
    PROVE  IInv'
<1>2. CASE purge_queue(w) \/ purge_dlq(w)
  <2>1. Proceeds
    BY <1>2, ReturnProceeds DEF purge_queue, purge_dlq, IInv
  <2>2. ASSUME NEW m \in MsgIds PROVE Discarding(m)
    BY <1>2 DEF purge_queue, purge_dlq, DeleteDlq, Discarding, history, IInv, TypeOK
  <2> QED BY <1>2, <2>1, <2>2, MessageSteps DEF purge_queue, purge_dlq, history, Touched
<1>3. CASE Abandon(w) \/ send_begin(w) \/ archive_begin(w) \/ read_empty(w)
  <2>1. UNCHANGED <<tables, next_id, now, reads, history>>
    BY <1>3 DEF Abandon, send_begin, archive_begin, read_empty
  <2>2. Proceeds
    <3>1. CASE Abandon(w) \/ read_empty(w)
      BY <3>1, ReturnProceeds DEF Abandon, read_empty, IInv
    <3>2. CASE send_begin(w)
      <4> PICK delay \in Delays :
              rpc' = [rpc EXCEPT ![w].step = "send_insert", ![w].t = now + delay]
        BY <3>2 DEF send_begin
      <4> QED BY <3>2 DEF send_begin, At, Proceeds, IInv, TypeOK, Rpc
    <3>3. CASE archive_begin(w)
      BY <3>3 DEF archive_begin, At, Proceeds, IInv, TypeOK, Rpc
    <3> QED BY <1>3, <3>1, <3>2, <3>3
  <2>3. ASSUME NEW m \in MsgIds PROVE Kept(m)
    BY <2>1 DEF Kept, tables, history
  <2> QED BY <2>1, <2>2, <2>3, MessageSteps DEF tables, history, Touched
<1> QED BY <1>2, <1>3

LEMMA CallInv ==
    ASSUME IInv, TypeOK', NEW w \in Workers, NEW op, NEW name \in Names,
           NEW d \in deliveries \cup {NoDelivery}, queue_id(w, op, name, d)
    PROVE  IInv'
<1> USE DEF IInv
<1>1. /\ UNCHANGED <<tables, next_id, now, reads, history>>
      /\ mq_queues[name] # 0
      /\ \A v \in Workers : v # w => rpc'[v] = rpc[v]
      /\ rpc'[w].ids = {} /\ rpc'[w].queue_id = mq_queues[name] /\ rpc'[w].d = d
  BY DEF queue_id, Idle, TypeOK
<1>2. NoOrphans' /\ QueueIdsUnique' /\ DeliveriesReal'
  BY <1>1 DEF NoOrphans, QueueIdsUnique, DeliveriesReal, QueueExists, Active,
              Dead, Archived, tables, history
<1>3. IdsFresh'
  BY <1>1 DEF IdsFresh, Unborn, Active, Dead, Archived, tables, history
<1> QED BY <1>1, <1>2, <1>3
        DEF SinglePlacement, SettledIsFinal, TokensCurrent, PromisesKept,
            AbsentIsNoMsg, Active, Dead, Archived, tables, history

LEMMA CreateInv ==
    ASSUME IInv, TypeOK', NEW name \in Names, NEW lim \in Limits,
           create_queue(name, lim)
    PROVE  IInv'
<1> USE DEF IInv
<1>1. /\ mq_queues[name] = 0
      /\ mq_queues' = [mq_queues EXCEPT ![name] = next_queue]
      /\ next_queue' = next_queue + 1
      /\ UNCHANGED <<mq_messages, mq_dlq, mq_archives, next_id, now, reads, rpc,
                     history>>
  BY DEF create_queue
<1>2. QueueIdsUnique'
  BY <1>1 DEF QueueIdsUnique, TypeOK
<1>3. ASSUME NEW q, QueueExists(q) PROVE QueueExists(q)'
  BY <1>1, <1>3 DEF QueueExists, TypeOK
<1>4. NoOrphans'
  BY <1>1, <1>3 DEF NoOrphans, Active, Dead, Archived
<1> QED BY <1>1, <1>2, <1>4
        DEF SinglePlacement, SettledIsFinal, IdsFresh, Unborn, TokensCurrent,
            DeliveriesReal, PromisesKept, AbsentIsNoMsg, Active, Dead,
            Archived, history

\* The rows of the queue go with it, and no open transaction has rows of it.
LEMMA DropInv == ASSUME IInv, TypeOK', NEW name \in Names, drop_queue(name) PROVE IInv'
<1> USE DEF IInv
<1> DEFINE q == mq_queues[name]
<1>1. /\ q # 0 /\ ~SendLocks(q)
      /\ mq_queues' = [mq_queues EXCEPT ![name] = 0]
      /\ UNCHANGED <<next_queue, next_id, now, reads, rpc, history>>
  BY DEF drop_queue
<1>2. ASSUME NEW m \in MsgIds
      PROVE  /\ mq_messages'[m] = IF mq_messages[m].queue_id = q THEN NoMsg ELSE mq_messages[m]
             /\ mq_dlq'[m] = IF mq_dlq[m].queue_id = q THEN NoDlq ELSE mq_dlq[m]
             /\ mq_archives'[m] = IF mq_archives[m] = q THEN 0 ELSE mq_archives[m]
  BY DEF drop_queue
<1> HIDE DEF q
<1>3. ASSUME NEW m \in MsgIds
      PROVE  /\ Active(m)' => Active(m) /\ mq_messages'[m] = mq_messages[m]
                                        /\ mq_messages[m].queue_id # q
             /\ Dead(m)' => Dead(m) /\ mq_dlq'[m] = mq_dlq[m] /\ mq_dlq[m].queue_id # q
             /\ Archived(m)' => Archived(m) /\ mq_archives'[m] = mq_archives[m]
                                            /\ mq_archives[m] # q
             /\ mq_messages'[m] \in {mq_messages[m], NoMsg}
  BY <1>2 DEF Active, Dead, Archived, NoMsg, NoDlq
<1>4. ASSUME NEW k, k # q, QueueExists(k) PROVE QueueExists(k)'
  <2>1. PICK other \in Names : mq_queues[other] = k
    BY <1>4 DEF QueueExists
  <2>2. other # name
    BY <1>4, <2>1 DEF q
  <2> QED BY <1>1, <1>4, <2>1, <2>2 DEF QueueExists, TypeOK
<1>5. NoOrphans'
  <2>1. ASSUME NEW m \in MsgIds
        PROVE  /\ Active(m)' => QueueExists(mq_messages[m].queue_id)'
               /\ Dead(m)' => QueueExists(mq_dlq[m].queue_id)'
               /\ Archived(m)' => QueueExists(mq_archives[m])'
    BY <1>3, <1>4 DEF NoOrphans
  <2>2. ASSUME NEW w \in Workers, rpc'[w].ids # {}
        PROVE  QueueExists(rpc[w].queue_id)'
    BY <1>1, <1>4, <2>2 DEF NoOrphans, SendLocks
  <2> QED BY <2>1, <2>2 DEF NoOrphans
<1>6. QueueIdsUnique'
  BY <1>1 DEF QueueIdsUnique, TypeOK
<1>7. IdsFresh'
  <2>1. ASSUME NEW m \in MsgIds, Unborn(m) PROVE Unborn(m)'
    BY <1>1, <1>3, <2>1 DEF Unborn, history
  <2> QED BY <1>1, <1>3, <2>1 DEF IdsFresh, TypeOK, Rpc, history
<1>8. TokensCurrent' /\ DeliveriesReal' /\ AbsentIsNoMsg'
  BY <1>1, <1>3 DEF TokensCurrent, DeliveriesReal, AbsentIsNoMsg, Active,
                    NoMsg, NullToken, history
<1>9. SinglePlacement' /\ SettledIsFinal' /\ PromisesKept'
  BY <1>1, <1>3 DEF SinglePlacement, SettledIsFinal, PromisesKept, history
<1> QED BY <1>5, <1>6, <1>7, <1>8, <1>9

LEMMA SendInsertInv == ASSUME IInv, TypeOK', NEW w \in Workers, send_insert(w) PROVE IInv'
<1> USE DEF IInv
<1>1. /\ UNCHANGED <<tables, now, reads, history>>
      /\ rpc[w].step = "send_insert" /\ QueueExists(rpc[w].queue_id)
      /\ next_id \in MsgIds /\ next_id' = next_id + 1
  BY DEF send_insert, At, TypeOK, MsgIds
<1>2. /\ \A v \in Workers : v # w => rpc'[v] = rpc[v]
      /\ rpc'[w].ids = rpc[w].ids \cup {next_id}
      /\ rpc'[w].step = rpc[w].step /\ rpc'[w].queue_id = rpc[w].queue_id
      /\ rpc'[w].d = rpc[w].d
  BY DEF send_insert, TypeOK, Rpc
<1>3. NoOrphans' /\ QueueIdsUnique' /\ DeliveriesReal'
  BY <1>1, <1>2 DEF NoOrphans, QueueIdsUnique, DeliveriesReal, QueueExists,
                    Active, Dead, Archived, tables, history
<1>4. IdsFresh'
  <2>1. \A m : Unborn(m) => Unborn(m)'
    BY <1>1 DEF Unborn, Active, Dead, Archived, tables, history
  <2>2. Unborn(next_id)
    BY <1>1 DEF IdsFresh, TypeOK
  <2>3. \A v \in Workers : rpc[v].ids \subseteq MsgIds
    BY DEF TypeOK, Rpc
  <2>4. \A v \in Workers : next_id \notin rpc[v].ids
    BY <1>1, <2>3 DEF IdsFresh, MsgIds
  <2>5. ASSUME NEW v \in Workers, NEW m \in rpc'[v].ids PROVE m < next_id' /\ Unborn(m)'
    BY <1>1, <1>2, <2>1, <2>2, <2>3, <2>5 DEF IdsFresh, MsgIds
  <2>6. ASSUME NEW u \in Workers, NEW v \in Workers, u # v
        PROVE  rpc'[u].ids \cap rpc'[v].ids = {}
    BY <1>2, <2>4, <2>6 DEF IdsFresh
  <2>7. ASSUME NEW m \in MsgIds, m >= next_id' PROVE Unborn(m)'
    BY <1>1, <2>1, <2>7 DEF IdsFresh, MsgIds
  <2>8. \A m \in MsgIds : Active(m)' \/ Dead(m)' \/ Archived(m)' => m \in sent'
    BY <1>1 DEF IdsFresh, Active, Dead, Archived, tables, history
  <2> QED BY <2>5, <2>6, <2>7, <2>8 DEF IdsFresh
<1> QED BY <1>1, <1>3, <1>4
        DEF SinglePlacement, SettledIsFinal, TokensCurrent, PromisesKept,
            AbsentIsNoMsg, Active, Dead, Archived, tables, history

LEMMA SendCommitInv == ASSUME IInv, TypeOK', NEW w \in Workers, send_commit(w) PROVE IInv'
<1> USE DEF IInv
<1> DEFINE ids == rpc[w].ids
<1>1. /\ UNCHANGED <<mq_queues, next_queue, mq_dlq, mq_archives, next_id, now,
                     reads, deliveries, last, promised, settled>>
      /\ sent' = sent \cup ids /\ ids # {}
      /\ Proceeds /\ rpc' = [rpc EXCEPT ![w] = Idle]
  BY ReturnProceeds DEF send_commit, Return
<1>2. ids \subseteq MsgIds /\ QueueExists(rpc[w].queue_id) /\ rpc[w].queue_id # 0
  BY <1>1 DEF TypeOK, Rpc, NoOrphans, QueueExists
<1>3. ASSUME NEW m \in ids
      PROVE  /\ mq_messages'[m].queue_id = rpc[w].queue_id
             /\ mq_messages'[m].ack_token = NullToken
             /\ Unborn(m) /\ m < next_id
  <2>1. mq_messages'[m] = [NoMsg EXCEPT !.queue_id = rpc[w].queue_id,
                                        !.available_at = rpc[w].t]
    BY <1>2 DEF send_commit
  <2> QED BY <2>1 DEF NoMsg, IdsFresh
<1>4. ASSUME NEW m \in MsgIds, m \notin ids PROVE mq_messages'[m] = mq_messages[m]
  BY <1>4 DEF send_commit
<1>5. \A v \in Workers : v # w => rpc'[v] = rpc[v]
  BY <1>1
<1>6. rpc'[w] = Idle
  BY <1>1 DEF TypeOK
<1> HIDE DEF ids
<1>7. ASSUME NEW m \in MsgIds, m \notin ids, Unborn(m) PROVE Unborn(m)'
  BY <1>1, <1>4, <1>7 DEF Unborn, Active, Dead, Archived
<1>8. IdsFresh'
  <2>1. ASSUME NEW m \in MsgIds, m >= next_id' PROVE Unborn(m)'
    BY <1>1, <1>3, <1>7, <2>1 DEF IdsFresh, TypeOK, MsgIds
  <2>2. ASSUME NEW v \in Workers, NEW m \in rpc'[v].ids
        PROVE  m < next_id' /\ Unborn(m)'
    <3>1. v # w
      BY <1>6 DEF Idle
    <3>2. m \in rpc[v].ids /\ m \notin ids /\ m \in MsgIds
      BY <1>5, <3>1 DEF IdsFresh, ids, TypeOK, Rpc
    <3> QED BY <1>1, <1>7, <3>2 DEF IdsFresh
  <2>3. ASSUME NEW u \in Workers, NEW v \in Workers, u # v
        PROVE  rpc'[u].ids \cap rpc'[v].ids = {}
    BY <1>5, <1>6, <2>3 DEF IdsFresh, Idle
  <2>4. ASSUME NEW m \in MsgIds, Active(m)' \/ Dead(m)' \/ Archived(m)'
        PROVE  m \in sent'
    BY <1>1, <1>4, <2>4 DEF IdsFresh, Active, Dead, Archived
  <2> QED BY <2>1, <2>2, <2>3, <2>4 DEF IdsFresh
<1>9. SinglePlacement'
  BY <1>1, <1>3, <1>4 DEF SinglePlacement, Unborn, Active, Dead, Archived
<1>10. SettledIsFinal'
  <2>1. ASSUME NEW m \in ids PROVE settled[m] = 0
    BY <1>2, <1>3 DEF SettledIsFinal, Unborn
  <2> QED BY <1>1, <1>4, <2>1 DEF SettledIsFinal, Active, Dead
<1>11. NoOrphans'
  <2>1. \A q : QueueExists(q) => QueueExists(q)'
    BY <1>1 DEF QueueExists
  <2>2. ASSUME NEW m \in MsgIds, Active(m)' PROVE QueueExists(mq_messages[m].queue_id)'
    BY <1>2, <1>3, <1>4, <2>1, <2>2 DEF NoOrphans, Active
  <2>3. ASSUME NEW m \in MsgIds
        PROVE  /\ Dead(m)' => QueueExists(mq_dlq[m].queue_id)'
               /\ Archived(m)' => QueueExists(mq_archives[m])'
    BY <1>1, <2>1 DEF NoOrphans, Dead, Archived
  <2>4. ASSUME NEW v \in Workers, rpc'[v].ids # {} PROVE QueueExists(rpc[v].queue_id)'
    BY <1>5, <1>6, <2>1, <2>4 DEF NoOrphans, Idle
  <2> QED BY <2>2, <2>3, <2>4 DEF NoOrphans
<1>12. TokensCurrent' /\ AbsentIsNoMsg'
  BY <1>1, <1>2, <1>3, <1>4 DEF TokensCurrent, AbsentIsNoMsg, NullToken, Active
<1>13. PromisesKept'
  <2>1. ASSUME NEW m \in ids PROVE promised'[m] = 0 /\ ~Dead(m)'
    BY <1>1, <1>3 DEF Unborn, Dead
  <2>2. now \in Nat
    BY DEF TypeOK
  <2> QED BY <1>1, <1>4, <2>1, <2>2 DEF PromisesKept, Active, Dead
<1>14. QueueIdsUnique' /\ DeliveriesReal'
  BY <1>1, <1>5, <1>6 DEF QueueIdsUnique, DeliveriesReal, Idle
<1> QED BY <1>8, <1>9, <1>10, <1>11, <1>12, <1>13, <1>14

\* The messages a read hands out are visible rows of its queue.
LEMMA ReadClaims ==
    ASSUME NEW w \in Workers, read(w)
    PROVE  \E picked \in SUBSET Visible(rpc[w].queue_id), secs \in Visibilities :
               Claim(picked, secs)
<1> PICK quantity \in 1..MaxBatch, secs \in Visibilities, skipped \in SUBSET Claimable(w) :
        Claim(FirstN(Claimable(w) \ skipped, quantity), secs)
  BY DEF read
<1>1. FirstN(Claimable(w) \ skipped, quantity) \in SUBSET Visible(rpc[w].queue_id)
  BY DEF FirstN, Claimable
<1> QED BY <1>1

\* A message nobody was promised any more is what a reader can see.
LEMMA VisibleIsFree ==
    ASSUME IInv, NEW q \in QueueIds, NEW m \in Visible(q)
    PROVE  m \in MsgIds /\ Active(m) /\ promised[m] <= now
  BY DEF Visible, Active, IInv, PromisesKept, TypeOK, MsgRow, QueueIds

LEMMA ReadInv == ASSUME IInv, TypeOK', NEW w \in Workers, read(w) PROVE IInv'
<1> USE DEF IInv
<1> PICK picked \in SUBSET Visible(rpc[w].queue_id), secs \in Visibilities :
        Claim(picked, secs)
  BY ReadClaims
<1>1. /\ UNCHANGED <<mq_queues, next_queue, mq_dlq, mq_archives, next_id, now,
                     sent, settled>>
      /\ rpc' = [rpc EXCEPT ![w] = Idle] /\ rpc[w].queue_id \in QueueIds
  BY DEF read, Return, At, QueueIdsUnique, TypeOK, Rpc, QueueIds
<1>2. ASSUME NEW m \in picked
      PROVE  /\ m \in MsgIds /\ Active(m)
             /\ mq_messages'[m].queue_id = mq_messages[m].queue_id
             /\ mq_messages'[m].visibility_timeout_at = promised'[m]
             /\ mq_messages'[m].ack_token[3] = reads + 1
             /\ last'[m] = reads + 1
  <2>1. m \in MsgIds /\ Active(m)
    BY <1>1, VisibleIsFree
  <2>2. mq_messages'[m] = [mq_messages[m] EXCEPT
                        !.visibility_timeout_at = now + secs,
                        !.ack_token = AckToken(m, mq_messages[m].read_count + 1, reads + 1),
                        !.read_count = @ + 1]
    BY <2>1, Zenon DEF Claim
  <2>3. promised'[m] = now + secs /\ last'[m] = reads + 1
    BY <2>1 DEF Claim
  <2>4. AckToken(m, mq_messages[m].read_count + 1, reads + 1)[3] = reads + 1
    BY DEF AckToken
  <2>5. mq_messages[m] \in MsgRow
    BY <2>1 DEF TypeOK
  <2> QED BY <2>1, <2>2, <2>3, <2>4, <2>5 DEF MsgRow
<1>3. ASSUME NEW m \in MsgIds, m \notin picked
      PROVE  /\ mq_messages'[m] = mq_messages[m]
             /\ last'[m] = last[m] /\ promised'[m] = promised[m]
  BY <1>3 DEF Claim
<1>4. reads' = reads + 1 /\ reads \in Nat
  BY DEF Claim, TypeOK
<1>5. \A v \in Workers : v # w => rpc'[v] = rpc[v]
  BY <1>1
<1>6. rpc'[w] = Idle
  BY <1>1 DEF TypeOK
<1>7. ASSUME NEW m \in MsgIds
      PROVE  /\ Active(m)' <=> Active(m)
             /\ Dead(m)' <=> Dead(m)
             /\ Archived(m)' <=> Archived(m)
             /\ mq_messages'[m].queue_id = mq_messages[m].queue_id
  BY <1>1, <1>2, <1>3 DEF Active, Dead, Archived
<1>8. SinglePlacement' /\ SettledIsFinal'
  BY <1>1, <1>2, <1>3, <1>7 DEF SinglePlacement, SettledIsFinal
<1>9. NoOrphans' /\ QueueIdsUnique'
  BY <1>1, <1>5, <1>6, <1>7 DEF NoOrphans, QueueIdsUnique, QueueExists, Dead,
                                Archived, Idle
<1>10. IdsFresh'
  <2>1. ASSUME NEW m \in MsgIds, Unborn(m) PROVE Unborn(m)'
    BY <1>1, <1>2, <1>3, <1>7, <2>1 DEF Unborn
  <2>2. \A v \in Workers : rpc[v].ids \subseteq MsgIds /\ rpc'[v].ids \subseteq rpc[v].ids
    BY <1>5, <1>6 DEF TypeOK, Rpc, Idle
  <2> QED BY <1>1, <1>7, <2>1, <2>2 DEF IdsFresh
<1>11. TokensCurrent'
  <2>1. ASSUME NEW m \in MsgIds
        PROVE  mq_messages'[m].ack_token[3] \in {0, last'[m]} /\ last'[m] <= reads'
    <3>1. last[m] \in Nat
      BY DEF TypeOK
    <3> QED BY <1>2, <1>3, <1>4, <3>1 DEF TokensCurrent
  <2> QED BY <2>1 DEF TokensCurrent
<1>12. DeliveriesReal'
  <2>1. ASSUME NEW d \in deliveries' PROVE d.m \in MsgIds /\ d.n > 0 /\ d.tok[3] = d.n
    <3>1. CASE d \in deliveries
      BY <3>1 DEF DeliveriesReal
    <3>2. CASE d \notin deliveries
      <4>1. PICK m \in picked :
                d = [m |-> m, n |-> reads + 1,
                     tok |-> AckToken(m, mq_messages[m].read_count + 1, reads + 1)]
        BY <3>2 DEF Claim
      <4>2. m \in MsgIds
        BY <1>2
      <4> QED BY <1>4, <4>1, <4>2 DEF AckToken
    <3> QED BY <3>1, <3>2
  <2>2. deliveries \subseteq deliveries'
    BY DEF Claim
  <2> QED BY <1>5, <1>6, <2>1, <2>2 DEF DeliveriesReal, Idle
<1>13. PromisesKept'
  <2>1. ASSUME NEW m \in MsgIds PROVE promised'[m] \in Nat
    BY DEF TypeOK
  <2> QED BY <1>1, <1>2, <1>3, <1>7, <2>1 DEF PromisesKept, SinglePlacement
<1>14. AbsentIsNoMsg'
  BY <1>2, <1>3, <1>7 DEF AbsentIsNoMsg
<1> QED BY <1>8, <1>9, <1>10, <1>11, <1>12, <1>13, <1>14

-----------------------------------------------------------------------------
(* The invariant and what follows from it.                                 *)

LEMMA IInvInit == Init => IInv
<1> SUFFICES ASSUME Init PROVE IInv
  OBVIOUS
<1>1. \A m \in MsgIds : /\ mq_messages[m] = NoMsg /\ mq_dlq[m] = NoDlq
                        /\ mq_archives[m] = 0 /\ last[m] = 0
                        /\ promised[m] = 0 /\ settled[m] = 0
  BY DEF Init
<1>2. \A m \in MsgIds : ~Active(m) /\ ~Dead(m) /\ ~Archived(m)
  BY <1>1 DEF Active, Dead, Archived, NoMsg, NoDlq
<1>3. \A w \in Workers : rpc[w] = Idle
  BY DEF Init
<1>4. SinglePlacement /\ SettledIsFinal /\ NoOrphans /\ PromisesKept /\ AbsentIsNoMsg
  BY <1>1, <1>2, <1>3 DEF SinglePlacement, SettledIsFinal, NoOrphans,
                          PromisesKept, AbsentIsNoMsg, Idle
<1>5. QueueIdsUnique /\ DeliveriesReal
  BY <1>3 DEF QueueIdsUnique, DeliveriesReal, Init, Idle
<1>6. IdsFresh
  BY <1>1, <1>2, <1>3 DEF IdsFresh, Unborn, Init, Idle
<1>7. TokensCurrent
  BY <1>1 DEF TokensCurrent, NoMsg, NullToken, Init
<1> QED BY TypeInit, <1>4, <1>5, <1>6, <1>7 DEF IInv

LEMMA IInvNext == IInv /\ [Next]_vars => IInv'
<1> SUFFICES ASSUME IInv, [Next]_vars PROVE IInv'
  OBVIOUS
<1>1. TypeOK'
  BY TypeNext DEF IInv
<1>2. CASE UNCHANGED vars
  BY <1>2 DEF vars, tables, history, IInv, TypeOK, SinglePlacement,
     SettledIsFinal, NoOrphans, QueueIdsUnique, IdsFresh, Unborn, TokensCurrent,
     DeliveriesReal, PromisesKept, AbsentIsNoMsg, Active, Dead, Archived, QueueExists
<1>3. ASSUME NEW w \in Workers, Handler(w) PROVE IInv'
  BY <1>1, <1>3, SendInsertInv, SendCommitInv, DeadLetterInv, ReadInv, AckInv,
     ArchiveInv, SetVisibilityInv, ReprocessInv, DiscardInv DEF Handler
<1>4. ASSUME NEW w \in Workers, Abandon(w) PROVE IInv'
  BY <1>1, <1>4, DiscardInv
<1>5. ASSUME Tick \/ sweep_dlq PROVE IInv'
  BY <1>1, <1>5, EnvironmentInv
<1>6. ASSUME NEW w \in Workers, NEW name \in Names, NEW op \in Ops,
             \/ Call(w, op, name)
             \/ \E d \in deliveries : CallWithToken(w, op, name, d)
      PROVE  IInv'
  BY <1>1, <1>6, CallInv DEF Call, CallWithToken
<1> QED BY <1>1, <1>2, <1>3, <1>4, <1>5, <1>6, CreateInv, DropInv DEF Next

\* The inductive invariant holds of every behaviour of the store.
THEOREM Invariance == Spec => []IInv
  BY IInvInit, IInvNext, PTL DEF Spec

\* No message id is ever in two of mq_messages, mq_dlq and mq_archives.
THEOREM PlacementCorrect == Spec => []SinglePlacement
<1>1. IInv => SinglePlacement
  BY DEF IInv
<1> QED BY <1>1, Invariance, PTL

\* Only the latest delivery of a message acks or archives it, and for good.
THEOREM SettlementCorrect == Spec => []SettledIsFinal
<1>1. IInv => SettledIsFinal
  BY DEF IInv
<1> QED BY <1>1, Invariance, PTL

\* No row, committed or not, outlives its queue.
THEOREM OwnershipCorrect == Spec => []NoOrphans
<1>1. IInv => NoOrphans
  BY DEF IInv
<1> QED BY <1>1, Invariance, PTL

\* read delivers a message only after the window promised to its previous
\* consumer, whoever extended it, dead lettered or reprocessed the message.
THEOREM DeliveryCorrect == Spec => NoOverlappingDelivery
<1> DEFINE Fair == \A d \in deliveries' \ deliveries : promised[d.m] <= now
<1>1. IInv /\ [Next]_vars => [Fair]_vars
  <2> SUFFICES ASSUME IInv, Next, NEW d \in deliveries' \ deliveries
               PROVE  promised[d.m] <= now
    OBVIOUS
  <2>1. PICK w \in Workers : read(w)
    BY DEF Next, Handler, Tick, sweep_dlq, drop_queue, create_queue, Abandon,
       Call, CallWithToken, queue_id, send_begin, send_insert, send_commit,
       dead_letter_due_messages, read_empty, ack, archive_begin, archive,
       set_visibility_timeout, purge_queue, dead_letter,
       reprocess_dlq_message, purge_dlq, history
  <2>2. PICK picked \in SUBSET Visible(rpc[w].queue_id), secs \in Visibilities :
            Claim(picked, secs)
    BY <2>1, ReadClaims
  <2>3. d.m \in picked
    <3>1. PICK m \in picked :
              d = [m |-> m, n |-> reads + 1,
                   tok |-> AckToken(m, mq_messages[m].read_count + 1, reads + 1)]
      BY <2>2 DEF Claim
    <3> QED BY <3>1
  <2>4. rpc[w].queue_id \in QueueIds
    BY <2>1 DEF read, At, IInv, QueueIdsUnique, TypeOK, Rpc, QueueIds
  <2> QED BY <2>3, <2>4, VisibleIsFree
<1> QED BY <1>1, Invariance, PTL DEF Spec, NoOverlappingDelivery
-----------------------------------------------------------------------------
(* What ORDER BY id LIMIT n picks. *)

\* A set of message ids that is not empty has a last one.
LEMMA LastExists ==
    ASSUME NEW S \in SUBSET MsgIds, S # {}
    PROVE  \E x \in S : \A y \in S : y <= x
<1>1. PICK T : T = {MaxMsgs - y : y \in S}
  OBVIOUS
<1>2. T \in SUBSET Nat /\ T # {}
  <2>1. \A y \in MsgIds : MaxMsgs - y \in Nat
    BY DEF MsgIds
  <2> QED BY <1>1, <2>1
<1>3. PICK t \in T : \A u \in T : ~(<<u, t>> \in OpToRel(<, Nat))
  BY <1>2, NatLessThanWellFounded, WFMin
<1>4. PICK x \in S : t = MaxMsgs - x
  BY <1>1, <1>3
<1>5. ASSUME NEW y \in S PROVE y <= x
  <2>1. MaxMsgs - y \in T /\ MaxMsgs - y \in Nat /\ t \in Nat
    BY <1>1, <1>2, <1>3 DEF MsgIds
  <2>2. ~(MaxMsgs - y < t)
    BY <1>3, <2>1, Zenon DEF OpToRel
  <2> QED BY <1>4, <2>1, <2>2 DEF MsgIds
<1> QED BY <1>5

LEMMA FirstNFacts ==
    ASSUME NEW S \in SUBSET MsgIds, NEW n \in Nat
    PROVE  /\ FirstN(S, n) \subseteq S
           /\ IsFiniteSet(FirstN(S, n)) /\ Cardinality(FirstN(S, n)) <= n
           /\ \A m \in FirstN(S, n), k \in S : k <= m => k \in FirstN(S, n)
           /\ Cardinality(S) <= n => FirstN(S, n) = S
<1>1. IsFiniteSet(S)
  <2>1. 1 \in Int /\ MaxMsgs \in Int
    OBVIOUS
  <2>2. IsFiniteSet(MsgIds)
    BY <2>1, FS_Interval DEF MsgIds
  <2> QED BY <2>2, FS_Subset
<1>2. \A m \in S : IsFiniteSet({k \in S : k <= m}) /\ Cardinality({k \in S : k <= m}) \in Nat
                   /\ Cardinality({k \in S : k <= m}) <= Cardinality(S)
  BY <1>1, FS_Subset, FS_CardinalityType
<1>3. FirstN(S, n) \subseteq S /\ IsFiniteSet(FirstN(S, n))
  <2>1. FirstN(S, n) \subseteq S
    BY DEF FirstN
  <2> QED BY <1>1, <2>1, FS_Subset
<1>4. Cardinality(FirstN(S, n)) <= n
  <2>1. CASE FirstN(S, n) = {}
    BY <2>1, FS_EmptySet
  <2>2. CASE FirstN(S, n) # {}
    <3>1. PICK x \in FirstN(S, n) : \A y \in FirstN(S, n) : y <= x
      BY <1>3, <2>2, LastExists
    <3>2. PICK U : U = {k \in S : k <= x}
      OBVIOUS
    <3>3. FirstN(S, n) \subseteq U /\ IsFiniteSet(U) /\ Cardinality(U) \in Nat /\ Cardinality(U) <= n
      BY <1>2, <1>3, <3>1, <3>2 DEF FirstN
    <3>4. Cardinality(FirstN(S, n)) \in Nat /\ Cardinality(FirstN(S, n)) <= Cardinality(U)
      BY <1>3, <3>3, FS_Subset, FS_CardinalityType
    <3> QED BY <3>3, <3>4
  <2> QED BY <2>1, <2>2
<1>5. ASSUME NEW m \in FirstN(S, n), NEW k \in S, k <= m PROVE k \in FirstN(S, n)
  <2>1. PICK U, V : U = {j \in S : j <= m} /\ V = {j \in S : j <= k}
    OBVIOUS
  <2>2. m \in S /\ Cardinality(U) <= n
    BY <2>1 DEF FirstN
  <2>3. V \subseteq U
    <3>1. \A j \in MsgIds : j \in Nat
      BY DEF MsgIds
    <3>2. k \in Nat /\ m \in Nat /\ \A j \in S : j \in Nat
      BY <2>2, <3>1
    <3>3. \A j \in S : j <= k => j <= m
      BY <1>5, <3>2
    <3> QED BY <2>1, <3>3
  <2>4. IsFiniteSet(U) /\ Cardinality(U) \in Nat /\ Cardinality(V) \in Nat
    BY <1>2, <2>1, <2>2
  <2>5. Cardinality(V) <= Cardinality(U)
    BY <2>3, <2>4, FS_Subset
  <2>6. Cardinality(V) <= n
    BY <2>2, <2>4, <2>5
  <2> QED BY <2>1, <2>6 DEF FirstN
<1>6. ASSUME Cardinality(S) <= n PROVE FirstN(S, n) = S
  <2>1. \A m \in S : Cardinality({k \in S : k <= m}) <= n
    <3>1. Cardinality(S) \in Nat
      BY <1>1, FS_CardinalityType
    <3> QED BY <1>2, <1>6, <3>1
  <2> QED BY <2>1 DEF FirstN
<1> QED BY <1>3, <1>4, <1>5, <1>6

\* The messages this step delivers.
Handed == {m \in MsgIds : last'[m] # last[m]}

\* A read hands out some messages and no more than a batch of them; and if no
\* other worker has rows of the queue locked it passes over none that is older.
OldestFirst(w) ==
    /\ Handed # {} /\ Cardinality(Handed) <= MaxBatch /\ Handed \subseteq Claimable(w)
    /\ MaySkip(w) \/ \A m \in Handed, k \in Claimable(w) : k <= m => k \in Handed

LEMMA ReadOldestFirst == ASSUME IInv, NEW w \in Workers, read(w) PROVE OldestFirst(w)
<1>1. PICK quantity \in 1..MaxBatch, secs \in Visibilities, skipped \in SUBSET Claimable(w) :
        /\ skipped # {} => MaySkip(w)
        /\ FirstN(Claimable(w) \ skipped, quantity) # {}
        /\ Claim(FirstN(Claimable(w) \ skipped, quantity), secs)
  BY DEF read
<1>2. PICK S, picked : S = Claimable(w) \ skipped /\ picked = FirstN(S, quantity)
  OBVIOUS
<1>3. S \in SUBSET MsgIds /\ Claimable(w) \in SUBSET MsgIds /\ quantity \in Nat /\ quantity <= MaxBatch
  BY <1>2 DEF Claimable, Visible
<1>4. /\ picked \subseteq S /\ IsFiniteSet(picked) /\ Cardinality(picked) <= quantity
      /\ \A m \in picked, k \in S : k <= m => k \in picked
  BY <1>2, <1>3, FirstNFacts
<1>5. last' = [m \in MsgIds |-> IF m \in picked THEN reads + 1 ELSE last[m]]
  BY <1>1, <1>2 DEF Claim
<1>6. reads \in Nat /\ \A m \in MsgIds : last[m] \in Nat /\ last[m] <= reads
  BY DEF IInv, TypeOK, TokensCurrent
<1>7. Handed = picked
  <2>1. \A m \in MsgIds : last[m] # reads + 1
    BY <1>6
  <2> QED BY <1>3, <1>4, <1>5, <2>1 DEF Handed
<1>8. Cardinality(picked) <= MaxBatch
  <2>1. Cardinality(picked) \in Nat
    BY <1>4, FS_CardinalityType
  <2> QED BY <1>3, <1>4, <2>1
<1>9. MaySkip(w) \/ S = Claimable(w)
  BY <1>1, <1>2
<1> QED BY <1>1, <1>2, <1>4, <1>7, <1>8, <1>9 DEF OldestFirst

\* read takes at most the batch that was asked for, from the visible messages
\* of its queue in the order of their ids: SKIP LOCKED is the only reason to
\* pass over an older one, so a queue with one worker is read in order.
THEOREM ReadsInOrder == Spec => [][\A w \in Workers : read(w) => OldestFirst(w)]_vars
<1>1. IInv /\ [Next]_vars => [\A w \in Workers : read(w) => OldestFirst(w)]_vars
  BY ReadOldestFirst
<1> QED BY <1>1, Invariance, PTL DEF Spec

-----------------------------------------------------------------------------
(* That MqStore implements MqContract: every statement of mq.rs is one     *)
(* step of the contract, or changes nothing the contract can tell.         *)

\* What the refinement mapping takes from a row: the lease and its end.
HolderOf(m) == mq_messages[m].ack_token[3]
UntilOf(m) == mq_messages[m].visibility_timeout_at

\* m is, after the step, where and with the lease it was.
Unmoved(m) == /\ placeOf(m)' = placeOf(m)
           /\ HolderOf(m)' = HolderOf(m)
           /\ UntilOf(m)' = UntilOf(m)

\* m has been moved to p, and nobody has a lease on it.
MovedTo(m, p) == placeOf(m)' = p /\ HolderOf(m)' = 0 /\ UntilOf(m)' = 0

LEMMA InitContract == Init => Contract!CInit
<1> SUFFICES ASSUME Init PROVE Contract!CInit
  OBVIOUS
<1>1. \A m \in MsgIds : /\ placeOf(m) = "unsent" /\ mq_messages[m].ack_token[3] = 0
                        /\ mq_messages[m].visibility_timeout_at = 0
  BY DEF Init, placeOf, Active, Dead, Archived, NoMsg, NoDlq, NullToken
<1> QED BY <1>1 DEF Init, Contract!CInit

LEMMA Stutter ==
    ASSUME \A m \in MsgIds : Unmoved(m), UNCHANGED <<reads, now, settled>>
    PROVE  UNCHANGED Contract!cvars
  BY DEF Contract!cvars, Unmoved, HolderOf, UntilOf

LEMMA Moves ==
    ASSUME NEW S \in SUBSET MsgIds, NEW p, \A m \in S : MovedTo(m, p),
           \A m \in MsgIds \ S : Unmoved(m)
    PROVE  Contract!MoveTo(S, p)
  BY DEF Contract!MoveTo, MovedTo, Unmoved, HolderOf, UntilOf

\* The steps of the contract that only move messages.
LEMMA MoveSteps ==
    ASSUME NEW S \in SUBSET MsgIds, NEW p, UNCHANGED <<reads, now, settled>>,
           \A m \in S : MovedTo(m, p), \A m \in MsgIds \ S : Unmoved(m),
           \/ p = "queued" /\ \A m \in S : placeOf(m) = "unsent"
           \/ p = "dead" /\ \A m \in S : placeOf(m) = "queued"
           \/ p = "gone" /\ \A m \in S : placeOf(m) \in {"queued", "dead", "archived"}
    PROVE  Contract!CNext
<1>1. Contract!MoveTo(S, p)
  BY Moves
<1>2. CASE p = "queued" /\ \A m \in S : placeOf(m) = "unsent"
  <2>1. Contract!Publish(S)
    BY <1>1, <1>2 DEF Contract!Publish, Contract!In
  <2> QED BY <2>1 DEF Contract!CNext
<1>3. CASE p = "dead" /\ \A m \in S : placeOf(m) = "queued"
  <2>1. Contract!Bury(S)
    BY <1>1, <1>3 DEF Contract!Bury, Contract!In
  <2> QED BY <2>1 DEF Contract!CNext
<1>4. CASE p = "gone" /\ \A m \in S : placeOf(m) \in {"queued", "dead", "archived"}
  <2>1. Contract!Discard(S)
    BY <1>1, <1>4 DEF Contract!Discard, Contract!In
  <2> QED BY <2>1 DEF Contract!CNext
<1> QED BY <1>2, <1>3, <1>4

\* A message whose rows a step leaves alone.
LEMMA RowsKept ==
    ASSUME NEW m, mq_messages'[m] = mq_messages[m], mq_dlq'[m] = mq_dlq[m],
           mq_archives'[m] = mq_archives[m], m \in sent' <=> m \in sent
    PROVE  Unmoved(m)
  BY DEF Unmoved, placeOf, HolderOf, UntilOf, Active, Dead, Archived

\* Where a message is, given that it is in one place only.
LEMMA Places ==
    ASSUME IInv, NEW m \in MsgIds
    PROVE  /\ Active(m) => placeOf(m) = "queued" /\ ~Dead(m) /\ ~Archived(m) /\ m \in sent
           /\ Dead(m) => /\ placeOf(m) = "dead" /\ ~Active(m) /\ ~Archived(m) /\ m \in sent
                         /\ mq_messages[m] = NoMsg
           /\ Archived(m) => /\ placeOf(m) = "archived" /\ ~Active(m) /\ ~Dead(m) /\ m \in sent
                             /\ mq_messages[m] = NoMsg
  BY DEF IInv, SinglePlacement, IdsFresh, AbsentIsNoMsg, placeOf

\* A message without a row, or with a row that was just inserted, is leased to
\* nobody.
LEMMA NoMsgFacts ==
    ASSUME NEW q, NEW t
    PROVE  /\ NoMsg.queue_id = 0 /\ NoMsg.ack_token[3] = 0
           /\ NoMsg.visibility_timeout_at = 0 /\ NoDlq.queue_id = 0
           /\ LET r == [NoMsg EXCEPT !.queue_id = q, !.available_at = t] IN
                r.queue_id = q /\ r.ack_token[3] = 0 /\ r.visibility_timeout_at = 0
  BY DEF NoMsg, NoDlq, NullToken

\* Messages deleted from whatever tables they were in.
LEMMA DiscardStep ==
    ASSUME IInv, UNCHANGED <<reads, now, settled, sent>>,
           NEW S \in SUBSET MsgIds,
           \A m \in S : Active(m) \/ Dead(m) \/ Archived(m),
           \A m \in S : mq_messages'[m] = NoMsg /\ mq_dlq'[m].queue_id = 0 /\ mq_archives'[m] = 0,
           \A m \in MsgIds \ S : /\ mq_messages'[m] = mq_messages[m]
                                 /\ mq_dlq'[m] = mq_dlq[m]
                                 /\ mq_archives'[m] = mq_archives[m]
    PROVE  Contract!CNext
<1>1. \A m \in MsgIds \ S : Unmoved(m)
  BY RowsKept
<1>2. \A m \in S : placeOf(m) \in {"queued", "dead", "archived"} /\ m \in sent
  BY Places
<1>3. \A m \in S : MovedTo(m, "gone")
  BY <1>2, NoMsgFacts DEF MovedTo, placeOf, HolderOf, UntilOf, Active, Dead, Archived
<1> QED BY <1>1, <1>2, <1>3, MoveSteps

LEMMA DropStep == ASSUME IInv, NEW name \in Names, drop_queue(name) PROVE Contract!CNext
<1> DEFINE q == mq_queues[name]
           S == {m \in MsgIds : \/ mq_messages[m].queue_id = q
                                \/ mq_dlq[m].queue_id = q \/ mq_archives[m] = q}
<1>1. /\ q # 0 /\ UNCHANGED <<reads, now, settled, sent>>
      /\ mq_messages' = [m \in MsgIds |->
            IF mq_messages[m].queue_id = q THEN NoMsg ELSE mq_messages[m]]
      /\ mq_dlq' = [m \in MsgIds |-> IF mq_dlq[m].queue_id = q THEN NoDlq ELSE mq_dlq[m]]
      /\ mq_archives' = [m \in MsgIds |-> IF mq_archives[m] = q THEN 0 ELSE mq_archives[m]]
  BY DEF drop_queue, history
<1> HIDE DEF q
<1>2. \A m \in S : Active(m) \/ Dead(m) \/ Archived(m)
  BY <1>1 DEF Active, Dead, Archived
<1>3. ASSUME NEW m \in S
      PROVE  mq_messages'[m] = NoMsg /\ mq_dlq'[m].queue_id = 0 /\ mq_archives'[m] = 0
  <2>1. CASE mq_messages[m].queue_id = q
    BY <1>1, <2>1, Places, NoMsgFacts DEF Active, Dead, Archived
  <2>2. CASE mq_dlq[m].queue_id = q
    BY <1>1, <2>2, Places, NoMsgFacts DEF Active, Dead, Archived
  <2>3. CASE mq_archives[m] = q
    BY <1>1, <2>3, Places, NoMsgFacts DEF Active, Dead, Archived
  <2> QED BY <2>1, <2>2, <2>3
<1>4. \A m \in MsgIds \ S : /\ mq_messages'[m] = mq_messages[m]
                            /\ mq_dlq'[m] = mq_dlq[m]
                            /\ mq_archives'[m] = mq_archives[m]
  BY <1>1
<1> HIDE DEF S
<1>5. S \in SUBSET MsgIds
  BY DEF S
<1> QED BY <1>1, <1>2, <1>3, <1>4, <1>5, DiscardStep

\* purge_queue, purge_dlq and sweep_dlq each delete from one table.
LEMMA PurgeStep ==
    ASSUME IInv, \/ sweep_dlq
                 \/ \E w \in Workers : purge_queue(w) \/ purge_dlq(w)
    PROVE  Contract!CNext
<1>1. ASSUME UNCHANGED <<reads, now, settled, sent, mq_messages, mq_archives>>,
             NEW S \in SUBSET MsgIds, DeleteDlq(S), \A m \in S : Dead(m)
      PROVE  Contract!CNext
  <2>1. \A m \in S : mq_messages'[m] = NoMsg /\ mq_dlq'[m].queue_id = 0 /\ mq_archives'[m] = 0
    BY <1>1, Places, NoMsgFacts DEF DeleteDlq, Archived
  <2>2. \A m \in MsgIds \ S : /\ mq_messages'[m] = mq_messages[m]
                              /\ mq_dlq'[m] = mq_dlq[m]
                              /\ mq_archives'[m] = mq_archives[m]
    BY <1>1 DEF DeleteDlq
  <2> QED BY <1>1, <2>1, <2>2, DiscardStep
<1>2. CASE sweep_dlq
  <2> DEFINE S == {m \in MsgIds : Dead(m) /\ mq_dlq[m].dead_lettered_at < now - Retention}
  <2>1. S \in SUBSET MsgIds /\ DeleteDlq(S) /\ \A m \in S : Dead(m)
    BY <1>2 DEF sweep_dlq
  <2>2. UNCHANGED <<reads, now, settled, sent, mq_messages, mq_archives>>
    BY <1>2 DEF sweep_dlq, history
  <2> HIDE DEF S
  <2> QED BY <1>1, <2>1, <2>2
<1>3. ASSUME NEW w \in Workers, purge_dlq(w) PROVE Contract!CNext
  <2> DEFINE S == {m \in MsgIds : mq_dlq[m].queue_id = rpc[w].queue_id}
  <2>0. rpc[w].queue_id # 0
    BY <1>3 DEF purge_dlq, At, IInv, QueueIdsUnique
  <2>1. S \in SUBSET MsgIds /\ DeleteDlq(S) /\ \A m \in S : Dead(m)
    BY <1>3, <2>0 DEF purge_dlq, Dead
  <2>2. UNCHANGED <<reads, now, settled, sent, mq_messages, mq_archives>>
    BY <1>3 DEF purge_dlq, history
  <2> HIDE DEF S
  <2> QED BY <1>1, <2>1, <2>2
<1>4. ASSUME NEW w \in Workers, purge_queue(w) PROVE Contract!CNext
  <2> DEFINE S == {m \in MsgIds : mq_messages[m].queue_id = rpc[w].queue_id}
  <2>0. rpc[w].queue_id # 0
    BY <1>4 DEF purge_queue, At, IInv, QueueIdsUnique
  <2>1. S \in SUBSET MsgIds /\ \A m \in S : Active(m)
    BY <2>0 DEF Active
  <2>2. /\ UNCHANGED <<reads, now, settled, sent, mq_dlq, mq_archives>>
        /\ mq_messages' = [m \in MsgIds |-> IF m \in S THEN NoMsg ELSE mq_messages[m]]
    BY <1>4 DEF purge_queue, history
  <2> HIDE DEF S
  <2>3. \A m \in S : mq_messages'[m] = NoMsg /\ mq_dlq'[m].queue_id = 0 /\ mq_archives'[m] = 0
    BY <2>1, <2>2, Places DEF Dead, Archived
  <2>4. \A m \in MsgIds \ S : /\ mq_messages'[m] = mq_messages[m]
                              /\ mq_dlq'[m] = mq_dlq[m]
                              /\ mq_archives'[m] = mq_archives[m]
    BY <2>2
  <2> QED BY <2>1, <2>2, <2>3, <2>4, DiscardStep
<1> QED BY <1>2, <1>3, <1>4

LEMMA SendStep == ASSUME IInv, NEW w \in Workers, send_commit(w) PROVE Contract!CNext
<1> DEFINE S == rpc[w].ids
<1>1. /\ S # {} /\ S \in SUBSET MsgIds
      /\ UNCHANGED <<reads, now, settled, mq_dlq, mq_archives>> /\ sent' = sent \cup S
      /\ mq_messages' = [m \in MsgIds |->
            IF m \in S THEN [NoMsg EXCEPT !.queue_id = rpc[w].queue_id,
                                          !.available_at = rpc[w].t]
            ELSE mq_messages[m]]
  BY DEF send_commit, IInv, TypeOK, Rpc
<1>2. rpc[w].queue_id # 0 /\ \A m \in S : Unborn(m)
  BY <1>1 DEF IInv, NoOrphans, QueueExists, IdsFresh
<1> HIDE DEF S
<1>3. \A m \in S : placeOf(m) = "unsent"
  BY <1>2 DEF Unborn, placeOf
<1>4. \A m \in S : MovedTo(m, "queued")
  BY <1>1, <1>2, NoMsgFacts DEF MovedTo, placeOf, HolderOf, UntilOf, Active
<1>5. \A m \in MsgIds \ S : Unmoved(m)
  BY <1>1, RowsKept
<1> QED BY <1>1, <1>3, <1>4, <1>5, MoveSteps

\* Dead lettering: ON CONFLICT DO NOTHING never meets a row.
LEMMA BuryStep ==
    ASSUME IInv, NEW S \in SUBSET MsgIds, \A m \in S : Active(m), MoveToDlq(S),
           UNCHANGED <<reads, now, settled, sent, mq_archives>>
    PROVE  Contract!CNext
<1>1. \A m \in S : ~Dead(m) /\ ~Archived(m) /\ placeOf(m) = "queued"
  BY Places
<1>2. ASSUME NEW m \in S PROVE MovedTo(m, "dead")
  <2>1. mq_messages'[m] = NoMsg /\ mq_dlq'[m].queue_id = mq_messages[m].queue_id
    BY <1>1 DEF MoveToDlq
  <2> QED BY <2>1, NoMsgFacts DEF MovedTo, placeOf, HolderOf, UntilOf, Active, Dead
<1>3. \A m \in MsgIds \ S : Unmoved(m)
  BY RowsKept DEF MoveToDlq
<1> QED BY <1>1, <1>2, <1>3, MoveSteps

LEMMA DeadLetterStep ==
    ASSUME IInv, NEW w \in Workers, dead_letter_due_messages(w) \/ dead_letter(w)
    PROVE  Contract!CNext \/ UNCHANGED Contract!cvars
<1>0. /\ UNCHANGED <<reads, now, settled, sent, mq_archives>>
      /\ rpc[w].queue_id # 0
  BY DEF dead_letter_due_messages, dead_letter, history, At, IInv, QueueIdsUnique
<1>1. ASSUME UNCHANGED <<mq_messages, mq_dlq>> PROVE UNCHANGED Contract!cvars
  BY <1>0, <1>1, RowsKept, Stutter
<1>2. CASE dead_letter_due_messages(w)
  <2>1. DueDeadLetter(rpc[w].queue_id) \in SUBSET MsgIds
    BY DEF DueDeadLetter, Visible
  <2>2. \A m \in DueDeadLetter(rpc[w].queue_id) : Active(m)
    BY <1>0 DEF DueDeadLetter, Visible, Active
  <2> QED BY <1>0, <1>1, <1>2, <2>1, <2>2, BuryStep DEF dead_letter_due_messages
<1>3. CASE dead_letter(w)
  <2>1. PICK m \in MsgIds :
          IF mq_messages[m].queue_id = rpc[w].queue_id
          THEN MoveToDlq({m}) ELSE UNCHANGED <<mq_messages, mq_dlq>>
    BY <1>3 DEF dead_letter
  <2>2. CASE mq_messages[m].queue_id = rpc[w].queue_id
    <3>1. PICK S : S = {m}
      OBVIOUS
    <3>2. S \in SUBSET MsgIds /\ MoveToDlq(S) /\ \A k \in S : Active(k)
      BY <1>0, <2>1, <2>2, <3>1 DEF Active
    <3> QED BY <1>0, <3>2, BuryStep
  <2>3. CASE mq_messages[m].queue_id # rpc[w].queue_id
    BY <1>1, <2>1, <2>3
  <2> QED BY <2>2, <2>3
<1> QED BY <1>2, <1>3

LEMMA ReprocessStep ==
    ASSUME IInv, NEW w \in Workers, reprocess_dlq_message(w)
    PROVE  Contract!CNext \/ UNCHANGED Contract!cvars
<1>0. /\ UNCHANGED <<reads, now, settled, sent, mq_archives>>
      /\ rpc[w].queue_id # 0
      /\ mq_messages \in [MsgIds -> MsgRow] /\ mq_dlq \in [MsgIds -> DlqRow]
  BY DEF reprocess_dlq_message, history, At, IInv, QueueIdsUnique, TypeOK
<1>1. PICK m \in MsgIds :
        IF mq_dlq[m].queue_id = rpc[w].queue_id /\ ~Active(m)
        THEN /\ mq_dlq' = [mq_dlq EXCEPT ![m] = NoDlq]
             /\ mq_messages' = [mq_messages EXCEPT
                    ![m] = [NoMsg EXCEPT !.queue_id = rpc[w].queue_id,
                                         !.available_at = now]]
        ELSE UNCHANGED <<mq_messages, mq_dlq>>
  BY DEF reprocess_dlq_message
<1>2. CASE mq_dlq[m].queue_id = rpc[w].queue_id /\ ~Active(m)
  <2>1. placeOf(m) = "dead"
    BY <1>0, <1>2, Places DEF Dead
  <2>2. MovedTo(m, "queued")
    <3>1. /\ mq_messages'[m].queue_id = rpc[w].queue_id
          /\ mq_messages'[m].ack_token[3] = 0
          /\ mq_messages'[m].visibility_timeout_at = 0
      <4> DEFINE row == [NoMsg EXCEPT !.queue_id = rpc[w].queue_id, !.available_at = now]
      <4>1. mq_messages'[m] = row
        BY <1>0, <1>1, <1>2
      <4>2. /\ row.queue_id = rpc[w].queue_id /\ row.ack_token[3] = 0
            /\ row.visibility_timeout_at = 0
        BY NoMsgFacts
      <4> HIDE DEF row
      <4> QED BY <4>1, <4>2
    <3> QED BY <1>0, <3>1 DEF MovedTo, placeOf, HolderOf, UntilOf, Active
  <2>3. \A k \in MsgIds \ {m} : Unmoved(k)
    BY <1>0, <1>1, <1>2, RowsKept
  <2>4. Contract!MoveTo({m}, "queued")
    <3>1. PICK S : S = {m}
      OBVIOUS
    <3>2. S \in SUBSET MsgIds /\ (\A k \in S : MovedTo(k, "queued"))
          /\ \A k \in MsgIds \ S : Unmoved(k)
      BY <2>2, <2>3, <3>1
    <3>3. Contract!MoveTo(S, "queued")
      BY <3>2, Moves
    <3> QED BY <3>1, <3>3
  <2>5. Contract!Revive(m)
    BY <1>0, <2>1, <2>4 DEF Contract!Revive, Contract!In
  <2> QED BY <2>5 DEF Contract!CNext
<1>3. CASE ~(mq_dlq[m].queue_id = rpc[w].queue_id /\ ~Active(m))
  BY <1>0, <1>1, <1>3, RowsKept, Stutter
<1> QED BY <1>2, <1>3

\* The delivery that holds a message is the one its row's token names.
LEMMA HolderFacts ==
    ASSUME IInv, NEW w \in Workers, rpc[w].step # "idle", NEW t \in Nat,
           Holds(rpc[w].queue_id, rpc[w].d, t)
    PROVE  LET m == rpc[w].d.m IN
           /\ m \in MsgIds /\ placeOf(m) = "queued" /\ Active(m) /\ ~Dead(m) /\ ~Archived(m)
           /\ m \in sent
           /\ HolderOf(m) = rpc[w].d.n /\ HolderOf(m) # 0 /\ UntilOf(m) > t
           /\ mq_messages \in [MsgIds -> MsgRow] /\ mq_messages[m] \in MsgRow
           /\ settled \in [MsgIds -> Nat] /\ mq_archives \in [MsgIds -> 0..MaxQueues]
<1>1. /\ rpc[w].d.m \in MsgIds /\ mq_messages[rpc[w].d.m].queue_id = rpc[w].queue_id
      /\ mq_messages[rpc[w].d.m].ack_token = rpc[w].d.tok
      /\ mq_messages[rpc[w].d.m].visibility_timeout_at > t
  BY DEF Holds
<1>2. rpc[w].queue_id # 0 /\ rpc[w].d \in deliveries \cup {NoDelivery}
  BY DEF IInv, QueueIdsUnique, DeliveriesReal
<1>3. NoDelivery.m \notin MsgIds
  BY DEF NoDelivery, MsgIds
<1>4. rpc[w].d \in deliveries
  BY <1>1, <1>2, <1>3
<1>5. rpc[w].d.tok[3] = rpc[w].d.n /\ rpc[w].d.n # 0
  BY <1>4 DEF IInv, DeliveriesReal, TypeOK, Delivery
<1>6. Active(rpc[w].d.m)
  BY <1>1, <1>2 DEF Active
<1>7. /\ mq_messages \in [MsgIds -> MsgRow]
      /\ settled \in [MsgIds -> Nat] /\ mq_archives \in [MsgIds -> 0..MaxQueues]
  BY DEF IInv, TypeOK
<1> QED BY <1>1, <1>5, <1>6, <1>7, Places DEF HolderOf, UntilOf


\* ack and archive settle the message for the delivery that holds it.
LEMMA SettleStep ==
    ASSUME IInv, NEW w \in Workers, rpc[w].step # "idle", NEW t \in Nat,
           Holds(rpc[w].queue_id, rpc[w].d, t), NEW m, m = rpc[w].d.m, NEW p,
           Remove(rpc[w].d.m), Settle(rpc[w].d), MovedTo(m, p),
           UNCHANGED <<mq_dlq, now, reads, sent>>,
           \A k \in MsgIds \ {m} : mq_archives'[k] = mq_archives[k]
    PROVE  Contract!Settle(m, p)
<1>1. /\ m \in MsgIds /\ placeOf(m) = "queued" /\ HolderOf(m) = rpc[w].d.n
      /\ HolderOf(m) # 0 /\ mq_messages \in [MsgIds -> MsgRow]
  BY HolderFacts
<1>2. \A k \in MsgIds \ {m} : Unmoved(k)
  BY <1>1, RowsKept DEF Remove
<1>3. Contract!MoveTo({m}, p)
  <2>1. PICK S : S = {m}
    OBVIOUS
  <2>2. S \in SUBSET MsgIds /\ (\A k \in S : MovedTo(k, p))
        /\ \A k \in MsgIds \ S : Unmoved(k)
    BY <1>1, <1>2, <2>1
  <2>3. Contract!MoveTo(S, p)
    BY <2>2, Moves
  <2> QED BY <2>1, <2>3
<1>4. settled' = [settled EXCEPT ![m] = HolderOf(m)]
  BY <1>1 DEF Settle
<1> QED BY <1>1, <1>3, <1>4 DEF Contract!Settle, Contract!In, HolderOf

LEMMA AckStep ==
    ASSUME IInv, NEW w \in Workers, ack(w)
    PROVE  Contract!CNext \/ UNCHANGED Contract!cvars
<1>0. /\ rpc[w].step # "idle" /\ now \in Nat
      /\ UNCHANGED <<mq_dlq, mq_archives, now, reads, sent>>
  BY DEF ack, At, IInv, TypeOK
<1>1. CASE Holds(rpc[w].queue_id, rpc[w].d, now)
  <2>1. Remove(rpc[w].d.m) /\ Settle(rpc[w].d)
    BY <1>1 DEF ack
  <2>2. PICK m : m = rpc[w].d.m
    OBVIOUS
  <2>3. /\ m \in MsgIds /\ ~Dead(m) /\ ~Archived(m) /\ m \in sent /\ UntilOf(m) > now
        /\ mq_messages \in [MsgIds -> MsgRow]
    BY <1>0, <1>1, <2>2, HolderFacts
  <2>4. mq_messages'[m] = NoMsg
    BY <2>1, <2>2, <2>3 DEF Remove
  <2>5. MovedTo(m, "gone")
    BY <1>0, <2>3, <2>4, NoMsgFacts
       DEF MovedTo, placeOf, HolderOf, UntilOf, Active, Dead, Archived
  <2>6. Contract!Settle(m, "gone")
    BY <1>0, <1>1, <2>1, <2>2, <2>5, SettleStep
  <2>7. Contract!Ack(m)
    BY <2>3, <2>6 DEF Contract!Ack, UntilOf
  <2> QED BY <2>3, <2>7 DEF Contract!CNext
<1>2. CASE ~Holds(rpc[w].queue_id, rpc[w].d, now)
  <2>1. UNCHANGED <<mq_messages, settled>>
    BY <1>2 DEF ack
  <2> QED BY <1>0, <2>1, RowsKept, Stutter
<1> QED BY <1>1, <1>2

LEMMA ArchiveStep ==
    ASSUME IInv, NEW w \in Workers, archive(w)
    PROVE  Contract!CNext \/ UNCHANGED Contract!cvars
<1>0. /\ rpc[w].step # "idle" /\ rpc[w].t \in Nat /\ rpc[w].queue_id # 0
      /\ UNCHANGED <<mq_dlq, now, reads, sent>>
  BY DEF archive, At, IInv, TypeOK, Rpc, QueueIdsUnique
<1>1. CASE Holds(rpc[w].queue_id, rpc[w].d, rpc[w].t)
  <2>1. /\ Remove(rpc[w].d.m) /\ Settle(rpc[w].d)
        /\ mq_archives' = [mq_archives EXCEPT ![rpc[w].d.m] = rpc[w].queue_id]
    BY <1>1 DEF archive
  <2>2. PICK m : m = rpc[w].d.m
    OBVIOUS
  <2>3. /\ m \in MsgIds /\ ~Dead(m)
        /\ mq_messages \in [MsgIds -> MsgRow] /\ mq_archives \in [MsgIds -> 0..MaxQueues]
    BY <1>0, <1>1, <2>2, HolderFacts
  <2>4. mq_messages'[m] = NoMsg /\ mq_archives'[m] # 0
    BY <1>0, <2>1, <2>2, <2>3 DEF Remove
  <2>5. MovedTo(m, "archived")
    BY <1>0, <2>3, <2>4, NoMsgFacts
       DEF MovedTo, placeOf, HolderOf, UntilOf, Active, Dead, Archived
  <2>6. \A k \in MsgIds \ {m} : mq_archives'[k] = mq_archives[k]
    BY <2>1, <2>2, <2>3
  <2>7. Contract!Settle(m, "archived")
    BY <1>0, <1>1, <2>1, <2>2, <2>5, <2>6, SettleStep
  <2> QED BY <2>3, <2>7 DEF Contract!CNext, Contract!Archive
<1>2. CASE ~Holds(rpc[w].queue_id, rpc[w].d, rpc[w].t)
  <2>1. UNCHANGED <<mq_messages, settled, mq_archives>>
    BY <1>2 DEF archive
  <2> QED BY <1>0, <2>1, RowsKept, Stutter
<1> QED BY <1>1, <1>2

LEMMA ExtendStep ==
    ASSUME IInv, NEW w \in Workers, set_visibility_timeout(w)
    PROVE  Contract!CNext \/ UNCHANGED Contract!cvars
<1>0. /\ rpc[w].step # "idle" /\ now \in Nat
      /\ UNCHANGED <<mq_dlq, mq_archives, now, reads, sent, settled>>
  BY DEF set_visibility_timeout, At, IInv, TypeOK
<1>1. CASE Holds(rpc[w].queue_id, rpc[w].d, now)
  <2>1. PICK m : m = rpc[w].d.m
    OBVIOUS
  <2>2. PICK secs \in Visibilities :
          mq_messages' = [mq_messages EXCEPT ![m].visibility_timeout_at = now + secs]
    BY <1>1, <2>1 DEF set_visibility_timeout
  <2>3. /\ m \in MsgIds /\ placeOf(m) = "queued" /\ HolderOf(m) # 0 /\ UntilOf(m) > now
        /\ mq_messages \in [MsgIds -> MsgRow] /\ mq_messages[m] \in MsgRow
    BY <1>0, <1>1, <2>1, HolderFacts
  <2>4. \A k \in MsgIds \ {m} : Unmoved(k)
    BY <1>0, <2>2, <2>3, RowsKept
  <2>5. /\ mq_messages'[m].queue_id = mq_messages[m].queue_id
        /\ mq_messages'[m].ack_token = mq_messages[m].ack_token
        /\ mq_messages'[m].visibility_timeout_at = now + secs
    BY <2>2, <2>3 DEF MsgRow
  <2>6. placeOf(m)' = placeOf(m) /\ HolderOf(m)' = HolderOf(m) /\ UntilOf(m)' >= now
    <3>0. secs \in Nat
      BY ConstantsAssumption
    <3>1. now + secs >= now
      BY <1>0, <3>0
    <3>2. placeOf(m)' = placeOf(m) /\ HolderOf(m)' = HolderOf(m) /\ UntilOf(m)' = now + secs
      BY <1>0, <2>5 DEF placeOf, HolderOf, UntilOf, Active, Dead, Archived
    <3> QED BY <3>1, <3>2
  <2>7. /\ \A k \in MsgIds : placeOf(k)' = placeOf(k) /\ HolderOf(k)' = HolderOf(k)
        /\ \A k \in MsgIds \ {m} : UntilOf(k)' = UntilOf(k)
    BY <2>4, <2>6 DEF Unmoved
  <2>8. Contract!Extend(m)
    BY <1>0, <2>3, <2>6, <2>7 DEF Contract!Extend, Contract!In, HolderOf, UntilOf
  <2> QED BY <2>3, <2>8 DEF Contract!CNext
<1>2. CASE ~Holds(rpc[w].queue_id, rpc[w].d, now)
  <2>1. UNCHANGED mq_messages
    BY <1>2 DEF set_visibility_timeout
  <2> QED BY <1>0, <2>1, RowsKept, Stutter
<1> QED BY <1>1, <1>2

LEMMA ReadStep == ASSUME IInv, NEW w \in Workers, read(w) PROVE Contract!CNext
<1>0. /\ UNCHANGED <<mq_dlq, mq_archives, now, sent, settled>>
      /\ now \in Nat /\ reads \in Nat /\ mq_messages \in [MsgIds -> MsgRow]
      /\ rpc[w].queue_id # 0
  BY DEF read, At, IInv, TypeOK, QueueIdsUnique
<1>1. PICK S \in SUBSET Visible(rpc[w].queue_id), secs \in Visibilities : Claim(S, secs)
  BY ReadClaims
<1>2. S \in SUBSET MsgIds
  BY DEF Visible
<1>3. \A m \in S : placeOf(m) = "queued" /\ UntilOf(m) <= now
  <2>1. \A m \in S : Active(m) /\ UntilOf(m) <= now
    BY <1>0 DEF Visible, Active, UntilOf
  <2> QED BY <1>2, <2>1, Places
<1>4. reads' = reads + 1
  BY <1>1 DEF Claim
<1>5. ASSUME NEW m \in S
      PROVE  /\ mq_messages'[m].queue_id = mq_messages[m].queue_id
             /\ mq_messages'[m].ack_token[3] = reads + 1
             /\ mq_messages'[m].visibility_timeout_at = now + secs
  <2> DEFINE tok == AckToken(m, mq_messages[m].read_count + 1, reads + 1)
             row == [mq_messages[m] EXCEPT !.visibility_timeout_at = now + secs,
                                           !.ack_token = tok,
                                           !.read_count = mq_messages[m].read_count + 1]
  <2>1. mq_messages'[m] = row
    BY <1>1, <1>2 DEF Claim
  <2>2. mq_messages[m] \in MsgRow
    BY <1>0, <1>2
  <2>3. tok[3] = reads + 1
    BY DEF AckToken
  <2> HIDE DEF tok
  <2>4. /\ row.queue_id = mq_messages[m].queue_id /\ row.ack_token = tok
        /\ row.visibility_timeout_at = now + secs
    BY <2>2 DEF MsgRow
  <2> HIDE DEF row
  <2> QED BY <2>1, <2>3, <2>4
<1>6. ASSUME NEW m \in S
      PROVE  placeOf(m)' = placeOf(m) /\ HolderOf(m)' = reads + 1 /\ UntilOf(m)' >= now
  <2>0. secs \in Nat
    BY ConstantsAssumption
  <2>1. now + secs >= now
    BY <1>0, <2>0
  <2>2. placeOf(m)' = placeOf(m) /\ HolderOf(m)' = reads + 1 /\ UntilOf(m)' = now + secs
    BY <1>0, <1>5 DEF placeOf, HolderOf, UntilOf, Active, Dead, Archived
  <2> QED BY <2>1, <2>2
<1>7. \A m \in MsgIds \ S : Unmoved(m)
  BY <1>0, <1>1, RowsKept DEF Claim
<1>8. \A m \in MsgIds : /\ placeOf(m)' = placeOf(m)
                        /\ m \notin S => HolderOf(m)' = HolderOf(m) /\ UntilOf(m)' = UntilOf(m)
  BY <1>6, <1>7 DEF Unmoved
<1>9. Contract!Deliver(S)
  BY <1>0, <1>2, <1>3, <1>4, <1>6, <1>8 DEF Contract!Deliver, Contract!In, HolderOf, UntilOf
<1> QED BY <1>2, <1>9 DEF Contract!CNext

\* Every step of the store is a step of the contract or changes nothing there.
LEMMA NextContract == IInv /\ [Next]_vars => [Contract!CNext]_(Contract!cvars)
<1> SUFFICES ASSUME IInv, [Next]_vars PROVE Contract!CNext \/ UNCHANGED Contract!cvars
  OBVIOUS
<1>1. ASSUME UNCHANGED <<mq_messages, mq_dlq, mq_archives, sent, reads, now, settled>>
      PROVE  UNCHANGED Contract!cvars
  BY <1>1, RowsKept, Stutter
<1>2. CASE UNCHANGED vars
  BY <1>1, <1>2 DEF vars, tables, history
<1>3. CASE Tick
  <2>1. /\ UNCHANGED <<mq_messages, mq_dlq, mq_archives, sent, reads, settled>>
        /\ now' = now + 1
    BY <1>3 DEF Tick, tables, history
  <2>2. \A m \in MsgIds : Unmoved(m)
    BY <2>1, RowsKept
  <2>3. Contract!Advance
    BY <2>1, <2>2 DEF Contract!Advance, Unmoved, HolderOf, UntilOf
  <2> QED BY <2>3 DEF Contract!CNext
<1>4. CASE sweep_dlq
  BY <1>4, PurgeStep
<1>5. ASSUME NEW name \in Names, drop_queue(name) PROVE Contract!CNext
  BY <1>5, DropStep
<1>6. ASSUME NEW name \in Names, NEW lim \in Limits, create_queue(name, lim)
      PROVE  UNCHANGED Contract!cvars
  BY <1>1, <1>6 DEF create_queue, history
<1>7. ASSUME NEW w \in Workers, NEW name \in Names, NEW op \in Ops,
             \/ Call(w, op, name)
             \/ \E d \in deliveries : CallWithToken(w, op, name, d)
      PROVE  UNCHANGED Contract!cvars
  BY <1>1, <1>7 DEF Call, CallWithToken, queue_id, tables, history
<1>8. ASSUME NEW w \in Workers,
             \/ Abandon(w) \/ send_begin(w) \/ send_insert(w)
             \/ read_empty(w) \/ archive_begin(w)
      PROVE  UNCHANGED Contract!cvars
  BY <1>1, <1>8 DEF Abandon, send_begin, send_insert, read_empty, archive_begin,
                    tables, history
<1>9. ASSUME NEW w \in Workers, Handler(w)
      PROVE  Contract!CNext \/ UNCHANGED Contract!cvars
  BY <1>8, <1>9, SendStep, DeadLetterStep, ReadStep, AckStep, ArchiveStep,
     ExtendStep, PurgeStep, ReprocessStep DEF Handler
<1> QED BY <1>2, <1>3, <1>4, <1>5, <1>6, <1>7, <1>8, <1>9 DEF Next

\* The store implements the contract: at every statement, whatever other
\* workers did since the previous one, a message is leased, extended, settled,
\* moved or discarded only as MqContract allows.
THEOREM ContractImplemented == Spec => ImplementsContract
  BY InitContract, NextContract, Invariance, PTL
     DEF Spec, ImplementsContract, Contract!CSpec
=============================================================================
