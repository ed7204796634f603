-------------------------- MODULE MqLongPollProofs --------------------------
(***************************************************************************)
(* That no wakeup is lost, for any number of waiting calls and messages.   *)
(***************************************************************************)
EXTENDS MqLongPoll, TLAPS

\* One field of a handler, or two, changes and it is still a handler: what
\* every action of a call needs for the type of call'.
LEMMA CallFields ==
    ASSUME NEW r \in Call, NEW st \in Steps, NEW l \in {"none", "up", "lost"},
           NEW S \in SUBSET Messages
    PROVE  /\ [r EXCEPT !.step = st] \in Call
           /\ [r EXCEPT !.listener = l] \in Call
           /\ [r EXCEPT !.deadline = "passed"] \in Call
           /\ [r EXCEPT !.step = st, !.listener = l] \in Call
           /\ [r EXCEPT !.listener = l, !.step = st] \in Call
           /\ [r EXCEPT !.step = st, !.locked = S] \in Call
  BY DEF Call

LEMMA IdleIsCall == Idle \in Call
  BY DEF Idle, Call, Steps, Kinds

\* A call is over (Ended): one that is idle waits for nothing.
LEMMA EndedKeeps ==
    ASSUME IInv, NEW c \in Calls, Ended(c), fresh' = fresh,
           place' \in [Messages -> Places], sends' = sends,
           \A m \in Messages : place'[m] = place[m] \/
                               (m \in call[c].locked /\ place'[m] = "leased")
    PROVE  IInv'
<1>0. \A d \in Calls : call[d].locked \subseteq Messages
  BY DEF IInv, TypeOK, Call
<1>1. TypeOK'
  <2>1. call' \in [Calls -> Call]
    BY IdleIsCall DEF IInv, TypeOK, Ended
  <2>2. pending' \in [Calls -> Nat] /\ missed' \in SUBSET Calls
    BY DEF IInv, TypeOK, Ended
  <2> QED BY <2>1, <2>2 DEF IInv, TypeOK
<1>2. \A d \in Calls : d # c => call'[d] = call[d] /\ pending'[d] = pending[d]
  BY DEF IInv, TypeOK, Ended
<1>3. call'[c] = Idle
  BY DEF IInv, TypeOK, Ended
<1>4. ListensSinceRead'
  BY <1>2, <1>3 DEF IInv, ListensSinceRead, Ended, Idle
<1>5. FreshIsAvailable'
  <2>1. \A m \in Messages : m \in fresh => place[m] = "visible" /\ ~Locked(m)
    BY DEF IInv, FreshIsAvailable, Available
  <2>2. \A m \in Messages : m \in fresh => place'[m] = "visible"
    BY <2>1 DEF Locked
  <2>3. \A m \in Messages : ~Locked(m) => ~Locked(m)'
    BY <1>2, <1>3 DEF Locked, Idle
  <2> QED BY <2>1, <2>2, <2>3 DEF IInv, TypeOK, FreshIsAvailable, Available
<1>6. MissedListens'
  BY <1>2, <1>3 DEF IInv, MissedListens, Ended, Idle
<1>7. LockedAreSent'
  BY <1>0, <1>2, <1>3 DEF IInv, LockedAreSent, Idle
<1> QED BY <1>1, <1>4, <1>5, <1>6, <1>7 DEF IInv

\* Steps of a call that neither lock nor end it: they touch at most messages
\* it has locked, and leave "check" and "wait" or go from "check" to "wait".
LEMMA QuietKeeps ==
    ASSUME IInv, NEW c \in Calls, NEW r \in Call,
           call' = [call EXCEPT ![c] = r],
           r.locked \subseteq call[c].locked,
           UNCHANGED <<sends, fresh>>, place' \in [Messages -> Places],
           \A m \in Messages : place'[m] = place[m] \/
                               (m \in call[c].locked /\ place'[m] = "leased"),
           pending' \in [Calls -> Nat], missed' \in SUBSET Calls,
           \A d \in Calls : d # c => /\ pending'[d] = pending[d]
                                     /\ d \in missed' <=> d \in missed,
           r.listener = "lost" => c \in missed',
           \/ r.step \notin {"check", "wait"} \/ c \in missed' \/ r.listener # "up"
           \/ /\ call[c].step \in {"check", "wait"} /\ call[c].listener = "up"
              /\ c \notin missed /\ pending'[c] = pending[c]
    PROVE  IInv'
<1>0. call \in [Calls -> Call]
  BY DEF IInv, TypeOK
<1>1. \A d \in Calls : d # c => call'[d] = call[d]
  BY <1>0
<1>2. call'[c] = r
  BY <1>0
<1>3. TypeOK'
  <2>1. call' \in [Calls -> Call]
    BY <1>0
  <2> QED BY <2>1 DEF IInv, TypeOK
<1>4. ListensSinceRead'
  <2> SUFFICES ASSUME NEW d \in Calls, d \notin missed',
                      call'[d].step \in {"check", "wait"},
                      call'[d].listener = "up", fresh' # {}
               PROVE  pending'[d] > 0
    BY DEF ListensSinceRead
  <2>1. CASE d = c
    BY <2>1, <1>2 DEF IInv, ListensSinceRead
  <2>2. CASE d # c
    BY <2>2, <1>1 DEF IInv, ListensSinceRead
  <2> QED BY <2>1, <2>2
<1>5. FreshIsAvailable'
  <2>1. \A m \in Messages : ~Locked(m) => ~Locked(m)'
    BY <1>1, <1>2 DEF Locked
  <2>2. \A m \in Messages : ~Locked(m) => place'[m] = place[m]
    BY DEF Locked
  <2> QED BY <2>1, <2>2 DEF IInv, FreshIsAvailable, Available
<1>6. MissedListens'
  BY <1>1, <1>2 DEF IInv, MissedListens
<1>7. LockedAreSent'
  <2>1. \A d \in Calls : call[d].locked \subseteq Messages
    BY <1>0 DEF Call
  <2> QED BY <2>1, <1>1, <1>2 DEF IInv, LockedAreSent
<1> QED BY <1>3, <1>4, <1>5, <1>6, <1>7 DEF IInv

LEMMA InitIInv == Init => IInv
<1> SUFFICES ASSUME Init PROVE IInv
  OBVIOUS
<1>1. TypeOK
  BY IdleIsCall DEF Init, TypeOK, Places
<1>2. ListensSinceRead /\ FreshIsAvailable /\ LockedAreSent /\ MissedListens
  BY DEF Init, ListensSinceRead, FreshIsAvailable, LockedAreSent, MissedListens, Idle
<1> QED BY <1>1, <1>2 DEF IInv

\* A read either finds nothing, and then nothing is fresh, or takes what it
\* locks out of fresh.
LEMMA ReadLockKeeps ==
    ASSUME IInv, NEW c \in Calls, read_lock(c)
    PROVE  IInv'
<1>0. call \in [Calls -> Call] /\ missed \in SUBSET Calls /\ fresh \in SUBSET Messages
  BY DEF IInv, TypeOK
<1>1. PICK S \in SUBSET Available :
        /\ S = {} => Available = {}
        /\ call' = [call EXCEPT ![c].step = IF S = {} THEN "check" ELSE "claim",
                                ![c].locked = S]
        /\ fresh' = fresh \ S
  BY DEF read_lock
<1> DEFINE r == [call[c] EXCEPT !.step = IF S = {} THEN "check" ELSE "claim",
                                !.locked = S]
<1>2. r \in Call
  <2>1. call[c] \in Call /\ S \in SUBSET Messages
    BY <1>0 DEF Available
  <2>2. (IF S = {} THEN "check" ELSE "claim") \in Steps
    BY DEF Steps
  <2> QED BY <2>1, <2>2, CallFields
<1>3. call' = [call EXCEPT ![c] = r]
  BY <1>0, <1>1
<1>4. /\ r.step = (IF S = {} THEN "check" ELSE "claim")
      /\ r.locked = S /\ r.listener = call[c].listener
  BY <1>0 DEF Call
<1> HIDE DEF r
<1>5. call'[c] = r /\ \A d \in Calls : d # c => call'[d] = call[d]
  BY <1>0, <1>3
<1>6. /\ place' = place /\ pending' = pending /\ sends' = sends
      /\ missed' = IF call[c].listener = "up" THEN missed \ {c} ELSE missed
  BY DEF read_lock
<1>7. TypeOK'
  <2>1. call' \in [Calls -> Call]
    BY <1>0, <1>2, <1>3
  <2> QED BY <2>1, <1>0, <1>1, <1>6 DEF IInv, TypeOK
<1>8. S = {} => fresh' = {}
  BY <1>1 DEF IInv, FreshIsAvailable
<1>9. ListensSinceRead'
  <2> SUFFICES ASSUME NEW d \in Calls, d \notin missed',
                      call'[d].step \in {"check", "wait"},
                      call'[d].listener = "up", fresh' # {}
               PROVE  pending'[d] > 0
    BY DEF ListensSinceRead
  <2>1. CASE d = c
    BY <2>1, <1>4, <1>5, <1>8
  <2>2. CASE d # c
    <3>1. d \notin missed /\ fresh # {}
      BY <2>2, <1>1, <1>6
    <3> QED BY <2>2, <3>1, <1>5, <1>6 DEF IInv, ListensSinceRead
  <2> QED BY <2>1, <2>2
<1>10. FreshIsAvailable'
  <2>1. \A m \in Messages : ~Locked(m) /\ m \notin S => ~Locked(m)'
    BY <1>4, <1>5 DEF Locked
  <2> QED BY <2>1, <1>0, <1>1, <1>6 DEF IInv, FreshIsAvailable, Available
<1>11. MissedListens'
  BY <1>4, <1>5, <1>6 DEF IInv, MissedListens
<1>12. LockedAreSent'
  BY <1>4, <1>5, <1>6 DEF IInv, LockedAreSent, Available
<1> QED BY <1>7, <1>9, <1>10, <1>11, <1>12 DEF IInv

\* A send makes messages fresh and notifies every call that listens.
LEMMA SendKeeps ==
    ASSUME IInv, NEW S \in SUBSET Messages, NEW p \in Places, send(S, p)
    PROVE  IInv'
<1>1. TypeOK'
  <2>1. place' \in [Messages -> Places]
    BY DEF IInv, TypeOK, send, Move
  <2>2. pending' \in [Calls -> Nat]
    BY DEF IInv, TypeOK, send
  <2>3. sends' \in Nat /\ fresh' \in SUBSET Messages
    BY DEF IInv, TypeOK, send
  <2> QED BY <2>1, <2>2, <2>3 DEF IInv, TypeOK, send
<1>2. ListensSinceRead'
  <2> SUFFICES ASSUME NEW d \in Calls, call[d].listener = "up"
               PROVE  pending'[d] > 0
    BY DEF ListensSinceRead, send
  <2>1. pending'[d] = pending[d] + 1
    BY DEF send, Notified
  <2>2. pending[d] \in Nat
    BY DEF IInv, TypeOK
  <2> QED BY <2>1, <2>2
<1>3. FreshIsAvailable'
  <2>1. \A m \in Messages : m \in S => place[m] = "unsent"
    BY DEF send, In
  <2>2. \A m \in Messages : Locked(m) <=> Locked(m)'
    BY DEF send, Locked
  <2>3. \A m \in Messages : place'[m] = IF m \in S THEN p ELSE place[m]
    BY DEF send, Move
  <2>4. \A m \in Messages : m \in S => ~Locked(m)
    BY <2>1 DEF IInv, LockedAreSent, Locked
  <2>5. \A m \in fresh : m \in Messages /\ place[m] = "visible" /\ ~Locked(m)
    BY DEF IInv, FreshIsAvailable, Available
  <2> SUFFICES ASSUME NEW m \in fresh' PROVE m \in Available'
    BY DEF FreshIsAvailable
  <2>6. CASE m \in fresh
    BY <2>1, <2>2, <2>3, <2>5, <2>6 DEF Available
  <2>7. CASE m \notin fresh
    <3>1. m \in S /\ p = "visible"
      BY <2>7 DEF send
    <3> QED BY <3>1, <2>2, <2>3, <2>4 DEF Available
  <2> QED BY <2>6, <2>7
<1>4. MissedListens'
  BY DEF IInv, MissedListens, send
<1>5. LockedAreSent'
  <2>1. p # "unsent"
    BY DEF send
  <2>2. \A d \in Calls : call[d].locked \subseteq Messages
    BY DEF IInv, TypeOK, Call
  <2> QED BY <2>1, <2>2 DEF IInv, LockedAreSent, send, Move
<1> QED BY <1>1, <1>2, <1>3, <1>4, <1>5 DEF IInv

\* becomes_visible changes nothing that waiting calls or fresh depend on.
LEMMA VisibleKeeps ==
    ASSUME IInv, NEW m \in Messages, becomes_visible(m)
    PROVE  IInv'
<1>1. TypeOK'
  BY DEF IInv, TypeOK, becomes_visible, Move, Places
<1>2. ListensSinceRead' /\ MissedListens'
  BY DEF IInv, ListensSinceRead, MissedListens, becomes_visible
<1>3. FreshIsAvailable'
  <2>1. \A k \in Messages : Locked(k) <=> Locked(k)'
    BY DEF becomes_visible, Locked
  <2> QED BY <2>1 DEF IInv, FreshIsAvailable, Available, becomes_visible, Move
<1>4. LockedAreSent'
  <2>1. \A d \in Calls : call[d].locked \subseteq Messages
    BY DEF IInv, TypeOK, Call
  <2> QED BY <2>1 DEF IInv, LockedAreSent, becomes_visible, Move
<1> QED BY <1>1, <1>2, <1>3, <1>4 DEF IInv

\* Every step of a call keeps the invariant.
LEMMA CallKeeps ==
    ASSUME IInv, NEW c \in Calls,
           \/ Handler(c) \/ recv(c) \/ recv_error(c) \/ stream_read_next(c)
           \/ deadline(c) \/ Abandon(c) \/ connection_lost(c) \/ recv_reconnect(c)
           \/ \E kind \in Kinds : begin(c, kind)
    PROVE  IInv'
<1>0. /\ call \in [Calls -> Call] /\ call[c] \in Call
      /\ pending \in [Calls -> Nat] /\ missed \in SUBSET Calls
      /\ place \in [Messages -> Places]
  BY DEF IInv, TypeOK
<1>1. "leased" \in Places
  BY DEF Places
<1>2. CASE \E kind \in Kinds : begin(c, kind)
  <2>1. PICK kind \in Kinds : begin(c, kind)
    BY <1>2
  <2> DEFINE st == IF kind = "poll" THEN "read" ELSE "connect"
             r == [Idle EXCEPT !.kind = kind, !.step = st]
  <2>2. st \in Steps \ {"check", "wait"}
    BY DEF Steps
  <2>3. r \in Call /\ r.locked = {} /\ r.listener = "none" /\ r.step = st
    BY <2>2, IdleIsCall DEF Call, Idle
  <2>4. call' = [call EXCEPT ![c] = r]
    BY <2>1 DEF begin
  <2> HIDE DEF r, st
  <2> QED BY <2>1, <2>2, <2>3, <2>4, <1>0, QuietKeeps DEF begin
<1>3. CASE connect(c)
  <2>1. PICK l \in {"up", "none"} :
            call' = [call EXCEPT ![c].step = "read", ![c].listener = l]
    BY <1>3 DEF connect
  <2> DEFINE r == [call[c] EXCEPT !.step = "read", !.listener = l]
  <2>2. r \in Call /\ r.locked = call[c].locked /\ r.listener = l /\ r.step = "read"
    BY <1>0 DEF Call, Steps
  <2>3. call' = [call EXCEPT ![c] = r]
    BY <2>1, <1>0
  <2> HIDE DEF r
  <2> QED BY <2>2, <2>3, <1>0, <1>3, QuietKeeps DEF connect
<1>4. CASE read_lock(c)
  BY <1>4, ReadLockKeeps
<1>5. CASE read_claim(c)
  <2>1. CASE call[c].kind = "stream"
    <3> DEFINE r == [call[c] EXCEPT !.step = "yield", !.locked = {}]
    <3>1. r \in Call
      BY <1>0, CallFields DEF Steps
    <3>2. r.step = "yield" /\ r.locked = {} /\ r.listener = call[c].listener
      BY <1>0 DEF Call
    <3>3. call' = [call EXCEPT ![c] = r]
      BY <1>0, <1>5, <2>1 DEF read_claim
    <3> HIDE DEF r
    <3>4. place' \in [Messages -> Places]
          /\ \A m \in Messages : place'[m] = place[m] \/
                                 (m \in call[c].locked /\ place'[m] = "leased")
      BY <1>0, <1>1, <1>5 DEF read_claim, Move
    <3>5. UNCHANGED <<sends, fresh, pending, missed>>
      BY <1>5, <2>1 DEF read_claim
    <3> QED BY <3>1, <3>2, <3>3, <3>4, <3>5, <1>0, QuietKeeps DEF IInv, MissedListens
  <2>2. CASE call[c].kind # "stream"
    BY <1>0, <1>1, <1>5, <2>2, EndedKeeps DEF read_claim, Move
  <2> QED BY <2>1, <2>2
<1>6. CASE check(c)
  <2>1. CASE Expired(c)
    BY <1>0, <1>6, <2>1, EndedKeeps DEF check
  <2>2. CASE ~Expired(c)
    <3> DEFINE st == IF call[c].listener = "none" THEN "sleep" ELSE "wait"
               r == [call[c] EXCEPT !.step = st]
    <3>1. st \in Steps
      BY DEF Steps
    <3>2. r \in Call /\ r.locked = call[c].locked /\ r.listener = call[c].listener
      BY <1>0, <3>1, CallFields DEF Call
    <3>3. call' = [call EXCEPT ![c] = r] /\ call[c].step = "check"
      BY <1>0, <1>6, <2>2 DEF check, Goto, At
    <3>4. UNCHANGED <<place, sends, fresh, pending, missed>>
      BY <1>6, <2>2 DEF check
    <3> HIDE DEF r, st
    <3> QED BY <3>2, <3>3, <3>4, <1>0, QuietKeeps DEF IInv, MissedListens
  <2> QED BY <2>1, <2>2
<1>7. CASE Abandon(c)
  BY <1>0, <1>1, <1>7, EndedKeeps DEF Abandon, Move
<1>8. CASE \/ recv(c) \/ wait_timeout(c) \/ sleep_over(c) \/ stream_read_next(c)
  <2> DEFINE r == [call[c] EXCEPT !.step = "read"]
  <2>1. r \in Call /\ r.locked = call[c].locked /\ r.step = "read"
                   /\ r.listener = call[c].listener
    BY <1>0 DEF Call, Steps
  <2>2. call' = [call EXCEPT ![c] = r]
    BY <1>0, <1>8 DEF recv, wait_timeout, sleep_over, stream_read_next, Goto
  <2>3. /\ pending' \in [Calls -> Nat]
        /\ \A d \in Calls : d # c => pending'[d] = pending[d]
    BY <1>0, <1>8 DEF recv, wait_timeout, sleep_over, stream_read_next
  <2>4. UNCHANGED <<place, sends, fresh, missed>>
    BY <1>8 DEF recv, wait_timeout, sleep_over, stream_read_next
  <2> HIDE DEF r
  <2> QED BY <2>1, <2>2, <2>3, <2>4, <1>0, QuietKeeps DEF IInv, MissedListens
<1>9. CASE recv_error(c)
  <2> DEFINE r == [call[c] EXCEPT !.listener = "none", !.step = "sleep"]
  <2>1. r \in Call /\ r.locked = call[c].locked /\ r.step = "sleep"
                   /\ r.listener = "none"
    BY <1>0 DEF Call, Steps
  <2>2. call' = [call EXCEPT ![c] = r]
    BY <1>0, <1>9 DEF recv_error
  <2> HIDE DEF r
  <2> QED BY <2>1, <2>2, <1>0, <1>9, QuietKeeps DEF recv_error
<1>10. CASE deadline(c)
  <2> DEFINE r == [call[c] EXCEPT !.deadline = "passed"]
  <2>1. r \in Call /\ r.locked = call[c].locked /\ r.step = call[c].step
                   /\ r.listener = call[c].listener
    BY <1>0 DEF Call, Steps
  <2>2. call' = [call EXCEPT ![c] = r]
    BY <1>0, <1>10 DEF deadline
  <2> HIDE DEF r
  <2> QED BY <2>1, <2>2, <1>0, <1>10, QuietKeeps DEF deadline, IInv, MissedListens
<1>11. CASE connection_lost(c)
  <2> DEFINE r == [call[c] EXCEPT !.listener = "lost"]
  <2>1. r \in Call /\ r.locked = call[c].locked /\ r.listener = "lost"
    BY <1>0, CallFields DEF Call
  <2>2. call' = [call EXCEPT ![c] = r]
    BY <1>0, <1>11 DEF connection_lost
  <2>3. /\ pending' \in [Calls -> Nat]
        /\ \A d \in Calls : d # c => pending'[d] = pending[d]
        /\ missed' = missed \cup {c}
    BY <1>0, <1>11 DEF connection_lost
  <2>4. UNCHANGED <<place, sends, fresh>>
    BY <1>11 DEF connection_lost
  <2> HIDE DEF r
  <2> QED BY <2>1, <2>2, <2>3, <2>4, <1>0, QuietKeeps
<1>12. CASE recv_reconnect(c)
  <2> DEFINE r == [call[c] EXCEPT !.listener = "up"]
  <2>1. r \in Call /\ r.locked = call[c].locked /\ r.listener = "up"
    BY <1>0, CallFields DEF Call
  <2>2. call' = [call EXCEPT ![c] = r]
    BY <1>0, <1>12 DEF recv_reconnect
  <2>3. c \in missed
    BY <1>12 DEF recv_reconnect, IInv, MissedListens
  <2> HIDE DEF r
  <2> QED BY <2>1, <2>2, <2>3, <1>0, <1>12, QuietKeeps DEF recv_reconnect
<1> QED BY <1>2, <1>3, <1>4, <1>5, <1>6, <1>7, <1>8, <1>9, <1>10, <1>11, <1>12
        DEF Handler

\* The inductive invariant: notifications and messages keep pace for any
\* number of calls and messages, whatever breaks, is stolen or cut off.
THEOREM Invariance == Spec => []IInv
<1>1. IInv /\ [Next]_vars => IInv'
  <2> SUFFICES ASSUME IInv, [Next]_vars PROVE IInv'
    OBVIOUS
  <2>1. CASE Next
    BY <2>1, SendKeeps, VisibleKeeps, CallKeeps DEF Next
  <2>2. CASE UNCHANGED vars
    BY <2>2 DEF vars, IInv, TypeOK, ListensSinceRead, FreshIsAvailable,
                Available, Locked, LockedAreSent, MissedListens
  <2> QED BY <2>1, <2>2
<1> QED BY InitIInv, <1>1, PTL DEF Spec

\* No wakeup is lost (NoLostWakeup): recv of stream_read_next and of
\* read_with_notify_or_poll has a notification to come for a message that the
\* read before it could not see yet.
THEOREM WakeupCorrect == Spec => []NoLostWakeup
<1>1. IInv => NoLostWakeup
  BY DEF IInv, ListensSinceRead, NoLostWakeup, At
<1> QED BY Invariance, <1>1, PTL
=============================================================================
