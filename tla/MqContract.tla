---------------------------- MODULE MqContract ----------------------------
(***************************************************************************)
(* What the message queue promises its clients, without workers, SQL or    *)
(* tokens: at-least-once delivery under leases.  Each message is in one    *)
(* place; a queued message may be leased to the delivery that holder names *)
(* until a given time; only that delivery settles it.                      *)
(***************************************************************************)
EXTENDS Naturals

CONSTANT Messages

VARIABLES place,    \* message -> where it is
          holder,   \* message -> number of the delivery it is leased to, or 0
          until,    \* message -> end of that lease
          serial,   \* number of the latest delivery
          clock,
          settledBy \* message -> the delivery that acked or archived it, or 0

cvars == <<place, holder, until, serial, clock, settledBy>>

Places == {"unsent", "queued", "dead", "archived", "gone"}

CInit ==
    /\ place = [m \in Messages |-> "unsent"]
    /\ holder = [m \in Messages |-> 0]
    /\ until = [m \in Messages |-> 0]
    /\ serial = 0
    /\ clock = 1
    /\ settledBy = [m \in Messages |-> 0]

\* Messages S leave for place p; their leases end.
MoveTo(S, p) ==
    /\ place' = [m \in Messages |-> IF m \in S THEN p ELSE place[m]]
    /\ holder' = [m \in Messages |-> IF m \in S THEN 0 ELSE holder[m]]
    /\ until' = [m \in Messages |-> IF m \in S THEN 0 ELSE until[m]]

In(S, ps) == \A m \in S : place[m] \in ps

Publish(S) ==
    /\ In(S, {"unsent"})
    /\ MoveTo(S, "queued")
    /\ UNCHANGED <<serial, clock, settledBy>>

\* A message is leased only when its previous lease is over.
Deliver(S) ==
    /\ In(S, {"queued"})
    /\ \A m \in S : until[m] <= clock /\ until'[m] >= clock
    /\ serial' = serial + 1
    /\ holder' = [m \in Messages |-> IF m \in S THEN serial' ELSE holder[m]]
    /\ until' = [m \in Messages |-> IF m \in S THEN until'[m] ELSE until[m]]
    /\ UNCHANGED <<place, clock, settledBy>>

\* The holder of an unexpired lease may move its end, even to now.
Extend(m) ==
    /\ In({m}, {"queued"}) /\ holder[m] # 0 /\ until[m] > clock
    /\ until'[m] >= clock
    /\ until' = [until EXCEPT ![m] = until'[m]]
    /\ UNCHANGED <<place, holder, serial, clock, settledBy>>

Settle(m, p) ==
    /\ In({m}, {"queued"}) /\ holder[m] # 0
    /\ MoveTo({m}, p)
    /\ settledBy' = [settledBy EXCEPT ![m] = holder[m]]
    /\ UNCHANGED <<serial, clock>>

\* An ack needs the lease; an archive may come late, as long as nobody else
\* was handed the message since.
Ack(m) == until[m] > clock /\ Settle(m, "gone")
Archive(m) == Settle(m, "archived")

Bury(S) ==
    /\ In(S, {"queued"})
    /\ MoveTo(S, "dead")
    /\ UNCHANGED <<serial, clock, settledBy>>

Revive(m) ==
    /\ In({m}, {"dead"})
    /\ MoveTo({m}, "queued")
    /\ UNCHANGED <<serial, clock, settledBy>>

\* Purging or dropping a queue, and the retention of dead letters.
Discard(S) ==
    /\ In(S, {"queued", "dead", "archived"})
    /\ MoveTo(S, "gone")
    /\ UNCHANGED <<serial, clock, settledBy>>

Advance ==
    /\ clock' = clock + 1
    /\ UNCHANGED <<place, holder, until, serial, settledBy>>

CNext ==
    \/ Advance
    \/ \E S \in SUBSET Messages : Publish(S) \/ Deliver(S) \/ Bury(S) \/ Discard(S)
    \/ \E m \in Messages : Extend(m) \/ Ack(m) \/ Archive(m) \/ Revive(m)

CSpec == CInit /\ [][CNext]_cvars
=============================================================================
