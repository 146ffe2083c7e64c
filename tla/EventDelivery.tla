--------------------------- MODULE EventDelivery ---------------------------
(***************************************************************************)
(* What the main thread promises about the events of a language runtime    *)
(* session.  The extension host numbers them with a logical clock; they    *)
(* may arrive in any order; the session adapter hands them to its          *)
(* listeners in batches, each cut at a horizon.  An event from before the  *)
(* horizon comes too late: a message is still shown, a state is ignored.   *)
(***************************************************************************)
EXTENDS Naturals

CONSTANT MaxTick    \* events a session emits (a bound)

ASSUME TickAssumption == MaxTick \in Nat

\* A message is "handled" when the extension host has already dealt with it.
Kinds == {"state", "message", "handled"}

Event == [clock : 1 .. MaxTick, kind : Kinds]

VARIABLES
    tick,       \* the extension host's event clock of the session
    pending,    \* clocks given to an event that is not sent yet
    emitted,    \* every event sent to the main thread so far
    transit,    \* the emitted events that have not been settled
    horizon,    \* the clock of the last event of the latest batch
    current,    \* the clock of the session's current state, 0 initially
    shown       \* the messages given to the listeners

vars == <<tick, pending, emitted, transit, horizon, current, shown>>

Init ==
    /\ tick = 0 /\ horizon = 0 /\ current = 0
    /\ pending = {} /\ emitted = {} /\ transit = {} /\ shown = {}

-----------------------------------------------------------------------------
(* The extension host.                                                     *)

\* The event with clock n is sent.
Send(n, kind) ==
    /\ emitted' = emitted \cup {[clock |-> n, kind |-> kind]}
    /\ transit' = transit \cup {[clock |-> n, kind |-> kind]}
    /\ UNCHANGED <<horizon, current, shown>>

\* An event is numbered and sent.
Emit(kind) ==
    /\ tick < MaxTick
    /\ tick' = tick + 1
    /\ Send(tick + 1, kind)
    /\ UNCHANGED pending

\* An event is numbered; it is sent once it has been looked at.
Open ==
    /\ tick < MaxTick
    /\ tick' = tick + 1
    /\ pending' = pending \cup {tick + 1}
    /\ UNCHANGED <<emitted, transit, horizon, current, shown>>

\* Seeded fault: an event is sent once per handler.
CloseTwice(n, kind) ==
    /\ Send(n, kind)
    /\ UNCHANGED <<tick, pending>>

Close(n, kind) ==
    /\ pending' = pending \ {n}
    /\ Send(n, kind)
    /\ UNCHANGED tick

\* It is never sent: its clock stays unused.
Abandon(n) ==
    /\ pending' = pending \ {n}
    /\ UNCHANGED <<tick, emitted, transit, horizon, current, shown>>

-----------------------------------------------------------------------------
(* The session adapter.                                                    *)

StateClocks(batch) == {e.clock : e \in {f \in batch : f.kind = "state"}}

\* The last state of a batch, if there is one, becomes the current state.
Adopt(batch) ==
    IF StateClocks(batch) = {}
    THEN current' = current
    ELSE current' \in StateClocks(batch) /\ \A n \in StateClocks(batch) : n <= current'

\* Seeded fault: the batch is not sorted before the horizon is cut.
DeliverUnordered(batch) ==
    /\ batch # {}
    /\ \A e \in batch : e.clock > horizon
    /\ horizon' \in {e.clock : e \in batch}
    /\ Adopt(batch)
    /\ shown' = shown \cup {e \in batch : e.kind = "message"}
    /\ transit' = transit \ batch
    /\ UNCHANGED <<tick, pending, emitted>>

\* A batch of events from behind the horizon is handed over in clock order.
Deliver(batch) ==
    /\ batch # {}
    /\ \A e \in batch : e.clock > horizon
    /\ horizon' \in {e.clock : e \in batch}
    /\ \A e \in batch : e.clock <= horizon'
    /\ Adopt(batch)
    /\ shown' = shown \cup {e \in batch : e.kind = "message"}
    /\ transit' = transit \ batch
    /\ UNCHANGED <<tick, pending, emitted>>

\* Seeded fault: a late event is dropped whatever it is.
LateDropped(e) ==
    /\ e.clock < horizon
    /\ transit' = transit \ {e}
    /\ UNCHANGED <<tick, pending, emitted, horizon, current, shown>>

\* Seeded fault: a late state is adopted.
LateAdopted(e) ==
    /\ e.clock < horizon
    /\ shown' = IF e.kind = "state" THEN shown ELSE shown \cup {e}
    /\ current' = IF e.kind = "state" THEN e.clock ELSE current
    /\ transit' = transit \ {e}
    /\ UNCHANGED <<tick, pending, emitted, horizon>>

\* An event arrives after a later one was handed over.
Late(e) ==
    /\ e.clock < horizon
    /\ shown' = IF e.kind = "state" THEN shown ELSE shown \cup {e}
    /\ transit' = transit \ {e}
    /\ UNCHANGED <<tick, pending, emitted, horizon, current>>

Next ==
    \/ \E kind \in Kinds : Emit(kind)
    \/ Open
    \/ \E n \in pending : Abandon(n) \/ \E kind \in Kinds : Close(n, kind)
    \/ \E batch \in SUBSET transit : Deliver(batch)
    \/ \E e \in transit : Late(e)

Spec == Init /\ [][Next]_vars

-----------------------------------------------------------------------------
(* Properties.                                                             *)

\* Every variable keeps its type.
TypeOK ==
    /\ tick \in 0 .. MaxTick /\ horizon \in 0 .. MaxTick /\ current \in 0 .. MaxTick
    /\ pending \subseteq 1 .. MaxTick
    /\ emitted \subseteq Event /\ transit \subseteq emitted /\ shown \subseteq emitted

\* A clock value names one event: no two emitted events share one, and none is
\* both in use and still to be sent (the clock of attachToSession).
ClocksUnique ==
    /\ \A n \in pending : n <= tick
    /\ \A e \in emitted : e.clock <= tick /\ e.clock \notin pending
    /\ \A e, f \in emitted : e.clock = f.clock => e = f

\* No message that listeners should see is lost or shown again: until it is
\* shown it is in transit, and once shown it is not (addToEventQueue,
\* processEventQueue).
MessagesConserved ==
    \A e \in emitted : e.kind = "message" => (e \in transit <=> e \notin shown)

\* The current state is one that the runtime reported and that was taken off
\* the queue; nothing on its way has the clock of the horizon, so the strict
\* comparison of addToEventQueue misses no event.
HorizonSettled ==
    /\ current <= horizon /\ horizon <= tick
    /\ \A e \in transit : e.clock # horizon
    /\ \A n \in pending : n # horizon
    /\ current # 0 => [clock |-> current, kind |-> "state"] \in emitted \ transit

\* The session never goes back to an older state: "emitting one out of order
\* would leave the UI in an inconsistent state" (addToEventQueue).
StateNeverGoesBack == [][current' >= current]_vars

\* Once an event is settled it never comes back, and what listeners were shown
\* stays shown.
Settled == emitted \ transit
SettledForever == [][Settled \subseteq Settled' /\ shown \subseteq shown']_vars
=============================================================================
