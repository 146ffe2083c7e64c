------------------------- MODULE RuntimeEventQueue -------------------------
(***************************************************************************)
(* The event queue of a language runtime session.  The extension host      *)
(* (extHostLanguageRuntime.ts, attachToSession) gives every state change   *)
(* and message of a session the next value of the session's event clock;   *)
(* the session adapter of the main thread (mainThreadLanguageRuntime.ts)   *)
(* puts them back into order before it passes them on.                     *)
(***************************************************************************)
EXTENDS Naturals, Sequences

CONSTANT MaxTick    \* events the session emits (a bound)

ASSUME QueueAssumption == MaxTick \in Nat

\* State changes, messages, and messages that a client instance or handler in
\* the extension host has dealt with.
Kinds == {"state", "message", "handled"}

Event == [clock : 1 .. MaxTick, kind : Kinds]

VARIABLES
    fifo,       \* does the connection keep the order of events?
    tick,       \* _eventClocks[handle] of the extension host
    handling,   \* clocks of the comm messages being dispatched, innermost last
    emitted,    \* the events sent so far (history)
    network,    \* events on their way, in the order they were sent
    eventClock, \* _eventClock of the adapter
    eventQueue, \* _eventQueue
    timer,      \* is _eventQueueTimer set?
    fired       \* what the adapter's emitters have fired, in order (history)

hostVars == <<fifo, tick, handling, emitted>>
vars == <<fifo, tick, handling, emitted, network, eventClock, eventQueue, timer, fired>>

Elements(s) == {s[i] : i \in 1 .. Len(s)}

Init ==
    /\ fifo \in BOOLEAN
    /\ tick = 0 /\ handling = <<>> /\ emitted = {} /\ network = <<>>
    /\ eventClock = 0 /\ eventQueue = <<>> /\ timer = FALSE /\ fired = <<>>

-----------------------------------------------------------------------------
(* The extension host.  A listener runs to completion, but the handler of  *)
(* a comm message may make the session fire an event of its own: that one  *)
(* is numbered later and sent earlier.                                     *)

Send(n, kind) ==
    /\ emitted' = emitted \cup {[clock |-> n, kind |-> kind]}
    /\ network' = Append(network, [clock |-> n, kind |-> kind])
    /\ UNCHANGED <<fifo, eventClock, eventQueue, timer, fired>>

\* A state change, or a message that is no comm message.
EmitEvent(kind) ==
    /\ tick < MaxTick
    /\ tick' = tick + 1
    /\ Send(tick + 1, kind)
    /\ UNCHANGED handling

\* A comm message is numbered and given to handleCommOpen, handleCommData or
\* handleCommClosed, which calls client handlers and instances.
CommMessage ==
    /\ tick < MaxTick
    /\ tick' = tick + 1
    /\ handling' = Append(handling, tick + 1)
    /\ UNCHANGED <<fifo, emitted, network, eventClock, eventQueue, timer, fired>>

\* The handlers return and the message is sent, marked if one took it.
CommHandled(kind) ==
    /\ handling # <<>>
    /\ handling' = SubSeq(handling, 1, Len(handling) - 1)
    /\ Send(handling[Len(handling)], kind)
    /\ UNCHANGED tick

\* A client handler throws: the message is never sent.
HandlerThrows ==
    /\ handling # <<>>
    /\ handling' = SubSeq(handling, 1, Len(handling) - 1)
    /\ UNCHANGED <<fifo, tick, emitted, network, eventClock, eventQueue, timer, fired>>

-----------------------------------------------------------------------------
(* The session adapter.                                                    *)

\* The queue in the order of the event clocks.
Sorted(queue) ==
    LET order == CHOOSE p \in [1 .. Len(queue) -> 1 .. Len(queue)] :
            /\ \A i \in 1 .. Len(queue) : \E j \in 1 .. Len(queue) : p[j] = i
            /\ \A i, j \in 1 .. Len(queue) : i < j => queue[p[i]].clock <= queue[p[j]].clock
    IN  [i \in 1 .. Len(queue) |-> queue[order[i]]]

\* handleQueuedEvent, for each event in turn: what is emitted, namely all but
\* the messages that the extension host has handled.
Emissions(queue) ==
    LET sent[n \in 0 .. Len(queue)] ==
            IF n = 0 THEN <<>>
            ELSE IF queue[n].kind = "handled" THEN sent[n - 1] ELSE Append(sent[n - 1], queue[n])
    IN  sent[Len(queue)]

\* Seeded fault: the queue is handled in the order of arrival.
ProcessUnsorted(queue) ==
    /\ fired' = fired \o Emissions(queue)
    /\ eventClock' = queue[Len(queue)].clock
    /\ eventQueue' = <<>>
    /\ timer' = FALSE

\* processEventQueue and handleQueuedEvent: the whole queue, gaps or not, in
\* clock order; a handled message only advances the clock.
ProcessQueue(queue) ==
    LET sorted == Sorted(queue)
    IN  /\ fired' = fired \o Emissions(sorted)
        /\ eventClock' = sorted[Len(sorted)].clock
        /\ eventQueue' = <<>>
        /\ timer' = FALSE

\* addToEventQueue for an event from before the event clock: a message is
\* emitted at once (whether it was handled or not), a state change is ignored.
LateEvent(e) ==
    /\ e.clock < eventClock
    /\ fired' = IF e.kind = "state" THEN fired ELSE Append(fired, e)
    /\ UNCHANGED <<eventClock, eventQueue, timer>>

\* Seeded fault: the next event overtakes the queue, which is then cleared.
NextOvertakes(e) ==
    /\ e.clock >= eventClock
    /\ e.clock = eventClock + 1 \/ eventClock = 0
    /\ ProcessQueue(<<e>>)

\* The next event in the sequence, or the first one ever.
NextEvent(e) ==
    /\ e.clock >= eventClock
    /\ e.clock = eventClock + 1 \/ eventClock = 0
    /\ ProcessQueue(Append(eventQueue, e))

\* Seeded fault: the timer of a deferred event is not started.
DeferWithoutTimer(e) ==
    /\ e.clock >= eventClock
    /\ e.clock # eventClock + 1 /\ eventClock # 0
    /\ eventQueue' = Append(eventQueue, e)
    /\ UNCHANGED <<eventClock, timer, fired>>

\* An event that is not next waits in the queue, and the timer starts anew.
DeferEvent(e) ==
    /\ e.clock >= eventClock
    /\ e.clock # eventClock + 1 /\ eventClock # 0
    /\ eventQueue' = Append(eventQueue, e)
    /\ timer' = TRUE
    /\ UNCHANGED <<eventClock, fired>>

AddToEventQueue(e) == LateEvent(e) \/ NextEvent(e) \/ DeferEvent(e)

\* handleRuntimeMessage and emitState, for the i-th event on its way.
ReceiveEvent(i) ==
    /\ fifo => i = 1
    /\ network' = SubSeq(network, 1, i - 1) \o SubSeq(network, i + 1, Len(network))
    /\ AddToEventQueue(network[i])
    /\ UNCHANGED hostVars

\* The 250 ms timer.
TimerFires ==
    /\ timer
    /\ ProcessQueue(eventQueue)
    /\ UNCHANGED <<hostVars, network>>

Next ==
    \/ \E kind \in {"state", "message"} : EmitEvent(kind)
    \/ CommMessage
    \/ \E kind \in {"message", "handled"} : CommHandled(kind)
    \/ HandlerThrows
    \/ \E i \in 1 .. Len(network) : ReceiveEvent(i)
    \/ TimerFires

\* The connection delivers every event and timers fire.
Fairness ==
    /\ WF_vars(network # <<>> /\ ReceiveEvent(1))
    /\ WF_vars(TimerFires)

Spec == Init /\ [][Next]_vars
FairSpec == Spec /\ Fairness

-----------------------------------------------------------------------------
(* The queue keeps the promise of EventDelivery.                           *)

FiredStates == {e.clock : e \in {f \in Elements(fired) : f.kind = "state"}}

LastState(s) ==
    LET at == {i \in 1 .. Len(s) : s[i].kind = "state"}
    IN  IF at = {} THEN 0 ELSE s[CHOOSE i \in at : \A j \in at : j <= i].clock

Delivery == INSTANCE EventDelivery WITH
    pending <- Elements(handling),
    transit <- Elements(network) \cup Elements(eventQueue),
    horizon <- eventClock,
    current <- LastState(fired),
    shown   <- {e \in Elements(fired) : e.kind # "state"}

\* Whatever order the events arrive in, the adapter's queue hands them over as
\* EventDelivery says: in ordered batches cut at the event clock, a state never
\* after a newer one.
ImplementsDelivery == Delivery!Spec

\* Over a connection that keeps the order no state change is lost, even when
\* comm handlers make the session change state while they run: a state change
\* is sent as soon as it is numbered, so it can never be the late one.
StatesConserved == fifo =>
    \A e \in emitted : e.kind = "state" =>
        \/ e \in Elements(network) \cup Elements(eventQueue)
        \/ e.clock \in FiredStates

\* Every event that was sent leaves the connection and the queue.
EventsSettle ==
    \A n \in 1 .. MaxTick :
        (\E e \in Elements(network) \cup Elements(eventQueue) : e.clock = n) ~>
        (\A e \in Elements(network) \cup Elements(eventQueue) : e.clock # n)
=============================================================================
