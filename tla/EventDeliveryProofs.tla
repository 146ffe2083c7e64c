------------------------ MODULE EventDeliveryProofs ------------------------
(***************************************************************************)
(* Proofs about EventDelivery, for any number of events.                   *)
(***************************************************************************)
EXTENDS EventDelivery, TLAPS

\* The inductive invariant.  ClocksUnique is needed to know that an event that
\* is sent is new, and HorizonSettled that an event at the horizon is settled.
IInv == TypeOK /\ ClocksUnique /\ MessagesConserved /\ HorizonSettled

-----------------------------------------------------------------------------
\* The initial state of a session's event traffic satisfies the invariant.
LEMMA InitIInv == Init => IInv
  BY TickAssumption
  DEF Init, IInv, TypeOK, ClocksUnique, MessagesConserved, HorizonSettled

\* Sending an event whose clock is used by no other one keeps the invariant,
\* whatever numbered it (the listeners of attachToSession).
LEMMA SendIInv ==
  ASSUME IInv, NEW n \in 1 .. MaxTick, NEW kind \in Kinds, Send(n, kind),
         n # horizon, \A e \in emitted : e.clock # n,
         tick' \in 0 .. MaxTick, tick <= tick', n <= tick',
         pending' \subseteq pending, n \notin pending'
  PROVE  IInv'
<1> DEFINE ev == [clock |-> n, kind |-> kind]
<1>1. ev \in Event /\ ev.clock = n /\ ev.kind = kind
  BY DEF Event
<1>2. /\ emitted' = emitted \cup {ev} /\ transit' = transit \cup {ev}
      /\ horizon' = horizon /\ current' = current /\ shown' = shown
  BY DEF Send
<1>3. ev \notin emitted
  BY <1>1
<1> HIDE DEF ev
<1>4. TypeOK'
  BY <1>1, <1>2 DEF IInv, TypeOK
<1>5. ClocksUnique'
  <2>1. \A m \in pending' : m <= tick'
    BY TickAssumption DEF IInv, TypeOK, ClocksUnique
  <2>2. ASSUME NEW e \in emitted'
        PROVE  e.clock <= tick' /\ e.clock \notin pending'
    <3>1. CASE e = ev
      BY <1>1, <3>1
    <3>2. CASE e \in emitted
      BY <3>2, TickAssumption DEF IInv, TypeOK, ClocksUnique, Event
    <3> QED
      BY <1>2, <3>1, <3>2
  <2>3. \A e, f \in emitted' : e.clock = f.clock => e = f
    BY <1>1, <1>2 DEF IInv, ClocksUnique
  <2> QED
    BY <2>1, <2>2, <2>3 DEF ClocksUnique
<1>6. MessagesConserved'
  BY <1>2, <1>3 DEF IInv, TypeOK, MessagesConserved
<1>7. HorizonSettled'
  <2>1. current' <= horizon' /\ horizon' <= tick'
    BY <1>2, TickAssumption DEF IInv, TypeOK, HorizonSettled
  <2>2. /\ \A e \in transit' : e.clock # horizon'
        /\ \A m \in pending' : m # horizon'
    BY <1>1, <1>2 DEF IInv, HorizonSettled
  <2>3. current' # 0 => [clock |-> current', kind |-> "state"] \in emitted' \ transit'
    BY <1>2, <1>3 DEF IInv, HorizonSettled
  <2> QED
    BY <2>1, <2>2, <2>3 DEF HorizonSettled
<1> QED
  BY <1>4, <1>5, <1>6, <1>7 DEF IInv

\* Numbering an event, sent at once or later, keeps the invariant.
LEMMA EmitIInv ==
  ASSUME IInv, NEW kind \in Kinds, Emit(kind)
  PROVE  IInv'
<1>1. tick + 1 \in 1 .. MaxTick /\ tick' = tick + 1 /\ tick \in Nat
  BY TickAssumption DEF IInv, TypeOK, Emit
<1>2. tick + 1 # horizon /\ \A e \in emitted : e.clock # tick + 1
  BY <1>1, TickAssumption DEF IInv, TypeOK, ClocksUnique, HorizonSettled, Event
<1>3. pending' = pending /\ tick + 1 \notin pending
  BY <1>1 DEF Emit, IInv, ClocksUnique
<1>4. Send(tick + 1, kind)
  BY DEF Emit
<1> QED
  BY <1>1, <1>2, <1>3, <1>4, SendIInv

LEMMA OpenIInv ==
  ASSUME IInv, Open
  PROVE  IInv'
<1>1. tick + 1 \in 1 .. MaxTick /\ tick' = tick + 1 /\ tick \in Nat
  BY TickAssumption DEF IInv, TypeOK, Open
<1>2. /\ pending' = pending \cup {tick + 1} /\ emitted' = emitted
      /\ transit' = transit /\ horizon' = horizon /\ current' = current /\ shown' = shown
  BY DEF Open
<1>3. TypeOK'
  BY <1>1, <1>2, TickAssumption DEF IInv, TypeOK
<1>4. ClocksUnique'
  BY <1>1, <1>2, TickAssumption DEF IInv, TypeOK, ClocksUnique, Event
<1>5. MessagesConserved'
  BY <1>2 DEF IInv, MessagesConserved
<1>6. HorizonSettled'
  BY <1>1, <1>2, TickAssumption DEF IInv, TypeOK, HorizonSettled
<1> QED
  BY <1>3, <1>4, <1>5, <1>6 DEF IInv

\* A pending event is sent or abandoned.
LEMMA CloseIInv ==
  ASSUME IInv, NEW n \in pending, NEW kind \in Kinds, Close(n, kind)
  PROVE  IInv'
<1>1. n \in 1 .. MaxTick /\ n <= tick /\ n # horizon
  BY DEF IInv, TypeOK, ClocksUnique, HorizonSettled
<1>2. \A e \in emitted : e.clock # n
  BY DEF IInv, ClocksUnique
<1>3. tick' = tick /\ tick \in 0 .. MaxTick /\ pending' = pending \ {n} /\ Send(n, kind)
  BY DEF Close, IInv, TypeOK
<1> QED
  BY <1>1, <1>2, <1>3, SendIInv, TickAssumption

LEMMA AbandonIInv ==
  ASSUME IInv, NEW n \in pending, Abandon(n)
  PROVE  IInv'
  BY DEF IInv, TypeOK, ClocksUnique, MessagesConserved, HorizonSettled, Abandon

\* A batch that is cut at its last clock (processEventQueue).
LEMMA DeliverIInv ==
  ASSUME IInv, NEW batch \in SUBSET transit, Deliver(batch)
  PROVE  IInv' /\ current' >= current /\ horizon' > horizon
<1>1. /\ tick' = tick /\ pending' = pending /\ emitted' = emitted
      /\ transit' = transit \ batch
      /\ shown' = shown \cup {e \in batch : e.kind = "message"}
  BY DEF Deliver
<1>2. PICK last \in batch : horizon' = last.clock
  BY DEF Deliver
<1>3. batch \subseteq emitted /\ batch \subseteq Event /\ last \in Event
  BY DEF IInv, TypeOK
<1>4. /\ horizon \in 0 .. MaxTick /\ current \in 0 .. MaxTick /\ tick \in 0 .. MaxTick
      /\ horizon' \in 1 .. MaxTick
  BY <1>2, <1>3 DEF IInv, TypeOK, Event
<1>5. horizon' > horizon /\ \A e \in batch : e.clock <= horizon'
  BY <1>2 DEF Deliver
<1>6. horizon' <= tick
  BY <1>2, <1>3 DEF IInv, ClocksUnique
<1>7. /\ current' \in 0 .. MaxTick /\ current' >= current /\ current' <= horizon'
      /\ current' # 0 => [clock |-> current', kind |-> "state"] \in emitted \ transit'
  <2>1. CASE StateClocks(batch) = {}
    <3>1. current' = current
      BY <2>1 DEF Deliver, Adopt
    <3> QED
      BY <1>1, <1>4, <1>5, <3>1, TickAssumption DEF IInv, HorizonSettled
  <2>2. CASE StateClocks(batch) # {}
    <3>1. PICK s \in batch : s.kind = "state" /\ current' = s.clock
      BY <2>2 DEF Deliver, Adopt, StateClocks
    <3>2. s = [clock |-> current', kind |-> "state"] /\ s.clock \in 1 .. MaxTick
      BY <1>3, <3>1 DEF Event
    <3>3. s.clock > horizon /\ s.clock <= horizon'
      BY <1>5 DEF Deliver
    <3>4. current <= horizon
      BY DEF IInv, HorizonSettled
    <3> QED
      BY <1>1, <1>3, <1>4, <3>1, <3>2, <3>3, <3>4, TickAssumption
  <2> QED
    BY <2>1, <2>2
<1>8. TypeOK'
  BY <1>1, <1>3, <1>4, <1>7 DEF IInv, TypeOK
<1>9. ClocksUnique'
  BY <1>1 DEF IInv, ClocksUnique
<1>10. MessagesConserved'
  BY <1>1, <1>3 DEF IInv, MessagesConserved
<1>11. HorizonSettled'
  <2>1. \A e \in transit' : e.clock # horizon'
    BY <1>1, <1>2, <1>3 DEF IInv, TypeOK, ClocksUnique
  <2>2. \A n \in pending' : n # horizon'
    BY <1>1, <1>2, <1>3 DEF IInv, ClocksUnique
  <2> QED
    BY <1>1, <1>6, <1>7, <2>1, <2>2 DEF HorizonSettled
<1> QED
  BY <1>5, <1>7, <1>8, <1>9, <1>10, <1>11 DEF IInv

\* A late event (the first branch of addToEventQueue).
LEMMA LateIInv ==
  ASSUME IInv, NEW e \in transit, Late(e)
  PROVE  IInv'
<1>1. /\ tick' = tick /\ pending' = pending /\ emitted' = emitted
      /\ horizon' = horizon /\ current' = current /\ transit' = transit \ {e}
      /\ shown' = IF e.kind = "state" THEN shown ELSE shown \cup {e}
  BY DEF Late
<1>2. TypeOK'
  BY <1>1 DEF IInv, TypeOK
<1>3. ClocksUnique'
  BY <1>1 DEF IInv, ClocksUnique
<1>4. MessagesConserved'
  BY <1>1 DEF IInv, TypeOK, MessagesConserved
<1>5. HorizonSettled'
  BY <1>1 DEF IInv, HorizonSettled
<1> QED
  BY <1>2, <1>3, <1>4, <1>5 DEF IInv

-----------------------------------------------------------------------------
\* Every step of the event traffic keeps the invariant.
LEMMA NextIInv == IInv /\ [Next]_vars => IInv'
<1> SUFFICES ASSUME IInv, [Next]_vars PROVE IInv'
  OBVIOUS
<1>1. ASSUME NEW kind \in Kinds, Emit(kind) PROVE IInv'
  BY <1>1, EmitIInv
<1>2. CASE Open
  BY <1>2, OpenIInv
<1>3. ASSUME NEW n \in pending, Abandon(n) PROVE IInv'
  BY <1>3, AbandonIInv
<1>4. ASSUME NEW n \in pending, NEW kind \in Kinds, Close(n, kind) PROVE IInv'
  BY <1>4, CloseIInv
<1>5. ASSUME NEW batch \in SUBSET transit, Deliver(batch) PROVE IInv'
  BY <1>5, DeliverIInv
<1>6. ASSUME NEW e \in transit, Late(e) PROVE IInv'
  BY <1>6, LateIInv
<1>7. CASE UNCHANGED vars
  BY <1>7 DEF vars, IInv, TypeOK, ClocksUnique, MessagesConserved, HorizonSettled
<1> QED
  BY <1>1, <1>2, <1>3, <1>4, <1>5, <1>6, <1>7 DEF Next

\* The invariant holds throughout every session.
THEOREM Invariance == Spec => []IInv
<1> QED
  BY InitIInv, NextIInv, PTL DEF Spec

\* The variables keep their types.
THEOREM TypeCorrect == Spec => []TypeOK
<1>1. IInv => TypeOK
  BY DEF IInv
<1> QED
  BY Invariance, <1>1, PTL

\* No message for the listeners is lost or shown twice, in whatever order the
\* events arrive.
THEOREM NoMessageLost == Spec => []MessagesConserved
<1>1. IInv => MessagesConserved
  BY DEF IInv
<1> QED
  BY Invariance, <1>1, PTL

\* A clock value names one event.
THEOREM ClockNamesEvent == Spec => []ClocksUnique
<1>1. IInv => ClocksUnique
  BY DEF IInv
<1> QED
  BY Invariance, <1>1, PTL

\* Nothing in transit lies at the horizon, and the current state was reported.
THEOREM HorizonIsSettled == Spec => []HorizonSettled
<1>1. IInv => HorizonSettled
  BY DEF IInv
<1> QED
  BY Invariance, <1>1, PTL

-----------------------------------------------------------------------------
\* The listeners never see an older state after a newer one.
THEOREM StatesInOrder == Spec => StateNeverGoesBack
<1>1. IInv /\ [Next]_vars => [current' >= current]_vars
  <2> SUFFICES ASSUME IInv, Next PROVE current' >= current
    OBVIOUS
  <2>1. ASSUME NEW batch \in SUBSET transit, Deliver(batch) PROVE current' >= current
    BY <2>1, DeliverIInv
  <2>2. CASE current' = current
    BY <2>2, TickAssumption DEF IInv, TypeOK
  <2>3. (\E batch \in SUBSET transit : Deliver(batch)) \/ current' = current
    BY DEF Next, Emit, Open, Close, Abandon, Late, Send
  <2> QED
    BY <2>1, <2>2, <2>3
<1> QED
  BY Invariance, <1>1, PTL DEF Spec, StateNeverGoesBack

\* A settled event is never delivered again.
THEOREM SettledEventsStay == Spec => SettledForever
<1> DEFINE A == Settled \subseteq Settled' /\ shown \subseteq shown'
<1>1. IInv /\ [Next]_vars => [A]_vars
  <2> SUFFICES ASSUME IInv, Next PROVE A
    OBVIOUS
  <2>1. ASSUME NEW n \in 1 .. MaxTick, NEW kind \in Kinds, Send(n, kind),
               \A e \in emitted : e.clock # n
        PROVE  A
    BY <2>1 DEF Send, Settled
  <2>2. ASSUME NEW kind \in Kinds, Emit(kind) PROVE A
    <3>1. tick + 1 \in 1 .. MaxTick /\ \A e \in emitted : e.clock # tick + 1
      BY <2>2, TickAssumption DEF Emit, IInv, TypeOK, ClocksUnique, Event
    <3> QED
      BY <2>1, <2>2, <3>1 DEF Emit
  <2>3. ASSUME NEW n \in pending, NEW kind \in Kinds, Close(n, kind) PROVE A
    <3>1. n \in 1 .. MaxTick /\ \A e \in emitted : e.clock # n
      BY DEF IInv, TypeOK, ClocksUnique
    <3> QED
      BY <2>1, <2>3, <3>1 DEF Close
  <2>4. CASE Open \/ \E n \in pending : Abandon(n)
    BY <2>4 DEF Open, Abandon, Settled
  <2>5. ASSUME NEW batch \in SUBSET transit, Deliver(batch) PROVE A
    BY <2>5 DEF Deliver, Settled
  <2>6. ASSUME NEW e \in transit, Late(e) PROVE A
    BY <2>6 DEF Late, Settled
  <2> QED
    BY <2>2, <2>3, <2>4, <2>5, <2>6 DEF Next
<1> QED
  BY Invariance, <1>1, PTL DEF Spec, SettledForever
=============================================================================
