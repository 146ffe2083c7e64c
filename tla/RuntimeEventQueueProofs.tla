----------------------- MODULE RuntimeEventQueueProofs -----------------------
(***************************************************************************)
(* The event queue of a session implements EventDelivery, for any number   *)
(* of events, in whatever order they arrive, and loses no state change     *)
(* over a connection that keeps the order.                                 *)
(***************************************************************************)
EXTENDS RuntimeEventQueue, TLAPS, NaturalsInduction, WellFoundedInduction

TypeOK ==
    /\ fifo \in BOOLEAN /\ tick \in 0 .. MaxTick
    /\ handling \in Seq(1 .. MaxTick)
    /\ emitted \subseteq Event
    /\ network \in Seq(Event) /\ eventQueue \in Seq(Event) /\ fired \in Seq(Event)
    /\ eventClock \in 0 .. MaxTick /\ timer \in BOOLEAN

\* A clock value is given to one event.
HostOK ==
    /\ \A i, j \in 1 .. Len(handling) : handling[i] = handling[j] => i = j
    /\ \A i \in 1 .. Len(handling) : handling[i] <= tick
    /\ \A e \in emitted : e.clock <= tick /\ \A i \in 1 .. Len(handling) : e.clock # handling[i]

\* An event is in one place.
PlacesOK ==
    /\ \A i \in 1 .. Len(network) : network[i] \in emitted
    /\ \A i \in 1 .. Len(eventQueue) : eventQueue[i] \in emitted
    /\ \A i, j \in 1 .. Len(network) : network[i].clock = network[j].clock => i = j
    /\ \A i, j \in 1 .. Len(eventQueue) : eventQueue[i].clock = eventQueue[j].clock => i = j
    /\ \A i \in 1 .. Len(network), j \in 1 .. Len(eventQueue) : network[i].clock # eventQueue[j].clock

\* Nothing on its way has the clock of the last event handled, and the queue
\* holds later ones only.
ClockOK ==
    /\ eventClock <= tick
    /\ \A i \in 1 .. Len(handling) : handling[i] # eventClock
    /\ \A i \in 1 .. Len(network) : network[i].clock # eventClock
    /\ \A i \in 1 .. Len(eventQueue) : eventQueue[i].clock > eventClock
    /\ timer => eventQueue # <<>>

\* Over a connection that keeps the order a state change is later than all that
\* was sent before it.
StatesOK ==
    fifo => \A i \in 1 .. Len(network) : network[i].kind = "state" =>
        /\ network[i].clock > eventClock
        /\ \A j \in 1 .. Len(network) : j < i => network[j].clock < network[i].clock
        /\ \A j \in 1 .. Len(eventQueue) : eventQueue[j].clock < network[i].clock

\* The inductive invariant.
Inv == TypeOK /\ HostOK /\ PlacesOK /\ ClockOK /\ StatesOK /\ StatesConserved

-----------------------------------------------------------------------------
(* Induction over the naturals, for a set.                                 *)

\* A set of naturals that is not empty has a least element.
LEMMA LeastNatural ==
    ASSUME NEW T, T \subseteq Nat, T # {}
    PROVE  \E x \in T : \A y \in T : x <= y
<1>1. \E x \in T : \A y \in T : ~ (<<y, x>> \in OpToRel(<, Nat))
  BY WFMin, NatLessThanWellFounded
<1>2. OpToRel(<, Nat) = {p \in Nat \X Nat : p[1] < p[2]}
  BY Zenon DEF OpToRel
<1>3. \E x \in T : \A y \in T : ~ (<<y, x>> \in {p \in Nat \X Nat : p[1] < p[2]})
  BY ONLY <1>1, <1>2, Zenon
<1>4. PICK x \in T : \A y \in T : ~ (<<y, x>> \in {p \in Nat \X Nat : p[1] < p[2]})
  BY ONLY <1>3
<1>5. ASSUME NEW y \in T PROVE x <= y
  <2>1. x \in Nat /\ y \in Nat
    OBVIOUS
  <2>2. ~ (<<y, x>> \in {p \in Nat \X Nat : p[1] < p[2]})
    BY <1>4
  <2>. QED  BY <2>1, <2>2
<1>. QED  BY <1>5

\* A set that holds 0 and the successors of its naturals holds all naturals.
LEMMA NaturalsOf ==
    ASSUME NEW T, 0 \in T, \A n \in Nat : n \in T => n + 1 \in T
    PROVE  Nat \subseteq T
<1>. SUFFICES ASSUME Nat \ T # {} PROVE FALSE
  OBVIOUS
<1>1. PICK x \in Nat \ T : \A y \in Nat \ T : x <= y
  BY LeastNatural
<1>2. x # 0 /\ x - 1 \in Nat /\ (x - 1) + 1 = x
  BY <1>1
<1>3. x - 1 \in T
  BY <1>1, <1>2
<1>. QED  BY <1>1, <1>2, <1>3


-----------------------------------------------------------------------------
(* Sorting the queue.                                                      *)

\* The clock of an event is a natural number.
LEMMA EventsAre ==
    \A e \in Event : /\ e.clock \in 1 .. MaxTick /\ e.clock \in Nat /\ e.kind \in Kinds
                     /\ e = [clock |-> e.clock, kind |-> e.kind]
BY QueueAssumption DEF Event

\* p puts the first n events of q in the order of their clocks.
Order(p, q, n) ==
    /\ p \in [1 .. n -> 1 .. n]
    /\ \A i \in 1 .. n : \E j \in 1 .. n : p[j] = i
    /\ \A i, j \in 1 .. n : i < j => q[p[i]].clock <= q[p[j]].clock

\* One more event is put in its place.
LEMMA OrderInsert ==
    ASSUME NEW q \in Seq(Event), NEW n \in Nat, n + 1 <= Len(q), NEW p, Order(p, q, n)
    PROVE  \E h : Order(h, q, n + 1)
<1>. DEFINE K == {i \in 1 .. (n + 1) : i = n + 1 \/ q[p[i]].clock > q[n + 1].clock}
            m == n + 1
<1>1. n + 1 \in K /\ K \subseteq Nat
  OBVIOUS
<1>2. PICK k \in K : \A y \in K : k <= y
  BY <1>1, LeastNatural
<1>. DEFINE h == [i \in 1 .. m |-> IF i < k THEN p[i] ELSE IF i = k THEN m ELSE p[i - 1]]
<1>3. k \in 1 .. m /\ m \in Nat /\ m = n + 1
  BY <1>2
<1>4. ASSUME NEW i \in 1 .. n
      PROVE  p[i] \in 1 .. n /\ q[p[i]].clock \in Nat
  <2>1. p[i] \in 1 .. n
    BY DEF Order
  <2>2. q[p[i]] \in Event
    BY <2>1
  <2>. QED  BY <2>1, <2>2, EventsAre
<1>5. q[m].clock \in Nat
  BY EventsAre
<1>6. \A i \in 1 .. n : i < k => q[p[i]].clock <= q[m].clock
  BY <1>2, <1>4, <1>5
<1>7. k < m => q[p[k]].clock > q[m].clock
  BY <1>2
<1>8. \A i \in 1 .. n : i >= k => q[p[i]].clock >= q[m].clock
  <2>. SUFFICES ASSUME NEW i \in 1 .. n, i >= k PROVE q[p[i]].clock >= q[m].clock
    OBVIOUS
  <2>1. k \in 1 .. n /\ k < m
    BY <1>3
  <2>2. i = k \/ q[p[k]].clock <= q[p[i]].clock
    <3>1. i = k \/ k < i
      BY <2>1
    <3>2. \A a, b \in 1 .. n : a < b => q[p[a]].clock <= q[p[b]].clock
      BY DEF Order
    <3>. QED  BY <2>1, <3>1, <3>2, Zenon
  <2>3. q[p[k]].clock \in Nat /\ q[p[i]].clock \in Nat
    BY <1>4, <2>1
  <2>. QED  BY <1>5, <1>7, <2>1, <2>2, <2>3
<1>9. h \in [1 .. m -> 1 .. m]
  <2>1. ASSUME NEW i \in 1 .. m, i < k PROVE p[i] \in 1 .. m
    BY <1>3, <1>4, <2>1
  <2>2. ASSUME NEW i \in 1 .. m, i > k PROVE p[i - 1] \in 1 .. m
    BY <1>3, <1>4, <2>2
  <2>. QED  BY <1>3, <2>1, <2>2
<1>10. ASSUME NEW i \in 1 .. m PROVE \E j \in 1 .. m : h[j] = i
  <2>1. CASE i = m
    BY <1>3, <2>1
  <2>2. CASE i \in 1 .. n
    <3>1. PICK j \in 1 .. n : p[j] = i
      BY <2>2 DEF Order
    <3>2. CASE j < k
      BY <1>3, <3>1, <3>2
    <3>3. CASE j >= k
      <4>1. j + 1 \in 1 .. m /\ ~(j + 1 < k) /\ j + 1 # k /\ (j + 1) - 1 = j
        BY <1>3, <3>3
      <4>2. h[j + 1] = p[j]
        BY <4>1
      <4>. QED  BY <3>1, <4>1, <4>2
    <3>. QED  BY <1>3, <3>2, <3>3
  <2>. QED  BY <1>3, <2>1, <2>2
<1>11. ASSUME NEW i \in 1 .. m, NEW j \in 1 .. m, i < j PROVE q[h[i]].clock <= q[h[j]].clock
  <2>1. CASE j < k
    <3>1. h[i] = p[i] /\ h[j] = p[j] /\ i \in 1 .. n /\ j \in 1 .. n
      BY <1>3, <1>11, <2>1
    <3>. QED  BY <1>11, <3>1 DEF Order
  <2>2. CASE j = k
    <3>1. h[i] = p[i] /\ h[j] = m /\ i \in 1 .. n /\ i < k
      BY <1>3, <1>11, <2>2
    <3>. QED  BY <1>6, <3>1
  <2>3. CASE j > k
    <3>1. h[j] = p[j - 1] /\ j - 1 \in 1 .. n /\ j - 1 >= k
      BY <1>3, <2>3
    <3>2. CASE i < k
      <4>1. h[i] = p[i] /\ i \in 1 .. n /\ i < j - 1
        BY <1>3, <2>3, <3>2
      <4>. QED  BY <3>1, <4>1 DEF Order
    <3>3. CASE i = k
      <4>1. h[i] = m
        BY <3>3
      <4>2. q[p[j - 1]].clock >= q[m].clock
        BY <1>8, <3>1
      <4>. QED  BY <1>4, <1>5, <3>1, <4>1, <4>2
    <3>4. CASE i > k
      <4>1. h[i] = p[i - 1] /\ i - 1 \in 1 .. n /\ i - 1 < j - 1
        BY <1>3, <1>11, <2>3, <3>4
      <4>. QED  BY <3>1, <4>1 DEF Order
    <3>. QED  BY <1>3, <3>2, <3>3, <3>4
  <2>. QED  BY <1>3, <2>1, <2>2, <2>3
<1>. HIDE DEF h
<1>12. Order(h, q, m)
  BY <1>9, <1>10, <1>11 DEF Order
<1>. QED  BY <1>12

\* There is an order for every queue.
LEMMA OrderExists ==
    ASSUME NEW q \in Seq(Event)
    PROVE  \E p : Order(p, q, Len(q))
<1>. DEFINE T == {n \in Nat : n <= Len(q) => \E p : Order(p, q, n)}
<1>1. 0 \in T
  <2>1. Order(<<>>, q, 0)
    BY DEF Order
  <2>. QED  BY <2>1
<1>2. ASSUME NEW n \in Nat, n \in T PROVE n + 1 \in T
  <2>. SUFFICES ASSUME n + 1 <= Len(q) PROVE \E h : Order(h, q, n + 1)
    OBVIOUS
  <2>1. n <= Len(q)
    OBVIOUS
  <2>2. PICK p : Order(p, q, n)
    BY <1>2, <2>1
  <2>. QED  BY <2>2, OrderInsert
<1>3. Nat \subseteq T
  <2>. HIDE DEF T
  <2>. QED  BY <1>1, <1>2, NaturalsOf
<1>. QED  BY <1>3

\* What sorting a queue leaves: the same events, by their clocks.
SortedFact(s, q) ==
    /\ s \in Seq(Event) /\ Len(s) = Len(q)
    /\ \A i \in 1 .. Len(s) : \E j \in 1 .. Len(q) : s[i] = q[j]
    /\ \A j \in 1 .. Len(q) : \E i \in 1 .. Len(s) : s[i] = q[j]
    /\ \A i, j \in 1 .. Len(s) : i < j => s[i].clock <= s[j].clock

\* Sorted sorts.
LEMMA SortedSorts ==
    ASSUME NEW q \in Seq(Event)
    PROVE  SortedFact(Sorted(q), q)
<1>. DEFINE N == Len(q)
            p == CHOOSE f \in [1 .. N -> 1 .. N] :
                    /\ \A i \in 1 .. N : \E j \in 1 .. N : f[j] = i
                    /\ \A i, j \in 1 .. N : i < j => q[f[i]].clock <= q[f[j]].clock
            s == [i \in 1 .. N |-> q[p[i]]]
<1>1. Sorted(q) = s
  BY Zenon DEF Sorted
<1>2. \E f \in [1 .. N -> 1 .. N] :
         /\ \A i \in 1 .. N : \E j \in 1 .. N : f[j] = i
         /\ \A i, j \in 1 .. N : i < j => q[f[i]].clock <= q[f[j]].clock
  BY OrderExists, Zenon DEF Order
<1>3. /\ p \in [1 .. N -> 1 .. N]
      /\ \A i \in 1 .. N : \E j \in 1 .. N : p[j] = i
      /\ \A i, j \in 1 .. N : i < j => q[p[i]].clock <= q[p[j]].clock
  BY <1>2, Zenon
<1>4. N \in Nat /\ N = Len(q)
  OBVIOUS
<1>. HIDE DEF p, N
<1>5. ASSUME NEW i \in 1 .. N PROVE p[i] \in 1 .. N /\ q[p[i]] \in Event /\ s[i] = q[p[i]]
  <2>1. p[i] \in 1 .. N
    BY <1>3
  <2>. QED  BY <1>4, <2>1
<1>6. s \in Seq(Event) /\ Len(s) = N
  BY <1>4, <1>5
<1>7. \A j \in 1 .. N : \E i \in 1 .. N : s[i] = q[j]
  BY <1>3, <1>5
<1>. HIDE DEF s
<1>8. SortedFact(s, q)
  <2>1. \A i \in 1 .. N : \E j \in 1 .. N : s[i] = q[j]
    BY <1>5
  <2>2. ASSUME NEW i \in 1 .. N, NEW j \in 1 .. N, i < j PROVE s[i].clock <= s[j].clock
    <3>1. q[p[i]].clock <= q[p[j]].clock
      BY <1>3, <2>2
    <3>. QED  BY <1>5, <3>1, Zenon
  <2>. QED  BY <1>4, <1>6, <1>7, <2>1, <2>2 DEF SortedFact
<1>. QED  BY <1>1, <1>8

-----------------------------------------------------------------------------
(* Emitting the events of a sorted queue.                                  *)

\* The function that Emissions defines, up to n.
EmitsUpTo(g, q, n) ==
    g = [i \in 0 .. n |-> IF i = 0 THEN <<>>
                          ELSE IF q[i].kind = "handled" THEN g[i - 1] ELSE Append(g[i - 1], q[i])]

\* There is such a function.
LEMMA EmitsDefined ==
    ASSUME NEW q, NEW n \in Nat
    PROVE  \E g : EmitsUpTo(g, q, n)
<1>. DEFINE T == {m \in Nat : \E g : EmitsUpTo(g, q, m)}
<1>1. 0 \in T
  <2>. DEFINE g == [i \in 0 .. 0 |-> <<>>]
  <2>1. EmitsUpTo(g, q, 0)
    BY DEF EmitsUpTo
  <2>. QED  BY <2>1
<1>2. ASSUME NEW m \in Nat, m \in T PROVE m + 1 \in T
  <2>1. PICK g : EmitsUpTo(g, q, m)
    BY <1>2
  <2>. DEFINE h == [i \in 0 .. (m + 1) |-> IF i <= m THEN g[i]
                        ELSE IF q[m + 1].kind = "handled" THEN g[m] ELSE Append(g[m], q[m + 1])]
  <2>2. ASSUME NEW i \in 0 .. (m + 1)
        PROVE  h[i] = IF i = 0 THEN <<>>
                      ELSE IF q[i].kind = "handled" THEN h[i - 1] ELSE Append(h[i - 1], q[i])
    <3>1. CASE i <= m
      <4>1. h[i] = g[i] /\ i \in 0 .. m
        BY <3>1
      <4>2. i # 0 => h[i - 1] = g[i - 1]
        BY <3>1
      <4>. QED  BY <2>1, <4>1, <4>2 DEF EmitsUpTo
    <3>2. CASE i = m + 1
      <4>1. h[i - 1] = g[m] /\ i # 0
        BY <3>2
      <4>. QED  BY <3>2, <4>1
    <3>. QED  BY <3>1, <3>2
  <2>3. EmitsUpTo(h, q, m + 1)
    BY <2>2 DEF EmitsUpTo
  <2>. QED  BY <2>3
<1>3. Nat \subseteq T
  <2>. HIDE DEF T
  <2>. QED  BY <1>1, <1>2, NaturalsOf
<1>. QED  BY <1>3

\* What is emitted of the first n events: those that are not handled, by their
\* clocks.
EmitFact(f, q, n) ==
    /\ f \in Seq(Event)
    /\ \A k \in 1 .. Len(f) : f[k].kind # "handled" /\ \E i \in 1 .. n : q[i] = f[k]
    /\ \A i \in 1 .. n : q[i].kind # "handled" => \E k \in 1 .. Len(f) : f[k] = q[i]
    /\ \A k, l \in 1 .. Len(f) : k < l => f[k].clock <= f[l].clock

\* One event.
LEMMA EmitRound ==
    ASSUME NEW q \in Seq(Event), NEW f, NEW n \in Nat, n + 1 <= Len(q),
           \A i, j \in 1 .. Len(q) : i < j => q[i].clock <= q[j].clock,
           EmitFact(f, q, n)
    PROVE  EmitFact(IF q[n + 1].kind = "handled" THEN f ELSE Append(f, q[n + 1]), q, n + 1)
<1>. DEFINE m == n + 1
<1>1. m \in Nat /\ q[m] \in Event /\ 1 .. m = 1 .. n \cup {m} /\ m \in 1 .. m
  OBVIOUS
<1>2. f \in Seq(Event) /\ Len(f) \in Nat
  BY DEF EmitFact
<1>3. \A i \in 1 .. n : q[i].clock <= q[m].clock
  OBVIOUS
<1>. HIDE DEF m
<1>4. CASE q[m].kind = "handled"
  <2>1. EmitFact(f, q, m)
    BY <1>1, <1>4 DEF EmitFact
  <2>. QED  BY <1>4, <2>1 DEF m
<1>5. CASE q[m].kind # "handled"
  <2>. DEFINE h == Append(f, q[m])
              p == Len(f) + 1
  <2>1. /\ h \in Seq(Event) /\ Len(h) = p /\ h[p] = q[m] /\ p \in 1 .. p
        /\ 1 .. p = 1 .. Len(f) \cup {p}
        /\ \A k \in 1 .. Len(f) : h[k] = f[k] /\ k \in 1 .. p
    BY <1>1, <1>2
  <2>2. \A k, l \in 1 .. p : k < l => k \in 1 .. Len(f) /\ (l \in 1 .. Len(f) \/ l = p)
    BY <1>2
  <2>. HIDE DEF h, p
  <2>3. \A k \in 1 .. p : h[k].kind # "handled" /\ \E i \in 1 .. m : q[i] = h[k]
    <3>1. ASSUME NEW k \in 1 .. Len(f) PROVE h[k].kind # "handled" /\ \E i \in 1 .. m : q[i] = h[k]
      <4>1. h[k] = f[k] /\ f[k].kind # "handled"
        BY <2>1 DEF EmitFact
      <4>2. PICK i \in 1 .. n : q[i] = f[k]
        BY DEF EmitFact
      <4>. QED  BY <1>1, <4>1, <4>2
    <3>2. h[p].kind # "handled" /\ \E i \in 1 .. m : q[i] = h[p]
      BY <1>1, <1>5, <2>1
    <3>. QED  BY <2>1, <3>1, <3>2
  <2>4. ASSUME NEW i \in 1 .. m, q[i].kind # "handled" PROVE \E k \in 1 .. p : h[k] = q[i]
    <3>1. CASE i = m
      BY <3>1, <2>1
    <3>2. CASE i \in 1 .. n
      <4>1. PICK k \in 1 .. Len(f) : f[k] = q[i]
        BY <3>2, <2>4 DEF EmitFact
      <4>. QED  BY <4>1, <2>1
    <3>. QED  BY <1>1, <3>1, <3>2
  <2>5. ASSUME NEW k \in 1 .. p, NEW l \in 1 .. p, k < l PROVE h[k].clock <= h[l].clock
    <3>1. k \in 1 .. Len(f) /\ h[k] = f[k]
      BY <2>1, <2>2, <2>5
    <3>2. CASE l = p
      <4>1. PICK i \in 1 .. n : q[i] = f[k]
        BY <3>1 DEF EmitFact
      <4>. QED  BY <1>3, <2>1, <3>1, <3>2, <4>1
    <3>3. CASE l \in 1 .. Len(f)
      <4>1. h[l] = f[l]
        BY <2>1, <3>3
      <4>. QED  BY <2>5, <3>1, <3>3, <4>1 DEF EmitFact
    <3>. QED  BY <2>2, <2>5, <3>2, <3>3
  <2>6. EmitFact(h, q, m)
    BY <2>1, <2>3, <2>4, <2>5 DEF EmitFact
  <2>. QED  BY <1>5, <2>6 DEF h, m
<1>. QED  BY <1>4, <1>5 DEF m

\* The events of a sorted queue are emitted in their order, but for the handled
\* messages.
LEMMA EmissionsEmit ==
    ASSUME NEW q \in Seq(Event), \A i, j \in 1 .. Len(q) : i < j => q[i].clock <= q[j].clock
    PROVE  EmitFact(Emissions(q), q, Len(q))
<1>. DEFINE g == CHOOSE f : EmitsUpTo(f, q, Len(q))
<1>1. Emissions(q) = g[Len(q)]
  BY Zenon DEF Emissions, EmitsUpTo
<1>2. EmitsUpTo(g, q, Len(q))
  <2>. Len(q) \in Nat
    OBVIOUS
  <2>1. \E f : EmitsUpTo(f, q, Len(q))
    BY EmitsDefined, Zenon
  <2>. QED  BY ONLY <2>1
<1>. HIDE DEF g
<1>. DEFINE T == {n \in Nat : n <= Len(q) => EmitFact(g[n], q, n)}
<1>3. 0 \in T
  <2>1. g[0] = <<>>
    BY <1>2 DEF EmitsUpTo
  <2>2. EmitFact(<<>>, q, 0)
    BY DEF EmitFact
  <2>. QED  BY <2>1, <2>2
<1>4. ASSUME NEW n \in Nat, n \in T PROVE n + 1 \in T
  <2>. SUFFICES ASSUME n + 1 <= Len(q) PROVE EmitFact(g[n + 1], q, n + 1)
    OBVIOUS
  <2>1. EmitFact(g[n], q, n)
    BY <1>4
  <2>2. g[n + 1] = IF q[n + 1].kind = "handled" THEN g[n] ELSE Append(g[n], q[n + 1])
    <3>1. \A i \in 0 .. Len(q) : g[i] = IF i = 0 THEN <<>>
                 ELSE IF q[i].kind = "handled" THEN g[i - 1] ELSE Append(g[i - 1], q[i])
      BY ONLY <1>2, Zenon DEF EmitsUpTo
    <3>2. n + 1 \in 0 .. Len(q) /\ n + 1 # 0 /\ (n + 1) - 1 = n
      OBVIOUS
    <3>. QED  BY ONLY <3>1, <3>2
  <2>3. EmitFact(IF q[n + 1].kind = "handled" THEN g[n] ELSE Append(g[n], q[n + 1]), q, n + 1)
    BY <2>1, EmitRound
  <2>. QED  BY ONLY <2>2, <2>3, Zenon
<1>5. Nat \subseteq T
  <2>. HIDE DEF T
  <2>. QED  BY <1>3, <1>4, NaturalsOf
<1>. QED  BY <1>1, <1>5

-----------------------------------------------------------------------------
(* The current state, and what processing the queue does.                  *)

\* The last state change of a sequence of events.
LEMMA LastStateIs ==
    ASSUME NEW s \in Seq(Event), NEW i \in 1 .. Len(s), s[i].kind = "state",
           \A j \in 1 .. Len(s) : s[j].kind = "state" => j <= i
    PROVE  LastState(s) = s[i].clock
<1>. DEFINE at == {k \in 1 .. Len(s) : s[k].kind = "state"}
            c == CHOOSE k \in at : \A j \in at : j <= k
<1>1. LastState(s) = IF at = {} THEN 0 ELSE s[c].clock
  BY Zenon DEF LastState
<1>2. i \in at /\ \A j \in at : j <= i
  OBVIOUS
<1>3. at \subseteq Nat
  OBVIOUS
<1>. HIDE DEF at
<1>4. c \in at /\ \A j \in at : j <= c
  BY <1>2
<1>5. c = i
  <2>. HIDE DEF c
  <2>. QED  BY <1>2, <1>3, <1>4
<1>. QED  BY <1>1, <1>2, <1>5

\* There is a last one, if there is any.
LEMMA LastExists ==
    ASSUME NEW s \in Seq(Event), NEW k \in 1 .. Len(s), s[k].kind = "state"
    PROVE  \E i \in 1 .. Len(s) : s[i].kind = "state" /\ \A j \in 1 .. Len(s) : s[j].kind = "state" => j <= i
<1>. DEFINE at == {j \in 1 .. Len(s) : s[j].kind = "state"}
            B == {b \in Nat : \A j \in at : j <= b}
<1>1. Len(s) \in B /\ B \subseteq Nat
  OBVIOUS
<1>2. k \in at /\ at \subseteq Nat /\ \A j \in at : j > 0
  OBVIOUS
<1>3. PICK b \in B : \A y \in B : b <= y
  BY <1>1, LeastNatural
<1>. HIDE DEF at
<1>4. b \in Nat /\ \A j \in at : j <= b
  BY <1>3
<1>5. b \in at
  <2>. SUFFICES ASSUME b \notin at PROVE FALSE
    OBVIOUS
  <2>1. \A j \in at : j <= b - 1
    BY <1>2, <1>4
  <2>2. b - 1 \in Nat
    BY <1>2, <1>4
  <2>3. b - 1 \in B
    BY <2>1, <2>2
  <2>. QED  BY <1>3, <1>4, <2>3
<1>. QED  BY <1>4, <1>5 DEF at

\* A sequence without state changes shows the initial state.
LEMMA LastStateNone ==
    ASSUME NEW s \in Seq(Event), \A j \in 1 .. Len(s) : s[j].kind # "state"
    PROVE  LastState(s) = 0
<1>. DEFINE at == {k \in 1 .. Len(s) : s[k].kind = "state"}
            c == CHOOSE k \in at : \A j \in at : j <= k
<1>1. LastState(s) = IF at = {} THEN 0 ELSE s[c].clock
  BY Zenon DEF LastState
<1>2. at = {}
  OBVIOUS
<1>. QED  BY <1>1, <1>2

\* The current state after the events f, in the order of their clocks, have been
\* emitted: the newest state of f, or the old one if there is none.
StateFact(s, f, t) ==
    /\ (\A k \in 1 .. Len(f) : f[k].kind # "state") => LastState(t) = LastState(s)
    /\ (\E k \in 1 .. Len(f) : f[k].kind = "state") =>
          /\ \E k \in 1 .. Len(f) : f[k].kind = "state" /\ LastState(t) = f[k].clock
          /\ \A k \in 1 .. Len(f) : f[k].kind = "state" => f[k].clock <= LastState(t)

\* It is so.
LEMMA LastStateAfter ==
    ASSUME NEW s \in Seq(Event), NEW f \in Seq(Event),
           \A k, l \in 1 .. Len(f) : k < l => f[k].clock <= f[l].clock
    PROVE  StateFact(s, f, s \o f)
<1>. DEFINE t == s \o f
            n == Len(s)
<1>1. /\ t \in Seq(Event) /\ n \in Nat /\ Len(f) \in Nat /\ Len(t) = n + Len(f)
      /\ \A i \in 1 .. n : t[i] = s[i]
      /\ \A i \in 1 .. Len(f) : t[n + i] = f[i]
      /\ 1 .. n = 1 .. Len(s)
  OBVIOUS
<1>2. \A i \in 1 .. Len(t) : i \in 1 .. n \/ (i > n /\ i - n \in 1 .. Len(f) /\ t[i] = f[i - n])
  BY <1>1
<1>3. \A i \in 1 .. n : i \in 1 .. Len(t)
  BY <1>1
<1>4. \A i \in 1 .. Len(f) : n + i \in 1 .. Len(t)
  BY <1>1
<1>. HIDE DEF t, n
<1>5. ASSUME \A k \in 1 .. Len(f) : f[k].kind # "state" PROVE LastState(t) = LastState(s)
  <2>1. CASE \A j \in 1 .. n : s[j].kind # "state"
    <3>1. \A j \in 1 .. Len(t) : t[j].kind # "state"
      BY <1>1, <1>2, <1>5, <2>1
    <3>2. LastState(t) = 0
      BY <1>1, <3>1, LastStateNone
    <3>3. LastState(s) = 0
      BY <1>1, <2>1, LastStateNone
    <3>. QED  BY <3>2, <3>3
  <2>2. CASE \E j \in 1 .. n : s[j].kind = "state"
    <3>1. PICK i \in 1 .. Len(s) : s[i].kind = "state" /\ \A j \in 1 .. Len(s) : s[j].kind = "state" => j <= i
      BY <1>1, <2>2, LastExists
    <3>2. i \in 1 .. Len(t) /\ t[i] = s[i]
      BY <1>1, <1>3, <3>1
    <3>3. \A j \in 1 .. Len(t) : t[j].kind = "state" => j <= i
      BY <1>1, <1>2, <1>5, <3>1
    <3>4. LastState(t) = t[i].clock
      BY <1>1, <3>1, <3>2, <3>3, LastStateIs
    <3>5. LastState(s) = s[i].clock
      BY <3>1, LastStateIs
    <3>. QED  BY <3>2, <3>4, <3>5
  <2>. QED  BY <2>1, <2>2
<1>6. ASSUME NEW e \in 1 .. Len(f), f[e].kind = "state"
      PROVE  /\ \E k \in 1 .. Len(f) : f[k].kind = "state" /\ LastState(t) = f[k].clock
             /\ \A k \in 1 .. Len(f) : f[k].kind = "state" => f[k].clock <= LastState(t)
  <2>1. PICK i \in 1 .. Len(f) : f[i].kind = "state" /\ \A j \in 1 .. Len(f) : f[j].kind = "state" => j <= i
    BY <1>6, LastExists
  <2>2. n + i \in 1 .. Len(t) /\ t[n + i] = f[i]
    BY <1>1, <1>4
  <2>3. ASSUME NEW j \in 1 .. Len(t), t[j].kind = "state" PROVE j <= n + i
    <3>1. CASE j \in 1 .. n
      BY <1>1, <3>1
    <3>2. CASE j > n /\ j - n \in 1 .. Len(f) /\ t[j] = f[j - n]
      <4>1. j - n <= i
        BY <2>1, <2>3, <3>2
      <4>. QED  BY <1>1, <3>2, <4>1
    <3>. QED  BY <1>2, <3>1, <3>2
  <2>4. LastState(t) = f[i].clock
    BY <1>1, <2>1, <2>2, <2>3, LastStateIs
  <2>5. ASSUME NEW k \in 1 .. Len(f), f[k].kind = "state" PROVE f[k].clock <= f[i].clock
    <3>1. k = i \/ k < i
      BY <2>1, <2>5
    <3>2. f[k].clock \in Nat
      BY EventsAre
    <3>. QED  BY <3>1, <3>2
  <2>. QED  BY <2>1, <2>4, <2>5
<1>. QED  BY <1>5, <1>6 DEF StateFact, t

\* What processEventQueue does with a queue: the event clock is that of the
\* latest event, and all but the handled messages are emitted.
ProcessFact(q) ==
    /\ fired' \in Seq(Event) /\ eventQueue' = <<>> /\ timer' = FALSE
    /\ \E i \in 1 .. Len(q) : q[i].clock = eventClock'
    /\ \A i \in 1 .. Len(q) : q[i].clock <= eventClock'
    /\ Elements(fired') = Elements(fired) \cup {e \in Elements(q) : e.kind # "handled"}
    /\ (\A i \in 1 .. Len(q) : q[i].kind # "state") => LastState(fired') = LastState(fired)
    /\ (\E i \in 1 .. Len(q) : q[i].kind = "state") =>
          /\ \E i \in 1 .. Len(q) : q[i].kind = "state" /\ LastState(fired') = q[i].clock
          /\ \A i \in 1 .. Len(q) : q[i].kind = "state" => q[i].clock <= LastState(fired')

\* The elements of two sequences, one after the other.
LEMMA ElementsOfBoth ==
    ASSUME NEW S, NEW s \in Seq(S), NEW f \in Seq(S)
    PROVE  Elements(s \o f) = Elements(s) \cup Elements(f)
<1>. DEFINE t == s \o f
            n == Len(s)
<1>1. /\ n \in Nat /\ Len(f) \in Nat /\ Len(t) = n + Len(f)
      /\ \A i \in 1 .. n : t[i] = s[i] /\ i \in 1 .. Len(t)
      /\ \A i \in 1 .. Len(f) : t[n + i] = f[i] /\ n + i \in 1 .. Len(t)
  OBVIOUS
<1>2. \A i \in 1 .. Len(t) : i \in 1 .. n \/ (i - n \in 1 .. Len(f) /\ t[i] = f[i - n])
  OBVIOUS
<1>. HIDE DEF t
<1>3. ASSUME NEW x \in Elements(t) PROVE x \in Elements(s) \cup Elements(f)
  BY <1>1, <1>2 DEF Elements
<1>4. ASSUME NEW x \in Elements(s) \cup Elements(f) PROVE x \in Elements(t)
  BY <1>1 DEF Elements
<1>. QED  BY <1>3, <1>4 DEF t

\* ProcessQueue does this.
LEMMA QueueProcessed ==
    ASSUME NEW q \in Seq(Event), q # <<>>, fired \in Seq(Event), ProcessQueue(q)
    PROVE  ProcessFact(q)
<1>1. PICK s \in Seq(Event) : s = Sorted(q) /\ SortedFact(s, q)
  BY SortedSorts DEF SortedFact
<1>2. EmitFact(Emissions(s), s, Len(s))
  BY <1>1, EmissionsEmit DEF SortedFact
<1>3. PICK f \in Seq(Event) : f = Emissions(s) /\ EmitFact(f, s, Len(s))
  BY <1>2 DEF EmitFact
<1>4. /\ fired' = fired \o f /\ eventClock' = s[Len(s)].clock
      /\ eventQueue' = <<>> /\ timer' = FALSE
  BY <1>1, <1>3, Zenon DEF ProcessQueue
<1>5. StateFact(fired, f, fired')
  BY <1>3, <1>4, LastStateAfter DEF EmitFact
<1>6. Len(s) \in Nat /\ Len(s) = Len(q) /\ Len(s) \in 1 .. Len(s) /\ fired' \in Seq(Event)
  BY <1>1, <1>4 DEF SortedFact
<1>7. \E i \in 1 .. Len(q) : q[i].clock = eventClock'
  BY <1>1, <1>4, <1>6 DEF SortedFact
<1>8. ASSUME NEW i \in 1 .. Len(q) PROVE q[i].clock <= eventClock'
  <2>1. PICK j \in 1 .. Len(s) : s[j] = q[i]
    BY <1>1 DEF SortedFact
  <2>2. j = Len(s) \/ j < Len(s)
    BY <1>6
  <2>3. s[j].clock \in Nat
    BY EventsAre
  <2>4. j < Len(s) => s[j].clock <= s[Len(s)].clock
    BY <1>1, <1>6 DEF SortedFact
  <2>. QED  BY <1>4, <2>1, <2>2, <2>3, <2>4
<1>9. \A k \in 1 .. Len(f) : f[k].kind # "handled" /\ \E i \in 1 .. Len(q) : q[i] = f[k]
  <2>1. ASSUME NEW k \in 1 .. Len(f) PROVE \E i \in 1 .. Len(q) : q[i] = f[k]
    <3>1. PICK i \in 1 .. Len(s) : s[i] = f[k]
      BY <1>3 DEF EmitFact
    <3>. QED  BY <1>1, <3>1 DEF SortedFact
  <2>. QED  BY <1>3, <2>1 DEF EmitFact
<1>10. ASSUME NEW i \in 1 .. Len(q), q[i].kind # "handled" PROVE \E k \in 1 .. Len(f) : f[k] = q[i]
  <2>1. PICK j \in 1 .. Len(s) : s[j] = q[i]
    BY <1>1 DEF SortedFact
  <2>. QED  BY <1>3, <1>10, <2>1 DEF EmitFact
<1>11. Elements(fired') = Elements(fired) \cup {e \in Elements(q) : e.kind # "handled"}
  <2>1. Elements(fired') = Elements(fired) \cup Elements(f)
    BY <1>4, ElementsOfBoth
  <2>2. Elements(f) = {e \in Elements(q) : e.kind # "handled"}
    <3>1. ASSUME NEW x \in Elements(f) PROVE x \in Elements(q) /\ x.kind # "handled"
      BY <1>9 DEF Elements
    <3>2. ASSUME NEW x \in Elements(q), x.kind # "handled" PROVE x \in Elements(f)
      BY <1>10, <3>2 DEF Elements
    <3>. QED  BY <3>1, <3>2
  <2>. QED  BY <2>1, <2>2
<1>12. ASSUME \A i \in 1 .. Len(q) : q[i].kind # "state" PROVE LastState(fired') = LastState(fired)
  BY <1>5, <1>9, <1>12 DEF StateFact
<1>13. ASSUME NEW i \in 1 .. Len(q), q[i].kind = "state"
       PROVE  /\ \E j \in 1 .. Len(q) : q[j].kind = "state" /\ LastState(fired') = q[j].clock
              /\ \A j \in 1 .. Len(q) : q[j].kind = "state" => q[j].clock <= LastState(fired')
  <2>1. \E k \in 1 .. Len(f) : f[k].kind = "state"
    BY <1>10, <1>13
  <2>2. /\ \E k \in 1 .. Len(f) : f[k].kind = "state" /\ LastState(fired') = f[k].clock
        /\ \A k \in 1 .. Len(f) : f[k].kind = "state" => f[k].clock <= LastState(fired')
    BY <1>5, <2>1 DEF StateFact
  <2>3. \E j \in 1 .. Len(q) : q[j].kind = "state" /\ LastState(fired') = q[j].clock
    BY <1>9, <2>2
  <2>4. ASSUME NEW j \in 1 .. Len(q), q[j].kind = "state" PROVE q[j].clock <= LastState(fired')
    <3>1. PICK k \in 1 .. Len(f) : f[k] = q[j]
      BY <1>10, <2>4
    <3>. QED  BY <2>2, <2>4, <3>1
  <2>. QED  BY <2>3, <2>4
<1>. QED  BY <1>4, <1>6, <1>7, <1>8, <1>11, <1>12, <1>13 DEF ProcessFact

-----------------------------------------------------------------------------
(* The extension host.                                                     *)

\* What appending an element to a sequence does.
AppendFact(S, s, x, t) ==
    /\ t \in Seq(S) /\ Len(s) \in Nat /\ Len(t) = Len(s) + 1
    /\ 1 .. Len(t) = 1 .. Len(s) \cup {Len(t)} /\ t[Len(t)] = x
    /\ \A i \in 1 .. Len(s) : t[i] = s[i] /\ i < Len(t)
    /\ Elements(t) = Elements(s) \cup {x}

\* It does.
LEMMA Appended ==
    ASSUME NEW S, NEW s \in Seq(S), NEW x \in S
    PROVE  AppendFact(S, s, x, Append(s, x))
<1>. SUFFICES ASSUME NEW t, t = Append(s, x) PROVE AppendFact(S, s, x, t)
  OBVIOUS
<1>1. /\ t \in Seq(S) /\ Len(s) \in Nat /\ Len(t) = Len(s) + 1
      /\ 1 .. Len(t) = 1 .. Len(s) \cup {Len(t)} /\ t[Len(t)] = x
      /\ \A i \in 1 .. Len(s) : t[i] = s[i] /\ i < Len(t)
  OBVIOUS
<1>2. ASSUME NEW y \in Elements(t) PROVE y \in Elements(s) \cup {x}
  BY <1>1 DEF Elements
<1>3. ASSUME NEW y \in Elements(s) \cup {x} PROVE y \in Elements(t)
  BY <1>1 DEF Elements
<1>. QED  BY <1>1, <1>2, <1>3 DEF AppendFact

\* An event with an unused clock is sent; a state change has a new one.
LEMMA SendKeepsInv ==
    ASSUME Inv, NEW n \in 1 .. MaxTick, NEW kind \in Kinds, Send(n, kind),
           tick' \in 0 .. MaxTick, tick <= tick', n <= tick',
           handling' \in Seq(1 .. MaxTick),
           \A i, j \in 1 .. Len(handling') : handling'[i] = handling'[j] => i = j,
           \A i \in 1 .. Len(handling') :
               /\ handling'[i] <= tick' /\ handling'[i] # n /\ handling'[i] # eventClock
               /\ \A e \in emitted : e.clock # handling'[i],
           \A e \in emitted : e.clock # n,
           n # eventClock, kind = "state" => n > tick
    PROVE  Inv'
<1>1. PICK x \in Event : x = [clock |-> n, kind |-> kind]
  BY DEF Event
<1>2. x.clock = n /\ x.kind = kind
  BY <1>1
<1>3. /\ emitted' = emitted \cup {x} /\ network' = Append(network, x)
      /\ UNCHANGED <<fifo, eventClock, eventQueue, timer, fired>>
  BY <1>1 DEF Send
<1>4. /\ network' \in Seq(Event) /\ Len(network) \in Nat /\ Len(network') = Len(network) + 1
      /\ 1 .. Len(network') = 1 .. Len(network) \cup {Len(network')} /\ network'[Len(network')] = x
      /\ \A i \in 1 .. Len(network) : network'[i] = network[i] /\ i < Len(network')
      /\ Elements(network') = Elements(network) \cup {x}
  <2>1. network \in Seq(Event)
    BY DEF Inv, TypeOK
  <2>2. AppendFact(Event, network, x, network')
    BY <1>3, <2>1, Appended, Zenon
  <2>. QED  BY <2>2 DEF AppendFact
<1>5. \A e \in emitted : e.clock \in Nat /\ e.clock <= tick
  BY EventsAre DEF Inv, HostOK, TypeOK
<1>6. tick \in Nat /\ tick' \in Nat /\ n \in Nat /\ eventClock \in Nat
  BY DEF Inv, TypeOK
<1>7. TypeOK'
  BY <1>3, <1>4 DEF Inv, TypeOK
<1>8. HostOK'
  BY <1>2, <1>3, <1>5, <1>6 DEF Inv, HostOK
<1>9. PlacesOK'
  <2>1. /\ \A i \in 1 .. Len(network) : network[i] \in emitted
        /\ \A i \in 1 .. Len(eventQueue) : eventQueue[i] \in emitted
    BY DEF Inv, PlacesOK
  <2>2. \A i \in 1 .. Len(network') : network'[i] \in emitted'
    BY <1>3, <1>4, <2>1
  <2>3. \A i, j \in 1 .. Len(network') : network'[i].clock = network'[j].clock => i = j
    BY <1>2, <1>4, <2>1 DEF Inv, PlacesOK
  <2>4. \A i \in 1 .. Len(network'), j \in 1 .. Len(eventQueue) : network'[i].clock # eventQueue[j].clock
    <3>1. \A j \in 1 .. Len(eventQueue) : eventQueue[j].clock # n
      BY <2>1
    <3>2. \A i \in 1 .. Len(network), j \in 1 .. Len(eventQueue) : network[i].clock # eventQueue[j].clock
      BY DEF Inv, PlacesOK
    <3>. QED  BY <1>2, <1>4, <3>1, <3>2
  <2>. QED  BY <1>3, <2>1, <2>2, <2>3, <2>4 DEF Inv, PlacesOK
<1>10. ClockOK'
  BY <1>2, <1>3, <1>4, <1>6 DEF Inv, ClockOK
<1>11. StatesOK'
  <2>. SUFFICES ASSUME fifo, NEW i \in 1 .. Len(network'), network'[i].kind = "state"
                PROVE  /\ network'[i].clock > eventClock
                       /\ \A j \in 1 .. Len(network') : j < i => network'[j].clock < network'[i].clock
                       /\ \A j \in 1 .. Len(eventQueue) : eventQueue[j].clock < network'[i].clock
    BY <1>3 DEF StatesOK
  <2>1. CASE i \in 1 .. Len(network)
    <3>1. network'[i] = network[i] /\ network[i].kind = "state"
      BY <1>4, <2>1
    <3>2. /\ network[i].clock > eventClock
          /\ \A j \in 1 .. Len(network) : j < i => network[j].clock < network[i].clock
          /\ \A j \in 1 .. Len(eventQueue) : eventQueue[j].clock < network[i].clock
      BY <2>1, <3>1 DEF Inv, StatesOK
    <3>3. \A j \in 1 .. Len(network') : j < i => j \in 1 .. Len(network)
      BY <1>4, <2>1
    <3>. QED  BY <1>4, <3>1, <3>2, <3>3
  <2>2. CASE i = Len(network')
    <3>1. network'[i] = x /\ n > tick
      BY <1>2, <1>4, <2>2
    <3>2. \A j \in 1 .. Len(network) : network[j].clock < n
      BY <1>5, <1>6, <3>1 DEF Inv, PlacesOK
    <3>3. \A j \in 1 .. Len(eventQueue) : eventQueue[j].clock < n
      BY <1>5, <1>6, <3>1 DEF Inv, PlacesOK
    <3>4. eventClock < n
      BY <1>6, <3>1 DEF Inv, ClockOK
    <3>5. \A j \in 1 .. Len(network') : j < i => j \in 1 .. Len(network)
      BY <1>4, <2>2
    <3>. QED  BY <1>2, <1>4, <3>1, <3>2, <3>3, <3>4, <3>5
  <2>. QED  BY <1>4, <2>1, <2>2
<1>12. StatesConserved'
  <2>1. FiredStates' = FiredStates
    BY <1>3 DEF FiredStates, Elements
  <2>2. Elements(eventQueue') = Elements(eventQueue) /\ x \in Elements(network')
    BY <1>3, <1>4
  <2>. QED  BY <1>3, <1>4, <2>1, <2>2 DEF Inv, StatesConserved
<1>. QED  BY <1>7, <1>8, <1>9, <1>10, <1>11, <1>12 DEF Inv

\* A state change or a message is numbered and sent.
LEMMA EmitKeepsInv ==
    ASSUME Inv, NEW kind \in {"state", "message"}, EmitEvent(kind)
    PROVE  Inv'
<1>1. tick < MaxTick /\ tick' = tick + 1 /\ Send(tick + 1, kind) /\ handling' = handling
  BY DEF EmitEvent
<1>2. tick \in Nat /\ tick + 1 \in 1 .. MaxTick /\ MaxTick \in Nat /\ eventClock \in Nat
  BY <1>1, QueueAssumption DEF Inv, TypeOK
<1>3. \A e \in emitted : e.clock \in Nat /\ e.clock <= tick
  BY EventsAre DEF Inv, HostOK, TypeOK
<1>4. \A i \in 1 .. Len(handling) : handling[i] \in Nat
  <2>1. handling \in Seq(1 .. MaxTick)
    BY DEF Inv, TypeOK
  <2>. QED  BY <1>2, <2>1
<1>5. \A i \in 1 .. Len(handling') :
        /\ handling'[i] <= tick' /\ handling'[i] # tick + 1 /\ handling'[i] # eventClock
        /\ \A e \in emitted : e.clock # handling'[i]
  BY <1>1, <1>2, <1>4 DEF Inv, HostOK, ClockOK
<1>6. \A i, j \in 1 .. Len(handling') : handling'[i] = handling'[j] => i = j
  BY <1>1 DEF Inv, HostOK
<1>7. handling' \in Seq(1 .. MaxTick) /\ kind \in Kinds /\ tick + 1 # eventClock
  BY <1>1, <1>2 DEF Inv, TypeOK, Kinds, ClockOK
<1>8. PICK n \in 1 .. MaxTick : n = tick + 1
  BY <1>2
<1>9. /\ Send(n, kind) /\ tick' \in 0 .. MaxTick /\ tick <= tick' /\ n <= tick'
      /\ n # eventClock /\ n > tick
      /\ \A i \in 1 .. Len(handling') :
        /\ handling'[i] <= tick' /\ handling'[i] # n /\ handling'[i] # eventClock
        /\ \A e \in emitted : e.clock # handling'[i]
      /\ \A e \in emitted : e.clock # n
  BY <1>1, <1>2, <1>3, <1>5, <1>7, <1>8
<1>. QED  BY <1>6, <1>7, <1>9, SendKeepsInv

\* The sequence without its last element.
PopFact(S, s, t) ==
    /\ t \in Seq(S) /\ Len(s) \in 1 .. Len(s) /\ s[Len(s)] \in S
    /\ \A i \in 1 .. Len(t) : t[i] = s[i] /\ i \in 1 .. Len(s) /\ t[i] # s[Len(s)]
    /\ Elements(t) = Elements(s) \ {s[Len(s)]}

\* It is so, if its elements are different.
LEMMA Popped ==
    ASSUME NEW S, NEW s \in Seq(S), s # <<>>, \A i, j \in 1 .. Len(s) : s[i] = s[j] => i = j
    PROVE  PopFact(S, s, SubSeq(s, 1, Len(s) - 1))
<1>. SUFFICES ASSUME NEW t, t = SubSeq(s, 1, Len(s) - 1) PROVE PopFact(S, s, t)
  OBVIOUS
<1>1. /\ t \in Seq(S) /\ Len(s) \in 1 .. Len(s) /\ s[Len(s)] \in S
      /\ \A i \in 1 .. Len(t) : t[i] = s[i] /\ i \in 1 .. Len(s) /\ i # Len(s)
      /\ \A i \in 1 .. Len(s) : i = Len(s) \/ i \in 1 .. Len(t)
  OBVIOUS
<1>2. \A i \in 1 .. Len(t) : t[i] # s[Len(s)]
  BY <1>1
<1>3. ASSUME NEW y \in Elements(t) PROVE y \in Elements(s) \ {s[Len(s)]}
  BY <1>1, <1>2 DEF Elements
<1>4. ASSUME NEW y \in Elements(s) \ {s[Len(s)]} PROVE y \in Elements(t)
  BY <1>1 DEF Elements
<1>. QED  BY <1>1, <1>2, <1>3, <1>4 DEF PopFact

\* A comm message is sent with the clock it was given before its handlers ran.
LEMMA CommHandledKeepsInv ==
    ASSUME Inv, NEW kind \in {"message", "handled"}, CommHandled(kind)
    PROVE  Inv'
<1>1. /\ handling # <<>> /\ handling' = SubSeq(handling, 1, Len(handling) - 1)
      /\ Send(handling[Len(handling)], kind) /\ tick' = tick
  BY DEF CommHandled
<1>2. handling \in Seq(1 .. MaxTick) /\ tick \in 0 .. MaxTick /\ kind \in Kinds
  BY DEF Inv, TypeOK, Kinds
<1>3. /\ handling' \in Seq(1 .. MaxTick) /\ Len(handling) \in 1 .. Len(handling)
      /\ handling[Len(handling)] \in 1 .. MaxTick
      /\ \A i \in 1 .. Len(handling') : /\ handling'[i] = handling[i] /\ i \in 1 .. Len(handling)
                                        /\ handling'[i] # handling[Len(handling)]
  <2>1. \A i, j \in 1 .. Len(handling) : handling[i] = handling[j] => i = j
    BY DEF Inv, HostOK
  <2>2. PopFact(1 .. MaxTick, handling, handling')
    BY <1>1, <1>2, <2>1, Popped
  <2>. QED  BY <2>2 DEF PopFact
<1>4. PICK n \in 1 .. MaxTick : n = handling[Len(handling)]
  BY <1>3
<1>5. /\ n <= tick /\ n # eventClock /\ (\A e \in emitted : e.clock # n)
  BY <1>3, <1>4 DEF Inv, HostOK, ClockOK
<1>6. \A i, j \in 1 .. Len(handling') : handling'[i] = handling'[j] => i = j
  BY <1>3 DEF Inv, HostOK
<1>7. \A i \in 1 .. Len(handling') :
        /\ handling'[i] <= tick' /\ handling'[i] # n /\ handling'[i] # eventClock
        /\ \A e \in emitted : e.clock # handling'[i]
  BY <1>1, <1>3, <1>4 DEF Inv, HostOK, ClockOK
<1>8. tick' \in 0 .. MaxTick /\ tick <= tick' /\ n <= tick' /\ Send(n, kind) /\ kind # "state"
  BY <1>1, <1>2, <1>4, <1>5
<1>. QED  BY <1>2, <1>3, <1>5, <1>6, <1>7, <1>8, SendKeepsInv

\* A comm message is given the next clock value.
LEMMA CommMessageKeepsInv ==
    ASSUME Inv, CommMessage
    PROVE  Inv'
<1>1. /\ tick < MaxTick /\ tick' = tick + 1 /\ handling' = Append(handling, tick + 1)
      /\ UNCHANGED <<fifo, emitted, network, eventClock, eventQueue, timer, fired>>
  BY DEF CommMessage
<1>2. tick \in Nat /\ tick + 1 \in 1 .. MaxTick /\ MaxTick \in Nat /\ eventClock \in Nat
  BY <1>1, QueueAssumption DEF Inv, TypeOK
<1>3. \A e \in emitted : e.clock \in Nat /\ e.clock <= tick
  BY EventsAre DEF Inv, HostOK, TypeOK
<1>4. handling \in Seq(1 .. MaxTick)
  BY DEF Inv, TypeOK
<1>5. AppendFact(1 .. MaxTick, handling, tick + 1, handling')
  BY <1>1, <1>2, <1>4, Appended
<1>6. \A i \in 1 .. Len(handling) : handling[i] \in Nat /\ handling[i] <= tick /\ handling[i] # eventClock
  BY <1>2, <1>4 DEF Inv, HostOK, ClockOK
<1>7. \A i \in 1 .. Len(handling') : handling'[i] <= tick' /\ handling'[i] # eventClock
  BY <1>1, <1>2, <1>5, <1>6 DEF AppendFact, Inv, ClockOK
<1>8. \A i, j \in 1 .. Len(handling') : handling'[i] = handling'[j] => i = j
  BY <1>2, <1>5, <1>6 DEF AppendFact, Inv, HostOK
<1>9. \A e \in emitted : e.clock <= tick' /\ \A i \in 1 .. Len(handling') : e.clock # handling'[i]
  BY <1>1, <1>2, <1>3, <1>5 DEF AppendFact, Inv, HostOK
<1>10. TypeOK'
  BY <1>1, <1>2, <1>5 DEF Inv, TypeOK, AppendFact
<1>11. HostOK'
  BY <1>1, <1>7, <1>8, <1>9 DEF HostOK
<1>12. PlacesOK' /\ StatesOK'
  BY <1>1 DEF Inv, PlacesOK, StatesOK
<1>13. ClockOK'
  BY <1>1, <1>2, <1>7 DEF Inv, ClockOK
<1>14. StatesConserved'
  BY <1>1 DEF Inv, StatesConserved, FiredStates, Elements
<1>. QED  BY <1>10, <1>11, <1>12, <1>13, <1>14 DEF Inv

\* A comm message whose handler throws is not sent.
LEMMA HandlerThrowsKeepsInv ==
    ASSUME Inv, HandlerThrows
    PROVE  Inv'
<1>1. /\ handling # <<>> /\ handling' = SubSeq(handling, 1, Len(handling) - 1)
      /\ UNCHANGED <<fifo, tick, emitted, network, eventClock, eventQueue, timer, fired>>
  BY DEF HandlerThrows
<1>2. handling \in Seq(1 .. MaxTick) /\ \A i, j \in 1 .. Len(handling) : handling[i] = handling[j] => i = j
  BY DEF Inv, TypeOK, HostOK
<1>3. PopFact(1 .. MaxTick, handling, handling')
  BY <1>1, <1>2, Popped
<1>4. TypeOK'
  BY <1>1, <1>3 DEF Inv, TypeOK, PopFact
<1>5. HostOK'
  BY <1>1, <1>3 DEF Inv, HostOK, PopFact
<1>6. PlacesOK' /\ StatesOK'
  BY <1>1 DEF Inv, PlacesOK, StatesOK
<1>7. ClockOK'
  BY <1>1, <1>3 DEF Inv, ClockOK, PopFact
<1>8. StatesConserved'
  BY <1>1 DEF Inv, StatesConserved, FiredStates, Elements
<1>. QED  BY <1>4, <1>5, <1>6, <1>7, <1>8 DEF Inv

-----------------------------------------------------------------------------
(* The session adapter.                                                    *)

\* A sequence without its i-th element.
RemoveFact(S, s, i, t) ==
    /\ t \in Seq(S) /\ Len(t) \in Nat
    /\ \A k \in 1 .. Len(t) : k < i => k \in 1 .. Len(s) /\ k # i /\ t[k] = s[k]
    /\ \A k \in 1 .. Len(t) : k >= i => k + 1 \in 1 .. Len(s) /\ k + 1 # i /\ t[k] = s[k + 1]
    /\ \A j \in 1 .. Len(s) : j < i => j \in 1 .. Len(t)
    /\ \A j \in 1 .. Len(s) : j > i => j - 1 \in 1 .. Len(t) /\ j - 1 >= i /\ (j - 1) + 1 = j
    /\ Elements(s) = Elements(t) \cup {s[i]}

\* Two sequences, one after the other.
ConcatFact(S, a, b, t) ==
    /\ t \in Seq(S) /\ Len(t) = Len(a) + Len(b)
    /\ \A k \in 1 .. Len(a) : t[k] = a[k]
    /\ \A k \in 1 .. Len(b) : t[Len(a) + k] = b[k]

\* It is so.
LEMMA Concatenated ==
    ASSUME NEW S, NEW a \in Seq(S), NEW b \in Seq(S)
    PROVE  ConcatFact(S, a, b, a \o b)
BY DEF ConcatFact

\* It is so.
LEMMA Removed ==
    ASSUME NEW S, NEW s \in Seq(S), NEW i \in 1 .. Len(s)
    PROVE  RemoveFact(S, s, i, SubSeq(s, 1, i - 1) \o SubSeq(s, i + 1, Len(s)))
<1>. SUFFICES ASSUME NEW t, t = SubSeq(s, 1, i - 1) \o SubSeq(s, i + 1, Len(s)) PROVE RemoveFact(S, s, i, t)
  OBVIOUS
<1>0. PICK n \in Nat : n = Len(s) /\ i \in Nat /\ i - 1 \in Nat /\ 1 <= i /\ i <= n /\ n - i \in Nat
  OBVIOUS
<1>1. PICK a \in Seq(S) : /\ a = SubSeq(s, 1, i - 1) /\ Len(a) = i - 1
                          /\ \A k \in 1 .. (i - 1) : a[k] = s[k]
  <2>. DEFINE c == SubSeq(s, 1, i - 1)
  <2>1. c \in Seq(S) /\ Len(c) = i - 1
    BY <1>0
  <2>2. \A k \in 1 .. (i - 1) : c[k] = s[k]
    BY <1>0
  <2>. QED  BY <2>1, <2>2
<1>2. PICK b \in Seq(S) : /\ b = SubSeq(s, i + 1, Len(s)) /\ Len(b) = n - i
                          /\ \A k \in 1 .. (n - i) : b[k] = s[i + k]
  <2>. DEFINE c == SubSeq(s, i + 1, Len(s))
  <2>1. c \in Seq(S) /\ Len(c) = n - i
    BY <1>0
  <2>2. \A k \in 1 .. (n - i) : c[k] = s[i + k]
    BY <1>0
  <2>. QED  BY <2>1, <2>2
<1>3. /\ t \in Seq(S) /\ Len(t) = n - 1
      /\ \A k \in 1 .. Len(a) : t[k] = a[k]
      /\ \A k \in 1 .. Len(b) : t[Len(a) + k] = b[k]
  <2>1. t = a \o b
    BY <1>1, <1>2
  <2>2. /\ t \in Seq(S) /\ Len(t) = Len(a) + Len(b)
        /\ \A k \in 1 .. Len(a) : t[k] = a[k]
        /\ \A k \in 1 .. Len(b) : t[Len(a) + k] = b[k]
    <3>1. ConcatFact(S, a, b, a \o b)
      BY Concatenated, Zenon
    <3>. QED  BY ONLY <2>1, <3>1 DEF ConcatFact
  <2>3. (i - 1) + (n - i) = n - 1
    BY <1>0
  <2>. QED  BY ONLY <1>1, <1>2, <2>2, <2>3
<1>4. ASSUME NEW k \in 1 .. Len(t), k < i PROVE k \in 1 .. Len(s) /\ k # i /\ t[k] = s[k]
  <2>1. k \in 1 .. (i - 1) /\ k \in 1 .. n
    BY <1>0, <1>3, <1>4
  <2>2. t[k] = a[k] /\ a[k] = s[k]
    BY ONLY <1>1, <1>3, <2>1
  <2>. QED  BY <1>0, <1>4, <2>1, <2>2
<1>5. ASSUME NEW k \in 1 .. Len(t), k >= i PROVE k + 1 \in 1 .. Len(s) /\ k + 1 # i /\ t[k] = s[k + 1]
  <2>0. k \in 1 .. (n - 1) /\ k >= i
    BY ONLY <1>3, <1>5
  <2>1. PICK m \in Nat : m = k - (i - 1) /\ m \in 1 .. (n - i) /\ (i - 1) + m = k /\ i + m = k + 1
    BY ONLY <1>0, <2>0
  <2>2. t[(i - 1) + m] = b[m] /\ b[m] = s[i + m]
    BY ONLY <1>1, <1>2, <1>3, <2>1
  <2>3. k + 1 \in 1 .. n /\ k + 1 # i
    BY ONLY <1>0, <2>0
  <2>. QED  BY ONLY <1>0, <2>1, <2>2, <2>3
<1>6. /\ \A j \in 1 .. Len(s) : j < i => j \in 1 .. Len(t)
      /\ \A j \in 1 .. Len(s) : j > i => j - 1 \in 1 .. Len(t) /\ j - 1 >= i /\ (j - 1) + 1 = j
  <2>1. ASSUME NEW j \in 1 .. n, j < i PROVE j \in 1 .. (n - 1)
    BY <1>0, <2>1
  <2>2. ASSUME NEW j \in 1 .. n, j > i PROVE j - 1 \in 1 .. (n - 1) /\ j - 1 >= i /\ (j - 1) + 1 = j
    BY <1>0, <2>2
  <2>. QED  BY ONLY <1>0, <1>3, <2>1, <2>2
<1>7. ASSUME NEW y \in Elements(s) PROVE y \in Elements(t) \cup {s[i]}
  <2>1. PICK j \in 1 .. Len(s) : y = s[j]
    BY DEF Elements
  <2>2. CASE j < i
    BY <1>4, <1>6, <2>1, <2>2 DEF Elements
  <2>3. CASE j > i
    <3>1. j - 1 \in 1 .. Len(t) /\ t[j - 1] = s[j]
      BY <1>5, <1>6, <2>3
    <3>. QED  BY <2>1, <3>1 DEF Elements
  <2>. QED  BY <2>1, <2>2, <2>3
<1>8. ASSUME NEW y \in Elements(t) PROVE y \in Elements(s)
  <2>1. PICK k \in 1 .. Len(t) : y = t[k]
    BY DEF Elements
  <2>2. CASE k < i
    BY <1>4, <2>1, <2>2 DEF Elements
  <2>3. CASE k >= i
    BY <1>5, <2>1, <2>3 DEF Elements
  <2>. QED  BY <2>2, <2>3
<1>9. s[i] \in Elements(s)
  BY DEF Elements
<1>10. Elements(s) = Elements(t) \cup {s[i]}
  BY <1>7, <1>8, <1>9
<1>11. Len(t) \in Nat
  BY ONLY <1>0, <1>3
<1>. QED  BY ONLY <1>3, <1>4, <1>5, <1>6, <1>10, <1>11 DEF RemoveFact

\* The connection after the event x has been taken from it.
TakenFact(x) ==
    /\ network' \in Seq(Event)
    /\ \A k \in 1 .. Len(network') :
          /\ network'[k] \in emitted /\ network'[k].clock # x.clock /\ network'[k].clock # eventClock
          /\ \A j \in 1 .. Len(eventQueue) : network'[k].clock # eventQueue[j].clock
    /\ \A k, l \in 1 .. Len(network') : network'[k].clock = network'[l].clock => k = l
    /\ Elements(network) = Elements(network') \cup {x}
    /\ x \in emitted /\ x.clock # eventClock
    /\ \A j \in 1 .. Len(eventQueue) : x.clock # eventQueue[j].clock
    /\ fifo => \A k \in 1 .. Len(network') : network'[k].kind = "state" =>
          /\ network'[k].clock > eventClock /\ network'[k].clock > x.clock
          /\ \A j \in 1 .. Len(network') : j < k => network'[j].clock < network'[k].clock
          /\ \A j \in 1 .. Len(eventQueue) : eventQueue[j].clock < network'[k].clock
    /\ fifo /\ x.kind = "state" => x.clock > eventClock

\* ReceiveEvent takes it.
LEMMA EventTaken ==
    ASSUME Inv, NEW i \in 1 .. Len(network), ReceiveEvent(i)
    PROVE  TakenFact(network[i])
<1>1. /\ fifo => i = 1
      /\ network' = SubSeq(network, 1, i - 1) \o SubSeq(network, i + 1, Len(network))
  BY DEF ReceiveEvent
<1>2. network \in Seq(Event)
  BY DEF Inv, TypeOK
<1>3. RemoveFact(Event, network, i, network')
  BY <1>1, <1>2, Removed
<1>4. \A k \in 1 .. Len(network') :
        \E j \in 1 .. Len(network) : j # i /\ network'[k] = network[j] /\ (k < i => j = k) /\ (k >= i => j = k + 1)
  <2>1. ASSUME NEW k \in 1 .. Len(network')
        PROVE  \E j \in 1 .. Len(network) : j # i /\ network'[k] = network[j] /\ (k < i => j = k) /\ (k >= i => j = k + 1)
    <3>1. CASE k < i
      BY <1>3, <3>1 DEF RemoveFact
    <3>2. CASE k >= i
      BY <1>3, <3>2 DEF RemoveFact
    <3>. QED  BY <3>1, <3>2
  <2>. QED  BY <2>1
<1>5. ASSUME NEW k \in 1 .. Len(network')
      PROVE  /\ network'[k] \in emitted /\ network'[k].clock # network[i].clock /\ network'[k].clock # eventClock
             /\ \A j \in 1 .. Len(eventQueue) : network'[k].clock # eventQueue[j].clock
  <2>1. PICK j \in 1 .. Len(network) : j # i /\ network'[k] = network[j]
    BY <1>4
  <2>. QED  BY <2>1 DEF Inv, PlacesOK, ClockOK
<1>6. ASSUME NEW k \in 1 .. Len(network'), NEW l \in 1 .. Len(network'), network'[k].clock = network'[l].clock
      PROVE  k = l
  <2>1. PICK j \in 1 .. Len(network) : j # i /\ network'[k] = network[j] /\ (k < i => j = k) /\ (k >= i => j = k + 1)
    BY <1>4
  <2>2. PICK m \in 1 .. Len(network) : m # i /\ network'[l] = network[m] /\ (l < i => m = l) /\ (l >= i => m = l + 1)
    BY <1>4
  <2>3. j = m
    BY <1>6, <2>1, <2>2 DEF Inv, PlacesOK
  <2>. QED  BY <2>1, <2>2, <2>3
<1>7. /\ network[i] \in emitted /\ network[i].clock # eventClock
      /\ \A j \in 1 .. Len(eventQueue) : network[i].clock # eventQueue[j].clock
  BY DEF Inv, PlacesOK, ClockOK
<1>8. ASSUME fifo, NEW k \in 1 .. Len(network'), network'[k].kind = "state"
      PROVE  /\ network'[k].clock > eventClock /\ network'[k].clock > network[i].clock
             /\ \A j \in 1 .. Len(network') : j < k => network'[j].clock < network'[k].clock
             /\ \A j \in 1 .. Len(eventQueue) : eventQueue[j].clock < network'[k].clock
  <2>1. \A j \in 1 .. Len(network') : j + 1 \in 1 .. Len(network) /\ network'[j] = network[j + 1]
    BY <1>1, <1>3, <1>8 DEF RemoveFact
  <2>2. /\ network[k + 1].clock > eventClock
        /\ \A j \in 1 .. Len(network) : j < k + 1 => network[j].clock < network[k + 1].clock
        /\ \A j \in 1 .. Len(eventQueue) : eventQueue[j].clock < network[k + 1].clock
    BY <1>8, <2>1 DEF Inv, StatesOK
  <2>3. 1 \in 1 .. Len(network) /\ 1 < k + 1 /\ i = 1
    BY <1>1, <1>8
  <2>4. network[i].clock \in Nat /\ network[k + 1].clock \in Nat
    BY <2>1, EventsAre, <1>2
  <2>5. network'[k].clock > network[i].clock
    BY <2>1, <2>2, <2>3, <2>4
  <2>6. ASSUME NEW j \in 1 .. Len(network'), j < k PROVE network'[j].clock < network'[k].clock
    <3>1. j + 1 \in 1 .. Len(network) /\ j + 1 < k + 1
      BY <2>1, <2>6
    <3>2. network[j + 1].clock < network[k + 1].clock
      BY <2>2, <3>1
    <3>. QED  BY <2>1, <3>2
  <2>. QED  BY <2>1, <2>2, <2>5, <2>6
<1>9. fifo /\ network[i].kind = "state" => network[i].clock > eventClock
  BY DEF Inv, StatesOK
<1>10. network' \in Seq(Event) /\ Elements(network) = Elements(network') \cup {network[i]}
  BY <1>3 DEF RemoveFact
<1>. QED  BY <1>5, <1>6, <1>7, <1>8, <1>9, <1>10 DEF TakenFact

\* The events of q are processed and leave the connection and the queue.
LEMMA ProcessKeepsInv ==
    ASSUME Inv, NEW q \in Seq(Event), ProcessFact(q), UNCHANGED hostVars,
           network' \in Seq(Event),
           \A k \in 1 .. Len(q) : q[k] \in emitted,
           \A k \in 1 .. Len(network') : /\ network'[k] \in emitted
                                         /\ \A j \in 1 .. Len(q) : network'[k].clock # q[j].clock,
           \A k, l \in 1 .. Len(network') : network'[k].clock = network'[l].clock => k = l,
           fifo => \A k \in 1 .. Len(network') : network'[k].kind = "state" =>
               /\ \A j \in 1 .. Len(network') : j < k => network'[j].clock < network'[k].clock
               /\ \A j \in 1 .. Len(q) : q[j].clock < network'[k].clock,
           Elements(network) \cup Elements(eventQueue) = Elements(network') \cup Elements(q)
    PROVE  Inv'
<1>1. /\ fifo' = fifo /\ tick' = tick /\ handling' = handling /\ emitted' = emitted
      /\ eventQueue' = <<>> /\ timer' = FALSE /\ fired' \in Seq(Event) /\ Len(eventQueue') = 0
  BY DEF hostVars, ProcessFact
<1>2. PICK m \in 1 .. Len(q) : q[m].clock = eventClock'
  BY DEF ProcessFact
<1>3. q[m] \in emitted /\ q[m] \in Event /\ eventClock' \in 1 .. MaxTick
  BY <1>2, EventsAre DEF Inv, TypeOK
<1>4. TypeOK'
  <2>1. timer' \in BOOLEAN /\ fifo' \in BOOLEAN
    BY <1>1, Zenon DEF Inv, TypeOK
  <2>2. /\ tick' \in 0 .. MaxTick /\ handling' \in Seq(1 .. MaxTick) /\ emitted' \subseteq Event
        /\ eventQueue' \in Seq(Event) /\ eventClock' \in 0 .. MaxTick
    BY <1>1, <1>3 DEF Inv, TypeOK
  <2>. QED  BY <1>1, <2>1, <2>2, Zenon DEF TypeOK
<1>5. HostOK'
  BY <1>1 DEF Inv, HostOK
<1>6. PlacesOK'
  BY <1>1 DEF PlacesOK
<1>7. ClockOK'
  BY <1>1, <1>2, <1>3 DEF Inv, HostOK, ClockOK
<1>8. StatesOK'
  BY <1>1, <1>2 DEF StatesOK
<1>9. StatesConserved'
  <2>. SUFFICES ASSUME fifo, NEW e \in emitted, e.kind = "state"
                PROVE  e \in Elements(network') \/ e.clock \in FiredStates'
    BY <1>1 DEF StatesConserved
  <2>1. Elements(fired') = Elements(fired) \cup {f \in Elements(q) : f.kind # "handled"}
    BY DEF ProcessFact
  <2>2. CASE e.clock \in FiredStates
    BY <2>1, <2>2 DEF FiredStates
  <2>3. CASE e \in Elements(q)
    <3>1. e \in Elements(fired')
      BY <2>1, <2>3
    <3>. QED  BY <3>1 DEF FiredStates
  <2>4. e \in Elements(network) \cup Elements(eventQueue) \/ e.clock \in FiredStates
    BY DEF Inv, StatesConserved
  <2>. QED  BY <2>2, <2>3, <2>4
<1>. QED  BY <1>4, <1>5, <1>6, <1>7, <1>8, <1>9 DEF Inv

\* The timer processes the queue.
LEMMA TimerKeepsInv ==
    ASSUME Inv, TimerFires
    PROVE  Inv' /\ ProcessFact(eventQueue)
<1>1. timer /\ ProcessQueue(eventQueue) /\ UNCHANGED hostVars /\ network' = network
  BY DEF TimerFires
<1>2. eventQueue \in Seq(Event) /\ eventQueue # <<>> /\ fired \in Seq(Event) /\ network \in Seq(Event)
  BY <1>1 DEF Inv, TypeOK, ClockOK
<1>3. ProcessFact(eventQueue)
  BY <1>1, <1>2, QueueProcessed
<1>4. /\ network' \in Seq(Event)
      /\ \A k \in 1 .. Len(eventQueue) : eventQueue[k] \in emitted
      /\ \A k \in 1 .. Len(network') : /\ network'[k] \in emitted
                                       /\ \A j \in 1 .. Len(eventQueue) : network'[k].clock # eventQueue[j].clock
      /\ \A k, l \in 1 .. Len(network') : network'[k].clock = network'[l].clock => k = l
      /\ Elements(network) \cup Elements(eventQueue) = Elements(network') \cup Elements(eventQueue)
  BY <1>1, <1>2 DEF Inv, PlacesOK
<1>5. fifo => \A k \in 1 .. Len(network') : network'[k].kind = "state" =>
               /\ \A j \in 1 .. Len(network') : j < k => network'[j].clock < network'[k].clock
               /\ \A j \in 1 .. Len(eventQueue) : eventQueue[j].clock < network'[k].clock
  BY <1>1 DEF Inv, StatesOK
<1>. QED  BY <1>1, <1>2, <1>3, <1>4, <1>5, ProcessKeepsInv

\* The queue together with the event x.
LEMMA QueueAndEvent ==
    ASSUME Inv, NEW x \in Event
    PROVE  AppendFact(Event, eventQueue, x, Append(eventQueue, x))
<1>1. eventQueue \in Seq(Event)
  BY DEF Inv, TypeOK
<1>. QED  BY <1>1, Appended

\* The next event is processed together with the queue.
LEMMA NextKeepsInv ==
    ASSUME Inv, NEW x \in Event, TakenFact(x), NextEvent(x), UNCHANGED hostVars
    PROVE  Inv' /\ ProcessFact(Append(eventQueue, x))
<1>1. PICK q \in Seq(Event) : q = Append(eventQueue, x) /\ AppendFact(Event, eventQueue, x, q)
  BY QueueAndEvent DEF AppendFact
<1>2. ProcessQueue(q) /\ fired \in Seq(Event) /\ q # <<>>
  <2>1. ProcessQueue(q) /\ fired \in Seq(Event)
    BY <1>1 DEF NextEvent, Inv, TypeOK
  <2>2. Len(q) # 0
    BY <1>1 DEF AppendFact
  <2>. QED  BY <2>1, <2>2
<1>3. ProcessFact(q)
  BY <1>2, QueueProcessed
<1>4. \A k \in 1 .. Len(q) : q[k] = x \/ \E j \in 1 .. Len(eventQueue) : q[k] = eventQueue[j]
  BY <1>1 DEF AppendFact
<1>5. \A k \in 1 .. Len(q) : q[k] \in emitted
  BY <1>4 DEF TakenFact, Inv, PlacesOK
<1>6. ASSUME NEW k \in 1 .. Len(network')
      PROVE  network'[k] \in emitted /\ \A j \in 1 .. Len(q) : network'[k].clock # q[j].clock
  <2>1. /\ network'[k] \in emitted /\ network'[k].clock # x.clock
        /\ \A j \in 1 .. Len(eventQueue) : network'[k].clock # eventQueue[j].clock
    BY DEF TakenFact
  <2>. QED  BY <1>4, <2>1
<1>7. ASSUME fifo, NEW k \in 1 .. Len(network'), network'[k].kind = "state"
      PROVE  /\ \A j \in 1 .. Len(network') : j < k => network'[j].clock < network'[k].clock
             /\ \A j \in 1 .. Len(q) : q[j].clock < network'[k].clock
  <2>1. /\ network'[k].clock > x.clock
        /\ \A j \in 1 .. Len(network') : j < k => network'[j].clock < network'[k].clock
        /\ \A j \in 1 .. Len(eventQueue) : eventQueue[j].clock < network'[k].clock
    BY <1>7 DEF TakenFact
  <2>2. x.clock \in Nat /\ network'[k].clock \in Nat
    BY EventsAre DEF TakenFact
  <2>3. x.clock < network'[k].clock
    BY <2>1, <2>2
  <2>. QED  BY <1>4, <2>1, <2>3
<1>8. Elements(network) \cup Elements(eventQueue) = Elements(network') \cup Elements(q)
  <2>1. Elements(q) = Elements(eventQueue) \cup {x}
    BY <1>1 DEF AppendFact
  <2>2. Elements(network) = Elements(network') \cup {x}
    BY DEF TakenFact
  <2>. QED  BY <2>1, <2>2
<1>9. /\ network' \in Seq(Event)
      /\ \A k, l \in 1 .. Len(network') : network'[k].clock = network'[l].clock => k = l
  BY DEF TakenFact
<1>10. Inv'
  BY <1>3, <1>5, <1>6, <1>7, <1>8, <1>9, ProcessKeepsInv
<1>. QED  BY <1>1, <1>3, <1>10

\* A late event: a message is emitted, a state change forgotten.
LEMMA LateKeepsInv ==
    ASSUME Inv, NEW x \in Event, TakenFact(x), LateEvent(x), UNCHANGED hostVars
    PROVE  Inv'
<1>1. /\ fifo' = fifo /\ tick' = tick /\ handling' = handling /\ emitted' = emitted
      /\ UNCHANGED <<eventClock, eventQueue, timer>>
      /\ x.clock < eventClock /\ fired' = IF x.kind = "state" THEN fired ELSE Append(fired, x)
  BY DEF hostVars, LateEvent
<1>2. /\ fired' \in Seq(Event) /\ Elements(fired) \subseteq Elements(fired')
      /\ network' \in Seq(Event) /\ Elements(network) = Elements(network') \cup {x}
  <2>1. fired \in Seq(Event)
    BY DEF Inv, TypeOK
  <2>2. AppendFact(Event, fired, x, Append(fired, x))
    BY <2>1, Appended
  <2>. QED  BY <1>1, <2>1, <2>2 DEF AppendFact, TakenFact
<1>3. TypeOK'
  BY <1>1, <1>2 DEF Inv, TypeOK
<1>4. HostOK'
  BY <1>1 DEF Inv, HostOK
<1>5. PlacesOK'
  BY <1>1 DEF Inv, PlacesOK, TakenFact
<1>6. ClockOK'
  BY <1>1 DEF Inv, ClockOK, TakenFact
<1>7. StatesOK'
  BY <1>1 DEF StatesOK, TakenFact
<1>8. StatesConserved'
  <2>. SUFFICES ASSUME fifo, NEW e \in emitted, e.kind = "state"
                PROVE  e \in Elements(network') \cup Elements(eventQueue) \/ e.clock \in FiredStates'
    BY <1>1 DEF StatesConserved
  <2>1. x.kind # "state"
    <3>1. x.clock \in Nat /\ eventClock \in Nat
      BY EventsAre DEF Inv, TypeOK
    <3>. QED  BY <1>1, <3>1 DEF TakenFact
  <2>2. e.clock \in FiredStates => e.clock \in FiredStates'
    BY <1>2 DEF FiredStates
  <2>3. e \in Elements(network) \cup Elements(eventQueue) \/ e.clock \in FiredStates
    BY DEF Inv, StatesConserved
  <2>. QED  BY <1>2, <2>1, <2>2, <2>3
<1>. QED  BY <1>3, <1>4, <1>5, <1>6, <1>7, <1>8 DEF Inv

\* An event that is not next joins the queue.
LEMMA DeferKeepsInv ==
    ASSUME Inv, NEW x \in Event, TakenFact(x), DeferEvent(x), UNCHANGED hostVars
    PROVE  Inv'
<1>1. /\ fifo' = fifo /\ tick' = tick /\ handling' = handling /\ emitted' = emitted
      /\ UNCHANGED <<eventClock, fired>> /\ timer' = TRUE
      /\ x.clock >= eventClock /\ eventQueue' = Append(eventQueue, x)
  BY DEF hostVars, DeferEvent
<1>2. AppendFact(Event, eventQueue, x, eventQueue')
  BY <1>1, QueueAndEvent
<1>3. x.clock \in Nat /\ eventClock \in Nat /\ x.clock > eventClock
  BY <1>1, EventsAre DEF TakenFact, Inv, TypeOK
<1>4. TypeOK'
  <2>1. timer' \in BOOLEAN /\ fifo' \in BOOLEAN
    BY <1>1, Zenon DEF Inv, TypeOK
  <2>2. /\ tick' \in 0 .. MaxTick /\ handling' \in Seq(1 .. MaxTick) /\ emitted' \subseteq Event
        /\ eventQueue' \in Seq(Event) /\ eventClock' \in 0 .. MaxTick
        /\ fired' \in Seq(Event) /\ network' \in Seq(Event)
    BY <1>1, <1>2 DEF Inv, TypeOK, AppendFact, TakenFact
  <2>. QED  BY <2>1, <2>2, Zenon DEF TypeOK
<1>5. HostOK'
  BY <1>1 DEF Inv, HostOK
<1>6. \A k \in 1 .. Len(eventQueue') :
         eventQueue'[k] = x \/ (k \in 1 .. Len(eventQueue) /\ eventQueue'[k] = eventQueue[k])
  BY <1>2 DEF AppendFact
<1>7. PlacesOK'
  <2>1. /\ \A k \in 1 .. Len(network') : network'[k] \in emitted'
        /\ \A k, l \in 1 .. Len(network') : network'[k].clock = network'[l].clock => k = l
    BY <1>1 DEF TakenFact
  <2>2. \A k \in 1 .. Len(eventQueue') : eventQueue'[k] \in emitted'
    BY <1>1, <1>6 DEF TakenFact, Inv, PlacesOK
  <2>3. \A k, l \in 1 .. Len(eventQueue') : eventQueue'[k].clock = eventQueue'[l].clock => k = l
    <3>1. \A k \in 1 .. Len(eventQueue) : eventQueue[k].clock # x.clock
      BY DEF TakenFact
    <3>2. \A k, l \in 1 .. Len(eventQueue) : eventQueue[k].clock = eventQueue[l].clock => k = l
      BY DEF Inv, PlacesOK
    <3>. QED  BY <1>2, <3>1, <3>2 DEF AppendFact
  <2>4. \A k \in 1 .. Len(network'), j \in 1 .. Len(eventQueue') : network'[k].clock # eventQueue'[j].clock
    <3>1. ASSUME NEW k \in 1 .. Len(network')
          PROVE  /\ network'[k].clock # x.clock
                 /\ \A j \in 1 .. Len(eventQueue) : network'[k].clock # eventQueue[j].clock
      BY DEF TakenFact
    <3>. QED  BY <1>6, <3>1
  <2>. QED  BY <2>1, <2>2, <2>3, <2>4 DEF PlacesOK
<1>8. ClockOK'
  <2>1. eventQueue' # <<>>
    <3>1. Len(eventQueue') # 0
      BY <1>2 DEF AppendFact
    <3>. QED  BY <3>1
  <2>2. \A k \in 1 .. Len(eventQueue') : eventQueue'[k].clock > eventClock
    BY <1>3, <1>6 DEF Inv, ClockOK
  <2>3. \A k \in 1 .. Len(network') : network'[k].clock # eventClock
    BY DEF TakenFact
  <2>. QED  BY <1>1, <2>1, <2>2, <2>3 DEF Inv, ClockOK
<1>9. StatesOK'
  <2>. SUFFICES ASSUME fifo, NEW k \in 1 .. Len(network'), network'[k].kind = "state"
                PROVE  /\ network'[k].clock > eventClock
                       /\ \A j \in 1 .. Len(network') : j < k => network'[j].clock < network'[k].clock
                       /\ \A j \in 1 .. Len(eventQueue') : eventQueue'[j].clock < network'[k].clock
    BY <1>1 DEF StatesOK
  <2>1. /\ network'[k].clock > eventClock /\ network'[k].clock > x.clock
        /\ \A j \in 1 .. Len(network') : j < k => network'[j].clock < network'[k].clock
        /\ \A j \in 1 .. Len(eventQueue) : eventQueue[j].clock < network'[k].clock
    BY DEF TakenFact
  <2>2. network'[k].clock \in Nat
    BY EventsAre DEF TakenFact
  <2>3. x.clock < network'[k].clock
    BY <1>3, <2>1, <2>2
  <2>. QED  BY <1>6, <2>1, <2>3
<1>10. StatesConserved'
  <2>1. Elements(eventQueue') = Elements(eventQueue) \cup {x}
    BY <1>2 DEF AppendFact
  <2>2. Elements(network) = Elements(network') \cup {x}
    BY DEF TakenFact
  <2>3. FiredStates' = FiredStates
    BY <1>1 DEF FiredStates, Elements
  <2>. QED  BY <1>1, <2>1, <2>2, <2>3 DEF Inv, StatesConserved
<1>. QED  BY <1>4, <1>5, <1>7, <1>8, <1>9, <1>10 DEF Inv

\* An event is received.
LEMMA ReceiveKeepsInv ==
    ASSUME Inv, NEW i \in 1 .. Len(network), ReceiveEvent(i)
    PROVE  Inv'
<1>1. PICK x \in Event : x = network[i]
  BY DEF Inv, TypeOK
<1>2. TakenFact(x) /\ (LateEvent(x) \/ NextEvent(x) \/ DeferEvent(x)) /\ UNCHANGED hostVars
  BY <1>1, EventTaken DEF ReceiveEvent, AddToEventQueue
<1>. QED  BY <1>2, LateKeepsInv, NextKeepsInv, DeferKeepsInv

\* Before the first event the invariant holds.
LEMMA InitInv == Init => Inv
<1>. SUFFICES ASSUME Init PROVE Inv
  OBVIOUS
<1>1. /\ tick = 0 /\ handling = <<>> /\ emitted = {} /\ network = <<>>
      /\ eventClock = 0 /\ eventQueue = <<>> /\ fired = <<>>
  BY DEF Init
<1>2. fifo \in BOOLEAN /\ timer \in BOOLEAN /\ ~timer
  BY Zenon DEF Init
<1>3. TypeOK
  <2>1. /\ tick \in 0 .. MaxTick /\ handling \in Seq(1 .. MaxTick) /\ emitted \subseteq Event
        /\ network \in Seq(Event) /\ eventQueue \in Seq(Event) /\ fired \in Seq(Event)
        /\ eventClock \in 0 .. MaxTick
    BY <1>1, QueueAssumption
  <2>. QED  BY <1>2, <2>1, Zenon DEF TypeOK
<1>4. HostOK /\ PlacesOK /\ StatesOK /\ StatesConserved
  BY <1>1 DEF HostOK, PlacesOK, StatesOK, StatesConserved
<1>5. ClockOK
  BY <1>1, <1>2 DEF ClockOK
<1>. QED  BY <1>3, <1>4, <1>5 DEF Inv

\* Every step keeps the invariant.
LEMMA NextInv == Inv /\ [Next]_vars => Inv'
<1>. SUFFICES ASSUME Inv, [Next]_vars PROVE Inv'
  OBVIOUS
<1>1. CASE UNCHANGED vars
  <2>1. TypeOK' /\ HostOK' /\ PlacesOK' /\ ClockOK' /\ StatesOK'
    BY <1>1 DEF vars, Inv, TypeOK, HostOK, PlacesOK, ClockOK, StatesOK
  <2>2. StatesConserved'
    BY <1>1 DEF vars, Inv, StatesConserved, FiredStates, Elements
  <2>. QED  BY <2>1, <2>2 DEF Inv
<1>2. ASSUME NEW kind \in {"state", "message"}, EmitEvent(kind) PROVE Inv'
  BY <1>2, EmitKeepsInv
<1>3. ASSUME NEW kind \in {"message", "handled"}, CommHandled(kind) PROVE Inv'
  BY <1>3, CommHandledKeepsInv
<1>4. ASSUME NEW i \in 1 .. Len(network), ReceiveEvent(i) PROVE Inv'
  BY <1>4, ReceiveKeepsInv
<1>. QED
  BY <1>1, <1>2, <1>3, <1>4, CommMessageKeepsInv, HandlerThrowsKeepsInv, TimerKeepsInv DEF Next

\* The invariant of the connection and of the adapter's queue.
THEOREM QueueInvariant == Spec => []Inv
<1>. QED  BY InitInv, NextInv, PTL DEF Spec

\* Over a connection that keeps the order, addToEventQueue and
\* processEventQueue lose no state change, whatever comm handlers do.
THEOREM NoStateLost == Spec => []StatesConserved
<1>1. Inv => StatesConserved
  BY DEF Inv
<1>. QED  BY <1>1, QueueInvariant, PTL

-----------------------------------------------------------------------------
(* The refinement.                                                         *)

\* Nothing has happened yet.
LEMMA InitDelivers == Init => Delivery!Init
<1>. SUFFICES ASSUME Init PROVE Delivery!Init
  OBVIOUS
<1>1. /\ tick = 0 /\ handling = <<>> /\ emitted = {} /\ network = <<>>
      /\ eventClock = 0 /\ eventQueue = <<>> /\ fired = <<>>
  BY DEF Init
<1>2. Elements(<<>>) = {}
  BY DEF Elements
<1>3. LastState(fired) = 0
  <2>1. fired \in Seq(Event) /\ \A j \in 1 .. Len(fired) : fired[j].kind # "state"
    BY <1>1
  <2>. QED  BY <2>1, LastStateNone
<1>. QED  BY <1>1, <1>2, <1>3 DEF Delivery!Init

\* Sending an event adds it to what is in transit.
LEMMA SendDelivers ==
    ASSUME Inv, NEW n \in 1 .. MaxTick, NEW kind \in Kinds, Send(n, kind)
    PROVE  Delivery!Send(n, kind)
<1>1. PICK x \in Event : x = [clock |-> n, kind |-> kind]
  BY DEF Event
<1>2. /\ emitted' = emitted \cup {x} /\ network' = Append(network, x)
      /\ UNCHANGED <<eventClock, eventQueue, fired>>
  BY <1>1 DEF Send
<1>3. network \in Seq(Event)
  BY DEF Inv, TypeOK
<1>4. AppendFact(Event, network, x, network')
  BY <1>2, <1>3, Appended, Zenon
<1>5. Elements(network') = Elements(network) \cup {x}
  BY <1>4 DEF AppendFact
<1>6. Elements(network') \cup Elements(eventQueue') = (Elements(network) \cup Elements(eventQueue)) \cup {x}
  BY <1>2, <1>5
<1>7. LastState(fired') = LastState(fired) /\ Elements(fired') = Elements(fired)
  BY <1>2
<1>. QED  BY <1>1, <1>2, <1>6, <1>7 DEF Delivery!Send

\* An event is numbered and sent.
LEMMA EmitDelivers ==
    ASSUME Inv, NEW kind \in {"state", "message"}, EmitEvent(kind)
    PROVE  Delivery!Emit(kind)
<1>1. tick < MaxTick /\ tick' = tick + 1 /\ Send(tick + 1, kind) /\ handling' = handling
  BY DEF EmitEvent
<1>2. tick + 1 \in 1 .. MaxTick /\ kind \in Kinds
  BY <1>1, QueueAssumption DEF Inv, TypeOK, Kinds
<1>3. Delivery!Send(tick + 1, kind)
  BY <1>1, <1>2, SendDelivers
<1>4. Elements(handling') = Elements(handling)
  BY <1>1
<1>. QED  BY <1>1, <1>3, <1>4 DEF Delivery!Emit

\* A comm message is numbered.
LEMMA CommMessageDelivers ==
    ASSUME Inv, CommMessage
    PROVE  Delivery!Open
<1>1. /\ tick < MaxTick /\ tick' = tick + 1 /\ handling' = Append(handling, tick + 1)
      /\ UNCHANGED <<fifo, emitted, network, eventClock, eventQueue, timer, fired>>
  BY DEF CommMessage
<1>2. tick + 1 \in 1 .. MaxTick /\ handling \in Seq(1 .. MaxTick)
  BY <1>1, QueueAssumption DEF Inv, TypeOK
<1>3. AppendFact(1 .. MaxTick, handling, tick + 1, handling')
  BY <1>1, <1>2, Appended
<1>4. Elements(handling') = Elements(handling) \cup {tick + 1}
  BY <1>3 DEF AppendFact
<1>5. /\ Elements(network') = Elements(network) /\ Elements(eventQueue') = Elements(eventQueue)
      /\ Elements(fired') = Elements(fired) /\ LastState(fired') = LastState(fired)
  BY <1>1
<1>. QED  BY <1>1, <1>4, <1>5 DEF Delivery!Open

\* The last message being dispatched is pending.
LEMMA PoppedHandling ==
    ASSUME Inv, handling # <<>>, handling' = SubSeq(handling, 1, Len(handling) - 1)
    PROVE  /\ handling[Len(handling)] \in 1 .. MaxTick
           /\ handling[Len(handling)] \in Elements(handling)
           /\ Elements(handling') = Elements(handling) \ {handling[Len(handling)]}
<1>1. handling \in Seq(1 .. MaxTick) /\ \A i, j \in 1 .. Len(handling) : handling[i] = handling[j] => i = j
  BY DEF Inv, TypeOK, HostOK
<1>2. PopFact(1 .. MaxTick, handling, handling')
  BY <1>1, Popped
<1>. QED  BY <1>2 DEF PopFact, Elements

\* It is sent.
LEMMA CommHandledDelivers ==
    ASSUME Inv, NEW kind \in {"message", "handled"}, CommHandled(kind)
    PROVE  \E n \in Elements(handling) : Delivery!Close(n, kind)
<1>1. /\ handling # <<>> /\ handling' = SubSeq(handling, 1, Len(handling) - 1)
      /\ Send(handling[Len(handling)], kind) /\ tick' = tick
  BY DEF CommHandled
<1>2. PICK n \in 1 .. MaxTick : /\ n = handling[Len(handling)] /\ n \in Elements(handling)
                                /\ Elements(handling') = Elements(handling) \ {n}
  BY <1>1, PoppedHandling
<1>3. Delivery!Send(n, kind)
  BY <1>1, <1>2, SendDelivers DEF Kinds
<1>4. Delivery!Close(n, kind)
  BY <1>1, <1>2, <1>3 DEF Delivery!Close
<1>. QED  BY <1>2, <1>4

\* It is given up.
LEMMA HandlerThrowsDelivers ==
    ASSUME Inv, HandlerThrows
    PROVE  \E n \in Elements(handling) : Delivery!Abandon(n)
<1>1. /\ handling # <<>> /\ handling' = SubSeq(handling, 1, Len(handling) - 1)
      /\ UNCHANGED <<fifo, tick, emitted, network, eventClock, eventQueue, timer, fired>>
  BY DEF HandlerThrows
<1>2. PICK n \in 1 .. MaxTick : /\ n = handling[Len(handling)] /\ n \in Elements(handling)
                                /\ Elements(handling') = Elements(handling) \ {n}
  BY <1>1, PoppedHandling
<1>3. /\ Elements(network') = Elements(network) /\ Elements(eventQueue') = Elements(eventQueue)
      /\ Elements(fired') = Elements(fired) /\ LastState(fired') = LastState(fired)
  BY <1>1
<1>4. Delivery!Abandon(n)
  BY <1>1, <1>2, <1>3 DEF Delivery!Abandon
<1>. QED  BY <1>2, <1>4

\* Processing a queue of events from behind the event clock delivers a batch.
LEMMA ProcessDelivers ==
    ASSUME Inv, NEW q \in Seq(Event), q # <<>>, ProcessFact(q), UNCHANGED hostVars,
           \A k \in 1 .. Len(q) : q[k].clock > eventClock,
           Elements(network) \cup Elements(eventQueue) = Elements(network') \cup Elements(q),
           Elements(network') \cap Elements(q) = {}
    PROVE  \E batch \in SUBSET (Elements(network) \cup Elements(eventQueue)) : Delivery!Deliver(batch)
<1>. DEFINE batch == Elements(q)
<1>1. batch \in SUBSET (Elements(network) \cup Elements(eventQueue))
  OBVIOUS
<1>2. \A e \in batch : \E k \in 1 .. Len(q) : e = q[k]
  BY DEF Elements
<1>3. \A k \in 1 .. Len(q) : q[k] \in batch
  BY DEF Elements
<1>4. batch # {}
  BY <1>3 DEF ProcessFact
<1>5. \A e \in batch : e.clock > eventClock
  BY <1>2
<1>6. eventClock' \in {e.clock : e \in batch}
  BY <1>3 DEF ProcessFact
<1>7. \A e \in batch : e.clock <= eventClock'
  BY <1>2 DEF ProcessFact
<1>8. /\ tick' = tick /\ emitted' = emitted /\ Elements(handling') = Elements(handling)
      /\ Elements(eventQueue') = {}
  BY DEF hostVars, ProcessFact, Elements
<1>9. Elements(network') \cup Elements(eventQueue') = (Elements(network) \cup Elements(eventQueue)) \ batch
  BY <1>8
<1>10. ASSUME NEW e \in batch PROVE e.kind \in {"state", "message", "handled"}
  BY <1>2, EventsAre DEF Kinds
<1>11. {e \in Elements(fired') : e.kind # "state"}
         = {e \in Elements(fired) : e.kind # "state"} \cup {e \in batch : e.kind = "message"}
  <2>1. Elements(fired') = Elements(fired) \cup {e \in batch : e.kind # "handled"}
    BY DEF ProcessFact
  <2>. HIDE DEF batch
  <2>. QED  BY <1>10, <2>1
<1>12. IF Delivery!StateClocks(batch) = {}
       THEN LastState(fired') = LastState(fired)
       ELSE /\ LastState(fired') \in Delivery!StateClocks(batch)
            /\ \A n \in Delivery!StateClocks(batch) : n <= LastState(fired')
  <2>1. \A n : n \in Delivery!StateClocks(batch) <=> \E k \in 1 .. Len(q) : q[k].kind = "state" /\ n = q[k].clock
    BY <1>2, <1>3 DEF Delivery!StateClocks
  <2>2. CASE \A k \in 1 .. Len(q) : q[k].kind # "state"
    <3>1. Delivery!StateClocks(batch) = {}
      BY <2>1, <2>2
    <3>2. LastState(fired') = LastState(fired)
      BY <2>2 DEF ProcessFact
    <3>. QED  BY <3>1, <3>2
  <2>3. CASE \E k \in 1 .. Len(q) : q[k].kind = "state"
    <3>1. /\ \E k \in 1 .. Len(q) : q[k].kind = "state" /\ LastState(fired') = q[k].clock
          /\ \A k \in 1 .. Len(q) : q[k].kind = "state" => q[k].clock <= LastState(fired')
      BY <2>3 DEF ProcessFact
    <3>2. PICK k \in 1 .. Len(q) : q[k].kind = "state" /\ LastState(fired') = q[k].clock
      BY <3>1
    <3>3. LastState(fired') \in Delivery!StateClocks(batch)
      BY <2>1, <3>2, Zenon
    <3>4. ASSUME NEW n \in Delivery!StateClocks(batch) PROVE n <= LastState(fired')
      <4>1. PICK m \in 1 .. Len(q) : q[m].kind = "state" /\ n = q[m].clock
        BY <2>1, <3>4, Zenon
      <4>. QED  BY <3>1, <4>1
    <3>5. Delivery!StateClocks(batch) # {}
      BY <3>3, Zenon
    <3>. QED  BY <3>3, <3>4, <3>5, Zenon
  <2>. QED  BY <2>2, <2>3
<1>. HIDE DEF batch
<1>13. Delivery!Adopt(batch)
  BY <1>12 DEF Delivery!Adopt
<1>14. Delivery!Deliver(batch)
  BY <1>4, <1>5, <1>6, <1>7, <1>8, <1>9, <1>11, <1>13 DEF Delivery!Deliver
<1>. QED  BY <1>1, <1>14

\* The timer hands over the queue.
LEMMA TimerDelivers ==
    ASSUME Inv, TimerFires
    PROVE  \E batch \in SUBSET (Elements(network) \cup Elements(eventQueue)) : Delivery!Deliver(batch)
<1>1. timer /\ UNCHANGED hostVars /\ network' = network
  BY DEF TimerFires
<1>2. eventQueue \in Seq(Event) /\ eventQueue # <<>> /\ \A k \in 1 .. Len(eventQueue) : eventQueue[k].clock > eventClock
  BY <1>1 DEF Inv, TypeOK, ClockOK
<1>3. ProcessFact(eventQueue)
  BY TimerKeepsInv
<1>4. Elements(network') \cap Elements(eventQueue) = {}
  <2>1. \A i \in 1 .. Len(network), j \in 1 .. Len(eventQueue) : network[i].clock # eventQueue[j].clock
    BY DEF Inv, PlacesOK
  <2>2. Elements(network) \cap Elements(eventQueue) = {}
    BY <2>1 DEF Elements
  <2>. QED  BY <1>1, <2>2
<1>5. Elements(network) \cup Elements(eventQueue) = Elements(network') \cup Elements(eventQueue)
  BY <1>1
<1>. QED  BY <1>1, <1>2, <1>3, <1>4, <1>5, ProcessDelivers

\* The next event is handed over with the queue.
LEMMA NextDelivers ==
    ASSUME Inv, NEW x \in Event, TakenFact(x), NextEvent(x), UNCHANGED hostVars
    PROVE  \E batch \in SUBSET (Elements(network) \cup Elements(eventQueue)) : Delivery!Deliver(batch)
<1>1. PICK q \in Seq(Event) : q = Append(eventQueue, x) /\ AppendFact(Event, eventQueue, x, q)
  BY QueueAndEvent DEF AppendFact
<1>2. ProcessFact(q)
  BY <1>1, NextKeepsInv
<1>3. q # <<>>
  <2>1. Len(q) # 0
    BY <1>1 DEF AppendFact
  <2>. QED  BY <2>1
<1>4. \A k \in 1 .. Len(q) : q[k] = x \/ \E j \in 1 .. Len(eventQueue) : q[k] = eventQueue[j]
  BY <1>1 DEF AppendFact
<1>5. x.clock > eventClock
  <2>1. x.clock \in Nat /\ eventClock \in Nat
    BY EventsAre DEF Inv, TypeOK
  <2>2. x.clock >= eventClock /\ x.clock # eventClock
    BY DEF NextEvent, TakenFact
  <2>. QED  BY <2>1, <2>2
<1>6. \A k \in 1 .. Len(q) : q[k].clock > eventClock
  BY <1>4, <1>5 DEF Inv, ClockOK
<1>7. Elements(network) \cup Elements(eventQueue) = Elements(network') \cup Elements(q)
  <2>1. Elements(q) = Elements(eventQueue) \cup {x}
    BY <1>1 DEF AppendFact
  <2>2. Elements(network) = Elements(network') \cup {x}
    BY DEF TakenFact
  <2>. QED  BY <2>1, <2>2
<1>8. Elements(network') \cap Elements(q) = {}
  <2>1. ASSUME NEW k \in 1 .. Len(network'), NEW j \in 1 .. Len(q) PROVE network'[k].clock # q[j].clock
    <3>1. /\ network'[k].clock # x.clock
          /\ \A m \in 1 .. Len(eventQueue) : network'[k].clock # eventQueue[m].clock
      BY DEF TakenFact
    <3>. QED  BY <1>4, <3>1
  <2>. QED  BY <2>1 DEF Elements
<1>. QED  BY <1>2, <1>3, <1>6, <1>7, <1>8, ProcessDelivers

\* A late event is shown or forgotten.
LEMMA LateDelivers ==
    ASSUME Inv, NEW x \in Event, TakenFact(x), LateEvent(x), UNCHANGED hostVars
    PROVE  x \in Elements(network) \cup Elements(eventQueue) /\ Delivery!Late(x)
<1>1. /\ tick' = tick /\ handling' = handling /\ emitted' = emitted
      /\ eventClock' = eventClock /\ eventQueue' = eventQueue
      /\ x.clock < eventClock /\ fired' = IF x.kind = "state" THEN fired ELSE Append(fired, x)
  BY DEF hostVars, LateEvent
<1>2. fired \in Seq(Event)
  BY DEF Inv, TypeOK
<1>3. Elements(network) = Elements(network') \cup {x}
  BY DEF TakenFact
<1>4. x \notin Elements(network') \cup Elements(eventQueue)
  <2>1. \A k \in 1 .. Len(network') : network'[k].clock # x.clock
    BY DEF TakenFact
  <2>2. \A k \in 1 .. Len(eventQueue) : x.clock # eventQueue[k].clock
    BY DEF TakenFact
  <2>. QED  BY <2>1, <2>2 DEF Elements
<1>5. Elements(network') \cup Elements(eventQueue') = (Elements(network) \cup Elements(eventQueue)) \ {x}
  BY <1>1, <1>3, <1>4
<1>6. /\ {e \in Elements(fired') : e.kind # "state"}
           = IF x.kind = "state" THEN {e \in Elements(fired) : e.kind # "state"}
             ELSE {e \in Elements(fired) : e.kind # "state"} \cup {x}
      /\ LastState(fired') = LastState(fired)
  <2>1. CASE x.kind = "state"
    BY <1>1, <2>1
  <2>2. CASE x.kind # "state"
    <3>1. fired' = Append(fired, x)
      BY <1>1, <2>2
    <3>2. AppendFact(Event, fired, x, fired')
      BY <1>2, <3>1, Appended
    <3>3. {e \in Elements(fired') : e.kind # "state"} = {e \in Elements(fired) : e.kind # "state"} \cup {x}
      BY <2>2, <3>2 DEF AppendFact
    <3>4. StateFact(fired, <<x>>, fired \o <<x>>)
      <4>1. /\ <<x>> \in Seq(Event)
            /\ \A k, l \in 1 .. Len(<<x>>) : k < l => <<x>>[k].clock <= <<x>>[l].clock
        OBVIOUS
      <4>. QED  BY <1>2, <4>1, LastStateAfter
    <3>5. \A k \in 1 .. Len(<<x>>) : <<x>>[k].kind # "state"
      BY <2>2
    <3>6. fired' = fired \o <<x>>
      BY <1>2, <3>1
    <3>7. LastState(fired \o <<x>>) = LastState(fired)
      BY <3>4, <3>5 DEF StateFact
    <3>. QED  BY <2>2, <3>3, <3>6, <3>7
  <2>. QED  BY <2>1, <2>2
<1>7. Elements(handling') = Elements(handling)
  BY <1>1
<1>8. Delivery!Late(x)
  BY <1>1, <1>5, <1>6, <1>7 DEF Delivery!Late
<1>. QED  BY <1>3, <1>8

\* A deferred event stays in transit: the abstract state is unchanged.
LEMMA DeferDelivers ==
    ASSUME Inv, NEW x \in Event, TakenFact(x), DeferEvent(x), UNCHANGED hostVars
    PROVE  UNCHANGED Delivery!vars
<1>1. /\ tick' = tick /\ handling' = handling /\ emitted' = emitted
      /\ eventClock' = eventClock /\ fired' = fired /\ eventQueue' = Append(eventQueue, x)
  BY DEF hostVars, DeferEvent
<1>2. AppendFact(Event, eventQueue, x, eventQueue')
  BY <1>1, QueueAndEvent
<1>3. Elements(network') \cup Elements(eventQueue') = Elements(network) \cup Elements(eventQueue)
  <2>1. Elements(eventQueue') = Elements(eventQueue) \cup {x}
    BY <1>2 DEF AppendFact
  <2>2. Elements(network) = Elements(network') \cup {x}
    BY DEF TakenFact
  <2>. QED  BY <2>1, <2>2
<1>4. /\ Elements(fired') = Elements(fired) /\ LastState(fired') = LastState(fired)
      /\ Elements(handling') = Elements(handling)
  BY <1>1
<1>. QED  BY <1>1, <1>3, <1>4 DEF Delivery!vars

\* Every step of the queue is a step of EventDelivery or changes nothing there.
LEMMA NextRefines == Inv /\ [Next]_vars => [Delivery!Next]_(Delivery!vars)
<1>. SUFFICES ASSUME Inv, [Next]_vars PROVE Delivery!Next \/ UNCHANGED Delivery!vars
  OBVIOUS
<1>1. CASE UNCHANGED vars
  <2>1. /\ tick' = tick /\ handling' = handling /\ emitted' = emitted /\ network' = network
        /\ eventClock' = eventClock /\ fired' = fired /\ eventQueue' = eventQueue
    BY <1>1 DEF vars
  <2>2. /\ Elements(fired') = Elements(fired) /\ LastState(fired') = LastState(fired)
        /\ Elements(handling') = Elements(handling)
        /\ Elements(network') \cup Elements(eventQueue') = Elements(network) \cup Elements(eventQueue)
    BY <2>1
  <2>. QED  BY <2>1, <2>2 DEF Delivery!vars
<1>2. ASSUME NEW kind \in {"state", "message"}, EmitEvent(kind) PROVE Delivery!Next
  BY <1>2, EmitDelivers DEF Delivery!Next, Delivery!Kinds
<1>3. CASE CommMessage
  BY <1>3, CommMessageDelivers DEF Delivery!Next
<1>4. ASSUME NEW kind \in {"message", "handled"}, CommHandled(kind) PROVE Delivery!Next
  BY <1>4, CommHandledDelivers DEF Delivery!Next, Delivery!Kinds
<1>5. CASE HandlerThrows
  BY <1>5, HandlerThrowsDelivers DEF Delivery!Next
<1>6. ASSUME NEW i \in 1 .. Len(network), ReceiveEvent(i) PROVE Delivery!Next \/ UNCHANGED Delivery!vars
  <2>1. PICK x \in Event : x = network[i]
    BY DEF Inv, TypeOK
  <2>2. TakenFact(x) /\ (LateEvent(x) \/ NextEvent(x) \/ DeferEvent(x)) /\ UNCHANGED hostVars
    BY <1>6, <2>1, EventTaken DEF ReceiveEvent, AddToEventQueue
  <2>3. CASE LateEvent(x)
    BY <2>2, <2>3, LateDelivers DEF Delivery!Next
  <2>4. CASE NextEvent(x)
    BY <2>2, <2>4, NextDelivers DEF Delivery!Next
  <2>5. CASE DeferEvent(x)
    BY <2>2, <2>5, DeferDelivers
  <2>. QED  BY <2>2, <2>3, <2>4, <2>5
<1>7. CASE TimerFires
  BY <1>7, TimerDelivers DEF Delivery!Next
<1>. QED  BY <1>1, <1>2, <1>3, <1>4, <1>5, <1>6, <1>7 DEF Next

\* The session adapter's event queue keeps the promise of EventDelivery:
\* whatever order the connection delivers events in, whatever comm handlers do
\* and whenever the timer fires, addToEventQueue and processEventQueue hand them
\* over in ordered batches, and a state never after a newer one.
THEOREM QueueImplementsDelivery == Spec => ImplementsDelivery
<1>. QED  BY InitDelivers, NextRefines, QueueInvariant, PTL DEF Spec, Delivery!Spec, ImplementsDelivery
==============================================================================
