---------------------- MODULE NotebookExecutionProofs ----------------------
(* Proofs about NotebookExecution, for any notebook, any selections of its   *)
(* cells and any number of requests, sessions, their events and cancellations. *)
(*                                                                           *)
(* None of the invariants of the queue is inductive alone.  That a queued    *)
(* cell has its execution depends on who owns the execution: a request that  *)
(* returns completes what was never confirmed, and must not reach the cells  *)
(* of another.  That an error stops the request depends on where its other   *)
(* cells are: before the failed one they have ended, after it they are in    *)
(* the chain and nothing has happened to them.  QueueInv says so for every   *)
(* request, MapOK relates the map to the listeners and says that no session  *)
(* is known to anybody before it is started.                                 *)
(*                                                                           *)
(* The loop Kept is a recursive function, so its lemmas are by induction.    *)
(* The induction is over a set (NaturalsOf), which WFMin gives without an    *)
(* operator for the induction hypothesis.                                    *)
EXTENDS NotebookExecution, WellFoundedInduction, FiniteSetTheorems, TLAPS

-----------------------------------------------------------------------------
(* The inductive invariant. *)

\* What a request goes through before its cells are queued.
Waiting == {"resolving", "prepared", "selecting", "starting", "resolved"}

\* The cells of a request are distinct; until it queues them they are
\* unconfirmed, they are its own, and nothing has happened to them.
RequestsOK ==
    \A r \in Requests :
        /\ \A i, j \in DOMAIN request[r] : request[r][i] = request[r][j] => i = j
        /\ phase[r] \in Waiting => \A i \in DOMAIN request[r] :
              cellState[request[r][i]] = "Unconfirmed" /\ owner[request[r][i]] = r
        /\ phase[r] \in Waiting \cup {"unused"} => \A c \in Cells : fate[<<r, c>>] = "none"
        /\ phase[r] = "unused" => DOMAIN request[r] = {}

\* Until the kernel is resolved, the executions of a request are those of its
\* cells.
Owned(r, c) == \E i \in DOMAIN request[r] : request[r][i] = c
OwnedOK == \A c \in Cells : cellState[c] # "none" /\ phase[owner[c]] = "resolving" => Owned(owner[c], c)

\* The chain holds cells of requests that wait for them, each cell once, and
\* what has not been sent has no fate.
ChainOK ==
    /\ \A i, j \in DOMAIN chain : chain[i][2] = chain[j][2] => i = j
    /\ \A i \in DOMAIN chain :
        /\ phase[chain[i][1]] = "queued"
        /\ cellState[chain[i][2]] # "none"
        /\ owner[chain[i][2]] = chain[i][1]
        /\ i # 1 \/ running = None => fate[chain[i]] = "none"

\* The running execution is the head of the chain, and the pending one; its
\* cell is the only one that executes.
RunningOK ==
    /\ running # None => chain # <<>> /\ running = chain[1]
    /\ pending = running
    /\ \A e \in Executions : fate[e] = "sent" <=> e = running
    /\ \A c \in Cells : cellState[c] = "Executing" => running # None /\ running[2] = c

\* A cell has come further than "none", or is queued, only when the earlier
\* ones of its request have ended well, are deleted, or are before it in the
\* chain.
Touched(e) == fate[e] # "none" \/ \E k \in DOMAIN chain : chain[k] = e
Before(e, f) == \E k \in DOMAIN chain : chain[k] = e /\ \A l \in DOMAIN chain : chain[l] = f => k < l
OrderOK ==
    \A r \in Requests : \A i, j \in DOMAIN request[r] :
        i < j /\ Touched(<<r, request[r][j]>>) =>
            \/ fate[<<r, request[r][i]>>] \in {"ok", "skipped"}
            \/ request[r][i] \in gone
            \/ fate[<<r, request[r][j]>>] = "none" /\ Before(<<r, request[r][i]>>, <<r, request[r][j]>>)

\* The session in the map has its listeners, a request that waits for a session
\* has one, and the sessions known are among those started.
MapOK ==
    /\ kernelMap # NoSession => kernelMap \in listening
    /\ kernelMap <= started /\ live <= started
    /\ \A s \in Sessions : state[s] # "none" => s <= started
    /\ \A r \in Requests :
        /\ session[r] <= started
        /\ phase[r] \in {"starting", "resolved"} => session[r] # NoSession

\* The invariant of the queue of executions.
QueueInv == RequestsOK /\ OwnedOK /\ ChainOK /\ RunningOK /\ OrderOK /\ NothingLeftSpinning

\* The inductive invariant.
Inv == TypeOK /\ QueueInv /\ MapOK

-----------------------------------------------------------------------------
(* Induction over the naturals, for a set, and the loop Kept. *)

\* A set of naturals that is not empty has a least element.
LEMMA LeastNatural ==
    ASSUME NEW T, T \subseteq Nat, T # {}
    PROVE  \E x \in T : \A y \in T : x <= y
<1>1. \E x \in T : \A y \in T : ~ (<<y, x>> \in OpToRel(<, Nat))
  BY WFMin, NatLessThanWellFounded
<1>2. OpToRel(<, Nat) = {p \in Nat \X Nat : p[1] < p[2]}
  BY Zenon DEF OpToRel
<1>3. \E x \in T : \A y \in T : ~ (<<y, x>> \in {p \in Nat \X Nat : p[1] < p[2]})
  BY ONLY <1>1, <1>2, Zenon
<1>4. PICK x \in T : \A y \in T : ~ (<<y, x>> \in {p \in Nat \X Nat : p[1] < p[2]})
  BY ONLY <1>3
<1>5. ASSUME NEW y \in T PROVE x <= y
  <2>1. x \in Nat /\ y \in Nat
    OBVIOUS
  <2>2. ~ (<<y, x>> \in {p \in Nat \X Nat : p[1] < p[2]})
    BY <1>4
  <2>. QED  BY <2>1, <2>2
<1>. QED  BY <1>5

\* A set that holds 0 and the successors of its naturals holds all naturals.
LEMMA NaturalsOf ==
    ASSUME NEW T, 0 \in T, \A n \in Nat : n \in T => n + 1 \in T
    PROVE  Nat \subseteq T
<1>. SUFFICES ASSUME Nat \ T # {} PROVE FALSE
  OBVIOUS
<1>1. PICK x \in Nat \ T : \A y \in Nat \ T : x <= y
  BY LeastNatural
<1>2. x # 0 /\ x - 1 \in Nat /\ (x - 1) + 1 = x
  BY <1>1
<1>3. x - 1 \in T
  BY <1>1, <1>2
<1>. QED  BY <1>1, <1>2, <1>3

\* The function that Kept defines, up to n.
KeptUpTo(g, q, S, n) ==
    g = [i \in 0..n |-> IF i = 0 THEN <<>>
                        ELSE IF q[i] \in S THEN Append(g[i - 1], q[i]) ELSE g[i - 1]]

\* There is such a function.
LEMMA KeptDefined ==
    ASSUME NEW q, NEW S, NEW n \in Nat
    PROVE  \E g : KeptUpTo(g, q, S, n)
<1>. DEFINE T == {m \in Nat : \E g : KeptUpTo(g, q, S, m)}
<1>1. 0 \in T
  <2>. DEFINE g == [i \in 0..0 |-> <<>>]
  <2>1. KeptUpTo(g, q, S, 0)
    BY DEF KeptUpTo
  <2>. QED  BY <2>1
<1>2. ASSUME NEW m \in Nat, m \in T PROVE m + 1 \in T
  <2>1. PICK g : KeptUpTo(g, q, S, m)
    BY <1>2
  <2>. DEFINE h == [i \in 0..(m + 1) |-> IF i <= m THEN g[i]
                        ELSE IF q[m + 1] \in S THEN Append(g[m], q[m + 1]) ELSE g[m]]
  <2>2. ASSUME NEW i \in 0..(m + 1)
        PROVE  h[i] = IF i = 0 THEN <<>>
                      ELSE IF q[i] \in S THEN Append(h[i - 1], q[i]) ELSE h[i - 1]
    <3>1. CASE i <= m
      <4>1. h[i] = g[i] /\ i \in 0..m
        BY <3>1
      <4>2. i # 0 => h[i - 1] = g[i - 1]
        BY <3>1
      <4>. QED  BY <2>1, <4>1, <4>2 DEF KeptUpTo
    <3>2. CASE i = m + 1
      <4>1. h[i - 1] = g[m] /\ i # 0
        BY <3>2
      <4>. QED  BY <3>2, <4>1
    <3>. QED  BY <3>1, <3>2
  <2>3. KeptUpTo(h, q, S, m + 1)
    BY <2>2 DEF KeptUpTo
  <2>. QED  BY <2>3
<1>3. Nat \subseteq T
  <2>. HIDE DEF T
  <2>. QED  BY <1>1, <1>2, NaturalsOf
<1>. QED  BY <1>3

\* What the loop has pushed after n rounds: elements of S among the first n,
\* all of them, once, and in their order.
KeptFact(f, q, C, S, n) ==
    /\ f \in Seq(C)
    /\ \A k \in DOMAIN f : f[k] \in S /\ \E i \in 1..n : q[i] = f[k]
    /\ \A i \in 1..n : q[i] \in S => \E k \in DOMAIN f : f[k] = q[i]
    /\ \A k, l \in DOMAIN f : f[k] = f[l] => k = l
    /\ \A k, l \in DOMAIN f : \A i, j \in 1..n : f[k] = q[i] /\ f[l] = q[j] /\ i < j => k < l

\* One round of the loop.
LEMMA KeptRound ==
    ASSUME NEW C, NEW q \in Seq(C), NEW S, NEW f, NEW n \in Nat, n + 1 <= Len(q),
           \A i, j \in DOMAIN q : q[i] = q[j] => i = j,
           KeptFact(f, q, C, S, n)
    PROVE  KeptFact(IF q[n + 1] \in S THEN Append(f, q[n + 1]) ELSE f, q, C, S, n + 1)
<1>. DEFINE m == n + 1
<1>1. m \in Nat /\ m \in DOMAIN q /\ q[m] \in C /\ 1..n \subseteq DOMAIN q /\ 1..m = 1..n \cup {m} /\ m \notin 1..n
  OBVIOUS
<1>2. f \in Seq(C)
  BY DEF KeptFact
<1>3. CASE q[m] \notin S
  <2>. HIDE DEF m
  <2>1. ASSUME NEW k \in DOMAIN f PROVE f[k] # q[m]
    BY <1>3 DEF KeptFact
  <2>2. \A k \in DOMAIN f : f[k] \in S /\ \E i \in 1..m : q[i] = f[k]
    BY <1>1 DEF KeptFact
  <2>3. \A i \in 1..m : q[i] \in S => i \in 1..n
    BY <1>1, <1>3
  <2>4. \A i \in 1..m : q[i] \in S => \E k \in DOMAIN f : f[k] = q[i]
    BY <2>3 DEF KeptFact
  <2>5. \A k, l \in DOMAIN f : \A i, j \in 1..m : f[k] = q[i] /\ f[l] = q[j] /\ i < j => k < l
    BY <1>1, <2>1 DEF KeptFact
  <2>6. KeptFact(f, q, C, S, m)
    BY <1>2, <2>2, <2>4, <2>5 DEF KeptFact
  <2>. QED  BY <1>3, <2>6 DEF m
<1>4. CASE q[m] \in S
  <2>. DEFINE h == Append(f, q[m])
              p == Len(f) + 1
  <2>1. /\ h \in Seq(C) /\ p \in Nat /\ DOMAIN h = DOMAIN f \cup {p} /\ h[p] = q[m]
        /\ \A k \in DOMAIN f : h[k] = f[k] /\ k < p /\ k \in Nat
    BY <1>1, <1>2
  <2>. HIDE DEF h, p, m
  <2>2. ASSUME NEW k \in DOMAIN f PROVE f[k] # q[m]
    BY <1>1 DEF KeptFact
  <2>3. \A k \in DOMAIN h : h[k] \in S /\ \E i \in 1..m : q[i] = h[k]
    BY <1>1, <1>4, <2>1 DEF KeptFact
  <2>4. ASSUME NEW i \in 1..m, q[i] \in S PROVE \E k \in DOMAIN h : h[k] = q[i]
    <3>1. CASE i = m
      BY <3>1, <2>1
    <3>2. CASE i \in 1..n
      <4>1. PICK k \in DOMAIN f : f[k] = q[i]
        BY <3>2, <2>4 DEF KeptFact
      <4>. QED  BY <4>1, <2>1
    <3>. QED  BY <1>1, <3>1, <3>2
  <2>5. \A k, l \in DOMAIN h : h[k] = h[l] => k = l
    BY <2>1, <2>2 DEF KeptFact
  <2>6. ASSUME NEW k \in DOMAIN h, NEW l \in DOMAIN h, NEW i \in 1..m, NEW j \in 1..m,
               h[k] = q[i], h[l] = q[j], i < j
        PROVE  k < l
    <3>1. i \in 1..n /\ i # m /\ i \in DOMAIN q /\ j \in DOMAIN q
      BY <1>1, <2>6 DEF m
    <3>2. k \in DOMAIN f
      BY <1>1, <2>1, <2>6, <3>1
    <3>3. CASE l \in DOMAIN f
      <4>1. j # m
        BY <3>3, <2>1, <2>2, <2>6
      <4>2. j \in 1..n /\ f[k] = q[i] /\ f[l] = q[j]
        BY <1>1, <2>1, <2>6, <3>2, <3>3, <4>1
      <4>. QED  BY <2>6, <3>1, <3>2, <3>3, <4>2 DEF KeptFact
    <3>. QED  BY <3>2, <3>3, <2>1
  <2>7. KeptFact(h, q, C, S, m)
    BY <2>1, <2>3, <2>4, <2>5, <2>6 DEF KeptFact
  <2>. QED  BY <1>4, <2>7 DEF h, m
<1>. QED  BY <1>3, <1>4

\* Kept is the subsequence of the elements in S.
LEMMA KeptIsSubsequence ==
    ASSUME NEW C, NEW q \in Seq(C), NEW S, \A i, j \in DOMAIN q : q[i] = q[j] => i = j
    PROVE  KeptFact(Kept(q, S), q, C, S, Len(q))
<1>. DEFINE g == CHOOSE f : KeptUpTo(f, q, S, Len(q))
<1>1. Kept(q, S) = g[Len(q)]
  BY Zenon DEF Kept, KeptUpTo
<1>2. KeptUpTo(g, q, S, Len(q))
  <2>. Len(q) \in Nat
    OBVIOUS
  <2>1. \E f : KeptUpTo(f, q, S, Len(q))
    BY KeptDefined, Zenon
  <2>. QED  BY ONLY <2>1
<1>. HIDE DEF g
<1>. DEFINE T == {n \in Nat : n <= Len(q) => KeptFact(g[n], q, C, S, n)}
<1>3. 0 \in T
  <2>1. g[0] = <<>>
    BY <1>2 DEF KeptUpTo
  <2>2. KeptFact(<<>>, q, C, S, 0)
    BY DEF KeptFact
  <2>. QED  BY <2>1, <2>2
<1>4. ASSUME NEW n \in Nat, n \in T PROVE n + 1 \in T
  <2>. SUFFICES ASSUME n + 1 <= Len(q) PROVE KeptFact(g[n + 1], q, C, S, n + 1)
    OBVIOUS
  <2>1. KeptFact(g[n], q, C, S, n)
    BY <1>4
  <2>2. g[n + 1] = IF q[n + 1] \in S THEN Append(g[n], q[n + 1]) ELSE g[n]
    <3>1. \A i \in 0..Len(q) : g[i] = IF i = 0 THEN <<>>
                 ELSE IF q[i] \in S THEN Append(g[i - 1], q[i]) ELSE g[i - 1]
      BY ONLY <1>2, Zenon DEF KeptUpTo
    <3>2. n + 1 \in 0..Len(q) /\ n + 1 # 0 /\ (n + 1) - 1 = n
      OBVIOUS
    <3>. QED  BY ONLY <3>1, <3>2
  <2>3. KeptFact(IF q[n + 1] \in S THEN Append(g[n], q[n + 1]) ELSE g[n], q, C, S, n + 1)
    BY <2>1, KeptRound
  <2>. QED  BY ONLY <2>2, <2>3, Zenon
<1>5. Nat \subseteq T
  <2>. HIDE DEF T
  <2>. QED  BY <1>3, <1>4, NaturalsOf
<1>. QED  BY <1>1, <1>5

-----------------------------------------------------------------------------
(* The shared parts of the actions. *)

CellStates == {"none", "Unconfirmed", "Executing"}

\* An execution is a request and a cell.
LEMMA ExecutionsAre ==
    /\ \A e \in Executions : e[1] \in Requests /\ e[2] \in Cells /\ e = <<e[1], e[2]>>
    /\ \A r \in Requests, c \in Cells : <<r, c>> \in Executions /\ <<r, c>>[1] = r /\ <<r, c>>[2] = c
    /\ None \notin Executions
BY NotebookBoundsAssumption DEF Executions

\* What ReturnRequests does to a caller and to a cell.
ReturnFact(ch, ph, cs) ==
    /\ \A c \in Requests :
          phase'[c] # ph[c] => ph[c] = "queued" /\ phase'[c] = "done" /\ \A i \in DOMAIN ch : ch[i][1] # c
    /\ \A c \in Cells :
          cellState'[c] # cs[c] =>
              /\ cs[c] = "Unconfirmed" /\ cellState'[c] = "none"
              /\ owner[c] \in Requests /\ ph[owner[c]] = "queued"
              /\ \A i \in DOMAIN ch : ch[i][1] # owner[c]
    /\ \A c \in Cells :
          cellState'[c] # "none" /\ owner[c] \in Requests /\ phase'[owner[c]] # ph[owner[c]]
              => cs[c] = "Executing"

\* ReturnRequests ends the requests that have nothing in the chain, and makes
\* their unconfirmed cells idle.
LEMMA Returned ==
    ASSUME NEW ch \in Seq(Executions), NEW ph \in [Requests -> Phases],
           NEW cs \in [Cells -> CellStates], owner \in [Cells -> Requests \cup {0}],
           ReturnRequests(ch, ph, cs)
    PROVE  /\ phase' \in [Requests -> Phases]
           /\ cellState' \in [Cells -> CellStates]
           /\ ReturnFact(ch, ph, cs)
<1>. DEFINE R == {r \in Requests : ph[r] = "queued" /\ \A i \in DOMAIN ch : ch[i][1] # r}
<1>1. /\ phase' = [c \in Requests |-> IF c \in R THEN "done" ELSE ph[c]]
      /\ cellState' = [c \in Cells |->
              IF cs[c] = "Unconfirmed" /\ owner[c] \in R THEN "none" ELSE cs[c]]
  BY Zenon DEF ReturnRequests
<1>2. \A r \in R : r \in Requests /\ ph[r] = "queued" /\ \A i \in DOMAIN ch : ch[i][1] # r
  OBVIOUS
<1>3. R \subseteq Requests
  OBVIOUS
<1>. HIDE DEF R
<1>4. phase' \in [Requests -> Phases] /\ cellState' \in [Cells -> CellStates]
  BY <1>1 DEF Phases, CellStates
<1>5. \A c \in Requests : phase'[c] = IF c \in R THEN "done" ELSE ph[c]
  BY <1>1
<1>6. \A c \in Cells : cellState'[c] = IF cs[c] = "Unconfirmed" /\ owner[c] \in R THEN "none" ELSE cs[c]
  BY <1>1
<1>7. ASSUME NEW c \in Cells, cellState'[c] # "none", owner[c] \in Requests,
             phase'[owner[c]] # ph[owner[c]]
      PROVE  cs[c] = "Executing"
  <2>1. owner[c] \in R
    BY <1>5, <1>7
  <2>. QED  BY <1>6, <1>7, <2>1 DEF CellStates
<1>. QED  BY <1>2, <1>4, <1>5, <1>6, <1>7 DEF ReturnFact

\* The executions that a request adds to the chain.
Entries(r, found) == [i \in DOMAIN found |-> <<r, found[i]>>]

\* What the chain all holds after the request r has added its cells to ch.
ChainFact(all, ch, r, found) ==
    /\ all \in Seq(Executions)
    /\ DOMAIN ch \subseteq DOMAIN all
    /\ \A i \in DOMAIN ch : all[i] = ch[i] /\ i <= Len(ch)
    /\ \A i \in DOMAIN found : Len(ch) + i \in DOMAIN all /\ all[Len(ch) + i] = <<r, found[i]>>
    /\ \A k \in DOMAIN all : k \in DOMAIN ch \/ \E i \in DOMAIN found : k = Len(ch) + i

\* The chain after a request has queued its cells.
LEMMA ChainExtended ==
    ASSUME NEW r \in Requests, NEW found \in Seq(Cells), NEW ch \in Seq(Executions)
    PROVE  ChainFact(ch \o Entries(r, found), ch, r, found)
<1>1. Entries(r, found) \in Seq(Executions) /\ Len(Entries(r, found)) = Len(found)
      /\ \A i \in DOMAIN found : Entries(r, found)[i] = <<r, found[i]>>
  BY ExecutionsAre DEF Entries
<1>. DEFINE en == Entries(r, found)
            all == ch \o en
<1>. HIDE DEF en
<1>2. all \in Seq(Executions) /\ Len(all) = Len(ch) + Len(en)
  BY <1>1 DEF en
<1>3. \A i \in DOMAIN ch : i \in DOMAIN all /\ all[i] = ch[i] /\ i <= Len(ch)
  BY <1>1 DEF en
<1>4. \A i \in DOMAIN found : Len(ch) + i \in DOMAIN all /\ all[Len(ch) + i] = en[i]
  BY <1>1 DEF en
<1>5. ASSUME NEW k \in DOMAIN all, k \notin DOMAIN ch
      PROVE  \E i \in DOMAIN found : k = Len(ch) + i
  <2>1. k - Len(ch) \in 1..Len(found)
    BY <1>5, <1>1 DEF en
  <2>2. k - Len(ch) \in DOMAIN found /\ k = Len(ch) + (k - Len(ch))
    BY <2>1, <1>5
  <2>. QED  BY <2>2
<1>. HIDE DEF all
<1>6. \A i \in DOMAIN found : en[i] = <<r, found[i]>>
  BY <1>1 DEF en
<1>7. ChainFact(all, ch, r, found)
  BY <1>2, <1>3, <1>4, <1>5, <1>6 DEF ChainFact
<1>. QED  BY <1>7 DEF all, en

\* The tail of the chain.
LEMMA ChainShortened ==
    ASSUME NEW ch \in Seq(Executions), ch # <<>>
    PROVE  /\ Head(ch) = ch[1] /\ 1 \in DOMAIN ch /\ ch[1] \in Executions
           /\ Tail(ch) \in Seq(Executions)
           /\ \A i \in DOMAIN Tail(ch) : i + 1 \in DOMAIN ch /\ Tail(ch)[i] = ch[i + 1] /\ i \in Nat /\ i >= 1
           /\ \A i \in DOMAIN ch : i # 1 => i \in Nat /\ i - 1 \in DOMAIN Tail(ch) /\ Tail(ch)[i - 1] = ch[i]
<1>1. Len(ch) \in Nat /\ Len(ch) >= 1 /\ DOMAIN ch = 1..Len(ch)
  OBVIOUS
<1>2. Tail(ch) \in Seq(Executions) /\ Len(Tail(ch)) = Len(ch) - 1
  OBVIOUS
<1>3. \A i \in 1..(Len(ch) - 1) : Tail(ch)[i] = ch[i + 1]
  OBVIOUS
<1>4. DOMAIN Tail(ch) = 1..(Len(ch) - 1)
  BY <1>1, <1>2
<1>5. \A i \in DOMAIN ch : i # 1 => i \in Nat /\ i - 1 \in 1..(Len(ch) - 1) /\ (i - 1) + 1 = i
  BY <1>1
<1>. QED  BY <1>1, <1>2, <1>3, <1>4, <1>5

-----------------------------------------------------------------------------
(* What the actions do to the queue of executions. *)

\* The parts of the invariant that speak of the phases ph and of the cell
\* states cs, for the chain ch and the running execution run.
CallsOK(ph, cs, ch, run) ==
    /\ \A i \in DOMAIN ch : /\ ph[ch[i][1]] = "queued"
                            /\ cs[ch[i][2]] # "none"
                            /\ owner[ch[i][2]] = ch[i][1]
    /\ \A r \in Requests : ph[r] \in Waiting =>
          \A i \in DOMAIN request[r] : cs[request[r][i]] = "Unconfirmed" /\ owner[request[r][i]] = r
    /\ \A c \in Cells : cs[c] = "Executing" => run # None /\ run[2] = c /\ ch # <<>> /\ run = ch[1]
    /\ \A c \in Cells : cs[c] # "none" =>
          /\ owner[c] \in Requests /\ ph[owner[c]] \notin {"unused", "done"}
          /\ ph[owner[c]] = "resolving" => Owned(owner[c], c)

\* The invariant gives these parts for the state the action starts in.
LEMMA CallsNow ==
    ASSUME QueueInv
    PROVE  CallsOK(phase, cellState, chain, running)
BY DEF QueueInv, RequestsOK, OwnedOK, ChainOK, RunningOK, NothingLeftSpinning, CallsOK

\* Returning requests keeps them.
LEMMA ReturnKeeps ==
    ASSUME NEW ch \in Seq(Executions), NEW ph \in [Requests -> Phases], NEW run,
           NEW cs \in [Cells -> CellStates], owner \in [Cells -> Requests \cup {0}],
           request \in [Requests -> Seq(Cells)],
           ReturnRequests(ch, ph, cs), CallsOK(ph, cs, ch, run)
    PROVE  /\ CallsOK(phase', cellState', ch, run)
           /\ \A p \in Requests : phase'[p] \in Waiting \cup {"unused"} => phase'[p] = ph[p]
           /\ phase' \in [Requests -> Phases]
           /\ cellState' \in [Cells -> CellStates]
<1>1. ReturnFact(ch, ph, cs) /\ phase' \in [Requests -> Phases] /\ cellState' \in [Cells -> CellStates]
  BY Returned, Zenon
<1>2. ASSUME NEW c \in Requests, phase'[c] # ph[c]
      PROVE  ph[c] = "queued" /\ phase'[c] = "done" /\ \A i \in DOMAIN ch : ch[i][1] # c
  BY <1>1, <1>2 DEF ReturnFact
<1>3. ASSUME NEW c \in Cells, cellState'[c] # cs[c]
      PROVE  /\ cs[c] = "Unconfirmed" /\ cellState'[c] = "none"
             /\ owner[c] \in Requests /\ ph[owner[c]] = "queued"
             /\ \A i \in DOMAIN ch : ch[i][1] # owner[c]
  BY <1>1, <1>3 DEF ReturnFact
<1>4. \A i \in DOMAIN ch : ch[i][1] \in Requests /\ ch[i][2] \in Cells
  BY ExecutionsAre
<1>5. ASSUME NEW i \in DOMAIN ch
      PROVE  phase'[ch[i][1]] = "queued" /\ cellState'[ch[i][2]] # "none" /\ owner[ch[i][2]] = ch[i][1]
  <2>1. ph[ch[i][1]] = "queued" /\ cs[ch[i][2]] # "none" /\ owner[ch[i][2]] = ch[i][1]
    BY DEF CallsOK
  <2>2. phase'[ch[i][1]] = ph[ch[i][1]]
    BY <1>2, <1>4, Zenon
  <2>3. cellState'[ch[i][2]] = cs[ch[i][2]]
    BY <1>3, <1>4, <2>1, Zenon
  <2>. QED  BY <2>1, <2>2, <2>3, Zenon
<1>6. \A p \in Requests : phase'[p] \in Waiting \cup {"unused"} => phase'[p] = ph[p]
  BY <1>2 DEF Waiting
<1>7. ASSUME NEW r \in Requests, phase'[r] \in Waiting, NEW i \in DOMAIN request[r]
      PROVE  cellState'[request[r][i]] = "Unconfirmed" /\ owner[request[r][i]] = r
  <2>1. request[r][i] \in Cells
    OBVIOUS
  <2>2. ph[r] \in Waiting /\ ph[r] # "queued"
    BY <1>6, <1>7 DEF Waiting
  <2>3. cs[request[r][i]] = "Unconfirmed" /\ owner[request[r][i]] = r
    BY <2>2 DEF CallsOK
  <2>. QED  BY <1>3, <2>1, <2>2, <2>3
<1>8. ASSUME NEW c \in Cells, cellState'[c] = "Executing"
      PROVE  run # None /\ run[2] = c /\ ch # <<>> /\ run = ch[1]
  <2>1. cs[c] = "Executing"
    BY <1>3, <1>8
  <2>. QED  BY <2>1 DEF CallsOK
<1>9. ASSUME NEW c \in Cells, cellState'[c] # "none"
      PROVE  /\ owner[c] \in Requests /\ phase'[owner[c]] \notin {"unused", "done"}
             /\ phase'[owner[c]] = "resolving" => Owned(owner[c], c)
  <2>1. /\ owner[c] \in Requests /\ ph[owner[c]] \notin {"unused", "done"}
        /\ ph[owner[c]] = "resolving" => Owned(owner[c], c)
    BY <1>3, <1>9 DEF CallsOK
  <2>2. CASE phase'[owner[c]] # ph[owner[c]]
    <3>1. cs[c] = "Executing"
      BY <1>1, <1>9, <2>1, <2>2 DEF ReturnFact
    <3>2. run # None /\ run[2] = c /\ ch # <<>> /\ run = ch[1]
      BY <3>1 DEF CallsOK
    <3>3. 1 \in DOMAIN ch
      BY <3>2
    <3>4. owner[c] = ch[1][1]
      BY <3>2, <3>3 DEF CallsOK
    <3>. QED  BY <2>1, <2>2, <3>3, <3>4, <1>2
  <2>. QED  BY <2>1, <2>2
<1>10. CallsOK(phase', cellState', ch, run)
  BY <1>5, <1>7, <1>8, <1>9 DEF CallsOK
<1>. QED  BY <1>1, <1>6, <1>10

\* The parts, put together again after a step that ends with ReturnRequests.
LEMMA CallsThen ==
    ASSUME CallsOK(phase', cellState', chain', running'), UNCHANGED <<owner, request>>,
           chain' \in Seq(Executions)
    PROVE  /\ \A i \in DOMAIN chain' : /\ phase'[chain'[i][1]] = "queued"
                                       /\ cellState'[chain'[i][2]] # "none"
                                       /\ owner'[chain'[i][2]] = chain'[i][1]
           /\ \A r \in Requests : phase'[r] \in Waiting => \A i \in DOMAIN request'[r] :
                 cellState'[request'[r][i]] = "Unconfirmed" /\ owner'[request'[r][i]] = r
           /\ \A c \in Cells : cellState'[c] = "Executing" => running' # None /\ running'[2] = c
           /\ NothingLeftSpinning' /\ OwnedOK'
<1>1. ASSUME NEW c \in Cells, cellState'[c] = "Executing" PROVE phase'[owner'[c]] = "queued"
  <2>1. running'[2] = c /\ chain' # <<>> /\ running' = chain'[1]
    BY <1>1 DEF CallsOK
  <2>2. 1 \in DOMAIN chain'
    BY <2>1
  <2>3. phase'[chain'[1][1]] = "queued" /\ owner[chain'[1][2]] = chain'[1][1]
    BY <2>2 DEF CallsOK
  <2>. QED  BY <2>1, <2>3
<1>2. NothingLeftSpinning'
  BY <1>1 DEF CallsOK, NothingLeftSpinning
<1>3. OwnedOK'
  BY DEF CallsOK, OwnedOK, Owned
<1>. QED  BY <1>2, <1>3 DEF CallsOK

\* A request queues its cells.
LEMMA QueuesCells ==
    ASSUME TypeOK, QueueInv, NEW r \in Requests, phase[r] \in Waiting,
           chain' = chain \o Entries(r, Kept(request[r], Cells \ gone)),
           ReturnRequests(chain', [phase EXCEPT ![r] = "queued"], cellState),
           UNCHANGED <<request, owner, gone, running, pending, fate>>
    PROVE  chain' \in Seq(Executions) /\ QueueInv'
<1>. DEFINE q == request[r]
            found == Kept(q, Cells \ gone)
            ph == [phase EXCEPT ![r] = "queued"]
            L == Len(chain)
<1>1. q \in Seq(Cells) /\ chain \in Seq(Executions) /\ L \in Nat /\ owner \in [Cells -> Requests \cup {0}]
      /\ phase \in [Requests -> Phases] /\ cellState \in [Cells -> CellStates]
  BY DEF TypeOK, CellStates
<1>2. \A i, j \in DOMAIN q : q[i] = q[j] => i = j
  BY DEF QueueInv, RequestsOK
<1>3. KeptFact(found, q, Cells, Cells \ gone, Len(q))
  BY <1>1, <1>2, KeptIsSubsequence
<1>. HIDE DEF found
<1>4. found \in Seq(Cells) /\ (\A k \in DOMAIN found : found[k] \in Cells \ gone /\ \E i \in 1..Len(q) : q[i] = found[k])
  BY <1>3 DEF KeptFact
<1>5. /\ chain' \in Seq(Executions)
      /\ DOMAIN chain \subseteq DOMAIN chain'
      /\ \A i \in DOMAIN chain : chain'[i] = chain[i] /\ i <= L
      /\ \A i \in DOMAIN found : L + i \in DOMAIN chain' /\ chain'[L + i] = <<r, found[i]>>
      /\ \A k \in DOMAIN chain' : k \in DOMAIN chain \/ \E i \in DOMAIN found : k = L + i
  <2>1. ChainFact(chain', chain, r, found)
    BY <1>1, <1>4, ChainExtended DEF found
  <2>. QED  BY <2>1 DEF ChainFact
<1>6. ph \in [Requests -> Phases] /\ \A c \in Requests : ph[c] = IF c = r THEN "queued" ELSE phase[c]
  BY <1>1 DEF Phases
<1>. HIDE DEF ph
<1>8. \A i \in DOMAIN chain : chain[i] \in Executions /\ chain[i][1] \in Requests /\ chain[i][2] \in Cells /\ i \in Nat
  BY <1>1, ExecutionsAre
<1>9. \A k \in DOMAIN found : found[k] \in Cells /\ k \in Nat /\ k >= 1
  BY <1>4
<1>91. \A i \in DOMAIN chain' : i \notin DOMAIN chain =>
           \E k \in DOMAIN found : i = L + k /\ chain'[i] = <<r, found[k]>> /\ chain'[i][1] = r /\ chain'[i][2] = found[k]
  <2>. SUFFICES ASSUME NEW i \in DOMAIN chain', i \notin DOMAIN chain
                PROVE  \E k \in DOMAIN found : i = L + k /\ chain'[i] = <<r, found[k]>> /\ chain'[i][1] = r /\ chain'[i][2] = found[k]
    OBVIOUS
  <2>1. PICK k \in DOMAIN found : i = L + k
    BY <1>5
  <2>2. chain'[i] = <<r, found[k]>> /\ found[k] \in Cells
    BY <2>1, <1>5, <1>9
  <2>3. <<r, found[k]>>[1] = r /\ <<r, found[k]>>[2] = found[k]
    BY <2>2, ExecutionsAre
  <2>. QED  BY <2>1, <2>2, <2>3, Zenon
<1>10. \A k \in DOMAIN found : cellState[found[k]] = "Unconfirmed" /\ owner[found[k]] = r /\ fate[<<r, found[k]>>] = "none"
  <2>1. ASSUME NEW k \in DOMAIN found PROVE cellState[found[k]] = "Unconfirmed" /\ owner[found[k]] = r /\ fate[<<r, found[k]>>] = "none"
    <3>0. DOMAIN q = 1..Len(q)
      BY <1>1
    <3>1. PICK i \in DOMAIN q : q[i] = found[k]
      BY ONLY <1>4, <3>0
    <3>. QED  BY <1>9, <3>1 DEF QueueInv, RequestsOK
  <2>. QED  BY <2>1
<1>11. \A i \in DOMAIN chain : chain[i][1] # r
  BY DEF QueueInv, ChainOK, Waiting
<1>12. \A i \in DOMAIN chain, k \in DOMAIN found : chain[i][2] # found[k]
  <2>1. \A i \in DOMAIN chain : owner[chain[i][2]] = chain[i][1]
    BY DEF QueueInv, ChainOK
  <2>2. \A k \in DOMAIN found : owner[found[k]] = r
    BY <1>10
  <2>. QED  BY <1>11, <2>1, <2>2, Zenon
<1>13. ASSUME NEW i \in DOMAIN chain', NEW j \in DOMAIN chain', chain'[i][2] = chain'[j][2] PROVE i = j
  <2>1. CASE i \in DOMAIN chain /\ j \in DOMAIN chain
    BY <2>1, <1>13, <1>5 DEF QueueInv, ChainOK
  <2>2. CASE i \notin DOMAIN chain /\ j \notin DOMAIN chain
    <3>1. PICK k \in DOMAIN found : i = L + k /\ chain'[i][2] = found[k]
      BY <1>91, <2>2
    <3>2. PICK l \in DOMAIN found : j = L + l /\ chain'[j][2] = found[l]
      BY <1>91, <2>2
    <3>. QED  BY <1>13, <3>1, <3>2, <1>3 DEF KeptFact
  <2>3. ASSUME NEW x \in DOMAIN chain, NEW y \in DOMAIN chain', y \notin DOMAIN chain
        PROVE  chain'[x][2] # chain'[y][2]
    <3>1. PICK k \in DOMAIN found : y = L + k /\ chain'[y][2] = found[k]
      BY <1>91, <2>3
    <3>. QED  BY <3>1, <1>5, <1>12
  <2>. QED  BY <2>1, <2>2, <2>3, <1>13
<1>14. CallsOK(ph, cellState, chain', running)
  <2>1. CallsOK(phase, cellState, chain, running)
    BY CallsNow
  <2>2. ASSUME NEW i \in DOMAIN chain'
        PROVE  ph[chain'[i][1]] = "queued" /\ cellState[chain'[i][2]] # "none" /\ owner[chain'[i][2]] = chain'[i][1]
    <3>1. CASE i \in DOMAIN chain
      <4>1. chain'[i] = chain[i] /\ chain[i][1] \in Requests
        BY <3>1, <1>5, <1>8
      <4>2. ph[chain[i][1]] = "queued"
        BY <3>1, <4>1, <1>6, <2>1 DEF CallsOK
      <4>. QED  BY <3>1, <4>1, <4>2, <2>1 DEF CallsOK
    <3>2. CASE i \notin DOMAIN chain
      <4>1. PICK k \in DOMAIN found : chain'[i][1] = r /\ chain'[i][2] = found[k]
        BY <3>2, <1>91
      <4>. QED  BY <4>1, <1>6, <1>10
    <3>. QED  BY <3>1, <3>2
  <2>3. ASSUME NEW p \in Requests, ph[p] \in Waiting, NEW i \in DOMAIN request[p]
        PROVE  cellState[request[p][i]] = "Unconfirmed" /\ owner[request[p][i]] = p
    <3>1. phase[p] \in Waiting
      BY <2>3, <1>6 DEF Waiting
    <3>. QED  BY <3>1, <2>1 DEF CallsOK
  <2>4. ASSUME NEW c \in Cells, cellState[c] = "Executing"
        PROVE  running # None /\ running[2] = c /\ chain' # <<>> /\ running = chain'[1]
    <3>1. running # None /\ running[2] = c /\ chain # <<>> /\ running = chain[1]
      BY <2>1, <2>4 DEF CallsOK
    <3>2. 1 \in DOMAIN chain
      BY <1>1, <3>1
    <3>. QED  BY <1>5, <3>1, <3>2
  <2>5. ASSUME NEW c \in Cells, cellState[c] # "none"
        PROVE  /\ owner[c] \in Requests /\ ph[owner[c]] \notin {"unused", "done"}
               /\ ph[owner[c]] = "resolving" => Owned(owner[c], c)
    <3>1. /\ owner[c] \in Requests /\ phase[owner[c]] \notin {"unused", "done"}
          /\ phase[owner[c]] = "resolving" => Owned(owner[c], c)
      BY <2>1, <2>5 DEF CallsOK
    <3>. QED  BY <3>1, <1>6
  <2>. QED  BY <2>2, <2>3, <2>4, <2>5 DEF CallsOK
<1>15. /\ CallsOK(phase', cellState', chain', running')
       /\ \A p \in Requests : phase'[p] \in Waiting \cup {"unused"} => phase'[p] = ph[p]
  <2>1. ReturnRequests(chain', ph, cellState) /\ request \in [Requests -> Seq(Cells)] /\ running' = running
    BY DEF ph, TypeOK
  <2>. QED  BY <1>1, <1>5, <1>6, <1>14, <2>1, ReturnKeeps, Zenon
<1>16. RequestsOK' /\ OwnedOK' /\ ChainOK' /\ RunningOK' /\ NothingLeftSpinning'
  <2>1. \A i \in DOMAIN chain' : i # 1 \/ running = None => fate[chain'[i]] = "none"
    <3>1. ASSUME NEW i \in DOMAIN chain', i # 1 \/ running = None PROVE fate[chain'[i]] = "none"
      <4>1. CASE i \in DOMAIN chain
        BY <3>1, <4>1, <1>5 DEF QueueInv, ChainOK
      <4>2. CASE i \notin DOMAIN chain
        BY <4>2, <1>91, <1>10
      <4>. QED  BY <4>1, <4>2
    <3>. QED  BY <3>1
  <2>2. ChainOK'
    <3>1. \A i \in DOMAIN chain' : /\ phase'[chain'[i][1]] = "queued"
                                    /\ cellState'[chain'[i][2]] # "none"
                                    /\ owner'[chain'[i][2]] = chain'[i][1]
      BY <1>5, <1>15, CallsThen
    <3>2. \A i, j \in DOMAIN chain' : chain'[i][2] = chain'[j][2] => i = j
      BY <1>13
    <3>3. \A i \in DOMAIN chain' : i # 1 \/ running' = None => fate'[chain'[i]] = "none"
      BY <2>1
    <3>. QED  BY ONLY <3>1, <3>2, <3>3, Zenon DEF ChainOK
  <2>3. running # None => chain' # <<>> /\ running = chain'[1]
    <3>. SUFFICES ASSUME running # None PROVE chain' # <<>> /\ running = chain'[1]
      OBVIOUS
    <3>1. chain # <<>> /\ running = chain[1]
      BY DEF QueueInv, RunningOK
    <3>2. 1 \in DOMAIN chain
      BY <1>1, <3>1
    <3>. QED  BY <1>5, <3>1, <3>2
  <2>4. RunningOK'
    BY <1>5, <1>15, <2>3, CallsThen DEF QueueInv, RunningOK
  <2>5. ASSUME NEW p \in Requests, phase'[p] \in Waiting \cup {"unused"}, NEW c \in Cells
        PROVE  fate[<<p, c>>] = "none"
    <3>1. phase[p] \in Waiting \cup {"unused"}
      BY <1>6, <1>15, <2>5 DEF Waiting
    <3>. QED  BY <3>1 DEF QueueInv, RequestsOK
  <2>6. RequestsOK'
    <3>1. \A p \in Requests : phase'[p] = "unused" => phase[p] = "unused"
      BY <1>6, <1>15 DEF Waiting
    <3>. QED  BY <1>5, <1>15, <2>5, <3>1, CallsThen DEF QueueInv, RequestsOK
  <2>. QED  BY <2>2, <2>4, <2>6, <1>5, <1>15, CallsThen
<1>17. OrderOK'
  <2>. SUFFICES ASSUME NEW p \in Requests, NEW i \in DOMAIN request[p], NEW j \in DOMAIN request[p],
                       i < j, Touched(<<p, request[p][j]>>)'
                PROVE  \/ fate[<<p, request[p][i]>>] \in {"ok", "skipped"}
                       \/ request[p][i] \in gone
                       \/ /\ fate[<<p, request[p][j]>>] = "none"
                          /\ Before(<<p, request[p][i]>>, <<p, request[p][j]>>)'
    BY DEF OrderOK
  <2>. DEFINE e == <<p, request[p][i]>>
              f == <<p, request[p][j]>>
  <2>0. request[p][i] \in Cells /\ request[p][j] \in Cells
    BY DEF TypeOK
  <2>1. /\ request[p][i] \in Cells /\ request[p][j] \in Cells
        /\ e[1] = p /\ f[1] = p /\ e[2] = request[p][i] /\ f[2] = request[p][j]
    BY <2>0, ExecutionsAre
  <2>2. CASE p # r
    <3>1. \A k \in DOMAIN chain' : chain'[k] \in {e, f} => k \in DOMAIN chain /\ chain[k] = chain'[k]
      <4>1. ASSUME NEW k \in DOMAIN chain', k \notin DOMAIN chain PROVE chain'[k][1] = r
        BY <1>91, <4>1
      <4>. QED  BY <2>1, <2>2, <1>5, <4>1
    <3>2. Touched(f)
      BY <3>1 DEF Touched
    <3>3. Before(e, f) => Before(e, f)'
      BY <3>1, <1>5 DEF Before
    <3>. QED  BY <3>2, <3>3 DEF QueueInv, OrderOK
  <2>3. CASE p = r
    <3>1. fate[e] = "none" /\ fate[f] = "none"
      BY <2>1, <2>3 DEF QueueInv, RequestsOK
    <3>2. PICK k \in DOMAIN chain' : chain'[k] = f
      BY <3>1 DEF Touched
    <3>3. k \notin DOMAIN chain
      BY <3>2, <2>3, <1>5, <1>11
    <3>4. PICK l \in DOMAIN found : k = L + l /\ chain'[k][2] = found[l]
      BY <3>3, <1>91
    <3>5. found[l] = q[j]
      BY <3>2, <3>4, <2>1, <2>3
    <3>6. CASE q[i] \notin gone
      <4>1. q[i] \in Cells \ gone /\ i \in 1..Len(q) /\ j \in 1..Len(q)
        BY <3>6, <2>1, <2>3, <1>1
      <4>2. PICK m \in DOMAIN found : found[m] = q[i]
        BY <4>1, <1>3 DEF KeptFact
      <4>3. m < l
        BY <3>5, <4>1, <4>2, <1>3 DEF KeptFact
      <4>4. L + m \in DOMAIN chain' /\ chain'[L + m] = e
        BY <4>2, <1>5, <2>3
      <4>5. ASSUME NEW n \in DOMAIN chain', chain'[n] = f PROVE n = k
        <5>1. chain'[n][2] = chain'[k][2]
          BY <4>5, <3>2
        <5>. QED  BY <5>1, <1>13
      <4>6. L + m < k
        BY <4>3, <3>4, <1>1, <1>9
      <4>7. Before(e, f)'
        BY <4>4, <4>5, <4>6 DEF Before
      <4>. QED  BY <3>1, <4>7
    <3>. QED  BY <2>3, <3>6
  <2>. QED  BY <2>2, <2>3
<1>. QED  BY <1>5, <1>16, <1>17 DEF QueueInv

\* The execution at the head of the chain ends: the next one is the head, or,
\* after an error, none is left.
LEMMA HeadEnds ==
    ASSUME TypeOK, QueueInv, chain # <<>>, NEW outcome \in {"ok", "skipped", "error"},
           IF outcome = "error" THEN chain' = <<>> ELSE chain' = Tail(chain),
           fate' = [fate EXCEPT ![chain[1]] = outcome],
           running' = None, pending' = None,
           NEW cs, cs = [cellState EXCEPT ![chain[1][2]] = "none"] \/ (running = None /\ cs = cellState),
           ReturnRequests(chain', phase, cs),
           UNCHANGED <<request, owner>>, gone \subseteq gone'
    PROVE  chain' \in Seq(Executions) /\ QueueInv'
<1>. DEFINE e == chain[1]
<1>1. /\ chain \in Seq(Executions) /\ owner \in [Cells -> Requests \cup {0}]
      /\ phase \in [Requests -> Phases] /\ cellState \in [Cells -> CellStates]
      /\ request \in [Requests -> Seq(Cells)]
      /\ fate \in [Executions -> {"none", "skipped", "sent", "ok", "error"}]
  BY DEF TypeOK, CellStates
<1>2. /\ 1 \in DOMAIN chain /\ e \in Executions /\ Tail(chain) \in Seq(Executions)
      /\ \A i \in DOMAIN Tail(chain) : i + 1 \in DOMAIN chain /\ Tail(chain)[i] = chain[i + 1] /\ i \in Nat /\ i >= 1
      /\ \A i \in DOMAIN chain : i # 1 => i \in Nat /\ i - 1 \in DOMAIN Tail(chain) /\ Tail(chain)[i - 1] = chain[i]
  BY <1>1, ChainShortened
<1>3. e[1] \in Requests /\ e[1] \in Requests /\ e[2] \in Cells
  BY <1>2, ExecutionsAre
<1>4. phase[e[1]] = "queued" /\ owner[e[2]] = e[1]
  BY <1>2 DEF QueueInv, ChainOK
<1>. HIDE DEF e
<1>5. /\ chain' \in Seq(Executions)
      /\ \A i \in DOMAIN chain' : outcome # "error" /\ i + 1 \in DOMAIN chain /\ i + 1 # 1 /\ chain'[i] = chain[i + 1]
  <2>1. CASE outcome = "error"
    BY <2>1
  <2>2. CASE outcome # "error"
    BY <2>2, <1>2
  <2>. QED  BY <2>1, <2>2
<1>6. /\ cs \in [Cells -> CellStates]
      /\ \A c \in Cells : c # e[2] => cs[c] = cellState[c]
      /\ cs[e[2]] = "none" \/ (running = None /\ cs = cellState)
  <2>1. cs = [cellState EXCEPT ![e[2]] = "none"] \/ (running = None /\ cs = cellState)
    BY DEF e
  <2>. QED  BY <2>1, <1>1, <1>3 DEF CellStates
<1>7. /\ fate'[e] = outcome
      /\ \A f \in Executions : f # e => fate'[f] = fate[f]
  BY <1>1, <1>2 DEF e
<1>8. CallsOK(phase, cellState, chain, running)
  BY CallsNow
<1>9. running # None => running = e
  BY DEF QueueInv, RunningOK, e
<1>10. ASSUME NEW i \in DOMAIN chain'
       PROVE  chain'[i] \in Executions /\ chain'[i][2] \in Cells /\ chain'[i][2] # e[2] /\ chain'[i] # e
  <2>1. chain'[i] \in Executions
    BY <1>5
  <2>2. chain[i + 1][2] # e[2]
    BY <1>2, <1>5 DEF QueueInv, ChainOK, e
  <2>. QED  BY <2>1, <2>2, <1>5, ExecutionsAre
<1>11. CallsOK(phase, cs, chain', running')
  <2>1. ASSUME NEW i \in DOMAIN chain'
        PROVE  phase[chain'[i][1]] = "queued" /\ cs[chain'[i][2]] # "none" /\ owner[chain'[i][2]] = chain'[i][1]
    <3>1. phase[chain[i + 1][1]] = "queued" /\ cellState[chain[i + 1][2]] # "none" /\ owner[chain[i + 1][2]] = chain[i + 1][1]
      BY <1>5, <1>8 DEF CallsOK
    <3>2. cs[chain'[i][2]] = cellState[chain'[i][2]]
      BY <1>6, <1>10
    <3>3. chain'[i] = chain[i + 1]
      BY <1>5
    <3>. QED  BY <3>1, <3>2, <3>3, Zenon
  <2>2. ASSUME NEW p \in Requests, phase[p] \in Waiting, NEW i \in DOMAIN request[p]
        PROVE  cs[request[p][i]] = "Unconfirmed" /\ owner[request[p][i]] = p
    <3>1. cellState[request[p][i]] = "Unconfirmed" /\ owner[request[p][i]] = p /\ request[p][i] \in Cells
      BY <2>2, <1>1, <1>8 DEF CallsOK
    <3>2. request[p][i] # e[2]
      BY <2>2, <3>1, <1>4 DEF Waiting
    <3>. QED  BY <3>1, <3>2, <1>6
  <2>3. ASSUME NEW c \in Cells, cs[c] = "Executing" PROVE FALSE
    <3>1. cellState[c] = "Executing" /\ (c = e[2] => running = None)
      BY <2>3, <1>6
    <3>2. running # None /\ running[2] = c
      BY <3>1, <1>8 DEF CallsOK
    <3>. QED  BY <3>1, <3>2, <1>9
  <2>4. ASSUME NEW c \in Cells, cs[c] # "none"
        PROVE  /\ owner[c] \in Requests /\ phase[owner[c]] \notin {"unused", "done"}
               /\ phase[owner[c]] = "resolving" => Owned(owner[c], c)
    <3>1. cellState[c] # "none"
      BY <2>4, <1>6
    <3>. QED  BY <3>1, <1>8 DEF CallsOK
  <2>. QED  BY <2>1, <2>2, <2>3, <2>4 DEF CallsOK
<1>12. /\ CallsOK(phase', cellState', chain', running')
       /\ \A p \in Requests : phase'[p] \in Waiting \cup {"unused"} => phase'[p] = phase[p]
  BY <1>1, <1>5, <1>6, <1>11, ReturnKeeps, Zenon
<1>13. RequestsOK' /\ OwnedOK' /\ ChainOK' /\ RunningOK' /\ NothingLeftSpinning'
  <2>1. /\ \A i \in DOMAIN chain' : /\ phase'[chain'[i][1]] = "queued"
                                    /\ cellState'[chain'[i][2]] # "none"
                                    /\ owner'[chain'[i][2]] = chain'[i][1]
        /\ \A r \in Requests : phase'[r] \in Waiting => \A i \in DOMAIN request'[r] :
              cellState'[request'[r][i]] = "Unconfirmed" /\ owner'[request'[r][i]] = r
        /\ \A c \in Cells : cellState'[c] = "Executing" => running' # None /\ running'[2] = c
        /\ NothingLeftSpinning' /\ OwnedOK'
    BY <1>5, <1>12, CallsThen
  <2>2. ASSUME NEW i \in DOMAIN chain', NEW j \in DOMAIN chain', chain'[i][2] = chain'[j][2] PROVE i = j
    <3>1. chain[i + 1][2] = chain[j + 1][2] /\ i + 1 \in DOMAIN chain /\ j + 1 \in DOMAIN chain
      BY <2>2, <1>5
    <3>2. i + 1 = j + 1
      BY <3>1 DEF QueueInv, ChainOK
    <3>. QED  BY <3>2, <1>5
  <2>3. ASSUME NEW i \in DOMAIN chain' PROVE fate'[chain'[i]] = "none"
    <3>1. fate[chain[i + 1]] = "none"
      BY <1>5 DEF QueueInv, ChainOK
    <3>. QED  BY <3>1, <1>5, <1>7, <1>10
  <2>4. ChainOK'
    BY ONLY <2>1, <2>2, <2>3, Zenon DEF ChainOK
  <2>5. ASSUME NEW f \in Executions PROVE fate'[f] # "sent" /\ f # None
    <3>1. fate[f] = "sent" => f = running
      BY DEF QueueInv, RunningOK
    <3>2. f # None
      BY ExecutionsAre
    <3>. QED  BY <3>1, <3>2, <1>7, <1>9
  <2>6. RunningOK'
    BY <2>1, <2>5 DEF RunningOK
  <2>7. ASSUME NEW p \in Requests, phase'[p] \in Waiting \cup {"unused"}, NEW c \in Cells
        PROVE  fate'[<<p, c>>] = "none"
    <3>1. phase[p] \in Waiting \cup {"unused"}
      BY <1>12, <2>7
    <3>2. fate[<<p, c>>] = "none" /\ p # e[1]
      BY <3>1, <1>4 DEF QueueInv, RequestsOK, Waiting
    <3>3. <<p, c>> \in Executions /\ <<p, c>> # e
      BY <3>2, ExecutionsAre
    <3>. QED  BY <3>2, <3>3, <1>7
  <2>8. RequestsOK'
    <3>1. \A r \in Requests : \A i, j \in DOMAIN request'[r] : request'[r][i] = request'[r][j] => i = j
      BY DEF QueueInv, RequestsOK
    <3>2. \A r \in Requests : phase'[r] = "unused" => DOMAIN request'[r] = {}
      BY <1>12 DEF QueueInv, RequestsOK, Waiting
    <3>. QED  BY ONLY <2>1, <2>7, <3>1, <3>2, Zenon DEF RequestsOK
  <2>. QED  BY <2>1, <2>4, <2>6, <2>8
<1>14. OrderOK'
  <2>. SUFFICES ASSUME NEW p \in Requests, NEW i \in DOMAIN request[p], NEW j \in DOMAIN request[p],
                       i < j, Touched(<<p, request[p][j]>>)'
                PROVE  \/ fate'[<<p, request[p][i]>>] \in {"ok", "skipped"}
                       \/ request[p][i] \in gone'
                       \/ /\ fate'[<<p, request[p][j]>>] = "none"
                          /\ Before(<<p, request[p][i]>>, <<p, request[p][j]>>)'
    BY DEF OrderOK
  <2>. DEFINE x == <<p, request[p][i]>>
              y == <<p, request[p][j]>>
  <2>1. x \in Executions /\ y \in Executions
    BY <1>1, ExecutionsAre
  <2>2. x # y
    BY <1>1, ExecutionsAre DEF QueueInv, RequestsOK
  <2>3. Touched(y)
    <3>1. CASE y = e
      BY <3>1, <1>2 DEF Touched, e
    <3>2. CASE y # e
      <4>1. CASE fate'[y] # "none"
        BY <3>2, <4>1, <2>1, <1>7 DEF Touched
      <4>2. CASE fate'[y] = "none"
        <5>1. PICK k \in DOMAIN chain' : chain'[k] = y
          BY <4>2 DEF Touched
        <5>. QED  BY <5>1, <1>5 DEF Touched
      <4>. QED  BY <4>1, <4>2
    <3>. QED  BY <3>1, <3>2
  <2>4. \/ fate[x] \in {"ok", "skipped"}
        \/ request[p][i] \in gone
        \/ fate[y] = "none" /\ Before(x, y)
    BY <2>3 DEF QueueInv, OrderOK
  <2>5. CASE fate[x] \in {"ok", "skipped"}
    <3>1. x # e
      <4>1. running = None => fate[e] = "none"
        BY <1>2 DEF QueueInv, ChainOK, e
      <4>2. running # None => fate[e] = "sent"
        BY <1>2, <1>9 DEF QueueInv, RunningOK
      <4>. QED  BY <4>1, <4>2, <2>5
    <3>. QED  BY <3>1, <2>1, <2>5, <1>7
  <2>6. CASE fate[y] = "none" /\ Before(x, y)
    <3>1. PICK k \in DOMAIN chain : chain[k] = x /\ \A l \in DOMAIN chain : chain[l] = y => k < l
      BY <2>6 DEF Before
    <3>2. y # e
      BY <3>1, <1>1, <1>2 DEF e
    <3>3. fate'[y] = "none"
      BY <3>2, <2>1, <2>6, <1>7
    <3>4. outcome # "error" /\ chain' = Tail(chain)
      <4>1. PICK l \in DOMAIN chain' : chain'[l] = y
        BY <3>3 DEF Touched
      <4>. QED  BY <4>1, <1>5
    <3>5. CASE k = 1
      BY <3>1, <3>4, <3>5, <1>7 DEF e
    <3>6. CASE k # 1
      <4>1. k \in Nat /\ k - 1 \in DOMAIN chain' /\ chain'[k - 1] = x
        BY <3>1, <3>4, <3>6, <1>2
      <4>2. ASSUME NEW l \in DOMAIN chain', chain'[l] = y PROVE k - 1 < l
        <5>1. l \in Nat /\ l + 1 \in DOMAIN chain /\ chain[l + 1] = y
          BY <4>2, <3>4, <1>2
        <5>2. k < l + 1
          BY <5>1, <3>1
        <5>. QED  BY <4>1, <5>1, <5>2
      <4>3. Before(x, y)'
        BY <4>1, <4>2 DEF Before
      <4>. QED  BY <3>3, <4>3
    <3>. QED  BY <3>5, <3>6
  <2>. QED  BY <2>4, <2>5, <2>6
<1>. QED  BY <1>5, <1>13, <1>14 DEF QueueInv

\* The execution at the head of the chain is sent to the kernel.
LEMMA HeadSent ==
    ASSUME TypeOK, QueueInv, chain # <<>>, running = None,
           cellState' = [cellState EXCEPT ![chain[1][2]] = "Executing"],
           running' = chain[1], pending' = chain[1],
           fate' = [fate EXCEPT ![chain[1]] = "sent"],
           UNCHANGED <<request, owner, gone, chain, phase>>
    PROVE  QueueInv'
<1>. DEFINE e == chain[1]
<1>1. /\ chain \in Seq(Executions) /\ cellState \in [Cells -> CellStates]
      /\ request \in [Requests -> Seq(Cells)]
      /\ fate \in [Executions -> {"none", "skipped", "sent", "ok", "error"}]
  BY DEF TypeOK, CellStates
<1>2. 1 \in DOMAIN chain /\ e \in Executions
  BY <1>1, ChainShortened
<1>3. e[1] \in Requests /\ e[2] \in Cells
  BY <1>2, ExecutionsAre
<1>4. phase[e[1]] = "queued" /\ owner[e[2]] = e[1] /\ cellState[e[2]] # "none"
  BY <1>2 DEF QueueInv, ChainOK
<1>5. cellState'[e[2]] = "Executing" /\ \A c \in Cells : c # e[2] => cellState'[c] = cellState[c]
  BY <1>1, <1>3 DEF e
<1>6. fate'[e] = "sent" /\ \A f \in Executions : f # e => fate'[f] = fate[f]
  BY <1>1, <1>2 DEF e
<1>7. running' = e /\ pending' = e
  BY DEF e
<1>8. \A i \in DOMAIN chain : i # 1 => chain[i][2] # e[2] /\ chain[i] # e
  BY <1>2 DEF QueueInv, ChainOK, e
<1>9. \A i \in DOMAIN chain : chain[i] \in Executions /\ chain[i][2] \in Cells
  BY <1>1, ExecutionsAre
<1>10. chain[1] = e
  BY DEF e
<1>. HIDE DEF e
<1>11. ChainOK'
  <2>1. ASSUME NEW i \in DOMAIN chain
        PROVE  cellState'[chain[i][2]] # "none" /\ (i # 1 => fate'[chain[i]] = "none")
    <3>1. cellState[chain[i][2]] # "none" /\ fate[chain[i]] = "none"
      BY DEF QueueInv, ChainOK
    <3>2. CASE chain[i][2] = e[2]
      BY <3>1, <3>2, <1>5, <1>6, <1>8, <1>9
    <3>3. CASE chain[i][2] # e[2]
      BY <3>1, <3>3, <1>5, <1>6, <1>8, <1>9
    <3>. QED  BY <3>2, <3>3
  <2>2. running' # None
    BY <1>2, <1>7, ExecutionsAre
  <2>3. /\ \A i, j \in DOMAIN chain : chain[i][2] = chain[j][2] => i = j
        /\ \A i \in DOMAIN chain : phase[chain[i][1]] = "queued" /\ owner[chain[i][2]] = chain[i][1]
    BY DEF QueueInv, ChainOK
  <2>4. chain' = chain /\ phase' = phase /\ owner' = owner
    OBVIOUS
  <2>. QED  BY ONLY <2>1, <2>2, <2>3, <2>4 DEF ChainOK
<1>12. RunningOK'
  <2>1. ASSUME NEW c \in Cells, cellState'[c] = "Executing" PROVE c = e[2]
    <3>1. c # e[2] => cellState[c] # "Executing"
      BY DEF QueueInv, RunningOK
    <3>. QED  BY <2>1, <3>1, <1>5
  <2>2. ASSUME NEW f \in Executions PROVE fate'[f] = "sent" <=> f = e
    <3>1. fate[f] # "sent"
      BY ExecutionsAre DEF QueueInv, RunningOK
    <3>. QED  BY <3>1, <1>6
  <2>3. e # None
    BY <1>2, ExecutionsAre
  <2>. QED  BY <2>1, <2>2, <2>3, <1>7, <1>10 DEF RunningOK
<1>13. RequestsOK'
  <2>1. ASSUME NEW p \in Requests, phase[p] \in Waiting, NEW i \in DOMAIN request[p]
        PROVE  cellState'[request[p][i]] = "Unconfirmed" /\ owner[request[p][i]] = p
    <3>1. cellState[request[p][i]] = "Unconfirmed" /\ owner[request[p][i]] = p /\ request[p][i] \in Cells
      BY <2>1, <1>1 DEF QueueInv, RequestsOK
    <3>2. request[p][i] # e[2]
      BY <2>1, <3>1, <1>4 DEF Waiting
    <3>. QED  BY <3>1, <3>2, <1>5
  <2>2. ASSUME NEW p \in Requests, phase[p] \in Waiting \cup {"unused"}, NEW c \in Cells
        PROVE  fate'[<<p, c>>] = "none"
    <3>1. fate[<<p, c>>] = "none" /\ p # e[1]
      BY <2>2, <1>4 DEF QueueInv, RequestsOK, Waiting
    <3>2. <<p, c>> \in Executions /\ <<p, c>> # e
      BY <3>1, ExecutionsAre
    <3>. QED  BY <3>1, <3>2, <1>6
  <2>. QED  BY <2>1, <2>2 DEF QueueInv, RequestsOK
<1>14. NothingLeftSpinning' /\ OwnedOK'
  <2>1. ASSUME NEW c \in Cells, cellState'[c] # "none"
        PROVE  /\ owner[c] \in Requests /\ phase[owner[c]] \notin {"unused", "done"}
               /\ phase[owner[c]] = "resolving" => Owned(owner[c], c)
    <3>1. cellState[c] # "none"
      BY <1>4, <1>5, <2>1
    <3>. QED  BY <3>1 DEF QueueInv, NothingLeftSpinning, OwnedOK
  <2>2. ASSUME NEW c \in Cells, cellState'[c] = "Executing" PROVE phase[owner[c]] = "queued"
    <3>1. CASE c = e[2]
      BY <3>1, <1>4
    <3>2. CASE c # e[2]
      BY <2>2, <3>2, <1>5 DEF QueueInv, NothingLeftSpinning
    <3>. QED  BY <3>1, <3>2
  <2>. QED  BY <2>1, <2>2 DEF NothingLeftSpinning, OwnedOK, Owned
<1>15. OrderOK'
  <2>. SUFFICES ASSUME NEW p \in Requests, NEW i \in DOMAIN request[p], NEW j \in DOMAIN request[p],
                       i < j, Touched(<<p, request[p][j]>>)'
                PROVE  \/ fate'[<<p, request[p][i]>>] \in {"ok", "skipped"}
                       \/ request[p][i] \in gone
                       \/ /\ fate'[<<p, request[p][j]>>] = "none"
                          /\ Before(<<p, request[p][i]>>, <<p, request[p][j]>>)'
    BY DEF OrderOK
  <2>. DEFINE x == <<p, request[p][i]>>
              y == <<p, request[p][j]>>
  <2>1. x \in Executions /\ y \in Executions
    BY <1>1, ExecutionsAre
  <2>2. Touched(y)
    BY <2>1, <1>2, <1>6, <1>10 DEF Touched
  <2>3. \/ fate[x] \in {"ok", "skipped"}
        \/ request[p][i] \in gone
        \/ fate[y] = "none" /\ Before(x, y)
    BY <2>2 DEF QueueInv, OrderOK
  <2>4. CASE fate[x] \in {"ok", "skipped"}
    <3>1. x # e
      BY <2>4, <1>2, <1>10 DEF QueueInv, ChainOK
    <3>. QED  BY <3>1, <2>1, <2>4, <1>6
  <2>5. CASE fate[y] = "none" /\ Before(x, y)
    <3>1. PICK k \in DOMAIN chain : chain[k] = x /\ \A l \in DOMAIN chain : chain[l] = y => k < l
      BY <2>5 DEF Before
    <3>2. y # e
      BY <3>1, <1>1, <1>2, <1>10
    <3>3. Before(x, y)'
      BY <3>1 DEF Before
    <3>. QED  BY <3>2, <3>3, <2>1, <2>5, <1>6
  <2>. QED  BY <2>3, <2>4, <2>5
<1>. QED  BY <1>11, <1>12, <1>13, <1>14, <1>15 DEF QueueInv

\* How a request may move before it has queued anything.
Moves(r) ==
    \/ phase'[r] = phase[r]
    \/ phase[r] \in Waiting /\ phase'[r] \in (Waiting \ {"resolving"}) \cup {"threw"}
    \/ phase[r] = "unused" /\ phase'[r] = "selecting"

\* A request moves on before it has queued anything, or a cell is deleted.
LEMMA RequestsMove ==
    ASSUME QueueInv, \A r \in Requests : Moves(r),
           UNCHANGED <<request, owner, cellState, chain, running, pending, fate>>, gone \subseteq gone',
           chain \in Seq(Executions)
    PROVE  QueueInv'
<1>0. \A r \in Requests : /\ phase[r] = "queued" => phase'[r] = "queued"
                          /\ phase'[r] = "unused" => phase[r] = "unused"
                          /\ phase'[r] = "resolving" => phase[r] = "resolving"
                          /\ phase[r] \notin {"unused", "done"} => phase'[r] \notin {"unused", "done"}
                          /\ phase'[r] \in Waiting => phase[r] \in Waiting \cup {"unused"}
  BY DEF Moves, Waiting
<1>1. \A i \in DOMAIN chain : phase'[chain[i][1]] = "queued"
  <2>1. ASSUME NEW i \in DOMAIN chain PROVE phase'[chain[i][1]] = "queued"
    <3>1. phase[chain[i][1]] = "queued" /\ chain[i][1] \in Requests
      BY ExecutionsAre DEF QueueInv, ChainOK
    <3>. QED  BY <3>1, <1>0
  <2>. QED  BY <2>1
<1>2. ChainOK'
  BY <1>1 DEF QueueInv, ChainOK
<1>3. RequestsOK'
  <2>1. ASSUME NEW r \in Requests, phase'[r] \in Waiting, NEW i \in DOMAIN request[r]
        PROVE  cellState[request[r][i]] = "Unconfirmed" /\ owner[request[r][i]] = r
    BY <1>0, <2>1 DEF QueueInv, RequestsOK
  <2>2. ASSUME NEW r \in Requests, phase'[r] \in Waiting \cup {"unused"}, NEW c \in Cells
        PROVE  fate[<<r, c>>] = "none"
    BY <1>0, <2>2 DEF QueueInv, RequestsOK
  <2>. QED  BY <1>0, <2>1, <2>2 DEF QueueInv, RequestsOK
<1>4. RunningOK'
  BY DEF QueueInv, RunningOK
<1>5. NothingLeftSpinning'
  BY <1>0 DEF QueueInv, NothingLeftSpinning
<1>6. OwnedOK'
  BY <1>0 DEF QueueInv, OwnedOK, Owned, NothingLeftSpinning
<1>7. (\A e : Touched(e)' = Touched(e)) /\ (\A e, f : Before(e, f)' = Before(e, f))
  BY DEF Touched, Before
<1>8. OrderOK'
  BY <1>7 DEF QueueInv, OrderOK
<1>. QED  BY <1>2, <1>3, <1>4, <1>5, <1>6, <1>8 DEF QueueInv

\* A request returns without having queued anything.
LEMMA RequestFails ==
    ASSUME TypeOK, QueueInv, NEW r \in Requests, phase[r] \in Waiting,
           ReturnRequests(chain, [phase EXCEPT ![r] = "queued"], cellState),
           UNCHANGED <<request, owner, gone, chain, running, pending, fate>>
    PROVE  QueueInv'
<1>. DEFINE ph == [phase EXCEPT ![r] = "queued"]
<1>1. /\ chain \in Seq(Executions) /\ owner \in [Cells -> Requests \cup {0}]
      /\ phase \in [Requests -> Phases] /\ cellState \in [Cells -> CellStates]
      /\ request \in [Requests -> Seq(Cells)]
  BY DEF TypeOK, CellStates
<1>2. ph \in [Requests -> Phases] /\ \A c \in Requests : ph[c] = IF c = r THEN "queued" ELSE phase[c]
  BY <1>1 DEF Phases
<1>3. ReturnRequests(chain, ph, cellState)
  OBVIOUS
<1>. HIDE DEF ph
<1>4. CallsOK(phase, cellState, chain, running)
  BY CallsNow
<1>5. CallsOK(ph, cellState, chain, running)
  <2>1. \A i \in DOMAIN chain : ph[chain[i][1]] = "queued"
    <3>1. ASSUME NEW i \in DOMAIN chain PROVE ph[chain[i][1]] = "queued"
      <4>1. chain[i][1] \in Requests /\ phase[chain[i][1]] = "queued"
        BY <1>1, <1>4, ExecutionsAre DEF CallsOK
      <4>. QED  BY <4>1, <1>2
    <3>. QED  BY <3>1
  <2>2. \A p \in Requests : ph[p] \in Waiting => phase[p] \in Waiting
    BY <1>2 DEF Waiting
  <2>3. \A p \in Requests : /\ phase[p] \notin {"unused", "done"} => ph[p] \notin {"unused", "done"}
                            /\ ph[p] = "resolving" => phase[p] = "resolving"
    BY <1>2
  <2>. QED  BY <1>4, <2>1, <2>2, <2>3 DEF CallsOK
<1>6. /\ CallsOK(phase', cellState', chain, running)
      /\ \A p \in Requests : phase'[p] \in Waiting \cup {"unused"} => phase'[p] = ph[p]
  BY <1>1, <1>2, <1>3, <1>5, ReturnKeeps, Zenon
<1>7. CallsOK(phase', cellState', chain', running')
  BY <1>6
<1>8. /\ \A i \in DOMAIN chain' : /\ phase'[chain'[i][1]] = "queued"
                                  /\ cellState'[chain'[i][2]] # "none"
                                  /\ owner'[chain'[i][2]] = chain'[i][1]
      /\ \A p \in Requests : phase'[p] \in Waiting => \A i \in DOMAIN request'[p] :
            cellState'[request'[p][i]] = "Unconfirmed" /\ owner'[request'[p][i]] = p
      /\ \A c \in Cells : cellState'[c] = "Executing" => running' # None /\ running'[2] = c
      /\ NothingLeftSpinning' /\ OwnedOK'
  BY <1>1, <1>7, CallsThen
<1>9. ChainOK' /\ RunningOK'
  BY <1>8 DEF QueueInv, ChainOK, RunningOK
<1>10. RequestsOK'
  <2>1. \A p \in Requests : phase'[p] \in Waiting \cup {"unused"} => phase[p] \in Waiting \cup {"unused"}
    BY <1>2, <1>6 DEF Waiting
  <2>2. \A p \in Requests : phase'[p] = "unused" => phase[p] = "unused"
    BY <1>2, <1>6 DEF Waiting
  <2>. QED  BY <1>8, <2>1, <2>2 DEF QueueInv, RequestsOK
<1>11. (\A e : Touched(e)' = Touched(e)) /\ (\A e, f : Before(e, f)' = Before(e, f))
  BY DEF Touched, Before
<1>12. OrderOK'
  BY <1>11 DEF QueueInv, OrderOK
<1>. QED  BY <1>8, <1>9, <1>10, <1>12 DEF QueueInv

\* A request begins: its free cells get an execution.
LEMMA RequestBegins ==
    ASSUME TypeOK, QueueInv, NEW r \in Requests, NEW q \in Selections, ExecuteNotebookCells(r, q)
    PROVE  request' \in [Requests -> Seq(Cells)] /\ QueueInv'
<1>. DEFINE S == {c \in Cells : cellState[c] = "none"} \ gone
            free == Kept(q, S)
<1>1. /\ chain \in Seq(Executions) /\ owner \in [Cells -> Requests \cup {0}]
      /\ phase \in [Requests -> Phases] /\ cellState \in [Cells -> CellStates]
      /\ request \in [Requests -> Seq(Cells)]
  BY DEF TypeOK, CellStates
<1>2. q \in Seq(Cells) /\ \A i, j \in DOMAIN q : q[i] = q[j] => i = j
  BY CellsAssumption
<1>3. KeptFact(free, q, Cells, S, Len(q))
  BY <1>2, KeptIsSubsequence
<1>4. /\ phase[r] = "unused"
      /\ request' = [request EXCEPT ![r] = free]
      /\ phase' = [phase EXCEPT ![r] = "resolving"]
      /\ cellState' = [c \in Cells |-> IF c \in Range(free) THEN "Unconfirmed" ELSE cellState[c]]
      /\ owner' = [c \in Cells |-> IF c \in Range(free) THEN r ELSE owner[c]]
      /\ UNCHANGED <<gone, queueVars, fate>>
  BY DEF ExecuteNotebookCells
<1>5. \A c \in S : c \in Cells /\ cellState[c] = "none"
  OBVIOUS
<1>. HIDE DEF S, free
<1>6. free \in Seq(Cells) /\ (\A k \in DOMAIN free : free[k] \in S) /\ \A k, l \in DOMAIN free : free[k] = free[l] => k = l
  BY <1>3 DEF KeptFact
<1>7. \A c \in Range(free) : c \in Cells /\ cellState[c] = "none"
  BY <1>5, <1>6 DEF Range
<1>8. \A k \in DOMAIN free : free[k] \in Range(free)
  BY DEF Range
<1>9. request' \in [Requests -> Seq(Cells)] /\ request'[r] = free /\ \A p \in Requests : p # r => request'[p] = request[p]
  BY <1>1, <1>4, <1>6
<1>10. \A c \in Requests : phase'[c] = IF c = r THEN "resolving" ELSE phase[c]
  BY <1>1, <1>4
<1>11. \A c \in Cells : /\ cellState'[c] = IF c \in Range(free) THEN "Unconfirmed" ELSE cellState[c]
                        /\ owner'[c] = IF c \in Range(free) THEN r ELSE owner[c]
  BY <1>4
<1>12. \A c \in Cells : cellState[c] # "none" => cellState'[c] = cellState[c] /\ owner'[c] = owner[c]
  BY <1>7, <1>11
<1>13. \A i \in DOMAIN chain : chain[i] \in Executions /\ chain[i][1] \in Requests /\ chain[i][2] \in Cells
  BY <1>1, ExecutionsAre
<1>14. chain' = chain /\ running' = running /\ pending' = pending /\ fate' = fate /\ gone' = gone
  BY <1>4 DEF queueVars
<1>15. \A i \in DOMAIN chain : chain[i][1] # r
  BY <1>4 DEF QueueInv, ChainOK
<1>16. ChainOK'
  <2>1. ASSUME NEW i \in DOMAIN chain
        PROVE  phase'[chain[i][1]] = "queued" /\ cellState'[chain[i][2]] # "none" /\ owner'[chain[i][2]] = chain[i][1]
    <3>1. phase[chain[i][1]] = "queued" /\ cellState[chain[i][2]] # "none" /\ owner[chain[i][2]] = chain[i][1]
      BY DEF QueueInv, ChainOK
    <3>2. phase'[chain[i][1]] = phase[chain[i][1]]
      BY <1>10, <1>13, <1>15
    <3>3. cellState'[chain[i][2]] = cellState[chain[i][2]] /\ owner'[chain[i][2]] = owner[chain[i][2]]
      BY <1>12, <1>13, <3>1
    <3>. QED  BY <3>1, <3>2, <3>3, Zenon
  <2>2. /\ \A i, j \in DOMAIN chain : chain[i][2] = chain[j][2] => i = j
        /\ \A i \in DOMAIN chain : i # 1 \/ running = None => fate[chain[i]] = "none"
    BY DEF QueueInv, ChainOK
  <2>. QED  BY ONLY <2>1, <2>2, <1>14 DEF ChainOK
<1>17. RunningOK'
  <2>1. \A c \in Cells : cellState'[c] = "Executing" => cellState[c] = "Executing"
    BY <1>11
  <2>. QED  BY <2>1, <1>14 DEF QueueInv, RunningOK
<1>18. RequestsOK'
  <2>. SUFFICES ASSUME NEW p \in Requests
                PROVE  /\ \A i, j \in DOMAIN request'[p] : request'[p][i] = request'[p][j] => i = j
                       /\ phase'[p] \in Waiting => \A i \in DOMAIN request'[p] :
                            cellState'[request'[p][i]] = "Unconfirmed" /\ owner'[request'[p][i]] = p
                       /\ phase'[p] \in Waiting \cup {"unused"} => \A c \in Cells : fate'[<<p, c>>] = "none"
                       /\ phase'[p] = "unused" => DOMAIN request'[p] = {}
    BY DEF RequestsOK
  <2>1. CASE p = r
    <3>1. \A i \in DOMAIN free : cellState'[free[i]] = "Unconfirmed" /\ owner'[free[i]] = r
      BY <1>6, <1>7, <1>8, <1>11
    <3>2. \A c \in Cells : fate[<<r, c>>] = "none"
      BY <1>4 DEF QueueInv, RequestsOK
    <3>3. phase'[r] # "unused"
      BY <1>10
    <3>. QED  BY <2>1, <3>1, <3>2, <3>3, <1>6, <1>9, <1>14
  <2>2. CASE p # r
    <3>1. phase'[p] = phase[p] /\ request'[p] = request[p]
      BY <2>2, <1>9, <1>10
    <3>2. ASSUME phase[p] \in Waiting, NEW i \in DOMAIN request[p]
          PROVE  cellState'[request[p][i]] = "Unconfirmed" /\ owner'[request[p][i]] = p
      <4>1. cellState[request[p][i]] = "Unconfirmed" /\ owner[request[p][i]] = p /\ request[p][i] \in Cells
        BY <3>2, <1>1 DEF QueueInv, RequestsOK
      <4>. QED  BY <4>1, <1>12
    <3>. QED  BY <3>1, <3>2, <1>14 DEF QueueInv, RequestsOK
  <2>. QED  BY <2>1, <2>2
<1>19. NothingLeftSpinning' /\ OwnedOK'
  <2>1. ASSUME NEW c \in Cells, cellState'[c] # "none"
        PROVE  /\ owner'[c] \in Requests /\ phase'[owner'[c]] \notin {"unused", "done"}
               /\ cellState'[c] = "Executing" => phase'[owner'[c]] = "queued"
               /\ phase'[owner'[c]] = "resolving" => \E i \in DOMAIN request'[owner'[c]] : request'[owner'[c]][i] = c
    <3>1. CASE c \in Range(free)
      <4>1. \E i \in DOMAIN free : free[i] = c
        BY <3>1 DEF Range
      <4>. QED  BY <3>1, <4>1, <1>9, <1>10, <1>11
    <3>2. CASE c \notin Range(free)
      <4>1. cellState[c] = cellState'[c] /\ owner'[c] = owner[c]
        BY <3>2, <1>11
      <4>2. /\ owner[c] \in Requests /\ phase[owner[c]] \notin {"unused", "done"}
            /\ cellState[c] = "Executing" => phase[owner[c]] = "queued"
            /\ phase[owner[c]] = "resolving" => Owned(owner[c], c)
        BY <2>1, <4>1 DEF QueueInv, NothingLeftSpinning, OwnedOK
      <4>3. owner[c] # r
        BY <4>2, <1>4
      <4>. QED  BY <4>1, <4>2, <4>3, <1>9, <1>10 DEF Owned
    <3>. QED  BY <3>1, <3>2
  <2>. QED  BY <2>1 DEF NothingLeftSpinning, OwnedOK, Owned
<1>20. OrderOK'
  <2>1. (\A e : Touched(e)' = Touched(e)) /\ (\A e, f : Before(e, f)' = Before(e, f))
    BY <1>14 DEF Touched, Before
  <2>2. ASSUME NEW i \in DOMAIN free PROVE ~ Touched(<<r, free[i]>>)
    <3>1. free[i] \in Cells
      BY <1>6
    <3>2. fate[<<r, free[i]>>] = "none" /\ <<r, free[i]>>[1] = r
      BY <3>1, <1>4, ExecutionsAre DEF QueueInv, RequestsOK
    <3>. QED  BY <3>2, <1>15 DEF Touched
  <2>. SUFFICES ASSUME NEW p \in Requests, NEW i \in DOMAIN request'[p], NEW j \in DOMAIN request'[p],
                       i < j, Touched(<<p, request'[p][j]>>)
                PROVE  \/ fate[<<p, request'[p][i]>>] \in {"ok", "skipped"}
                       \/ request'[p][i] \in gone
                       \/ /\ fate[<<p, request'[p][j]>>] = "none"
                          /\ Before(<<p, request'[p][i]>>, <<p, request'[p][j]>>)
    BY <2>1, <1>14 DEF OrderOK
  <2>3. p # r
    BY <2>2, <1>9
  <2>4. request'[p] = request[p]
    BY <2>3, <1>9
  <2>. QED  BY <2>4 DEF QueueInv, OrderOK
<1>. QED  BY <1>9, <1>16, <1>17, <1>18, <1>19, <1>20 DEF QueueInv

\* The cells q a request goes on with, into the phase p, are those in S.
Subrequest(q, r, S, p) ==
    /\ q \in Seq(Cells)
    /\ \A k \in DOMAIN q : Owned(r, q[k]) /\ (p = "prepared" => q[k] \in S)
    /\ \A k, l \in DOMAIN q : q[k] = q[l] => k = l
    /\ p = "done" => \A c \in S : ~ Owned(r, c)

\* A kernel is found for a request or not: it goes on with the cells in S, and
\* the executions of its other cells are over.
LEMMA RequestShrinks ==
    ASSUME TypeOK, QueueInv, NEW r \in Requests, phase[r] = "resolving",
           NEW q, NEW S, NEW p \in {"prepared", "done"}, Subrequest(q, r, S, p),
           request' = [request EXCEPT ![r] = q],
           phase' = [phase EXCEPT ![r] = p],
           cellState' = [c \in Cells |-> IF Owned(r, c) /\ c \notin S THEN "none" ELSE cellState[c]],
           UNCHANGED <<owner, gone, chain, running, pending, fate>>
    PROVE  request' \in [Requests -> Seq(Cells)] /\ QueueInv'
<1>1. /\ chain \in Seq(Executions) /\ owner \in [Cells -> Requests \cup {0}]
      /\ phase \in [Requests -> Phases] /\ cellState \in [Cells -> CellStates]
      /\ request \in [Requests -> Seq(Cells)]
  BY DEF TypeOK, CellStates
<1>2. request' \in [Requests -> Seq(Cells)] /\ request'[r] = q /\ \A o \in Requests : o # r => request'[o] = request[o]
  BY <1>1 DEF Subrequest
<1>3. phase'[r] = p /\ \A o \in Requests : o # r => phase'[o] = phase[o]
  BY <1>1
<1>4. \A i \in DOMAIN request[r] : request[r][i] \in Cells /\ owner[request[r][i]] = r /\ cellState[request[r][i]] = "Unconfirmed"
  BY <1>1 DEF QueueInv, RequestsOK, Waiting
<1>5. \A c \in Cells : /\ cellState'[c] = cellState[c] \/ (cellState'[c] = "none" /\ owner[c] = r)
                       /\ Owned(r, c) /\ c \notin S => cellState'[c] = "none"
                       /\ c \in S => cellState'[c] = cellState[c]
  BY <1>4 DEF Owned
<1>6. /\ \A k \in DOMAIN q : q[k] \in Cells /\ Owned(r, q[k]) /\ (p = "prepared" => q[k] \in S)
      /\ \A k, l \in DOMAIN q : q[k] = q[l] => k = l
  BY DEF Subrequest
<1>7. \A i \in DOMAIN chain : chain[i] \in Executions /\ chain[i][1] \in Requests /\ chain[i][2] \in Cells
  BY <1>1, ExecutionsAre
<1>8. ChainOK'
  <2>1. ASSUME NEW i \in DOMAIN chain
        PROVE  phase'[chain[i][1]] = "queued" /\ cellState'[chain[i][2]] # "none"
    <3>1. phase[chain[i][1]] = "queued" /\ cellState[chain[i][2]] # "none" /\ owner[chain[i][2]] = chain[i][1]
      BY DEF QueueInv, ChainOK
    <3>2. chain[i][1] # r
      BY <3>1
    <3>3. phase'[chain[i][1]] = "queued"
      BY <1>3, <1>7, <3>1, <3>2
    <3>4. cellState'[chain[i][2]] = cellState[chain[i][2]]
      BY <1>5, <1>7, <3>1, <3>2, Zenon
    <3>. QED  BY <3>1, <3>3, <3>4
  <2>2. /\ \A i, j \in DOMAIN chain : chain[i][2] = chain[j][2] => i = j
        /\ \A i \in DOMAIN chain : owner[chain[i][2]] = chain[i][1] /\ (i # 1 \/ running = None => fate[chain[i]] = "none")
    BY DEF QueueInv, ChainOK
  <2>3. chain' = chain /\ running' = running /\ owner' = owner /\ fate' = fate
    OBVIOUS
  <2>. QED  BY ONLY <2>1, <2>2, <2>3 DEF ChainOK
<1>9. RunningOK'
  <2>1. \A c \in Cells : cellState'[c] = "Executing" => cellState[c] = "Executing"
    BY <1>5
  <2>. QED  BY <2>1 DEF QueueInv, RunningOK
<1>10. RequestsOK'
  <2>. SUFFICES ASSUME NEW o \in Requests
                PROVE  /\ \A i, j \in DOMAIN request'[o] : request'[o][i] = request'[o][j] => i = j
                       /\ phase'[o] \in Waiting => \A i \in DOMAIN request'[o] :
                            cellState'[request'[o][i]] = "Unconfirmed" /\ owner'[request'[o][i]] = o
                       /\ phase'[o] \in Waiting \cup {"unused"} => \A c \in Cells : fate'[<<o, c>>] = "none"
                       /\ phase'[o] = "unused" => DOMAIN request'[o] = {}
    BY DEF RequestsOK
  <2>1. CASE o = r
    <3>1. ASSUME p = "prepared", NEW k \in DOMAIN q PROVE cellState'[q[k]] = "Unconfirmed" /\ owner[q[k]] = r
      <4>1. q[k] \in Cells /\ q[k] \in S /\ cellState'[q[k]] = cellState[q[k]]
        BY <1>5, <1>6, <3>1
      <4>2. PICK i \in DOMAIN request[r] : request[r][i] = q[k]
        BY <1>6 DEF Owned
      <4>. QED  BY <1>4, <4>1, <4>2
    <3>2. \A c \in Cells : fate[<<r, c>>] = "none"
      BY DEF QueueInv, RequestsOK, Waiting
    <3>. QED  BY <2>1, <3>1, <3>2, <1>2, <1>3, <1>6 DEF Waiting
  <2>2. CASE o # r
    <3>1. phase'[o] = phase[o] /\ request'[o] = request[o]
      BY <2>2, <1>2, <1>3
    <3>2. ASSUME phase[o] \in Waiting, NEW i \in DOMAIN request[o]
          PROVE  cellState'[request[o][i]] = "Unconfirmed" /\ owner[request[o][i]] = o
      <4>1. cellState[request[o][i]] = "Unconfirmed" /\ owner[request[o][i]] = o /\ request[o][i] \in Cells
        BY <3>2, <1>1 DEF QueueInv, RequestsOK
      <4>. QED  BY <4>1, <2>2, <1>5
    <3>. QED  BY <3>1, <3>2 DEF QueueInv, RequestsOK
  <2>. QED  BY <2>1, <2>2
<1>11. NothingLeftSpinning' /\ OwnedOK'
  <2>1. ASSUME NEW c \in Cells, cellState'[c] # "none"
        PROVE  /\ owner[c] \in Requests /\ phase'[owner[c]] \notin {"unused", "done"}
               /\ cellState'[c] = "Executing" => phase'[owner[c]] = "queued"
               /\ phase'[owner[c]] = "resolving" => \E i \in DOMAIN request'[owner[c]] : request'[owner[c]][i] = c
    <3>1. cellState[c] = cellState'[c]
      BY <2>1, <1>5
    <3>2. /\ owner[c] \in Requests /\ phase[owner[c]] \notin {"unused", "done"}
          /\ cellState[c] = "Executing" => phase[owner[c]] = "queued"
          /\ phase[owner[c]] = "resolving" => Owned(owner[c], c)
      BY <2>1, <3>1 DEF QueueInv, NothingLeftSpinning, OwnedOK
    <3>3. CASE owner[c] = r
      <4>1. Owned(r, c)
        BY <3>2, <3>3
      <4>2. c \in S
        BY <4>1, <2>1, <1>5
      <4>3. p = "prepared"
        BY <4>1, <4>2 DEF Subrequest
      <4>4. cellState[c] = "Unconfirmed"
        BY <4>1, <1>4 DEF Owned
      <4>. QED  BY <4>3, <4>4, <3>1, <3>2, <3>3, <1>3
    <3>4. CASE owner[c] # r
      BY <3>1, <3>2, <3>4, <1>2, <1>3 DEF Owned
    <3>. QED  BY <3>3, <3>4
  <2>. QED  BY <2>1 DEF NothingLeftSpinning, OwnedOK, Owned
<1>12. OrderOK'
  <2>1. (\A e : Touched(e)' = Touched(e)) /\ (\A e, f : Before(e, f)' = Before(e, f))
    BY DEF Touched, Before
  <2>2. ASSUME NEW k \in DOMAIN q PROVE ~ Touched(<<r, q[k]>>)
    <3>1. fate[<<r, q[k]>>] = "none" /\ <<r, q[k]>>[1] = r
      BY <1>6, ExecutionsAre DEF QueueInv, RequestsOK, Waiting
    <3>2. \A i \in DOMAIN chain : chain[i][1] # r
      BY DEF QueueInv, ChainOK
    <3>. QED  BY <3>1, <3>2 DEF Touched
  <2>. SUFFICES ASSUME NEW o \in Requests, NEW i \in DOMAIN request'[o], NEW j \in DOMAIN request'[o],
                       i < j, Touched(<<o, request'[o][j]>>)
                PROVE  \/ fate[<<o, request'[o][i]>>] \in {"ok", "skipped"}
                       \/ request'[o][i] \in gone
                       \/ /\ fate[<<o, request'[o][j]>>] = "none"
                          /\ Before(<<o, request'[o][i]>>, <<o, request'[o][j]>>)
    BY <2>1 DEF OrderOK
  <2>3. o # r
    BY <2>2, <1>2
  <2>4. request'[o] = request[o]
    BY <2>3, <1>2
  <2>. QED  BY <2>4 DEF QueueInv, OrderOK
<1>. QED  BY <1>2, <1>8, <1>9, <1>10, <1>11, <1>12 DEF QueueInv

-----------------------------------------------------------------------------
(* The actions. *)

CallTypes ==
    /\ request \in [Requests -> Seq(Cells)]
    /\ phase \in [Requests -> Phases]
    /\ session \in [Requests -> Sessions \cup {NoSession}]
    /\ cellState \in [Cells -> CellStates]
    /\ owner \in [Cells -> Requests \cup {0}]
    /\ gone \subseteq Cells
QueueTypes ==
    /\ chain \in Seq(Executions)
    /\ running \in Executions \cup {None}
    /\ pending \in Executions \cup {None}
    /\ fate \in [Executions -> {"none", "skipped", "sent", "ok", "error"}]
SessionTypes ==
    /\ kernelMap \in Sessions \cup {NoSession}
    /\ listening \subseteq Sessions
    /\ live \in Sessions \cup {NoSession}
    /\ state \in [Sessions -> SessionStates]
    /\ started \in 0..MaxSessions
    /\ ended \subseteq Sessions
    /\ losses \in 0..MaxLosses /\ cancels \in 0..MaxCancels

\* The type invariant, by the groups of variables the actions change together.
LEMMA TypeParts == TypeOK <=> CallTypes /\ QueueTypes /\ SessionTypes /\ answer \in BOOLEAN
BY Zenon DEF TypeOK, CallTypes, QueueTypes, SessionTypes, CellStates

\* The same, after a step.
LEMMA TypePartsNext == TypeOK' <=> CallTypes' /\ QueueTypes' /\ SessionTypes' /\ answer' \in BOOLEAN
BY Zenon DEF TypeOK, CallTypes, QueueTypes, SessionTypes, CellStates

\* A step keeps the types of the variables it leaves alone.
LEMMA TypesKept ==
    ASSUME TypeOK
    PROVE  /\ UNCHANGED <<noteVars, callVars>> => CallTypes'
           /\ UNCHANGED <<queueVars, fate>> => QueueTypes'
           /\ UNCHANGED <<mapVars, sessionVars, cancels>> => SessionTypes'
           /\ UNCHANGED answer => answer' \in BOOLEAN
<1>1. CallTypes /\ QueueTypes /\ SessionTypes /\ answer \in BOOLEAN
  BY TypeParts
<1>2. UNCHANGED <<noteVars, callVars>> => CallTypes'
  BY <1>1 DEF CallTypes, noteVars, callVars
<1>3. UNCHANGED <<queueVars, fate>> => QueueTypes'
  BY <1>1 DEF QueueTypes, queueVars
<1>4. UNCHANGED <<mapVars, sessionVars, cancels>> => SessionTypes'
  BY <1>1 DEF SessionTypes, mapVars, sessionVars
<1>5. UNCHANGED answer => answer' \in BOOLEAN
  BY <1>1, Zenon
<1>. QED  BY <1>2, <1>3, <1>4, <1>5

\* Who waits for a session before the step waited for the same one before it,
\* and whoever has got one has got one that was started.
SessionsKept ==
    \A o \in Requests :
        /\ phase'[o] \in {"starting", "resolved"} => phase[o] \in {"starting", "resolved"} /\ session'[o] = session[o]
        /\ session'[o] = session[o] \/ session'[o] <= started

\* A step that leaves the map and the sessions alone keeps what relates them.
LEMMA MapKept ==
    ASSUME MapOK, UNCHANGED <<mapVars, sessionVars>>, SessionsKept
    PROVE  MapOK'
BY DEF MapOK, SessionsKept, mapVars, sessionVars

\* A step that changes neither sessions nor phases beyond Moves.
LEMMA SessionStep ==
    ASSUME Inv, MapOK', SessionTypes', answer' \in BOOLEAN, phase' \in [Requests -> Phases],
           session' \in [Requests -> Sessions \cup {NoSession}],
           \A r \in Requests : Moves(r),
           UNCHANGED <<noteVars, queueVars, fate>>
    PROVE  Inv'
<1>1. TypeOK /\ QueueInv /\ chain \in Seq(Executions) /\ CallTypes
  BY TypeParts DEF Inv, TypeOK
<1>2. CallTypes' /\ QueueTypes'
  <2>1. CallTypes'
    BY <1>1 DEF CallTypes, noteVars
  <2>. QED  BY <1>1, <2>1, TypesKept
<1>3. TypeOK'
  BY ONLY <1>2, SessionTypes', answer' \in BOOLEAN, TypePartsNext
<1>4. QueueInv'
  BY <1>1, RequestsMove DEF noteVars, queueVars
<1>. QED  BY <1>3, <1>4 DEF Inv

\* executeNotebookCells gives executions to the cells that have none.
LEMMA ExecuteNotebookCellsKeeps ==
    ASSUME Inv, NEW r \in Requests, NEW q \in Selections, ExecuteNotebookCells(r, q)
    PROVE  Inv'
<1>1. TypeOK /\ QueueInv /\ MapOK
  BY DEF Inv
<1>2. request' \in [Requests -> Seq(Cells)] /\ QueueInv'
  BY <1>1, RequestBegins
<1>3. phase' = [phase EXCEPT ![r] = "resolving"] /\ phase \in [Requests -> Phases] /\ phase' \in [Requests -> Phases]
  BY <1>1 DEF ExecuteNotebookCells, TypeOK, Phases
<1>4. cellState' \in [Cells -> CellStates] /\ owner' \in [Cells -> Requests \cup {0}]
  BY <1>1 DEF ExecuteNotebookCells, TypeOK, CellStates
<1>5. UNCHANGED <<gone, session, queueVars, mapVars, sessionVars, answer, fate, cancels>>
  BY DEF ExecuteNotebookCells
<1>6. CallTypes'
  BY <1>1, <1>2, <1>3, <1>4, <1>5 DEF CallTypes, TypeOK
<1>7. TypeOK'
  BY <1>1, <1>5, <1>6, TypesKept, TypePartsNext
<1>8. MapOK'
  <2>1. SessionsKept
    BY <1>3, <1>5 DEF SessionsKept
  <2>. QED  BY <1>1, <1>5, <2>1, MapKept
<1>. QED  BY <1>2, <1>7, <1>8 DEF Inv

\* A kernel is found for a request or not.
Shrinks(q, r, S, p) ==
    /\ phase[r] = "resolving" /\ p \in {"prepared", "done"} /\ Subrequest(q, r, S, p)
    /\ request' = [request EXCEPT ![r] = q]
    /\ phase' = [phase EXCEPT ![r] = p]
    /\ cellState' = [c \in Cells |-> IF Owned(r, c) /\ c \notin S THEN "none" ELSE cellState[c]]
    /\ UNCHANGED <<owner, gone, session, queueVars, mapVars, sessionVars, answer, fate, cancels>>

\* The cells whose executions go on, when a kernel is found or not.
LEMMA RequestShrinksKeeps ==
    ASSUME Inv, NEW r \in Requests, NEW q, NEW S, NEW p, Shrinks(q, r, S, p)
    PROVE  Inv'
<1>0. /\ phase[r] = "resolving" /\ p \in {"prepared", "done"} /\ Subrequest(q, r, S, p)
      /\ request' = [request EXCEPT ![r] = q]
      /\ phase' = [phase EXCEPT ![r] = p]
      /\ cellState' = [c \in Cells |-> IF Owned(r, c) /\ c \notin S THEN "none" ELSE cellState[c]]
      /\ UNCHANGED <<owner, gone, session, queueVars, mapVars, sessionVars, answer, fate, cancels>>
  BY DEF Shrinks
<1>1. TypeOK /\ QueueInv /\ MapOK /\ CallTypes
  BY TypeParts DEF Inv
<1>2. request' \in [Requests -> Seq(Cells)] /\ QueueInv'
  <2>1. UNCHANGED <<owner, gone, chain, running, pending, fate>>
    BY <1>0 DEF queueVars
  <2>. QED  BY <1>0, <1>1, <2>1, RequestShrinks
<1>3. phase' \in [Requests -> Phases] /\ cellState' \in [Cells -> CellStates]
  BY <1>0, <1>1 DEF CallTypes, Phases, CellStates
<1>4. CallTypes'
  BY <1>0, <1>1, <1>2, <1>3 DEF CallTypes
<1>5. TypeOK'
  BY <1>0, <1>1, <1>4, TypesKept, TypePartsNext
<1>6. MapOK'
  <2>1. SessionsKept
    BY <1>0, <1>1 DEF SessionsKept, CallTypes
  <2>. QED  BY <1>0, <1>1, <2>1, MapKept
<1>. QED  BY <1>2, <1>5, <1>6 DEF Inv

\* A kernel is found: the cells it does not support are completed.
LEMMA ResolveKernelKeeps ==
    ASSUME Inv, NEW r \in Requests, ResolveKernel(r)
    PROVE  Inv'
<1>. DEFINE S == Cells \ ForeignCells
            valid == Kept(request[r], S)
            p == IF valid = <<>> THEN "done" ELSE "prepared"
<1>1. request[r] \in Seq(Cells) /\ \A i, j \in DOMAIN request[r] : request[r][i] = request[r][j] => i = j
  BY DEF Inv, TypeOK, QueueInv, RequestsOK
<1>2. KeptFact(valid, request[r], Cells, S, Len(request[r]))
  BY <1>1, KeptIsSubsequence
<1>3. /\ phase[r] = "resolving" /\ request' = [request EXCEPT ![r] = valid]
      /\ phase' = [phase EXCEPT ![r] = p]
      /\ cellState' = [c \in Cells |->
              IF c \in Range(request[r]) \cap ForeignCells THEN "none" ELSE cellState[c]]
      /\ UNCHANGED <<owner, gone, session, queueVars, mapVars, sessionVars, answer, fate, cancels>>
  BY DEF ResolveKernel
<1>4. \A c \in Cells : c \in Range(request[r]) \cap ForeignCells <=> Owned(r, c) /\ c \notin S
  BY DEF Range, Owned
<1>5. cellState' = [c \in Cells |-> IF Owned(r, c) /\ c \notin S THEN "none" ELSE cellState[c]]
  BY <1>3, <1>4
<1>. HIDE DEF valid, S
<1>6. p \in {"prepared", "done"} /\ (p = "done" => DOMAIN valid = {})
  OBVIOUS
<1>. HIDE DEF p
<1>7. Subrequest(valid, r, S, p)
  <2>1. DOMAIN request[r] = 1..Len(request[r])
    BY <1>1
  <2>. QED  BY ONLY <1>2, <1>6, <2>1 DEF KeptFact, Subrequest, Owned
<1>8. Shrinks(valid, r, S, p)
  BY <1>3, <1>5, <1>6, <1>7 DEF Shrinks
<1>. QED  BY <1>8, RequestShrinksKeeps, Zenon

\* No kernel is found: the executions of the request are over.
LEMMA NoKernelKeeps ==
    ASSUME Inv, NEW r \in Requests, NoKernel(r)
    PROVE  Inv'
<1>1. request \in [Requests -> Seq(Cells)] /\ \A i, j \in DOMAIN request[r] : request[r][i] = request[r][j] => i = j
  BY DEF Inv, TypeOK, QueueInv, RequestsOK
<1>2. /\ phase[r] = "resolving" /\ phase' = [phase EXCEPT ![r] = "done"]
      /\ cellState' = [c \in Cells |-> IF c \in Range(request[r]) THEN "none" ELSE cellState[c]]
      /\ UNCHANGED <<request, owner, gone, session, queueVars, mapVars, sessionVars, answer, fate, cancels>>
  BY DEF NoKernel
<1>3. \A c \in Cells : c \in Range(request[r]) <=> Owned(r, c) /\ c \notin {}
  BY DEF Range, Owned
<1>4. cellState' = [c \in Cells |-> IF Owned(r, c) /\ c \notin {} THEN "none" ELSE cellState[c]]
  BY <1>2, <1>3
<1>5. request' = [request EXCEPT ![r] = request[r]]
  BY <1>1, <1>2
<1>6. Subrequest(request[r], r, {}, "done")
  BY <1>1 DEF Subrequest, Owned
<1>7. "done" \in {"prepared", "done"} /\ UNCHANGED <<owner, gone, session, queueVars, mapVars, sessionVars, answer, fate, cancels>>
  BY <1>2
<1>8. phase[r] = "resolving" /\ phase' = [phase EXCEPT ![r] = "done"]
  BY <1>2
<1>9. Shrinks(request[r], r, {}, "done")
  BY ONLY <1>4, <1>5, <1>6, <1>7, <1>8 DEF Shrinks
<1>. QED  BY <1>9, RequestShrinksKeeps, Zenon

\* executeNotebookCells throws before the kernel has the cells.
LEMMA ExecuteThrowsKeeps ==
    ASSUME Inv, NEW r \in Requests, ExecuteThrows(r)
    PROVE  Inv'
<1>1. TypeOK /\ MapOK /\ phase \in [Requests -> Phases] /\ session \in [Requests -> Sessions \cup {NoSession}]
  BY DEF Inv, TypeOK
<1>2. /\ phase[r] \in {"resolving", "prepared"} /\ phase' = [phase EXCEPT ![r] = "threw"]
      /\ UNCHANGED <<noteVars, session, queueVars, mapVars, sessionVars, answer, fate, cancels>>
  BY DEF ExecuteThrows
<1>3. phase' \in [Requests -> Phases] /\ \A o \in Requests : phase'[o] = IF o = r THEN "threw" ELSE phase[o]
  BY <1>1, <1>2 DEF Phases
<1>4. \A o \in Requests : Moves(o)
  BY <1>2, <1>3 DEF Moves, Waiting
<1>5. SessionsKept
  BY <1>2, <1>3 DEF SessionsKept
<1>6. MapOK'
  BY <1>1, <1>2, <1>5, MapKept
<1>7. SessionTypes' /\ answer' \in BOOLEAN
  BY <1>1, <1>2, TypesKept
<1>. QED  BY <1>1, <1>2, <1>3, <1>4, <1>6, <1>7, SessionStep

\* The phases and sessions after a request has returned or queued its cells.
QueuedFact(r) ==
    \A o \in Requests :
        phase'[o] \in {"starting", "resolved"} => phase'[o] = phase[o] /\ o # r

\* The cells of a request are queued with a session.
LEMMA QueueCellsKeeps ==
    ASSUME TypeOK, QueueInv, NEW r \in Requests, phase[r] \in Waiting, NEW s \in Sessions,
           QueueCells(r, s), UNCHANGED <<request, owner, gone, running, pending, fate>>
    PROVE  /\ QueueInv' /\ QueueTypes' /\ CallTypes' /\ QueuedFact(r)
           /\ \A o \in Requests : session'[o] = IF o = r THEN s ELSE session[o]
<1>. DEFINE ph == [phase EXCEPT ![r] = "queued"]
<1>1. CallTypes /\ QueueTypes
  BY TypeParts
<1>2. /\ session' = [session EXCEPT ![r] = s]
      /\ chain' = chain \o Entries(r, Kept(request[r], Cells \ gone))
      /\ ReturnRequests(chain', ph, cellState)
  BY DEF QueueCells, Entries
<1>3. chain' \in Seq(Executions) /\ QueueInv'
  BY <1>2, QueuesCells
<1>4. ph \in [Requests -> Phases] /\ \A o \in Requests : ph[o] = IF o = r THEN "queued" ELSE phase[o]
  BY <1>1 DEF Phases, CallTypes
<1>. HIDE DEF ph
<1>5. phase' \in [Requests -> Phases] /\ cellState' \in [Cells -> CellStates] /\ ReturnFact(chain', ph, cellState)
  <2>1. cellState \in [Cells -> CellStates] /\ owner \in [Cells -> Requests \cup {0}]
    BY <1>1 DEF CallTypes
  <2>. QED  BY <1>2, <1>3, <1>4, <2>1, Returned, Zenon
<1>6. QueuedFact(r)
  <2>1. ASSUME NEW o \in Requests, phase'[o] \in {"starting", "resolved"} PROVE phase'[o] = phase[o] /\ o # r
    <3>1. phase'[o] = ph[o]
      BY <1>5, <2>1 DEF ReturnFact
    <3>. QED  BY <1>4, <2>1, <3>1
  <2>. QED  BY <2>1 DEF QueuedFact
<1>7. session' \in [Requests -> Sessions \cup {NoSession}] /\ \A o \in Requests : session'[o] = IF o = r THEN s ELSE session[o]
  BY <1>1, <1>2 DEF CallTypes
<1>8. CallTypes' /\ QueueTypes'
  BY <1>1, <1>3, <1>5, <1>7 DEF CallTypes, QueueTypes
<1>. QED  BY <1>3, <1>6, <1>7, <1>8

\* A request queues its cells at once, or asks for a session.
LEMMA ExecuteNotebookCellsRequestKeeps ==
    ASSUME Inv, NEW r \in Requests, ExecuteNotebookCellsRequest(r)
    PROVE  Inv'
<1>1. TypeOK /\ QueueInv /\ MapOK /\ phase[r] = "prepared" /\ phase[r] \in Waiting
      /\ phase \in [Requests -> Phases] /\ session \in [Requests -> Sessions \cup {NoSession}]
      /\ kernelMap \in Sessions \cup {NoSession}
  BY DEF Inv, TypeOK, ExecuteNotebookCellsRequest, Waiting
<1>2. UNCHANGED <<request, owner, gone, running, pending, mapVars, sessionVars, answer, fate, cancels>>
  BY DEF ExecuteNotebookCellsRequest
<1>3. SessionTypes' /\ answer' \in BOOLEAN
  BY <1>1, <1>2, TypesKept
<1>4. CASE kernelMap # NoSession
  <2>1. QueueCells(r, kernelMap) /\ kernelMap \in Sessions
    BY <1>1, <1>4 DEF ExecuteNotebookCellsRequest
  <2>2. /\ QueueInv' /\ QueueTypes' /\ CallTypes' /\ QueuedFact(r)
        /\ \A o \in Requests : session'[o] = IF o = r THEN kernelMap ELSE session[o]
    BY <1>1, <1>2, <2>1, QueueCellsKeeps
  <2>3. SessionsKept
    BY <1>1, <2>2 DEF SessionsKept, QueuedFact, MapOK
  <2>4. MapOK'
    BY <1>1, <1>2, <2>3, MapKept
  <2>. QED  BY <1>3, <2>2, <2>4, TypePartsNext DEF Inv
<1>5. CASE kernelMap = NoSession
  <2>1. phase' = [phase EXCEPT ![r] = "selecting"] /\ UNCHANGED <<session, chain, cellState>>
    BY <1>5 DEF ExecuteNotebookCellsRequest
  <2>2. phase' \in [Requests -> Phases] /\ \A o \in Requests : phase'[o] = IF o = r THEN "selecting" ELSE phase[o]
    BY <1>1, <2>1 DEF Phases
  <2>3. \A o \in Requests : Moves(o)
    BY <1>1, <2>2 DEF Moves, Waiting
  <2>4. SessionsKept
    BY <2>1, <2>2 DEF SessionsKept
  <2>5. MapOK'
    BY <1>1, <1>2, <2>4, MapKept
  <2>6. UNCHANGED <<noteVars, queueVars, fate>> /\ session' \in [Requests -> Sessions \cup {NoSession}]
    BY <1>1, <1>2, <2>1 DEF noteVars, queueVars
  <2>. QED  BY <1>3, <2>2, <2>3, <2>5, <2>6, SessionStep
<1>. QED  BY <1>4, <1>5

\* The kernel is selected.
LEMMA SelectKernelKeeps ==
    ASSUME Inv, NEW r \in Requests, SelectKernel(r)
    PROVE  Inv'
<1>1. TypeOK /\ MapOK /\ phase \in [Requests -> Phases] /\ session \in [Requests -> Sessions \cup {NoSession}]
  BY DEF Inv, TypeOK
<1>2. /\ phase[r] = "unused" /\ phase' = [phase EXCEPT ![r] = "selecting"]
      /\ UNCHANGED <<noteVars, session, queueVars, mapVars, sessionVars, answer, fate, cancels>>
  BY DEF SelectKernel
<1>3. phase' \in [Requests -> Phases] /\ \A o \in Requests : phase'[o] = IF o = r THEN "selecting" ELSE phase[o]
  BY <1>1, <1>2 DEF Phases
<1>4. \A o \in Requests : Moves(o)
  BY <1>2, <1>3 DEF Moves
<1>5. SessionsKept
  BY <1>2, <1>3 DEF SessionsKept
<1>6. MapOK'
  BY <1>1, <1>2, <1>5, MapKept
<1>7. SessionTypes' /\ answer' \in BOOLEAN
  BY <1>1, <1>2, TypesKept
<1>. QED  BY <1>1, <1>2, <1>3, <1>4, <1>6, <1>7, SessionStep

\* The session service starts a session, which nobody knows yet.
LEMMA StartSessionKeeps ==
    ASSUME Inv, StartSession
    PROVE  Inv'
<1>1. TypeOK /\ MapOK /\ SessionTypes /\ phase \in [Requests -> Phases] /\ session \in [Requests -> Sessions \cup {NoSession}]
  BY TypeParts DEF Inv, TypeOK
<1>2. /\ started < MaxSessions /\ started' = started + 1 /\ live' = started'
      /\ \E st \in SessionStates : state' = [state EXCEPT ![started'] = st]
      /\ losses' = losses \/ (losses < MaxLosses /\ losses' = losses + 1)
      /\ UNCHANGED <<noteVars, callVars, queueVars, mapVars, ended, answer, fate, cancels>>
  BY DEF StartSession, SessionStates
<1>3. started \in Nat /\ started + 1 \in Sessions /\ started' \in 0..MaxSessions
  BY <1>1, <1>2, NotebookBoundsAssumption DEF SessionTypes, Sessions
<1>4. SessionTypes'
  BY <1>1, <1>2, <1>3, NotebookBoundsAssumption DEF SessionTypes, mapVars
<1>5. MapOK'
  <2>1. \A s \in Sessions : s # started' => state'[s] = state[s]
    BY <1>1, <1>2, <1>3 DEF SessionTypes
  <2>2. \A s \in Sessions : state'[s] # "none" => s <= started'
    BY <1>1, <1>2, <1>3, <2>1 DEF MapOK, Sessions
  <2>3. kernelMap \in Nat /\ \A o \in Requests : session[o] \in Nat
    BY <1>1 DEF SessionTypes, Sessions, NoSession
  <2>. QED  BY <1>1, <1>2, <1>3, <2>2, <2>3 DEF MapOK, mapVars, callVars
<1>6. answer' \in BOOLEAN
  BY <1>1, <1>2, TypesKept
<1>7. \A o \in Requests : Moves(o)
  BY <1>2 DEF Moves, callVars
<1>. QED  BY <1>1, <1>2, <1>4, <1>5, <1>6, <1>7, SessionStep DEF callVars

\* A session is registered with its listeners, and the cells are queued.
LEMMA RegisterKeeps ==
    ASSUME Inv, NEW r \in Requests, phase[r] \in Waiting, NEW s \in Sessions, s <= started, Register(r, s),
           UNCHANGED <<request, owner, gone, running, pending, sessionVars, answer, fate, cancels>>
    PROVE  Inv'
<1>1. TypeOK /\ QueueInv /\ MapOK /\ SessionTypes
  BY TypeParts DEF Inv
<1>2. kernelMap' = s /\ listening' = listening \cup {s} /\ QueueCells(r, s)
  BY DEF Register
<1>3. /\ QueueInv' /\ QueueTypes' /\ CallTypes' /\ QueuedFact(r)
      /\ \A o \in Requests : session'[o] = IF o = r THEN s ELSE session[o]
  BY <1>1, <1>2, QueueCellsKeeps
<1>4. SessionTypes' /\ answer' \in BOOLEAN
  <2>1. answer' \in BOOLEAN
    BY <1>1, TypesKept
  <2>. QED  BY <1>1, <1>2, <2>1 DEF SessionTypes, sessionVars
<1>5. TypeOK'
  BY <1>3, <1>4, TypePartsNext
<1>6. MapOK'
  BY <1>1, <1>2, <1>3 DEF MapOK, QueuedFact, sessionVars
<1>. QED  BY <1>3, <1>5, <1>6 DEF Inv

\* A request gets the session that is live.
LEMMA SelectedKeeps ==
    ASSUME Inv, NEW r \in Requests, Selected(r)
    PROVE  Inv'
<1>1. live \in Sessions /\ live <= started
  BY DEF Inv, TypeOK, MapOK, Selected
<1>2. /\ phase[r] \in Waiting /\ Register(r, live)
      /\ UNCHANGED <<request, owner, gone, running, pending, sessionVars, answer, fate, cancels>>
  BY DEF Selected, Waiting
<1>. QED  BY <1>1, <1>2, RegisterKeeps

\* A request gets a session that is starting, and waits for it.
LEMMA SelectedStartingKeeps ==
    ASSUME Inv, NEW r \in Requests, SelectedStarting(r)
    PROVE  Inv'
<1>1. TypeOK /\ MapOK /\ phase \in [Requests -> Phases] /\ session \in [Requests -> Sessions \cup {NoSession}]
      /\ live \in Sessions \cup {NoSession}
  BY DEF Inv, TypeOK
<1>2. /\ phase[r] = "selecting" /\ live # NoSession
      /\ session' = [session EXCEPT ![r] = live] /\ phase' = [phase EXCEPT ![r] = "starting"]
      /\ UNCHANGED <<noteVars, queueVars, mapVars, sessionVars, answer, fate, cancels>>
  BY DEF SelectedStarting
<1>3. /\ phase' \in [Requests -> Phases]
      /\ \A o \in Requests : phase'[o] = IF o = r THEN "starting" ELSE phase[o]
  BY <1>1, <1>2 DEF Phases
<1>4. /\ session' \in [Requests -> Sessions \cup {NoSession}]
      /\ \A o \in Requests : session'[o] = IF o = r THEN live ELSE session[o]
  BY <1>1, <1>2
<1>5. \A o \in Requests : Moves(o)
  BY <1>2, <1>3 DEF Moves, Waiting
<1>6. MapOK'
  BY <1>1, <1>2, <1>3, <1>4 DEF MapOK, mapVars, sessionVars
<1>7. SessionTypes' /\ answer' \in BOOLEAN
  BY <1>1, <1>2, TypesKept
<1>. QED  BY <1>2, <1>3, <1>4, <1>5, <1>6, <1>7, SessionStep

\* A request gets no session and returns.
LEMMA SelectFailsKeeps ==
    ASSUME Inv, NEW r \in Requests, SelectFails(r)
    PROVE  Inv'
<1>. DEFINE ph == [phase EXCEPT ![r] = "queued"]
<1>1. TypeOK /\ QueueInv /\ MapOK /\ CallTypes /\ chain \in Seq(Executions) /\ phase[r] \in Waiting
  BY TypeParts DEF Inv, TypeOK, SelectFails, Waiting
<1>2. /\ ReturnRequests(chain, ph, cellState)
      /\ UNCHANGED <<request, owner, gone, session, queueVars, mapVars, sessionVars, answer, fate, cancels>>
  BY DEF SelectFails
<1>3. QueueInv'
  BY <1>1, <1>2, RequestFails DEF queueVars
<1>4. ph \in [Requests -> Phases] /\ \A o \in Requests : ph[o] = IF o = r THEN "queued" ELSE phase[o]
  BY <1>1 DEF Phases, CallTypes
<1>. HIDE DEF ph
<1>5. phase' \in [Requests -> Phases] /\ cellState' \in [Cells -> CellStates] /\ ReturnFact(chain, ph, cellState)
  <2>1. cellState \in [Cells -> CellStates] /\ owner \in [Cells -> Requests \cup {0}]
    BY <1>1 DEF CallTypes
  <2>. QED  BY <1>1, <1>2, <1>4, <2>1, Returned, Zenon
<1>6. CallTypes'
  BY <1>1, <1>2, <1>5 DEF CallTypes
<1>7. TypeOK'
  BY <1>1, <1>2, <1>6, TypesKept, TypePartsNext
<1>8. SessionsKept
  <2>1. ASSUME NEW o \in Requests, phase'[o] \in {"starting", "resolved"} PROVE phase[o] \in {"starting", "resolved"}
    <3>1. phase'[o] = ph[o]
      BY <1>5, <2>1 DEF ReturnFact
    <3>. QED  BY <1>4, <2>1, <3>1
  <2>. QED  BY <1>2, <2>1 DEF SessionsKept
<1>9. MapOK'
  BY <1>1, <1>2, <1>8, MapKept
<1>. QED  BY <1>3, <1>7, <1>9 DEF Inv

\* The session that was awaited is registered, and the cells are queued.
LEMMA ContinueKeeps ==
    ASSUME Inv, NEW r \in Requests, Continue(r)
    PROVE  Inv'
<1>1. session[r] \in Sessions /\ session[r] <= started
  BY DEF Inv, TypeOK, MapOK, Continue
<1>2. /\ phase[r] \in Waiting /\ Register(r, session[r])
      /\ UNCHANGED <<request, owner, gone, running, pending, sessionVars, answer, fate, cancels>>
  BY DEF Continue, Waiting
<1>. QED  BY <1>1, <1>2, RegisterKeeps

\* The listeners of a session remove whatever is in the map; a session without
\* listeners is not in it.
LEMMA Disposed ==
    ASSUME TypeOK, MapOK, NEW s \in Sessions, Dispose(s)
    PROVE  /\ kernelMap' \in Sessions \cup {NoSession} /\ listening' \subseteq Sessions
           /\ kernelMap' # NoSession => kernelMap' \in listening'
           /\ kernelMap' <= started /\ kernelMap' # s
<1>1. s # NoSession /\ started \in Nat
  BY NotebookBoundsAssumption DEF TypeOK, Sessions, NoSession
<1>. QED  BY <1>1 DEF TypeOK, MapOK, Dispose, mapVars, NoSession

\* A dead process gives an answer or none.
LEMMA ProcessTypes ==
    ASSUME TypeOK, NEW s, ProcessIsGone(s)
    PROVE  answer' \in BOOLEAN
<1>1. answer \in BOOLEAN
  BY TypeParts
<1>2. answer' \in {FALSE, answer} \/ answer' \in {answer}
  BY Zenon DEF ProcessIsGone
<1>. QED  BY <1>1, <1>2, Zenon

\* What an event of a session does to the session service and the map.
EventOf(s) ==
    /\ state[s] # "none"
    /\ state' = state \/ \E st \in SessionStates : state' = [state EXCEPT ![s] = st]
    /\ live' \in {live, NoSession, s}
    /\ UNCHANGED <<started, cancels>>
    /\ ended' = ended \ {s} \/ ended' = ended \cup {s} \/ ended' = ended
    /\ losses' = losses \/ (losses < MaxLosses /\ losses' = losses + 1)
    /\ Dispose(s) \/ UNCHANGED mapVars

\* An event of a session keeps the invariant.
LEMMA EventKeeps ==
    ASSUME Inv, NEW s \in Sessions, EventOf(s), answer' \in BOOLEAN,
           phase' \in [Requests -> Phases], \A r \in Requests : Moves(r),
           \A r \in Requests : phase'[r] \in {"starting", "resolved"} => phase[r] \in {"starting", "resolved"},
           UNCHANGED <<noteVars, session, queueVars, fate>>
    PROVE  Inv'
<1>1. TypeOK /\ MapOK /\ SessionTypes /\ session \in [Requests -> Sessions \cup {NoSession}]
  BY TypeParts DEF Inv, TypeOK
<1>2. /\ kernelMap' \in Sessions \cup {NoSession} /\ listening' \subseteq Sessions
      /\ kernelMap' # NoSession => kernelMap' \in listening'
      /\ kernelMap' <= started
  <2>1. CASE Dispose(s)
    BY <1>1, <2>1, Disposed
  <2>2. CASE UNCHANGED mapVars
    BY <1>1, <2>2 DEF SessionTypes, MapOK, mapVars
  <2>. QED  BY <2>1, <2>2 DEF EventOf
<1>3. state' \in [Sessions -> SessionStates] /\ \A t \in Sessions : t # s => state'[t] = state[t]
  BY <1>1 DEF EventOf, SessionTypes
<1>4. s <= started /\ NoSession <= started
  BY <1>1 DEF EventOf, MapOK, SessionTypes, NoSession
<1>5. live' \in Sessions \cup {NoSession} /\ live' <= started /\ started' = started
  BY <1>1, <1>4 DEF EventOf, MapOK, SessionTypes
<1>6. losses' \in 0..MaxLosses /\ ended' \subseteq Sessions /\ cancels' = cancels
  BY <1>1, NotebookBoundsAssumption DEF EventOf, SessionTypes
<1>7. SessionTypes'
  BY <1>1, <1>2, <1>3, <1>5, <1>6 DEF SessionTypes
<1>8. MapOK'
  BY <1>1, <1>2, <1>3, <1>4, <1>5 DEF MapOK
<1>9. session' \in [Requests -> Sessions \cup {NoSession}]
  BY <1>1
<1>. QED  BY <1>7, <1>8, <1>9, SessionStep

\* Whoever waits for a session that becomes ready goes on.
LEMMA SessionReadyKeeps ==
    ASSUME Inv, NEW s \in Sessions, SessionReady(s)
    PROVE  Inv'
<1>1. TypeOK /\ phase \in [Requests -> Phases]
  BY DEF Inv, TypeOK
<1>2. /\ phase' = [r \in Requests |-> IF phase[r] = "starting" /\ session[r] = s THEN "resolved" ELSE phase[r]]
      /\ UNCHANGED <<noteVars, session, queueVars, fate, answer>>
  BY DEF SessionReady
<1>3. phase' \in [Requests -> Phases]
  BY <1>1, <1>2 DEF Phases
<1>4. /\ \A r \in Requests : Moves(r)
      /\ \A r \in Requests : phase'[r] \in {"starting", "resolved"} => phase[r] \in {"starting", "resolved"}
  BY <1>2 DEF Moves, Waiting
<1>5. EventOf(s)
  <2>1. "Ready" \in SessionStates /\ state[s] = "Starting" /\ state' = [state EXCEPT ![s] = "Ready"]
    BY DEF SessionReady, SessionStates
  <2>. QED  BY <2>1 DEF SessionReady, EventOf
<1>6. answer' \in BOOLEAN
  BY <1>1, <1>2, TypesKept
<1>. QED  BY <1>2, <1>3, <1>4, <1>5, <1>6, EventKeeps

\* An event of a session that nobody waits for.
LEMMA OtherEventKeeps ==
    ASSUME Inv, NEW s \in Sessions, EventOf(s), answer' \in BOOLEAN,
           UNCHANGED <<noteVars, callVars, queueVars, fate>>
    PROVE  Inv'
<1>1. phase \in [Requests -> Phases]
  BY DEF Inv, TypeOK
<1>2. phase' = phase /\ session' = session
  BY DEF callVars
<1>3. \A r \in Requests : Moves(r)
  BY <1>2 DEF Moves
<1>. QED  BY <1>1, <1>2, <1>3, EventKeeps

\* A session restarts.
LEMMA SessionRestartsKeeps ==
    ASSUME Inv, NEW s \in Sessions, SessionRestarts(s)
    PROVE  Inv'
<1>1. "Restarting" \in SessionStates /\ state[s] # "none"
  BY DEF SessionStates, SessionRestarts
<1>2. EventOf(s)
  BY <1>1 DEF SessionRestarts, EventOf
<1>3. answer' \in BOOLEAN
  BY TypesKept DEF Inv, SessionRestarts
<1>. QED  BY <1>2, <1>3, OtherEventKeeps DEF SessionRestarts

\* The restarted session starts.
LEMMA SessionStartsAgainKeeps ==
    ASSUME Inv, NEW s \in Sessions, SessionStartsAgain(s)
    PROVE  Inv'
<1>1. "Starting" \in SessionStates /\ state[s] # "none"
  BY DEF SessionStates, SessionStartsAgain
<1>2. EventOf(s)
  BY <1>1 DEF SessionStartsAgain, EventOf
<1>3. answer' \in BOOLEAN
  BY ProcessTypes DEF Inv, SessionStartsAgain
<1>. QED  BY <1>2, <1>3, OtherEventKeeps DEF SessionStartsAgain

\* A session is being shut down.
LEMMA SessionExitingKeeps ==
    ASSUME Inv, NEW s \in Sessions, SessionExiting(s)
    PROVE  Inv'
<1>1. "Exiting" \in SessionStates /\ state[s] # "none"
  BY DEF SessionStates, SessionExiting
<1>2. EventOf(s)
  BY <1>1 DEF SessionExiting, EventOf
<1>3. answer' \in BOOLEAN
  BY TypesKept DEF Inv, SessionExiting
<1>. QED  BY <1>2, <1>3, OtherEventKeeps DEF SessionExiting

\* A session has exited.
LEMMA SessionExitedKeeps ==
    ASSUME Inv, NEW s \in Sessions, SessionExited(s)
    PROVE  Inv'
<1>1. "Exited" \in SessionStates /\ state[s] # "none"
  BY DEF SessionStates, SessionExited
<1>2. EventOf(s)
  BY <1>1 DEF SessionExited, EventOf
<1>3. answer' \in BOOLEAN
  BY ProcessTypes DEF Inv, SessionExited
<1>. QED  BY <1>2, <1>3, OtherEventKeeps DEF SessionExited

\* The end of a session is reported.
LEMMA SessionEndsKeeps ==
    ASSUME Inv, NEW s \in Sessions, SessionEnds(s)
    PROVE  Inv'
<1>1. EventOf(s)
  BY DEF SessionEnds, EventOf
<1>2. answer' \in BOOLEAN
  BY TypesKept DEF Inv, SessionEnds
<1>. QED  BY <1>1, <1>2, OtherEventKeeps DEF SessionEnds

\* The phases of the requests that wait for a session stay.
WaitingKept == \A o \in Requests : phase'[o] \in {"starting", "resolved"} => phase[o] \in {"starting", "resolved"}

\* The promise of the running execution is settled, well or with an error.
LEMMA EndKeeps ==
    ASSUME TypeOK, QueueInv, running # None, gone \subseteq gone', UNCHANGED <<request, owner>>,
           End(NextInChain, "ok") \/ End(ChainFails, "error")
    PROVE  /\ QueueInv' /\ QueueTypes' /\ cellState' \in [Cells -> CellStates] /\ phase' \in [Requests -> Phases]
           /\ WaitingKept /\ answer' \in BOOLEAN
<1>. DEFINE cs == [cellState EXCEPT ![chain[1][2]] = "none"]
<1>1. /\ chain \in Seq(Executions) /\ phase \in [Requests -> Phases]
      /\ cellState \in [Cells -> CellStates] /\ owner \in [Cells -> Requests \cup {0}]
      /\ fate \in [Executions -> {"none", "skipped", "sent", "ok", "error"}]
  BY DEF TypeOK, CellStates
<1>2. chain # <<>> /\ running = chain[1] /\ pending = running
  BY DEF QueueInv, RunningOK
<1>3. \E outcome \in {"ok", "error"} :
        /\ IF outcome = "error" THEN chain' = <<>> ELSE chain' = Tail(chain)
        /\ fate' = [fate EXCEPT ![chain[1]] = outcome]
        /\ running' = None /\ pending' = None
        /\ ReturnRequests(chain', phase, cs)
  <2>1. CASE End(NextInChain, "ok")
    <3>1. /\ chain' = Tail(chain) /\ fate' = [fate EXCEPT ![chain[1]] = "ok"]
          /\ running' = None /\ pending' = None /\ ReturnRequests(chain', phase, cs)
      BY <2>1, <1>2 DEF End, NextInChain
    <3>. QED  BY <3>1
  <2>2. CASE End(ChainFails, "error")
    <3>1. /\ chain' = <<>> /\ fate' = [fate EXCEPT ![chain[1]] = "error"]
          /\ running' = None /\ pending' = None /\ ReturnRequests(chain', phase, cs)
      BY <2>2, <1>2 DEF End, ChainFails
    <3>. QED  BY <3>1
  <2>. QED  BY <2>1, <2>2
<1>4. cs \in [Cells -> CellStates]
  BY <1>1 DEF CellStates
<1>5. cs = [cellState EXCEPT ![chain[1][2]] = "none"]
  OBVIOUS
<1>. HIDE DEF cs
<1>6. PICK outcome \in {"ok", "error"} :
        /\ IF outcome = "error" THEN chain' = <<>> ELSE chain' = Tail(chain)
        /\ fate' = [fate EXCEPT ![chain[1]] = outcome]
        /\ running' = None /\ pending' = None
        /\ ReturnRequests(chain', phase, cs)
  BY <1>3
<1>7. chain' \in Seq(Executions) /\ QueueInv'
  <2>1. outcome \in {"ok", "skipped", "error"}
    OBVIOUS
  <2>. QED  BY <1>2, <1>5, <1>6, <2>1, HeadEnds
<1>8. fate' \in [Executions -> {"none", "skipped", "sent", "ok", "error"}]
  BY <1>1, <1>6
<1>9. phase' \in [Requests -> Phases] /\ cellState' \in [Cells -> CellStates] /\ ReturnFact(chain', phase, cs)
  BY <1>1, <1>4, <1>6, <1>7, Returned, Zenon
<1>10. WaitingKept
  BY <1>9 DEF ReturnFact, WaitingKept
<1>11. answer' \in BOOLEAN
  BY Zenon DEF End
<1>. QED  BY <1>6, <1>7, <1>8, <1>9, <1>10, <1>11 DEF QueueTypes

\* The kernel's answer settles the promise of the running execution.
LEMMA AnswerKeeps ==
    ASSUME Inv, Answer
    PROVE  Inv'
<1>1. TypeOK /\ QueueInv /\ MapOK
  BY DEF Inv
<1>2. running # None /\ UNCHANGED <<request, owner, gone, session, mapVars, sessionVars, cancels>>
  BY DEF Answer
<1>3. End(NextInChain, "ok") \/ End(ChainFails, "error")
  BY Zenon DEF Answer, Error, Complete
<1>4. /\ QueueInv' /\ QueueTypes' /\ cellState' \in [Cells -> CellStates] /\ phase' \in [Requests -> Phases]
      /\ WaitingKept /\ answer' \in BOOLEAN
  <2>1. gone \subseteq gone' /\ UNCHANGED <<request, owner>>
    BY <1>2
  <2>. QED  BY ONLY <1>1, <1>2, <1>3, <2>1, EndKeeps
<1>5. CallTypes'
  BY <1>1, <1>2, <1>4, TypeParts DEF CallTypes
<1>6. TypeOK'
  BY <1>1, <1>2, <1>4, <1>5, TypesKept, TypePartsNext
<1>7. MapOK'
  <2>1. SessionsKept
    BY <1>2, <1>4 DEF SessionsKept, WaitingKept
  <2>. QED  BY <1>1, <1>2, <2>1, MapKept
<1>. QED  BY <1>4, <1>6, <1>7 DEF Inv

\* The head of the chain is skipped, or fails before the kernel has it.
LEMMA HeadEndsKeeps ==
    ASSUME Inv, chain # <<>>, running = None, NEW outcome \in {"skipped", "error"},
           IF outcome = "error" THEN chain' = <<>> ELSE chain' = Tail(chain),
           fate' = [fate EXCEPT ![chain[1]] = outcome],
           NEW cs \in [Cells -> CellStates], cs = [cellState EXCEPT ![chain[1][2]] = "none"] \/ cs = cellState,
           ReturnRequests(chain', phase, cs),
           UNCHANGED <<request, owner, gone, session, running, pending>>
    PROVE  QueueInv' /\ QueueTypes' /\ CallTypes' /\ SessionsKept
<1>1. TypeOK /\ QueueInv /\ CallTypes /\ QueueTypes
  BY TypeParts DEF Inv
<1>2. running' = None /\ pending' = None /\ gone \subseteq gone' /\ UNCHANGED <<request, owner>>
  BY <1>1 DEF QueueInv, RunningOK
<1>3. outcome \in {"ok", "skipped", "error"}
  OBVIOUS
<1>4. cs = [cellState EXCEPT ![chain[1][2]] = "none"] \/ (running = None /\ cs = cellState)
  OBVIOUS
<1>5. chain' \in Seq(Executions) /\ QueueInv'
  BY <1>1, <1>2, <1>3, <1>4, HeadEnds
<1>6. phase' \in [Requests -> Phases] /\ cellState' \in [Cells -> CellStates] /\ ReturnFact(chain', phase, cs)
  <2>1. owner \in [Cells -> Requests \cup {0}] /\ phase \in [Requests -> Phases]
    BY <1>1 DEF CallTypes
  <2>. QED  BY <1>5, <2>1, Returned, Zenon
<1>7. SessionsKept
  BY <1>6 DEF ReturnFact, SessionsKept
<1>8. fate' \in [Executions -> {"none", "skipped", "sent", "ok", "error"}]
  BY <1>1 DEF QueueTypes
<1>9. QueueTypes' /\ CallTypes'
  BY <1>1, <1>2, <1>5, <1>6, <1>8 DEF QueueTypes, CallTypes
<1>. QED  BY <1>5, <1>7, <1>9

\* executeCell skips the cell, fails or sends it.
LEMMA ExecuteCellKeeps ==
    ASSUME Inv, ExecuteCell
    PROVE  Inv'
<1>. DEFINE e == chain[1]
            failed == [cellState EXCEPT ![e[2]] = "none"]
<1>1. TypeOK /\ QueueInv /\ MapOK /\ CallTypes /\ QueueTypes /\ chain \in Seq(Executions)
  BY TypeParts DEF Inv, TypeOK
<1>2. /\ running = None /\ chain # <<>>
      /\ UNCHANGED <<request, owner, gone, session, mapVars, sessionVars, cancels>>
  BY DEF ExecuteCell
<1>3. Head(chain) = e /\ e \in Executions /\ 1 \in DOMAIN chain
  BY <1>1, <1>2, ChainShortened
<1>4. \/ /\ chain' = Tail(chain) /\ fate' = [fate EXCEPT ![e] = "skipped"]
         /\ ReturnRequests(chain', phase, cellState) /\ UNCHANGED <<running, pending, answer>>
      \/ /\ chain' = <<>> /\ fate' = [fate EXCEPT ![e] = "error"]
         /\ ReturnRequests(chain', phase, failed) /\ UNCHANGED <<running, pending, answer>>
      \/ /\ cellState' = [cellState EXCEPT ![e[2]] = "Executing"]
         /\ running' = e /\ pending' = e
         /\ fate' = [fate EXCEPT ![e] = "sent"]
         /\ UNCHANGED <<chain, phase>>
  BY <1>3 DEF ExecuteCell, NextInChain, ChainFails
<1>5. answer' \in BOOLEAN
  <2>1. answer \in BOOLEAN
    BY <1>1, TypeParts
  <2>2. answer' = answer \/ answer' \in {TRUE} \/ answer' \in {FALSE} \/ answer' \in BOOLEAN
    BY Zenon DEF ExecuteCell
  <2>. QED  BY <2>1, <2>2, Zenon
<1>6. failed \in [Cells -> CellStates] /\ cellState \in [Cells -> CellStates]
  BY <1>1 DEF CallTypes, CellStates
<1>7. QueueInv' /\ QueueTypes' /\ CallTypes' /\ SessionsKept
  <2>1. CASE /\ chain' = Tail(chain) /\ fate' = [fate EXCEPT ![e] = "skipped"]
             /\ ReturnRequests(chain', phase, cellState) /\ UNCHANGED <<running, pending, answer>>
    BY <1>2, <1>6, <2>1, HeadEndsKeeps
  <2>2. CASE /\ chain' = <<>> /\ fate' = [fate EXCEPT ![e] = "error"]
             /\ ReturnRequests(chain', phase, failed) /\ UNCHANGED <<running, pending, answer>>
    <3>1. failed = [cellState EXCEPT ![chain[1][2]] = "none"]
      OBVIOUS
    <3>. HIDE DEF failed
    <3>. QED  BY <1>2, <1>6, <2>2, <3>1, HeadEndsKeeps
  <2>3. CASE /\ cellState' = [cellState EXCEPT ![e[2]] = "Executing"]
             /\ running' = e /\ pending' = e
             /\ fate' = [fate EXCEPT ![e] = "sent"]
             /\ UNCHANGED <<chain, phase>>
    <3>1. QueueInv'
      BY <1>1, <1>2, <2>3, HeadSent
    <3>2. cellState' \in [Cells -> CellStates] /\ fate' \in [Executions -> {"none", "skipped", "sent", "ok", "error"}]
      BY <1>1, <2>3 DEF CallTypes, QueueTypes, CellStates
    <3>3. SessionsKept
      BY <1>2, <2>3 DEF SessionsKept
    <3>4. QueueTypes' /\ CallTypes'
      BY <1>1, <1>2, <1>3, <2>3, <3>2 DEF QueueTypes, CallTypes
    <3>. QED  BY <3>1, <3>3, <3>4
  <2>. QED  BY <1>4, <2>1, <2>2, <2>3
<1>8. TypeOK'
  <2>1. SessionTypes'
    BY <1>1, <1>2, TypesKept
  <2>. QED  BY ONLY <1>5, <1>7, <2>1, TypePartsNext
<1>9. MapOK'
  BY <1>1, <1>2, <1>7, MapKept
<1>. QED  BY <1>7, <1>8, <1>9 DEF Inv

\* A deleted cell and a kernel that is interrupted leave the queue alone.
LEMMA QueueAlone ==
    ASSUME Inv, gone \subseteq gone', gone' \subseteq Cells, cancels' \in 0..MaxCancels,
           UNCHANGED <<request, owner, session, mapVars, sessionVars, queueVars, phase, cellState, answer, fate>>
    PROVE  Inv'
<1>1. TypeOK /\ QueueInv /\ MapOK /\ CallTypes /\ SessionTypes /\ chain \in Seq(Executions)
  BY TypeParts DEF Inv, TypeOK
<1>2. QueueInv'
  BY <1>1, RequestsMove DEF queueVars, Moves
<1>3. CallTypes' /\ SessionTypes'
  BY <1>1 DEF CallTypes, SessionTypes, mapVars, sessionVars
<1>4. TypeOK'
  BY <1>1, <1>3, TypesKept, TypePartsNext
<1>5. MapOK'
  <2>1. SessionsKept
    BY DEF SessionsKept
  <2>. QED  BY <1>1, <2>1, MapKept
<1>. QED  BY <1>2, <1>4, <1>5 DEF Inv

\* A cancellation interrupts the kernel, or ends the pending execution.
LEMMA CancellationKeeps ==
    ASSUME Inv, CancelNotebookCellExecution, gone \subseteq gone', gone' \subseteq Cells,
           cancels' \in 0..MaxCancels,
           UNCHANGED <<request, owner, session, mapVars, sessionVars>>
    PROVE  Inv'
<1>1. TypeOK /\ QueueInv /\ MapOK /\ CallTypes /\ SessionTypes
  BY TypeParts DEF Inv
<1>2. pending = running
  BY <1>1 DEF QueueInv, RunningOK
<1>3. CASE pending # None /\ Error
  <2>1. End(NextInChain, "ok") \/ End(ChainFails, "error")
    BY <1>3, Zenon DEF Error
  <2>2. /\ QueueInv' /\ QueueTypes' /\ cellState' \in [Cells -> CellStates] /\ phase' \in [Requests -> Phases]
        /\ WaitingKept /\ answer' \in BOOLEAN
    BY <1>1, <1>2, <1>3, <2>1, EndKeeps
  <2>3. CallTypes' /\ SessionTypes'
    BY <1>1, <2>2 DEF CallTypes, SessionTypes, mapVars, sessionVars
  <2>4. TypeOK'
    BY <2>2, <2>3, TypePartsNext
  <2>5. MapOK'
    <3>1. SessionsKept
      BY <2>2 DEF SessionsKept, WaitingKept
    <3>. QED  BY <1>1, <3>1, MapKept
  <2>. QED  BY <2>2, <2>4, <2>5 DEF Inv
<1>4. CASE UNCHANGED <<queueVars, phase, cellState, answer, fate>>
  BY <1>4, QueueAlone
<1>. QED  BY <1>3, <1>4 DEF CancelNotebookCellExecution

\* Cancellations are counted up to their bound.
LEMMA CancelsCounted ==
    ASSUME TypeOK, cancels + Cardinality(gone) < MaxCancels
    PROVE  cancels + 1 \in 0..MaxCancels
<1>1. IsFiniteSet(gone)
  BY CellsAssumption, FS_Subset DEF TypeOK
<1>2. Cardinality(gone) \in Nat
  BY <1>1, FS_CardinalityType
<1>. QED  BY <1>2, NotebookBoundsAssumption DEF TypeOK

\* The user interrupts the notebook.
LEMMA CancelKeeps ==
    ASSUME Inv, Cancel
    PROVE  Inv'
<1>1. TypeOK /\ gone \subseteq Cells
  BY DEF Inv, TypeOK
<1>2. cancels' \in 0..MaxCancels
  BY <1>1, CancelsCounted DEF Cancel
<1>3. CancelNotebookCellExecution /\ UNCHANGED <<request, owner, gone, session, mapVars, sessionVars>>
  BY DEF Cancel
<1>4. gone \subseteq gone' /\ gone' \subseteq Cells
  BY <1>1, <1>3
<1>. QED  BY <1>2, <1>3, <1>4, CancellationKeeps

\* The user deletes a cell.
LEMMA DeleteCellKeeps ==
    ASSUME Inv, NEW c \in Cells, DeleteCell(c)
    PROVE  Inv'
<1>1. gone \subseteq Cells /\ cancels \in 0..MaxCancels
  BY DEF Inv, TypeOK
<1>2. gone' = gone \cup {c} /\ UNCHANGED <<request, owner, session, mapVars, sessionVars, cancels>>
  BY DEF DeleteCell
<1>3. gone \subseteq gone' /\ gone' \subseteq Cells /\ cancels' \in 0..MaxCancels
  BY <1>1, <1>2
<1>4. CASE CancelNotebookCellExecution
  BY <1>2, <1>3, <1>4, CancellationKeeps
<1>5. CASE UNCHANGED <<queueVars, phase, cellState, answer, fate>>
  BY <1>2, <1>3, <1>5, QueueAlone
<1>. QED  BY <1>4, <1>5 DEF DeleteCell

\* A step that changes nothing.
LEMMA StutteringKeeps ==
    ASSUME Inv, UNCHANGED vars
    PROVE  Inv'
<1>1. UNCHANGED <<request, owner, session, mapVars, sessionVars, queueVars, phase, cellState, answer, fate>>
  BY DEF vars, noteVars, callVars
<1>2. gone \subseteq gone' /\ gone' \subseteq Cells /\ cancels' \in 0..MaxCancels
  BY DEF vars, noteVars, Inv, TypeOK
<1>. QED  BY <1>1, <1>2, QueueAlone

-----------------------------------------------------------------------------
(* The theorems. *)

\* The invariant holds before the first request.
LEMMA InitInv == Init => Inv
<1>. SUFFICES ASSUME Init PROVE Inv
  OBVIOUS
<1>1. CallTypes
  BY NotebookBoundsAssumption DEF Init, CallTypes, Phases, CellStates
<1>2. QueueTypes
  BY DEF Init, QueueTypes
<1>3. SessionTypes
  BY NotebookBoundsAssumption DEF Init, SessionTypes, SessionStates
<1>4. answer \in BOOLEAN
  BY Zenon DEF Init
<1>5. TypeOK
  BY <1>1, <1>2, <1>3, <1>4, TypeParts
<1>6. MapOK
  BY DEF Init, MapOK, NoSession
<1>7. DOMAIN chain = {} /\ \A r \in Requests : DOMAIN request[r] = {}
  BY DEF Init
<1>8. RequestsOK
  BY <1>7, ExecutionsAre DEF Init, RequestsOK
<1>9. ChainOK /\ OrderOK
  BY <1>7 DEF ChainOK, OrderOK
<1>10. RunningOK
  BY ExecutionsAre DEF Init, RunningOK
<1>11. NothingLeftSpinning /\ OwnedOK
  BY DEF Init, NothingLeftSpinning, OwnedOK
<1>. QED  BY <1>5, <1>6, <1>8, <1>9, <1>10, <1>11 DEF Inv, QueueInv

\* Every step keeps the invariant.
LEMMA NextInv == Inv /\ [Next]_vars => Inv'
<1>. SUFFICES ASSUME Inv, [Next]_vars PROVE Inv'
  OBVIOUS
<1>1. ASSUME NEW r \in Requests, NEW q \in Selections, ExecuteNotebookCells(r, q) PROVE Inv'
  BY <1>1, ExecuteNotebookCellsKeeps
<1>2. ASSUME NEW r \in Requests, ResolveKernel(r) \/ NoKernel(r) \/ ExecuteThrows(r) PROVE Inv'
  BY <1>2, ResolveKernelKeeps, NoKernelKeeps, ExecuteThrowsKeeps
<1>3. ASSUME NEW r \in Requests, ExecuteNotebookCellsRequest(r) \/ SelectKernel(r) PROVE Inv'
  BY <1>3, ExecuteNotebookCellsRequestKeeps, SelectKernelKeeps
<1>4. ASSUME NEW r \in Requests, Selected(r) \/ SelectedStarting(r) \/ SelectFails(r) \/ Continue(r) PROVE Inv'
  BY <1>4, SelectedKeeps, SelectedStartingKeeps, SelectFailsKeeps, ContinueKeeps
<1>5. ASSUME NEW s \in Sessions, SessionReady(s) \/ SessionRestarts(s) \/ SessionStartsAgain(s) PROVE Inv'
  BY <1>5, SessionReadyKeeps, SessionRestartsKeeps, SessionStartsAgainKeeps
<1>6. ASSUME NEW s \in Sessions, SessionExiting(s) \/ SessionExited(s) \/ SessionEnds(s) PROVE Inv'
  BY <1>6, SessionExitingKeeps, SessionExitedKeeps, SessionEndsKeeps
<1>7. CASE StartSession \/ ExecuteCell \/ Answer \/ Cancel
  BY <1>7, StartSessionKeeps, ExecuteCellKeeps, AnswerKeeps, CancelKeeps
<1>8. ASSUME NEW c \in Cells, DeleteCell(c) PROVE Inv'
  BY <1>8, DeleteCellKeeps
<1>9. CASE UNCHANGED vars
  BY <1>9, StutteringKeeps
<1>. QED  BY <1>1, <1>2, <1>3, <1>4, <1>5, <1>6, <1>7, <1>8, <1>9, Zenon DEF Next

\* The invariant holds in every reachable state of the notebook, whatever the
\* cells, the requests and the sessions.
LEMMA Invariant == Spec => []Inv
BY InitInv, NextInv, PTL DEF Spec

\* Every variable keeps its type; in particular a cell's execution is never in
\* a state that NotebookExecutionService does not know.
THEOREM TypeCorrect == Spec => []TypeOK
<1>1. Inv => TypeOK
  BY DEF Inv
<1>. QED  BY <1>1, Invariant, PTL

\* executeNotebookCells and the chained promises of NotebookExecutionQueue run
\* the cells of a request in order and stop at the first error.
THEOREM QueueStopsOnError == Spec => []StopsOnError
<1>1. Inv => StopsOnError
  <2>. SUFFICES ASSUME Inv, NEW r \in Requests, NEW i \in DOMAIN request[r], NEW j \in DOMAIN request[r],
                       i < j, fate[<<r, request[r][j]>>] \in {"sent", "ok", "error"}
                PROVE  fate[<<r, request[r][i]>>] \in {"ok", "skipped"} \/ request[r][i] \in gone
    BY DEF StopsOnError
  <2>1. Touched(<<r, request[r][j]>>) /\ fate[<<r, request[r][j]>>] # "none"
    BY DEF Touched
  <2>. QED  BY <2>1 DEF Inv, QueueInv, OrderOK
<1>. QED  BY <1>1, Invariant, PTL

\* At most one cell of the notebook waits for the kernel, and it is the one
\* that _pendingExecutionsByNotebookUri holds.
THEOREM OneCellAtATime == Spec => []OneAtATime
<1>1. Inv => OneAtATime
  BY DEF Inv, QueueInv, RunningOK, OneAtATime
<1>. QED  BY <1>1, Invariant, PTL

\* executeCell finds the cell execution of every cell in the queue.
THEOREM QueuedCellsHaveExecutions == Spec => []QueuedHasExecution
<1>1. Inv => QueuedHasExecution
  BY DEF Inv, QueueInv, ChainOK, QueuedHasExecution
<1>. QED  BY <1>1, Invariant, PTL

\* A cell executes only for a request in the queue, and is pending only for one
\* that is under way, or that threw before the kernel had its cells.
THEOREM NoCellLeftSpinning == Spec => []NothingLeftSpinning
<1>1. Inv => NothingLeftSpinning
  BY DEF Inv, QueueInv
<1>. QED  BY <1>1, Invariant, PTL

\* What GoneSessionLeavesMap says of a step.
LeavesMap ==
    \A s \in Sessions :
        \/ s \in ended' \ ended
        \/ state'[s] # state[s] /\ state'[s] \in {"Restarting", "Exiting", "Exited"}
        => kernelMap' # s

\* An event of a session removes it from the map.
LEMMA EventLeavesMap ==
    ASSUME Inv, NEW s \in Sessions,
           SessionRestarts(s) \/ SessionExiting(s) \/ SessionExited(s) \/ SessionEnds(s)
    PROVE  LeavesMap
<1>1. TypeOK /\ MapOK /\ state \in [Sessions -> SessionStates]
  BY DEF Inv, TypeOK
<1>2. kernelMap' # s
  <2>1. Dispose(s)
    BY DEF SessionRestarts, SessionExiting, SessionExited, SessionEnds
  <2>. QED  BY <1>1, <2>1, Disposed
<1>3. \A t \in Sessions : t # s => state'[t] = state[t]
  BY <1>1 DEF SessionRestarts, SessionExiting, SessionExited, SessionEnds
<1>4. ended' \subseteq ended \cup {s}
  BY DEF SessionRestarts, SessionExiting, SessionExited, SessionEnds
<1>. QED  BY <1>2, <1>3, <1>4 DEF LeavesMap

\* A session that is started is not in the map yet.
LEMMA StartLeavesMap ==
    ASSUME Inv, StartSession
    PROVE  LeavesMap
<1>1. state \in [Sessions -> SessionStates] /\ started \in 0..MaxSessions /\ kernelMap \in Sessions \cup {NoSession}
      /\ kernelMap <= started
  BY DEF Inv, TypeOK, MapOK
<1>2. started' = started + 1 /\ ended' = ended /\ kernelMap' = kernelMap
      /\ \E st : state' = [state EXCEPT ![started'] = st]
  BY DEF StartSession, mapVars
<1>3. kernelMap' # started'
  BY <1>1, <1>2, NotebookBoundsAssumption DEF Sessions, NoSession
<1>4. \A t \in Sessions : t # started' => state'[t] = state[t]
  BY <1>1, <1>2
<1>. QED  BY <1>2, <1>3, <1>4 DEF LeavesMap

\* A session that becomes ready, or starts again, is not gone.
LEMMA BackKeepsMap ==
    ASSUME Inv, NEW s \in Sessions, SessionReady(s) \/ SessionStartsAgain(s)
    PROVE  LeavesMap
<1>1. state \in [Sessions -> SessionStates]
  BY DEF Inv, TypeOK
<1>2. ended' \subseteq ended /\ \A t \in Sessions : state'[t] = state[t] \/ state'[t] \in {"Ready", "Starting"}
  BY <1>1 DEF SessionReady, SessionStartsAgain
<1>. QED  BY <1>2 DEF LeavesMap

\* The other steps are no events of a session.
LEMMA OthersLeaveMap ==
    ASSUME UNCHANGED <<state, ended>>
    PROVE  LeavesMap
BY DEF LeavesMap

\* Every step does.
LEMMA NextLeavesMap ==
    ASSUME Inv, Next
    PROVE  LeavesMap
<1>1. ASSUME UNCHANGED sessionVars PROVE LeavesMap
  BY <1>1, OthersLeaveMap DEF sessionVars
<1>2. ASSUME NEW r \in Requests, NEW q \in Selections, ExecuteNotebookCells(r, q) PROVE LeavesMap
  BY <1>1, <1>2 DEF ExecuteNotebookCells
<1>3. ASSUME NEW r \in Requests, ResolveKernel(r) \/ NoKernel(r) \/ ExecuteThrows(r) PROVE LeavesMap
  BY <1>1, <1>3 DEF ResolveKernel, NoKernel, ExecuteThrows
<1>4. ASSUME NEW r \in Requests, ExecuteNotebookCellsRequest(r) \/ SelectKernel(r) PROVE LeavesMap
  BY <1>1, <1>4 DEF ExecuteNotebookCellsRequest, SelectKernel
<1>5. ASSUME NEW r \in Requests, Selected(r) \/ SelectedStarting(r) \/ SelectFails(r) \/ Continue(r) PROVE LeavesMap
  BY <1>1, <1>5 DEF Selected, SelectedStarting, SelectFails, Continue
<1>6. CASE ExecuteCell \/ Answer \/ Cancel
  BY <1>1, <1>6 DEF ExecuteCell, Answer, Cancel
<1>7. ASSUME NEW c \in Cells, DeleteCell(c) PROVE LeavesMap
  BY <1>1, <1>7 DEF DeleteCell
<1>8. CASE StartSession
  BY <1>8, StartLeavesMap
<1>9. ASSUME NEW s \in Sessions, SessionReady(s) \/ SessionStartsAgain(s) PROVE LeavesMap
  BY <1>9, BackKeepsMap
<1>10. ASSUME NEW s \in Sessions, SessionRestarts(s) \/ SessionExiting(s) \/ SessionExited(s) \/ SessionEnds(s)
       PROVE  LeavesMap
  BY <1>10, EventLeavesMap
<1>. QED  BY <1>2, <1>3, <1>4, <1>5, <1>6, <1>7, <1>8, <1>9, <1>10, Zenon DEF Next

\* The listeners of selectRuntime remove a session from _sessionsByNotebookUri
\* when it restarts, exits, has exited or has ended.
THEOREM GoneSessionsLeaveMap == Spec => GoneSessionLeavesMap
<1>1. Inv /\ [Next]_vars => [LeavesMap]_vars
  BY NextLeavesMap
<1>2. Spec => [][LeavesMap]_vars
  BY <1>1, Invariant, PTL DEF Spec
<1>. QED  BY <1>2 DEF GoneSessionLeavesMap, LeavesMap
==============================================================================
