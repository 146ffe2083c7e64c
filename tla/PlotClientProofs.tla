-------------------------- MODULE PlotClientProofs --------------------------
(* Proofs about PlotClient, for any number of render requests.               *)
(*                                                                           *)
(* The argument.  Only the newest request ever has a timer, and a timer is   *)
(* all that puts a request on the wire: the RPCs are sent in the order of    *)
(* the requests (Ordered).  The kernel answers the oldest one, and the       *)
(* reaction to an answer runs before anything else, so that what becomes the *)
(* plot shown lies between the plot shown before and every request that is   *)
(* still to be answered (Shown).  In the state Rendering no timer runs       *)
(* (Timed), so that the request which waits in the queue is neither timed    *)
(* nor on the wire (Unsent) and cancelling it disturbs nothing.              *)
EXTENDS PlotClient, TLAPS

\* The RPCs on their way are in the order of the requests, and so is the
\* request that has the timer; all of them exist.
Ordered ==
    /\ \A i, j \in DOMAIN inFlight : i < j => inFlight[i] < inFlight[j]
    /\ \A i \in DOMAIN inFlight : inFlight[i] <= used
    /\ \A r \in timers : r <= used /\ \A i \in DOMAIN inFlight : inFlight[i] < r

\* There is one timer, none while a render is under way, and its request is
\* pending unless the plot was closed.
Timed ==
    /\ \A r, q \in timers : r = q
    /\ state = "Rendering" => timers = {}
    /\ \A r \in timers : outcome[r] \in {"pending", "rejected"}
    /\ SupersededNotSent

\* The request in the queue exists, and was never scheduled.
Unsent ==
    queued # None => /\ queued <= used
                     /\ queued \notin timers
                     /\ \A i \in DOMAIN inFlight : inFlight[i] # queued

\* Reactions run one at a time, and their request exists, as does the current
\* one.
OneReaction ==
    /\ \A r, q \in reactions : r = q
    /\ \A r \in reactions : r <= used
    /\ current # None => current <= used

\* Whatever is shown, or about to be, is older than all that may be shown
\* later.
Older(r) ==
    /\ \A i \in DOMAIN inFlight : r < inFlight[i]
    /\ \A q \in timers : r < q

Shown ==
    /\ last # None => last <= used /\ Older(last)
    /\ \A r \in reactions :
          outcome[r] = "resolved" => Older(r) /\ (last # None => last <= r)

\* The inductive invariant.
IInv == TypeOK /\ Ordered /\ Timed /\ Unsent /\ OneReaction /\ Shown /\ RenderingIsReal

-----------------------------------------------------------------------------
(* Lemmas about the sequence of RPCs *)

\* What Tail leaves.
LEMMA TailElements ==
    ASSUME NEW S, NEW s \in Seq(S), s # <<>>
    PROVE  /\ Tail(s) \in Seq(S) /\ Head(s) \in S /\ Head(s) = s[1] /\ 1 \in DOMAIN s
           /\ DOMAIN Tail(s) = 1..(Len(s) - 1)
           /\ \A j \in DOMAIN Tail(s) : j + 1 \in DOMAIN s /\ Tail(s)[j] = s[j + 1]
  OBVIOUS

\* A sequence without its i-th element, as RenderError has it.
Without(s, i) == SubSeq(s, 1, i - 1) \o SubSeq(s, i + 1, Len(s))

\* The elements before the i-th keep their place, those behind it move up.
LEMMA RemoveElements ==
    ASSUME NEW S, NEW s \in Seq(S), NEW i \in DOMAIN s
    PROVE  /\ Without(s, i) \in Seq(S)
           /\ DOMAIN Without(s, i) = 1..(Len(s) - 1)
           /\ \A j \in DOMAIN Without(s, i) :
                 /\ j < i => j \in DOMAIN s /\ Without(s, i)[j] = s[j]
                 /\ j >= i => j + 1 \in DOMAIN s /\ Without(s, i)[j] = s[j + 1]
  <1> DEFINE t == Without(s, i)
             a == SubSeq(s, 1, i - 1)
             b == SubSeq(s, i + 1, Len(s))
  <1>1. i \in 1..Len(s) /\ Len(s) \in Nat OBVIOUS
  <1>2. a \in Seq(S) /\ Len(a) = i - 1 /\ \A j \in 1..(i - 1) : a[j] = s[j]
    BY <1>1
  <1>3. b \in Seq(S) /\ Len(b) = Len(s) - i /\ \A j \in 1..(Len(s) - i) : b[j] = s[i + j]
    BY <1>1
  <1> HIDE DEF a, b, t
  <1>4. t = a \o b BY DEF a, b, t, Without
  <1>5. t \in Seq(S) /\ Len(t) = Len(s) - 1
    BY <1>1, <1>2, <1>3, <1>4
  <1>6. \A j \in 1..(Len(s) - 1) : t[j] = IF j < i THEN a[j] ELSE b[j - (i - 1)]
    <2> TAKE j \in 1..(Len(s) - 1)
    <2>1. Len(a) + Len(b) = Len(s) - 1 /\ Len(a) \in Nat /\ Len(b) \in Nat
      BY ONLY <1>1, <1>2, <1>3
    <2>2. (a \o b)[j] = IF j <= Len(a) THEN a[j] ELSE b[j - Len(a)]
      BY ONLY <2>1, <1>2, <1>3, j \in 1..(Len(s) - 1)
    <2>3. j <= Len(a) <=> j < i
      BY ONLY <1>1, <1>2, j \in 1..(Len(s) - 1)
    <2> QED BY ONLY <1>2, <1>4, <2>2, <2>3
  <1>7. ASSUME NEW j \in 1..(Len(s) - 1), j >= i PROVE t[j] = s[j + 1]
    <2>0. j \in 1..(Len(s) - 1) OBVIOUS
    <2>1. j - (i - 1) \in 1..(Len(s) - i) /\ ~(j < i) BY ONLY <1>1, <1>7, <2>0
    <2>2. t[j] = b[j - (i - 1)] BY ONLY <1>6, <2>0, <2>1
    <2>3. b[j - (i - 1)] = s[i + (j - (i - 1))] BY ONLY <1>3, <2>1
    <2>4. i + (j - (i - 1)) = j + 1 BY ONLY <1>1, <2>0
    <2> QED BY ONLY <2>2, <2>3, <2>4
  <1>8. ASSUME NEW j \in 1..(Len(s) - 1), j < i PROVE t[j] = s[j]
    BY <1>1, <1>2, <1>6, <1>8
  <1>9. DOMAIN t = 1..(Len(s) - 1) /\ DOMAIN s = 1..Len(s)
    BY <1>5
  <1>10. \A j \in 1..(Len(s) - 1) : j \in 1..Len(s) /\ j + 1 \in 1..Len(s)
    BY <1>1
  <1> QED BY ONLY <1>5, <1>7, <1>8, <1>9, <1>10 DEF t

\* What Append adds.
LEMMA AppendElements ==
    ASSUME NEW S, NEW s \in Seq(S), NEW e \in S
    PROVE  /\ Append(s, e) \in Seq(S)
           /\ DOMAIN Append(s, e) = 1..(Len(s) + 1)
           /\ DOMAIN s = 1..Len(s) /\ Len(s) \in Nat
           /\ Append(s, e)[Len(s) + 1] = e
           /\ \A j \in DOMAIN s : Append(s, e)[j] = s[j]
  OBVIOUS

-----------------------------------------------------------------------------
(* The inductive invariant *)

\* The invariant holds before anything was requested.
LEMMA InitIInv == Init => IInv
  <1> SUFFICES ASSUME Init PROVE IInv OBVIOUS
  <1>1. inFlight = <<>> /\ inFlight \in Seq(Renders) /\ DOMAIN inFlight = {}
    BY DEF Init
  <1>2. preview \in [Renders -> BOOLEAN] BY Zenon DEF Init
  <1>3. outcome \in [Renders -> {"none", "pending", "resolved", "rejected"}]
        /\ size \in [Renders -> Sizes \cup {Intrinsic}] /\ closed \in BOOLEAN
    BY Zenon DEF Init
  <1>4. TypeOK
    <2>1. used = 0 /\ state = "Unrendered" /\ current = None /\ queued = None
          /\ last = None /\ timers = {} /\ attached = {} /\ reactions = {}
      BY Zenon DEF Init
    <2> QED BY RendersAssumption, <1>1, <1>2, <1>3, <2>1 DEF TypeOK, PlotClientState
  <1> QED BY <1>1, <1>4 DEF Init, IInv, Ordered, Timed, Unsent, OneReaction, Shown, Older,
             RenderingIsReal, SupersededNotSent

\* A request of the user interface waits in the queue while a render is under
\* way, and takes the place and the timer of the current one otherwise.
LEMMA RenderKeeps ==
    ASSUME IInv, NEW sz \in Sizes \cup {Intrinsic}, NEW pv \in BOOLEAN, Render(sz, pv)
    PROVE  IInv'
  <1> USE RendersAssumption DEF Renders, IInv, Fresh, IsPending, Quiet
  <1>0. preview' \in [Renders -> BOOLEAN]
    BY Zenon DEF TypeOK, Render, SettleAndCreate
  <1>1. TypeOK'
    <2>1. used' \in 0..MaxRenders /\ Fresh \in Renders
      BY DEF TypeOK, Render, SettleAndCreate
    <2>2. /\ outcome' \in [Renders -> {"none", "pending", "resolved", "rejected"}]
          /\ size' \in [Renders -> Sizes \cup {Intrinsic}]
          /\ reactions' \subseteq Renders
      BY DEF TypeOK, Render, SettleAndCreate
    <2> QED BY <1>0, <2>1, <2>2 DEF TypeOK, Render, ScheduleRender, PlotClientState
  <1>2. Fresh \in Renders /\ used' = used + 1 /\ reactions = {} /\ used \in Nat
    BY DEF TypeOK, Render, SettleAndCreate
  <1>3. Superseded # None => Superseded \in Renders /\ Superseded <= used
    BY DEF TypeOK, Superseded, Unsent, OneReaction
  <1>4. /\ outcome'[Fresh] = "pending"
        /\ \A q \in Renders : q # Fresh /\ q # Superseded => outcome'[q] = outcome[q]
        /\ \A q \in reactions' : q = Superseded /\ q # None /\ outcome'[q] = "rejected"
    BY <1>2, <1>3 DEF TypeOK, Render, SettleAndCreate
  <1>5. UNCHANGED <<inFlight, last>> BY DEF Render
  <1>6. CASE state = "Rendering"
    <2>1. timers = {} /\ timers' = {} /\ queued' = Fresh /\ current' = current
          /\ state' = state /\ Superseded = queued
      BY <1>6 DEF Render, Timed, Superseded
    <2>2. Ordered' BY <1>1, <1>2, <1>5, <2>1 DEF Ordered, TypeOK
    <2>3. Timed' BY <2>1 DEF Timed, SupersededNotSent
    <2>4. Unsent' BY <1>1, <1>2, <1>5, <2>1 DEF Unsent, Ordered, TypeOK
    <2>5. OneReaction' BY <1>2, <1>3, <1>4, <2>1 DEF OneReaction, TypeOK
    <2>6. Shown' BY <1>2, <1>4, <1>5, <2>1 DEF Shown, Older, TypeOK
    <2>7. RenderingIsReal'
      <3> SUFFICES ASSUME reactions' = {} PROVE RenderingIsReal' BY DEF RenderingIsReal
      <3>1. PICK i \in DOMAIN inFlight : outcome[inFlight[i]] = "pending"
        BY <1>6, <1>2 DEF RenderingIsReal
      <3>2. inFlight[i] \in Renders /\ inFlight[i] <= used BY DEF TypeOK, Ordered
      <3>3. inFlight[i] # Fresh /\ inFlight[i] # queued
        BY <1>2, <3>2, RendersAssumption DEF Unsent
      <3>4. outcome'[inFlight[i]] = "pending" BY <1>4, <2>1, <3>1, <3>2, <3>3
      <3> QED BY <1>5, <3>4 DEF RenderingIsReal
    <2> QED BY <1>1, <2>2, <2>3, <2>4, <2>5, <2>6, <2>7
  <1>7. CASE state # "Rendering"
    <2>1. timers' = {Fresh} /\ queued' = queued /\ current' = Fresh
          /\ state' = "RenderPending"
      BY <1>7 DEF Render, ScheduleRender
    <2>2. Ordered' BY <1>1, <1>2, <1>5, <2>1 DEF Ordered, TypeOK
    <2>3. Timed' BY <1>4, <2>1 DEF Timed, SupersededNotSent
    <2>4. Unsent' BY <1>1, <1>2, <1>5, <2>1 DEF Unsent, TypeOK
    <2>5. OneReaction' BY <1>2, <1>3, <1>4, <2>1 DEF OneReaction, TypeOK
    <2>6. Shown' BY <1>1, <1>2, <1>4, <1>5, <2>1 DEF Shown, Older, TypeOK
    <2>7. RenderingIsReal' BY <2>1 DEF RenderingIsReal
    <2> QED BY <1>1, <2>2, <2>3, <2>4, <2>5, <2>6, <2>7
  <1> QED BY <1>6, <1>7

\* An update of the runtime cancels the current request and schedules its own.
LEMMA PlotUpdateKeeps ==
    ASSUME IInv, PlotUpdate
    PROVE  IInv'
  <1> USE RendersAssumption DEF Renders, IInv, Fresh, IsPending, Quiet
  <1>1. TypeOK'
    BY DEF TypeOK, PlotUpdate, SettleAndCreate, ScheduleRender, PlotClientState, Outdated
  <1>2. Fresh \in Renders /\ used' = used + 1 /\ reactions = {} /\ used \in Nat
    BY DEF TypeOK, PlotUpdate, SettleAndCreate
  <1>3. Outdated # None => Outdated \in Renders /\ Outdated <= used
    BY DEF TypeOK, Outdated, OneReaction
  <1>4. /\ outcome'[Fresh] = "pending"
        /\ \A q \in reactions' : q = Outdated /\ q # None /\ outcome'[q] = "rejected"
    BY <1>2, <1>3 DEF TypeOK, PlotUpdate, SettleAndCreate
  <1>5. UNCHANGED <<inFlight, last, queued>> /\ current' \in {current, None}
        /\ timers' = {Fresh} /\ state' = "RenderPending"
    BY DEF PlotUpdate, ScheduleRender
  <1>6. Ordered' BY <1>1, <1>2, <1>5 DEF Ordered, TypeOK
  <1>7. Timed' BY <1>4, <1>5 DEF Timed, SupersededNotSent
  <1>8. Unsent' BY <1>1, <1>2, <1>5 DEF Unsent, TypeOK
  <1>9. OneReaction' BY <1>2, <1>3, <1>4, <1>5 DEF OneReaction, TypeOK
  <1>10. Shown' BY <1>1, <1>2, <1>4, <1>5 DEF Shown, Older, TypeOK
  <1>11. RenderingIsReal' BY <1>5 DEF RenderingIsReal
  <1> QED BY <1>1, <1>6, <1>7, <1>8, <1>9, <1>10, <1>11

\* The request that had the timer goes on the wire behind all others.
LEMMA TimerKeeps ==
    ASSUME IInv, NEW r \in Renders, TimerFires(r)
    PROVE  IInv'
  <1> USE DEF IInv
  <1>1. /\ r \in timers /\ timers' = {} /\ state' = "Rendering"
        /\ inFlight' = Append(inFlight, r)
        /\ reactions' = (IF IsPending(r) THEN {} ELSE {r})
        /\ UNCHANGED <<used, outcome, current, queued, last, closed>>
    BY DEF TimerFires, Timed
  <1>2. TypeOK'
    BY AppendElements, <1>1 DEF TimerFires, TypeOK, PlotClientState
  <1>3. /\ DOMAIN inFlight = 1..Len(inFlight) /\ Len(inFlight) \in Nat
        /\ DOMAIN inFlight' = 1..(Len(inFlight) + 1)
        /\ inFlight'[Len(inFlight) + 1] = r
        /\ \A j \in DOMAIN inFlight : inFlight'[j] = inFlight[j]
    BY <1>1, AppendElements DEF TypeOK
  <1>4. r \in Nat /\ r <= used /\ \A j \in DOMAIN inFlight : inFlight[j] < r
    BY <1>1, RendersAssumption DEF Ordered, Renders
  <1>5. \A i, j \in DOMAIN inFlight' : i < j => inFlight'[i] < inFlight'[j]
    BY <1>3, <1>4 DEF Ordered
  <1>6. Ordered'
    BY <1>1, <1>3, <1>4, <1>5 DEF Ordered
  <1>7. Timed' BY <1>1 DEF Timed, SupersededNotSent
  <1>8. Unsent' BY <1>1, <1>3 DEF Unsent
  <1>9. OneReaction' BY <1>1, <1>4 DEF OneReaction
  <1>10. \A q \in reactions' : outcome'[q] # "resolved"
    BY <1>1 DEF Timed
  <1>11. Shown' BY <1>1, <1>3, <1>10 DEF Shown, Older
  <1>12. RenderingIsReal' BY <1>1, <1>3 DEF RenderingIsReal, Quiet, IsPending
  <1> QED BY <1>2, <1>6, <1>7, <1>8, <1>9, <1>11, <1>12

\* The reaction to a settled request, which may make it the plot shown.
LEMMA ReactKeeps ==
    ASSUME IInv, NEW r \in Renders, React(r)
    PROVE  IInv'
  <1> USE DEF IInv
  <1>1. /\ r \in reactions /\ reactions' = {} /\ state' = "Rendered"
        /\ UNCHANGED <<used, outcome, current, queued, timers, inFlight, closed>>
        /\ last' \in {r, last} /\ (last' # last => outcome[r] = "resolved")
    BY DEF React, StateAfter, OneReaction
  <1>2. TypeOK' BY <1>1 DEF React, TypeOK, PlotClientState
  <1>3. Ordered' BY <1>1 DEF Ordered
  <1>4. Timed' BY <1>1 DEF Timed, SupersededNotSent
  <1>5. Unsent' BY <1>1 DEF Unsent
  <1>6. OneReaction' BY <1>1 DEF OneReaction
  <1>7. Shown' BY <1>1 DEF Shown, Older, OneReaction
  <1>8. RenderingIsReal' BY <1>1 DEF RenderingIsReal
  <1> QED BY <1>2, <1>3, <1>4, <1>5, <1>6, <1>7, <1>8

\* Closing the plot cancels the current request.
LEMMA CloseKeeps ==
    ASSUME IInv, Close
    PROVE  IInv'
  <1> USE DEF IInv
  <1>1. /\ closed' = TRUE /\ state' = "Closed"
        /\ UNCHANGED <<used, current, queued, last, timers, inFlight>>
        /\ \A q \in Renders : outcome'[q] \in {outcome[q], "rejected"}
        /\ \A q \in reactions' : q = current /\ q # None /\ outcome'[q] = "rejected"
    BY DEF Close, IsPending, TypeOK
  <1>2. TypeOK' BY DEF Close, TypeOK, PlotClientState, IsPending
  <1>3. Ordered' BY <1>1 DEF Ordered
  <1>4. Timed' BY <1>1 DEF Timed, SupersededNotSent, TypeOK
  <1>5. Unsent' BY <1>1 DEF Unsent
  <1>6. OneReaction' BY <1>1 DEF OneReaction
  <1>7. Shown' BY <1>1 DEF Shown, Older
  <1>8. RenderingIsReal' BY <1>1 DEF RenderingIsReal
  <1> QED BY <1>2, <1>3, <1>4, <1>5, <1>6, <1>7, <1>8

\* The oldest RPC is answered.
LEMMA ReplyKeeps ==
    ASSUME IInv, RenderReply
    PROVE  IInv'
  <1> USE DEF IInv
  <1> DEFINE h == Head(inFlight)
  <1>1. /\ h \in Renders /\ h = inFlight[1] /\ 1 \in DOMAIN inFlight
        /\ inFlight' \in Seq(Renders)
        /\ DOMAIN inFlight' = 1..(Len(inFlight) - 1) /\ DOMAIN inFlight = 1..Len(inFlight)
        /\ \A j \in DOMAIN inFlight' : j + 1 \in DOMAIN inFlight /\ inFlight'[j] = inFlight[j + 1]
    BY TailElements DEF RenderReply, TypeOK
  <1>2. /\ UNCHANGED <<state, used, current, queued, last, timers, closed>>
        /\ reactions = {} /\ reactions' = (IF IsPending(h) THEN {h} ELSE {})
        /\ \A q \in Renders : q # h => outcome'[q] = outcome[q]
        /\ outcome'[h] = (IF outcome[h] = "pending" THEN "resolved" ELSE outcome[h])
    BY <1>1 DEF RenderReply, Complete, Quiet, TypeOK
  <1> HIDE DEF h
  <1>3. TypeOK' BY <1>1, <1>2 DEF RenderReply, Complete, TypeOK, h
  <1>4. Len(inFlight) \in Nat BY DEF TypeOK
  <1>5. Ordered'
    <2>1. \A i, j \in DOMAIN inFlight' : i < j => inFlight'[i] < inFlight'[j]
      BY <1>1, <1>4 DEF Ordered
    <2> QED BY <1>1, <1>2, <2>1 DEF Ordered
  <1>6. h \notin timers /\ h <= used BY <1>1 DEF Ordered, Renders, TypeOK
  <1>7. Timed' BY <1>2, <1>6 DEF Timed, SupersededNotSent, TypeOK
  <1>8. Unsent' BY <1>1, <1>2 DEF Unsent
  <1>9. OneReaction' BY <1>2, <1>6 DEF OneReaction
  <1>10. \A j \in DOMAIN inFlight' : inFlight[1] < inFlight'[j]
    BY <1>1, <1>4 DEF Ordered
  <1>11. Shown'
    <2>1. last # None => last \in Nat /\ h \in Nat /\ last < h
      BY <1>1 DEF Shown, Older, TypeOK, Renders
    <2>2. (\A j \in DOMAIN inFlight' : h < inFlight'[j]) /\ \A q \in timers' : h < q
      BY <1>1, <1>2, <1>10 DEF Ordered
    <2>3. last # None => \A j \in DOMAIN inFlight' : last < inFlight'[j]
      BY <1>1 DEF Shown, Older
    <2> QED BY <1>2, <2>1, <2>2, <2>3 DEF Shown, Older
  <1>12. RenderingIsReal'
    <2> SUFFICES ASSUME state = "Rendering", reactions' = {} PROVE RenderingIsReal'
      BY <1>2 DEF RenderingIsReal, Quiet
    <2>1. PICK i \in DOMAIN inFlight : outcome[inFlight[i]] = "pending"
      BY <1>2 DEF RenderingIsReal, Quiet
    <2>2. outcome[h] # "pending" /\ inFlight[i] \in Renders
      BY <1>1, <1>2, RendersAssumption DEF IsPending, Renders, TypeOK
    <2>3. i # 1 /\ inFlight[i] # h BY <1>1, <2>1, <2>2
    <2>4. i - 1 \in DOMAIN inFlight' /\ inFlight'[i - 1] = inFlight[i]
      BY <1>1, <1>4, <2>3
    <2> QED BY <1>2, <2>1, <2>2, <2>3, <2>4 DEF RenderingIsReal
  <1> QED BY <1>3, <1>5, <1>7, <1>8, <1>9, <1>11, <1>12

\* An RPC fails, anywhere in the sequence.
LEMMA ErrorKeeps ==
    ASSUME IInv, NEW k \in 1..MaxRenders, RenderError(k)
    PROVE  IInv'
  <1> USE DEF IInv
  <1> DEFINE h == inFlight[k]
  <1>1. /\ k \in DOMAIN inFlight /\ h \in Renders
        /\ DOMAIN inFlight = 1..Len(inFlight) /\ Len(inFlight) \in Nat /\ k \in Nat
    BY DEF RenderError, TypeOK
  <1>2. /\ inFlight' \in Seq(Renders)
        /\ DOMAIN inFlight' = 1..(Len(inFlight) - 1)
        /\ \A j \in DOMAIN inFlight' :
              /\ j < k => j \in DOMAIN inFlight /\ inFlight'[j] = inFlight[j]
              /\ j >= k => j + 1 \in DOMAIN inFlight /\ inFlight'[j] = inFlight[j + 1]
    <2>1. inFlight \in Seq(Renders) BY DEF TypeOK
    <2>2. inFlight' = Without(inFlight, k) BY DEF RenderError, Without
    <2> HIDE DEF IInv, h
    <2> QED BY ONLY <1>1, <2>1, <2>2, RemoveElements
  <1>3. /\ UNCHANGED <<state, used, current, queued, last, timers, closed>>
        /\ reactions = {} /\ reactions' = (IF IsPending(h) THEN {h} ELSE {})
        /\ \A q \in Renders : q # h => outcome'[q] = outcome[q]
        /\ outcome'[h] = (IF outcome[h] = "pending" THEN "rejected" ELSE outcome[h])
    BY <1>1 DEF RenderError, Fail, Quiet, TypeOK
  <1> HIDE DEF h
  <1>4. TypeOK' BY <1>1, <1>2, <1>3 DEF RenderError, Fail, TypeOK, h
  <1>5. \A j \in DOMAIN inFlight' : \E i \in DOMAIN inFlight :
            i \in {j, j + 1} /\ inFlight'[j] = inFlight[i] /\ (i = j <=> j < k)
    BY <1>1, <1>2
  <1>6. Ordered'
    <2>1. ASSUME NEW i \in DOMAIN inFlight', NEW j \in DOMAIN inFlight', i < j
          PROVE  inFlight'[i] < inFlight'[j]
      <3>1. PICK a \in DOMAIN inFlight :
                a \in {i, i + 1} /\ inFlight'[i] = inFlight[a] /\ (a = i <=> i < k)
        BY <1>5
      <3>2. PICK b \in DOMAIN inFlight :
                b \in {j, j + 1} /\ inFlight'[j] = inFlight[b] /\ (b = j <=> j < k)
        BY <1>5
      <3>3. a < b BY <1>1, <1>2, <2>1, <3>1, <3>2
      <3> QED BY <3>1, <3>2, <3>3 DEF Ordered
    <2> QED BY <1>3, <1>5, <2>1 DEF Ordered
  <1>7. h \notin timers /\ h <= used BY <1>1 DEF Ordered, Renders, TypeOK, h
  <1>8. Timed' BY <1>1, <1>3, <1>7 DEF Timed, SupersededNotSent, TypeOK
  <1>9. Unsent' BY <1>3, <1>5 DEF Unsent
  <1>10. OneReaction' BY <1>3, <1>7 DEF OneReaction
  <1>11. \A q \in reactions' : outcome'[q] # "resolved" BY <1>3 DEF IsPending
  <1>12. Shown' BY <1>3, <1>5, <1>11 DEF Shown, Older
  <1>13. RenderingIsReal'
    <2> SUFFICES ASSUME state = "Rendering", reactions' = {} PROVE RenderingIsReal'
      BY <1>3 DEF RenderingIsReal, Quiet
    <2>1. PICK i \in DOMAIN inFlight : outcome[inFlight[i]] = "pending"
      BY <1>3 DEF RenderingIsReal, Quiet
    <2>2. outcome[h] # "pending" /\ inFlight[i] \in Renders
      BY <1>1, <1>3, RendersAssumption DEF IsPending, Renders, TypeOK
    <2>3. i # k /\ inFlight[i] # h BY <1>1, <2>1, <2>2 DEF h
    <2>4. \E j \in DOMAIN inFlight' : inFlight'[j] = inFlight[i]
      <3>1. CASE i < k BY <1>1, <1>2, <3>1
      <3>2. CASE i > k
        <4>1. i - 1 \in DOMAIN inFlight' /\ i - 1 >= k /\ (i - 1) + 1 = i
          BY <1>1, <1>2, <3>2
        <4> QED BY <1>2, <4>1
      <3> QED BY <1>1, <2>3, <3>1, <3>2
    <2> QED BY <1>3, <2>1, <2>2, <2>3, <2>4 DEF RenderingIsReal
  <1> QED BY <1>4, <1>6, <1>8, <1>9, <1>10, <1>12, <1>13

\* Nothing changes.
LEMMA StutterKeeps == IInv /\ UNCHANGED vars => IInv'
  BY DEF IInv, vars, TypeOK, Ordered, Timed, Unsent, OneReaction, Shown, Older,
         RenderingIsReal, SupersededNotSent, Quiet

\* Every step preserves the invariant.
LEMMA NextKeeps == IInv /\ [Next]_vars => IInv'
  BY RenderKeeps, PlotUpdateKeeps, TimerKeeps, ReactKeeps, ReplyKeeps, ErrorKeeps,
     CloseKeeps, StutterKeeps DEF Next

\* The invariant holds in every reachable state.
LEMMA Invariance == Spec => []IInv
  BY InitIInv, NextKeeps, PTL DEF Spec

-----------------------------------------------------------------------------
(* Theorems *)

\* The variables of the client keep their types.
THEOREM PlotTypeCorrect == Spec => []TypeOK
  <1>1. IInv => TypeOK BY DEF IInv
  <1> QED BY <1>1, Invariance, PTL

\* The timer of scheduleRender only ever sends a request that is pending,
\* unless the plot was closed while it was running.
THEOREM TimerSendsPending == Spec => []SupersededNotSent
  <1>1. IInv => SupersededNotSent BY DEF IInv, Timed
  <1> QED BY <1>1, Invariance, PTL

\* In the state Rendering, with no promise reaction to run, a request that
\* nobody cancelled is on the wire.
THEOREM RenderingHasRequest == Spec => []RenderingIsReal
  <1>1. IInv => RenderingIsReal BY DEF IInv
  <1> QED BY <1>1, Invariance, PTL

\* The plot shown (_lastRender) is never replaced by an older one.
THEOREM PlotNeverGoesBack == Spec => LastNeverGoesBack
  <1>1. IInv /\ [Next]_vars => [last # None => last' >= last]_last
    <2> SUFFICES ASSUME IInv, Next, last' # last, last # None PROVE last' >= last
      BY DEF vars
    <2>1. PICK r \in Renders : React(r)
      BY DEF Next, Render, PlotUpdate, TimerFires, RenderReply, RenderError, Close
    <2>2. last' = r /\ r \in reactions /\ outcome[r] = "resolved" BY <2>1 DEF React
    <2>3. last \in Nat /\ r \in Nat /\ last <= r
      BY <2>2 DEF IInv, Shown, TypeOK, Renders
    <2> QED BY <2>2, <2>3
  <1> QED BY <1>1, Invariance, PTL DEF Spec, LastNeverGoesBack
=============================================================================
