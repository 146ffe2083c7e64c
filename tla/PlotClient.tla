----------------------------- MODULE PlotClient -----------------------------
(* A dynamic plot in the workbench: PlotClientInstance, which turns requests *)
(* of the user interface and updates of the runtime into render requests,    *)
(* and PositronPlotCommProxy, which sends these to the kernel.               *)
(*                                                                           *)
(* A render request is named by a number, in the order of creation; its      *)
(* DeferredRender is settled at most once.  An action is the code between    *)
(* two turns of the event loop.  Reactions to a settled promise run before   *)
(* anything else (Quiet).  What an image looks like is left out.             *)
EXTENDS Naturals, Sequences

CONSTANTS MaxRenders,   \* bound on the number of render requests
          Sizes,        \* explicit plot sizes
          Intrinsic,    \* the size `undefined`: render at the intrinsic size
          None          \* an undefined field

ASSUME RendersAssumption == MaxRenders \in Nat /\ None \notin Nat
ASSUME SizesAssumption == Intrinsic \notin Sizes

VARIABLES
    state,      \* _state
    used,       \* number of DeferredRender objects created so far
    outcome,    \* outcome[r]: state of the deferred promise of request r
    size,       \* size[r]: renderRequest.size
    preview,    \* preview[r]: the parameter of scheduleRender
    current,    \* _currentRender
    queued,     \* _queuedRender
    last,       \* the request whose result is _lastRender
    timers,     \* requests with a timeout that is neither cleared nor fired
    attached,   \* requests whose promise has the reactions of scheduleRender
    reactions,  \* settled requests whose reaction has not run yet
    inFlight,   \* render RPCs without an answer, in the order they were sent
    closed      \* the comm has been closed

vars == <<state, used, outcome, size, preview, current, queued, last, timers,
          attached, reactions, inFlight, closed>>

Renders == 1..MaxRenders
PlotClientState ==
    {"Unrendered", "RenderPending", "Rendering", "Rendered", "Closed"}

TypeOK ==
    /\ state \in PlotClientState
    /\ used \in 0..MaxRenders
    /\ outcome \in [Renders -> {"none", "pending", "resolved", "rejected"}]
    /\ size \in [Renders -> Sizes \cup {Intrinsic}]
    /\ preview \in [Renders -> BOOLEAN]
    /\ current \in Renders \cup {None}
    /\ queued \in Renders \cup {None}
    /\ last \in Renders \cup {None}
    /\ timers \subseteq Renders
    /\ attached \subseteq Renders
    /\ reactions \subseteq Renders
    /\ inFlight \in Seq(Renders)
    /\ closed \in BOOLEAN

Init ==
    /\ state = "Unrendered"
    /\ used = 0
    /\ outcome = [r \in Renders |-> "none"]
    /\ size = [r \in Renders |-> Intrinsic]
    /\ preview = [r \in Renders |-> FALSE]
    /\ current = None /\ queued = None /\ last = None
    /\ timers = {} /\ attached = {} /\ reactions = {}
    /\ inFlight = <<>>
    /\ closed = FALSE

-----------------------------------------------------------------------------
(* Helpers *)

\* Promise reactions run to the end before the next event or timer.
Quiet == reactions = {}

\* The request that a new DeferredRender gets.
Fresh == used + 1

IsPending(r) == r # None /\ outcome[r] = "pending"

\* Settling the promise of r, unless it is settled or there is none, and
\* creating the request n.
SettleAndCreate(r, n, sz, pv) ==
    /\ used' = n
    /\ outcome' = [q \in Renders |->
                      IF q = n THEN "pending"
                      ELSE IF q = r /\ IsPending(r) THEN "rejected" ELSE outcome[q]]
    /\ size' = [size EXCEPT ![n] = sz]
    /\ preview' = [preview EXCEPT ![n] = pv]
    /\ reactions' = reactions \cup
                    (IF IsPending(r) /\ r \in attached THEN {r} ELSE {})

\* Seeded fault: the timer of the request scheduled before is left running.
ScheduleKeepingTimer(r) ==
    /\ state' = "RenderPending"
    /\ timers' = timers \cup {r}

\* scheduleRender: there is one timer, and it is set anew.
ScheduleRender(r) ==
    /\ state' = "RenderPending"
    /\ timers' = {r}

-----------------------------------------------------------------------------
(* Requests of the user interface *)

\* Sizes are compared as objects, and each request has a size object of its
\* own: only two requests for the intrinsic size are equal.
SameAsLast(sz) == last # None /\ size[last] = Intrinsic /\ sz = Intrinsic

\* Seeded fault: the new request does not supersede the one that waits.
SupersedesNothing == None

\* The request a new one supersedes: the queued one while a render is under
\* way, the current one otherwise.
Superseded == IF state = "Rendering" THEN queued ELSE current

Render(sz, pv) ==
    /\ Quiet
    /\ used < MaxRenders
    /\ ~SameAsLast(sz)
    /\ SettleAndCreate(Superseded, Fresh, sz, pv)
    /\ IF state = "Rendering"
       THEN /\ queued' = Fresh
            /\ UNCHANGED <<state, current, timers>>
       ELSE /\ current' = Fresh
            /\ ScheduleRender(Fresh)
            /\ UNCHANGED queued
    /\ UNCHANGED <<last, attached, inFlight, closed>>

-----------------------------------------------------------------------------
(* Updates of the runtime *)

\* The request an update cancels.
Outdated == IF IsPending(current) THEN current ELSE None

\* queuePlotUpdateRequest; with a queued request, or before the first render,
\* it changes nothing.
PlotUpdate ==
    /\ Quiet
    /\ used < MaxRenders
    /\ ~closed
    /\ queued = None
    /\ \E r \in {IF current # None THEN current ELSE last} \ {None} :
          SettleAndCreate(Outdated, Fresh, size[r], FALSE)
    /\ current' = IF IsPending(current) THEN None ELSE current
    /\ ScheduleRender(Fresh)
    /\ UNCHANGED <<queued, last, attached, inFlight, closed>>

-----------------------------------------------------------------------------
(* Timer, comm and promise reactions *)

\* The timer of scheduleRender fires: the reactions are attached and the RPC
\* is sent.  A request cancelled in the meantime is settled already.
TimerFires(r) ==
    /\ Quiet
    /\ r \in timers
    /\ timers' = timers \ {r}
    /\ state' = "Rendering"
    /\ attached' = attached \cup {r}
    /\ reactions' = IF IsPending(r) THEN {} ELSE {r}
    /\ inFlight' = Append(inFlight, r)
    /\ UNCHANGED <<used, outcome, size, preview, current, queued, last, closed>>

\* request.complete, ignored if the request was cancelled.
Complete(r) ==
    /\ outcome' = [outcome EXCEPT ![r] = IF @ = "pending" THEN "resolved" ELSE @]
    /\ reactions' = reactions \cup (IF IsPending(r) THEN {r} ELSE {})

\* The kernel answers render requests in the order it gets them.
RenderReply ==
    /\ Quiet
    /\ inFlight # <<>>
    /\ inFlight' = Tail(inFlight)
    /\ Complete(Head(inFlight))
    /\ UNCHANGED <<state, used, size, preview, current, queued, last, timers,
                   attached, closed>>

\* Seeded fault: the error of an RPC is swallowed by the proxy.
SwallowError(r) == UNCHANGED <<outcome, reactions>>

\* request.error.
Fail(r) ==
    /\ outcome' = [outcome EXCEPT ![r] = IF @ = "pending" THEN "rejected" ELSE @]
    /\ reactions' = reactions \cup (IF IsPending(r) THEN {r} ELSE {})

\* An RPC fails: an error reply, or no reply within 30 seconds.
RenderError(i) ==
    /\ Quiet
    /\ i \in DOMAIN inFlight
    /\ inFlight' = SubSeq(inFlight, 1, i - 1) \o SubSeq(inFlight, i + 1, Len(inFlight))
    /\ Fail(inFlight[i])
    /\ UNCHANGED <<state, used, size, preview, current, queued, last, timers,
                   attached, closed>>

\* Seeded fault: a failed request does not end the state Rendering.
StateAfterResult(r) == IF outcome[r] = "resolved" THEN "Rendered" ELSE state

\* The state that both reactions fire.
StateAfter(r) == "Rendered"

\* The reactions that scheduleRender attached to the promise of r.
React(r) ==
    /\ r \in reactions
    /\ reactions' = reactions \ {r}
    /\ state' = StateAfter(r)
    /\ last' = IF outcome[r] = "resolved" /\ ~preview[r] THEN r ELSE last
    /\ UNCHANGED <<used, outcome, size, preview, current, queued, timers,
                   attached, inFlight, closed>>

\* The comm is closed: the current request is cancelled.
Close ==
    /\ Quiet
    /\ ~closed
    /\ closed' = TRUE
    /\ state' = "Closed"
    /\ outcome' = [r \in Renders |->
                      IF r = current /\ IsPending(r) THEN "rejected" ELSE outcome[r]]
    /\ reactions' = IF IsPending(current) /\ current \in attached
                    THEN {current} ELSE {}
    /\ UNCHANGED <<used, size, preview, current, queued, last, timers, attached,
                   inFlight>>

Next ==
    \/ \E sz \in Sizes \cup {Intrinsic}, pv \in BOOLEAN : Render(sz, pv)
    \/ PlotUpdate
    \/ \E r \in Renders : TimerFires(r) \/ React(r)
    \/ RenderReply
    \/ \E i \in 1..MaxRenders : RenderError(i)
    \/ Close

Spec == Init /\ [][Next]_vars

\* Timers fire, promise reactions run, and an RPC is answered or times out.
FairSpec ==
    /\ Spec
    /\ \A r \in Renders : WF_vars(TimerFires(r)) /\ WF_vars(React(r))
    /\ WF_vars(RenderReply \/ \E i \in 1..MaxRenders : RenderError(i))

-----------------------------------------------------------------------------
(* Properties *)

\* The plot shown is never replaced by the result of an older request, however
\* updates of the runtime, resizing and cancellation interleave.
LastNeverGoesBack == [][last # None => last' >= last]_last

\* A request that was superseded is not sent to the kernel, unless the plot was
\* closed while its timer was running.
SupersededNotSent == \A r \in timers : outcome[r] = "pending" \/ closed

\* While the client counts as rendering, and so puts every new request into
\* the queue, an RPC for a request that nobody has cancelled is on its way.
RenderingIsReal ==
    state = "Rendering" /\ Quiet =>
        \E i \in DOMAIN inFlight : outcome[inFlight[i]] = "pending"

\* The client does not stay in the state Rendering, in which nothing is sent.
RenderingEnds == state = "Rendering" ~> state # "Rendering"

\* The request in _currentRender is settled: by its result, by a failure, or
\* because another one takes its place.
CurrentSettles ==
    \A r \in Renders : (current = r) ~> (outcome[r] \in {"resolved", "rejected"})
=============================================================================
