------------------------- MODULE NotebookExecution -------------------------
(* Running the cells of a notebook: NotebookExecutionService with the cell   *)
(* executions it creates, RuntimeNotebookKernel with its queue, its pending  *)
(* execution and its map of sessions, and RuntimeNotebookCellExecution, which *)
(* ends a cell when the kernel's messages arrive.  One notebook, one kernel; *)
(* the session service and the language kernel are modelled as they are used. *)
(*                                                                           *)
(* Requests are numbered, and so are sessions.  A session that has exited may *)
(* be replaced by a new one before its end is reported, so several coexist.  *)
(* The steps of a call between two awaits are one action; any event may come *)
(* between two actions, for the events of a session arrive in batches.       *)
EXTENDS Naturals, Sequences, FiniteSets, Functions

CONSTANTS
    Cells,         \* code cells of the notebook
    SkippedCells,  \* raw and empty cells among them
    ForeignCells,  \* cells in a language the kernel does not support
    Selections,    \* what the user may run: sequences of distinct cells
    MaxRequests,   \* bound on the requests
    MaxSessions,   \* bound on the sessions started
    MaxLosses,     \* bound on the events by which sessions restart, exit and end
    MaxCancels,    \* bound on cancellations and deleted cells together
    None           \* no execution

Requests == 1..MaxRequests
Sessions == 1..MaxSessions
NoSession == 0

ASSUME CellsAssumption ==
    /\ IsFiniteSet(Cells)
    /\ SkippedCells \subseteq Cells /\ ForeignCells \subseteq Cells
    /\ Selections \subseteq Seq(Cells)
    /\ \A q \in Selections : q # <<>> /\ \A i, j \in DOMAIN q : q[i] = q[j] => i = j
ASSUME NotebookBoundsAssumption ==
    /\ MaxRequests \in Nat /\ MaxSessions \in Nat /\ MaxLosses \in Nat
    /\ MaxCancels \in Nat
    /\ None \notin Requests \X Cells

VARIABLES
    request,    \* cells a request created executions for and its kernel supports
    phase,      \* where executeNotebookCells and selectRuntime are, per caller
    session,    \* the session a caller waits for, or has captured
    cellState,  \* state of the cell's execution: NotebookCellExecutionState
    owner,      \* the request the cell's execution was created for
    gone,       \* cells deleted from the notebook
    chain,      \* the chained promises: executions that have not ended, in order
    running,    \* the execution whose promise the head of the chain waits for
    pending,    \* _pendingExecutionsByNotebookUri
    kernelMap,  \* _sessionsByNotebookUri
    listening,  \* sessions with the listeners of selectRuntime
    live,       \* the session service's _notebookSessionsByNotebookUri
    state,      \* runtime state of every session
    started,    \* sessions started so far
    ended,      \* sessions whose end has been reported since they last started
    answer,     \* a kernel will answer the running execution
    fate,       \* history: how far every cell of every request has come
    losses,     \* history: events by which a session restarted, exited or ended
    cancels

noteVars == <<request, cellState, owner, gone>>
callVars == <<phase, session>>
queueVars == <<chain, running, pending>>
mapVars == <<kernelMap, listening>>
sessionVars == <<live, state, started, ended, losses>>
vars == <<noteVars, callVars, queueVars, mapVars, sessionVars, answer, fate, cancels>>

Executions == Requests \X Cells
Phases == {"unused", "resolving", "prepared", "selecting", "starting", "resolved",
           "queued", "done", "threw"}
SessionStates == {"none", "Starting", "Ready", "Restarting", "Exiting", "Exited"}

TypeOK ==
    /\ request \in [Requests -> Seq(Cells)]
    /\ phase \in [Requests -> Phases]
    /\ session \in [Requests -> Sessions \cup {NoSession}]
    /\ cellState \in [Cells -> {"none", "Unconfirmed", "Executing"}]
    /\ owner \in [Cells -> Requests \cup {0}]
    /\ gone \subseteq Cells
    /\ chain \in Seq(Executions)
    /\ running \in Executions \cup {None}
    /\ pending \in Executions \cup {None}
    /\ kernelMap \in Sessions \cup {NoSession}
    /\ listening \subseteq Sessions
    /\ live \in Sessions \cup {NoSession}
    /\ state \in [Sessions -> SessionStates]
    /\ started \in 0..MaxSessions
    /\ ended \subseteq Sessions
    /\ answer \in BOOLEAN
    /\ fate \in [Executions -> {"none", "skipped", "sent", "ok", "error"}]
    /\ losses \in 0..MaxLosses /\ cancels \in 0..MaxCancels

Init ==
    /\ request = [r \in Requests |-> <<>>]
    /\ phase = [r \in Requests |-> "unused"]
    /\ session = [r \in Requests |-> NoSession]
    /\ cellState = [c \in Cells |-> "none"]
    /\ owner = [c \in Cells |-> 0]
    /\ gone = {}
    /\ chain = <<>> /\ running = None /\ pending = None
    /\ kernelMap = NoSession /\ listening = {}
    /\ live = NoSession /\ state = [s \in Sessions |-> "none"] /\ started = 0
    /\ ended = {}
    /\ answer = FALSE
    /\ fate = [e \in Executions |-> "none"]
    /\ losses = 0 /\ cancels = 0

\* No continuation is ready to run: the user acts between two events.
Quiet ==
    /\ \A r \in Requests : phase[r] # "resolved"
    /\ running = None => chain = <<>>

-----------------------------------------------------------------------------
(* NotebookExecutionService *)

\* The loop over the cells of a request: those in S are pushed, in order.
Kept(q, S) ==
    LET kept[i \in 0..Len(q)] ==
            IF i = 0 THEN <<>>
            ELSE IF q[i] \in S THEN Append(kept[i - 1], q[i]) ELSE kept[i - 1]
    IN kept[Len(q)]

\* executeNotebookCells: cells that are not executing get an execution, and
\* the kernel is resolved.
ExecuteNotebookCells(r, q) ==
    LET free == Kept(q, {c \in Cells : cellState[c] = "none"} \ gone)
    IN /\ Quiet
       /\ phase[r] = "unused"
       /\ \A p \in Requests : p < r => phase[p] # "unused"
       /\ free # <<>>
       /\ request' = [request EXCEPT ![r] = free]
       /\ phase' = [phase EXCEPT ![r] = "resolving"]
       /\ cellState' = [c \in Cells |-> IF c \in Range(free) THEN "Unconfirmed" ELSE cellState[c]]
       /\ owner' = [c \in Cells |-> IF c \in Range(free) THEN r ELSE owner[c]]
       /\ UNCHANGED <<gone, session, queueVars, mapVars, sessionVars, answer, fate, cancels>>

\* A kernel has been found.  The cells it does not support are completed; the
\* others go on to the execution participants, if there are any.
ResolveKernel(r) ==
    LET valid == Kept(request[r], Cells \ ForeignCells)
    IN /\ phase[r] = "resolving"
       /\ request' = [request EXCEPT ![r] = valid]
       /\ phase' = [phase EXCEPT ![r] = IF valid = <<>> THEN "done" ELSE "prepared"]
       /\ cellState' = [c \in Cells |->
              IF c \in Range(request[r]) \cap ForeignCells THEN "none" ELSE cellState[c]]
       /\ UNCHANGED <<owner, gone, session, queueVars, mapVars, sessionVars, answer, fate, cancels>>

\* No kernel has been found: the executions are completed.
NoKernel(r) ==
    /\ phase[r] = "resolving"
    /\ phase' = [phase EXCEPT ![r] = "done"]
    /\ cellState' = [c \in Cells |-> IF c \in Range(request[r]) THEN "none" ELSE cellState[c]]
    /\ UNCHANGED <<request, owner, gone, session, queueVars, mapVars, sessionVars, answer, fate, cancels>>

\* resolveKernel or an execution participant throws: nothing catches it, and
\* the executions stay as they are.
ExecuteThrows(r) ==
    /\ phase[r] \in {"resolving", "prepared"}
    /\ phase' = [phase EXCEPT ![r] = "threw"]
    /\ UNCHANGED <<noteVars, session, queueVars, mapVars, sessionVars, answer, fate, cancels>>

\* Seeded fault: the request that returns completes the executions of all.
ReturnCompletingAll(ch, ph, cs) ==
    LET returned == {r \in Requests : ph[r] = "queued" /\ \A i \in DOMAIN ch : ch[i][1] # r}
    IN /\ phase' = [r \in Requests |-> IF r \in returned THEN "done" ELSE ph[r]]
       /\ cellState' = [c \in Cells |->
              IF returned # {} /\ cs[c] = "Unconfirmed" THEN "none" ELSE cs[c]]

\* Seeded fault: the executions that were never confirmed are left.
ReturnLeavingUnconfirmed(ch, ph, cs) ==
    LET returned == {r \in Requests : ph[r] = "queued" /\ \A i \in DOMAIN ch : ch[i][1] # r}
    IN /\ phase' = [r \in Requests |-> IF r \in returned THEN "done" ELSE ph[r]]
       /\ cellState' = cs

\* Seeded fault: the executions that were never confirmed are confirmed now.
ReturnConfirming(ch, ph, cs) ==
    LET returned == {r \in Requests : ph[r] = "queued" /\ \A i \in DOMAIN ch : ch[i][1] # r}
    IN /\ phase' = [r \in Requests |-> IF r \in returned THEN "done" ELSE ph[r]]
       /\ cellState' = [c \in Cells |->
              IF cs[c] = "Unconfirmed" /\ owner[c] \in returned THEN "Pending" ELSE cs[c]]

\* A request whose executions have ended returns, and executeNotebookCells
\* completes those of its cells that were never confirmed.
ReturnRequests(ch, ph, cs) ==
    LET returned == {r \in Requests : ph[r] = "queued" /\ \A i \in DOMAIN ch : ch[i][1] # r}
    IN /\ phase' = [r \in Requests |-> IF r \in returned THEN "done" ELSE ph[r]]
       /\ cellState' = [c \in Cells |->
              IF cs[c] = "Unconfirmed" /\ owner[c] \in returned THEN "none" ELSE cs[c]]

-----------------------------------------------------------------------------
(* Sessions *)

\* The cells of a request that are still there are queued with its session.
QueueCells(r, s) ==
    LET found == Kept(request[r], Cells \ gone)
        added == chain \o [i \in DOMAIN found |-> <<r, found[i]>>]
    IN /\ session' = [session EXCEPT ![r] = s]
       /\ chain' = added
       /\ ReturnRequests(added, [phase EXCEPT ![r] = "queued"], cellState)

\* executeNotebookCellsRequest up to the session: the known one is captured,
\* otherwise selectRuntime asks the session service for one.
ExecuteNotebookCellsRequest(r) ==
    /\ phase[r] = "prepared"
    /\ IF kernelMap # NoSession
       THEN QueueCells(r, kernelMap)
       ELSE /\ phase' = [phase EXCEPT ![r] = "selecting"]
            /\ UNCHANGED <<session, chain, cellState>>
    /\ UNCHANGED <<request, owner, gone, running, pending, mapVars, sessionVars, answer, fate, cancels>>

\* The kernel is selected for the notebook: a request for the session only.
SelectKernel(r) ==
    /\ Quiet
    /\ phase[r] = "unused"
    /\ \A p \in Requests : p < r => phase[p] # "unused"
    /\ phase' = [phase EXCEPT ![r] = "selecting"]
    /\ UNCHANGED <<noteVars, session, queueVars, mapVars, sessionVars, answer, fate, cancels>>

\* The session service starts a session for the notebook, which has none;
\* when start() succeeds it is in the map, whatever became of it meanwhile, in
\* the place of a session that has restarted meanwhile.
StartSession ==
    /\ live = NoSession \/ losses > 0
    /\ started < MaxSessions
    /\ \E r \in Requests : phase[r] = "selecting"
    /\ started' = started + 1
    /\ live' = started'
    /\ \/ /\ \E st \in {"Starting", "Ready"} : state' = [state EXCEPT ![started'] = st]
          /\ UNCHANGED losses
       \/ /\ losses < MaxLosses /\ losses' = losses + 1
          /\ state' = [state EXCEPT ![started'] = "Exited"]
    /\ UNCHANGED <<noteVars, callVars, queueVars, mapVars, ended, answer, fate, cancels>>

\* Seeded fault: listeners are registered only when the map has no session.
RegisterOnce(r, s) ==
    /\ kernelMap' = s
    /\ listening' = IF kernelMap = NoSession THEN listening \cup {s} ELSE listening
    /\ QueueCells(r, s)

\* selectRuntime has a session: it is registered with its listeners, and the
\* cells of a request are queued.
Register(r, s) ==
    /\ kernelMap' = s
    /\ listening' = listening \cup {s}
    /\ QueueCells(r, s)

\* doSelectRuntime: selectRuntime of the service has returned, and the session
\* in its map is taken as it is.
Selected(r) ==
    /\ phase[r] = "selecting"
    /\ live # NoSession /\ state[live] # "Starting"
    /\ Register(r, live)
    /\ UNCHANGED <<request, owner, gone, running, pending, sessionVars, answer, fate, cancels>>

\* The same for a session that is starting, which is awaited.
SelectedStarting(r) ==
    /\ phase[r] = "selecting"
    /\ live # NoSession /\ state[live] = "Starting"
    /\ session' = [session EXCEPT ![r] = live]
    /\ phase' = [phase EXCEPT ![r] = "starting"]
    /\ UNCHANGED <<noteVars, queueVars, mapVars, sessionVars, answer, fate, cancels>>

\* selectRuntime of the service has been rejected, for a start or a restart
\* that failed or because it refuses, or there is no session after it: the
\* error is shown, and the request returns without queueing anything.
SelectFails(r) ==
    /\ phase[r] = "selecting"
    /\ ReturnRequests(chain, [phase EXCEPT ![r] = "queued"], cellState)
    /\ UNCHANGED <<request, owner, gone, session, queueVars, mapVars, sessionVars, answer, fate, cancels>>

\* The session has become Ready, which may not be its last event since.
Continue(r) ==
    /\ phase[r] = "resolved"
    /\ Register(r, session[r])
    /\ UNCHANGED <<request, owner, gone, running, pending, sessionVars, answer, fate, cancels>>

\* The listeners of selectRuntime: whatever session is in the map is removed.
Dispose(s) ==
    IF s \in listening
    THEN /\ kernelMap' = NoSession
         /\ listening' = listening \ {s}
    ELSE UNCHANGED mapVars

\* A dead process gives no answer, unless it is on its way.
ProcessIsGone(s) ==
    answer' \in IF running # None /\ session[running[1]] = s THEN {FALSE, answer} ELSE {answer}

\* Ready: callers that wait for it go on, and the service restores the session
\* when it has none.
SessionReady(s) ==
    /\ state[s] = "Starting"
    /\ state' = [state EXCEPT ![s] = "Ready"]
    /\ live' = IF live = NoSession THEN s ELSE live
    /\ phase' = [r \in Requests |-> IF phase[r] = "starting" /\ session[r] = s
                                   THEN "resolved" ELSE phase[r]]
    /\ UNCHANGED <<noteVars, session, queueVars, mapVars, started, ended, losses, answer, fate, cancels>>

\* restart(): the state is fired before the kernel is asked.
SessionRestarts(s) ==
    /\ state[s] = "Ready"
    /\ state' = [state EXCEPT ![s] = "Restarting"]
    /\ losses < MaxLosses /\ losses' = losses + 1
    /\ Dispose(s)
    /\ UNCHANGED <<noteVars, callVars, queueVars, live, started, ended, answer, fate, cancels>>

\* The new process of a session that restarts.
SessionStartsAgain(s) ==
    /\ state[s] \in {"Restarting", "Exited"}
    /\ state' = [state EXCEPT ![s] = "Starting"]
    /\ ended' = ended \ {s}
    /\ ProcessIsGone(s)
    /\ UNCHANGED <<noteVars, callVars, queueVars, mapVars, live, started, losses, fate, cancels>>

\* shutdown(): the state is fired before the kernel is asked, which may fail.
SessionExiting(s) ==
    /\ state[s] \in {"Ready", "Starting"}
    /\ state' = [state EXCEPT ![s] = "Exiting"]
    /\ losses < MaxLosses /\ losses' = losses + 1
    /\ Dispose(s)
    /\ UNCHANGED <<noteVars, callVars, queueVars, live, started, ended, answer, fate, cancels>>

\* Exited: the service drops the notebook's session, whichever it is.
SessionExited(s) ==
    /\ state[s] \in {"Starting", "Ready", "Restarting", "Exiting"}
    /\ state' = [state EXCEPT ![s] = "Exited"]
    /\ live' = NoSession
    /\ losses < MaxLosses /\ losses' = losses + 1
    /\ ProcessIsGone(s)
    /\ Dispose(s)
    /\ UNCHANGED <<noteVars, callVars, queueVars, started, ended, fate, cancels>>

\* onDidEndSession, which does not go through the event queue and comes before
\* or after Exited, and for a start that fails also without it.
SessionEnds(s) ==
    /\ state[s] # "none" /\ s \notin ended
    /\ ended' = ended \cup {s}
    /\ live' = NoSession
    /\ losses < MaxLosses /\ losses' = losses + 1
    /\ Dispose(s)
    /\ UNCHANGED <<noteVars, callVars, queueVars, state, started, answer, fate, cancels>>

-----------------------------------------------------------------------------
(* The queue of executions *)

\* The execution at the head of the chain has ended: the next is chained to it.
NextInChain == Tail(chain)

\* Seeded fault: an error ends the failed execution only, as in a sequencer.
ChainGoesOn == Tail(chain)

\* A failed execution rejects every promise chained to it, whatever request
\* it belongs to.
ChainFails == <<>>

\* executeCell, for the execution at the head of the chain.  A raw or empty
\* cell is skipped.  A cell without execution makes executeCell throw, and a
\* session.execute that throws ends the execution with an error.
ExecuteCell ==
    /\ running = None /\ chain # <<>>
    /\ LET e == Head(chain)
           cell == e[2]
           s == session[e[1]]
       IN \/ /\ cell \in SkippedCells
             /\ chain' = NextInChain
             /\ fate' = [fate EXCEPT ![e] = "skipped"]
             /\ ReturnRequests(NextInChain, phase, cellState)
             /\ UNCHANGED <<running, pending, answer>>
          \/ /\ cell \notin SkippedCells
             /\ chain' = ChainFails
             /\ fate' = [fate EXCEPT ![e] = "error"]
             /\ ReturnRequests(ChainFails, phase, [cellState EXCEPT ![cell] = "none"])
             /\ UNCHANGED <<running, pending, answer>>
          \/ /\ cell \notin SkippedCells /\ cellState[cell] # "none"
             /\ cellState' = [cellState EXCEPT ![cell] = "Executing"]
             /\ running' = e
             /\ pending' = e
             /\ fate' = [fate EXCEPT ![e] = "sent"]
             /\ answer' \in IF state[s] = "Ready" THEN {TRUE}
                            ELSE IF state[s] = "Exited" THEN {FALSE} ELSE BOOLEAN
             /\ UNCHANGED <<chain, phase>>
    /\ UNCHANGED <<request, owner, gone, session, mapVars, sessionVars, cancels>>

\* Seeded fault: the execution that ends stays the pending one.
EndStillPending(rest, outcome) ==
    /\ chain' = rest
    /\ running' = None
    /\ UNCHANGED pending
    /\ answer' = FALSE
    /\ fate' = [fate EXCEPT ![running] = outcome]
    /\ ReturnRequests(rest, phase, [cellState EXCEPT ![running[2]] = "none"])

\* The promise of the running execution is settled.
End(rest, outcome) ==
    /\ chain' = rest
    /\ running' = None
    /\ pending' = IF pending = running THEN None ELSE pending
    /\ answer' = FALSE
    /\ fate' = [fate EXCEPT ![running] = outcome]
    /\ ReturnRequests(rest, phase, [cellState EXCEPT ![running[2]] = "none"])

\* error() of the running execution.
Error == End(ChainFails, "error")

\* Seeded fault: the cell is completed, but not the deferred promise.
CompleteUnsettled ==
    /\ cellState' = [cellState EXCEPT ![running[2]] = "none"]
    /\ answer' = FALSE
    /\ UNCHANGED <<queueVars, phase, fate>>

\* complete() of the running execution.
Complete == End(NextInChain, "ok")

\* The kernel's answer to the running execution arrives: an error, or idle.
\* Nothing listens to answers to other executions, or to the idle after an error.
Answer ==
    /\ running # None /\ answer
    /\ Error \/ Complete
    /\ UNCHANGED <<request, owner, gone, session, mapVars, sessionVars, cancels>>

\* cancelNotebookCellExecution: the session in the service's map, if there is
\* one, is interrupted, also when the pending execution is not its own; its
\* kernel answers with an error, as it may at any time.  Without a session, as
\* between the exit and the Ready of a restart, the pending execution is ended.
CancelNotebookCellExecution ==
    IF live = NoSession /\ pending # None THEN Error
    ELSE UNCHANGED <<queueVars, phase, cellState, answer, fate>>

\* The user interrupts the notebook.
Cancel ==
    /\ Quiet
    /\ cancels + Cardinality(gone) < MaxCancels
    /\ \E c \in Cells : cellState[c] # "none"
    /\ cancels' = cancels + 1
    /\ CancelNotebookCellExecution
    /\ UNCHANGED <<request, owner, gone, session, mapVars, sessionVars>>

\* The user deletes a cell that has an execution: if it is executing, it is
\* cancelled, and if it is pending it stays so.
DeleteCell(c) ==
    /\ Quiet
    /\ cancels + Cardinality(gone) < MaxCancels
    /\ c \notin gone /\ cellState[c] # "none"
    /\ gone' = gone \cup {c}
    /\ IF cellState[c] = "Executing" THEN CancelNotebookCellExecution
       ELSE UNCHANGED <<queueVars, phase, cellState, answer, fate>>
    /\ UNCHANGED <<request, owner, session, mapVars, sessionVars, cancels>>

-----------------------------------------------------------------------------
Next ==
    \/ \E r \in Requests, q \in Selections : ExecuteNotebookCells(r, q)
    \/ \E r \in Requests : \/ ResolveKernel(r) \/ NoKernel(r) \/ ExecuteThrows(r)
                          \/ ExecuteNotebookCellsRequest(r) \/ SelectKernel(r)
                          \/ Selected(r) \/ SelectedStarting(r) \/ SelectFails(r) \/ Continue(r)
    \/ StartSession
    \/ \E s \in Sessions : \/ SessionReady(s) \/ SessionRestarts(s) \/ SessionStartsAgain(s)
                          \/ SessionExiting(s) \/ SessionExited(s) \/ SessionEnds(s)
    \/ ExecuteCell \/ Answer
    \/ Cancel
    \/ \E c \in Cells : DeleteCell(c)

Spec == Init /\ [][Next]_vars

\* Continuations run, execution participants finish, the session service
\* answers a selection, sessions that start become ready and the kernel answers
\* the cells it is sent.  The user owes nothing, and no session has to exit or
\* to restart.
FairSpec ==
    /\ Spec
    /\ \A r \in Requests :
          /\ WF_vars(ExecuteNotebookCellsRequest(r))
          /\ WF_vars(Selected(r) \/ SelectedStarting(r) \/ SelectFails(r))
          /\ WF_vars(Continue(r))
    /\ \A s \in Sessions : WF_vars(SessionReady(s))
    /\ WF_vars(ExecuteCell) /\ WF_vars(Answer)

-----------------------------------------------------------------------------
(* Properties *)

\* A cell of a request is sent to the kernel only after every earlier cell of
\* the request has ended well: the queue keeps the order, and an error, also
\* one that comes from a cancellation, stops it.
StopsOnError ==
    \A r \in Requests : \A i, j \in DOMAIN request[r] :
        i < j /\ fate[<<r, request[r][j]>>] \in {"sent", "ok", "error"} =>
            \/ fate[<<r, request[r][i]>>] \in {"ok", "skipped"}
            \/ request[r][i] \in gone

\* Whatever the requests, their sessions and the cancellations, at most one
\* cell of the notebook waits for the kernel, and it is the pending one, the
\* one a cancellation would end.
OneAtATime ==
    /\ \A e \in Executions : fate[e] = "sent" <=> e = running
    /\ pending = running

\* Every queued cell still has the cell execution that executeCell looks up:
\* no cell fails with "No execution for cell", which would end the queue.
QueuedHasExecution == \A i \in DOMAIN chain : cellState[chain[i][2]] # "none"

\* A cell is shown as executing only on behalf of a request that waits in the
\* queue, and as pending only on behalf of one that is under way: however the
\* kernel's part of a request ends, no cell is left spinning.  A request that
\* threw before it reached the kernel does leave its cells pending.
NothingLeftSpinning ==
    \A c \in Cells :
        /\ cellState[c] # "none" =>
              owner[c] \in Requests /\ phase[owner[c]] \notin {"unused", "done"}
        /\ cellState[c] = "Executing" => phase[owner[c]] = "queued"

\* A session never stays in the kernel's map through the event that says that
\* it restarts, exits, has exited or has ended, whatever was registered or
\* disposed of before: whoever registers a session late, or registers it again,
\* hears what becomes of it from then on.  That a session is not registered
\* after the last of these events, selectRuntime does not see to.
GoneSessionLeavesMap ==
    [][\A s \in Sessions :
          \/ s \in ended' \ ended
          \/ state'[s] # state[s] /\ state'[s] \in {"Restarting", "Exiting", "Exited"}
          => kernelMap' # s]_vars

\* While no session exits, ends or restarts, every request that has a kernel
\* returns, unless an execution participant throws.
EveryRequestReturns ==
    \A r \in Requests : phase[r] = "prepared" ~> (phase[r] \in {"done", "threw"} \/ losses # 0)
=============================================================================
