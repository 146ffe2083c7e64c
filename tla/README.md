# Positron runtime sessions in TLA+

Positron runs R and Python interpreters (language runtimes) behind an editor
built on VS Code. This directory holds TLA+ specifications of the code that
keeps track of interpreter sessions (which are starting, running, shutting down
or disconnected), of the way their events travel to the user interface, of the
connection between a session and the kernel supervisor, and of three consumers
of a session with queues and caches of their own: plots, the data explorer and
notebooks. The specifications follow the code, definition by definition;
`PROJECT.json` gives the source lines of each.

Positron's own code sits in a large VS Code source tree. The modules below cover
the pieces where calls, events, timers and failures interleave.

## Inventory

| Component | State | Operations | What is hard | What makes it correct |
|---|---|---|---|---|
| Runtime session service (`services/runtimeSession/common/runtimeSession.ts`) | maps of starting, running, shutting-down and disconnected sessions; start promises; the foreground session | start, automatic start, select, restart, restore, notebook shutdown; handlers for state changes and ends of sessions | each operation is an async function with several awaits, and all of them share the maps; two exit events per session; timers; loss of the extension host | one start per host, one console per language, maps that agree with what runs, promises that settle, calls that return |
| Session adapter of the main thread (`api/browser/positron/mainThreadLanguageRuntime.ts`) | event clock, event queue, debounce timer, current state, clients | receive messages and states, shut down, restart, dispose | events out of order, late events, state changes that bypass the queue | no message lost or repeated, no state after a newer one |
| Extension host bridge (`api/common/positron/extHostLanguageRuntime.ts`) | sessions, event clocks, client instances and handlers | number and forward events, dispatch comm messages | events caused while another one is being dispatched | clock values name events |
| Runtime startup service (`services/runtimeStartup`) | startup phase, affiliated runtimes, extension hosts still discovering | discovery, choice of the runtime to start, restoring persisted sessions | several extension hosts, phases that depend on each other | every phase is reached, at most one automatic start per language |
| Kernel supervisor session and server adapter (`extensions/positron-supervisor`) | websocket, barriers, pending requests, state, exit reason; disconnect handlers | start, restart, shut down, force quit, requests; reconnect, detect that the supervisor is gone | requests pending at an exit, barriers that are replaced while someone waits, late `onclose`, timeouts against late opening | one websocket, an open barrier means a websocket, exits are explained, the connection comes back |
| Language runtime registry (`services/languageRuntime`) | registered runtimes, startup phase | register, unregister | registration races with automatic start | |
| Runtime clients (comms), UI client | client state, pending RPCs | open, perform RPC, close | timeouts, closing with requests in flight | every RPC settles once |
| Plot client and comm proxy (`services/languageRuntime/common/languageRuntimePlotClient.ts`, `positronPlotCommProxy.ts`) | current, queued and last render, timer, RPCs under way | render, update, close | cancellation, updates of the runtime against resizing, answers for requests that were given up | the plot never goes back, superseded requests are not sent, rendering ends |
| Data explorer cache (`services/positronDataExplorer/common/tableDataCache.ts`, its client and grid) | cached cells, labels and schema, descriptor in progress and pending, trim timer, backend state | scroll, sort, fetch, react to changes of the table | the table changes between the RPCs of one update; descriptors overwrite each other | at rest the screen shows the table as it is; the cache is bounded |
| Notebook kernel (`contrib/runtimeNotebookKernel`) and notebook execution services | cell executions, the queue of promises, the pending execution, map of sessions | run cells, select the runtime, cancel, delete a cell | several requests share a queue; sessions exit and restart underneath | order, one at a time, errors stop the queue, no cell is left spinning |
| Console service | code fragments, runtime items | | user interface for the most part | |

The startup service, extensions, commands and notebooks call the session
service. It asks the session manager (the main thread side of the extension
host) for sessions and listens to their events. An extension host call is a
message that may be answered late, never, or with an error.

## Modules

| Module | Models |
|---|---|
| `RuntimeSessions` | the session service, with the runtimes' managers, kernels, extension host, workspace trust and registry as its environment |
| `MCRuntimeSessions` | instances of it for TLC |
| `EventDelivery` | what listeners may rely on about a session's events (abstract) |
| `EventDeliveryProofs` | TLAPS proofs about `EventDelivery` |
| `RuntimeEventQueue` | event clock, connection and the adapter's event queue (detailed); implements `EventDelivery` |
| `RuntimeEventQueueProofs` | TLAPS proofs: the queue implements `EventDelivery` and loses no state change |
| `RuntimeSessionsProofs` | TLAPS proofs about `RuntimeSessions`: types, what continuations rely on, the maps of running and disconnected sessions, hosts marked as starting, start promises and notebook shutdowns |
| `RuntimeSessionsConsole` | TLAPS proofs: one start and one console per language |
| `SupervisorSession` | a running session's connection to the kernel supervisor, with the disconnect handler of the server adapter |
| `SupervisorSessionProofs` | TLAPS proofs about `SupervisorSession` |
| `PlotClient` | rendering of a dynamic plot |
| `PlotClientProofs` | TLAPS proofs about `PlotClient` |
| `TableDataCache`, `MCTableDataCache` | the data explorer's cache, and an instance of it |
| `TableDataCacheProofs` | TLAPS proofs about `TableDataCache` |
| `NotebookExecution`, `MCNotebookExecution` | running the cells of a notebook, and an instance of it |
| `NotebookExecutionProofs` | TLAPS proofs about `NotebookExecution` |

Operators whose comment begins with "Seeded fault" are used by no specification:
each is a variant of the definition below it with a plausible mistake, and
stands for the evidence that a property would notice that mistake.

### RuntimeSessions

A *call* is one invocation of an async operation. JavaScript runs it without
interruption up to its next await, so an action is the code between two awaits,
or one event handler. `call[t].pc` names the await the call is suspended at. A
call whose awaited promise has settled continues in a microtask; `Quiescent`
makes sure that this happens before the next message, timer or request.

A *host* is a language (for its console) or a notebook. The code keeps two maps,
one for each kind, where the model has one function: `starting` is
`_startingConsolesByLanguageId` and `_startingNotebooksByNotebookUri`, `running`
is `_consoleSessionsByLanguageId` and `_notebookSessionsByNotebookUri`. The
other variables are named in the module after the fields they stand for.
The session that a call creates bears the call's name, and so do the deferred
promises it makes. Entries of `promise` and `session` are not removed: the code
keeps every session in `_activeSessionsBySessionId` as well.

The environment is kept as free as the code allows: managers answer or throw,
kernels launch, become ready, go offline, crash and exit at any time, either of
the two exit events may come first (`StatesMayLag`: the change to Exited passes
through the event queue, `onDidEndSession` does not), the extension host may be
lost with requests in flight, trust is granted and runtimes are registered at
any time. What is simplified:

* the two awaits of a start that come before the session exists (manager,
  creation) have nothing between them another call could observe, and are one;
* Ready, Idle and Busy are one state, and so are Offline and Interrupting: the
  service treats them alike;
* every session is located in the workspace, so that a lost extension host makes
  it disconnected; sessions are restored one by one, not in one loop;
* runtimes are not unregistered, and trust is not revoked;
* only Positron's supervisor is considered: a restarted kernel keeps its session.
  Whether a kernel that exits answers the requests pending at that time is
  `AnswersAfterExit`. The supervisor's sessions forget them
  (`KallichoreSession.ts:1321`), so it is FALSE in every run;
* a `start()` that fails fires its exit events first and rejects after them
  (`KallichoreSession.ts:843-890`). A kernel counts as gone once its session
  reports it, also when the process lives on, and what that process or a
  websocket that opens late does then is left out.

### EventDelivery and RuntimeEventQueue

The extension host gives every event of a session the next value of a logical
clock. State changes and ordinary messages are sent at once. A comm message is
sent after its handlers have run, and a handler may make the session fire
another event in the meantime, so clock order and sending order differ even on a
connection that keeps the order (`fifo`). The adapter of the main thread handles
the next event at once together with everything in its queue, sorted; it queues an
event that is not next and sets a 250 ms timer; and from an event before its
clock it takes the message but not the state.

`EventDelivery` says this without queue, order and timer: batches are cut at a
horizon. `RuntimeEventQueue` implements it under the mapping
`transit <- network and queue`, `horizon <- eventClock`,
`current <- the last state fired`, `shown <- the messages fired`,
`pending <- the comm messages being dispatched`. `Sorted` is some permutation of the
queue in clock order; which one does not matter, since no two events have the same
clock. `Emissions` goes through the sorted queue and keeps what `handleQueuedEvent`
fires.

### SupervisorSession

`state`, `socket`, `restarting` and `exitReason` are the fields of
`KallichoreSession` of those names; `connected` tells whether the barrier
`_connected` is open. Every websocket ever created has an entry in `sock`, since
the handlers of an old one still run after `_socket` has been replaced:
`onclose` clears `_socket` and the barrier whoever they belong to by then. A
request that waits for a barrier which is then replaced by a new one is
*stranded*; one that is registered when the kernel exits is *forgotten*. The
disconnect handler of `KallichoreAdapterApi` appears as `testing` (it checks
whether the supervisor is alive) and `awaited` (it awaits `connect()` for at most
two seconds, then marks the session offline).

Status messages, exit messages and replies come in the order of `wire`, which a
dropped websocket may lose. The supervisor restarts kernels over HTTP, may die,
and is then replaced by a new one; the handler of this session or of another one
notices. Left out: creating and starting a session, comms and UI requests,
output, supervisors without a process id to test. `blind` records that a
session was restarted or exited while offline, the case in which the barrier is
opened without a websocket (see the run `SupervisorRestartOffline`).

### PlotClient

A render request is a number in the order of creation, `outcome` the state of
its `DeferredRender`. `scheduleRender` has one timer; when it fires, the
reactions are attached to the promise and the RPC is sent. Reactions run before
any other event (`Quiet`). The kernel answers in order; errors and timeouts come
in any order. Only the intrinsic size compares equal to itself, because sizes
are compared as objects. What is drawn, sizing policies and the plot history are
left out.

### TableDataCache

Contents are versions: a cached cell carries the version of the table at the
time the backend answered, so that "up to date" can be stated. `update()` is cut
at its awaits (`step`); events of the backend (`dataUpdate`, `schemaUpdate`), the
refresh of the backend state through one shared promise, fetches the grid makes
after a new layout, scrolling, sorting and the trim timer interleave with it.

A handler of an event first computes the layout, with RPCs of its own
(`calculateColumnLayoutEntries`), and only then calls `fetchData`. `due`
counts the handlers that are at work on a layout; they take any time and overlap.
Each ends in one of three ways: it sets `layout` and fetches
(`FetchAfterEvent`); the new layout has no first column or no first row, and
`fetchData` does nothing (`FetchNothing`); or one of its RPCs, or the one that
sorts, fails, and it throws before it fetches (`HandlerFails`). The second case
is that of a table that becomes empty: the cache keeps the sizes, cells and
schema of the table as it was, since `update()` is not called.

`lost` records the invalidations that were due and did not take place:
overwritten by a later descriptor, dropped by `fetchData` for an empty layout, or
never sent by a handler that failed. `ScreenIsCurrent` speaks of states in which
none is lost, and of states at rest: an update that failed (`_updating` stays
set) and a state promise that was rejected (it is never replaced) are not. The
grid is taken to be larger than its overscroll, so that every position the user
can scroll to has a first column and row. Column widths, profiles, filters,
export and the disconnected status are left out.

### NotebookExecution

One notebook and one kernel. A request creates the cell executions and resolves
the kernel (`ExecuteNotebookCells`, `phase = "resolving"`). From there it may find a
kernel, which completes the cells in languages it does not support
(`ResolveKernel`), find none and complete all of them (`NoKernel`), or throw, out
of `resolveKernel` or out of an execution participant (`ExecuteThrows`): nothing
catches that, and the executions stay as they are. Then it takes the session the
kernel knows or asks the session service for one (`"selecting"`), which may be
rejected, may return a session in any state (a shutdown that timed out leaves it
Exiting), or may return one that is starting and is awaited (`"starting"`). Last
it chains its cells behind the promise of the notebook's queue; `chain` lists
the executions that have not ended. `pending` is the execution a cancellation would
end, `kernelMap` the kernel's map of sessions, `live` the entry of the session
service for the notebook, which decides whether a cancellation interrupts a
session or ends the pending execution itself. Any event may come between two
continuations, since the adapter fires the state changes of a batch in one loop.

The session service is modelled by what the notebook meets of it: sessions start
(or fail to, after their exit), restart, shut down and crash. Restarting,
Exiting, Exited and `onDidEndSession` are events of their own; the last two come in
either order, and each of them takes the notebook's entry from the service's map
even if it is the entry of another session. `listening` are the sessions whose
listeners `selectRuntime` has registered; they remove whatever session is in the
kernel's map. Cells fail or are deleted, `session.execute` may throw, requests are
cancelled. Trust, outputs, prompts, kernel affinity and switching kernels are left
out.

## Runs

| Run | Instance | Checks |
|---|---|---|
| `SessionsConsole` | one language, two runtimes, four calls: start, select, restart | starts never overlap on a language; at most one console kernel per language; a ready console is the one in the map; pending promises have an owner; what becomes foreground is running |
| `SessionsNotebook` | a notebook as well, three calls, exit events in either order, notebook shutdowns | maps hold live sessions; a notebook shutdown returns only after the end of the kernel |
| `SessionsTrust` | untrusted workspace, one of two runtimes registered, three calls: start, automatic start, opened file | a host marked as starting has a start in progress |
| `SessionsExtHost` | one notebook, two runtimes, three calls about the notebook, kernels that forget their requests, loss and return of the extension host, fairness | disconnected sessions are not running; every call returns or throws, unless it was abandoned or waits for one that was |
| `EventDelivery` | four events | unique clocks, messages conserved, horizon settled, states in order, settled for good |
| `EventQueue` | four events, arriving in any order or in the order they were sent, fairness | implements `EventDelivery`; every event leaves the queue; no state change is lost on a connection that keeps the order |
| `SupervisorSession` | one request, three websockets, one status, one restart, one quit or shutdown, a supervisor that may die, fairness | at most one live websocket; an open barrier has a websocket (unless `blind`, or restarted twice); reported reasons were asked for; a lost connection comes back |
| `PlotClient` | four render requests, two sizes, fairness | superseded requests are not sent; the plot never goes back; Rendering is real and ends; the current request settles |
| `TableDataCache` | tables of 3 by 3 cells, of 1 by 3 and without rows, three screens, one change, two scrolls, RPCs that fail, fairness | at rest the screen is current; the cache is bounded; the trim timer does not run during an update; the last request is served |
| `NotebookExecution` | four cells (two of code, one raw, one in another language), two requests, two sessions, two events by which sessions restart, exit or end, one cancellation or deletion, fairness | order and errors; one at a time; queued cells keep their execution; nothing is left spinning; a session leaves the map when it goes; requests return |

Runs that show a disagreement between the code and what it says (see `findings`
in `PROJECT.json`):

| Run | Shows |
|---|---|
| `SessionsNotebookExit` | the second exit event of a notebook's old session evicts the new one, and a second kernel can be started for the same notebook and runtime |
| `SupervisorRestartOffline` | a restart that ends while the session is offline for want of a websocket opens the barrier, although nothing can be sent |

**What the models show besides.** The following is in the models as the code has
it, and the properties are worded around it; each is listed as a hazard at its
line:

* a restart that times out leaves its host marked as starting; a failed
  `validateMetadata` leaves the start promise of an automatic start pending;
* `doShutdownRuntimeSession` awaits the answer of `session.shutdown()` before it
  looks at its timer, and a supervisor session that exits never answers;
* a notebook shutdown that waits for a session to become ready waits forever if
  that session is restored after the loss of the extension host;
* a late message is processed even if the extension host has handled it;
* a plot's `_queuedRender` is stored and cancelled, but never scheduled;
* a session whose `start()` fails reports its exit although the process may have
  been launched and may live on;
* an RPC that fails leaves the data explorer's cache with `_updating` set, and one
  that fails while a layout is computed drops the invalidation that was to follow;
* a table that becomes empty is not fetched, and the cache stays as it was;
* a `resolveKernel` or an execution participant that throws leaves the cells of the
  request pending, with nobody left to complete them;
* `selectRuntime` may register a session that has exited, is exiting or was evicted
  from the service's map before the continuation runs; the events that would remove
  it from the kernel's map are over then, and it stays. `GoneSessionLeavesMap`
  therefore speaks of the events, and not of the states the map is in;
* an execution of a notebook cell ends only by a message of the kernel, so that
  it outlasts the session when that exits or restarts;
* requests of a supervisor session are stranded or forgotten as described above;
* with two restarts of a supervisor session in flight, the first exit message
  clears `_restarting`, so that the second exit is handled as one that nobody
  asked for; the status messages after it open the barrier although `_socket` was
  cleared. `ConnectedHasSocket` is stated for sessions restarted at most once;
* a session that the maps no longer hold can still be restarted: one whose end was
  handled while its change to Exited waits in the event queue, or a notebook's session
  that was evicted as in `SessionsNotebookExit`. Such a restart next to a start of the
  same host clears, when it ends, the mark of that start, so that another start is let
  through. With four calls this happens to a console (`StatesMayLag`), with five to a
  notebook. `OneStartPerLanguage` is therefore about consoles, and is checked and
  proved for exits that are reported in order.

**Bounds.** `Calls` bounds the requests, and with them the sessions and promises.
Overlapping starts, coalescing and a stale decision after an await need two
calls; a restart that meets an old session's exit needs three; four let a start
and a selection run against a restart. One language is enough because consoles
of different languages share no state but the foreground session; two runtimes
are needed for a switch; one notebook next to the console makes the
host-dependent branches differ. Symmetry is used for calls and, where all of
them are registered from the beginning, for runtimes, and never with a liveness
property. With four events the queue can hold two events behind a gap while a
late one is on its way. Four render requests are one that is shown, one on the
wire, one with the timer and one in the queue. Three websockets are the one that
drops and two attempts, so that an attempt can time out and the next one meet
it; a restart, a quit and a status let every two of them overlap. A table of 3 by
3 with screens in three of its corners has columns and rows inside and outside
of the window of each, and one change is enough to make every cached entry
stale, or to make a full table empty and an empty one full; a second scroll can
overwrite the descriptor of the first. Two requests with a cell in common share the
queue, and the second session is the one that a request starts after the first has
exited; two losses are a restart followed by the crash of the new process, or the
two events of one exit with another session's start in between.

`SessionsExtHost` has three calls, so that one can wait for a second that waits for
the third. TLC allows no symmetry next to a liveness property; instead `CallsInOrder`
takes one of the orders in which interchangeable calls are made and one of the two
names of the first runtime, which cuts no behaviour short: a call that is excluded
from beginning has not begun, and owes nothing. `NotebookCalls` keeps all of them on
the notebook, where starts, selections, restarts and shutdowns wait for each other;
the run leaves the lag of Exited to `SessionsNotebook` (`StatesMayLag = FALSE`).

Deadlock is not checked, because every one of these components may rest when nobody
asks for anything.

**Fairness.** `FairSpec` of `RuntimeSessions` assumes that continuations run,
timers fire, the extension host answers (or its loss rejects the request) and
both exit events arrive: event loop and RPC provide this. Users and kernels owe
nothing. Nor does a kernel that died under a `start()` (`Unanswered`): the
session forgets the request, and `start()` may or may not reject. A kernel that lives
answers a shutdown request. `EveryCallReturns` is checked with what the supervisor
does, `AnswersAfterExit = FALSE`, for requests that need no metadata validation.
It says that a call returns or throws unless it is *abandoned*, or waits for a call
that is, or for one that waits for such a call. Abandoned is a start or shutdown
whose kernel died under the request, and a notebook shutdown whose listener was
disposed of when the session was attached again. TLC finds a counterexample when
any of these excuses is dropped: in the program such calls wait forever.
`RuntimeEventQueue` assumes that the connection delivers and the timer fires.
`SupervisorSession` assumes that messages and websocket events arrive, that a
websocket opens or fails, and that handlers go on; `PlotClient` that timers fire,
reactions run and an RPC is answered or times out; `TableDataCache` that the
backend answers or the RPC fails, messages are handled and continuations run, while
the table, the user, the computation of layouts and the trim timer owe nothing;
`NotebookExecution` that continuations run, the session service answers a
selection, sessions which start become ready and the kernel answers the cell it was
sent. `EveryRequestReturns` therefore speaks of runs in which no session exits,
ends or restarts, from the moment a request has a kernel, and takes a throwing
participant for an end of the request.

## Proofs

`EventDeliveryProofs` proves, for any number of events, any order of arrival and
any placement of the batches, every safety property the run `EventDelivery`
checks. The only assumption is that the bound on the clock is a natural number.

* The inductive invariant `IInv` is `TypeOK /\ ClocksUnique /\ MessagesConserved
  /\ HorizonSettled`. `MessagesConserved` alone is not inductive: a step that
  sends or takes an event must know that no other event carries the same clock
  (`ClocksUnique`), and a batch must know that what is on its way does not carry
  the clock of the last handled event (`HorizonSettled`).
* One lemma per action; `Emit` and the closing of a comm message share `SendIInv`,
  because both put one numbered event on its way.
* `NoMessageLost`, `ClockNamesEvent`, `HorizonIsSettled` and `TypeCorrect` follow from
  `IInv`; the action properties `StatesInOrder` (a state never gives way to an
  older one) and `SettledEventsStay` are proved for each step from it.

`RuntimeEventQueueProofs` proves that `RuntimeEventQueue` implements `EventDelivery`
(`QueueImplementsDelivery`) and `StatesConserved` (`NoStateLost`), for any number of
events, any order of arrival and any nesting of comm handlers. With the theorems
above, the adapter's listeners miss no message, a message they have been given is
not on its way any more, and they never see an older state after a newer one.

* The invariant `Inv`: a clock value belongs to one event, being dispatched or sent
  (`HostOK`); an event is in one place, on its way or in the queue (`PlacesOK`);
  nothing on its way has the clock of the adapter, and the queue holds later events
  only (`ClockOK`). A batch needs the last two: that its events are behind the
  horizon, and that taking them away leaves nothing of them in transit.
* `StatesConserved` needs `StatesOK`: over a connection that keeps the order a state
  change on its way is later than the adapter's clock, than the queue, and than
  all that was sent before it. Messages are not, since comm handlers delay them.
* What processing a queue does is stated once (`ProcessFact`) and used for the timer
  and for the next event: the clock becomes the greatest of the queue, all but
  handled messages are fired, and the last state fired is the newest one. It rests
  on lemmas about `Sorted` (an ordering permutation exists, by inserting one event
  after the other), `Emissions` (what it keeps, and in which order) and `LastState`,
  by induction over the length of the queue.
* Step by step: sending is `Send`, a late event is `Late`, the next event and the
  timer are `Deliver` of the whole queue, and deferring an event changes nothing.

`PlotClientProofs` proves the three safety properties of the run `PlotClient`
and type correctness, for any number of requests and any sizes. It assumes that
the bound is a natural number and that `None` is not one.

* `Ordered`: only the newest request ever has the timer, and the timer is the only
  way onto the wire, so that RPCs are sent in the order of the requests. `Shown`:
  the plot shown, and a resolved request whose reaction is to run, are older than
  everything that may still be answered; this makes `LastNeverGoesBack` hold for
  each step, and is inductive only because reactions come one at a time
  (`OneReaction`) and before anything else.
* `Timed` and `Unsent`: while a render is under way no timer runs, so that a
  request in the queue is neither timed nor on the wire, and cancelling it
  neither leaves a superseded request to the timer nor the state Rendering
  without a live request.

`SupervisorSessionProofs` proves `ConnectedHasSocket`, `OneSocket`, `ReasonFits`
and type correctness for any number of websockets, requests, restarts and quits.

* `OneAttempt`: there is one websocket whose `onclose` is still to come, or one
  disconnect handler at work, never both, and `_socket` is in use. Only the
  handler connects and only an `onclose` starts it.
* `Explained`: the reason kept for the next exit is the default one or was asked
  for since the last exit; a failed quit withdraws both.
* `Attached`, for sessions restarted at most once and not while offline: the barrier
  is open only over the present websocket, and no message on the wire can open it
  without one. An exit on the wire belongs to the restart that is pending, and comes
  before the messages of the new kernel, or nothing behind it shows a live kernel
  (`ExitsOK`); a websocket is given up only for good (`GivenUp`). A second restart, and
  one while offline, break this, and with it the property.
* The types are grouped like the variables of the module; `Frames` covers the
  groups that an action leaves alone.

`RuntimeSessionsProofs` proves `SessionsTypeCorrect`: every variable of
`RuntimeSessions` keeps its type for any languages, notebooks, runtimes and any
number of calls. It uses the three assumptions of the module: consoles and
notebooks are different hosts and every runtime has a language
(`HostAssumption`), the constants that describe the environment have their types
(`EnvironmentAssumption`), and `None` is no value of anything else
(`NoneAssumption`).

* `TypeOK` is not inductive, because a continuation reads maps under keys that the
  call stored before its await, and a restored session is started under the
  metadata found in the map. `Inv` adds that a call suspended at such an await has
  a host and a runtime, that a notebook shutdown which awaits a start has its
  promise, that an attached session has a host and a runtime, and that
  disconnected sessions are attached ones.
* `Inv` is grouped by variables (`CallsOK`, `StartsOK`, `SessionsOK`, ...); `Frames`
  says that a group an action leaves alone keeps its part. The operators that
  several calls share (`Suspend`, `StartNew`, `NotebookShutdown`,
  `SettleShutdowns`, ...) have a lemma each, and the lemmas about actions cite them.

The second part of the module proves `RunningIsLive` and `DisconnectedNotRunning` under
the same assumptions, so for any number of calls, with the extension host lost and
restored at any time, exit events in either order and notebooks.

* `SafeInv` adds to `Inv` that a session in a map of running ones runs and belongs
  to that host (`HostsLive`), that a running session is attached (`RunningOK`), that
  only the call that creates or starts a session attaches it (`CreatedOK`,
  `StartedOK`), that a lost session is in one of the two lists or with one call that
  reconnects it, never in two places (`ReconnectOK`), and that a restart listens to
  the session it is for (`ListenOK`).
* The step is proved by *kinds*: the 30-odd actions do one of a dozen things to the
  maps (`Creates`, `Starts`, `Fails`, `Restarts`, `Ends`, ...). One lemma per action
  says of which kind it is, one per kind that it preserves the invariant;
  `RuntimeSessionsConsole` uses the same kinds.

The third part proves what is left of the service's safety properties. Each theorem
has a hypothesis on the constants that describe the requests and the environment;
TLC finds a counterexample when it is dropped.

* `StartingHostsAreOwned` (`StartingHostOwned`), with no restart among the requests,
  and with extension hosts lost and metadata invalid at any time. A restart breaks it:
  when its timer fires it settles its promise and leaves the host marked.
  `MarkInv` says more than the property: no call restarts or listens, so a marked
  host has a call that creates or reconnects a session there, and it is the end of
  that call that clears the mark.
* `NotebookShutdownWaits` (`NotebookShutdownEnds`), when the extension host answers no
  request whose kernel died under it (`~AnswersAfterExit`). A late answer may come
  when the session has been launched again, and the call then returns with the new
  kernel running. `ShutdownInv` adds what makes the step provable: a shutdown whose
  session has ended, and whose answer is still awaited, waits for an extension host
  that is gone (`EndedAnswers`), so that no answer is taken for the end of a kernel
  that runs. The property is an action property; `EndsBefore` is its body for one call.
* `StartPromisesAreOwned` (`StartPromiseOwned`), when automatic starts are for
  registered runtimes (`Foreseen`: all runtimes are discovered, or there are no such
  starts), and with restarts, losses and reconnections at any time. Otherwise
  `validateMetadata` may throw, and the promise of the automatic start stays in the
  map, pending. `OwnInv` says that a pending promise is filed under the key of its
  owner (`PromisesOwned`), that a promise still to be made is not filed anywhere
  (`PromisesFresh`), that no call is about to validate metadata (`RegistryOK`), and
  that a reconnection does not hurt: `Attach` disposes the listener of an earlier
  restart of the session, but only a restart whose promise is settled or no longer
  filed (`Overtaken`), because `restoreRuntimeSession` is coalesced with a pending one.
  The first two are preserved by two kinds of steps, those that file no promise
  (`Unfiled`) and those that file one (`FiledBy`).

`RuntimeSessionsConsole` proves `OneConsolePerLanguage`, `OneStartPerLanguage`,
`ConsoleTracked` and the action property `ForegroundIsRunning` for any number of
calls, languages and runtimes, and with any notebooks, under two hypotheses on the
environment: the extension host is not lost, and the change to Exited is not held
back (`~CanLoseExtHost`, `~StatesMayLag`). Both are needed: a session restored after
a loss, or the late Exited of an old session, really can end up next to another
one, in the ways listed above. They are also the hypotheses of the run.

* A call or session *occupies* a language when it creates a session for it, when its
  kernel runs, or when it is about to be launched again. `Exclusive`: there is at
  most one occupant. `Marked`: the service can see it, as a start in progress or as
  the running session. A start is let through only if neither is there, which makes
  the two inductive together.
* `Tracked` and `Relaunched` say which sessions are in the map, and that one to be
  launched again keeps its language marked; `CreatorOK`, `RestarterOK` and
  `PromisesOK` tie a call in progress to its mark and its start promise; `Over` says
  that the exit event of a kernel is not ahead of the state Exited.

`NotebookExecutionProofs` proves type correctness, every invariant and the action
property `GoneSessionLeavesMap` of the run `NotebookExecution`, for any finite set of
cells, any number of requests, sessions, exits, restarts and cancellations.

* `ChainOK`: the chain holds each cell once, for a request that waits for it and that
  owns the cell's execution. `RunningOK`: the running execution is the head of the
  chain, the pending one, and the only one sent. `OrderOK`: if a cell is queued or has
  been sent, each earlier cell of its request has ended well, is deleted, or is before
  it in the chain. `StopsOnError` alone is not inductive: when the head ends it is the
  chain that knows which cells come next, and an error empties it.
* `RequestsOK` and `OwnedOK`: until a request is queued its cells are its own and
  unconfirmed, and until the kernel is resolved it owns no others; completing its
  foreign cells, or all of them, then takes nothing from another request.
* `MapOK`: a session in the map has the listeners that take it out, and sessions known
  to anyone have been started. Each step then either is none of the events of
  `GoneSessionLeavesMap` or runs those listeners.
* `Kept(q, S)`, the cells of a request without those that are skipped, is a recursive
  function. That it keeps order and drops nothing else is proved by induction over
  its length, from the fact that a set of naturals has a least element.

`TableDataCacheProofs` proves type correctness, `TrimNotDuringUpdate`, `CacheBounded`
and `ScreenIsCurrent`, for tables, windows and screens of any size and any number of
changes.

* For `CacheBounded` (`UpdateOK`): what an update asks for and has received lies in its
  window, and what it invalidates it has cleared by the time it caches again; the trim
  timer has the descriptor of the last update and removes the rest.
* For `ScreenIsCurrent` (`FreshInv`): a stale entry is *owed* a reload, by an event on
  the wire, a refresh of the backend state that has not been answered, a handler that
  computes the layout (`due`), a pending descriptor, or the update in progress before it
  clears the cache (`FreshOK`); a handler that ends without a fetch passes what it owes
  to `lost`; so is an answer on the wire that is out of date (`RepliesOK`),
  and a size of the table that the client does not know (`ShapeOK`); the window is
  cached, asked for, or owed (`LoadedOK`). At rest nothing is owed but what is `lost`.

Only model-checked are:

* all liveness properties (`EventsSettle`, `RenderingEnds`, `CurrentSettles`,
  `LastRequestServed`, `EveryRequestReturns`, `ConnectionComesBack`,
  `EveryCallReturns`);
* `OneSessionPerKey` and `OpenMeansConnected`, which the code does not have: their
  runs end with a violation.

So every invariant and every action property that a passing run checks is also a
theorem, under the hypotheses stated above.

TLAPS handles neither fairness nor the library's induction theorems, which take an
operator as a parameter; induction over lengths is done by hand where it is needed.

The type invariants of `EventDelivery`, `PlotClient` and `SupervisorSession` are
proved and not checked by a run; the variables of `RuntimeEventQueue` are tied to
`EventDelivery`'s by the refinement, and have their types by `QueueInvariant`.

## Not modelled, and the plan

Done in this order so far: `RuntimeSessions` and its runs, `EventDelivery` with
its proofs, `RuntimeEventQueue` and its refinement, the type correctness of
`RuntimeSessions`; then `PlotClient`, `TableDataCache`, `NotebookExecution` and
`SupervisorSession`; then the proofs of the safety properties of all of them. Next:

1. `RuntimeClients`: comm clients of the main thread and the extension host, RPCs
   with timeouts, the UI client (`startUiClient`), against an abstract "every
   request settles once".
2. `RuntimeStartup`: phases, discovery in several extension hosts, affiliated
   runtimes, restoring persisted sessions, unregistering runtimes.
3. Compositions: the event queue with the state changes that bypass it
   (`markExited`, `shutdown`, `restart`), and `SupervisorSession` as the environment
   of `RuntimeSessions`, in place of the constants `AnswersAfterExit` and
   `StatesMayLag`.

Not planned: rendering, editors and commands, the language extensions (mostly
input and output), and the parts of the tree that are VS Code itself.
