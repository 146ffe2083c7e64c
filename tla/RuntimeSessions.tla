-------------------------- MODULE RuntimeSessions --------------------------
(***************************************************************************)
(* The language runtime session service of Positron                        *)
(* (services/runtimeSession/common/runtimeSession.ts): which interpreter   *)
(* sessions are starting, running, shutting down or disconnected, and what *)
(* the asynchronous calls that start, select, restart, restore and shut    *)
(* them down do to that bookkeeping.                                       *)
(*                                                                         *)
(* A CALL of the service is an async function.  It runs without            *)
(* interruption from one await to the next, so every action below is the   *)
(* code between two awaits of one call, or one event handler.  A call      *)
(* whose awaited promise has settled resumes in a microtask, before the    *)
(* next message or timer is handled (Quiescent).                           *)
(*                                                                         *)
(* A HOST is the place a session occupies: a language for a console        *)
(* session, a notebook URI for a notebook session.  The service's maps for *)
(* consoles and for notebooks become one function on hosts each.           *)
(***************************************************************************)
EXTENDS FiniteSets

CONSTANTS
    Languages,        \* language ids: the hosts of console sessions
    Notebooks,        \* notebook URIs: the hosts of notebook sessions
    Runtimes,         \* runtime ids
    LanguageOf,       \* [Runtimes -> Languages], the languageId of the metadata
    Calls,            \* the calls that are ever made to the service (a bound)
    AutoStart,        \* languages whose startupBehavior allows automatic start
    AnswersAfterExit, \* must a session answer the requests its kernel died under?
    StatesMayLag,     \* may the event queue hold Exited back behind the exit event?
    CanLoseExtHost,   \* may the extension host go away?
    Requests,         \* the operations the environment asks for
    Discovered,       \* runtimes registered from the beginning
    TrustedAtStart,   \* is the workspace trusted from the beginning?
    None              \* undefined

Hosts == Languages \cup Notebooks

\* The session a call creates is named after the call (generateNewSessionId
\* never returns an identifier that is in use).
Sessions == Calls

\* A call makes at most one DeferredPromise in doAutoStartRuntime and one in
\* doCreateRuntimeSession, restoreRuntimeSession or doRestartRuntime.
Promises == Calls \X {"auto", "create"}

\* getSessionMapKey: the session mode and the notebook URI are the host.
Keys == Hosts \X Runtimes

OperationKinds ==
    {"start", "auto", "select", "restart", "shutdownNotebook", "language"}

ASSUME HostAssumption ==
    /\ Languages \cap Notebooks = {}
    /\ LanguageOf \in [Runtimes -> Languages]
    /\ AutoStart \subseteq Languages

ASSUME EnvironmentAssumption ==
    /\ AnswersAfterExit \in BOOLEAN
    /\ StatesMayLag \in BOOLEAN
    /\ CanLoseExtHost \in BOOLEAN
    /\ TrustedAtStart \in BOOLEAN
    /\ Discovered \subseteq Runtimes
    /\ Requests \subseteq OperationKinds

ASSUME NoneAssumption ==
    None \notin Calls \cup Runtimes \cup Promises \cup Hosts

VARIABLES
    call,             \* each call's local state: where it awaits, and what it works on
    registered,       \* runtimes the language runtime service knows
    trusted,          \* is the workspace trusted?
    starting,         \* _startingConsolesByLanguageId, _startingNotebooksByNotebookUri
    startingSessions, \* _startingSessionsBySessionMapKey
    promise,          \* the state of every DeferredPromise
    running,          \* _consoleSessionsByLanguageId, _notebookSessionsByNotebookUri
    session,          \* _activeSessionsBySessionId: the metadata of attached sessions
    foreground,       \* _foregroundSession
    shuttingDown,     \* _shuttingDownRuntimesBySessionId
    nbShutdown,       \* _shuttingDownNotebooksByNotebookUri
    disconnected,     \* _disconnectedSessions
    disconnecting,    \* sessions whose setTimeout of onDidEndSession is pending
    state,            \* getRuntimeState() of every session
    kernel,           \* what the session's kernel does
    extHost           \* is the extension host that manages the runtimes up?

serviceMaps == <<starting, startingSessions, promise>>
sessionMaps == <<running, foreground, session>>
shutdowns   == <<shuttingDown, nbShutdown>>
losses      == <<disconnected, disconnecting, extHost>>
kernels     == <<state, kernel>>
world       == <<registered, trusted>>
vars == <<call, serviceMaps, sessionMaps, shutdowns, losses, kernels, world>>

-----------------------------------------------------------------------------
(* Local states of a call, by the await it is suspended at.                *)

CreatingPcs == {"autoManager", "validating", "creating", "restoring", "starting"}
WaitingPcs == {"deferred", "awaitPromise", "selectStart", "selectNotebook",
               "selectShutdown", "selectResume", "restarting", "notebookStart",
               "notebookReady", "notebookOrphan", "notebookResume", "notebookShutdown",
               "awaitNotebook"}
FinalPcs == {"returned", "threw"}
Pcs == {"new"} \cup CreatingPcs \cup WaitingPcs \cup FinalPcs

NewCall == [pc |-> "new", host |-> None, runtime |-> None, session |-> None,
            promise |-> None, owner |-> None, activate |-> FALSE, listening |-> FALSE]

\* RuntimeState.  Ready stands for Ready, Idle and Busy (the service treats
\* them alike), Offline for Offline and Interrupting.
RuntimeStates == {"Uninitialized", "Starting", "Ready", "Restarting",
                  "Exiting", "Offline", "Exited"}

\* exiting: neither of the two exit events has been handled; ended: only
\* onDidEndSession has; exited: only the change to Exited has; gone: both.
KernelStates == {"none", "up", "exiting", "ended", "exited", "gone"}

NoSession == [host |-> None, runtime |-> None, activate |-> FALSE, relaunch |-> FALSE]

IsConsole(h) == h \in Languages

\* Where a request for runtime r, with or without a notebook, is hosted.
HostsOf(r) == {LanguageOf[r]} \cup Notebooks

Active(s) == session[s] # NoSession

Pending(p) == p # None /\ promise[p] = "pending"

\* A shutdown in progress: has session.shutdown() returned, and has
\* onDidEndSession or the five second timer settled the inner promise?
NoShutdown == [called |-> "none", outcome |-> "none"]

\* The call is waiting for something that has settled: its continuation is a
\* microtask.
Runnable(t) ==
    \/ call[t].pc \in {"selectStart", "notebookStart"} /\ ~Pending(call[t].promise)
    \/ call[t].pc = "selectNotebook" /\ nbShutdown[call[t].host] # call[t].owner
    \/ call[t].pc \in {"selectResume", "notebookResume"}
    \/ call[t].pc = "deferred" /\ trusted

\* Microtasks run before the next message, timer or user event.
Quiescent == \A t \in Calls : ~Runnable(t)

-----------------------------------------------------------------------------
(* The maps of starting sessions.                                          *)

\* setStartingSessionMaps, and the start promise others can be coalesced with.
BeginStart(h, r, p) ==
    /\ starting' = [starting EXCEPT ![h] = r]
    /\ startingSessions' = [startingSessions EXCEPT ![<<h, r>>] = p]
    /\ promise' = [promise EXCEPT ![p] = "pending"]

\* clearStartingSessionMaps: by key and by host, whoever set them.
ClearStarting(h, r) ==
    /\ startingSessions' = [startingSessions EXCEPT ![<<h, r>>] = None]
    /\ starting' = [starting EXCEPT ![h] = None]

\* Seeded fault: a second settlement is recorded as well.
SettleTwice(p, outcome) ==
    promise' = [promise EXCEPT ![p] = IF @ = "pending" THEN outcome ELSE "settled"]

\* complete and error of a DeferredPromise: the first one decides its outcome.
Settle(p, outcome) ==
    promise' = [promise EXCEPT ![p] = IF @ = "pending" THEN outcome ELSE @]

-----------------------------------------------------------------------------
(* How a synchronous part of call t ends.  c is the call's record so far.  *)

Suspend(t, c, where) == call' = [call EXCEPT ![t] = [c EXCEPT !.pc = where]]

\* The call returns or throws without having changed the service's state.
Leave(t, c, how) ==
    /\ Suspend(t, c, how)
    /\ UNCHANGED <<serviceMaps, sessionMaps, shutdowns, losses, kernels, world>>

\* Seeded fault: a start in progress is not looked at.
ValidateIgnoringStarting(h, r) ==
    CASE running[h] = None -> "start"
      [] OTHER -> IF session[running[h]].runtime = r THEN "running" ELSE "error"

\* Seeded fault: the session that runs for the host is not looked at.
ValidateIgnoringRunning(h, r) == IF starting[h] # None THEN "error" ELSE "start"

\* validateRuntimeSessionStart: "start", the running session's id, or an error.
ValidateStart(h, r) ==
    CASE starting[h] # None -> "error"
      [] starting[h] = None /\ running[h] = None -> "start"
      [] OTHER -> IF session[running[h]].runtime = r THEN "running" ELSE "error"

\* doCreateRuntimeSession up to its first await.  The two awaits that follow
\* (getManagerForRuntime and createSession) have nothing between them that
\* another call could see, and the same error path: they are one await here.
DoCreate(t, c) ==
    LET old == startingSessions[<<c.host, c.runtime>>]
        p   == IF Pending(old) THEN old ELSE <<t, "create">>
    IN  /\ BeginStart(c.host, c.runtime, p)
        /\ Suspend(t, [c EXCEPT !.promise = p], "creating")
        /\ UNCHANGED <<sessionMaps, shutdowns, losses, kernels>>

\* A request for a session that is already starting returns its promise.
Coalesce(t, c) ==
    LET old == startingSessions[<<c.host, c.runtime>>]
    IN  Pending(old) /\ Leave(t, [c EXCEPT !.promise = old], "awaitPromise")

\* What validateRuntimeSessionStart finds for a session that is not starting.
Startable(c, verdict) ==
    /\ ~Pending(startingSessions[<<c.host, c.runtime>>])
    /\ ValidateStart(c.host, c.runtime) = verdict

\* doAutoStartRuntime up to its first await.
DoAutoStart(t, c) ==
    \/ Coalesce(t, c)
    \/ Startable(c, "error") /\ Leave(t, c, "threw")
    \/ Startable(c, "running") /\ Leave(t, c, "returned")
    \/ /\ Startable(c, "start")
       /\ BeginStart(c.host, c.runtime, <<t, "auto">>)
       /\ Suspend(t, [c EXCEPT !.promise = <<t, "auto">>], "autoManager")
       /\ UNCHANGED <<sessionMaps, shutdowns, losses, kernels, world>>

\* autoStartRuntime: deferred until the workspace is trusted.
AutoStartRuntime(t, c) ==
    \/ c.host \notin AutoStart /\ Leave(t, c, "returned")
    \/ c.host \in AutoStart /\ trusted /\ DoAutoStart(t, c)
    \/ c.host \in AutoStart /\ ~trusted /\ Leave(t, c, "deferred")

\* startNewRuntimeSession up to its first await.
StartNew(t, c) ==
    \/ Coalesce(t, c)
    \/ /\ ~Pending(startingSessions[<<c.host, c.runtime>>])
       /\ c.runtime \notin registered
       /\ Leave(t, c, "threw")
    \/ c.runtime \in registered /\ Startable(c, "error") /\ Leave(t, c, "threw")
    \/ c.runtime \in registered /\ Startable(c, "running") /\ Leave(t, c, "returned")
    \/ /\ c.runtime \in registered /\ Startable(c, "start")
       /\ \/ trusted /\ DoCreate(t, c) /\ UNCHANGED world
          \/ ~trusted /\ IsConsole(c.host) /\ AutoStartRuntime(t, c)
          \/ ~trusted /\ ~IsConsole(c.host) /\ Leave(t, c, "threw")

-----------------------------------------------------------------------------
(* Shutting a session down.                                                *)

\* doShutdownRuntimeSession throws for an unknown session, session.shutdown()
\* for one that is not Busy, Idle or Ready.
CanShutdown(s) == Active(s) /\ state[s] = "Ready"

ShutdownRefused(s) == shuttingDown[s] = NoShutdown /\ ~CanShutdown(s)

\* shutdownRuntimeSession: requests for one session are coalesced; the first
\* one moves the session to Exiting and asks the runtime to shut down.
RequestShutdown(s) ==
    LET first == shuttingDown[s] = NoShutdown
    IN  /\ shuttingDown' = IF first
                           THEN [shuttingDown EXCEPT ![s] =
                                   [called |-> "calling", outcome |-> "none"]]
                           ELSE shuttingDown
        /\ state' = IF first THEN [state EXCEPT ![s] = "Exiting"] ELSE state

\* The rest of shutdownNotebookSession once it has its session.
NotebookShutdown(t, c) ==
    /\ IF ShutdownRefused(c.session)
       THEN /\ Suspend(t, c, "threw")
            /\ nbShutdown' = [nbShutdown EXCEPT ![c.host] = None]
            /\ UNCHANGED <<shuttingDown, state>>
       ELSE /\ Suspend(t, c, "notebookShutdown")
            /\ nbShutdown' = [nbShutdown EXCEPT ![c.host] = t]
            /\ RequestShutdown(c.session)
    /\ UNCHANGED <<serviceMaps, sessionMaps, losses, kernel, world>>

\* The continuations of the calls that wait for the sessions S to shut down.
CallsAfterShutdown(S, ok) ==
    [t \in Calls |->
        CASE call[t].session \in S /\ call[t].pc = "selectShutdown" ->
               [call[t] EXCEPT !.pc = IF ok THEN "selectResume" ELSE "threw"]
          [] call[t].session \in S /\ call[t].pc = "notebookShutdown" ->
               [call[t] EXCEPT !.pc = IF ok THEN "returned" ELSE "threw"]
          [] OTHER -> call[t]]

NotebooksAfterShutdown(S) ==
    [n \in Notebooks |->
        IF \E t \in Calls : /\ nbShutdown[n] = t
                            /\ call[t].pc = "notebookShutdown"
                            /\ call[t].session \in S
        THEN None ELSE nbShutdown[n]]

\* The shutdown promises of S settle, and the map forgets them.
SettleShutdowns(S, ok) ==
    /\ call' = CallsAfterShutdown(S, ok)
    /\ nbShutdown' = NotebooksAfterShutdown(S)

\* What the end of the sessions S (onDidEndSession) does to their shutdowns; a
\* request that was not answered yet becomes unanswered.
EndShutdowns(S, unanswered) ==
    LET waiting == [called |-> "yes", outcome |-> "none"]
    IN  /\ SettleShutdowns({s \in S : shuttingDown[s] = waiting}, TRUE)
        /\ shuttingDown' =
             [s \in Sessions |->
                CASE s \in S /\ shuttingDown[s] = waiting -> NoShutdown
                  [] s \in S /\ shuttingDown[s].called = "calling" ->
                       [called |-> unanswered,
                        outcome |-> IF shuttingDown[s].outcome = "timedOut"
                                    THEN "timedOut" ELSE "ended"]
                  [] OTHER -> shuttingDown[s]]

\* Seeded fault: the answer to session.shutdown() counts as the session's end.
ShutdownRepliesEarly(s, ok) ==
    /\ Quiescent
    /\ shuttingDown[s].called = "calling"
    /\ ok => extHost
    /\ shuttingDown' = [shuttingDown EXCEPT ![s] = NoShutdown]
    /\ SettleShutdowns({s}, ok)
    /\ UNCHANGED <<serviceMaps, sessionMaps, losses, kernels, world>>

\* session.shutdown() resolves or rejects.
ShutdownReplies(s, ok) ==
    LET before == shuttingDown[s].outcome
    IN  /\ Quiescent
        /\ shuttingDown[s].called = "calling"
        /\ ok => extHost
        /\ IF ok /\ before = "none"
           THEN /\ shuttingDown' = [shuttingDown EXCEPT ![s].called = "yes"]
                /\ UNCHANGED <<call, nbShutdown>>
           ELSE /\ shuttingDown' = [shuttingDown EXCEPT ![s] = NoShutdown]
                /\ SettleShutdowns({s}, ok /\ before = "ended")
        /\ UNCHANGED <<serviceMaps, sessionMaps, losses, kernels, world>>

\* The five second timer of doShutdownRuntimeSession.
ShutdownTimeout(s) ==
    /\ Quiescent
    /\ shuttingDown[s] # NoShutdown /\ shuttingDown[s].outcome = "none"
    /\ IF shuttingDown[s].called = "yes"
       THEN /\ shuttingDown' = [shuttingDown EXCEPT ![s] = NoShutdown]
            /\ SettleShutdowns({s}, FALSE)
       ELSE /\ shuttingDown' = [shuttingDown EXCEPT ![s].outcome = "timedOut"]
            /\ UNCHANGED <<call, nbShutdown>>
    /\ UNCHANGED <<serviceMaps, sessionMaps, losses, kernels, world>>

-----------------------------------------------------------------------------
(* The calls, up to their first await.                                     *)

\* No call waits for an answer of the extension host.
NothingInFlight ==
    /\ \A t \in Calls : call[t].pc \notin CreatingPcs \cup {"restarting"}
    /\ \A s \in Sessions : shuttingDown[s].called # "calling"

\* A call that has not been made yet is made now.  When the extension host is
\* lost, the requests it has not answered are rejected before anything else.
CallNow(t) == Quiescent /\ call[t].pc = "new" /\ (extHost \/ NothingInFlight)

Request(t, kind) == CallNow(t) /\ kind \in Requests

\* startNewRuntimeSession
StartNewRuntimeSession(t, h, r) ==
    /\ Request(t, "start")
    /\ h \in HostsOf(r)
    /\ StartNew(t, [NewCall EXCEPT !.host = h, !.runtime = r, !.activate = TRUE])

\* autoStartRuntime, from the startup service.
AutoStartRequest(t, r, activate) ==
    /\ Request(t, "auto")
    /\ AutoStartRuntime(t, [NewCall EXCEPT !.host = LanguageOf[r], !.runtime = r,
                                           !.activate = activate])

\* onDidRequestRichLanguageFeatures: a file of the language was opened.
EncounterLanguage(t, r) ==
    /\ Request(t, "language")
    /\ starting[LanguageOf[r]] = None /\ running[LanguageOf[r]] = None
    /\ r \in registered
    /\ AutoStartRuntime(t, [NewCall EXCEPT !.host = LanguageOf[r], !.runtime = r,
                                           !.activate = TRUE])

\* selectRuntime from the lookup of the host's session on.
SelectActive(t, c) ==
    LET s == running[c.host]
    IN  \/ s = None /\ StartNew(t, c)
        \/ /\ s # None /\ session[s].runtime = c.runtime
           /\ Suspend(t, c, "returned")
           /\ foreground' = IF IsConsole(c.host) THEN s ELSE foreground
           /\ UNCHANGED <<serviceMaps, running, session, shutdowns, losses, kernels, world>>
        \/ /\ s # None /\ session[s].runtime # c.runtime
           /\ ShutdownRefused(s)
           /\ Leave(t, c, "threw")
        \/ /\ s # None /\ session[s].runtime # c.runtime
           /\ ~ShutdownRefused(s)
           /\ Suspend(t, [c EXCEPT !.session = s], "selectShutdown")
           /\ RequestShutdown(s)
           /\ UNCHANGED <<serviceMaps, sessionMaps, nbShutdown, losses, kernel, world>>

\* selectRuntime from the check for a notebook shutdown in progress on.
SelectNotebook(t, c) ==
    IF ~IsConsole(c.host) /\ nbShutdown[c.host] # None
    THEN Leave(t, [c EXCEPT !.owner = nbShutdown[c.host]], "selectNotebook")
    ELSE SelectActive(t, c)

\* selectRuntime
SelectRuntime(t, h, r) ==
    LET c == [NewCall EXCEPT !.host = h, !.runtime = r, !.activate = TRUE]
        p == startingSessions[<<h, r>>]
    IN  /\ Request(t, "select")
        /\ h \in HostsOf(r)
        /\ \/ r \notin registered /\ Leave(t, c, "threw")
           \/ /\ r \in registered /\ Pending(p)
              /\ Leave(t, [c EXCEPT !.promise = p], "selectStart")
           \/ r \in registered /\ ~Pending(p) /\ SelectNotebook(t, c)

\* doRestartRuntime up to its first await: the Ready listener and its timer are
\* armed, session.restart() moves the session to Restarting.
DoRestart(t, c) ==
    LET p == <<t, "create">>
    IN  \/ Coalesce(t, c)
        \/ /\ ~Pending(startingSessions[<<c.host, c.runtime>>])
           /\ BeginStart(c.host, c.runtime, p)
           /\ Suspend(t, [c EXCEPT !.promise = p, !.listening = TRUE], "restarting")
           /\ state' = [state EXCEPT ![c.session] = "Restarting"]
           /\ session' = [session EXCEPT ![c.session].relaunch = TRUE]
           /\ UNCHANGED <<running, foreground, shutdowns, losses, kernel, world>>

\* restartSession
RestartSession(t, s) ==
    LET c == [NewCall EXCEPT !.host = session[s].host, !.runtime = session[s].runtime,
                             !.activate = TRUE]
    IN  /\ Request(t, "restart")
        /\ Active(s)
        /\ \/ state[s] = "Ready" /\ DoRestart(t, [c EXCEPT !.session = s])
           \/ state[s] \in {"Uninitialized", "Exited"} /\ StartNew(t, c)
           \/ state[s] \in {"Starting", "Restarting"} /\ Leave(t, c, "returned")
           \/ state[s] \in {"Exiting", "Offline"} /\ Leave(t, c, "threw")

\* shutdownNotebookSession and getActiveOrStartingNotebook
ShutdownNotebookSession(t, n) ==
    LET c == [NewCall EXCEPT !.host = n]
        s == running[n]
        p == IF starting[n] = None THEN None ELSE startingSessions[<<n, starting[n]>>]
    IN  /\ Request(t, "shutdownNotebook")
        /\ \/ /\ nbShutdown[n] # None
              /\ Leave(t, [c EXCEPT !.owner = nbShutdown[n]], "awaitNotebook")
           \/ /\ nbShutdown[n] = None /\ s # None
              /\ NotebookShutdown(t, [c EXCEPT !.session = s])
           \/ /\ nbShutdown[n] = None /\ s = None /\ p = None
              /\ Leave(t, c, "returned")
           \/ /\ nbShutdown[n] = None /\ s = None /\ p # None
              /\ Suspend(t, [c EXCEPT !.promise = p], "notebookStart")
              /\ nbShutdown' = [nbShutdown EXCEPT ![n] = t]
              /\ UNCHANGED <<serviceMaps, sessionMaps, shuttingDown, losses, kernels, world>>

\* Seeded fault: the session stays in the list of disconnected sessions.
RestoreAndKeep(t, s) ==
    LET c == [NewCall EXCEPT !.host = session[s].host, !.runtime = session[s].runtime,
                             !.session = s, !.promise = <<t, "create">>]
    IN  /\ CallNow(t) /\ extHost
        /\ s \in disconnected
        /\ Startable(c, "start")
        /\ BeginStart(c.host, c.runtime, c.promise)
        /\ Suspend(t, c, "restoring")
        /\ UNCHANGED <<sessionMaps, shutdowns, losses, kernels, world>>

\* onDidChangeExtensionsStatus and restoreRuntimeSession up to its first await
\* (its two awaits before doStartRuntimeSession are one, as in DoCreate).
RestoreRuntimeSession(t, s) ==
    LET h   == session[s].host
        r   == session[s].runtime
        old == startingSessions[<<h, r>>]
        p   == <<t, "create">>
        c   == [NewCall EXCEPT !.host = h, !.runtime = r, !.session = s]
    IN  /\ CallNow(t) /\ extHost
        /\ s \in disconnected
        /\ disconnected' = disconnected \ {s}
        /\ registered' = IF Pending(old) THEN registered ELSE registered \cup {r}
        /\ \/ /\ Pending(old)
              /\ Suspend(t, [c EXCEPT !.promise = old], "awaitPromise")
              /\ UNCHANGED serviceMaps
           \/ /\ Startable(c, "error") /\ Suspend(t, c, "threw")
              /\ UNCHANGED serviceMaps
           \/ /\ Startable(c, "running") /\ Suspend(t, c, "returned")
              /\ UNCHANGED serviceMaps
           \/ /\ Startable(c, "start")
              /\ BeginStart(h, r, p)
              /\ Suspend(t, [c EXCEPT !.promise = p], "restoring")
        /\ UNCHANGED <<sessionMaps, shutdowns, disconnecting, extHost, kernels, trusted>>

-----------------------------------------------------------------------------
(* Continuations that are microtasks.                                      *)

SelectAfterStart(t) ==
    /\ call[t].pc = "selectStart" /\ Runnable(t)
    /\ IF promise[call[t].promise] = "rejected"
       THEN Leave(t, call[t], "threw")
       ELSE SelectNotebook(t, call[t])

SelectAfterNotebook(t) ==
    /\ call[t].pc = "selectNotebook" /\ Runnable(t)
    /\ SelectActive(t, call[t])

SelectAfterShutdown(t) ==
    /\ call[t].pc = "selectResume"
    /\ StartNew(t, [call[t] EXCEPT !.session = None])

\* onDidChangeTrust
StartAfterTrust(t) ==
    /\ call[t].pc = "deferred" /\ trusted
    /\ DoAutoStart(t, call[t])

\* getActiveOrStartingNotebook after the start promise settles: its value is
\* the session of the call that made the promise.
NotebookAfterStart(t) ==
    LET c == call[t]
        s == call[c.promise[1]].session
    IN  /\ c.pc = "notebookStart" /\ Runnable(t)
        /\ \/ /\ promise[c.promise] = "rejected"
              /\ Suspend(t, c, "returned")
              /\ nbShutdown' = [nbShutdown EXCEPT ![c.host] = None]
              /\ UNCHANGED <<serviceMaps, sessionMaps, shuttingDown, losses, kernels, world>>
           \/ /\ promise[c.promise] # "rejected" /\ state[s] = "Starting"
              /\ Leave(t, [c EXCEPT !.session = s], "notebookReady")
           \/ /\ promise[c.promise] # "rejected" /\ state[s] # "Starting"
              /\ NotebookShutdown(t, [c EXCEPT !.session = s])

NotebookAfterReady(t) ==
    /\ call[t].pc = "notebookResume"
    /\ NotebookShutdown(t, call[t])

\* awaitStateChange gives up after ten seconds; the shutdown goes on anyway.
NotebookReadyTimeout(t) ==
    /\ Quiescent /\ call[t].pc = "notebookReady"
    /\ NotebookShutdown(t, call[t])

-----------------------------------------------------------------------------
(* Answers of the runtime's manager and session to the awaiting call.      *)

\* Seeded fault: the promise is left alone, as in the validateMetadata path.
FailStartUnsettled(t) ==
    /\ starting' = [starting EXCEPT ![call[t].host] = None]
    /\ Suspend(t, call[t], "threw")
    /\ UNCHANGED <<startingSessions, promise, sessionMaps, shutdowns, losses, kernels, world>>

\* Seeded fault: the starting maps are not cleared.
FailStartUncleared(t) ==
    /\ Settle(call[t].promise, "rejected")
    /\ Suspend(t, call[t], "threw")
    /\ UNCHANGED <<starting, startingSessions, sessionMaps, shutdowns, losses, kernels, world>>

\* A call whose request failed: the start promise is rejected and the starting
\* maps are cleared.
FailStart(t) ==
    LET c == call[t]
    IN  /\ Settle(c.promise, "rejected")
        /\ ClearStarting(c.host, c.runtime)
        /\ Suspend(t, c, "threw")
        /\ UNCHANGED <<sessionMaps, shutdowns, losses, kernels, world>>

\* doAutoStartRuntime: the manager was found; a runtime that is not registered
\* yet has its metadata validated first.
AutoManagerFound(t) ==
    /\ Quiescent /\ extHost
    /\ call[t].pc = "autoManager"
    /\ IF call[t].runtime \in registered
       THEN DoCreate(t, call[t]) /\ UNCHANGED world
       ELSE Leave(t, call[t], "validating")

\* validateMetadata returns metadata for runtime r, perhaps another than asked.
MetadataValidated(t, r) ==
    /\ Quiescent /\ extHost
    /\ call[t].pc = "validating"
    /\ LanguageOf[r] = call[t].host
    /\ registered' = registered \cup {r}
    /\ DoCreate(t, [call[t] EXCEPT !.runtime = r])
    /\ UNCHANGED trusted

\* validateMetadata throws: only the starting console is forgotten.
MetadataInvalid(t) ==
    /\ Quiescent
    /\ call[t].pc = "validating"
    /\ starting' = [starting EXCEPT ![call[t].host] = None]
    /\ Suspend(t, call[t], "threw")
    /\ UNCHANGED <<startingSessions, promise, sessionMaps, shutdowns, losses, kernels, world>>

\* getManagerForRuntime, createSession or restoreSession throws.
ManagerFails(t) ==
    /\ Quiescent
    /\ call[t].pc \in {"autoManager", "creating", "restoring"}
    /\ FailStart(t)

\* attachToSession for a session that was just created or restored, and the
\* call of session.start().  For a restored session the old ActiveRuntimeSession
\* is disposed, and with it what awaitStateChange registered there: the listener
\* and the timer.  A call that waits for them waits forever.
Attach(t, s) ==
    LET c == call[t]
    IN  /\ session' = [session EXCEPT ![s] =
                         [host |-> c.host, runtime |-> c.runtime,
                          activate |-> c.activate, relaunch |-> FALSE]]
        /\ state' = [state EXCEPT ![s] = "Uninitialized"]
        /\ kernel' = [kernel EXCEPT ![s] = "none"]
        /\ call' = [u \in Calls |->
                      CASE u = t -> [c EXCEPT !.session = s, !.pc = "starting"]
                        [] u # t /\ call[u].session = s ->
                             [call[u] EXCEPT !.listening = FALSE,
                                             !.pc = IF @ = "notebookReady"
                                                    THEN "notebookOrphan" ELSE @]
                        [] OTHER -> call[u]]
        /\ UNCHANGED <<serviceMaps, running, foreground, shutdowns, losses, world>>

SessionCreated(t) ==
    /\ Quiescent /\ extHost
    /\ call[t].pc = "creating"
    /\ Attach(t, t)

SessionRestored(t) ==
    /\ Quiescent /\ extHost
    /\ call[t].pc = "restoring"
    /\ Attach(t, call[t].session)

\* session.start() resolves: doStartRuntimeSession moves the session from the
\* starting to the running maps and the start promise is fulfilled.
StartSucceeds(t) ==
    LET c == call[t]
    IN  /\ Quiescent /\ extHost
        /\ c.pc = "starting"
        /\ kernel[c.session] = "up"
        /\ ClearStarting(c.host, c.runtime)
        /\ running' = [running EXCEPT ![c.host] = c.session]
        /\ foreground' = IF IsConsole(c.host) THEN c.session ELSE foreground
        /\ Settle(c.promise, "fulfilled")
        /\ Suspend(t, c, "returned")
        /\ UNCHANGED <<session, shutdowns, losses, kernels, world>>

\* session.start() rejects: before the kernel was launched, or after the exit
\* events of a start that failed, which the session fires first.  It reports
\* its kernel as gone then, whether or not the process lives on.
StartFails(t) ==
    LET k == kernel[call[t].session]
    IN  /\ Quiescent
        /\ call[t].pc = "starting"
        /\ k \in {"none", "gone"} \/ (k = "ended" /\ StatesMayLag)
        /\ FailStart(t)

\* session.restart() resolves; doRestartRuntime returns the start promise.
RestartSucceeds(t) ==
    /\ Quiescent /\ extHost
    /\ call[t].pc = "restarting"
    /\ Leave(t, call[t], "awaitPromise")

\* session.restart() rejects; the Ready listener stays.
RestartFails(t) ==
    LET c == call[t]
    IN  /\ Quiescent
        /\ c.pc = "restarting"
        /\ session[c.session].relaunch \/ ~extHost
        /\ Settle(c.promise, "rejected")
        /\ ClearStarting(c.host, c.runtime)
        /\ Suspend(t, c, "awaitPromise")
        /\ session' = [session EXCEPT ![c.session].relaunch = FALSE]
        /\ UNCHANGED <<running, foreground, shutdowns, losses, kernels, world>>

\* The ten second timer of the restart's awaitStateChange.
RestartTimeout(t) ==
    LET c == call[t]
    IN  /\ Quiescent
        /\ c.listening
        /\ Settle(c.promise, "rejected")
        /\ call' = [call EXCEPT ![t].listening = FALSE]
        /\ UNCHANGED <<starting, startingSessions, sessionMaps, shutdowns, losses, kernels, world>>

-----------------------------------------------------------------------------
(* Events of a session.                                                    *)

Event(s, from, to) ==
    /\ Quiescent /\ extHost /\ Active(s)
    /\ state[s] \in from
    /\ state' = [state EXCEPT ![s] = to]

\* The kernel process is launched, by session.start() or by a restart.
KernelLaunched(s) ==
    /\ Event(s, {"Uninitialized", "Exited"}, "Starting")
    /\ \/ kernel[s] = "none" /\ \E t \in Calls : call[t].pc = "starting" /\ call[t].session = s
       \/ kernel[s] = "gone" /\ session[s].relaunch
    /\ kernel' = [kernel EXCEPT ![s] = "up"]
    /\ session' = [session EXCEPT ![s].relaunch = FALSE]
    /\ UNCHANGED <<call, serviceMaps, running, foreground, shutdowns, losses, world>>

\* Seeded fault: a session that becomes ready is not put into the running maps.
HandleReadyUntracked(s) ==
    LET h == session[s].host
    IN  /\ foreground' = IF IsConsole(h) /\ session[s].activate THEN s ELSE foreground
        /\ UNCHANGED <<call, serviceMaps, running>>

\* The handler of RuntimeState.Ready, and the listeners of restartSession and
\* getActiveOrStartingNotebook.
HandleReady(s) ==
    LET h == session[s].host
        L == {t \in Calls : call[t].listening /\ call[t].session = s}
    IN  /\ foreground' = IF IsConsole(h) /\ session[s].activate THEN s ELSE foreground
        /\ running' = IF running[h] = None THEN [running EXCEPT ![h] = s] ELSE running
        /\ IF L = {} THEN UNCHANGED <<starting, startingSessions>>
                     ELSE ClearStarting(h, session[s].runtime)
        /\ promise' = [p \in Promises |->
                         IF promise[p] = "pending" /\ \E t \in L : call[t].promise = p
                         THEN "fulfilled" ELSE promise[p]]
        /\ call' = [t \in Calls |->
                      CASE t \in L -> [call[t] EXCEPT !.listening = FALSE]
                        [] t \notin L /\ call[t].pc = "notebookReady" /\ call[t].session = s ->
                             [call[t] EXCEPT !.pc = "notebookResume"]
                        [] OTHER -> call[t]]

KernelReady(s) ==
    /\ Event(s, {"Starting"}, "Ready")
    /\ kernel[s] = "up"
    /\ HandleReady(s)
    /\ UNCHANGED <<session, shutdowns, losses, kernel, world>>

\* The kernel reports Busy or Idle, whatever the service last set the state to.
KernelActive(s) ==
    /\ Event(s, {"Exiting", "Restarting", "Offline"}, "Ready")
    /\ kernel[s] = "up"
    /\ UNCHANGED <<call, serviceMaps, sessionMaps, shutdowns, losses, kernel, world>>

\* The session goes offline, or is being interrupted.
KernelOffline(s) ==
    /\ Event(s, {"Ready"}, "Offline")
    /\ kernel[s] = "up"
    /\ UNCHANGED <<call, serviceMaps, sessionMaps, shutdowns, losses, kernel, world>>

\* The kernel process ends: on request, by a forced quit, or in a crash.
KernelExits(s) ==
    /\ Quiescent /\ extHost
    /\ kernel[s] = "up"
    /\ kernel' = [kernel EXCEPT ![s] = "exiting"]
    /\ UNCHANGED <<call, serviceMaps, sessionMaps, shutdowns, losses, state, world>>

\* Seeded fault: only notebooks are forgotten.
MapsAfterNotebookExit(S) ==
    [h \in Hosts |->
        IF ~IsConsole(h) /\ \E s \in S : session[s].host = h THEN None ELSE running[h]]

\* Seeded fault: a console's entry is cleared whoever it belongs to.
MapsAfterAnyExit(S) ==
    [h \in Hosts |-> IF \E s \in S : session[s].host = h THEN None ELSE running[h]]

\* updateSessionMapsAfterExit for the sessions S: a console is forgotten if it
\* is the one in the map, a notebook's entry whoever it belongs to.
MapsAfterExit(S) ==
    [h \in Hosts |->
        IF \/ IsConsole(h) /\ running[h] \in S
           \/ ~IsConsole(h) /\ \E s \in S : session[s].host = h
        THEN None ELSE running[h]]

\* The handler of RuntimeState.Exited.
SessionExited(s) ==
    /\ Event(s, RuntimeStates \ {"Exited"}, "Exited")
    /\ kernel[s] \in {"exiting", "ended"}
    /\ kernel' = [kernel EXCEPT ![s] = IF @ = "exiting" THEN "exited" ELSE "gone"]
    /\ running' = MapsAfterExit({s})
    /\ UNCHANGED <<call, serviceMaps, foreground, session, shutdowns, losses, world>>

\* The handler of onDidEndSession; the exit reason is not ExtensionHost.
SessionEnded(s) ==
    /\ Quiescent /\ extHost
    /\ kernel[s] \in {"exiting", "exited"}
    /\ kernel[s] = "exiting" => StatesMayLag \/ state[s] = "Starting"
    /\ kernel' = [kernel EXCEPT ![s] = IF @ = "exiting" THEN "ended" ELSE "gone"]
    /\ running' = MapsAfterExit({s})
    /\ EndShutdowns({s}, IF AnswersAfterExit THEN "calling" ELSE "lost")
    /\ UNCHANGED <<serviceMaps, foreground, session, losses, state, world>>

-----------------------------------------------------------------------------
(* The extension host, workspace trust and the registry.                   *)

\* MainThreadLanguageRuntime.dispose: every session that has not exited does.
LoseExtHost ==
    LET S == {s \in Sessions : Active(s) /\ state[s] # "Exited"}
    IN  /\ Quiescent /\ extHost /\ CanLoseExtHost
        /\ extHost' = FALSE
        /\ state' = [s \in Sessions |-> IF s \in S THEN "Exited" ELSE state[s]]
        /\ kernel' = [s \in Sessions |-> IF Active(s) THEN "gone" ELSE kernel[s]]
        /\ session' = [s \in Sessions |-> [session[s] EXCEPT !.relaunch = FALSE]]
        /\ running' = MapsAfterExit(S)
        /\ EndShutdowns(S, "calling")
        /\ disconnecting' = disconnecting \cup S
        /\ UNCHANGED <<serviceMaps, foreground, disconnected, world>>

\* The setTimeout of the onDidEndSession handler.
RememberDisconnected(s) ==
    /\ Quiescent
    /\ s \in disconnecting
    /\ disconnecting' = disconnecting \ {s}
    /\ disconnected' = disconnected \cup {s}
    /\ UNCHANGED <<call, serviceMaps, sessionMaps, shutdowns, extHost, kernels, world>>

\* A new extension host; the requests to the old one have been rejected.
ExtHostReturns ==
    /\ Quiescent /\ ~extHost /\ NothingInFlight
    /\ extHost' = TRUE
    /\ UNCHANGED <<call, serviceMaps, sessionMaps, shutdowns, disconnected, disconnecting,
                   kernels, world>>

\* onDidChangeTarget: the application's storage moved.
StorageMoved ==
    /\ Quiescent
    /\ disconnected # {}
    /\ disconnected' = {}
    /\ UNCHANGED <<call, serviceMaps, sessionMaps, shutdowns, disconnecting, extHost,
                   kernels, world>>

GrantTrust ==
    /\ Quiescent /\ ~trusted
    /\ trusted' = TRUE
    /\ UNCHANGED <<call, serviceMaps, sessionMaps, shutdowns, losses, kernels, registered>>

\* A discovered runtime is registered.
RegisterRuntime(r) ==
    /\ Quiescent /\ extHost
    /\ r \notin registered
    /\ registered' = registered \cup {r}
    /\ UNCHANGED <<call, serviceMaps, sessionMaps, shutdowns, losses, kernels, trusted>>

-----------------------------------------------------------------------------
Init ==
    /\ call = [t \in Calls |-> NewCall]
    /\ registered = Discovered
    /\ trusted = TrustedAtStart
    /\ starting = [h \in Hosts |-> None]
    /\ startingSessions = [k \in Keys |-> None]
    /\ promise = [p \in Promises |-> "none"]
    /\ running = [h \in Hosts |-> None]
    /\ session = [s \in Sessions |-> NoSession]
    /\ foreground = None
    /\ shuttingDown = [s \in Sessions |-> NoShutdown]
    /\ nbShutdown = [n \in Notebooks |-> None]
    /\ disconnected = {} /\ disconnecting = {}
    /\ state = [s \in Sessions |-> "Uninitialized"]
    /\ kernel = [s \in Sessions |-> "none"]
    /\ extHost = TRUE

Ask(t) ==
    \/ \E h \in Hosts, r \in Runtimes : StartNewRuntimeSession(t, h, r)
    \/ \E r \in Runtimes, activate \in BOOLEAN : AutoStartRequest(t, r, activate)
    \/ \E r \in Runtimes : EncounterLanguage(t, r)
    \/ \E h \in Hosts, r \in Runtimes : SelectRuntime(t, h, r)
    \/ \E s \in Sessions : RestartSession(t, s)
    \/ \E n \in Notebooks : ShutdownNotebookSession(t, n)
    \/ \E s \in Sessions : RestoreRuntimeSession(t, s)

Resume(t) ==
    \/ SelectAfterStart(t) \/ SelectAfterNotebook(t) \/ SelectAfterShutdown(t)
    \/ StartAfterTrust(t)
    \/ NotebookAfterStart(t) \/ NotebookAfterReady(t)

Answer(t) ==
    \/ AutoManagerFound(t) \/ ManagerFails(t)
    \/ \E r \in Runtimes : MetadataValidated(t, r)
    \/ MetadataInvalid(t)
    \/ SessionCreated(t) \/ SessionRestored(t)
    \/ StartSucceeds(t) \/ StartFails(t)
    \/ RestartSucceeds(t) \/ RestartFails(t)

ShutdownAnswer(s) == \E ok \in BOOLEAN : ShutdownReplies(s, ok)

Timer(t) == RestartTimeout(t) \/ NotebookReadyTimeout(t)

ExitEvent(s) == SessionExited(s) \/ SessionEnded(s)

KernelStep(s) ==
    \/ KernelLaunched(s) \/ KernelReady(s) \/ KernelActive(s)
    \/ KernelOffline(s) \/ KernelExits(s)

Next ==
    \/ \E t \in Calls : Ask(t) \/ Resume(t) \/ Answer(t) \/ Timer(t)
    \/ \E s \in Sessions : \/ ShutdownAnswer(s) \/ ShutdownTimeout(s)
                           \/ ExitEvent(s) \/ KernelStep(s)
                           \/ RememberDisconnected(s)
    \/ LoseExtHost \/ ExtHostReturns \/ StorageMoved
    \/ GrantTrust
    \/ \E r \in Runtimes : RegisterRuntime(r)

\* The kernel of session.start() died under the request: the session forgets
\* its pending requests, and start() may or may not reject.
Unanswered(t) ==
    /\ ~AnswersAfterExit /\ extHost
    /\ call[t].pc = "starting"
    /\ kernel[call[t].session] \notin {"none", "up"}

\* Promise continuations run, timers fire, the extension host answers what it
\* has not forgotten, and both events of an exit arrive.  Users and kernels owe
\* nothing.
Fairness ==
    /\ \A t \in Calls : /\ WF_vars(Resume(t)) /\ WF_vars(Timer(t))
                        /\ WF_vars(~Unanswered(t) /\ Answer(t))
    /\ \A s \in Sessions : /\ WF_vars(ShutdownAnswer(s)) /\ WF_vars(ShutdownTimeout(s))
                           /\ WF_vars(ExitEvent(s))

Spec == Init /\ [][Next]_vars
FairSpec == Spec /\ Fairness

-----------------------------------------------------------------------------
(* Properties.                                                             *)

\* Every variable keeps its type.
TypeOK ==
    /\ call \in [Calls -> [pc : Pcs, host : Hosts \cup {None}, runtime : Runtimes \cup {None},
                           session : Sessions \cup {None}, promise : Promises \cup {None},
                           owner : Calls \cup {None}, activate : BOOLEAN, listening : BOOLEAN]]
    /\ registered \subseteq Runtimes
    /\ trusted \in BOOLEAN
    /\ starting \in [Hosts -> Runtimes \cup {None}]
    /\ startingSessions \in [Keys -> Promises \cup {None}]
    /\ promise \in [Promises -> {"none", "pending", "fulfilled", "rejected"}]
    /\ running \in [Hosts -> Sessions \cup {None}]
    /\ session \in [Sessions -> [host : Hosts \cup {None}, runtime : Runtimes \cup {None},
                                 activate : BOOLEAN, relaunch : BOOLEAN]]
    /\ foreground \in Sessions \cup {None}
    /\ shuttingDown \in [Sessions -> [called : {"none", "calling", "yes", "lost"},
                                      outcome : {"none", "ended", "timedOut"}]]
    /\ nbShutdown \in [Notebooks -> Calls \cup {None}]
    /\ disconnected \subseteq Sessions /\ disconnecting \subseteq Sessions
    /\ state \in [Sessions -> RuntimeStates]
    /\ kernel \in [Sessions -> KernelStates]
    /\ extHost \in BOOLEAN

\* A language is never the target of two console starts at once: requests for
\* the same session share one start promise, and a start for another runtime is
\* refused while one is in progress (startNewRuntimeSession, doAutoStartRuntime,
\* restoreRuntimeSession, validateRuntimeSessionStart).
OneStartPerLanguage ==
    \A t, u \in Calls :
        (t # u /\ call[t].pc \in CreatingPcs /\ call[u].pc \in CreatingPcs /\ IsConsole(call[t].host))
            => call[t].host # call[u].host

Up(s) == Active(s) /\ kernel[s] = "up"

\* "We can currently only have one console session per language": no
\* interleaving of starts, selections and restarts, with kernels that crash at
\* any time, leaves two console kernels of a language running.
OneConsolePerLanguage ==
    \A s, u \in Sessions :
        (s # u /\ Up(s) /\ Up(u) /\ IsConsole(session[s].host))
            => session[s].host # session[u].host

\* The assumption of getSessionMapKey: at most one session for a combination of
\* session mode, runtime and notebook at any given time.
OneSessionPerKey ==
    \A s, u \in Sessions :
        (s # u /\ Up(s) /\ Up(u))
            => \/ session[s].host # session[u].host
               \/ session[s].runtime # session[u].runtime

\* The maps of running sessions hold only sessions of their own host that have
\* been launched and whose end has not been handled, whatever the order of
\* start replies, Ready, Exited and onDidEndSession.
RunningIsLive ==
    \A h \in Hosts : running[h] # None =>
        /\ session[running[h]].host = h
        /\ kernel[running[h]] \notin {"none", "gone"}

\* A console session that is ready is the one the service finds for its
\* language (getConsoleSessionForLanguage): the exit events of an earlier
\* session never evict it, and a restart always puts it back.
ConsoleTracked ==
    \A s \in Sessions :
        (Up(s) /\ state[s] = "Ready" /\ IsConsole(session[s].host))
            => running[session[s].host] = s

\* The call works at a start or restart whose outcome settles its promise.
InProgress(t) == call[t].pc \in CreatingPcs \cup {"restarting"} \/ call[t].listening

\* A pending start promise that new requests would be coalesced with belongs to
\* a call that is still working on it.
StartPromiseOwned ==
    \A k \in Keys : Pending(startingSessions[k]) =>
        \E t \in Calls : call[t].promise = startingSessions[k] /\ InProgress(t)

\* A host that is marked as starting has a start or restart in progress that
\* will clear the mark; otherwise validateRuntimeSessionStart refuses every
\* further start there.
StartingHostOwned ==
    \A h \in Hosts : starting[h] # None =>
        \E t \in Calls : call[t].host = h /\ InProgress(t)

\* A session brought to the foreground is the running console of its language.
ForegroundIsRunning ==
    [][foreground' # foreground
         => \E h \in Languages : running'[h] = foreground']_vars

\* shutdownNotebookSession "resolves when the session has exited": it never
\* returns successfully, after asking for the shutdown, with the kernel running.
NotebookShutdownEnds ==
    [][\A t \in Calls :
         (call[t].pc = "notebookShutdown" /\ call'[t].pc = "returned")
             => kernel'[call[t].session] \notin {"up", "exiting"}]_vars

\* A session that waits to be reconnected is not at the same time a running one.
DisconnectedNotRunning == \A h \in Hosts : running[h] \notin disconnected

Finished(t) ==
    \/ call[t].pc \in FinalPcs
    \/ call[t].pc = "awaitPromise" /\ ~Pending(call[t].promise)
    \/ call[t].pc = "awaitNotebook" /\ nbShutdown[call[t].host] # call[t].owner

\* The call waits for what nobody owes it: the answer to a request its kernel
\* died under, or a listener that was disposed with an earlier attachment.
Abandoned(t) ==
    LET c == call[t]
    IN  \/ Unanswered(t)
        \/ /\ c.pc \in {"selectShutdown", "notebookShutdown"}
           /\ shuttingDown[c.session].called = "lost"
        \/ c.pc = "notebookOrphan"

\* The call whose promise this one waits for.
WaitsFor(t) ==
    LET c == call[t]
    IN  CASE c.pc \in {"awaitPromise", "selectStart", "notebookStart"} -> c.promise[1]
          [] c.pc \in {"awaitNotebook", "selectNotebook"} -> c.owner
          [] OTHER -> t

\* Every call of the service returns or throws, whatever it and the calls it
\* waits for run into, unless it was deferred until the workspace is trusted, or
\* one of them was abandoned.
EveryCallReturns ==
    \A t \in Calls :
        (call[t].pc \notin {"new", "deferred"})
            ~> \/ Finished(t)
               \/ \E u \in {t, WaitsFor(t), WaitsFor(WaitsFor(t))} : Abandoned(u)
=============================================================================
