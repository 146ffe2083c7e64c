------------------------- MODULE SupervisorSession -------------------------
(* The connection of a running session to the kernel supervisor:             *)
(* KallichoreSession's websocket, its barrier _connected, the requests that   *)
(* wait for it and for replies, restarts and exits, and the disconnect        *)
(* handler of KallichoreAdapterApi, which reconnects a session or finds that  *)
(* the supervisor is gone.  The supervisor and the kernel are modelled as     *)
(* they are used.                                                             *)
(*                                                                            *)
(* A barrier that is replaced while closed is never opened: requests that     *)
(* wait for it are stranded.  Starting a session, comms and output are left   *)
(* out.                                                                       *)
EXTENDS Naturals, Sequences, FiniteSets

CONSTANTS
    Requests,     \* requests that may be sent to the kernel
    MaxSockets,   \* bound on the websockets created
    MaxStatus,    \* bound on the kernel going offline, or to an unlisted state
    MaxRestarts,  \* bound on restarts
    MaxQuits,     \* bound on forced quits and shutdowns together
    MayDie        \* whether the supervisor may die

Sockets == 1..MaxSockets
NoSocket == 0

ASSUME SupervisorAssumption ==
    /\ MaxSockets \in Nat \ {0} /\ MaxStatus \in Nat /\ MaxRestarts \in Nat /\ MaxQuits \in Nat
    /\ MayDie \in BOOLEAN

VARIABLES
    state,       \* _runtimeState
    socket,      \* _socket
    sock,        \* state of every websocket; "closing", "failed" if it never
                 \* opened: its onclose is to come
    connected,   \* whether the barrier _connected is open
    req,         \* where every request is; "sent" ones are in _pendingRequests
    restarting,  \* _restarting
    restartCall, \* restart() awaits the supervisor, which may have restarted it
    exitReason,  \* _exitReason
    quitting,    \* whether forceQuit() awaits the supervisor
    report,      \* the last exit event, and whether a call since the one before explains it
    asked,       \* history: calls since then that ask the kernel to stop
    testing,     \* disconnect handlers in testServerExited
    awaited,     \* sockets whose connect() a handler awaits
    blind,       \* history: a session was restarted, or exited, while offline
    server,      \* the supervisor: "up", "dead", or "replaced" by a new one
    kernelUp,    \* whether the kernel process runs
    inbox,       \* requests the kernel has not answered
    wire,        \* messages of the supervisor for the session
    offlines, restarts, quits

connVars == <<socket, sock, connected, req>>
callVars == <<restarting, restartCall, restarts>>
exitVars == <<exitReason, quitting, report, asked, quits>>
handlerVars == <<testing, awaited>>
remoteVars == <<server, kernelUp, inbox, wire, offlines>>
vars == <<state, connVars, callVars, exitVars, handlerVars, blind, remoteVars>>

States == {"Starting", "Ready", "Idle", "Offline", "Exited"}
Statuses == States \cup {"Unlisted"}    \* the last: no RuntimeState
Reasons == {"Unknown", "Error", "Restart", "Shutdown", "ForcedQuit"}
Messages == [kind : {"status"}, status : Statuses]
                \cup [kind : {"exited"}] \cup [kind : {"reply"}, to : Requests]

TypeOK ==
    /\ state \in States
    /\ socket \in Sockets \cup {NoSocket}
    /\ sock \in [Sockets -> {"none", "connecting", "open", "closing", "failed", "closed"}]
    /\ connected \in BOOLEAN
    /\ req \in [Requests -> {"unused", "waiting", "stranded", "sent", "lost",
                             "answered", "forgotten", "failed"}]
    /\ restarting \in BOOLEAN /\ restartCall \in {"none", "asked", "served"} /\ restarts \in 0..MaxRestarts
    /\ exitReason \in Reasons /\ quitting \in BOOLEAN /\ quits \in 0..MaxQuits
    /\ report \in [reason : Reasons, explained : BOOLEAN]
    /\ asked \subseteq Reasons
    /\ testing \in Nat /\ awaited \subseteq Sockets
    /\ blind \in BOOLEAN
    /\ server \in {"up", "dead", "replaced"}
    /\ kernelUp \in BOOLEAN /\ inbox \subseteq Requests
    /\ wire \in Seq(Messages)
    /\ offlines \in 0..MaxStatus

Init ==
    /\ state = "Ready"
    /\ socket = 1
    /\ sock = [s \in Sockets |-> IF s = 1 THEN "open" ELSE "none"]
    /\ connected = TRUE
    /\ req = [r \in Requests |-> "unused"]
    /\ restarting = FALSE /\ restartCall = "none" /\ restarts = 0
    /\ exitReason = "Unknown" /\ quitting = FALSE /\ quits = 0
    /\ report = [reason |-> "Unknown", explained |-> FALSE] /\ asked = {}
    /\ testing = 0 /\ awaited = {}
    /\ blind = FALSE
    /\ server = "up" /\ kernelUp = TRUE /\ inbox = {} /\ wire = <<>> /\ offlines = 0

-----------------------------------------------------------------------------
(* The barrier and the requests *)

\* State of the present socket.
SocketState == IF socket = NoSocket THEN "none" ELSE sock[socket]

\* What becomes of a request sent over a socket in a state: without a socket,
\* or before it is open, sendRpc throws.
Transmit(st) ==
    IF st \in {"none", "connecting"} THEN "failed" ELSE IF st = "open" THEN "sent" ELSE "lost"

\* _connected.open(): the requests that wait go out over the present socket.
Opened(rq, st) == [r \in Requests |-> IF rq[r] = "waiting" THEN Transmit(st) ELSE rq[r]]

\* _connected = new Barrier(): requests that wait for the old one wait forever.
Replaced(rq) == [r \in Requests |-> IF rq[r] = "waiting" THEN "stranded" ELSE rq[r]]

\* sendRequest: registered and sent at once, or when the connection is there.
Send(r) ==
    /\ req[r] = "unused"
    /\ req' = [req EXCEPT ![r] = IF connected THEN Transmit(SocketState) ELSE "waiting"]
    /\ inbox' = IF req'[r] = "sent" /\ kernelUp THEN inbox \cup {r} ELSE inbox
    /\ UNCHANGED <<state, socket, sock, connected, callVars, handlerVars,
                   blind, server, kernelUp, wire, offlines>>

SendRequest(r) == Send(r) /\ UNCHANGED exitVars

-----------------------------------------------------------------------------
(* State changes *)

\* What onStateChange does to the barrier: offline replaces it, and leaving
\* offline for anything but an exit opens it.
BarrierAfter(new, rq) ==
    LET online == state = "Offline" /\ new \notin {"Offline", "Exited"}
    IN /\ connected' = (IF new = "Offline" THEN FALSE ELSE connected \/ online)
       /\ req' = IF new = "Offline" THEN Replaced(rq)
                 ELSE IF online THEN Opened(rq, SocketState)
                 ELSE rq

\* onStateChange.
OnStateChange(new) ==
    /\ state' = new
    /\ BarrierAfter(new, req)
    /\ restarting' = (restarting /\ new # "Starting")

\* The kernel receives what was sent in this step.
Received ==
    inbox' = IF kernelUp THEN inbox \cup {r \in Requests : req'[r] = "sent" /\ req[r] # "sent"}
             ELSE inbox

\* A websocket that is closed, or fails: what is on its way arrives, if it
\* ever was open.
Ending(st) == IF st \in {"open", "closing"} THEN "closing" ELSE "failed"

\* Seeded fault: the barrier is left open when the session is cleaned up.
CleanUpLeavingBarrier(rq) ==
    /\ sock' = IF socket = NoSocket THEN sock ELSE [sock EXCEPT ![socket] = Ending(@)]
    /\ socket' = NoSocket
    /\ req' = rq
    /\ UNCHANGED connected

\* onExited, unless a restart is under way: the websocket is closed and the
\* barrier replaced.
CleanUp(rq) ==
    /\ sock' = IF socket = NoSocket THEN sock ELSE [sock EXCEPT ![socket] = Ending(@)]
    /\ socket' = NoSocket
    /\ req' = Replaced(rq)
    /\ connected' = FALSE

\* Seeded fault: the exit reason is not restored to its default.
ReportKeepingReason(reason, code) ==
    /\ report' = [reason |-> IF reason = "Unknown" /\ code # 0 THEN "Error" ELSE reason,
                  explained |-> reason \in asked]
    /\ asked' = {}
    /\ exitReason' = reason
    /\ UNCHANGED <<quitting, quits>>

\* The exit event, and the end of onExited: an exit that nobody announced is
\* an error unless its code is zero, and the reason is consumed.
ReportExit(reason, code) ==
    /\ report' = [reason |-> IF reason = "Unknown" /\ code # 0 THEN "Error" ELSE reason,
                  explained |-> reason \in asked]
    /\ asked' = {}
    /\ exitReason' = "Unknown"
    /\ UNCHANGED <<quitting, quits>>

\* onExited: pending requests are forgotten.
OnExited(reason, code) ==
    LET rq == [r \in Requests |-> IF req[r] = "sent" THEN "forgotten" ELSE req[r]]
    IN /\ IF restarting
          THEN req' = rq /\ UNCHANGED <<sock, socket, connected>>
          ELSE CleanUp(rq)
       /\ ReportExit(reason, code)

\* markExited.
MarkExited ==
    /\ state' = "Exited"
    /\ OnExited("Error", 1)
    /\ UNCHANGED restarting

-----------------------------------------------------------------------------
(* Messages of the supervisor *)

\* Status messages that handleKernelMessage ignores.
Ignored(status) ==
    \/ status \notin States
    \/ status = "Starting" /\ state # "Exited"
    \/ status = "Ready" /\ state = "Idle"

\* A reply resolves the request it belongs to, if that is still registered.
Resolve(r) == req' = [req EXCEPT ![r] = IF @ = "sent" THEN "answered" ELSE @]

\* A message arrives over the websocket, which may be closing.
HandleMessage ==
    LET m == Head(wire)
    IN /\ wire # <<>>
       /\ \E s \in Sockets : sock[s] \in {"open", "closing"}
       /\ wire' = Tail(wire)
       /\ \/ /\ m.kind = "status"
             /\ IF Ignored(m.status) THEN UNCHANGED <<state, connected, req, restarting>>
                ELSE OnStateChange(m.status)
             /\ blind' = (blind \/ (m.status = "Exited" /\ state = "Offline"))
             /\ Received
             /\ UNCHANGED <<socket, sock, exitVars>>
          \/ /\ m.kind = "exited"
             /\ \E code \in {0, 1} : OnExited(exitReason, code)
             /\ UNCHANGED <<state, restarting, blind, inbox>>
          \/ /\ m.kind = "reply"
             /\ Resolve(m.to)
             /\ UNCHANGED <<state, socket, sock, connected, restarting, exitVars,
                            blind, inbox>>
       /\ UNCHANGED <<restartCall, restarts, handlerVars, server, kernelUp, offlines>>

-----------------------------------------------------------------------------
(* The websocket *)

\* onopen.
SocketOpens(s) ==
    /\ sock[s] = "connecting"
    /\ server = "up"
    /\ sock' = [sock EXCEPT ![s] = "open"]
    /\ connected' = TRUE
    /\ req' = Opened(req, IF socket = s THEN "open" ELSE SocketState)
    /\ Received
    /\ awaited' = awaited \ {s}
    /\ UNCHANGED <<exitVars, state, socket, callVars, testing, blind, server,
                   kernelUp, wire, offlines>>

\* onerror of a socket that never opened: connect() rejects, and the handler
\* that awaits it marks the session as offline.
SocketFails(s) ==
    /\ sock[s] = "connecting"
    /\ sock' = [sock EXCEPT ![s] = Ending(@)]
    /\ IF connected
       THEN /\ connected' = FALSE
            /\ req' = Replaced(req)
            /\ UNCHANGED <<state, restarting, awaited, blind>>
       ELSE /\ IF s \in awaited THEN OnStateChange("Offline") /\ UNCHANGED blind
               ELSE UNCHANGED <<state, connected, req, restarting, blind>>
            /\ awaited' = awaited \ {s}
    /\ UNCHANGED <<exitVars, socket, restartCall, restarts, testing, remoteVars>>

\* The two seconds of a handler are over before the socket opens or fails.
ConnectTimesOut(s) ==
    /\ s \in awaited
    /\ awaited' = awaited \ {s}
    /\ OnStateChange("Offline")
    /\ UNCHANGED <<exitVars, socket, sock, restartCall, restarts, testing, blind, remoteVars>>

\* Seeded fault: an error of the websocket is a disconnection of its own.
SocketDropsNotifying(s) ==
    /\ sock[s] = "open"
    /\ sock' = [sock EXCEPT ![s] = "closing"]
    /\ connected' = FALSE
    /\ req' = Replaced(req)
    /\ testing' = testing + 1
    /\ wire' = <<>>
    /\ UNCHANGED <<exitVars, state, socket, callVars, awaited, blind, server,
                   kernelUp, inbox, offlines>>

\* An open socket fails or is closed; onerror, if it comes, replaces the
\* barrier, and messages on their way may be lost.
SocketDrops(s) ==
    /\ sock[s] = "open"
    /\ sock' = [sock EXCEPT ![s] = "closing"]
    /\ \/ UNCHANGED <<connected, req>>
       \/ /\ connected
          /\ connected' = FALSE
          /\ req' = Replaced(req)
    /\ wire' \in {wire, <<>>}
    /\ UNCHANGED <<exitVars, state, socket, callVars, handlerVars, blind, server,
                   kernelUp, inbox, offlines>>

\* Seeded fault: the handler does not act on a session that is offline.
HandlerUnlessOffline ==
    testing' = IF state \notin {"Exited", "Offline"} THEN testing + 1 ELSE testing

\* disconnected.fire: the handler acts on a session that has not exited.
HandlerNotified == testing' = IF state # "Exited" THEN testing + 1 ELSE testing

\* onclose, of whichever socket.
OnClose(s) ==
    /\ sock[s] \in {"closing", "failed"}
    /\ sock' = [sock EXCEPT ![s] = "closed"]
    /\ HandlerNotified
    /\ connected' = FALSE
    /\ req' = Replaced(req)
    /\ socket' = NoSocket
    /\ UNCHANGED <<exitVars, state, callVars, awaited, blind, remoteVars>>

\* connect(): the present socket is closed and a new one created.
Connect ==
    \E s \in Sockets :
        /\ sock[s] = "none" /\ \A t \in Sockets : t < s => sock[t] # "none"
        /\ sock' = [t \in Sockets |-> IF t = s THEN "connecting"
                                      ELSE IF t = socket THEN Ending(sock[t]) ELSE sock[t]]
        /\ socket' = s
        /\ awaited' = awaited \cup {s}

\* testServerExited, in the handler of this session: a supervisor that is gone
\* is started again, and its sessions are marked as exited; otherwise the
\* handler reconnects.
TestServerExited ==
    /\ testing > 0
    /\ testing' = testing - 1
    /\ \/ /\ server = "dead"
          /\ server' = "replaced"
          /\ MarkExited
          /\ UNCHANGED awaited
       \/ /\ server # "dead"
          /\ Connect
          /\ UNCHANGED <<state, connected, req, restarting, exitVars, server>>
    /\ UNCHANGED <<restartCall, restarts, blind, kernelUp, inbox, wire, offlines>>

\* The handler of another session finds the supervisor gone.
OtherSessionTests ==
    /\ server = "dead"
    /\ server' = "replaced"
    /\ MarkExited
    /\ UNCHANGED <<restartCall, restarts, handlerVars, blind, kernelUp, inbox, wire, offlines>>

-----------------------------------------------------------------------------
(* Restart *)

\* restart(): the adapter in the main thread asks for it in the states Ready and
\* Idle, as it knows them; the session may be offline by now.
Restart ==
    /\ state # "Exited" /\ restartCall = "none" /\ server = "up"
    /\ restarts < MaxRestarts
    /\ restarts' = restarts + 1
    /\ restarting' = TRUE
    /\ restartCall' = "asked"
    /\ exitReason' = "Restart" /\ asked' = asked \cup {"Restart"}
    /\ UNCHANGED <<quitting, report, quits, state, connVars, handlerVars, blind, remoteVars>>

ExitMessages == <<[kind |-> "status", status |-> "Exited"], [kind |-> "exited"]>>
StartMessages ==
    <<[kind |-> "status", status |-> "Starting"], [kind |-> "status", status |-> "Ready"]>>

\* The supervisor restarts the kernel, and tells the session.
KernelRestarts ==
    /\ restartCall = "asked" /\ server = "up"
    /\ restartCall' = "served"
    /\ kernelUp' = TRUE
    /\ inbox' = {}
    /\ wire' = wire \o (IF kernelUp THEN ExitMessages ELSE <<>>) \o StartMessages
    /\ UNCHANGED <<exitVars, state, connVars, restarting, restarts, handlerVars, blind,
                   server, offlines>>

\* The call returns, before or after those messages: restart() marks the
\* session as ready.
RestartSucceeds ==
    /\ restartCall = "served"
    /\ restartCall' = "none"
    /\ OnStateChange("Ready")
    /\ blind' = (blind \/ state = "Offline")
    /\ Received
    /\ UNCHANGED <<exitVars, socket, sock, restarts, handlerVars, server, kernelUp, wire, offlines>>

\* The call fails: _restarting stays set, whether or not the kernel restarted.
RestartFails ==
    /\ restartCall # "none"
    /\ restartCall' = "none"
    /\ UNCHANGED <<exitVars, state, connVars, restarting, restarts, handlerVars, blind, remoteVars>>

\* shutdown(): a request to the kernel.
Shutdown(r) ==
    /\ quits < MaxQuits
    /\ quits' = quits + 1
    /\ exitReason' = "Shutdown" /\ asked' = asked \cup {"Shutdown"}
    /\ Send(r)
    /\ UNCHANGED <<quitting, report>>

ForceQuit ==
    /\ quits < MaxQuits /\ ~quitting
    /\ quits' = quits + 1
    /\ quitting' = TRUE
    /\ exitReason' = "ForcedQuit" /\ asked' = asked \cup {"ForcedQuit"}
    /\ UNCHANGED <<report, state, connVars, callVars, handlerVars, blind, remoteVars>>

\* killSession fails.
QuitFails ==
    /\ quitting
    /\ quitting' = FALSE
    /\ exitReason' = "Unknown" /\ asked' = asked \ {"ForcedQuit"}
    /\ UNCHANGED <<report, quits, state, connVars, callVars, handlerVars, blind, remoteVars>>

-----------------------------------------------------------------------------
(* The supervisor and the kernel *)

\* The kernel ends by itself, or is killed.
KernelExits ==
    /\ kernelUp
    /\ kernelUp' = FALSE
    /\ inbox' = {}
    /\ wire' = wire \o ExitMessages
    /\ quitting' \in {quitting, FALSE}
    /\ UNCHANGED <<exitReason, report, asked, quits, state, connVars, callVars, handlerVars, blind, server, offlines>>

KernelReplies(r) ==
    /\ kernelUp
    /\ r \in inbox
    /\ inbox' = inbox \ {r}
    /\ wire' = wire \o <<[kind |-> "reply", to |-> r], [kind |-> "status", status |-> "Idle"]>>
    /\ UNCHANGED <<exitVars, state, connVars, callVars, handlerVars, blind, server,
                   kernelUp, offlines>>

\* The supervisor loses touch with the kernel, or reports a state of its own;
\* it finds the kernel again.
KernelOffline ==
    /\ kernelUp
    /\ offlines < MaxStatus
    /\ offlines' = offlines + 1
    /\ \E status \in {"Offline", "Unlisted"} :
           wire' = Append(wire, [kind |-> "status", status |-> status])
    /\ UNCHANGED <<exitVars, state, connVars, callVars, handlerVars, blind, server,
                   kernelUp, inbox>>

KernelOnline ==
    /\ kernelUp
    /\ state = "Offline" /\ wire = <<>>
    /\ wire' = <<[kind |-> "status", status |-> "Idle"]>>
    /\ UNCHANGED <<exitVars, state, connVars, callVars, handlerVars, blind, server,
                   kernelUp, inbox, offlines>>

\* The supervisor dies, and every connection and kernel with it.
ServerDies ==
    /\ MayDie
    /\ server = "up"
    /\ server' = "dead"
    /\ kernelUp' = FALSE
    /\ inbox' = {} /\ wire' = <<>>
    /\ sock' = [s \in Sockets |-> IF sock[s] = "open" THEN "closing" ELSE sock[s]]
    /\ UNCHANGED <<exitVars, state, socket, connected, req, callVars, handlerVars,
                   blind, offlines>>

-----------------------------------------------------------------------------
Next ==
    \/ \E r \in Requests : SendRequest(r) \/ KernelReplies(r)
    \/ HandleMessage
    \/ \E s \in Sockets :
          SocketOpens(s) \/ SocketFails(s) \/ ConnectTimesOut(s) \/ SocketDrops(s) \/ OnClose(s)
    \/ TestServerExited \/ OtherSessionTests
    \/ \E r \in Requests : Shutdown(r)
    \/ ForceQuit \/ QuitFails
    \/ Restart \/ KernelRestarts \/ RestartSucceeds \/ RestartFails
    \/ KernelExits \/ KernelOffline \/ KernelOnline \/ ServerDies

Spec == Init /\ [][Next]_vars

\* Messages and events of the websocket arrive, a socket that connects opens
\* or fails, and handlers go on.  Nothing makes a connection fail, a kernel
\* stop or a user act.
FairSpec ==
    /\ Spec
    /\ WF_vars(HandleMessage)
    /\ \A s \in Sockets : WF_vars(SocketOpens(s) \/ SocketFails(s)) /\ WF_vars(OnClose(s))
    /\ WF_vars(TestServerExited)

-----------------------------------------------------------------------------
(* Properties *)

\* While the barrier is open there is a websocket to send over, so that
\* sendRequest's this._socket! is never undefined: in a session that was
\* restarted at most once, and not while it was offline.  With two restarts in
\* flight the exit that belongs to the second is handled as one that nobody
\* asked for, and the status messages after it open the barrier.
ConnectedHasSocket ==
    connected /\ ~blind /\ restarts <= 1 => socket # NoSocket /\ sock[socket] \in {"open", "closing"}

\* The barrier is open only when the websocket is connected and messages can be
\* sent and received, as the comment on _connected has it.
OpenMeansConnected == connected => socket # NoSocket /\ sock[socket] \in {"open", "closing"}

\* At most one websocket is open or opens: no message is handled twice.
OneSocket == Cardinality({s \in Sockets : sock[s] \in {"connecting", "open"}}) <= 1

\* A connection that is lost is restored, however many attempts fail and
\* whenever they time out, as long as supervisor and kernel stay up and the
\* session is not restarted meanwhile.
ConnectionComesBack ==
    ~connected ~> \/ connected
                  \/ ~kernelUp \/ restarts > 0 \/ offlines > 0
                  \/ \A s \in Sockets : sock[s] # "none"    \* the bound on attempts

\* An exit is reported as a restart, a shutdown or a forced quit only if such a
\* call was made since the last exit.  A restart that failed counts as made.
ReasonFits == report.reason \in {"Unknown", "Error"} \/ report.explained
=============================================================================
