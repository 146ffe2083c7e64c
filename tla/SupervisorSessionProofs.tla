---------------------- MODULE SupervisorSessionProofs ----------------------
(* Proofs about SupervisorSession, for any number of websockets, requests,   *)
(* restarts and quits.                                                       *)
(*                                                                           *)
(* The argument for OneSocket.  Only the disconnect handler connects, only   *)
(* the onclose of a websocket starts the handler, and a websocket is in use  *)
(* until its onclose: there is one websocket in use, or one handler at work, *)
(* never both (OneAttempt).  For ReasonFits: the reason kept for the next    *)
(* exit is the default, or one that was asked for since the last exit.       *)
EXTENDS SupervisorSession, FiniteSetTheorems, SequenceTheorems, TLAPS

\* The websocket connects, is open, or its onclose is still to come.
InUse(s) == sock[s] \in {"connecting", "open", "closing", "failed"}

\* One websocket in use or one handler at work, and _socket is in use.
OneAttempt ==
    /\ \A s, t \in Sockets : InUse(s) /\ InUse(t) => s = t
    /\ testing \in {0, 1}
    /\ testing = 1 => \A s \in Sockets : ~InUse(s)
    /\ socket # NoSocket => InUse(socket)

\* What the next exit would be reported as was asked for, and what the last
\* one was reported as had been.
Explained == ReasonFits /\ exitReason \in {"Unknown"} \cup asked

-----------------------------------------------------------------------------
(* Types, in groups of variables that change together *)

ReqStates == {"unused", "waiting", "stranded", "sent", "lost", "answered", "forgotten", "failed"}

ConnType ==
    /\ socket \in Sockets \cup {NoSocket}
    /\ sock \in [Sockets -> {"none", "connecting", "open", "closing", "failed", "closed"}]
    /\ req \in [Requests -> ReqStates]
StateType == state \in States /\ connected \in BOOLEAN /\ restarting \in BOOLEAN /\ blind \in BOOLEAN
CallType == restartCall \in {"none", "asked", "served"} /\ restarts \in 0..MaxRestarts
ExitType ==
    /\ exitReason \in Reasons /\ quitting \in BOOLEAN /\ quits \in 0..MaxQuits
    /\ report \in [reason : Reasons, explained : BOOLEAN] /\ asked \subseteq Reasons
HandlerType == testing \in Nat /\ awaited \subseteq Sockets
RemoteType ==
    /\ server \in {"up", "dead", "replaced"} /\ kernelUp \in BOOLEAN /\ inbox \subseteq Requests
    /\ wire \in Seq(Messages) /\ offlines \in 0..MaxStatus

\* The groups together are the type invariant.
LEMMA TypeParts ==
    /\ TypeOK <=> /\ ConnType /\ StateType /\ CallType /\ ExitType /\ HandlerType /\ RemoteType
    /\ TypeOK' <=> /\ ConnType' /\ StateType' /\ CallType' /\ ExitType' /\ HandlerType'
                   /\ RemoteType'
  BY Zenon DEF TypeOK, ConnType, StateType, CallType, ExitType, HandlerType, RemoteType, ReqStates

\* A group keeps its type when its variables do not change.
LEMMA Frames ==
    /\ ConnType /\ UNCHANGED <<socket, sock, req>> => ConnType'
    /\ StateType /\ UNCHANGED <<state, connected, restarting, blind>> => StateType'
    /\ CallType /\ UNCHANGED <<restartCall, restarts>> => CallType'
    /\ ExitType /\ UNCHANGED exitVars => ExitType'
    /\ HandlerType /\ UNCHANGED handlerVars => HandlerType'
    /\ RemoteType /\ UNCHANGED <<server, kernelUp, inbox, wire, offlines>> => RemoteType'
  BY Zenon DEF ConnType, StateType, CallType, ExitType, HandlerType, RemoteType,
     exitVars, handlerVars

\* Opening and replacing the barrier.
LEMMA RequestsType ==
    ASSUME NEW rq \in [Requests -> ReqStates]
    PROVE  /\ \A st : Opened(rq, st) \in [Requests -> ReqStates]
           /\ Replaced(rq) \in [Requests -> ReqStates]
  BY DEF Opened, Replaced, Transmit, ReqStates

\* onStateChange keeps the types of the state and of the barrier.
LEMMA OnStateChangeType ==
    ASSUME ConnType, StateType, NEW new \in States, OnStateChange(new)
    PROVE  /\ req' \in [Requests -> ReqStates] /\ state' \in States
           /\ connected' \in BOOLEAN /\ restarting' \in BOOLEAN
  <1>1. req \in [Requests -> ReqStates] BY DEF ConnType
  <1>2. req' \in [Requests -> ReqStates]
    BY <1>1, RequestsType DEF OnStateChange, BarrierAfter
  <1>3. state' \in States BY DEF OnStateChange
  <1>4. connected' \in BOOLEAN /\ restarting' \in BOOLEAN
    BY Zenon DEF OnStateChange, BarrierAfter, StateType
  <1> QED BY <1>2, <1>3, <1>4

\* onExited keeps the types of the connection and of the reported reason.
LEMMA OnExitedType ==
    ASSUME ConnType, StateType, ExitType, NEW reason \in Reasons, NEW code, OnExited(reason, code)
    PROVE  ConnType' /\ connected' \in BOOLEAN /\ ExitType'
  <1> DEFINE rq == [r \in Requests |-> IF req[r] = "sent" THEN "forgotten" ELSE req[r]]
  <1>1. rq \in [Requests -> ReqStates] BY DEF ConnType, ReqStates
  <1> HIDE DEF rq
  <1>2. ConnType' /\ connected' \in BOOLEAN
    <2>1. CASE restarting
      <3>1. req' = rq /\ UNCHANGED <<sock, socket, connected>> BY <2>1 DEF OnExited, rq
      <3> QED BY <1>1, <3>1 DEF ConnType, StateType
    <2>2. CASE ~restarting
      <3>1. CleanUp(rq) BY <2>2 DEF OnExited, rq
      <3>2. req' \in [Requests -> ReqStates] BY <1>1, <3>1, RequestsType DEF CleanUp
      <3>3. connected' = FALSE BY <3>1, Zenon DEF CleanUp
      <3>4. socket' = NoSocket BY <3>1 DEF CleanUp
      <3>5. sock' \in [Sockets -> {"none", "connecting", "open", "closing", "failed", "closed"}]
        BY <3>1 DEF CleanUp, ConnType, Ending
      <3> QED BY <3>2, <3>3, <3>4, <3>5 DEF ConnType
    <2> QED BY <2>1, <2>2
  <1>3. ExitType'
    <2>1. /\ report' = [reason |-> IF reason = "Unknown" /\ code # 0 THEN "Error" ELSE reason,
                        explained |-> reason \in asked]
          /\ asked' = {} /\ exitReason' = "Unknown" /\ UNCHANGED <<quitting, quits>>
      BY DEF OnExited, ReportExit
    <2>2. (IF reason = "Unknown" /\ code # 0 THEN "Error" ELSE reason) \in Reasons
      BY DEF Reasons
    <2>3. (reason \in asked) \in BOOLEAN OBVIOUS
    <2>4. \A x \in Reasons, b \in BOOLEAN :
             [reason |-> x, explained |-> b] \in [reason : Reasons, explained : BOOLEAN]
      BY Zenon
    <2>5. report' \in [reason : Reasons, explained : BOOLEAN] BY <2>1, <2>2, <2>3, <2>4, Zenon
    <2> QED BY <2>1, <2>5 DEF ExitType, Reasons
  <1> QED BY <1>2, <1>3

\* markExited does.
LEMMA MarkExitedType ==
    ASSUME ConnType, StateType, ExitType, MarkExited
    PROVE  ConnType' /\ ExitType' /\ connected' \in BOOLEAN /\ state' \in States
           /\ restarting' = restarting
  <1>1. OnExited("Error", 1) /\ "Error" \in Reasons BY DEF MarkExited, Reasons
  <1>2. ConnType' /\ ExitType' /\ connected' \in BOOLEAN BY <1>1, OnExitedType
  <1> QED BY <1>2 DEF MarkExited, States

\* What is sent is received.
LEMMA ReceivedType ==
    ASSUME RemoteType, Received
    PROVE  inbox' \subseteq Requests
  BY DEF RemoteType, Received

\* A running session has the types.
LEMMA InitType == Init => TypeOK
  <1> SUFFICES ASSUME Init PROVE TypeOK OBVIOUS
  <1>1. ConnType
    BY SupervisorAssumption DEF Init, ConnType, Sockets, ReqStates
  <1>2. StateType
    <2>1. state = "Ready" BY DEF Init
    <2>2. connected \in BOOLEAN /\ restarting \in BOOLEAN /\ blind \in BOOLEAN BY Zenon DEF Init
    <2> QED BY <2>1, <2>2 DEF StateType, States
  <1>3. CallType BY SupervisorAssumption DEF Init, CallType
  <1>4. ExitType
    <2>1. exitReason = "Unknown" /\ quits = 0 /\ asked = {} BY DEF Init
    <2>2. quitting \in BOOLEAN BY Zenon DEF Init
    <2>3. report = [reason |-> "Unknown", explained |-> FALSE] BY Zenon DEF Init
    <2>4. "Unknown" \in Reasons /\ FALSE \in BOOLEAN BY DEF Reasons
    <2>5. report \in [reason : Reasons, explained : BOOLEAN] BY <2>3, <2>4, Zenon
    <2> QED BY <2>1, <2>2, <2>5, SupervisorAssumption DEF ExitType, Reasons
  <1>5. HandlerType BY DEF Init, HandlerType
  <1>6. RemoteType BY SupervisorAssumption DEF Init, RemoteType
  <1> QED BY <1>1, <1>2, <1>3, <1>4, <1>5, <1>6, TypeParts

\* What the supervisor sends are messages.
LEMMA MessagesType ==
    /\ \A st \in Statuses : [kind |-> "status", status |-> st] \in Messages
    /\ [kind |-> "exited"] \in Messages
    /\ \A r \in Requests : [kind |-> "reply", to |-> r] \in Messages
    /\ ExitMessages \in Seq(Messages) /\ StartMessages \in Seq(Messages)
  <1>1. /\ \A st \in Statuses : [kind |-> "status", status |-> st] \in Messages
        /\ [kind |-> "exited"] \in Messages
        /\ \A r \in Requests : [kind |-> "reply", to |-> r] \in Messages
    BY DEF Messages
  <1>2. {"Exited", "Starting", "Ready"} \subseteq Statuses BY DEF Statuses, States
  <1>3. ExitMessages \in Seq(Messages) /\ StartMessages \in Seq(Messages)
    BY <1>1, <1>2 DEF ExitMessages, StartMessages
  <1> QED BY <1>1, <1>3

\* A request to the kernel.
LEMMA SendType ==
    ASSUME TypeOK, NEW r \in Requests, Send(r)
    PROVE  ConnType' /\ StateType' /\ CallType' /\ HandlerType' /\ RemoteType'
  <1>1. ConnType /\ StateType /\ CallType /\ HandlerType /\ RemoteType BY TypeParts
  <1>2. ConnType' BY <1>1 DEF Send, ConnType, Transmit, ReqStates
  <1>3. RemoteType'
    <2>1. inbox' \subseteq Requests /\ UNCHANGED <<server, kernelUp, wire, offlines>>
      BY <1>1 DEF Send, RemoteType
    <2> QED BY <1>1, <2>1 DEF RemoteType
  <1>4. StateType' /\ CallType' /\ HandlerType'
    BY <1>1, Frames DEF Send, callVars, handlerVars
  <1> QED BY <1>2, <1>3, <1>4

\* A message of the supervisor, of any of the three kinds.
LEMMA HandleMessageType ==
    ASSUME TypeOK, HandleMessage
    PROVE  TypeOK'
  <1>1. ConnType /\ StateType /\ CallType /\ ExitType /\ HandlerType /\ RemoteType BY TypeParts
  <1>2. wire' \in Seq(Messages) /\ Head(wire) \in Messages
    BY <1>1 DEF HandleMessage, RemoteType
  <1>3. CallType' /\ HandlerType' /\ UNCHANGED <<server, kernelUp, offlines>>
    BY <1>1, Frames DEF HandleMessage
  <1>4. ASSUME inbox' \subseteq Requests PROVE RemoteType'
    BY <1>1, <1>2, <1>3, <1>4 DEF RemoteType
  <1> DEFINE m == Head(wire)
  <1> HIDE DEF m
  <1>5. CASE /\ IF Ignored(m.status) THEN UNCHANGED <<state, connected, req, restarting>>
                ELSE OnStateChange(m.status)
             /\ blind' = (blind \/ (m.status = "Exited" /\ state = "Offline"))
             /\ Received
             /\ UNCHANGED <<socket, sock, exitVars>>
    <2>1. RemoteType' BY <1>1, <1>4, <1>5, ReceivedType
    <2>2. ExitType' BY <1>1, <1>5, Frames
    <2>3. blind' \in BOOLEAN BY <1>1, <1>5, Zenon DEF StateType
    <2>4. /\ req' \in [Requests -> ReqStates] /\ state' \in States
          /\ connected' \in BOOLEAN /\ restarting' \in BOOLEAN
      <3>1. CASE Ignored(m.status)
        BY <1>1, <1>5, <3>1 DEF ConnType, StateType
      <3>2. CASE ~Ignored(m.status)
        <4>1. OnStateChange(m.status) /\ m.status \in States BY <1>5, <3>2 DEF Ignored
        <4> QED BY <1>1, <4>1, OnStateChangeType
      <3> QED BY <3>1, <3>2
    <2>5. ConnType' BY <1>1, <1>5, <2>4 DEF ConnType
    <2>6. StateType' BY <2>3, <2>4 DEF StateType
    <2> QED BY <1>3, <2>1, <2>2, <2>5, <2>6, TypeParts
  <1>6. CASE /\ \E code \in {0, 1} : OnExited(exitReason, code)
             /\ UNCHANGED <<state, restarting, blind, inbox>>
    <2>1. PICK code \in {0, 1} : OnExited(exitReason, code) BY <1>6
    <2>2. exitReason \in Reasons BY <1>1 DEF ExitType
    <2>3. ConnType' /\ connected' \in BOOLEAN /\ ExitType' BY <1>1, <2>1, <2>2, OnExitedType
    <2>4. StateType' BY <1>1, <1>6, <2>3 DEF StateType
    <2>5. RemoteType' BY <1>1, <1>4, <1>6 DEF RemoteType
    <2> QED BY <1>3, <2>3, <2>4, <2>5, TypeParts
  <1>7. CASE /\ m.kind = "reply" /\ Resolve(m.to)
             /\ UNCHANGED <<state, socket, sock, connected, restarting, exitVars, blind, inbox>>
    <2>1. ConnType' BY <1>1, <1>7 DEF ConnType, Resolve, ReqStates
    <2>2. StateType' /\ ExitType' BY <1>1, <1>7, Frames
    <2>3. RemoteType' BY <1>1, <1>4, <1>7 DEF RemoteType
    <2> QED BY <1>3, <2>1, <2>2, <2>3, TypeParts
  <1> QED BY <1>5, <1>6, <1>7 DEF HandleMessage, m

\* The websocket.
LEMMA SocketType ==
    ASSUME TypeOK, NEW s \in Sockets,
           SocketOpens(s) \/ SocketFails(s) \/ ConnectTimesOut(s) \/ SocketDrops(s) \/ OnClose(s)
    PROVE  TypeOK'
  <1>1. ConnType /\ StateType /\ CallType /\ ExitType /\ HandlerType /\ RemoteType BY TypeParts
  <1>2. CallType' /\ ExitType'
    BY <1>1, Frames DEF SocketOpens, SocketFails, ConnectTimesOut, SocketDrops, OnClose, callVars
  <1>3. "Offline" \in States BY DEF States
  <1>4. req \in [Requests -> ReqStates] BY <1>1 DEF ConnType
  <1>5. Replaced(req) \in [Requests -> ReqStates] BY <1>4, RequestsType
  <1>6. CASE SocketOpens(s)
    <2>1. RemoteType'
      <3>1. inbox' \subseteq Requests BY <1>1, <1>6, ReceivedType DEF SocketOpens
      <3> QED BY <1>1, <1>6, <3>1 DEF SocketOpens, RemoteType
    <2>2. ConnType' BY <1>1, <1>4, <1>6, RequestsType DEF SocketOpens, ConnType
    <2>3. connected' \in BOOLEAN BY <1>6, Zenon DEF SocketOpens
    <2>4. StateType' BY <1>1, <1>6, <2>3 DEF SocketOpens, StateType, callVars
    <2>5. HandlerType' BY <1>1, <1>6 DEF SocketOpens, HandlerType
    <2> QED BY <1>2, <2>1, <2>2, <2>4, <2>5, TypeParts
  <1>7. CASE SocketFails(s)
    <2>1. RemoteType' BY <1>1, <1>7, Frames DEF SocketFails, remoteVars
    <2>2. HandlerType' BY <1>1, <1>7 DEF SocketFails, HandlerType
    <2>3. /\ req' \in [Requests -> ReqStates] /\ state' \in States
          /\ connected' \in BOOLEAN /\ restarting' \in BOOLEAN
      <3>1. CASE connected
        <4>1. connected' = FALSE BY <1>7, <3>1, Zenon DEF SocketFails
        <4>2. req' = Replaced(req) /\ UNCHANGED <<state, restarting>> BY <1>7, <3>1 DEF SocketFails
        <4> QED BY <1>1, <1>5, <4>1, <4>2 DEF StateType
      <3>2. CASE ~connected /\ s \in awaited
        <4>1. OnStateChange("Offline") BY <1>7, <3>2 DEF SocketFails
        <4> QED BY <1>1, <1>3, <4>1, OnStateChangeType
      <3>3. CASE ~connected /\ s \notin awaited
        <4>1. UNCHANGED <<state, connected, req, restarting>> BY <1>7, <3>3 DEF SocketFails
        <4> QED BY <1>1, <1>4, <4>1 DEF StateType
      <3> QED BY <3>1, <3>2, <3>3
    <2>4. blind' = blind BY <1>7 DEF SocketFails
    <2>5. StateType' BY <1>1, <2>3, <2>4 DEF StateType
    <2>6. ConnType' BY <1>1, <1>7, <2>3 DEF SocketFails, ConnType, Ending
    <2> QED BY <1>2, <2>1, <2>2, <2>5, <2>6, TypeParts
  <1>8. CASE ConnectTimesOut(s)
    <2>1. RemoteType' BY <1>1, <1>8, Frames DEF ConnectTimesOut, remoteVars
    <2>2. HandlerType' BY <1>1, <1>8 DEF ConnectTimesOut, HandlerType
    <2>3. /\ req' \in [Requests -> ReqStates] /\ state' \in States
          /\ connected' \in BOOLEAN /\ restarting' \in BOOLEAN
      BY <1>1, <1>3, <1>8, OnStateChangeType DEF ConnectTimesOut
    <2>4. StateType' BY <1>1, <1>8, <2>3 DEF ConnectTimesOut, StateType
    <2>5. ConnType' BY <1>1, <1>8, <2>3 DEF ConnectTimesOut, ConnType
    <2> QED BY <1>2, <2>1, <2>2, <2>4, <2>5, TypeParts
  <1>9. CASE SocketDrops(s)
    <2>1. RemoteType'
      <3>1. <<>> \in Seq(Messages) OBVIOUS
      <3>2. wire' \in Seq(Messages) BY <1>1, <1>9, <3>1 DEF SocketDrops, RemoteType
      <3>3. UNCHANGED <<server, kernelUp, inbox, offlines>> BY <1>9 DEF SocketDrops
      <3> QED BY <1>1, <3>2, <3>3 DEF RemoteType
    <2>2. HandlerType' BY <1>1, <1>9, Frames DEF SocketDrops
    <2>3. connected' \in BOOLEAN BY <1>1, <1>9, Zenon DEF SocketDrops, StateType
    <2>4. StateType' BY <1>1, <1>9, <2>3 DEF SocketDrops, StateType, callVars
    <2>5. ConnType' BY <1>1, <1>5, <1>9 DEF SocketDrops, ConnType
    <2> QED BY <1>2, <2>1, <2>2, <2>4, <2>5, TypeParts
  <1>10. CASE OnClose(s)
    <2>1. RemoteType' BY <1>1, <1>10, Frames DEF OnClose, remoteVars
    <2>2. HandlerType' BY <1>1, <1>10 DEF OnClose, HandlerType, HandlerNotified
    <2>3. connected' \in BOOLEAN BY <1>10, Zenon DEF OnClose
    <2>4. StateType' BY <1>1, <1>10, <2>3 DEF OnClose, StateType, callVars
    <2>5. ConnType' BY <1>1, <1>5, <1>10 DEF OnClose, ConnType
    <2> QED BY <1>2, <2>1, <2>2, <2>4, <2>5, TypeParts
  <1> QED BY <1>6, <1>7, <1>8, <1>9, <1>10

\* The disconnect handlers.
LEMMA HandlersType ==
    ASSUME TypeOK, TestServerExited \/ OtherSessionTests
    PROVE  TypeOK'
  <1>1. ConnType /\ StateType /\ CallType /\ ExitType /\ HandlerType /\ RemoteType BY TypeParts
  <1>2. CallType' /\ blind' = blind BY <1>1, Frames DEF TestServerExited, OtherSessionTests
  <1>3. CASE MarkExited /\ server' = "replaced" /\ awaited' = awaited /\ testing' \in Nat
             /\ UNCHANGED <<kernelUp, inbox, wire, offlines>>
    <2>1. ConnType' /\ ExitType' /\ connected' \in BOOLEAN /\ state' \in States
          /\ restarting' = restarting
      BY <1>1, <1>3, MarkExitedType
    <2>2. StateType' BY <1>1, <1>2, <2>1 DEF StateType
    <2>3. HandlerType' /\ RemoteType' BY <1>1, <1>3 DEF HandlerType, RemoteType
    <2> QED BY <1>2, <2>1, <2>2, <2>3, TypeParts
  <1>4. CASE /\ Connect /\ testing' \in Nat
             /\ UNCHANGED <<state, connected, req, restarting, exitVars, server>>
             /\ UNCHANGED <<kernelUp, inbox, wire, offlines>>
    <2>1. ConnType' /\ HandlerType' BY <1>1, <1>4 DEF Connect, ConnType, HandlerType, Ending
    <2>2. StateType' /\ ExitType' /\ RemoteType' BY <1>1, <1>2, <1>4, Frames
    <2> QED BY <1>2, <2>1, <2>2, TypeParts
  <1>5. TestServerExited => testing' \in Nat
    BY <1>1 DEF TestServerExited, HandlerType
  <1>6. OtherSessionTests => testing' \in Nat
    BY <1>1 DEF OtherSessionTests, HandlerType, handlerVars
  <1> QED
    BY <1>3, <1>4, <1>5, <1>6 DEF TestServerExited, OtherSessionTests, handlerVars

\* Restarts and quits.
LEMMA CallsType ==
    ASSUME TypeOK,
           \/ Restart \/ KernelRestarts \/ RestartSucceeds \/ RestartFails
           \/ ForceQuit \/ QuitFails \/ \E r \in Requests : Shutdown(r)
    PROVE  TypeOK'
  <1>1. ConnType /\ StateType /\ CallType /\ ExitType /\ HandlerType /\ RemoteType BY TypeParts
  <1>2. CASE Restart
    <2>1. ConnType' /\ HandlerType' /\ RemoteType'
      BY <1>1, <1>2, Frames DEF Restart, connVars, remoteVars
    <2>2. CallType' BY <1>1, <1>2, SupervisorAssumption DEF Restart, CallType
    <2>3. restarting' \in BOOLEAN BY <1>2, Zenon DEF Restart
    <2>4. StateType' BY <1>1, <1>2, <2>3 DEF Restart, StateType, connVars
    <2>5. ExitType' BY <1>1, <1>2 DEF Restart, ExitType, Reasons
    <2> QED BY <2>1, <2>2, <2>4, <2>5, TypeParts
  <1>3. CASE KernelRestarts
    <2>1. ConnType' /\ StateType' /\ ExitType' /\ HandlerType'
      BY <1>1, <1>3, Frames DEF KernelRestarts, connVars
    <2>2. CallType' BY <1>1, <1>3 DEF KernelRestarts, CallType
    <2>3. wire' \in Seq(Messages)
      BY <1>1, <1>3, MessagesType DEF KernelRestarts, RemoteType
    <2>4. kernelUp' \in BOOLEAN BY <1>3, Zenon DEF KernelRestarts
    <2>5. RemoteType' BY <1>1, <1>3, <2>3, <2>4 DEF KernelRestarts, RemoteType
    <2> QED BY <2>1, <2>2, <2>5, TypeParts
  <1>4. CASE RestartSucceeds
    <2>1. "Ready" \in States BY DEF States
    <2>2. /\ req' \in [Requests -> ReqStates] /\ state' \in States
          /\ connected' \in BOOLEAN /\ restarting' \in BOOLEAN
      BY <1>1, <1>4, <2>1, OnStateChangeType DEF RestartSucceeds
    <2>3. blind' \in BOOLEAN BY <1>1, <1>4, Zenon DEF RestartSucceeds, StateType
    <2>4. inbox' \subseteq Requests BY <1>1, <1>4, ReceivedType DEF RestartSucceeds
    <2>5. ExitType' /\ HandlerType' BY <1>1, <1>4, Frames DEF RestartSucceeds
    <2>6. CallType' BY <1>1, <1>4 DEF RestartSucceeds, CallType
    <2>7. ConnType' BY <1>1, <1>4, <2>2 DEF RestartSucceeds, ConnType
    <2>8. StateType' BY <2>2, <2>3 DEF StateType
    <2>9. RemoteType' BY <1>1, <1>4, <2>4 DEF RestartSucceeds, RemoteType
    <2> QED BY <2>5, <2>6, <2>7, <2>8, <2>9, TypeParts
  <1>5. CASE RestartFails
    <2>1. ConnType' /\ StateType' /\ ExitType' /\ HandlerType' /\ RemoteType'
      BY <1>1, <1>5, Frames DEF RestartFails, connVars, remoteVars
    <2>2. CallType' BY <1>1, <1>5 DEF RestartFails, CallType
    <2> QED BY <2>1, <2>2, TypeParts
  <1>6. CASE ForceQuit \/ QuitFails
    <2>1. ConnType' /\ StateType' /\ CallType' /\ HandlerType' /\ RemoteType'
      BY <1>1, <1>6, Frames DEF ForceQuit, QuitFails, connVars, remoteVars, callVars
    <2>2. quitting' \in BOOLEAN BY <1>6, Zenon DEF ForceQuit, QuitFails
    <2>3. quits' \in 0..MaxQuits BY <1>1, <1>6, SupervisorAssumption DEF ForceQuit, QuitFails, ExitType
    <2>4. exitReason' \in Reasons /\ asked' \subseteq Reasons /\ report' = report
      BY <1>1, <1>6 DEF ForceQuit, QuitFails, ExitType, Reasons
    <2>5. ExitType' BY <1>1, <2>2, <2>3, <2>4 DEF ExitType
    <2> QED BY <2>1, <2>5, TypeParts
  <1>7. ASSUME NEW r \in Requests, Shutdown(r) PROVE TypeOK'
    <2>1. Send(r) BY <1>7 DEF Shutdown
    <2>2. ConnType' /\ StateType' /\ CallType' /\ HandlerType' /\ RemoteType' BY <2>1, SendType
    <2>3. ExitType' BY <1>1, <1>7, SupervisorAssumption DEF Shutdown, ExitType, Reasons
    <2> QED BY <2>2, <2>3, TypeParts
  <1> QED BY <1>2, <1>3, <1>4, <1>5, <1>6, <1>7

\* The supervisor and the kernel.
LEMMA KernelType ==
    ASSUME TypeOK,
           \/ KernelExits \/ KernelOffline \/ KernelOnline \/ ServerDies
           \/ \E r \in Requests : KernelReplies(r)
    PROVE  TypeOK'
  <1>1. ConnType /\ StateType /\ CallType /\ ExitType /\ HandlerType /\ RemoteType BY TypeParts
  <1>2. StateType' /\ CallType' /\ HandlerType'
    BY <1>1, Frames DEF KernelExits, KernelOffline, KernelOnline, ServerDies, KernelReplies,
                        connVars, callVars
  <1>3. CASE KernelExits
    <2>1. ConnType' BY <1>1, <1>3, Frames DEF KernelExits, connVars
    <2>2. ExitType' BY <1>1, <1>3 DEF KernelExits, ExitType
    <2>3. wire' \in Seq(Messages) BY <1>1, <1>3, MessagesType DEF KernelExits, RemoteType
    <2>4. kernelUp' \in BOOLEAN BY <1>3, Zenon DEF KernelExits
    <2>5. RemoteType' BY <1>1, <1>3, <2>3, <2>4 DEF KernelExits, RemoteType
    <2> QED BY <1>2, <2>1, <2>2, <2>5, TypeParts
  <1>4. CASE KernelOffline
    <2>1. ConnType' /\ ExitType' BY <1>1, <1>4, Frames DEF KernelOffline, connVars
    <2>2. {"Offline", "Unlisted"} \subseteq Statuses BY DEF Statuses, States
    <2>3. wire' \in Seq(Messages) BY <1>1, <1>4, <2>2, MessagesType DEF KernelOffline, RemoteType
    <2>4. RemoteType'
      BY <1>1, <1>4, <2>3, SupervisorAssumption DEF KernelOffline, RemoteType
    <2> QED BY <1>2, <2>1, <2>4, TypeParts
  <1>5. CASE KernelOnline
    <2>1. ConnType' /\ ExitType' BY <1>1, <1>5, Frames DEF KernelOnline, connVars
    <2>2. "Idle" \in Statuses BY DEF Statuses, States
    <2>3. wire' \in Seq(Messages) BY <1>5, <2>2, MessagesType DEF KernelOnline
    <2>4. RemoteType' BY <1>1, <1>5, <2>3 DEF KernelOnline, RemoteType
    <2> QED BY <1>2, <2>1, <2>4, TypeParts
  <1>6. CASE ServerDies
    <2>1. ExitType' BY <1>1, <1>6, Frames DEF ServerDies
    <2>2. ConnType' BY <1>1, <1>6 DEF ServerDies, ConnType
    <2>3. kernelUp' \in BOOLEAN BY <1>6, Zenon DEF ServerDies
    <2>4. RemoteType' BY <1>1, <1>6, <2>3 DEF ServerDies, RemoteType
    <2> QED BY <1>2, <2>1, <2>2, <2>4, TypeParts
  <1>7. ASSUME NEW r \in Requests, KernelReplies(r) PROVE TypeOK'
    <2>1. ConnType' /\ ExitType' BY <1>1, <1>7, Frames DEF KernelReplies, connVars
    <2>2. "Idle" \in Statuses BY DEF Statuses, States
    <2>3. <<[kind |-> "reply", to |-> r], [kind |-> "status", status |-> "Idle"]>> \in Seq(Messages)
      BY <2>2, MessagesType
    <2>4. wire' \in Seq(Messages) BY <1>1, <1>7, <2>3 DEF KernelReplies, RemoteType
    <2>5. RemoteType' BY <1>1, <1>7, <2>4 DEF KernelReplies, RemoteType
    <2> QED BY <1>2, <2>1, <2>5, TypeParts
  <1> QED BY <1>3, <1>4, <1>5, <1>6, <1>7

\* Every step keeps the types.
LEMMA NextType == TypeOK /\ [Next]_vars => TypeOK'
  <1> SUFFICES ASSUME TypeOK, [Next]_vars PROVE TypeOK' OBVIOUS
  <1>1. ASSUME NEW r \in Requests, SendRequest(r) PROVE TypeOK'
    <2>1. Send(r) /\ UNCHANGED exitVars BY <1>1 DEF SendRequest
    <2>2. ExitType' BY <2>1, TypeParts, Frames
    <2> QED BY <2>1, <2>2, SendType, TypeParts
  <1>2. CASE UNCHANGED vars
    BY <1>2, TypeParts, Frames DEF vars, connVars, callVars, exitVars, handlerVars, remoteVars
  <1> QED
    BY <1>1, <1>2, HandleMessageType, SocketType, HandlersType, CallsType, KernelType DEF Next

-----------------------------------------------------------------------------
(* One websocket *)

\* The steps that leave the websockets in use, the handlers and _socket alone.
LEMMA AttemptFrame ==
    OneAttempt /\ UNCHANGED <<sock, testing, socket>> => OneAttempt'
  BY DEF OneAttempt, InUse

\* The end of a session closes its websocket, which was in use already.
LEMMA CleanUpAttempt ==
    ASSUME TypeOK, OneAttempt, NEW rq, CleanUp(rq), testing' \in {testing, testing - 1}, testing' \in Nat
    PROVE  OneAttempt'
  <1>1. testing' \in {0, 1} /\ (testing' = 1 => testing = 1)
    BY DEF OneAttempt
  <1>2. socket' = NoSocket BY DEF CleanUp
  <1>3. \A s \in Sockets : InUse(s)' => InUse(s)
    BY DEF CleanUp, OneAttempt, InUse, TypeOK
  <1> QED BY <1>1, <1>2, <1>3 DEF OneAttempt

\* onExited closes the websocket, or leaves it to the restart.
LEMMA ExitAttempt ==
    ASSUME TypeOK, OneAttempt, NEW reason, NEW code, OnExited(reason, code),
           testing' \in {testing, testing - 1}, testing' \in Nat
    PROVE  OneAttempt'
  <1>1. CASE restarting
    <2>1. UNCHANGED <<sock, socket>> BY <1>1 DEF OnExited
    <2>2. testing' \in {0, 1} /\ (testing' = 1 => testing = 1) BY DEF OneAttempt
    <2> QED BY <2>1, <2>2 DEF OneAttempt, InUse
  <1>2. CASE ~restarting
    <2>1. PICK rq : CleanUp(rq) BY <1>2 DEF OnExited
    <2> QED BY <2>1, CleanUpAttempt
  <1> QED BY <1>1, <1>2

\* A session starts with one open websocket and no handler at work.
LEMMA InitAttempt == Init => OneAttempt
  BY SupervisorAssumption DEF Init, OneAttempt, InUse, Sockets, NoSocket

\* Every step keeps it at one websocket or one handler.
LEMMA NextAttempt == TypeOK /\ OneAttempt /\ [Next]_vars => OneAttempt'
  <1> SUFFICES ASSUME TypeOK, OneAttempt, [Next]_vars PROVE OneAttempt' OBVIOUS
  <1>1. ASSUME NEW s \in Sockets,
               SocketOpens(s) \/ SocketFails(s) \/ SocketDrops(s)
        PROVE  OneAttempt'
    <2>1. UNCHANGED <<testing, socket>> /\ InUse(s)
          /\ \E st \in {"open", "closing", "failed"} : sock' = [sock EXCEPT ![s] = st]
      BY <1>1 DEF SocketOpens, SocketFails, SocketDrops, InUse, Ending, handlerVars, TypeOK
    <2>2. \A t \in Sockets : InUse(t)' <=> InUse(t)
      BY <2>1 DEF InUse, TypeOK
    <2>3. socket' # NoSocket => InUse(socket)'
      BY <2>1, <2>2 DEF OneAttempt, TypeOK
    <2> QED BY <2>1, <2>2, <2>3 DEF OneAttempt
  <1>2. ASSUME NEW s \in Sockets, OnClose(s) PROVE OneAttempt'
    <2>1. InUse(s) /\ sock' = [sock EXCEPT ![s] = "closed"] /\ socket' = NoSocket
          /\ testing' \in {testing, testing + 1}
      BY <1>2 DEF OnClose, HandlerNotified, InUse
    <2>2. testing = 0 /\ testing' \in {0, 1} BY <2>1 DEF OneAttempt
    <2>3. \A t \in Sockets : ~InUse(t)' BY <2>1 DEF OneAttempt, InUse, TypeOK
    <2> QED BY <2>1, <2>2, <2>3 DEF OneAttempt
  <1>3. ASSUME TestServerExited PROVE OneAttempt'
    <2>1. testing > 0 /\ testing' = testing - 1 /\ testing = 1 /\ testing' = 0
      BY <1>3 DEF TestServerExited, OneAttempt
    <2>2. CASE MarkExited
      <3>1. OnExited("Error", 1) BY <2>2 DEF MarkExited
      <3> QED BY <2>1, <3>1, ExitAttempt
    <2>3. CASE Connect
      <3>1. socket = NoSocket /\ \A t \in Sockets : ~InUse(t)
        BY <2>1 DEF OneAttempt, TypeOK
      <3>2. PICK s \in Sockets :
                /\ sock' = [t \in Sockets |-> IF t = s THEN "connecting"
                                              ELSE IF t = socket THEN Ending(sock[t]) ELSE sock[t]]
                /\ socket' = s
        BY <2>3 DEF Connect
      <3>3. NoSocket \notin Sockets BY SupervisorAssumption DEF Sockets, NoSocket
      <3>4. \A t \in Sockets : InUse(t)' <=> t = s
        BY <3>1, <3>2, <3>3 DEF InUse
      <3> QED BY <2>1, <3>2, <3>4 DEF OneAttempt
    <2> QED BY <1>3, <2>2, <2>3 DEF TestServerExited
  <1>4. ASSUME OtherSessionTests PROVE OneAttempt'
    <2>1. OnExited("Error", 1) /\ testing' = testing
      BY <1>4 DEF OtherSessionTests, MarkExited, handlerVars
    <2> QED BY <2>1, ExitAttempt DEF TypeOK
  <1>5. ASSUME HandleMessage PROVE OneAttempt'
    <2>1. testing' = testing BY <1>5 DEF HandleMessage, handlerVars
    <2>2. CASE \E code \in {0, 1} : OnExited(exitReason, code)
      BY <2>1, <2>2, ExitAttempt DEF TypeOK
    <2>3. CASE UNCHANGED <<socket, sock>>
      BY <2>1, <2>3, AttemptFrame
    <2> QED BY <1>5, <2>2, <2>3 DEF HandleMessage
  <1>6. ASSUME ServerDies PROVE OneAttempt'
    <2>1. UNCHANGED <<testing, socket>> BY <1>6 DEF ServerDies, handlerVars
    <2>2. \A t \in Sockets : InUse(t)' <=> InUse(t)
      BY <1>6 DEF ServerDies, InUse, TypeOK
    <2>3. socket' # NoSocket => InUse(socket)'
      BY <2>1, <2>2 DEF OneAttempt, TypeOK
    <2> QED BY <2>1, <2>2, <2>3 DEF OneAttempt
  <1>7. CASE UNCHANGED <<sock, testing, socket>> BY <1>7, AttemptFrame
  <1>8. ASSUME NEW r \in Requests, SendRequest(r) \/ KernelReplies(r) \/ Shutdown(r)
        PROVE  UNCHANGED <<sock, testing, socket>>
    BY <1>8 DEF SendRequest, Send, KernelReplies, Shutdown, handlerVars, connVars
  <1>9. ASSUME NEW s \in Sockets, ConnectTimesOut(s)
        PROVE  UNCHANGED <<sock, testing, socket>>
    BY <1>9 DEF ConnectTimesOut
  <1>10. ASSUME \/ ForceQuit \/ QuitFails \/ Restart \/ KernelRestarts \/ RestartSucceeds
                \/ RestartFails \/ KernelExits \/ KernelOffline \/ KernelOnline
                \/ UNCHANGED vars
         PROVE  UNCHANGED <<sock, testing, socket>>
    BY <1>10 DEF ForceQuit, QuitFails, Restart, KernelRestarts, RestartSucceeds, RestartFails,
                 KernelExits, KernelOffline, KernelOnline, vars, handlerVars, connVars
  <1> QED
    BY <1>1, <1>2, <1>3, <1>4, <1>5, <1>6, <1>7, <1>8, <1>9, <1>10 DEF Next

-----------------------------------------------------------------------------
(* Exit reasons *)

\* onExited reports a reason that was asked for, and consumes it.
LEMMA ExitExplained ==
    ASSUME Explained, NEW reason, NEW code, OnExited(reason, code),
           reason \in {"Unknown", "Error"} \cup asked
    PROVE  Explained'
  <1>1. /\ report' = [reason |-> IF reason = "Unknown" /\ code # 0 THEN "Error" ELSE reason,
                      explained |-> reason \in asked]
        /\ exitReason' = "Unknown"
    BY DEF OnExited, ReportExit
  <1>2. CASE reason \in asked
    BY <1>1, <1>2 DEF Explained, ReasonFits
  <1>3. CASE reason \in {"Unknown", "Error"}
    BY <1>1, <1>3 DEF Explained, ReasonFits
  <1> QED BY <1>2, <1>3

\* Every step keeps the reason explained.
LEMMA NextExplained == Explained /\ [Next]_vars => Explained'
  <1> SUFFICES ASSUME Explained, [Next]_vars PROVE Explained' OBVIOUS
  <1>1. CASE UNCHANGED <<report, exitReason, asked>>
    BY <1>1 DEF Explained, ReasonFits
  <1>2. ASSUME HandleMessage, ~UNCHANGED exitVars PROVE Explained'
    <2>1. PICK code \in {0, 1} : OnExited(exitReason, code) BY <1>2 DEF HandleMessage
    <2> QED BY <2>1, ExitExplained DEF Explained
  <1>3. ASSUME TestServerExited \/ OtherSessionTests, ~UNCHANGED exitVars PROVE Explained'
    <2>1. OnExited("Error", 1) BY <1>3 DEF TestServerExited, OtherSessionTests, MarkExited
    <2> QED BY <2>1, ExitExplained
  <1>4. ASSUME NEW r \in Requests, Shutdown(r) PROVE Explained'
    BY <1>4 DEF Shutdown, Explained, ReasonFits
  <1>5. ASSUME Restart \/ ForceQuit \/ QuitFails PROVE Explained'
    BY <1>5 DEF Restart, ForceQuit, QuitFails, Explained, ReasonFits
  <1>6. ASSUME NEW r \in Requests, SendRequest(r) \/ KernelReplies(r)
        PROVE  UNCHANGED exitVars
    BY <1>6 DEF SendRequest, KernelReplies
  <1>7. ASSUME NEW s \in Sockets, \/ SocketOpens(s) \/ SocketFails(s) \/ ConnectTimesOut(s)
                                  \/ SocketDrops(s) \/ OnClose(s)
        PROVE  UNCHANGED exitVars
    BY <1>7 DEF SocketOpens, SocketFails, ConnectTimesOut, SocketDrops, OnClose
  <1>8. ASSUME \/ KernelRestarts \/ RestartSucceeds \/ RestartFails \/ KernelOffline
               \/ KernelOnline \/ ServerDies \/ KernelExits \/ UNCHANGED vars
        PROVE  UNCHANGED <<report, exitReason, asked>>
    BY <1>8 DEF KernelRestarts, RestartSucceeds, RestartFails, KernelExits, KernelOffline,
                KernelOnline, ServerDies, vars, exitVars
  <1>9. UNCHANGED exitVars => UNCHANGED <<report, exitReason, asked>> BY DEF exitVars
  <1> QED
    BY <1>1, <1>2, <1>3, <1>4, <1>5, <1>6, <1>7, <1>8, <1>9 DEF Next

-----------------------------------------------------------------------------
(* The barrier and the websocket.  The barrier opens when a websocket does,    *)
(* and when the session leaves the state Offline; the latter takes a status    *)
(* message, and so a websocket that delivers it.  What remains to be excluded  *)
(* is that this websocket has been given up: its session has exited, and then  *)
(* no such message follows (GivenUp).  That an exit is the last of the wire,   *)
(* or belongs to a restart, is ExitsOK.                                        *)

\* The session was restarted at most once, and not while it was offline.
Plain == ~blind /\ restarts <= 1

Exit(i) == wire[i].kind = "exited"
Starts(i) == wire[i].kind = "status" /\ wire[i].status = "Starting"
\* A status other than the end of the kernel.
Alive(i) == wire[i].kind = "status" /\ wire[i].status # "Exited"

\* Nothing will be said of a kernel that runs.
KernelOver == ~kernelUp /\ (restartCall = "asked" => server # "up")

BarrierOK == connected => socket # NoSocket /\ sock[socket] \in {"open", "closing"}

\* A websocket that connects or is open is the present one, and a handler
\* waits for one that connects.
OwnOK ==
    /\ \A s \in Sockets : sock[s] \in {"connecting", "open"} => socket = s
    /\ \A s \in awaited : sock[s] = "connecting" \/ server # "up"

\* A supervisor that died says nothing.
DeadOK == server # "up" => wire = <<>> /\ ~kernelUp

\* Nobody reconnects a session that has exited.
CalmOK ==
    state = "Exited" /\ restarts = 0 /\ server = "up" =>
        testing = 0 /\ \A s \in Sockets : sock[s] # "connecting"

\* restart() and what the supervisor says of it.
CallOK ==
    /\ restarts = 0 => restartCall = "none"
    /\ restartCall = "asked" => restarting
    /\ restarts = 0 \/ restartCall = "asked" => \A i \in 1..Len(wire) : ~Starts(i)

\* An exit follows the status that announces it.
PairsOK ==
    \A i \in 1..Len(wire) :
        Exit(i) => IF i = 1 THEN restarts = 0 => state = "Exited"
                   ELSE wire[i - 1].kind = "status" /\ wire[i - 1].status = "Exited"

\* An exit is handled while the session restarts, or is the last that is heard.
ExitsOK ==
    \A i \in 1..Len(wire) :
        Exit(i) => \/ restarting /\ \A k \in 1..(i - 1) : ~Starts(k)
                   \/ KernelOver /\ \A j \in (i + 1)..Len(wire) : ~Alive(j)

\* A websocket that is closing and no longer the present one was given up by a
\* session that exited for good.
GivenUp ==
    socket = NoSocket /\ (\E s \in Sockets : sock[s] = "closing") =>
        /\ KernelOver /\ \A i \in 1..Len(wire) : ~Alive(i)
        /\ restarts = 0 => state = "Exited" \/ server # "up"

AttachedOK == BarrierOK /\ OwnOK /\ DeadOK /\ CalmOK /\ CallOK /\ PairsOK /\ ExitsOK /\ GivenUp
Attached == Plain => AttachedOK

\* A session stays restarted, and blind.
LEMMA PlainBefore ==
    ASSUME TypeOK, [Next]_vars, Plain'
    PROVE  Plain
  <1>1. ASSUME NEW s \in Sockets,
               \/ SocketOpens(s) \/ SocketFails(s) \/ ConnectTimesOut(s) \/ SocketDrops(s) \/ OnClose(s)
        PROVE  UNCHANGED <<blind, restarts>>
    BY <1>1 DEF SocketOpens, SocketFails, ConnectTimesOut, SocketDrops, OnClose, callVars
  <1>2. ASSUME NEW r \in Requests, SendRequest(r) \/ KernelReplies(r) \/ Shutdown(r)
        PROVE  UNCHANGED <<blind, restarts>>
    BY <1>2 DEF SendRequest, Shutdown, Send, KernelReplies, callVars
  <1>3. ASSUME \/ TestServerExited \/ OtherSessionTests \/ ForceQuit \/ QuitFails \/ KernelRestarts
               \/ RestartFails \/ KernelExits \/ KernelOffline \/ KernelOnline \/ ServerDies
               \/ UNCHANGED vars
        PROVE  UNCHANGED <<blind, restarts>>
    BY <1>3 DEF TestServerExited, OtherSessionTests, ForceQuit, QuitFails, KernelRestarts,
                RestartFails, KernelExits, KernelOffline, KernelOnline, ServerDies, vars, callVars
  <1>4. ASSUME Restart PROVE UNCHANGED blind /\ restarts' = restarts + 1 /\ restarts \in Nat
    BY <1>4 DEF Restart, TypeOK
  <1>5. ASSUME HandleMessage \/ RestartSucceeds PROVE (blind => blind') /\ restarts' = restarts
    <2>1. \/ UNCHANGED blind
          \/ \E b \in BOOLEAN : blind' = (blind \/ b)
      BY <1>5 DEF HandleMessage, RestartSucceeds
    <2>2. restarts' = restarts BY <1>5 DEF HandleMessage, RestartSucceeds
    <2>3. CASE UNCHANGED blind BY <2>2, <2>3
    <2>4. ASSUME NEW b \in BOOLEAN, blind' = (blind \/ b) PROVE blind => blind' BY <2>4, Zenon
    <2> QED BY <2>1, <2>2, <2>3, <2>4
  <1> QED BY <1>1, <1>2, <1>3, <1>4, <1>5 DEF Next, Plain

\* What is behind the messages that are added to the wire, and before them.
LEMMA WireAppended ==
    ASSUME wire \in Seq(Messages), NEW x \in Seq(Messages), wire' = wire \o x
    PROVE  /\ Len(wire') = Len(wire) + Len(x) /\ Len(wire) \in Nat /\ Len(x) \in Nat
           /\ \A i \in 1..Len(wire) : wire'[i] = wire[i]
           /\ \A i \in (Len(wire) + 1)..Len(wire') :
                  wire'[i] = x[i - Len(wire)] /\ i - Len(wire) \in 1..Len(x)
  OBVIOUS

\* What is behind the message that is taken from the wire.
LEMMA WireTaken ==
    ASSUME wire \in Seq(Messages), wire # <<>>, wire' = Tail(wire)
    PROVE  /\ Len(wire') = Len(wire) - 1 /\ Len(wire') \in Nat /\ Head(wire) = wire[1]
           /\ \A i \in 1..Len(wire') : wire'[i] = wire[i + 1] /\ i + 1 \in 2..Len(wire)
  OBVIOUS

\* The kernel says something else than that it exits or starts.
LEMMA Spoken ==
    ASSUME TypeOK, CallOK, PairsOK, ExitsOK, GivenUp, DeadOK,
           kernelUp, NEW x \in Seq(Messages), wire' = wire \o x,
           \A i \in 1..Len(x) : x[i].kind # "exited"
                                /\ ~(x[i].kind = "status" /\ x[i].status = "Starting"),
           UNCHANGED <<state, restarts, restartCall, restarting, server, kernelUp, socket, sock>>
    PROVE  CallOK' /\ PairsOK' /\ ExitsOK' /\ GivenUp' /\ DeadOK'
  <1>1. wire \in Seq(Messages) BY DEF TypeOK
  <1>2. /\ Len(wire') = Len(wire) + Len(x) /\ Len(wire) \in Nat /\ Len(x) \in Nat
        /\ \A i \in 1..Len(wire) : wire'[i] = wire[i]
        /\ \A i \in (Len(wire) + 1)..Len(wire') :
               wire'[i] = x[i - Len(wire)] /\ i - Len(wire) \in 1..Len(x)
    BY <1>1, WireAppended
  <1>3. ASSUME NEW i \in 1..Len(wire'), i > Len(wire)
        PROVE  wire'[i].kind # "exited" /\ ~(wire'[i].kind = "status" /\ wire'[i].status = "Starting")
    BY <1>2, <1>3
  <1>4. ASSUME NEW i \in 1..Len(wire'), wire'[i].kind = "exited"
        PROVE  i \in 1..Len(wire) /\ Exit(i)
    BY <1>2, <1>3, <1>4 DEF Exit
  <1>5. CallOK' BY <1>2, <1>3 DEF CallOK, Starts
  <1>6. PairsOK'
    <2> SUFFICES ASSUME NEW i \in 1..Len(wire'), wire'[i].kind = "exited"
                 PROVE  IF i = 1 THEN restarts = 0 => state = "Exited"
                        ELSE wire'[i - 1].kind = "status" /\ wire'[i - 1].status = "Exited"
      BY DEF PairsOK, Exit
    <2>1. i \in 1..Len(wire) /\ Exit(i) BY <1>4
    <2>2. CASE i = 1 BY <2>1, <2>2 DEF PairsOK
    <2>3. CASE i # 1
      <3>1. i - 1 \in 1..Len(wire) BY <1>2, <2>1, <2>3
      <3> QED BY <1>2, <2>1, <2>3, <3>1 DEF PairsOK
    <2> QED BY <2>2, <2>3
  <1>7. ExitsOK'
    <2> SUFFICES ASSUME NEW i \in 1..Len(wire'), wire'[i].kind = "exited"
                 PROVE  restarting /\ \A k \in 1..(i - 1) : ~Starts(k)'
      BY DEF ExitsOK, Exit
    <2>1. i \in 1..Len(wire) /\ Exit(i) BY <1>4
    <2>2. restarting /\ \A k \in 1..(i - 1) : ~Starts(k) BY <2>1 DEF ExitsOK, KernelOver
    <2>3. ASSUME NEW k \in 1..(i - 1) PROVE ~Starts(k)'
      <3>1. k \in 1..Len(wire) BY <1>2, <2>1
      <3> QED BY <1>2, <2>2, <3>1 DEF Starts
    <2> QED BY <2>2, <2>3
  <1>8. GivenUp' BY DEF GivenUp, KernelOver
  <1>9. DeadOK' BY DEF DeadOK
  <1> QED BY <1>5, <1>6, <1>7, <1>8, <1>9

\* A message is taken from the wire.
LEMMA Taken ==
    ASSUME TypeOK, CallOK, PairsOK, ExitsOK, DeadOK, wire # <<>>, wire' = Tail(wire),
           UNCHANGED <<restarts, restartCall, server, kernelUp>>,
           restarting' = restarting \/ Starts(1),
           wire[1].kind = "status" /\ wire[1].status = "Exited" => state' = "Exited"
    PROVE  CallOK' /\ PairsOK' /\ ExitsOK' /\ DeadOK'
  <1>1. wire \in Seq(Messages) BY DEF TypeOK
  <1>2. /\ Len(wire') = Len(wire) - 1 /\ Len(wire') \in Nat /\ Len(wire) \in Nat
        /\ \A i \in 1..Len(wire') : wire'[i] = wire[i + 1] /\ i + 1 \in 2..Len(wire)
    BY <1>1, WireTaken
  <1>3. 1 \in 1..Len(wire) BY <1>1
  <1>4. CallOK'
    <2>1. restartCall = "asked" => restarting' = restarting BY <1>3 DEF CallOK
    <2>2. ASSUME restarts = 0 \/ restartCall = "asked", NEW i \in 1..Len(wire') PROVE ~Starts(i)'
      <3>1. i + 1 \in 1..Len(wire) /\ wire'[i] = wire[i + 1] BY <1>2
      <3> QED BY <2>2, <3>1 DEF CallOK, Starts
    <2> QED BY <2>1, <2>2 DEF CallOK
  <1>5. PairsOK'
    <2> SUFFICES ASSUME NEW i \in 1..Len(wire'), Exit(i)'
                 PROVE  IF i = 1 THEN restarts = 0 => state' = "Exited"
                        ELSE wire'[i - 1].kind = "status" /\ wire'[i - 1].status = "Exited"
      BY DEF PairsOK
    <2>1. i + 1 \in 1..Len(wire) /\ Exit(i + 1) /\ i + 1 # 1 BY <1>2 DEF Exit
    <2>2. wire[i].kind = "status" /\ wire[i].status = "Exited"
      <3>1. wire[(i + 1) - 1].kind = "status" /\ wire[(i + 1) - 1].status = "Exited"
        BY <2>1 DEF PairsOK
      <3> QED BY <3>1, <2>1
    <2>3. CASE i = 1 BY <2>2, <2>3
    <2>4. CASE i # 1
      <3>1. i - 1 \in 1..Len(wire') /\ (i - 1) + 1 = i BY <1>2, <2>4
      <3> QED BY <1>2, <2>2, <2>4, <3>1
    <2> QED BY <2>3, <2>4
  <1>6. ExitsOK'
    <2> SUFFICES ASSUME NEW i \in 1..Len(wire'), Exit(i)'
                 PROVE  \/ restarting' /\ \A k \in 1..(i - 1) : ~Starts(k)'
                        \/ KernelOver' /\ \A j \in (i + 1)..Len(wire') : ~Alive(j)'
      BY DEF ExitsOK
    <2>1. i + 1 \in 1..Len(wire) /\ Exit(i + 1) BY <1>2 DEF Exit
    <2>2. CASE restarting /\ \A k \in 1..((i + 1) - 1) : ~Starts(k)
      <3>1. ~Starts(1) BY <1>2, <2>2
      <3>2. ASSUME NEW k \in 1..(i - 1) PROVE ~Starts(k)'
        <4>1. k \in 1..Len(wire') /\ k + 1 \in 1..((i + 1) - 1) BY <1>2
        <4> QED BY <1>2, <2>2, <4>1 DEF Starts
      <3> QED BY <2>2, <3>1, <3>2
    <2>3. CASE KernelOver /\ \A j \in ((i + 1) + 1)..Len(wire) : ~Alive(j)
      <3>1. ASSUME NEW j \in (i + 1)..Len(wire') PROVE ~Alive(j)'
        <4>1. j \in 1..Len(wire') /\ j + 1 \in ((i + 1) + 1)..Len(wire) BY <1>2
        <4> QED BY <1>2, <2>3, <4>1 DEF Alive
      <3>2. KernelOver' BY <2>3 DEF KernelOver
      <3> QED BY <3>1, <3>2
    <2> QED BY <2>1, <2>2, <2>3 DEF ExitsOK
  <1>7. DeadOK' BY DEF DeadOK
  <1> QED BY <1>4, <1>5, <1>6, <1>7

\* The messages of the wire are about no kernel that runs, and still are not
\* when one is taken.
LEMMA QuietTaken ==
    ASSUME wire \in Seq(Messages), wire # <<>>, wire' = Tail(wire),
           \A i \in 2..Len(wire) : ~Alive(i)
    PROVE  \A i \in 1..Len(wire') : ~Alive(i)'
  <1> TAKE i \in 1..Len(wire')
  <1>1. wire'[i] = wire[i + 1] /\ i + 1 \in 2..Len(wire) BY WireTaken
  <1> QED BY <1>1 DEF Alive

\* A message arrives.
LEMMA MessageAttached ==
    ASSUME TypeOK, OneAttempt, AttachedOK, HandleMessage
    PROVE  AttachedOK'
  <1> USE DEF AttachedOK
  <1>1. /\ wire # <<>> /\ wire' = Tail(wire) /\ wire \in Seq(Messages)
        /\ UNCHANGED <<restartCall, restarts, testing, awaited, server, kernelUp>>
    BY DEF HandleMessage, TypeOK, handlerVars
  <1>2. PICK s \in Sockets : sock[s] \in {"open", "closing"} BY DEF HandleMessage
  <1>3. Head(wire) = wire[1] /\ 1 \in 1..Len(wire) BY <1>1
  <1>4. server = "up" BY <1>1 DEF DeadOK
  <1>5. testing = 0 /\ \A t \in Sockets : sock[t] # "connecting"
    BY <1>2 DEF OneAttempt, InUse
  <1>6. socket = NoSocket => sock[s] = "closing"
    <2>1. NoSocket \notin Sockets BY SupervisorAssumption DEF Sockets, NoSocket
    <2> QED BY <1>2, <2>1 DEF OwnOK
  <1>7. socket # NoSocket => socket = s BY <1>2 DEF OneAttempt, InUse, TypeOK
  <1>8. CASE /\ wire[1].kind = "status"
             /\ IF Ignored(wire[1].status) THEN UNCHANGED <<state, connected, req, restarting>>
                ELSE OnStateChange(wire[1].status)
             /\ UNCHANGED <<socket, sock>>
    <2>1. restarting' = restarting \/ Starts(1)
      BY <1>8 DEF OnStateChange, Starts, TypeOK
    <2>2. wire[1].status = "Exited" => state' = "Exited"
      BY <1>8 DEF OnStateChange, Ignored, States
    <2>3. CallOK' /\ PairsOK' /\ ExitsOK' /\ DeadOK' BY <1>1, <2>1, <2>2, Taken
    <2>4. OwnOK' BY <1>1, <1>8 DEF OwnOK
    <2>5. CalmOK' BY <1>1, <1>5, <1>8 DEF CalmOK
    <2>6. BarrierOK'
      <3>1. CASE connected BY <1>8, <3>1 DEF BarrierOK
      <3>2. CASE ~connected
        <4>1. connected' => Alive(1) BY <1>8, <3>2 DEF OnStateChange, BarrierAfter, Alive
        <4>2. socket = NoSocket => ~Alive(1) BY <1>3, <1>6 DEF GivenUp
        <4> QED BY <1>2, <1>7, <1>8, <4>1, <4>2 DEF BarrierOK
      <3> QED BY <3>1, <3>2
    <2>7. GivenUp'
      <3> SUFFICES ASSUME socket = NoSocket, \E t \in Sockets : sock[t] = "closing"
                   PROVE  /\ KernelOver' /\ \A i \in 1..Len(wire') : ~Alive(i)'
                          /\ restarts = 0 => state' = "Exited"
        BY <1>1, <1>8 DEF GivenUp
      <3>1. KernelOver /\ \A i \in 1..Len(wire) : ~Alive(i) BY DEF GivenUp
      <3>2. KernelOver' BY <1>1, <3>1 DEF KernelOver
      <3>3. state' = "Exited" BY <1>3, <1>8, <2>2, <3>1 DEF Alive
      <3>4. \A i \in 2..Len(wire) : ~Alive(i) BY <1>1, <3>1
      <3> QED BY <1>1, <3>2, <3>3, <3>4, QuietTaken
    <2> QED BY <2>3, <2>4, <2>5, <2>6, <2>7
  <1>9. ASSUME wire[1].kind # "status", UNCHANGED <<state, restarting>>
        PROVE  CallOK' /\ PairsOK' /\ ExitsOK' /\ DeadOK'
    BY <1>1, <1>9, Taken
  <1>10. CASE wire[1].kind # "status" /\ UNCHANGED <<state, restarting, connected, socket, sock>>
    <2>1. CallOK' /\ PairsOK' /\ ExitsOK' /\ DeadOK' BY <1>9, <1>10
    <2>2. BarrierOK' /\ OwnOK' /\ CalmOK'
      BY <1>1, <1>10 DEF BarrierOK, OwnOK, CalmOK
    <2>3. GivenUp'
      <3> SUFFICES ASSUME socket = NoSocket, \E t \in Sockets : sock[t] = "closing"
                   PROVE  /\ KernelOver' /\ \A i \in 1..Len(wire') : ~Alive(i)'
                          /\ restarts = 0 => state' = "Exited" \/ server # "up"
        BY <1>1, <1>10 DEF GivenUp
      <3>1. /\ KernelOver /\ \A i \in 1..Len(wire) : ~Alive(i)
            /\ restarts = 0 => state = "Exited" \/ server # "up"
        BY DEF GivenUp
      <3>2. KernelOver' BY <1>1, <3>1 DEF KernelOver
      <3>3. \A i \in 2..Len(wire) : ~Alive(i) BY <1>1, <3>1
      <3> QED BY <1>1, <1>10, <3>1, <3>2, <3>3, QuietTaken
    <2> QED BY <2>1, <2>2, <2>3
  <1>11. CASE /\ wire[1].kind = "exited" /\ ~restarting /\ UNCHANGED <<state, restarting>>
              /\ \E rq : CleanUp(rq)
    <2>1. CallOK' /\ PairsOK' /\ ExitsOK' /\ DeadOK' BY <1>9, <1>11
    <2>2. ~connected' /\ socket' = NoSocket
          /\ sock' = IF socket = NoSocket THEN sock ELSE [sock EXCEPT ![socket] = Ending(@)]
      <3>1. connected' = FALSE BY <1>11, Zenon DEF CleanUp
      <3> QED BY <1>11, <3>1 DEF CleanUp
    <2>3. ASSUME NEW t \in Sockets PROVE sock'[t] \notin {"connecting", "open"}
      <3>1. DOMAIN sock = Sockets BY DEF TypeOK
      <3>2. NoSocket \notin Sockets BY SupervisorAssumption DEF Sockets, NoSocket
      <3>3. CASE t = socket
        <4>1. sock'[t] = Ending(sock[t]) BY <2>2, <3>1, <3>2, <3>3
        <4> QED BY <4>1 DEF Ending
      <3>4. CASE t # socket BY <2>2, <3>1, <3>4 DEF OwnOK
      <3> QED BY <3>3, <3>4
    <2>4. BarrierOK' BY <2>2 DEF BarrierOK
    <2>5. OwnOK'
      <3>1. awaited = {} BY <1>4, <1>5 DEF OwnOK, TypeOK
      <3> QED BY <1>1, <2>3, <3>1 DEF OwnOK
    <2>6. CalmOK' BY <1>1, <1>5, <2>3 DEF CalmOK
    <2>7. GivenUp'
      <3>1. Exit(1) BY <1>11 DEF Exit
      <3>2. KernelOver /\ \A j \in 2..Len(wire) : ~Alive(j) BY <1>3, <1>11, <3>1 DEF ExitsOK
      <3>3. restarts = 0 => state = "Exited" BY <1>3, <3>1 DEF PairsOK
      <3>4. KernelOver' BY <1>1, <3>2 DEF KernelOver
      <3> QED BY <1>1, <1>11, <3>2, <3>3, <3>4, QuietTaken DEF GivenUp
    <2> QED BY <2>1, <2>4, <2>5, <2>6, <2>7
  <1>12. \/ /\ wire[1].kind = "status"
            /\ IF Ignored(wire[1].status) THEN UNCHANGED <<state, connected, req, restarting>>
               ELSE OnStateChange(wire[1].status)
            /\ UNCHANGED <<socket, sock>>
         \/ /\ wire[1].kind = "exited" /\ UNCHANGED <<state, restarting>>
            /\ \E code \in {0, 1} : OnExited(exitReason, code)
         \/ wire[1].kind = "reply" /\ UNCHANGED <<state, socket, sock, connected, restarting>>
    BY <1>3 DEF HandleMessage
  <1>13. ASSUME NEW code, OnExited(exitReason, code)
         PROVE  IF restarting THEN UNCHANGED <<connected, socket, sock>> ELSE \E rq : CleanUp(rq)
    BY <1>13 DEF OnExited
  <1> QED BY <1>8, <1>10, <1>11, <1>12, <1>13

\* The events of a websocket, and the end of the wait for one.
LEMMA SocketAttached ==
    ASSUME TypeOK, OneAttempt, AttachedOK, NEW s \in Sockets,
           SocketOpens(s) \/ SocketFails(s) \/ ConnectTimesOut(s) \/ SocketDrops(s) \/ OnClose(s)
    PROVE  AttachedOK'
  <1> USE DEF AttachedOK
  <1>1. NoSocket \notin Sockets /\ DOMAIN sock = Sockets
    BY SupervisorAssumption DEF Sockets, NoSocket, TypeOK
  <1>2. sock[s] \in {"connecting", "open"} => socket = s BY DEF OwnOK
  <1>3. sock[s] = "connecting" => ~connected BY <1>2 DEF BarrierOK
  <1>4. ASSUME sock[s] = "connecting", NEW i \in 1..Len(wire), Exit(i), i = 1 PROVE restarts # 0
    <2>1. server = "up" BY <1>4 DEF DeadOK, TypeOK
    <2> QED BY <1>4, <2>1 DEF PairsOK, CalmOK
  <1>5. CASE SocketOpens(s)
    <2>1. /\ UNCHANGED <<state, restarting, restartCall, restarts, testing, server, kernelUp, wire, socket>>
          /\ sock[s] = "connecting" /\ socket = s /\ sock' = [sock EXCEPT ![s] = "open"]
          /\ awaited' = awaited \ {s} /\ server = "up"
      BY <1>2, <1>5 DEF SocketOpens, callVars
    <2>2. BarrierOK' BY <1>1, <2>1 DEF BarrierOK
    <2>3. OwnOK' BY <1>1, <2>1 DEF OwnOK, TypeOK
    <2>4. CalmOK' BY <1>1, <2>1 DEF CalmOK
    <2>5. DeadOK' /\ CallOK' /\ PairsOK' /\ ExitsOK'
      BY <2>1 DEF DeadOK, CallOK, PairsOK, ExitsOK, Exit, Starts, Alive, KernelOver
    <2>6. GivenUp' BY <1>1, <2>1 DEF GivenUp
    <2> QED BY <2>2, <2>3, <2>4, <2>5, <2>6
  <1>6. CASE SocketFails(s)
    <2>1. /\ UNCHANGED <<restartCall, restarts, testing, server, kernelUp, wire, socket>>
          /\ sock[s] = "connecting" /\ socket = s /\ sock' = [sock EXCEPT ![s] = "failed"]
          /\ awaited' = awaited \ {s}
      BY <1>1, <1>2, <1>3, <1>6 DEF SocketFails, remoteVars, Ending
    <2>2. ~connected' /\ restarting' = restarting /\ (state' = state \/ state' = "Offline")
      <3>1. CASE s \in awaited
        <4>1. OnStateChange("Offline") BY <1>3, <1>6, <2>1, <3>1 DEF SocketFails
        <4> QED BY <4>1 DEF OnStateChange, BarrierAfter, TypeOK
      <3>2. CASE s \notin awaited BY <1>3, <1>6, <2>1, <3>2 DEF SocketFails
      <3> QED BY <3>1, <3>2
    <2>3. BarrierOK' BY <2>2 DEF BarrierOK
    <2>4. OwnOK' BY <1>1, <2>1 DEF OwnOK, TypeOK
    <2>5. CalmOK' BY <1>1, <2>1, <2>2 DEF CalmOK
    <2>6. DeadOK' /\ CallOK' /\ ExitsOK'
      BY <2>1, <2>2 DEF DeadOK, CallOK, ExitsOK, Exit, Starts, Alive, KernelOver
    <2>7. PairsOK' BY <1>4, <2>1 DEF PairsOK, Exit
    <2>8. GivenUp' BY <1>1, <2>1 DEF GivenUp
    <2> QED BY <2>3, <2>4, <2>5, <2>6, <2>7, <2>8
  <1>7. CASE ConnectTimesOut(s)
    <2>1. /\ UNCHANGED <<restartCall, restarts, testing, server, kernelUp, wire, socket, sock>>
          /\ sock[s] = "connecting" \/ server # "up"
          /\ awaited' = awaited \ {s} /\ OnStateChange("Offline")
      BY <1>7 DEF ConnectTimesOut, remoteVars, OwnOK
    <2>2. ~connected' /\ restarting' = restarting /\ state' = "Offline"
      BY <2>1 DEF OnStateChange, BarrierAfter, TypeOK
    <2>3. BarrierOK' /\ CalmOK' BY <2>2 DEF BarrierOK, CalmOK
    <2>4. OwnOK' BY <2>1 DEF OwnOK
    <2>5. DeadOK' /\ CallOK' /\ ExitsOK'
      BY <2>1, <2>2 DEF DeadOK, CallOK, ExitsOK, Exit, Starts, Alive, KernelOver
    <2>6. PairsOK'
      <3>1. CASE sock[s] = "connecting" BY <1>4, <2>1, <3>1 DEF PairsOK, Exit
      <3>2. CASE server # "up" BY <2>1, <3>2 DEF PairsOK, DeadOK
      <3> QED BY <2>1, <3>1, <3>2
    <2>7. GivenUp' BY <1>1, <1>2, <2>1 DEF GivenUp, KernelOver, Alive
    <2> QED BY <2>3, <2>4, <2>5, <2>6, <2>7
  <1>8. CASE SocketDrops(s)
    <2>1. /\ UNCHANGED <<state, restarting, restartCall, restarts, testing, awaited, server, kernelUp, socket>>
          /\ sock[s] = "open" /\ socket = s /\ sock' = [sock EXCEPT ![s] = "closing"]
          /\ wire' = wire \/ wire' = <<>>
      BY <1>2, <1>8 DEF SocketDrops, callVars, handlerVars
    <2>2. BarrierOK' BY <1>1, <2>1 DEF BarrierOK
    <2>3. OwnOK' BY <1>1, <2>1 DEF OwnOK, TypeOK
    <2>4. CalmOK' BY <1>1, <2>1 DEF CalmOK
    <2>5. DeadOK' BY <2>1 DEF DeadOK
    <2>6. CallOK' /\ PairsOK' /\ ExitsOK'
      <3>1. CASE wire' = wire
        BY <2>1, <3>1 DEF CallOK, PairsOK, ExitsOK, Exit, Starts, Alive, KernelOver
      <3>2. CASE wire' = <<>> BY <2>1, <3>2 DEF CallOK, PairsOK, ExitsOK
      <3> QED BY <2>1, <3>1, <3>2
    <2>7. GivenUp' BY <1>1, <2>1 DEF GivenUp
    <2> QED BY <2>2, <2>3, <2>4, <2>5, <2>6, <2>7
  <1>9. CASE OnClose(s)
    <2>1. /\ UNCHANGED <<state, restarting, restartCall, restarts, awaited, server, kernelUp, wire>>
          /\ sock[s] \in {"closing", "failed"} /\ socket' = NoSocket
          /\ sock' = [sock EXCEPT ![s] = "closed"] /\ HandlerNotified
      BY <1>9 DEF OnClose, callVars, remoteVars
    <2>2. ~connected'
      <3>1. connected' = FALSE BY <1>9, Zenon DEF OnClose
      <3> QED BY <3>1
    <2>3. testing = 0 /\ \A t \in Sockets : t # s => ~InUse(t) BY <2>1 DEF OneAttempt, InUse
    <2>4. \A t \in Sockets : sock'[t] \notin {"connecting", "open", "closing"}
      BY <1>1, <2>1, <2>3 DEF InUse, TypeOK
    <2>5. BarrierOK' BY <2>2 DEF BarrierOK
    <2>6. OwnOK'
      <3>1. \A t \in awaited : server # "up" BY <2>1, <2>3 DEF OwnOK, InUse, TypeOK
      <3> QED BY <2>1, <2>4, <3>1 DEF OwnOK
    <2>7. CalmOK' BY <2>1, <2>3, <2>4 DEF CalmOK, HandlerNotified
    <2>8. DeadOK' /\ CallOK' /\ PairsOK' /\ ExitsOK'
      BY <2>1 DEF DeadOK, CallOK, PairsOK, ExitsOK, Exit, Starts, Alive, KernelOver
    <2>9. GivenUp' BY <2>4 DEF GivenUp
    <2> QED BY <2>5, <2>6, <2>7, <2>8, <2>9
  <1> QED BY <1>5, <1>6, <1>7, <1>8, <1>9

\* The disconnect handlers.
LEMMA HandlersAttached ==
    ASSUME TypeOK, OneAttempt, AttachedOK, TestServerExited \/ OtherSessionTests
    PROVE  AttachedOK'
  <1> USE DEF AttachedOK
  <1>1. NoSocket \notin Sockets /\ DOMAIN sock = Sockets
    BY SupervisorAssumption DEF Sockets, NoSocket, TypeOK
  <1>2. UNCHANGED <<restartCall, restarts, kernelUp, wire>>
    BY DEF TestServerExited, OtherSessionTests
  <1>3. CASE server = "dead" /\ server' = "replaced" /\ MarkExited /\ awaited' = awaited
    <2>1. wire = <<>> /\ ~kernelUp BY <1>3 DEF DeadOK
    <2>2. DeadOK' /\ CalmOK' BY <1>2, <1>3, <2>1 DEF DeadOK, CalmOK
    <2>3. CallOK' /\ PairsOK' /\ ExitsOK'
      BY <1>2, <1>3, <2>1 DEF CallOK, PairsOK, ExitsOK, MarkExited
    <2>4. GivenUp' BY <1>2, <1>3, <2>1 DEF GivenUp, KernelOver
    <2>5. BarrierOK' /\ OwnOK'
      <3>1. CASE restarting
        <4>1. UNCHANGED <<sock, socket, connected>> BY <1>3, <3>1 DEF MarkExited, OnExited
        <4> QED BY <1>3, <4>1 DEF BarrierOK, OwnOK
      <3>2. CASE ~restarting
        <4>1. PICK rq : CleanUp(rq) BY <1>3, <3>2 DEF MarkExited, OnExited
        <4>2. connected' = FALSE BY <4>1, Zenon DEF CleanUp
        <4>3. ASSUME NEW t \in Sockets PROVE sock'[t] \notin {"connecting", "open"}
          <5>1. CASE t = socket
            <6>1. sock'[t] = Ending(sock[t]) BY <1>1, <4>1, <5>1 DEF CleanUp
            <6> QED BY <6>1 DEF Ending
          <5>2. CASE t # socket BY <1>1, <4>1, <5>2 DEF OwnOK, CleanUp
          <5> QED BY <5>1, <5>2
        <4> QED BY <1>3, <4>2, <4>3 DEF BarrierOK, OwnOK
      <3> QED BY <3>1, <3>2
    <2> QED BY <2>2, <2>3, <2>4, <2>5
  <1>4. CASE /\ testing = 1 /\ testing' = 0 /\ Connect
             /\ UNCHANGED <<state, connected, restarting, server>>
    <2>1. socket = NoSocket /\ \A t \in Sockets : ~InUse(t) BY <1>4 DEF OneAttempt, TypeOK
    <2>2. PICK s \in Sockets :
              /\ sock' = [t \in Sockets |-> IF t = s THEN "connecting"
                                            ELSE IF t = socket THEN Ending(sock[t]) ELSE sock[t]]
              /\ socket' = s /\ awaited' = awaited \cup {s}
      BY <1>4 DEF Connect
    <2>3. \A t \in Sockets : sock'[t] = IF t = s THEN "connecting" ELSE sock[t]
      BY <1>1, <2>1, <2>2
    <2>4. BarrierOK' BY <1>4, <2>1 DEF BarrierOK
    <2>5. OwnOK' BY <1>4, <2>1, <2>2, <2>3 DEF OwnOK, InUse, TypeOK
    <2>6. CalmOK' BY <1>2, <1>4 DEF CalmOK
    <2>7. GivenUp' BY <1>1, <2>2 DEF GivenUp
    <2>8. DeadOK' /\ CallOK' /\ PairsOK' /\ ExitsOK'
      BY <1>2, <1>4 DEF DeadOK, CallOK, PairsOK, ExitsOK, Exit, Starts, Alive, KernelOver
    <2> QED BY <2>4, <2>5, <2>6, <2>7, <2>8
  <1>5. testing > 0 => testing = 1 /\ testing - 1 = 0 BY DEF OneAttempt
  <1> QED BY <1>3, <1>4, <1>5 DEF TestServerExited, OtherSessionTests, handlerVars

\* restart() and its end.
LEMMA RestartAttached ==
    ASSUME TypeOK, AttachedOK, Restart \/ RestartSucceeds \/ RestartFails, Plain'
    PROVE  AttachedOK'
  <1> USE DEF AttachedOK
  <1>1. UNCHANGED <<socket, sock, testing, awaited, server, kernelUp, wire>>
    BY DEF Restart, RestartSucceeds, RestartFails, connVars, handlerVars, remoteVars
  <1>2. OwnOK' /\ DeadOK' BY <1>1 DEF OwnOK, DeadOK
  <1>3. CASE Restart
    <2>1. /\ state # "Exited" /\ server = "up" /\ restarts' = restarts + 1 /\ restartCall' = "asked"
          /\ UNCHANGED <<state, connected>>
      BY <1>3 DEF Restart, connVars
    <2>2. restarts = 0 /\ restarts' = 1 BY <2>1 DEF Plain, TypeOK
    <2>3. restarting'
      <3>1. restarting' = TRUE BY <1>3, Zenon DEF Restart
      <3> QED BY <3>1
    <2>4. \A i \in 1..Len(wire) : ~Starts(i) BY <2>2 DEF CallOK
    <2>5. BarrierOK' /\ CalmOK' BY <1>1, <2>1, <2>2 DEF BarrierOK, CalmOK
    <2>6. CallOK' BY <1>1, <2>2, <2>3, <2>4 DEF CallOK, Starts
    <2>7. PairsOK' BY <1>1, <2>2 DEF PairsOK, Exit
    <2>8. ExitsOK'
      <3> SUFFICES ASSUME NEW i \in 1..Len(wire), NEW k \in 1..(i - 1) PROVE ~Starts(k)'
        BY <1>1, <2>3 DEF ExitsOK
      <3>1. k \in 1..Len(wire) BY DEF TypeOK
      <3> QED BY <1>1, <2>4, <3>1 DEF Starts
    <2>9. GivenUp' BY <1>1, <2>1, <2>2 DEF GivenUp
    <2> QED BY <1>2, <2>5, <2>6, <2>7, <2>8, <2>9
  <1>4. CASE RestartSucceeds
    <2>1. /\ restartCall = "served" /\ restartCall' = "none" /\ restarts' = restarts
          /\ OnStateChange("Ready") /\ state # "Offline"
      <3>1. blind' = (blind \/ state = "Offline") BY <1>4 DEF RestartSucceeds
      <3>2. ~blind' BY DEF Plain
      <3>3. state # "Offline" BY <3>1, <3>2, Zenon
      <3> QED BY <1>4, <3>3 DEF RestartSucceeds
    <2>2. restarts # 0 BY <2>1 DEF CallOK
    <2>3. connected' = connected /\ restarting' = restarting /\ state' = "Ready"
      BY <2>1 DEF OnStateChange, BarrierAfter, TypeOK
    <2>4. BarrierOK' /\ CalmOK' BY <1>1, <2>3 DEF BarrierOK, CalmOK
    <2>5. CallOK' /\ PairsOK' /\ ExitsOK'
      BY <1>1, <2>1, <2>2, <2>3 DEF CallOK, PairsOK, ExitsOK, Exit, Starts, Alive, KernelOver
    <2>6. GivenUp' BY <1>1, <2>1, <2>2 DEF GivenUp, KernelOver, Alive
    <2> QED BY <1>2, <2>4, <2>5, <2>6
  <1>5. CASE RestartFails
    <2>1. restartCall' = "none" /\ UNCHANGED <<restarts, restarting, state, connected>>
      BY <1>5 DEF RestartFails, connVars
    <2>2. BarrierOK' /\ CalmOK' BY <1>1, <2>1 DEF BarrierOK, CalmOK
    <2>3. CallOK' /\ PairsOK' /\ ExitsOK'
      BY <1>1, <2>1 DEF CallOK, PairsOK, ExitsOK, Exit, Starts, Alive, KernelOver
    <2>4. GivenUp' BY <1>1, <2>1 DEF GivenUp, KernelOver, Alive
    <2> QED BY <1>2, <2>2, <2>3, <2>4
  <1> QED BY <1>3, <1>4, <1>5

\* The messages the supervisor adds to the wire when the kernel exits, or is
\* restarted: at most one exit, which comes before any start.
LEMMA EndsSpoken ==
    ASSUME TypeOK, CallOK, PairsOK, ExitsOK, NEW x \in Seq(Messages), wire' = wire \o x,
           kernelUp \/ (restartCall = "asked" /\ server = "up"),
           UNCHANGED <<state, restarts, restarting, server>>,
           \A i \in 1..Len(x) : x[i].kind = "exited" =>
               i = 2 /\ x[1].kind = "status" /\ x[1].status = "Exited" /\ (KernelOver' => Len(x) = 2),
           KernelOver' \/ (restartCall = "asked" /\ server = "up")
    PROVE  PairsOK' /\ ExitsOK'
  <1>1. wire \in Seq(Messages) BY DEF TypeOK
  <1>2. /\ Len(wire') = Len(wire) + Len(x) /\ Len(wire) \in Nat /\ Len(x) \in Nat
        /\ \A i \in 1..Len(wire) : wire'[i] = wire[i]
        /\ \A i \in (Len(wire) + 1)..Len(wire') :
               wire'[i] = x[i - Len(wire)] /\ i - Len(wire) \in 1..Len(x)
    BY <1>1, WireAppended
  <1>3. ASSUME NEW i \in 1..Len(wire'), i > Len(wire), Exit(i)'
        PROVE  /\ i = Len(wire) + 2 /\ wire'[i - 1].kind = "status" /\ wire'[i - 1].status = "Exited"
               /\ KernelOver' => Len(wire') = i
    <2>1. wire'[i] = x[i - Len(wire)] /\ i - Len(wire) \in 1..Len(x) BY <1>2, <1>3
    <2>2. x[i - Len(wire)].kind = "exited" BY <1>3, <2>1 DEF Exit
    <2>3. i - Len(wire) = 2 /\ (KernelOver' => Len(x) = 2) BY <2>1, <2>2
    <2>4. x[1].kind = "status" /\ x[1].status = "Exited" BY <2>1, <2>2
    <2>5. i = Len(wire) + 2 /\ i - 1 \in (Len(wire) + 1)..Len(wire') /\ (i - 1) - Len(wire) = 1
      BY <1>2, <2>3
    <2>6. wire'[i - 1] = x[1] BY <1>2, <2>5
    <2>7. KernelOver' => Len(wire') = i BY <1>2, <2>3, <2>5
    <2> QED BY <2>4, <2>5, <2>6, <2>7
  <1>4. ASSUME NEW i \in 1..Len(wire), Exit(i)' PROVE Exit(i) BY <1>2, <1>4 DEF Exit
  <1>5. PairsOK'
    <2> SUFFICES ASSUME NEW i \in 1..Len(wire'), Exit(i)'
                 PROVE  IF i = 1 THEN restarts = 0 => state = "Exited"
                        ELSE wire'[i - 1].kind = "status" /\ wire'[i - 1].status = "Exited"
      BY DEF PairsOK
    <2>1. CASE i > Len(wire) BY <1>2, <1>3, <2>1
    <2>2. CASE i <= Len(wire) /\ i = 1 BY <1>2, <1>4, <2>2 DEF PairsOK
    <2>3. CASE i <= Len(wire) /\ i # 1
      <3>1. i \in 1..Len(wire) /\ i - 1 \in 1..Len(wire) BY <1>2, <2>3
      <3>2. Exit(i) BY <1>4, <3>1
      <3> QED BY <1>2, <2>3, <3>1, <3>2 DEF PairsOK
    <2> QED BY <1>2, <2>1, <2>2, <2>3
  <1>6. ExitsOK'
    <2> SUFFICES ASSUME NEW i \in 1..Len(wire'), Exit(i)'
                 PROVE  \/ restarting /\ \A k \in 1..(i - 1) : ~Starts(k)'
                        \/ KernelOver' /\ \A j \in (i + 1)..Len(wire') : ~Alive(j)'
      BY DEF ExitsOK
    <2>1. CASE i <= Len(wire)
      <3>1. i \in 1..Len(wire) BY <1>2, <2>1
      <3>2. Exit(i) BY <1>4, <3>1
      <3>3. restarting /\ \A k \in 1..(i - 1) : ~Starts(k) BY <3>1, <3>2 DEF ExitsOK, KernelOver
      <3>4. ASSUME NEW k \in 1..(i - 1) PROVE ~Starts(k)'
        <4>1. k \in 1..Len(wire) BY <1>2, <3>1
        <4> QED BY <1>2, <3>3, <4>1 DEF Starts
      <3> QED BY <3>3, <3>4
    <2>2. CASE i > Len(wire) /\ KernelOver' BY <1>2, <1>3, <2>2
    <2>3. CASE i > Len(wire) /\ ~KernelOver'
      <3>1. restarting /\ \A k \in 1..Len(wire) : ~Starts(k) BY <2>3 DEF CallOK
      <3>2. /\ i = Len(wire) + 2 /\ wire'[i - 1].kind = "status" /\ wire'[i - 1].status = "Exited"
        BY <1>3, <2>3
      <3>3. ASSUME NEW k \in 1..(i - 1) PROVE ~Starts(k)'
        <4>1. CASE k = i - 1 BY <3>2, <4>1 DEF Starts
        <4>2. CASE k # i - 1
          <5>1. k \in 1..Len(wire) BY <1>2, <3>2, <4>2
          <5> QED BY <1>2, <3>1, <5>1 DEF Starts
        <4> QED BY <4>1, <4>2
      <3> QED BY <3>1, <3>3
    <2> QED BY <1>2, <2>1, <2>2, <2>3
  <1> QED BY <1>5, <1>6

\* The supervisor and the kernel.
LEMMA KernelAttached ==
    ASSUME TypeOK, AttachedOK,
           \/ KernelExits \/ KernelRestarts \/ KernelOffline \/ KernelOnline \/ ServerDies
           \/ \E r \in Requests : KernelReplies(r)
    PROVE  AttachedOK'
  <1> USE DEF AttachedOK
  <1>1. UNCHANGED <<state, connected, socket, restarting, restarts, testing, awaited>>
    BY DEF KernelExits, KernelRestarts, KernelOffline, KernelOnline, ServerDies, KernelReplies,
           connVars, callVars, handlerVars
  <1>2. wire \in Seq(Messages) BY DEF TypeOK
  <1>3. ASSUME UNCHANGED <<sock, server>> PROVE BarrierOK' /\ OwnOK' /\ CalmOK'
    BY <1>1, <1>3 DEF BarrierOK, OwnOK, CalmOK
  <1>4. CASE KernelExits
    <2>1. /\ kernelUp /\ wire' = wire \o ExitMessages
          /\ UNCHANGED <<sock, server, restartCall>>
      BY <1>4 DEF KernelExits, connVars, callVars
    <2>2. ~kernelUp'
      <3>1. kernelUp' = FALSE BY <1>4, Zenon DEF KernelExits
      <3> QED BY <3>1
    <2>3. server = "up" BY <2>1 DEF DeadOK, TypeOK
    <2>4. GivenUp' BY <1>1, <2>1 DEF GivenUp, KernelOver
    <2>5. ExitMessages \in Seq(Messages) /\ Len(ExitMessages) = 2 BY MessagesType DEF ExitMessages
    <2>6. \A i \in 1..Len(ExitMessages) :
              /\ ~(ExitMessages[i].kind = "status" /\ ExitMessages[i].status = "Starting")
              /\ ExitMessages[i].kind = "exited" =>
                     i = 2 /\ ExitMessages[1].kind = "status" /\ ExitMessages[1].status = "Exited"
      BY DEF ExitMessages
    <2>7. KernelOver' \/ (restartCall = "asked" /\ server = "up")
      <3>1. CASE restartCall = "asked" BY <2>3, <3>1
      <3>2. CASE restartCall # "asked" BY <2>1, <2>2, <3>2 DEF KernelOver
      <3> QED BY <3>1, <3>2
    <2>8. PairsOK' /\ ExitsOK'
      <3>1. \A i \in 1..Len(ExitMessages) : ExitMessages[i].kind = "exited" =>
                /\ i = 2 /\ ExitMessages[1].kind = "status" /\ ExitMessages[1].status = "Exited"
                /\ (KernelOver' => Len(ExitMessages) = 2)
        BY <2>5, <2>6
      <3>2. ExitMessages \in Seq(Messages) /\ wire' = wire \o ExitMessages /\ kernelUp
        BY <2>1, <2>5
      <3>3. UNCHANGED <<state, restarts, restarting, server>> BY <1>1, <2>1
      <3> HIDE DEF AttachedOK
      <3>4. CallOK /\ PairsOK /\ ExitsOK BY DEF AttachedOK
      <3> QED BY <2>7, <3>1, <3>2, <3>3, <3>4, EndsSpoken
    <2>9. CallOK'
      <3>1. ASSUME restarts = 0 \/ restartCall = "asked", NEW i \in 1..Len(wire') PROVE ~Starts(i)'
        <4>1. CASE i \in 1..Len(wire)
          <5>1. wire'[i] = wire[i] BY <1>2, <2>1, <2>5, <4>1, WireAppended
          <5> QED BY <3>1, <4>1, <5>1 DEF CallOK, Starts
        <4>2. CASE i \notin 1..Len(wire)
          <5>1. i \in (Len(wire) + 1)..Len(wire') BY <1>2, <4>2
          <5>2. wire'[i] = ExitMessages[i - Len(wire)] /\ i - Len(wire) \in 1..Len(ExitMessages)
            BY <1>2, <2>1, <2>5, <5>1, WireAppended
          <5> QED BY <2>6, <5>2 DEF Starts
        <4> QED BY <4>1, <4>2
      <3> QED BY <1>1, <2>1, <3>1 DEF CallOK
    <2>10. DeadOK' BY <2>1, <2>3 DEF DeadOK
    <2> QED BY <1>3, <2>1, <2>4, <2>8, <2>9, <2>10
  <1>5. CASE KernelRestarts
    <2> DEFINE x == (IF kernelUp THEN ExitMessages ELSE <<>>) \o StartMessages
    <2>1. /\ restartCall = "asked" /\ server = "up" /\ restartCall' = "served"
          /\ UNCHANGED <<sock, server>>
      BY <1>5 DEF KernelRestarts, connVars
    <2>2. wire' = wire \o (IF kernelUp THEN ExitMessages ELSE <<>>) \o StartMessages
      BY <1>5 DEF KernelRestarts
    <2>3. x \in Seq(Messages) /\ wire' = wire \o x
      <3> DEFINE e == IF kernelUp THEN ExitMessages ELSE <<>>
      <3>1. e \in Seq(Messages) /\ StartMessages \in Seq(Messages) BY MessagesType
      <3> HIDE DEF e
      <3>2. x = e \o StartMessages /\ wire' = (wire \o e) \o StartMessages BY <2>2 DEF e
      <3> HIDE DEF x
      <3>3. (wire \o e) \o StartMessages = wire \o (e \o StartMessages)
        BY <1>2, <3>1, ConcatAssociative
      <3> QED BY <3>1, <3>2, <3>3
    <2>4. \A i \in 1..Len(x) : x[i].kind = "exited" =>
              i = 2 /\ x[1].kind = "status" /\ x[1].status = "Exited"
      <3>1. CASE kernelUp BY <3>1 DEF ExitMessages, StartMessages
      <3>2. CASE ~kernelUp BY <3>2 DEF StartMessages
      <3> QED BY <3>1, <3>2
    <2>5. ~KernelOver'
      <3>1. kernelUp' = TRUE BY <1>5, Zenon DEF KernelRestarts
      <3> QED BY <3>1 DEF KernelOver
    <2> HIDE DEF x
    <2>6. PairsOK' /\ ExitsOK' BY <1>1, <2>1, <2>3, <2>4, <2>5, EndsSpoken
    <2>7. CallOK' BY <1>1, <2>1 DEF CallOK
    <2>8. GivenUp' BY <1>1, <2>1 DEF GivenUp, KernelOver
    <2>9. DeadOK' BY <2>1 DEF DeadOK
    <2> QED BY <1>3, <2>1, <2>6, <2>7, <2>8, <2>9
  <1>6. ASSUME kernelUp, NEW x \in Seq(Messages), wire' = wire \o x,
               \A i \in 1..Len(x) : x[i].kind # "exited"
                                    /\ ~(x[i].kind = "status" /\ x[i].status = "Starting"),
               UNCHANGED <<sock, server, kernelUp, restartCall>>
        PROVE  AttachedOK'
    BY <1>1, <1>3, <1>6, Spoken
  <1>7. CASE KernelOffline
    <2>1. PICK st \in {"Offline", "Unlisted"} : wire' = Append(wire, [kind |-> "status", status |-> st])
      BY <1>7 DEF KernelOffline
    <2>2. st \in Statuses BY DEF Statuses, States
    <2> DEFINE x == <<[kind |-> "status", status |-> st]>>
    <2>3. x \in Seq(Messages) /\ wire' = wire \o x
      <3>1. [kind |-> "status", status |-> st] \in Messages BY <2>2, MessagesType
      <3> QED BY <1>2, <2>1, <3>1, AppendIsConcat
    <2>4. \A i \in 1..Len(x) : x[i].kind # "exited"
                                /\ ~(x[i].kind = "status" /\ x[i].status = "Starting")
      OBVIOUS
    <2>5. kernelUp /\ UNCHANGED <<sock, server, kernelUp, restartCall>>
      BY <1>7 DEF KernelOffline, connVars, callVars
    <2> HIDE DEF x
    <2> QED BY <1>6, <2>3, <2>4, <2>5
  <1>8. CASE KernelOnline
    <2> DEFINE x == <<[kind |-> "status", status |-> "Idle"]>>
    <2>1. "Idle" \in Statuses BY DEF Statuses, States
    <2>2. x \in Seq(Messages) BY <2>1, MessagesType
    <2>3. wire = <<>> /\ wire' = x BY <1>8 DEF KernelOnline
    <2>4. wire' = wire \o x BY <2>2, <2>3
    <2>5. \A i \in 1..Len(x) : x[i].kind # "exited"
                                /\ ~(x[i].kind = "status" /\ x[i].status = "Starting")
      OBVIOUS
    <2>6. kernelUp /\ UNCHANGED <<sock, server, kernelUp, restartCall>>
      BY <1>8 DEF KernelOnline, connVars, callVars
    <2> HIDE DEF x
    <2> QED BY <1>6, <2>2, <2>4, <2>5, <2>6
  <1>9. ASSUME NEW r \in Requests, KernelReplies(r) PROVE AttachedOK'
    <2> DEFINE x == <<[kind |-> "reply", to |-> r], [kind |-> "status", status |-> "Idle"]>>
    <2>1. "Idle" \in Statuses BY DEF Statuses, States
    <2>2. x \in Seq(Messages) BY <2>1, MessagesType
    <2>3. wire' = wire \o x BY <1>9 DEF KernelReplies
    <2>4. \A i \in 1..Len(x) : x[i].kind # "exited"
                                /\ ~(x[i].kind = "status" /\ x[i].status = "Starting")
      OBVIOUS
    <2>5. kernelUp /\ UNCHANGED <<sock, server, kernelUp, restartCall>>
      BY <1>9 DEF KernelReplies, connVars, callVars
    <2> HIDE DEF x
    <2> QED BY <1>6, <2>2, <2>3, <2>4, <2>5
  <1>10. CASE ServerDies
    <2>1. /\ server' = "dead" /\ wire' = <<>> /\ restartCall' = restartCall
          /\ sock' = [t \in Sockets |-> IF sock[t] = "open" THEN "closing" ELSE sock[t]]
      BY <1>10 DEF ServerDies, callVars
    <2>2. ~kernelUp'
      <3>1. kernelUp' = FALSE BY <1>10, Zenon DEF ServerDies
      <3> QED BY <3>1
    <2>3. \A t \in Sockets : sock'[t] = IF sock[t] = "open" THEN "closing" ELSE sock[t] BY <2>1
    <2>4. BarrierOK' BY <1>1, <2>3 DEF BarrierOK, TypeOK
    <2>5. OwnOK' BY <1>1, <2>1, <2>3 DEF OwnOK, TypeOK
    <2>6. DeadOK' /\ CalmOK' BY <2>1, <2>2 DEF DeadOK, CalmOK
    <2>7. CallOK' /\ PairsOK' /\ ExitsOK' BY <1>1, <2>1 DEF CallOK, PairsOK, ExitsOK
    <2>8. GivenUp' BY <2>1, <2>2 DEF GivenUp, KernelOver
    <2> QED BY <2>4, <2>5, <2>6, <2>7, <2>8
  <1> QED BY <1>4, <1>5, <1>7, <1>8, <1>9, <1>10

\* A session starts attached.
LEMMA InitAttached == Init => Attached
  <1> SUFFICES ASSUME Init PROVE AttachedOK BY DEF Attached
  <1>1. 1 \in Sockets /\ NoSocket \notin Sockets BY SupervisorAssumption DEF Sockets, NoSocket
  <1>2. kernelUp = TRUE BY Zenon DEF Init
  <1> QED
    BY <1>1, <1>2 DEF Init, AttachedOK, BarrierOK, OwnOK, DeadOK, CalmOK, CallOK, PairsOK, ExitsOK,
                      GivenUp, NoSocket

\* Every step keeps the barrier and the websocket together.
LEMMA NextAttached == TypeOK /\ OneAttempt /\ Attached /\ [Next]_vars => Attached'
  <1> SUFFICES ASSUME TypeOK, OneAttempt, Attached, [Next]_vars, Plain' PROVE AttachedOK'
    BY DEF Attached
  <1>1. AttachedOK BY PlainBefore DEF Attached
  <1>2. CASE UNCHANGED <<state, socket, sock, connected, restarting, restartCall, restarts, testing,
                         awaited, server, kernelUp, wire>>
    BY <1>1, <1>2 DEF AttachedOK, BarrierOK, OwnOK, DeadOK, CalmOK, CallOK, PairsOK, ExitsOK,
                      GivenUp, Exit, Starts, Alive, KernelOver
  <1>3. ASSUME NEW r \in Requests, SendRequest(r) \/ Shutdown(r) PROVE AttachedOK'
    BY <1>2, <1>3 DEF SendRequest, Shutdown, Send, callVars, handlerVars
  <1>4. ASSUME ForceQuit \/ QuitFails \/ UNCHANGED vars PROVE AttachedOK'
    BY <1>2, <1>4 DEF ForceQuit, QuitFails, vars, connVars, callVars, handlerVars, remoteVars
  <1> QED
    BY <1>1, <1>3, <1>4, MessageAttached, SocketAttached, HandlersAttached, RestartAttached,
       KernelAttached DEF Next

-----------------------------------------------------------------------------
(* Theorems *)

\* The three invariants hold in every reachable state.
LEMMA Invariance == Spec => [](TypeOK /\ OneAttempt /\ Explained)
  <1>1. Init => Explained BY DEF Init, Explained, ReasonFits
  <1> QED BY <1>1, InitType, InitAttempt, NextType, NextAttempt, NextExplained, PTL DEF Spec

\* The variables of the session, its connection and the supervisor keep their
\* types.
THEOREM SupervisorTypeCorrect == Spec => []TypeOK
  BY Invariance, PTL

\* However websockets drop, fail and time out, and whichever handlers run, at
\* most one websocket is open or opens, so that no message is handled twice.
THEOREM AtMostOneSocket == Spec => []OneSocket
  <1>1. OneAttempt => OneSocket
    <2> DEFINE live == {s \in Sockets : sock[s] \in {"connecting", "open"}}
    <2> SUFFICES ASSUME OneAttempt PROVE Cardinality(live) <= 1 BY DEF OneSocket
    <2>1. CASE live = {} BY <2>1, FS_EmptySet
    <2>2. CASE live # {}
      <3>1. PICK s \in live : TRUE BY <2>2
      <3>2. live = {s} BY <3>1 DEF OneAttempt, InUse
      <3>3. Cardinality({s}) = 1 BY FS_Singleton, Zenon
      <3> HIDE DEF live
      <3> QED BY <3>2, <3>3
    <2> QED BY <2>1, <2>2
  <1> QED BY <1>1, Invariance, PTL

\* An exit is reported as a restart, a shutdown or a forced quit only if such a
\* call was made since the exit before.
THEOREM ReasonsAreAskedFor == Spec => []ReasonFits
  <1>1. Explained => ReasonFits BY DEF Explained
  <1> QED BY <1>1, Invariance, PTL

\* In a session that was restarted at most once, and not while it was offline,
\* an open barrier has a websocket that is or was open: sendRequest does not
\* find _socket undefined, however websockets drop and messages are late.
THEOREM BarrierHasSocket == Spec => []ConnectedHasSocket
  <1>1. Attached => ConnectedHasSocket
    BY DEF Attached, AttachedOK, BarrierOK, Plain, ConnectedHasSocket
  <1>2. Spec => []Attached
    BY Invariance, InitAttached, NextAttached, PTL DEF Spec
  <1> QED BY <1>1, <1>2, PTL
=============================================================================
