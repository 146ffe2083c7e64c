----------------------- MODULE RuntimeSessionsProofs -----------------------
(***************************************************************************)
(* Type correctness and safety of the session service, for any languages,  *)
(* notebooks, runtimes and number of calls: the maps of running and        *)
(* disconnected sessions, the marks of hosts that start, the shutdowns of  *)
(* notebook sessions and the promises of starts.                           *)
(***************************************************************************)
EXTENDS RuntimeSessions, TLAPS

CallRecord == [pc : Pcs, host : Hosts \cup {None}, runtime : Runtimes \cup {None},
               session : Sessions \cup {None}, promise : Promises \cup {None},
               owner : Calls \cup {None}, activate : BOOLEAN, listening : BOOLEAN]

\* The awaits after which a call uses its host and runtime as map keys.
KeyedPcs == CreatingPcs \cup {"deferred", "selectStart", "selectNotebook",
                              "selectShutdown", "selectResume"}

\* A call that will look something up has what it takes to do so.
Keyed(c) == c.host \in Hosts /\ c.runtime \in Runtimes
WellFormed(c) ==
    /\ c.pc \in KeyedPcs => Keyed(c)
    /\ c.pc = "notebookStart" => c.promise \in Promises

SessionRecord == [host : Hosts \cup {None}, runtime : Runtimes \cup {None},
                  activate : BOOLEAN, relaunch : BOOLEAN]

ShutdownRecord == [called : {"none", "calling", "yes", "lost"},
                   outcome : {"none", "ended", "timedOut"}]

\* The inductive invariant, grouped by the variables an action changes together.
CallsOK == call \in [Calls -> CallRecord] /\ \A t \in Calls : WellFormed(call[t])
StartsOK ==
    /\ starting \in [Hosts -> Runtimes \cup {None}]
    /\ startingSessions \in [Keys -> Promises \cup {None}]
    /\ promise \in [Promises -> {"none", "pending", "fulfilled", "rejected"}]
SessionsOK ==
    /\ running \in [Hosts -> Sessions \cup {None}]
    /\ foreground \in Sessions \cup {None}
    /\ session \in [Sessions -> SessionRecord]
    /\ \A s \in Sessions : Active(s) => Keyed(session[s])
ShutdownsOK ==
    /\ shuttingDown \in [Sessions -> ShutdownRecord]
    /\ nbShutdown \in [Notebooks -> Calls \cup {None}]
LossesOK ==
    /\ disconnected \subseteq Sessions /\ disconnecting \subseteq Sessions
    /\ \A s \in disconnected \cup disconnecting : Active(s)
    /\ extHost \in BOOLEAN
KernelsOK == state \in [Sessions -> RuntimeStates] /\ kernel \in [Sessions -> KernelStates]
WorldOK == registered \subseteq Runtimes /\ trusted \in BOOLEAN

Inv == CallsOK /\ StartsOK /\ SessionsOK /\ ShutdownsOK /\ LossesOK /\ KernelsOK /\ WorldOK

-----------------------------------------------------------------------------
\* A group of variables that an action leaves alone keeps its part of Inv.
LEMMA Frames ==
  ASSUME Inv
  PROVE  /\ UNCHANGED call => CallsOK'
         /\ UNCHANGED serviceMaps => StartsOK'
         /\ UNCHANGED sessionMaps => SessionsOK'
         /\ UNCHANGED shutdowns => ShutdownsOK'
         /\ UNCHANGED <<losses, session>> => LossesOK'
         /\ UNCHANGED kernels => KernelsOK'
         /\ UNCHANGED world => WorldOK'
<1>1. UNCHANGED call => CallsOK'
  BY DEF Inv, CallsOK, WellFormed, Keyed
<1>2. UNCHANGED serviceMaps => StartsOK'
  BY DEF Inv, serviceMaps, StartsOK
<1>3. UNCHANGED sessionMaps => SessionsOK'
  BY DEF Inv, sessionMaps, SessionsOK, Active, Keyed
<1>4. UNCHANGED shutdowns => ShutdownsOK'
  BY DEF Inv, shutdowns, ShutdownsOK
<1>5. UNCHANGED <<losses, session>> => LossesOK'
  BY DEF Inv, losses, LossesOK, Active
<1>6. UNCHANGED kernels => KernelsOK'
  BY DEF Inv, kernels, KernelsOK
<1>7. UNCHANGED world => WorldOK'
  BY DEF Inv, world, WorldOK
<1> QED
  BY <1>1, <1>2, <1>3, <1>4, <1>5, <1>6, <1>7

\* Suspending a call at an await it is well formed for.
LEMMA SuspendOK ==
  ASSUME Inv, NEW t \in Calls, NEW c \in CallRecord, NEW where \in Pcs,
         where \in KeyedPcs => Keyed(c),
         where = "notebookStart" => c.promise \in Promises,
         Suspend(t, c, where)
  PROVE  CallsOK'
<1> DEFINE d == [c EXCEPT !.pc = where]
<1>1. d \in CallRecord /\ WellFormed(d)
  BY DEF CallRecord, WellFormed, Keyed
<1>2. call' = [call EXCEPT ![t] = d]
  BY DEF Suspend
<1> HIDE DEF d
<1>3. call' \in [Calls -> CallRecord]
  BY <1>1, <1>2 DEF Inv, CallsOK
<1>4. \A u \in Calls : WellFormed(call'[u])
  BY <1>1, <1>2 DEF Inv, CallsOK
<1>5. \A u \in Calls : WellFormed(call[u])'
  BY <1>4 DEF WellFormed, Keyed
<1> QED
  BY <1>3, <1>5 DEF CallsOK

\* A call that leaves without touching anything else.
LEMMA LeaveOK ==
  ASSUME Inv, NEW t \in Calls, NEW c \in CallRecord, NEW how \in Pcs,
         how \in KeyedPcs => Keyed(c),
         how = "notebookStart" => c.promise \in Promises,
         Leave(t, c, how)
  PROVE  Inv'
<1>1. CallsOK'
  BY SuspendOK DEF Leave
<1>2. /\ UNCHANGED serviceMaps /\ UNCHANGED sessionMaps /\ UNCHANGED shutdowns
      /\ UNCHANGED <<losses, session>> /\ UNCHANGED kernels /\ UNCHANGED world
  BY DEF Leave, sessionMaps
<1> QED
  BY <1>1, <1>2, Frames DEF Inv

\* setStartingSessionMaps and a new or shared promise.
LEMMA BeginOK ==
  ASSUME Inv, NEW h, NEW r \in Runtimes, NEW p \in Promises, BeginStart(h, r, p)
  PROVE  StartsOK'
  BY DEF Inv, StartsOK, BeginStart

\* Settling a promise and clearing the starting maps.
LEMMA ClearOK ==
  ASSUME Inv, NEW h, NEW r, NEW p, NEW outcome \in {"fulfilled", "rejected"},
         ClearStarting(h, r), Settle(p, outcome)
  PROVE  StartsOK'
  BY DEF Inv, StartsOK, ClearStarting, Settle

-----------------------------------------------------------------------------
(* The parts of the calls that start a session.                            *)

\* A request for a session that is already starting.
LEMMA CoalesceOK ==
  ASSUME Inv, NEW t \in Calls, NEW c \in CallRecord, Keyed(c), Coalesce(t, c)
  PROVE  Inv'
<1> DEFINE old == startingSessions[<<c.host, c.runtime>>]
           d == [c EXCEPT !.promise = old]
<1>1. old \in Promises \cup {None}
  BY DEF Inv, StartsOK, Keys, Keyed
<1>2. d \in CallRecord
  BY <1>1 DEF CallRecord
<1>3. Leave(t, d, "awaitPromise")
  BY DEF Coalesce
<1> HIDE DEF d
<1> QED
  BY <1>2, <1>3, LeaveOK DEF Pcs, WaitingPcs, KeyedPcs, CreatingPcs

\* doCreateRuntimeSession up to its first await.  The caller says what becomes
\* of the registry.
LEMMA DoCreateOK ==
  ASSUME Inv, NEW t \in Calls, NEW c \in CallRecord, Keyed(c), DoCreate(t, c), WorldOK'
  PROVE  Inv'
<1> DEFINE old == startingSessions[<<c.host, c.runtime>>]
           p == IF Pending(old) THEN old ELSE <<t, "create">>
           d == [c EXCEPT !.promise = p]
<1>1. old \in Promises \cup {None}
  BY DEF Inv, StartsOK, Keys, Keyed
<1>2. p \in Promises
  BY <1>1 DEF Pending, Promises
<1>3. d \in CallRecord /\ Keyed(d)
  BY <1>2 DEF CallRecord, Keyed
<1>4. /\ BeginStart(c.host, c.runtime, p) /\ Suspend(t, d, "creating")
      /\ UNCHANGED sessionMaps /\ UNCHANGED shutdowns
      /\ UNCHANGED <<losses, session>> /\ UNCHANGED kernels
  BY DEF DoCreate, sessionMaps
<1> HIDE DEF p, d
<1>5. StartsOK'
  BY <1>2, <1>4, BeginOK DEF Keyed
<1>6. CallsOK'
  BY <1>3, <1>4, SuspendOK DEF Pcs, CreatingPcs
<1> QED
  BY <1>4, <1>5, <1>6, Frames DEF Inv

\* doAutoStartRuntime up to its first await.
LEMMA DoAutoStartOK ==
  ASSUME Inv, NEW t \in Calls, NEW c \in CallRecord, Keyed(c), DoAutoStart(t, c)
  PROVE  Inv'
<1>1. CASE Coalesce(t, c)
  BY <1>1, CoalesceOK
<1>2. CASE Leave(t, c, "threw") \/ Leave(t, c, "returned")
  BY <1>2, LeaveOK DEF Pcs, FinalPcs, KeyedPcs, CreatingPcs
<1>3. CASE /\ BeginStart(c.host, c.runtime, <<t, "auto">>)
           /\ Suspend(t, [c EXCEPT !.promise = <<t, "auto">>], "autoManager")
           /\ UNCHANGED <<sessionMaps, shutdowns, losses, kernels, world>>
  <2> DEFINE p == <<t, "auto">>
             d == [c EXCEPT !.promise = p]
  <2>1. p \in Promises
    BY DEF Promises
  <2>2. d \in CallRecord /\ Keyed(d)
    BY <2>1 DEF CallRecord, Keyed
  <2>3. /\ UNCHANGED sessionMaps /\ UNCHANGED shutdowns
        /\ UNCHANGED <<losses, session>> /\ UNCHANGED kernels /\ UNCHANGED world
    BY <1>3 DEF sessionMaps
  <2>4. BeginStart(c.host, c.runtime, p) /\ Suspend(t, d, "autoManager")
    BY <1>3
  <2> HIDE DEF p, d
  <2>5. StartsOK'
    BY <2>1, <2>4, BeginOK DEF Keyed
  <2>6. CallsOK'
    BY <2>2, <2>4, SuspendOK DEF Pcs, CreatingPcs
  <2> QED
    BY <2>3, <2>5, <2>6, Frames DEF Inv
<1> QED
  BY <1>1, <1>2, <1>3 DEF DoAutoStart

\* autoStartRuntime.
LEMMA AutoStartRuntimeOK ==
  ASSUME Inv, NEW t \in Calls, NEW c \in CallRecord, Keyed(c), AutoStartRuntime(t, c)
  PROVE  Inv'
<1>1. CASE Leave(t, c, "returned") \/ Leave(t, c, "deferred")
  BY <1>1, LeaveOK DEF Pcs, FinalPcs, WaitingPcs
<1>2. CASE DoAutoStart(t, c)
  BY <1>2, DoAutoStartOK
<1> QED
  BY <1>1, <1>2 DEF AutoStartRuntime

\* startNewRuntimeSession up to its first await.
LEMMA StartNewOK ==
  ASSUME Inv, NEW t \in Calls, NEW c \in CallRecord, Keyed(c), StartNew(t, c)
  PROVE  Inv'
<1>1. CASE Coalesce(t, c)
  BY <1>1, CoalesceOK
<1>2. CASE Leave(t, c, "threw") \/ Leave(t, c, "returned")
  BY <1>2, LeaveOK DEF Pcs, FinalPcs
<1>3. CASE DoCreate(t, c) /\ UNCHANGED world
  BY <1>3, DoCreateOK, Frames
<1>4. CASE AutoStartRuntime(t, c)
  BY <1>4, AutoStartRuntimeOK
<1> QED
  BY <1>1, <1>2, <1>3, <1>4 DEF StartNew

-----------------------------------------------------------------------------
(* Shutdowns.                                                              *)

\* shutdownRuntimeSession for any session.
LEMMA RequestShutdownOK ==
  ASSUME Inv, NEW s, RequestShutdown(s)
  PROVE  shuttingDown' \in [Sessions -> ShutdownRecord] /\ state' \in [Sessions -> RuntimeStates]
<1>1. [called |-> "calling", outcome |-> "none"] \in ShutdownRecord
  BY DEF ShutdownRecord
<1>2. "Exiting" \in RuntimeStates
  BY DEF RuntimeStates
<1> QED
  BY <1>1, <1>2 DEF Inv, ShutdownsOK, KernelsOK, RequestShutdown

\* The rest of shutdownNotebookSession.
LEMMA NotebookShutdownOK ==
  ASSUME Inv, NEW t \in Calls, NEW c \in CallRecord, NotebookShutdown(t, c)
  PROVE  Inv'
<1>1. /\ UNCHANGED serviceMaps /\ UNCHANGED sessionMaps
      /\ UNCHANGED <<losses, session>> /\ UNCHANGED world /\ UNCHANGED kernel
  BY DEF NotebookShutdown, sessionMaps
<1>2. CallsOK'
  <2>1. Suspend(t, c, "threw") \/ Suspend(t, c, "notebookShutdown")
    BY DEF NotebookShutdown
  <2> QED
    BY <2>1, SuspendOK DEF Pcs, FinalPcs, WaitingPcs, KeyedPcs, CreatingPcs
<1>3. ShutdownsOK' /\ KernelsOK'
  <2>1. nbShutdown' \in [Notebooks -> Calls \cup {None}]
    BY DEF NotebookShutdown, Inv, ShutdownsOK
  <2>2. /\ shuttingDown' \in [Sessions -> ShutdownRecord]
        /\ state' \in [Sessions -> RuntimeStates]
    <3>1. CASE ShutdownRefused(c.session)
      BY <3>1 DEF NotebookShutdown, Inv, ShutdownsOK, KernelsOK
    <3>2. CASE ~ShutdownRefused(c.session)
      BY <3>2, RequestShutdownOK DEF NotebookShutdown
    <3> QED
      BY <3>1, <3>2
  <2> QED
    BY <1>1, <2>1, <2>2 DEF ShutdownsOK, KernelsOK, Inv
<1> QED
  BY <1>1, <1>2, <1>3, Frames DEF Inv

\* The calls and notebooks that waited for shutdowns which settle.
LEMMA SettleShutdownsOK ==
  ASSUME Inv, NEW S, NEW ok \in BOOLEAN, SettleShutdowns(S, ok)
  PROVE  CallsOK' /\ nbShutdown' \in [Notebooks -> Calls \cup {None}]
<1>1. nbShutdown' \in [Notebooks -> Calls \cup {None}]
  BY DEF SettleShutdowns, NotebooksAfterShutdown, Inv, ShutdownsOK
<1>2. call' = CallsAfterShutdown(S, ok)
  BY DEF SettleShutdowns
<1>3. ASSUME NEW t \in Calls
      PROVE  call'[t] \in CallRecord /\ WellFormed(call'[t])
  <2>1. call[t] \in CallRecord /\ WellFormed(call[t])
    BY DEF Inv, CallsOK
  <2>2. \/ call'[t] = call[t]
        \/ \E where \in {"selectResume", "returned", "threw"} :
             /\ call'[t] = [call[t] EXCEPT !.pc = where]
             /\ call[t].pc = "selectShutdown" \/ where \in {"returned", "threw"}
    BY <1>2 DEF CallsAfterShutdown
  <2> QED
    BY <2>1, <2>2 DEF CallRecord, WellFormed, Keyed, KeyedPcs, CreatingPcs, Pcs,
                      WaitingPcs, FinalPcs
<1>4. call' \in [Calls -> CallRecord]
  BY <1>2, <1>3 DEF CallsAfterShutdown
<1>5. \A t \in Calls : WellFormed(call[t])'
  BY <1>3 DEF WellFormed, Keyed
<1> QED
  BY <1>1, <1>4, <1>5 DEF CallsOK

\* What the end of some sessions does to their shutdowns.
LEMMA EndShutdownsOK ==
  ASSUME Inv, NEW S, NEW unanswered \in {"calling", "lost"}, EndShutdowns(S, unanswered)
  PROVE  CallsOK' /\ ShutdownsOK'
<1> DEFINE waiting == [called |-> "yes", outcome |-> "none"]
<1>1. SettleShutdowns({s \in S : shuttingDown[s] = waiting}, TRUE)
  BY DEF EndShutdowns
<1>2. CallsOK' /\ nbShutdown' \in [Notebooks -> Calls \cup {None}]
  BY <1>1, SettleShutdownsOK
<1>3. shuttingDown' \in [Sessions -> ShutdownRecord]
  BY DEF EndShutdowns, Inv, ShutdownsOK, ShutdownRecord, NoShutdown
<1> QED
  BY <1>2, <1>3 DEF ShutdownsOK

\* session.shutdown() answers.
LEMMA ShutdownRepliesOK ==
  ASSUME Inv, NEW s \in Sessions, NEW ok \in BOOLEAN, ShutdownReplies(s, ok)
  PROVE  Inv'
<1>1. /\ UNCHANGED serviceMaps /\ UNCHANGED sessionMaps /\ UNCHANGED <<losses, session>>
      /\ UNCHANGED kernels /\ UNCHANGED world
  BY DEF ShutdownReplies, sessionMaps
<1>2. CASE UNCHANGED <<call, nbShutdown>>
           /\ shuttingDown' = [shuttingDown EXCEPT ![s].called = "yes"]
  <2>1. ShutdownsOK'
    BY <1>2 DEF Inv, ShutdownsOK, ShutdownRecord
  <2> QED
    BY <1>1, <1>2, <2>1, Frames DEF Inv
<1>3. CASE /\ shuttingDown' = [shuttingDown EXCEPT ![s] = NoShutdown]
           /\ SettleShutdowns({s}, ok /\ shuttingDown[s].outcome = "ended")
  <2>1. CallsOK' /\ nbShutdown' \in [Notebooks -> Calls \cup {None}]
    BY <1>3, SettleShutdownsOK
  <2>2. ShutdownsOK'
    BY <1>3, <2>1 DEF Inv, ShutdownsOK, ShutdownRecord, NoShutdown
  <2> QED
    BY <1>1, <2>1, <2>2, Frames DEF Inv
<1> QED
  BY <1>2, <1>3 DEF ShutdownReplies

\* The five second timer of doShutdownRuntimeSession.
LEMMA ShutdownTimeoutOK ==
  ASSUME Inv, NEW s \in Sessions, ShutdownTimeout(s)
  PROVE  Inv'
<1>1. /\ UNCHANGED serviceMaps /\ UNCHANGED sessionMaps /\ UNCHANGED <<losses, session>>
      /\ UNCHANGED kernels /\ UNCHANGED world
  BY DEF ShutdownTimeout, sessionMaps
<1>2. CASE UNCHANGED <<call, nbShutdown>>
           /\ shuttingDown' = [shuttingDown EXCEPT ![s].outcome = "timedOut"]
  <2>1. ShutdownsOK'
    BY <1>2 DEF Inv, ShutdownsOK, ShutdownRecord
  <2> QED
    BY <1>1, <1>2, <2>1, Frames DEF Inv
<1>3. CASE /\ shuttingDown' = [shuttingDown EXCEPT ![s] = NoShutdown]
           /\ SettleShutdowns({s}, FALSE)
  <2>1. CallsOK' /\ nbShutdown' \in [Notebooks -> Calls \cup {None}]
    BY <1>3, SettleShutdownsOK
  <2>2. ShutdownsOK'
    BY <1>3, <2>1 DEF Inv, ShutdownsOK, ShutdownRecord, NoShutdown
  <2> QED
    BY <1>1, <2>1, <2>2, Frames DEF Inv
<1> QED
  BY <1>2, <1>3 DEF ShutdownTimeout

-----------------------------------------------------------------------------
(* The calls, up to their first await.                                     *)

\* The record of a new call for a host and a runtime.
LEMMA NewCallOK ==
  ASSUME NEW h \in Hosts, NEW r \in Runtimes, NEW a \in BOOLEAN
  PROVE  LET c == [NewCall EXCEPT !.host = h, !.runtime = r, !.activate = a]
         IN  c \in CallRecord /\ Keyed(c)
  BY DEF NewCall, CallRecord, Keyed, Pcs

\* The language of a runtime is a host.
LEMMA LanguageIsHost ==
  ASSUME NEW r \in Runtimes
  PROVE  LanguageOf[r] \in Hosts
  BY HostAssumption DEF Hosts

\* startNewRuntimeSession, autoStartRuntime and onDidRequestRichLanguageFeatures.
LEMMA StartRequestsOK ==
  ASSUME Inv, NEW t \in Calls, NEW h \in Hosts, NEW r \in Runtimes, NEW activate \in BOOLEAN,
         \/ StartNewRuntimeSession(t, h, r)
         \/ AutoStartRequest(t, r, activate)
         \/ EncounterLanguage(t, r)
  PROVE  Inv'
<1>1. CASE StartNewRuntimeSession(t, h, r)
  BY <1>1, NewCallOK, StartNewOK DEF StartNewRuntimeSession
<1>2. CASE AutoStartRequest(t, r, activate)
  BY <1>2, LanguageIsHost, NewCallOK, AutoStartRuntimeOK DEF AutoStartRequest
<1>3. CASE EncounterLanguage(t, r)
  BY <1>3, LanguageIsHost, NewCallOK, AutoStartRuntimeOK DEF EncounterLanguage
<1> QED
  BY <1>1, <1>2, <1>3

\* selectRuntime from the lookup of the host's session on.
LEMMA SelectActiveOK ==
  ASSUME Inv, NEW t \in Calls, NEW c \in CallRecord, Keyed(c), SelectActive(t, c)
  PROVE  Inv'
<1> DEFINE s == running[c.host]
<1>0. s \in Sessions \cup {None}
  BY DEF Inv, SessionsOK, Keyed
<1>1. CASE StartNew(t, c)
  BY <1>1, StartNewOK
<1>2. CASE /\ Suspend(t, c, "returned")
           /\ foreground' = IF IsConsole(c.host) THEN s ELSE foreground
           /\ UNCHANGED <<serviceMaps, running, session, shutdowns, losses, kernels, world>>
  <2>1. CallsOK'
    BY <1>2, SuspendOK DEF Pcs, FinalPcs
  <2>2. SessionsOK'
    BY <1>0, <1>2 DEF Inv, SessionsOK, Active, Keyed
  <2> QED
    BY <1>2, <2>1, <2>2, Frames DEF Inv
<1>3. CASE Leave(t, c, "threw")
  BY <1>3, LeaveOK DEF Pcs, FinalPcs
<1>4. CASE /\ Suspend(t, [c EXCEPT !.session = s], "selectShutdown")
           /\ RequestShutdown(s)
           /\ UNCHANGED <<serviceMaps, sessionMaps, nbShutdown, losses, kernel, world>>
  <2> DEFINE d == [c EXCEPT !.session = s]
  <2>1. d \in CallRecord /\ Keyed(d)
    BY <1>0 DEF CallRecord, Keyed
  <2>2. Suspend(t, d, "selectShutdown")
    BY <1>4
  <2> HIDE DEF d
  <2>3. CallsOK'
    BY <2>1, <2>2, SuspendOK DEF Pcs, WaitingPcs
  <2>4. ShutdownsOK' /\ KernelsOK'
    BY <1>4, RequestShutdownOK DEF Inv, ShutdownsOK, KernelsOK
  <2>5. UNCHANGED <<losses, session>>
    BY <1>4 DEF sessionMaps
  <2> QED
    BY <1>4, <2>3, <2>4, <2>5, Frames DEF Inv
<1> QED
  BY <1>1, <1>2, <1>3, <1>4 DEF SelectActive

\* selectRuntime from the check for a notebook shutdown in progress on.
LEMMA SelectNotebookOK ==
  ASSUME Inv, NEW t \in Calls, NEW c \in CallRecord, Keyed(c), SelectNotebook(t, c)
  PROVE  Inv'
<1>1. CASE SelectActive(t, c)
  BY <1>1, SelectActiveOK
<1>2. CASE ~IsConsole(c.host) /\ ~SelectActive(t, c)
  <2> DEFINE d == [c EXCEPT !.owner = nbShutdown[c.host]]
  <2>1. nbShutdown[c.host] \in Calls \cup {None}
    BY <1>2 DEF Inv, ShutdownsOK, Keyed, Hosts, IsConsole
  <2>2. d \in CallRecord /\ Keyed(d)
    BY <2>1 DEF CallRecord, Keyed
  <2>3. Leave(t, d, "selectNotebook")
    BY <1>2 DEF SelectNotebook
  <2> HIDE DEF d
  <2> QED
    BY <2>2, <2>3, LeaveOK DEF Pcs, WaitingPcs
<1> QED
  BY <1>1, <1>2 DEF SelectNotebook

\* selectRuntime.
LEMMA SelectRuntimeOK ==
  ASSUME Inv, NEW t \in Calls, NEW h \in Hosts, NEW r \in Runtimes, SelectRuntime(t, h, r)
  PROVE  Inv'
<1> DEFINE c == [NewCall EXCEPT !.host = h, !.runtime = r, !.activate = TRUE]
           p == startingSessions[<<h, r>>]
           d == [c EXCEPT !.promise = p]
<1>1. c \in CallRecord /\ Keyed(c)
  BY NewCallOK
<1>2. p \in Promises \cup {None}
  BY DEF Inv, StartsOK, Keys
<1>3. Leave(t, c, "threw") \/ Leave(t, d, "selectStart") \/ SelectNotebook(t, c)
  BY DEF SelectRuntime
<1> HIDE DEF c
<1>4. d \in CallRecord /\ Keyed(d)
  BY <1>1, <1>2 DEF CallRecord, Keyed
<1> HIDE DEF d
<1> QED
  BY <1>1, <1>3, <1>4, LeaveOK, SelectNotebookOK DEF Pcs, WaitingPcs, FinalPcs

\* Sessions that stay attached keep their hosts, and so do disconnected ones.
LEMMA RelaunchOK ==
  ASSUME Inv, NEW S, NEW b \in BOOLEAN,
         \A s \in Sessions : s \in S => Active(s) \/ b = FALSE,
         session' = [s \in Sessions |->
                       IF s \in S THEN [session[s] EXCEPT !.relaunch = b] ELSE session[s]]
  PROVE  /\ session' \in [Sessions -> SessionRecord]
         /\ \A s \in Sessions : Active(s)' => Keyed(session[s]')
         /\ \A s \in Sessions : Active(s) => Active(s)'
<1>1. session' \in [Sessions -> SessionRecord]
  BY DEF Inv, SessionsOK, SessionRecord
<1>2. ASSUME NEW s \in Sessions, Active(s)
      PROVE  Active(s)' /\ Keyed(session[s]')
  <2>1. Keyed(session[s]) /\ session[s] \in SessionRecord
    BY <1>2 DEF Inv, SessionsOK
  <2>2. /\ session'[s].host = session[s].host
        /\ session'[s].runtime = session[s].runtime
    BY <2>1 DEF SessionRecord
  <2>3. session'[s].host # None
    BY <2>1, <2>2, NoneAssumption DEF Keyed
  <2> QED
    BY <2>1, <2>2, <2>3 DEF Active, NoSession, Keyed
<1>3. ASSUME NEW s \in Sessions, ~Active(s)
      PROVE  ~Active(s)'
  <2>1. session[s] = NoSession
    BY <1>3 DEF Active
  <2>2. s \in S => b = FALSE
    BY <1>3
  <2>3. session'[s] = IF s \in S THEN [session[s] EXCEPT !.relaunch = b] ELSE session[s]
    OBVIOUS
  <2>4. session'[s] = NoSession \/ session'[s] = [NoSession EXCEPT !.relaunch = FALSE]
    BY <2>1, <2>2, <2>3, Zenon
  <2>5. [NoSession EXCEPT !.relaunch = FALSE] = NoSession
    <3>1. \A x, a, d : LET e == [host |-> x, runtime |-> x, activate |-> a, relaunch |-> d]
                       IN  [e EXCEPT !.relaunch = d] = e
      OBVIOUS
    <3> QED
      BY <3>1, Zenon DEF NoSession
  <2> QED
    BY <2>4, <2>5 DEF Active, NoSession
<1> QED
  BY <1>1, <1>2, <1>3

\* The parts of Inv about sessions, when their records change and nothing else.
LEMMA AttachedOK ==
  ASSUME Inv,
         session' \in [Sessions -> SessionRecord],
         \A s \in Sessions : Active(s)' => Keyed(session[s]'),
         \A s \in Sessions : Active(s) => Active(s)',
         UNCHANGED <<running, foreground, losses>>
  PROVE  SessionsOK' /\ LossesOK'
<1>1. SessionsOK'
  BY DEF Inv, SessionsOK, Keyed
<1>2. LossesOK'
  BY DEF Inv, LossesOK, losses
<1> QED
  BY <1>1, <1>2

\* doRestartRuntime up to its first await.
LEMMA DoRestartOK ==
  ASSUME Inv, NEW t \in Calls, NEW c \in CallRecord, Keyed(c),
         c.session \in Sessions, Active(c.session), DoRestart(t, c)
  PROVE  Inv'
<1>1. CASE Coalesce(t, c)
  BY <1>1, CoalesceOK
<1>2. CASE ~Coalesce(t, c)
  <2> DEFINE p == <<t, "create">>
             d == [c EXCEPT !.promise = p, !.listening = TRUE]
  <2>1. p \in Promises
    BY DEF Promises
  <2>2. d \in CallRecord
    BY <2>1 DEF CallRecord
  <2>3. /\ BeginStart(c.host, c.runtime, p) /\ Suspend(t, d, "restarting")
        /\ state' = [state EXCEPT ![c.session] = "Restarting"]
        /\ session' = [session EXCEPT ![c.session].relaunch = TRUE]
        /\ UNCHANGED <<running, foreground, shutdowns, losses, kernel, world>>
    BY <1>2 DEF DoRestart
  <2> HIDE DEF p, d
  <2>4. StartsOK' /\ CallsOK'
    BY <2>1, <2>2, <2>3, BeginOK, SuspendOK DEF Keyed, Pcs, WaitingPcs, KeyedPcs, CreatingPcs
  <2>5. session' = [s \in Sessions |-> IF s \in {c.session}
                                       THEN [session[s] EXCEPT !.relaunch = TRUE]
                                       ELSE session[s]]
    BY <2>3 DEF Inv, SessionsOK
  <2>6. /\ session' \in [Sessions -> SessionRecord]
        /\ \A s \in Sessions : Active(s)' => Keyed(session[s]')
        /\ \A s \in Sessions : Active(s) => Active(s)'
    BY <2>5, RelaunchOK
  <2>7. SessionsOK' /\ LossesOK'
    BY <2>3, <2>6, AttachedOK
  <2>8. KernelsOK'
    BY <2>3 DEF Inv, KernelsOK, RuntimeStates
  <2> QED
    BY <2>3, <2>4, <2>7, <2>8, Frames DEF Inv
<1> QED
  BY <1>1, <1>2

\* restartSession.
LEMMA RestartSessionOK ==
  ASSUME Inv, NEW t \in Calls, NEW s \in Sessions, RestartSession(t, s)
  PROVE  Inv'
<1> DEFINE c == [NewCall EXCEPT !.host = session[s].host, !.runtime = session[s].runtime,
                                !.activate = TRUE]
           d == [c EXCEPT !.session = s]
<1>1. Active(s)
  BY DEF RestartSession
<1>2. session[s].host \in Hosts /\ session[s].runtime \in Runtimes
  BY <1>1 DEF Inv, SessionsOK, Keyed
<1>3. c \in CallRecord /\ Keyed(c)
  BY <1>2, NewCallOK
<1>4. \/ DoRestart(t, d) \/ StartNew(t, c)
      \/ Leave(t, c, "returned") \/ Leave(t, c, "threw")
  BY DEF RestartSession
<1> HIDE DEF c
<1>5. d \in CallRecord /\ Keyed(d) /\ d.session = s
  BY <1>3 DEF CallRecord, Keyed
<1> HIDE DEF d
<1> QED
  BY <1>1, <1>3, <1>4, <1>5, DoRestartOK, StartNewOK, LeaveOK DEF Pcs, FinalPcs

\* shutdownNotebookSession up to its first await.
LEMMA ShutdownNotebookSessionOK ==
  ASSUME Inv, NEW t \in Calls, NEW n \in Notebooks, ShutdownNotebookSession(t, n)
  PROVE  Inv'
<1> DEFINE c == [NewCall EXCEPT !.host = n]
           s == running[n]
           p == IF starting[n] = None THEN None ELSE startingSessions[<<n, starting[n]>>]
           byOwner   == [c EXCEPT !.owner = nbShutdown[n]]
           bySession == [c EXCEPT !.session = s]
           byPromise == [c EXCEPT !.promise = p]
<1>1. /\ s \in Sessions \cup {None} /\ p \in Promises \cup {None}
      /\ nbShutdown[n] \in Calls \cup {None}
  BY DEF Inv, SessionsOK, StartsOK, ShutdownsOK, Keys, Hosts
<1>2. c \in CallRecord
  BY DEF NewCall, CallRecord, Pcs, Hosts
<1>3. \/ Leave(t, byOwner, "awaitNotebook")
      \/ NotebookShutdown(t, bySession)
      \/ Leave(t, c, "returned")
      \/ /\ p # None
         /\ Suspend(t, byPromise, "notebookStart")
         /\ nbShutdown' = [nbShutdown EXCEPT ![n] = t]
         /\ UNCHANGED <<serviceMaps, sessionMaps, shuttingDown, losses, kernels, world>>
  BY DEF ShutdownNotebookSession
<1> HIDE DEF c, s, p
<1>4. /\ byOwner \in CallRecord /\ bySession \in CallRecord /\ byPromise \in CallRecord
      /\ byPromise.promise = p
  BY <1>1, <1>2 DEF CallRecord
<1> HIDE DEF byOwner, bySession, byPromise
<1>5. CASE Leave(t, byOwner, "awaitNotebook") \/ Leave(t, c, "returned")
  BY <1>2, <1>4, <1>5, LeaveOK DEF Pcs, WaitingPcs, FinalPcs, KeyedPcs, CreatingPcs
<1>6. CASE NotebookShutdown(t, bySession)
  BY <1>4, <1>6, NotebookShutdownOK
<1>7. CASE /\ p # None
           /\ Suspend(t, byPromise, "notebookStart")
           /\ nbShutdown' = [nbShutdown EXCEPT ![n] = t]
           /\ UNCHANGED <<serviceMaps, sessionMaps, shuttingDown, losses, kernels, world>>
  <2>1. CallsOK'
    BY <1>1, <1>4, <1>7, SuspendOK DEF Pcs, WaitingPcs, KeyedPcs, CreatingPcs
  <2>2. ShutdownsOK'
    BY <1>7 DEF Inv, ShutdownsOK
  <2>3. UNCHANGED <<losses, session>>
    BY <1>7 DEF sessionMaps
  <2> QED
    BY <1>7, <2>1, <2>2, <2>3, Frames DEF Inv
<1> QED
  BY <1>3, <1>5, <1>6, <1>7

\* onDidChangeExtensionsStatus and restoreRuntimeSession.
LEMMA RestoreOK ==
  ASSUME Inv, NEW t \in Calls, NEW s \in Sessions, RestoreRuntimeSession(t, s)
  PROVE  Inv'
<1> DEFINE h == session[s].host
           r == session[s].runtime
           old == startingSessions[<<h, r>>]
           p == <<t, "create">>
           c == [NewCall EXCEPT !.host = h, !.runtime = r, !.session = s]
           shared == [c EXCEPT !.promise = old]
           own == [c EXCEPT !.promise = p]
<1>1. h \in Hosts /\ r \in Runtimes
  BY DEF RestoreRuntimeSession, Inv, LossesOK, SessionsOK, Keyed
<1>2. old \in Promises \cup {None} /\ p \in Promises
  BY <1>1 DEF Inv, StartsOK, Keys, Promises
<1>3. c \in CallRecord /\ Keyed(c)
  BY <1>1 DEF NewCall, CallRecord, Keyed, Pcs
<1>4. /\ UNCHANGED sessionMaps /\ UNCHANGED shutdowns /\ UNCHANGED kernels
      /\ UNCHANGED <<session, disconnecting, extHost>> /\ UNCHANGED trusted
      /\ disconnected' = disconnected \ {s}
      /\ registered' = registered \/ registered' = registered \cup {r}
  BY DEF RestoreRuntimeSession, sessionMaps
<1>5. \/ Suspend(t, shared, "awaitPromise") /\ UNCHANGED serviceMaps
      \/ Suspend(t, c, "threw") /\ UNCHANGED serviceMaps
      \/ Suspend(t, c, "returned") /\ UNCHANGED serviceMaps
      \/ BeginStart(h, r, p) /\ Suspend(t, own, "restoring")
  BY DEF RestoreRuntimeSession
<1>6. WorldOK'
  BY <1>1, <1>4 DEF Inv, WorldOK
<1>7. LossesOK'
  BY <1>4 DEF Inv, LossesOK, Active
<1> HIDE DEF c, old, p
<1>8. shared \in CallRecord /\ own \in CallRecord /\ Keyed(own)
  BY <1>2, <1>3 DEF CallRecord, Keyed
<1> HIDE DEF shared, own
<1>9. CallsOK'
  BY <1>3, <1>5, <1>8, SuspendOK DEF Pcs, WaitingPcs, FinalPcs, CreatingPcs, KeyedPcs
<1>10. StartsOK'
  BY <1>1, <1>2, <1>5, BeginOK, Frames
<1> QED
  BY <1>4, <1>6, <1>7, <1>9, <1>10, Frames DEF Inv

-----------------------------------------------------------------------------
(* Continuations.                                                          *)

\* A call's own record.
LEMMA OwnRecord ==
  ASSUME Inv, NEW t \in Calls
  PROVE  call[t] \in CallRecord /\ WellFormed(call[t])
  BY DEF Inv, CallsOK

\* The microtasks of selectRuntime and of deferred automatic starts.
LEMMA SelectResumeOK ==
  ASSUME Inv, NEW t \in Calls,
         \/ SelectAfterStart(t) \/ SelectAfterNotebook(t)
         \/ SelectAfterShutdown(t) \/ StartAfterTrust(t)
  PROVE  Inv'
<1> DEFINE c == call[t]
           d == [c EXCEPT !.session = None]
<1>1. c \in CallRecord /\ WellFormed(c)
  BY OwnRecord
<1>2. Keyed(c)
  <2>1. c.pc \in {"selectStart", "selectNotebook", "selectResume", "deferred"}
    BY DEF SelectAfterStart, SelectAfterNotebook, SelectAfterShutdown, StartAfterTrust
  <2> QED
    BY <1>1, <2>1 DEF WellFormed, KeyedPcs
<1>3. \/ Leave(t, c, "threw") \/ SelectNotebook(t, c) \/ SelectActive(t, c)
      \/ StartNew(t, d) \/ DoAutoStart(t, c)
  BY DEF SelectAfterStart, SelectAfterNotebook, SelectAfterShutdown, StartAfterTrust
<1> HIDE DEF c
<1>4. d \in CallRecord /\ Keyed(d)
  BY <1>1, <1>2 DEF CallRecord, Keyed
<1> HIDE DEF d
<1> QED
  BY <1>1, <1>2, <1>3, <1>4, LeaveOK, SelectNotebookOK, SelectActiveOK, StartNewOK,
     DoAutoStartOK DEF Pcs, FinalPcs

\* The continuations of shutdownNotebookSession, by a microtask or its timer.
LEMMA NotebookResumeOK ==
  ASSUME Inv, NEW t \in Calls,
         NotebookAfterStart(t) \/ NotebookAfterReady(t) \/ NotebookReadyTimeout(t)
  PROVE  Inv'
<1> DEFINE c == call[t]
           s == call[c.promise[1]].session
           d == [c EXCEPT !.session = s]
<1>1. c \in CallRecord /\ WellFormed(c)
  BY OwnRecord
<1>2. CASE NotebookAfterStart(t)
  <2>1. c.promise \in Promises
    BY <1>1, <1>2 DEF NotebookAfterStart, WellFormed
  <2>2. c.promise[1] \in Calls
    BY <2>1 DEF Promises
  <2>3. s \in Sessions \cup {None}
    BY <2>2, OwnRecord DEF CallRecord
  <2>4. \/ /\ Suspend(t, c, "returned")
           /\ nbShutdown' = [nbShutdown EXCEPT ![c.host] = None]
           /\ UNCHANGED <<serviceMaps, sessionMaps, shuttingDown, losses, kernels, world>>
        \/ Leave(t, d, "notebookReady")
        \/ NotebookShutdown(t, d)
    BY <1>2 DEF NotebookAfterStart
  <2> HIDE DEF c, s
  <2>5. d \in CallRecord
    BY <1>1, <2>3 DEF CallRecord
  <2> HIDE DEF d
  <2>6. CASE /\ Suspend(t, c, "returned")
             /\ nbShutdown' = [nbShutdown EXCEPT ![c.host] = None]
             /\ UNCHANGED <<serviceMaps, sessionMaps, shuttingDown, losses, kernels, world>>
    <3>1. CallsOK'
      BY <1>1, <2>6, SuspendOK DEF Pcs, FinalPcs, KeyedPcs, CreatingPcs
    <3>2. ShutdownsOK'
      BY <2>6 DEF Inv, ShutdownsOK
    <3>3. UNCHANGED <<losses, session>>
      BY <2>6 DEF sessionMaps
    <3> QED
      BY <2>6, <3>1, <3>2, <3>3, Frames DEF Inv
  <2>7. CASE Leave(t, d, "notebookReady")
    BY <2>5, <2>7, LeaveOK DEF Pcs, WaitingPcs, KeyedPcs, CreatingPcs
  <2> QED
    BY <2>4, <2>5, <2>6, <2>7, NotebookShutdownOK
<1>3. CASE NotebookShutdown(t, c)
  BY <1>1, <1>3, NotebookShutdownOK
<1> QED
  BY <1>2, <1>3 DEF NotebookAfterReady, NotebookReadyTimeout

-----------------------------------------------------------------------------
(* Answers and timers.                                                     *)

\* A start that fails, wherever it was.
LEMMA FailStartOK ==
  ASSUME Inv, NEW t \in Calls, FailStart(t)
  PROVE  Inv'
<1>1. /\ Settle(call[t].promise, "rejected") /\ ClearStarting(call[t].host, call[t].runtime)
      /\ Suspend(t, call[t], "threw")
      /\ UNCHANGED <<sessionMaps, shutdowns, losses, kernels, world>>
  BY DEF FailStart
<1>2. StartsOK'
  BY <1>1, ClearOK
<1>3. CallsOK'
  BY <1>1, OwnRecord, SuspendOK DEF Pcs, FinalPcs, KeyedPcs, CreatingPcs
<1>4. UNCHANGED <<losses, session>>
  BY <1>1 DEF sessionMaps
<1> QED
  BY <1>1, <1>2, <1>3, <1>4, Frames DEF Inv

\* doAutoStartRuntime after getManagerForRuntime and validateMetadata.
LEMMA AutoAnswersOK ==
  ASSUME Inv, NEW t \in Calls, NEW r \in Runtimes,
         AutoManagerFound(t) \/ MetadataValidated(t, r) \/ MetadataInvalid(t)
  PROVE  Inv'
<1> DEFINE c == call[t]
           d == [c EXCEPT !.runtime = r]
<1>1. c \in CallRecord /\ Keyed(c)
  <2>1. c.pc \in {"autoManager", "validating"}
    BY DEF AutoManagerFound, MetadataValidated, MetadataInvalid
  <2> QED
    BY <2>1, OwnRecord DEF WellFormed, KeyedPcs, CreatingPcs
<1>2. d \in CallRecord /\ Keyed(d)
  BY <1>1 DEF CallRecord, Keyed
<1> HIDE DEF c, d
<1>3. CASE AutoManagerFound(t)
  <2>1. (DoCreate(t, c) /\ UNCHANGED world) \/ Leave(t, c, "validating")
    BY <1>3 DEF AutoManagerFound, c
  <2> QED
    BY <1>1, <2>1, DoCreateOK, LeaveOK, Frames DEF Pcs, CreatingPcs
<1>4. CASE MetadataValidated(t, r)
  <2>1. DoCreate(t, d) /\ registered' = registered \cup {r} /\ UNCHANGED trusted
    BY <1>4 DEF MetadataValidated, c, d
  <2>2. WorldOK'
    BY <2>1 DEF Inv, WorldOK
  <2> QED
    BY <1>2, <2>1, <2>2, DoCreateOK
<1>5. CASE MetadataInvalid(t)
  <2>1. /\ starting' = [starting EXCEPT ![c.host] = None]
        /\ Suspend(t, c, "threw")
        /\ UNCHANGED <<startingSessions, promise, sessionMaps, shutdowns, losses,
                       kernels, world>>
    BY <1>5 DEF MetadataInvalid, c
  <2>2. CallsOK'
    BY <1>1, <2>1, SuspendOK DEF Pcs, FinalPcs
  <2>3. StartsOK'
    BY <2>1 DEF Inv, StartsOK
  <2>4. UNCHANGED <<losses, session>>
    BY <2>1 DEF sessionMaps
  <2> QED
    BY <2>1, <2>2, <2>3, <2>4, Frames DEF Inv
<1> QED
  BY <1>3, <1>4, <1>5

\* attachToSession for a created or a restored session.
LEMMA AttachOK ==
  ASSUME Inv, NEW t \in Calls, call[t].pc \in CreatingPcs, NEW s \in Sessions \cup {None},
         Attach(t, s)
  PROVE  Inv'
<1> DEFINE c == call[t]
           m == [host |-> c.host, runtime |-> c.runtime,
                 activate |-> c.activate, relaunch |-> FALSE]
<1>1. c \in CallRecord /\ Keyed(c)
  BY OwnRecord DEF WellFormed, KeyedPcs
<1>2. m \in SessionRecord /\ Keyed(m)
  BY <1>1 DEF CallRecord, SessionRecord, Keyed
<1>3. m # NoSession
  BY <1>1, NoneAssumption DEF NoSession, Keyed
<1>4. session' = [session EXCEPT ![s] = m]
  BY DEF Attach
<1>5. SessionsOK' /\ LossesOK'
  <2> HIDE DEF m
  <2>1. session' \in [Sessions -> SessionRecord]
    BY <1>2, <1>4 DEF Inv, SessionsOK
  <2>2. ASSUME NEW u \in Sessions
        PROVE  /\ Active(u)' => Keyed(session[u]')
               /\ Active(u) => Active(u)'
    <3>1. CASE u = s
      <4>1. session'[u] = m
        BY <1>4, <3>1 DEF Inv, SessionsOK
      <4> QED
        BY <1>2, <1>3, <4>1 DEF Active, NoSession
    <3>2. CASE u # s
      <4>1. session'[u] = session[u]
        BY <1>4, <3>2 DEF Inv, SessionsOK
      <4> QED
        BY <4>1 DEF Inv, SessionsOK, Active, NoSession, Keyed
    <3> QED
      BY <3>1, <3>2
  <2>3. UNCHANGED <<running, foreground, losses>>
    BY DEF Attach
  <2> QED
    BY <2>1, <2>2, <2>3, AttachedOK
<1>6. KernelsOK'
  BY DEF Attach, Inv, KernelsOK, RuntimeStates, KernelStates
<1>7. CallsOK'
  <2>1. call' = [u \in Calls |->
                   CASE u = t -> [call[t] EXCEPT !.session = s, !.pc = "starting"]
                     [] u # t /\ call[u].session = s ->
                          [call[u] EXCEPT !.listening = FALSE,
                                          !.pc = IF @ = "notebookReady"
                                                 THEN "notebookOrphan" ELSE @]
                     [] OTHER -> call[u]]
    BY DEF Attach
  <2>2. ASSUME NEW u \in Calls
        PROVE  call'[u] \in CallRecord /\ WellFormed(call'[u])
    <3>1. call[u] \in CallRecord /\ WellFormed(call[u])
      BY OwnRecord
    <3>2. CASE u = t
      <4>1. call'[u] = [call[t] EXCEPT !.session = s, !.pc = "starting"]
        BY <2>1, <3>2
      <4> QED
        BY <1>1, <4>1 DEF CallRecord, WellFormed, Keyed, Pcs, CreatingPcs
    <3>3. CASE u # t /\ call[u].session = s
      <4> DEFINE pc == IF call[u].pc = "notebookReady" THEN "notebookOrphan" ELSE call[u].pc
      <4>1. call'[u] = [call[u] EXCEPT !.listening = FALSE, !.pc = pc]
        BY <2>1, <3>1, <3>3 DEF CallRecord
      <4>2. /\ pc \in Pcs /\ (pc \in KeyedPcs => call[u].pc \in KeyedPcs)
            /\ (pc = "notebookStart" => call[u].pc = "notebookStart")
        BY <3>1 DEF CallRecord, Pcs, WaitingPcs, KeyedPcs, CreatingPcs
      <4> HIDE DEF pc
      <4> QED
        BY <3>1, <4>1, <4>2 DEF CallRecord, WellFormed, Keyed
    <3>4. CASE u # t /\ call[u].session # s
      <4>1. call'[u] = call[u]
        BY <2>1, <3>4
      <4> QED
        BY <3>1, <4>1
    <3> QED
      BY <3>2, <3>3, <3>4
  <2>3. call' \in [Calls -> CallRecord]
    BY <2>1, <2>2
  <2>4. \A u \in Calls : WellFormed(call[u])'
    BY <2>2 DEF WellFormed, Keyed
  <2> QED
    BY <2>3, <2>4 DEF CallsOK
<1>8. UNCHANGED serviceMaps /\ UNCHANGED shutdowns /\ UNCHANGED world
  BY DEF Attach
<1> QED
  BY <1>5, <1>6, <1>7, <1>8, Frames DEF Inv

\* session.start() resolves.
LEMMA StartSucceedsOK ==
  ASSUME Inv, NEW t \in Calls, StartSucceeds(t)
  PROVE  Inv'
<1> DEFINE c == call[t]
<1>1. c \in CallRecord
  BY OwnRecord
<1>2. /\ ClearStarting(c.host, c.runtime) /\ Settle(c.promise, "fulfilled")
      /\ Suspend(t, c, "returned")
      /\ running' = [running EXCEPT ![c.host] = c.session]
      /\ foreground' = IF IsConsole(c.host) THEN c.session ELSE foreground
      /\ UNCHANGED <<session, shutdowns, losses, kernels, world>>
  BY DEF StartSucceeds
<1> HIDE DEF c
<1>3. StartsOK' /\ CallsOK'
  BY <1>1, <1>2, ClearOK, SuspendOK DEF Pcs, FinalPcs, KeyedPcs, CreatingPcs
<1>4. c.session \in Sessions \cup {None}
  BY <1>1 DEF CallRecord
<1>5. SessionsOK'
  BY <1>2, <1>4 DEF Inv, SessionsOK, Active, NoSession, Keyed
<1> QED
  BY <1>2, <1>3, <1>5, Frames DEF Inv

\* session.restart() resolves or rejects, or its timer fires.
LEMMA RestartAnswersOK ==
  ASSUME Inv, NEW t \in Calls, RestartSucceeds(t) \/ RestartFails(t) \/ RestartTimeout(t)
  PROVE  Inv'
<1> DEFINE c == call[t]
<1>1. c \in CallRecord /\ WellFormed(c)
  BY OwnRecord
<1>2. CASE RestartSucceeds(t)
  BY <1>1, <1>2, LeaveOK DEF RestartSucceeds, Pcs, WaitingPcs, KeyedPcs, CreatingPcs
<1>3. CASE RestartFails(t)
  <2>1. /\ ClearStarting(c.host, c.runtime) /\ Settle(c.promise, "rejected")
        /\ Suspend(t, c, "awaitPromise")
        /\ session' = [session EXCEPT ![c.session].relaunch = FALSE]
        /\ UNCHANGED <<running, foreground, shutdowns, losses, kernels, world>>
    BY <1>3 DEF RestartFails
  <2> HIDE DEF c
  <2>2. StartsOK' /\ CallsOK'
    BY <1>1, <2>1, ClearOK, SuspendOK DEF Pcs, WaitingPcs, KeyedPcs, CreatingPcs
  <2>3. session' = [s \in Sessions |-> IF s \in {c.session}
                                       THEN [session[s] EXCEPT !.relaunch = FALSE]
                                       ELSE session[s]]
    BY <2>1 DEF Inv, SessionsOK
  <2>4. /\ session' \in [Sessions -> SessionRecord]
        /\ \A s \in Sessions : Active(s)' => Keyed(session[s]')
        /\ \A s \in Sessions : Active(s) => Active(s)'
    BY <2>3, RelaunchOK
  <2>5. SessionsOK' /\ LossesOK'
    BY <2>1, <2>4, AttachedOK
  <2> QED
    BY <2>1, <2>2, <2>5, Frames DEF Inv
<1>4. CASE RestartTimeout(t)
  <2>1. /\ Settle(c.promise, "rejected")
        /\ call' = [call EXCEPT ![t].listening = FALSE]
        /\ UNCHANGED <<starting, startingSessions, sessionMaps, shutdowns, losses,
                       kernels, world>>
    BY <1>4 DEF RestartTimeout
  <2>2. StartsOK'
    BY <2>1 DEF Inv, StartsOK, Settle
  <2> DEFINE d == [c EXCEPT !.listening = FALSE]
  <2>3. d \in CallRecord /\ d.pc = c.pc
    BY <1>1 DEF CallRecord
  <2>4. Suspend(t, d, c.pc)
    BY <1>1, <2>1 DEF Suspend, CallRecord, Inv, CallsOK
  <2>5. (c.pc \in KeyedPcs => Keyed(d)) /\ (c.pc = "notebookStart" => d.promise \in Promises)
    BY <1>1 DEF CallRecord, WellFormed, Keyed
  <2>6. c.pc \in Pcs
    BY <1>1 DEF CallRecord
  <2> HIDE DEF c, d
  <2>7. CallsOK'
    BY <2>3, <2>4, <2>5, <2>6, SuspendOK
  <2>8. UNCHANGED <<losses, session>>
    BY <2>1 DEF sessionMaps
  <2> QED
    BY <2>1, <2>2, <2>7, <2>8, Frames DEF Inv
<1> QED
  BY <1>2, <1>3, <1>4

-----------------------------------------------------------------------------
(* Events of a session.                                                    *)

\* The kernel is launched.
LEMMA KernelLaunchedOK ==
  ASSUME Inv, NEW s \in Sessions, KernelLaunched(s)
  PROVE  Inv'
<1>1. /\ session' = [session EXCEPT ![s].relaunch = FALSE]
      /\ state' = [state EXCEPT ![s] = "Starting"] /\ kernel' = [kernel EXCEPT ![s] = "up"]
      /\ UNCHANGED <<call, serviceMaps, running, foreground, shutdowns, losses, world>>
  BY DEF KernelLaunched, Event
<1>2. session' = [u \in Sessions |-> IF u \in {s}
                                     THEN [session[u] EXCEPT !.relaunch = FALSE]
                                     ELSE session[u]]
  BY <1>1 DEF Inv, SessionsOK
<1>3. /\ session' \in [Sessions -> SessionRecord]
      /\ \A u \in Sessions : Active(u)' => Keyed(session[u]')
      /\ \A u \in Sessions : Active(u) => Active(u)'
  BY <1>2, RelaunchOK
<1>4. SessionsOK' /\ LossesOK'
  BY <1>1, <1>3, AttachedOK
<1>5. KernelsOK'
  BY <1>1 DEF Inv, KernelsOK, RuntimeStates, KernelStates
<1> QED
  BY <1>1, <1>4, <1>5, Frames DEF Inv

\* The Ready handler and its listeners.
LEMMA KernelReadyOK ==
  ASSUME Inv, NEW s \in Sessions, KernelReady(s)
  PROVE  Inv'
<1> DEFINE h == session[s].host
           L == {t \in Calls : call[t].listening /\ call[t].session = s}
<1>1. /\ foreground' = IF IsConsole(h) /\ session[s].activate THEN s ELSE foreground
      /\ running' = IF running[h] = None THEN [running EXCEPT ![h] = s] ELSE running
      /\ UNCHANGED <<session, shutdowns, losses, world>>
      /\ UNCHANGED kernel /\ state' = [state EXCEPT ![s] = "Ready"]
  BY DEF KernelReady, HandleReady, Event
<1>2. SessionsOK'
  BY <1>1 DEF Inv, SessionsOK, Active, NoSession, Keyed
<1>3. KernelsOK'
  BY <1>1 DEF Inv, KernelsOK, RuntimeStates
<1>4. StartsOK'
  <2>1. promise' \in [Promises -> {"none", "pending", "fulfilled", "rejected"}]
    BY DEF KernelReady, HandleReady, Inv, StartsOK
  <2>2. UNCHANGED <<starting, startingSessions>> \/ ClearStarting(h, session[s].runtime)
    BY DEF KernelReady, HandleReady
  <2> HIDE DEF h
  <2> QED
    BY <2>1, <2>2 DEF Inv, StartsOK, ClearStarting
<1>5. CallsOK'
  <2>1. call' = [t \in Calls |->
                   CASE t \in L -> [call[t] EXCEPT !.listening = FALSE]
                     [] t \notin L /\ call[t].pc = "notebookReady" /\ call[t].session = s ->
                          [call[t] EXCEPT !.pc = "notebookResume"]
                     [] OTHER -> call[t]]
    BY DEF KernelReady, HandleReady
  <2> HIDE DEF L
  <2>2. ASSUME NEW t \in Calls
        PROVE  call'[t] \in CallRecord /\ WellFormed(call'[t])
    <3>1. call[t] \in CallRecord /\ WellFormed(call[t])
      BY OwnRecord
    <3>2. \/ call'[t] = [call[t] EXCEPT !.listening = FALSE]
          \/ call'[t] = [call[t] EXCEPT !.pc = "notebookResume"]
          \/ call'[t] = call[t]
      BY <2>1
    <3>3. CASE call'[t] = [call[t] EXCEPT !.listening = FALSE]
      BY <3>1, <3>3 DEF CallRecord, WellFormed, Keyed
    <3>4. CASE call'[t] = [call[t] EXCEPT !.pc = "notebookResume"]
      BY <3>1, <3>4 DEF CallRecord, WellFormed, Pcs, WaitingPcs, KeyedPcs, CreatingPcs
    <3> QED
      BY <3>1, <3>2, <3>3, <3>4
  <2>3. call' \in [Calls -> CallRecord]
    BY <2>1, <2>2
  <2>4. \A t \in Calls : WellFormed(call[t])'
    BY <2>2 DEF WellFormed, Keyed
  <2> QED
    BY <2>3, <2>4 DEF CallsOK
<1> QED
  BY <1>1, <1>2, <1>3, <1>4, <1>5, Frames DEF Inv

\* The other changes of a kernel.
LEMMA KernelChangesOK ==
  ASSUME Inv, NEW s \in Sessions, KernelActive(s) \/ KernelOffline(s) \/ KernelExits(s)
  PROVE  Inv'
<1>1. UNCHANGED <<call, serviceMaps, sessionMaps, shutdowns, losses, world>>
  BY DEF KernelActive, KernelOffline, KernelExits
<1>2. UNCHANGED <<losses, session>>
  BY <1>1 DEF sessionMaps
<1>3. \/ UNCHANGED kernel /\ \E to \in {"Ready", "Offline"} : state' = [state EXCEPT ![s] = to]
      \/ UNCHANGED state /\ kernel' = [kernel EXCEPT ![s] = "exiting"]
  BY DEF KernelActive, KernelOffline, KernelExits, Event
<1>4. KernelsOK'
  BY <1>3 DEF Inv, KernelsOK, RuntimeStates, KernelStates
<1> QED
  BY <1>1, <1>2, <1>4, Frames DEF Inv

\* updateSessionMapsAfterExit keeps the type of the running maps.
LEMMA MapsAfterExitOK ==
  ASSUME Inv, NEW S, running' = MapsAfterExit(S), UNCHANGED <<foreground, session>>
  PROVE  SessionsOK'
  BY DEF Inv, SessionsOK, MapsAfterExit, Active, NoSession, Keyed

\* The handlers of RuntimeState.Exited and of onDidEndSession.
LEMMA ExitEventOK ==
  ASSUME Inv, NEW s \in Sessions, ExitEvent(s)
  PROVE  Inv'
<1>1. CASE SessionExited(s)
  <2>1. /\ running' = MapsAfterExit({s})
        /\ UNCHANGED <<call, serviceMaps, foreground, session, shutdowns, losses, world>>
    BY <1>1 DEF SessionExited
  <2>2. KernelsOK'
    BY <1>1 DEF SessionExited, Event, Inv, KernelsOK, RuntimeStates, KernelStates
  <2> QED
    BY <2>1, <2>2, MapsAfterExitOK, Frames DEF Inv
<1>2. CASE SessionEnded(s)
  <2>1. /\ running' = MapsAfterExit({s})
        /\ UNCHANGED <<serviceMaps, foreground, session, losses, state, world>>
        /\ EndShutdowns({s}, IF AnswersAfterExit THEN "calling" ELSE "lost")
    BY <1>2 DEF SessionEnded
  <2>2. KernelsOK'
    BY <1>2 DEF SessionEnded, Inv, KernelsOK, KernelStates
  <2>3. CallsOK' /\ ShutdownsOK'
    BY <2>1, EndShutdownsOK
  <2> QED
    BY <2>1, <2>2, <2>3, MapsAfterExitOK, Frames DEF Inv
<1> QED
  BY <1>1, <1>2 DEF ExitEvent

-----------------------------------------------------------------------------
(* The extension host, workspace trust and the registry.                   *)

\* MainThreadLanguageRuntime.dispose.
LEMMA LoseExtHostOK ==
  ASSUME Inv, LoseExtHost
  PROVE  Inv'
<1> DEFINE S == {s \in Sessions : Active(s) /\ state[s] # "Exited"}
<1>1. /\ extHost' = FALSE
      /\ state' = [s \in Sessions |-> IF s \in S THEN "Exited" ELSE state[s]]
      /\ kernel' = [s \in Sessions |-> IF Active(s) THEN "gone" ELSE kernel[s]]
      /\ session' = [s \in Sessions |-> [session[s] EXCEPT !.relaunch = FALSE]]
      /\ running' = MapsAfterExit(S)
      /\ EndShutdowns(S, "calling")
      /\ disconnecting' = disconnecting \cup S
      /\ UNCHANGED <<serviceMaps, foreground, disconnected, world>>
  BY DEF LoseExtHost
<1>2. session' = [s \in Sessions |-> IF s \in Sessions
                                     THEN [session[s] EXCEPT !.relaunch = FALSE]
                                     ELSE session[s]]
  BY <1>1
<1>3. /\ session' \in [Sessions -> SessionRecord]
      /\ \A s \in Sessions : Active(s)' => Keyed(session[s]')
      /\ \A s \in Sessions : Active(s) => Active(s)'
  BY <1>2, RelaunchOK
<1>4. running' \in [Hosts -> Sessions \cup {None}]
  BY <1>1 DEF MapsAfterExit, Inv, SessionsOK
<1>5. SessionsOK'
  BY <1>1, <1>3, <1>4 DEF Inv, SessionsOK, Keyed
<1>6. LossesOK'
  BY <1>1, <1>3 DEF Inv, LossesOK
<1>7. KernelsOK'
  BY <1>1 DEF Inv, KernelsOK, RuntimeStates, KernelStates
<1>8. CallsOK' /\ ShutdownsOK'
  BY <1>1, EndShutdownsOK
<1> QED
  BY <1>1, <1>5, <1>6, <1>7, <1>8, Frames DEF Inv

\* The bookkeeping of lost sessions, and the world around the service.
LEMMA EnvironmentOK ==
  ASSUME Inv,
         \/ \E s \in Sessions : RememberDisconnected(s)
         \/ ExtHostReturns \/ StorageMoved \/ GrantTrust
         \/ \E r \in Runtimes : RegisterRuntime(r)
  PROVE  Inv'
<1>1. UNCHANGED <<call, serviceMaps, sessionMaps, shutdowns, kernels>>
  BY DEF RememberDisconnected, ExtHostReturns, StorageMoved, GrantTrust, RegisterRuntime, losses
<1>2. UNCHANGED session
  BY <1>1 DEF sessionMaps
<1>3. LossesOK'
  BY <1>2 DEF RememberDisconnected, ExtHostReturns, StorageMoved, GrantTrust, RegisterRuntime,
              losses, Inv, LossesOK, Active, NoSession
<1>4. WorldOK'
  BY DEF RememberDisconnected, ExtHostReturns, StorageMoved, GrantTrust, RegisterRuntime,
         world, Inv, WorldOK
<1> QED
  BY <1>1, <1>3, <1>4, Frames DEF Inv

-----------------------------------------------------------------------------
\* The initial state satisfies the inductive invariant.
LEMMA InitInv == Init => Inv
<1> SUFFICES ASSUME Init PROVE Inv
  OBVIOUS
<1>1. CallsOK
  BY DEF Init, CallsOK, NewCall, CallRecord, WellFormed, Pcs, KeyedPcs, CreatingPcs
<1>2. StartsOK
  BY DEF Init, StartsOK
<1>3. SessionsOK
  <2>1. NoSession \in SessionRecord
    BY DEF NoSession, SessionRecord
  <2>2. \A s \in Sessions : session[s] = NoSession
    BY DEF Init
  <2> QED
    BY <2>1, <2>2 DEF Init, SessionsOK, Active
<1>4. ShutdownsOK
  BY DEF Init, ShutdownsOK, NoShutdown, ShutdownRecord
<1>5. LossesOK
  BY DEF Init, LossesOK
<1>6. KernelsOK
  BY DEF Init, KernelsOK, RuntimeStates, KernelStates
<1>7. WorldOK
  BY EnvironmentAssumption DEF Init, WorldOK
<1> QED
  BY <1>1, <1>2, <1>3, <1>4, <1>5, <1>6, <1>7 DEF Inv

\* Every step preserves the inductive invariant.
LEMMA NextInv == Inv /\ [Next]_vars => Inv'
<1> SUFFICES ASSUME Inv, [Next]_vars PROVE Inv'
  OBVIOUS
<1>1. ASSUME NEW t \in Calls, Ask(t) PROVE Inv'
  BY <1>1, StartRequestsOK, SelectRuntimeOK, RestartSessionOK, ShutdownNotebookSessionOK,
     RestoreOK, LanguageIsHost DEF Ask
<1>2. ASSUME NEW t \in Calls, Resume(t) PROVE Inv'
  BY <1>2, SelectResumeOK, NotebookResumeOK DEF Resume
<1>3. ASSUME NEW t \in Calls, Answer(t) PROVE Inv'
  <2>1. CASE AutoManagerFound(t) \/ MetadataInvalid(t)
             \/ \E r \in Runtimes : MetadataValidated(t, r)
    <3>1. Runtimes # {}
      <4>1. call[t].pc \in KeyedPcs
        BY <2>1 DEF AutoManagerFound, MetadataInvalid, MetadataValidated, KeyedPcs, CreatingPcs
      <4> QED
        BY <4>1, OwnRecord DEF WellFormed, Keyed
    <3> QED
      BY <2>1, <3>1, AutoAnswersOK
  <2>2. CASE ManagerFails(t) \/ StartFails(t)
    BY <2>2, FailStartOK DEF ManagerFails, StartFails
  <2>3. CASE SessionCreated(t)
    BY <2>3, AttachOK DEF SessionCreated, CreatingPcs, Sessions
  <2>4. CASE SessionRestored(t)
    BY <2>4, OwnRecord, AttachOK DEF SessionRestored, CreatingPcs, CallRecord
  <2>5. CASE StartSucceeds(t)
    BY <2>5, StartSucceedsOK
  <2>6. CASE RestartSucceeds(t) \/ RestartFails(t)
    BY <2>6, RestartAnswersOK
  <2> QED
    BY <1>3, <2>1, <2>2, <2>3, <2>4, <2>5, <2>6 DEF Answer
<1>4. ASSUME NEW t \in Calls, Timer(t) PROVE Inv'
  BY <1>4, RestartAnswersOK, NotebookResumeOK DEF Timer
<1>5. ASSUME NEW s \in Sessions, ShutdownAnswer(s) \/ ShutdownTimeout(s) PROVE Inv'
  BY <1>5, ShutdownRepliesOK, ShutdownTimeoutOK DEF ShutdownAnswer
<1>6. ASSUME NEW s \in Sessions, ExitEvent(s) \/ KernelStep(s) PROVE Inv'
  BY <1>6, ExitEventOK, KernelLaunchedOK, KernelReadyOK, KernelChangesOK DEF KernelStep
<1>7. CASE LoseExtHost
  BY <1>7, LoseExtHostOK
<1>8. CASE \/ \E s \in Sessions : RememberDisconnected(s)
           \/ ExtHostReturns \/ StorageMoved \/ GrantTrust
           \/ \E r \in Runtimes : RegisterRuntime(r)
  BY <1>8, EnvironmentOK
<1>9. CASE UNCHANGED vars
  <2>1. UNCHANGED <<call, serviceMaps, sessionMaps, shutdowns, losses, kernels, world>>
    BY <1>9 DEF vars
  <2>2. UNCHANGED <<losses, session>>
    BY <2>1 DEF sessionMaps
  <2> QED
    BY <2>1, <2>2, Frames DEF Inv
<1> QED
  BY <1>1, <1>2, <1>3, <1>4, <1>5, <1>6, <1>7, <1>8, <1>9 DEF Next

\* The inductive invariant implies the type invariant.
LEMMA InvType == Inv => TypeOK
<1> SUFFICES ASSUME Inv PROVE TypeOK
  OBVIOUS
<1>1. CallsOK /\ StartsOK /\ SessionsOK /\ ShutdownsOK /\ LossesOK /\ KernelsOK /\ WorldOK
  BY DEF Inv
<1> QED
  BY <1>1 DEF TypeOK, CallsOK, StartsOK, SessionsOK, ShutdownsOK, LossesOK, KernelsOK, WorldOK,
              CallRecord, SessionRecord, ShutdownRecord

\* The inductive invariant holds in every reachable state: in particular a call
\* suspended at an await whose continuation reads the maps has a host and a
\* runtime, and a session that waits to be reconnected has its metadata.
THEOREM SessionsInvariant == Spec => []Inv
<1> QED
  BY InitInv, NextInv, PTL DEF Spec

\* Every variable of the session service keeps its type, in every interleaving
\* of any number of calls for any languages, notebooks and runtimes.
THEOREM SessionsTypeCorrect == Spec => []TypeOK
<1> QED
  BY SessionsInvariant, InvType, PTL

-----------------------------------------------------------------------------
(* Running sessions are live.                                              *)
(*                                                                         *)
(* Most steps of a call only move it from one await to another: for the    *)
(* bookkeeping of sessions they are all alike (Moves).  The steps that     *)
(* are not are the beginnings of a start, a restart or a reconnection, and *)
(* the actions that answer them.  The first part shows that every step is  *)
(* one of these; the invariants are then proved for each kind.             *)

Creating(t) == call[t].pc \in CreatingPcs

\* A call that neither starts nor restarts a session, nor listens for Ready.
Inert(c) == c.pc \notin CreatingPcs \cup {"restarting"} /\ ~c.listening

\* The awaits of calls that may still make a start promise.
Unmade == {"new", "deferred", "selectStart", "selectNotebook", "selectShutdown", "selectResume"}

\* The session map key of what call t works on.
Key(t) == <<call[t].host, call[t].runtime>>

\* The metadata of session s is what call t works on.
SessionOf(t, s) ==
    /\ s \in Sessions
    /\ session[s].host = call[t].host /\ session[s].runtime = call[t].runtime

\* Only a restart, of an attached session, listens for Ready.
Listens(t) == call[t].listening \/ call[t].pc = "restarting"
ListenOK ==
    \A t \in Calls : Listens(t) =>
        /\ call[t].pc \in {"restarting", "awaitPromise"}
        /\ SessionOf(t, call[t].session) /\ Active(call[t].session)

-----------------------------------------------------------------------------
(* The kinds of steps.                                                     *)

\* A call goes from one await to another, or to its end.
Moved(u) ==
    /\ Inert(call[u]) /\ Inert(call'[u])
    /\ call[u].pc \notin FinalPcs
    /\ call'[u].pc \in Unmade => call[u].pc \in Unmade

\* What a session is asked for by the service, and reports while it runs.
OnlineStates == {"Ready", "Exiting", "Restarting", "Offline"}

\* Lost sessions are remembered, or forgotten.
Remembers ==
    /\ disconnecting' \subseteq disconnecting
    /\ disconnected' \subseteq disconnected \cup (disconnecting \ disconnecting')

\* Calls move; states change, but no session starts or ends.
Moves ==
    /\ \A u \in Calls : call'[u] = call[u] \/ Moved(u)
    /\ UNCHANGED <<starting, startingSessions, promise, running, session, kernel>>
    /\ \A s \in Sessions : state'[s] = state[s] \/ {state[s], state'[s]} \subseteq OnlineStates
    /\ Remembers
    /\ extHost => extHost'

\* Call t begins to start a session for runtime r at host h.
Begins(t, h, r, p) ==
    /\ Inert(call[t]) /\ call[t].pc \in Unmade
    /\ \A u \in Calls \ {t} : call'[u] = call[u]
    /\ call'[t].pc = IF p = <<t, "auto">> THEN "autoManager" ELSE "creating"
    /\ call'[t].host = h /\ call'[t].runtime = r /\ call'[t].promise = p /\ ~call'[t].listening
    /\ starting[h] = None /\ running[h] = None /\ ~Pending(startingSessions[<<h, r>>])
    /\ BeginStart(h, r, p)
    /\ UNCHANGED <<running, session, kernel, state, disconnected, disconnecting, extHost>>

\* Call t begins to reconnect session s.
Restores(t, s) ==
    LET h == session[s].host
        r == session[s].runtime
    IN  /\ Inert(call[t]) /\ call[t].pc = "new"
        /\ s \in disconnected
        /\ \A u \in Calls \ {t} : call'[u] = call[u]
        /\ call'[t].pc = "restoring" /\ call'[t].session = s
        /\ call'[t].host = h /\ call'[t].runtime = r
        /\ call'[t].promise = <<t, "create">> /\ ~call'[t].listening
        /\ starting[h] = None /\ running[h] = None /\ ~Pending(startingSessions[<<h, r>>])
        /\ BeginStart(h, r, <<t, "create">>)
        /\ disconnected' = disconnected \ {s}
        /\ UNCHANGED <<running, session, kernel, state, disconnecting, extHost>>

\* Call t begins to restart session s.
Restarts(t, s) ==
    LET h == session[s].host
        r == session[s].runtime
    IN  /\ "restart" \in Requests
        /\ Inert(call[t]) /\ call[t].pc = "new"
        /\ Active(s) /\ state[s] = "Ready"
        /\ \A u \in Calls \ {t} : call'[u] = call[u]
        /\ call'[t].pc = "restarting" /\ call'[t].session = s
        /\ call'[t].host = h /\ call'[t].runtime = r
        /\ call'[t].promise = <<t, "create">> /\ call'[t].listening
        /\ ~Pending(startingSessions[<<h, r>>])
        /\ BeginStart(h, r, <<t, "create">>)
        /\ state' = [state EXCEPT ![s] = "Restarting"]
        /\ session' = [session EXCEPT ![s].relaunch = TRUE]
        /\ UNCHANGED <<running, kernel, disconnected, disconnecting, extHost>>

\* What call t does from one await to the next.
CallStep(t) ==
    \/ Moves
    \/ \E h \in Hosts, r \in Runtimes, p \in {<<t, "auto">>, <<t, "create">>} : Begins(t, h, r, p)

\* A call that is suspended at an await, or ends.
LEMMA SuspendMoves ==
  ASSUME Inv, NEW t \in Calls, NEW c \in CallRecord, NEW where \in Pcs,
         Inert(call[t]), call[t].pc \notin FinalPcs, ~c.listening,
         where \notin CreatingPcs \cup {"restarting"},
         where \in Unmade => call[t].pc \in Unmade,
         Suspend(t, c, where)
  PROVE  \A u \in Calls : call'[u] = call[u] \/ Moved(u)
<1> TAKE u \in Calls
<1>1. CASE u # t
  BY <1>1 DEF Suspend, Inv, CallsOK
<1>2. CASE u = t
  <2>1. call'[t] = [c EXCEPT !.pc = where]
    BY DEF Suspend, Inv, CallsOK
  <2>2. call'[t].pc = where /\ call'[t].listening = c.listening
    BY <2>1 DEF CallRecord
  <2> QED
    BY <1>2, <2>2 DEF Moved, Inert
<1> QED
  BY <1>1, <1>2

\* A call that leaves the service as it is.
LEMMA LeaveMoves ==
  ASSUME Inv, NEW t \in Calls, NEW c \in CallRecord, NEW how \in Pcs,
         Inert(call[t]), call[t].pc \notin FinalPcs, ~c.listening,
         how \notin CreatingPcs \cup {"restarting"},
         how \in Unmade => call[t].pc \in Unmade,
         Leave(t, c, how)
  PROVE  Moves
<1>1. \A u \in Calls : call'[u] = call[u] \/ Moved(u)
  BY SuspendMoves DEF Leave
<1>2. UNCHANGED <<starting, startingSessions, promise, running, session, kernel, state,
                  disconnected, disconnecting, extHost>>
  BY DEF Leave, serviceMaps, sessionMaps, losses, kernels
<1> QED
  BY <1>1, <1>2 DEF Moves, Remembers

\* A call that may still start a session is none of the others.
LEMMA UnmadePcs ==
  /\ \A pc \in Unmade : pc \notin CreatingPcs \cup {"restarting"} \cup FinalPcs
  /\ \A pc \in {"awaitPromise", "returned", "threw"} :
        pc \in Pcs /\ pc \notin CreatingPcs \cup {"restarting"} \cup Unmade
  /\ "deferred" \in Pcs /\ "deferred" \notin CreatingPcs \cup {"restarting"}
  BY DEF Unmade, CreatingPcs, FinalPcs, Pcs, WaitingPcs

\* A request that is coalesced with a start in progress.
LEMMA CoalesceMoves ==
  ASSUME Inv, NEW t \in Calls, NEW c \in CallRecord, Keyed(c),
         Inert(call[t]), call[t].pc \notin FinalPcs, ~c.listening, Coalesce(t, c)
  PROVE  Moves
<1> DEFINE old == startingSessions[<<c.host, c.runtime>>]
           d == [c EXCEPT !.promise = old]
<1>1. old \in Promises \cup {None}
  BY DEF Inv, StartsOK, Keys, Keyed
<1>2. d \in CallRecord /\ d.listening = c.listening
  BY <1>1 DEF CallRecord
<1>3. Leave(t, d, "awaitPromise")
  BY DEF Coalesce
<1> HIDE DEF d
<1> QED
  BY <1>2, <1>3, LeaveMoves, UnmadePcs

\* validateRuntimeSessionStart lets a start through only if nothing starts or
\* runs at the host.
LEMMA StartableFree ==
  ASSUME NEW c, Startable(c, "start")
  PROVE  /\ starting[c.host] = None /\ running[c.host] = None
         /\ ~Pending(startingSessions[<<c.host, c.runtime>>])
  BY DEF Startable, ValidateStart

\* A call that begins a start.
LEMMA SuspendBegins ==
  ASSUME Inv, NEW t \in Calls, NEW c \in CallRecord, Keyed(c), NEW p \in Promises, NEW where,
         Inert(call[t]), call[t].pc \in Unmade, ~c.listening, Startable(c, "start"),
         where = IF p = <<t, "auto">> THEN "autoManager" ELSE "creating",
         BeginStart(c.host, c.runtime, p), Suspend(t, [c EXCEPT !.promise = p], where),
         UNCHANGED <<sessionMaps, losses, kernels>>
  PROVE  Begins(t, c.host, c.runtime, p)
<1>1. \A u \in Calls \ {t} : call'[u] = call[u]
  BY DEF Suspend, Inv, CallsOK
<1>2. call'[t] = [[c EXCEPT !.promise = p] EXCEPT !.pc = where]
  BY DEF Suspend, Inv, CallsOK
<1>3. /\ call'[t].pc = where /\ call'[t].promise = p /\ call'[t].host = c.host
      /\ call'[t].runtime = c.runtime /\ call'[t].listening = c.listening
  BY <1>2 DEF CallRecord
<1>4. UNCHANGED <<running, session, kernel, state, disconnected, disconnecting, extHost>>
  BY DEF sessionMaps, losses, kernels
<1> QED
  BY <1>1, <1>3, <1>4, StartableFree DEF Begins

\* doAutoStartRuntime and autoStartRuntime.
LEMMA AutoStartStep ==
  ASSUME Inv, NEW t \in Calls, NEW c \in CallRecord, Keyed(c), Inert(call[t]), call[t].pc \in Unmade,
         ~c.listening, DoAutoStart(t, c) \/ AutoStartRuntime(t, c)
  PROVE  CallStep(t)
<1>1. CASE Leave(t, c, "threw") \/ Leave(t, c, "returned") \/ Leave(t, c, "deferred")
  BY <1>1, LeaveMoves, UnmadePcs DEF CallStep
<1>2. CASE Coalesce(t, c)
  BY <1>2, CoalesceMoves, UnmadePcs DEF CallStep
<1>3. CASE /\ Startable(c, "start")
           /\ BeginStart(c.host, c.runtime, <<t, "auto">>)
           /\ Suspend(t, [c EXCEPT !.promise = <<t, "auto">>], "autoManager")
           /\ UNCHANGED <<sessionMaps, shutdowns, losses, kernels, world>>
  <2>1. <<t, "auto">> \in Promises
    BY DEF Promises
  <2>2. Begins(t, c.host, c.runtime, <<t, "auto">>)
    BY <1>3, <2>1, SuspendBegins
  <2> QED
    BY <2>2 DEF CallStep, Keyed
<1> QED
  BY <1>1, <1>2, <1>3 DEF DoAutoStart, AutoStartRuntime

\* startNewRuntimeSession.
LEMMA StartNewStep ==
  ASSUME Inv, NEW t \in Calls, NEW c \in CallRecord, Keyed(c), Inert(call[t]), call[t].pc \in Unmade,
         ~c.listening, StartNew(t, c)
  PROVE  CallStep(t)
<1>1. CASE Leave(t, c, "threw") \/ Leave(t, c, "returned")
  BY <1>1, LeaveMoves, UnmadePcs DEF CallStep
<1>2. CASE Coalesce(t, c)
  BY <1>2, CoalesceMoves, UnmadePcs DEF CallStep
<1>3. CASE AutoStartRuntime(t, c)
  BY <1>3, AutoStartStep
<1>4. CASE Startable(c, "start") /\ DoCreate(t, c)
  <2> DEFINE p == <<t, "create">>
  <2>1. p \in Promises /\ p # <<t, "auto">>
    BY DEF Promises
  <2>2. ~Pending(startingSessions[<<c.host, c.runtime>>])
    BY <1>4, StartableFree
  <2>3. /\ BeginStart(c.host, c.runtime, p) /\ Suspend(t, [c EXCEPT !.promise = p], "creating")
        /\ UNCHANGED <<sessionMaps, losses, kernels>>
    BY <1>4, <2>2 DEF DoCreate
  <2>4. Begins(t, c.host, c.runtime, p)
    BY <1>4, <2>1, <2>3, SuspendBegins
  <2> QED
    BY <2>4 DEF CallStep, Keyed
<1> QED
  BY <1>1, <1>2, <1>3, <1>4 DEF StartNew

\* A shutdown is only asked for a session that is ready.
LEMMA RequestShutdownStates ==
  ASSUME Inv, NEW s, ~ShutdownRefused(s), RequestShutdown(s)
  PROVE  \A u \in Sessions : state'[u] = state[u] \/ {state[u], state'[u]} \subseteq OnlineStates
  BY DEF Inv, KernelsOK, RequestShutdown, ShutdownRefused, CanShutdown, OnlineStates

\* selectRuntime, from the lookup of the host's session on.
LEMMA SelectActiveStep ==
  ASSUME Inv, NEW t \in Calls, NEW c \in CallRecord, Keyed(c), Inert(call[t]), call[t].pc \in Unmade,
         ~c.listening, SelectActive(t, c)
  PROVE  CallStep(t)
<1> DEFINE s == running[c.host]
           d == [c EXCEPT !.session = s]
<1>1. CASE StartNew(t, c)
  BY <1>1, StartNewStep
<1>2. CASE Leave(t, c, "threw")
  BY <1>2, LeaveMoves, UnmadePcs DEF CallStep
<1>3. CASE /\ Suspend(t, c, "returned")
           /\ UNCHANGED <<serviceMaps, running, session, shutdowns, losses, kernels, world>>
  <2>1. \A u \in Calls : call'[u] = call[u] \/ Moved(u)
    BY <1>3, SuspendMoves, UnmadePcs
  <2>2. UNCHANGED <<starting, startingSessions, promise, running, session, kernel, state,
                    disconnected, disconnecting, extHost>>
    BY <1>3 DEF serviceMaps, losses, kernels
  <2> QED
    BY <2>1, <2>2 DEF Moves, Remembers, CallStep
<1>4. CASE /\ ~ShutdownRefused(s)
           /\ Suspend(t, d, "selectShutdown")
           /\ RequestShutdown(s)
           /\ UNCHANGED <<serviceMaps, sessionMaps, nbShutdown, losses, kernel, world>>
  <2>1. s \in Sessions \cup {None}
    BY DEF Inv, SessionsOK, Keyed
  <2>2. d \in CallRecord /\ ~d.listening
    BY <2>1 DEF CallRecord
  <2>3. "selectShutdown" \in Pcs /\ "selectShutdown" \notin CreatingPcs \cup {"restarting"}
    BY DEF Pcs, WaitingPcs, CreatingPcs
  <2> HIDE DEF d
  <2>4. \A u \in Calls : call'[u] = call[u] \/ Moved(u)
    BY <1>4, <2>2, <2>3, SuspendMoves, UnmadePcs
  <2>5. UNCHANGED <<starting, startingSessions, promise, running, session, kernel,
                    disconnected, disconnecting, extHost>>
    BY <1>4 DEF serviceMaps, sessionMaps, losses
  <2>6. \A u \in Sessions : state'[u] = state[u] \/ {state[u], state'[u]} \subseteq OnlineStates
    BY <1>4, RequestShutdownStates
  <2> QED
    BY <2>4, <2>5, <2>6 DEF Moves, Remembers, CallStep
<1> QED
  BY <1>1, <1>2, <1>3, <1>4 DEF SelectActive

\* selectRuntime, from the check for a notebook shutdown on.
LEMMA SelectNotebookStep ==
  ASSUME Inv, NEW t \in Calls, NEW c \in CallRecord, Keyed(c), Inert(call[t]), call[t].pc \in Unmade,
         ~c.listening, SelectNotebook(t, c)
  PROVE  CallStep(t)
<1> DEFINE d == [c EXCEPT !.owner = nbShutdown[c.host]]
<1>1. CASE SelectActive(t, c)
  BY <1>1, SelectActiveStep
<1>2. CASE ~IsConsole(c.host) /\ Leave(t, d, "selectNotebook")
  <2>1. nbShutdown[c.host] \in Calls \cup {None}
    BY <1>2 DEF Inv, ShutdownsOK, Keyed, Hosts, IsConsole
  <2>2. d \in CallRecord /\ ~d.listening
    BY <2>1 DEF CallRecord
  <2>3. "selectNotebook" \in Pcs /\ "selectNotebook" \notin CreatingPcs \cup {"restarting"}
    BY DEF Pcs, WaitingPcs, CreatingPcs
  <2> HIDE DEF d
  <2> QED
    BY <1>2, <2>2, <2>3, LeaveMoves, UnmadePcs DEF CallStep
<1> QED
  BY <1>1, <1>2 DEF SelectNotebook

\* selectRuntime.
LEMMA SelectRuntimeStep ==
  ASSUME Inv, NEW t \in Calls, NEW h \in Hosts, NEW r \in Runtimes, Inert(call[t]),
         SelectRuntime(t, h, r)
  PROVE  CallStep(t)
<1> DEFINE c == [NewCall EXCEPT !.host = h, !.runtime = r, !.activate = TRUE]
           p == startingSessions[<<h, r>>]
           d == [c EXCEPT !.promise = p]
<1>1. c \in CallRecord /\ Keyed(c)
  BY NewCallOK
<1>2. c.listening = FALSE
  BY Zenon DEF NewCall
<1>3. p \in Promises \cup {None}
  BY DEF Inv, StartsOK, Keys
<1>4. d \in CallRecord /\ d.listening = c.listening
  BY <1>1, <1>3 DEF CallRecord
<1>5. call[t].pc \in Unmade
  BY DEF SelectRuntime, Request, CallNow, Unmade
<1>6. \/ Leave(t, c, "threw") \/ Leave(t, d, "selectStart") \/ SelectNotebook(t, c)
  BY DEF SelectRuntime
<1>7. "selectStart" \in Pcs /\ "selectStart" \notin CreatingPcs \cup {"restarting"}
  BY DEF Pcs, WaitingPcs, CreatingPcs
<1> HIDE DEF c, d
<1> QED
  BY <1>1, <1>2, <1>4, <1>5, <1>6, <1>7, LeaveMoves, UnmadePcs, SelectNotebookStep DEF CallStep

\* startNewRuntimeSession, autoStartRuntime and onDidRequestRichLanguageFeatures.
LEMMA StartRequestsStep ==
  ASSUME Inv, NEW t \in Calls, NEW h \in Hosts, NEW r \in Runtimes, NEW activate \in BOOLEAN,
         Inert(call[t]),
         \/ StartNewRuntimeSession(t, h, r)
         \/ AutoStartRequest(t, r, activate)
         \/ EncounterLanguage(t, r)
  PROVE  CallStep(t)
<1> DEFINE c(x, a) == [NewCall EXCEPT !.host = x, !.runtime = r, !.activate = a]
<1>1. \A x \in Hosts, a \in BOOLEAN : c(x, a) \in CallRecord /\ Keyed(c(x, a))
  BY NewCallOK
<1>2. \A x, a : c(x, a).listening = FALSE
  BY Zenon DEF NewCall
<1>3. call[t].pc \in Unmade
  BY DEF StartNewRuntimeSession, AutoStartRequest, EncounterLanguage, Request, CallNow, Unmade
<1>4. \/ StartNew(t, c(h, TRUE))
      \/ \E a \in BOOLEAN : AutoStartRuntime(t, c(LanguageOf[r], a))
  BY Zenon DEF StartNewRuntimeSession, AutoStartRequest, EncounterLanguage
<1> HIDE DEF c
<1>5. CASE StartNew(t, c(h, TRUE))
  BY <1>1, <1>2, <1>3, <1>5, StartNewStep
<1>6. ASSUME NEW a \in BOOLEAN, AutoStartRuntime(t, c(LanguageOf[r], a)) PROVE CallStep(t)
  BY <1>1, <1>2, <1>3, <1>6, AutoStartStep, LanguageIsHost
<1> QED
  BY <1>4, <1>5, <1>6

\* restartSession of a session that is ready.
LEMMA DoRestartStep ==
  ASSUME Inv, NEW t \in Calls, NEW s \in Sessions, NEW c \in CallRecord, "restart" \in Requests,
         Inert(call[t]), call[t].pc = "new", ~c.listening, Active(s), state[s] = "Ready",
         c.session = s, c.host = session[s].host, c.runtime = session[s].runtime,
         Keyed(c), DoRestart(t, c)
  PROVE  Moves \/ Restarts(t, s)
<1>1. CASE Coalesce(t, c)
  <2>1. call[t].pc \notin FinalPcs
    BY DEF FinalPcs
  <2> QED
    BY <1>1, <2>1, CoalesceMoves
<1>2. CASE ~Coalesce(t, c)
  <2> DEFINE p == <<t, "create">>
             d == [c EXCEPT !.promise = p, !.listening = TRUE]
  <2>1. /\ ~Pending(startingSessions[<<c.host, c.runtime>>])
        /\ BeginStart(c.host, c.runtime, p) /\ Suspend(t, d, "restarting")
        /\ state' = [state EXCEPT ![s] = "Restarting"]
        /\ session' = [session EXCEPT ![s].relaunch = TRUE]
        /\ UNCHANGED <<running, foreground, shutdowns, losses, kernel, world>>
    BY <1>2 DEF DoRestart
  <2>2. UNCHANGED <<running, kernel, disconnected, disconnecting, extHost>>
    BY <2>1 DEF losses
  <2>3. call'[t] = [d EXCEPT !.pc = "restarting"] /\ \A u \in Calls \ {t} : call'[u] = call[u]
    BY <2>1 DEF Suspend, Inv, CallsOK
  <2>4. /\ call'[t].pc = "restarting" /\ call'[t].session = c.session
        /\ call'[t].host = c.host /\ call'[t].runtime = c.runtime /\ call'[t].promise = p
    BY <2>3 DEF CallRecord
  <2>5. call'[t].listening = TRUE
    <3>1. d.listening = TRUE /\ [d EXCEPT !.pc = "restarting"].listening = d.listening
      BY Zenon DEF CallRecord
    <3> QED
      BY <2>3, <3>1
  <2>6. call'[t].listening
    BY <2>5
  <2> HIDE DEF d
  <2> QED
    BY <2>1, <2>2, <2>3, <2>4, <2>6 DEF Restarts
<1> QED
  BY <1>1, <1>2

\* restartSession.
LEMMA RestartSessionStep ==
  ASSUME Inv, NEW t \in Calls, NEW s \in Sessions, Inert(call[t]), RestartSession(t, s)
  PROVE  CallStep(t) \/ Restarts(t, s)
<1> DEFINE c == [NewCall EXCEPT !.host = session[s].host, !.runtime = session[s].runtime,
                                !.activate = TRUE]
           d == [c EXCEPT !.session = s]
<1>1. Active(s) /\ call[t].pc = "new" /\ "restart" \in Requests
  BY DEF RestartSession, Request, CallNow
<1>2. session[s].host \in Hosts /\ session[s].runtime \in Runtimes
  BY <1>1 DEF Inv, SessionsOK, Keyed
<1>3. c \in CallRecord /\ Keyed(c)
  BY <1>2, NewCallOK
<1>4. c.listening = FALSE
  BY Zenon DEF NewCall
<1>5. c.host = session[s].host /\ c.runtime = session[s].runtime
  BY DEF NewCall
<1>6. \/ state[s] = "Ready" /\ DoRestart(t, d)
      \/ StartNew(t, c) \/ Leave(t, c, "returned") \/ Leave(t, c, "threw")
  BY DEF RestartSession
<1> HIDE DEF c
<1>7. d \in CallRecord /\ Keyed(d) /\ d.session = s /\ d.listening = c.listening
      /\ d.host = c.host /\ d.runtime = c.runtime
  BY <1>3 DEF CallRecord, Keyed
<1> HIDE DEF d
<1>8. call[t].pc \in Unmade
  BY <1>1 DEF Unmade
<1>9. CASE state[s] = "Ready" /\ DoRestart(t, d)
  BY <1>1, <1>4, <1>5, <1>7, <1>9, DoRestartStep DEF CallStep
<1>10. CASE StartNew(t, c)
  BY <1>3, <1>4, <1>8, <1>10, StartNewStep
<1>11. CASE Leave(t, c, "returned") \/ Leave(t, c, "threw")
  BY <1>3, <1>4, <1>8, <1>11, LeaveMoves, UnmadePcs DEF CallStep
<1> QED
  BY <1>6, <1>9, <1>10, <1>11

\* The rest of shutdownNotebookSession.
LEMMA NotebookShutdownMoves ==
  ASSUME Inv, NEW t \in Calls, NEW c \in CallRecord, Inert(call[t]), call[t].pc \notin FinalPcs,
         ~c.listening, NotebookShutdown(t, c)
  PROVE  Moves
<1>1. UNCHANGED <<starting, startingSessions, promise, running, session, kernel,
                  disconnected, disconnecting, extHost>>
  BY DEF NotebookShutdown, serviceMaps, sessionMaps, losses
<1>2. "notebookShutdown" \in Pcs
      /\ "notebookShutdown" \notin CreatingPcs \cup {"restarting"} \cup Unmade
  BY DEF Pcs, WaitingPcs, CreatingPcs, Unmade
<1>3. Suspend(t, c, "threw") \/ Suspend(t, c, "notebookShutdown")
  BY DEF NotebookShutdown
<1>4. \A u \in Calls : call'[u] = call[u] \/ Moved(u)
  BY <1>2, <1>3, SuspendMoves, UnmadePcs
<1>5. \A u \in Sessions : state'[u] = state[u] \/ {state[u], state'[u]} \subseteq OnlineStates
  <2>1. CASE UNCHANGED state
    BY <2>1
  <2>2. CASE ~ShutdownRefused(c.session) /\ RequestShutdown(c.session)
    BY <2>2, RequestShutdownStates
  <2> QED
    BY <2>1, <2>2 DEF NotebookShutdown
<1> QED
  BY <1>1, <1>4, <1>5 DEF Moves, Remembers

\* shutdownNotebookSession.
LEMMA ShutdownNotebookSessionMoves ==
  ASSUME Inv, NEW t \in Calls, NEW n \in Notebooks, Inert(call[t]), ShutdownNotebookSession(t, n)
  PROVE  Moves
<1> DEFINE c == [NewCall EXCEPT !.host = n]
           s == running[n]
           p == IF starting[n] = None THEN None ELSE startingSessions[<<n, starting[n]>>]
           byOwner   == [c EXCEPT !.owner = nbShutdown[n]]
           bySession == [c EXCEPT !.session = s]
           byPromise == [c EXCEPT !.promise = p]
<1>1. /\ s \in Sessions \cup {None} /\ p \in Promises \cup {None}
      /\ nbShutdown[n] \in Calls \cup {None}
  BY DEF Inv, SessionsOK, StartsOK, ShutdownsOK, Keys, Hosts
<1>2. c \in CallRecord
  BY DEF NewCall, CallRecord, Pcs, Hosts
<1>3. c.listening = FALSE
  BY Zenon DEF NewCall
<1>4. \/ Leave(t, byOwner, "awaitNotebook")
      \/ NotebookShutdown(t, bySession)
      \/ Leave(t, c, "returned")
      \/ /\ Suspend(t, byPromise, "notebookStart")
         /\ UNCHANGED <<serviceMaps, sessionMaps, shuttingDown, losses, kernels, world>>
  BY DEF ShutdownNotebookSession
<1>5. call[t].pc \notin FinalPcs
  BY DEF ShutdownNotebookSession, Request, CallNow, FinalPcs
<1> HIDE DEF c, s, p
<1>6. /\ byOwner \in CallRecord /\ bySession \in CallRecord /\ byPromise \in CallRecord
      /\ byOwner.listening = c.listening /\ bySession.listening = c.listening
      /\ byPromise.listening = c.listening
  BY <1>1, <1>2 DEF CallRecord
<1>7. \A where \in {"awaitNotebook", "notebookStart"} :
        where \in Pcs /\ where \notin CreatingPcs \cup {"restarting"} \cup Unmade
  BY DEF Pcs, WaitingPcs, CreatingPcs, Unmade
<1> HIDE DEF byOwner, bySession, byPromise
<1>8. CASE Leave(t, byOwner, "awaitNotebook") \/ Leave(t, c, "returned")
  BY <1>2, <1>3, <1>5, <1>6, <1>7, <1>8, LeaveMoves, UnmadePcs
<1>9. CASE NotebookShutdown(t, bySession)
  BY <1>3, <1>5, <1>6, <1>9, NotebookShutdownMoves
<1>10. CASE /\ Suspend(t, byPromise, "notebookStart")
            /\ UNCHANGED <<serviceMaps, sessionMaps, shuttingDown, losses, kernels, world>>
  <2>1. \A u \in Calls : call'[u] = call[u] \/ Moved(u)
    BY <1>3, <1>5, <1>6, <1>7, <1>10, SuspendMoves
  <2>2. UNCHANGED <<starting, startingSessions, promise, running, session, kernel, state,
                    disconnected, disconnecting, extHost>>
    BY <1>10 DEF serviceMaps, sessionMaps, losses, kernels
  <2> QED
    BY <2>1, <2>2 DEF Moves, Remembers
<1> QED
  BY <1>4, <1>8, <1>9, <1>10

\* restoreRuntimeSession.
LEMMA RestoreStep ==
  ASSUME Inv, NEW t \in Calls, NEW s \in Sessions, Inert(call[t]), RestoreRuntimeSession(t, s)
  PROVE  Moves \/ Restores(t, s)
<1> DEFINE h == session[s].host
           r == session[s].runtime
           old == startingSessions[<<h, r>>]
           p == <<t, "create">>
           c == [NewCall EXCEPT !.host = h, !.runtime = r, !.session = s]
           shared == [c EXCEPT !.promise = old]
           own == [c EXCEPT !.promise = p]
<1>1. h \in Hosts /\ r \in Runtimes
  BY DEF RestoreRuntimeSession, Inv, LossesOK, SessionsOK, Keyed
<1>2. old \in Promises \cup {None} /\ p \in Promises
  BY <1>1 DEF Inv, StartsOK, Keys, Promises
<1>3. c \in CallRecord /\ c.host = h /\ c.runtime = r /\ c.session = s
  BY <1>1 DEF NewCall, CallRecord, Keyed, Pcs
<1>4. c.listening = FALSE
  BY Zenon DEF NewCall
<1>5. /\ UNCHANGED <<running, session, kernel, state, disconnecting, extHost>>
      /\ disconnected' = disconnected \ {s} /\ s \in disconnected /\ call[t].pc = "new"
  BY DEF RestoreRuntimeSession, sessionMaps, kernels, CallNow
<1>6. \/ Suspend(t, shared, "awaitPromise") /\ UNCHANGED serviceMaps
      \/ Suspend(t, c, "threw") /\ UNCHANGED serviceMaps
      \/ Suspend(t, c, "returned") /\ UNCHANGED serviceMaps
      \/ Startable(c, "start") /\ BeginStart(h, r, p) /\ Suspend(t, own, "restoring")
  BY DEF RestoreRuntimeSession
<1> HIDE DEF c, old, p
<1>7. /\ shared \in CallRecord /\ own \in CallRecord
      /\ shared.listening = c.listening /\ own.listening = c.listening
      /\ own.host = c.host /\ own.runtime = c.runtime /\ own.session = c.session /\ own.promise = p
  BY <1>2, <1>3 DEF CallRecord
<1> HIDE DEF shared, own
<1>8. call[t].pc \notin FinalPcs
  BY <1>5 DEF FinalPcs
<1>9. CASE UNCHANGED serviceMaps /\ (\/ Suspend(t, shared, "awaitPromise")
                                     \/ Suspend(t, c, "threw") \/ Suspend(t, c, "returned"))
  <2>1. \A u \in Calls : call'[u] = call[u] \/ Moved(u)
    BY <1>3, <1>4, <1>7, <1>8, <1>9, SuspendMoves, UnmadePcs
  <2> QED
    BY <1>5, <1>9, <2>1 DEF Moves, Remembers, serviceMaps
<1>10. CASE Startable(c, "start") /\ BeginStart(h, r, p) /\ Suspend(t, own, "restoring")
  <2>1. \A u \in Calls \ {t} : call'[u] = call[u]
    BY <1>10 DEF Suspend, Inv, CallsOK
  <2>2. call'[t] = [own EXCEPT !.pc = "restoring"]
    BY <1>10 DEF Suspend, Inv, CallsOK
  <2>3. /\ call'[t].pc = "restoring" /\ call'[t].session = s /\ call'[t].host = h
        /\ call'[t].runtime = r /\ call'[t].promise = p /\ call'[t].listening = c.listening
    BY <1>3, <1>7, <2>2 DEF CallRecord
  <2>4. starting[h] = None /\ running[h] = None /\ ~Pending(startingSessions[<<h, r>>])
    BY <1>3, <1>10, StartableFree
  <2> QED
    BY <1>4, <1>5, <1>10, <2>1, <2>3, <2>4 DEF Restores, p
<1> QED
  BY <1>6, <1>9, <1>10

\* The microtasks of selectRuntime and of deferred automatic starts.
LEMMA SelectResumeStep ==
  ASSUME Inv, NEW t \in Calls, Inert(call[t]),
         \/ SelectAfterStart(t) \/ SelectAfterNotebook(t)
         \/ SelectAfterShutdown(t) \/ StartAfterTrust(t)
  PROVE  CallStep(t)
<1> DEFINE c == call[t]
           d == [c EXCEPT !.session = None]
<1>1. c \in CallRecord /\ WellFormed(c) /\ ~c.listening
  BY OwnRecord DEF Inert
<1>2. c.pc \in Unmade /\ Keyed(c)
  <2>1. c.pc \in {"selectStart", "selectNotebook", "selectResume", "deferred"}
    BY DEF SelectAfterStart, SelectAfterNotebook, SelectAfterShutdown, StartAfterTrust
  <2> QED
    BY <1>1, <2>1 DEF WellFormed, KeyedPcs, Unmade
<1>3. \/ Leave(t, c, "threw") \/ SelectNotebook(t, c) \/ SelectActive(t, c)
      \/ StartNew(t, d) \/ DoAutoStart(t, c)
  BY DEF SelectAfterStart, SelectAfterNotebook, SelectAfterShutdown, StartAfterTrust
<1>4. d \in CallRecord /\ Keyed(d) /\ d.listening = c.listening
  BY <1>1, <1>2 DEF CallRecord, Keyed
<1> HIDE DEF c, d
<1>5. Inert(call[t]) /\ call[t].pc \in Unmade
  BY <1>2 DEF c
<1> QED
  BY <1>1, <1>2, <1>3, <1>4, <1>5, LeaveMoves, UnmadePcs, SelectNotebookStep, SelectActiveStep,
     StartNewStep, AutoStartStep DEF CallStep

\* The rest of getActiveOrStartingNotebook.
LEMMA NotebookResumeMoves ==
  ASSUME Inv, NEW t \in Calls, Inert(call[t]),
         NotebookAfterStart(t) \/ NotebookAfterReady(t) \/ NotebookReadyTimeout(t)
  PROVE  Moves
<1> DEFINE c == call[t]
           s == call[c.promise[1]].session
           d == [c EXCEPT !.session = s]
<1>1. c \in CallRecord /\ WellFormed(c) /\ ~c.listening
  BY OwnRecord DEF Inert
<1>2. c.pc \notin FinalPcs \cup Unmade
  BY DEF NotebookAfterStart, NotebookAfterReady, NotebookReadyTimeout, FinalPcs, Unmade
<1>3. \/ /\ Suspend(t, c, "returned")
         /\ UNCHANGED <<serviceMaps, sessionMaps, shuttingDown, losses, kernels, world>>
      \/ /\ c.pc = "notebookStart"
         /\ Leave(t, d, "notebookReady") \/ NotebookShutdown(t, d)
      \/ NotebookShutdown(t, c)
  BY DEF NotebookAfterStart, NotebookAfterReady, NotebookReadyTimeout
<1>4. c.pc = "notebookStart" => d \in CallRecord /\ d.listening = c.listening
  <2> SUFFICES ASSUME c.pc = "notebookStart" PROVE d \in CallRecord /\ d.listening = c.listening
    OBVIOUS
  <2>1. c.promise[1] \in Calls
    BY <1>1 DEF WellFormed, Promises
  <2>2. s \in Sessions \cup {None}
    BY <2>1, OwnRecord DEF CallRecord
  <2> QED
    BY <1>1, <2>2 DEF CallRecord
<1> HIDE DEF d
<1>5. "notebookReady" \in Pcs /\ "notebookReady" \notin CreatingPcs \cup {"restarting"} \cup Unmade
  BY DEF Pcs, WaitingPcs, CreatingPcs, Unmade
<1>6. CASE /\ Suspend(t, c, "returned")
           /\ UNCHANGED <<serviceMaps, sessionMaps, shuttingDown, losses, kernels, world>>
  <2>1. \A u \in Calls : call'[u] = call[u] \/ Moved(u)
    BY <1>1, <1>2, <1>6, SuspendMoves, UnmadePcs
  <2>2. UNCHANGED <<starting, startingSessions, promise, running, session, kernel, state,
                    disconnected, disconnecting, extHost>>
    BY <1>6 DEF serviceMaps, sessionMaps, losses, kernels
  <2> QED
    BY <2>1, <2>2 DEF Moves, Remembers
<1>7. CASE c.pc = "notebookStart" /\ (Leave(t, d, "notebookReady") \/ NotebookShutdown(t, d))
  BY <1>1, <1>2, <1>4, <1>5, <1>7, LeaveMoves, NotebookShutdownMoves
<1>8. CASE NotebookShutdown(t, c)
  BY <1>1, <1>2, <1>8, NotebookShutdownMoves
<1> QED
  BY <1>3, <1>6, <1>7, <1>8

\* The calls that wait for shutdowns.
LEMMA SettleMoves ==
  ASSUME Inv, ListenOK, NEW S, NEW ok \in BOOLEAN, call' = CallsAfterShutdown(S, ok), NEW u \in Calls
  PROVE  \/ call'[u] = call[u]
         \/ /\ Moved(u) /\ call[u].session \in S
            /\ call[u].pc \in {"selectShutdown", "notebookShutdown"}
            /\ call'[u].pc \in {"selectResume", "returned", "threw"}
            /\ call'[u] = [call[u] EXCEPT !.pc = call'[u].pc]
            /\ call'[u].pc # "threw" => ok
<1>1. call[u] \in CallRecord
  BY OwnRecord
<1>2. SUFFICES ASSUME call[u].pc \in {"selectShutdown", "notebookShutdown"}, call[u].session \in S,
                      NEW where \in {"selectResume", "returned", "threw"},
                      call[u].pc = "notebookShutdown" => where # "selectResume",
                      call'[u] = [call[u] EXCEPT !.pc = where], where # "threw" => ok
               PROVE  Moved(u) /\ call'[u].pc = where
  BY <1>1 DEF CallsAfterShutdown
<1>3. call'[u].pc = where /\ call'[u].listening = call[u].listening
  BY <1>1, <1>2 DEF CallRecord
<1>4. ~call[u].listening
  BY <1>2 DEF ListenOK, Listens
<1> QED
  BY <1>2, <1>3, <1>4 DEF Moved, Inert, CreatingPcs, FinalPcs, Unmade

\* The answers to session.shutdown() and its timer.
LEMMA ShutdownMoves ==
  ASSUME Inv, ListenOK, NEW s \in Sessions, ShutdownAnswer(s) \/ ShutdownTimeout(s)
  PROVE  Moves
<1>1. UNCHANGED <<starting, startingSessions, promise, running, session, kernel, state,
                  disconnected, disconnecting, extHost>>
  BY DEF ShutdownAnswer, ShutdownReplies, ShutdownTimeout, serviceMaps, sessionMaps, losses, kernels
<1>2. UNCHANGED call \/ \E ok \in BOOLEAN : call' = CallsAfterShutdown({s}, ok)
  BY DEF ShutdownAnswer, ShutdownReplies, ShutdownTimeout, SettleShutdowns
<1>3. \A u \in Calls : call'[u] = call[u] \/ Moved(u)
  BY <1>2, SettleMoves
<1> QED
  BY <1>1, <1>3 DEF Moves, Remembers

\* What goes on around the service.
LEMMA EnvironmentMoves ==
  ASSUME Inv,
         \/ \E s \in Sessions : RememberDisconnected(s) \/ KernelActive(s) \/ KernelOffline(s)
         \/ ExtHostReturns \/ StorageMoved \/ GrantTrust
         \/ \E r \in Runtimes : RegisterRuntime(r)
         \/ UNCHANGED vars
  PROVE  Moves
<1>1. UNCHANGED <<call, starting, startingSessions, promise, running, session, kernel>>
  BY DEF RememberDisconnected, ExtHostReturns, StorageMoved, GrantTrust, RegisterRuntime,
         KernelActive, KernelOffline, vars, serviceMaps, sessionMaps, kernels
<1>2. Remembers /\ (extHost => extHost')
  BY DEF Remembers, Inv, LossesOK, RememberDisconnected, ExtHostReturns, StorageMoved, GrantTrust, RegisterRuntime,
         KernelActive, KernelOffline, vars, losses
<1>3. UNCHANGED state \/ \E s \in Sessions : KernelActive(s) \/ KernelOffline(s)
  BY DEF RememberDisconnected, ExtHostReturns, StorageMoved, GrantTrust, RegisterRuntime,
         vars, kernels
<1>4. \A s \in Sessions : state'[s] = state[s] \/ {state[s], state'[s]} \subseteq OnlineStates
  BY <1>3 DEF KernelActive, KernelOffline, Event, Inv, KernelsOK, OnlineStates
<1> QED
  BY <1>1, <1>2, <1>4 DEF Moves

\* A step that is not just a move.
Changes ==
    \/ \E t \in Calls :
         \/ \E h \in Hosts, r \in Runtimes, p \in {<<t, "auto">>, <<t, "create">>} : Begins(t, h, r, p)
         \/ \E s \in Sessions : Restores(t, s) \/ Restarts(t, s)
         \/ Answer(t)
         \/ RestartTimeout(t)
    \/ \E s \in Sessions : KernelLaunched(s) \/ KernelReady(s) \/ KernelExits(s) \/ ExitEvent(s)
    \/ LoseExtHost

\* The calls that wait for nothing that starts or restarts are inert.
LEMMA WaitingInert ==
  ASSUME ListenOK, NEW t \in Calls,
         call[t].pc \notin CreatingPcs \cup {"restarting", "awaitPromise"}
  PROVE  Inert(call[t])
  BY DEF ListenOK, Listens, Inert

\* Every step moves calls, or is one of the others.
LEMMA StepKinds ==
  ASSUME Inv, ListenOK, [Next]_vars
  PROVE  Moves \/ Changes
<1>1. ASSUME NEW t \in Calls, Ask(t)
      PROVE  Moves \/ Changes
  <2>1. call[t].pc = "new"
    BY <1>1 DEF Ask, StartNewRuntimeSession, AutoStartRequest, EncounterLanguage, SelectRuntime,
                RestartSession, ShutdownNotebookSession, RestoreRuntimeSession, Request, CallNow
  <2>2. Inert(call[t])
    BY <2>1, WaitingInert DEF CreatingPcs
  <2>3. CallStep(t) \/ Moves \/ \E s \in Sessions : Restores(t, s) \/ Restarts(t, s)
    BY <1>1, <2>2, StartRequestsStep, SelectRuntimeStep, RestartSessionStep,
       ShutdownNotebookSessionMoves, RestoreStep, LanguageIsHost DEF Ask
  <2> QED
    BY <2>3 DEF CallStep, Changes
<1>2. ASSUME NEW t \in Calls, Resume(t) \/ NotebookReadyTimeout(t)
      PROVE  Moves \/ Changes
  <2>1. call[t].pc \in {"selectStart", "selectNotebook", "selectResume", "deferred",
                        "notebookStart", "notebookResume", "notebookReady"}
    BY <1>2 DEF Resume, SelectAfterStart, SelectAfterNotebook, SelectAfterShutdown, StartAfterTrust,
                NotebookAfterStart, NotebookAfterReady, NotebookReadyTimeout
  <2>2. Inert(call[t])
    BY <2>1, WaitingInert DEF CreatingPcs
  <2>3. CallStep(t) \/ Moves
    BY <1>2, <2>2, SelectResumeStep, NotebookResumeMoves DEF Resume
  <2> QED
    BY <2>3 DEF CallStep, Changes
<1>3. ASSUME NEW t \in Calls, Answer(t) \/ RestartTimeout(t)
      PROVE  Changes
  BY <1>3 DEF Changes
<1>4. ASSUME NEW s \in Sessions, ShutdownAnswer(s) \/ ShutdownTimeout(s)
      PROVE  Moves
  BY <1>4, ShutdownMoves
<1>5. ASSUME NEW s \in Sessions, KernelLaunched(s) \/ KernelReady(s) \/ KernelExits(s) \/ ExitEvent(s)
      PROVE  Changes
  BY <1>5 DEF Changes
<1>6. ASSUME LoseExtHost PROVE Changes
  BY <1>6 DEF Changes
<1> QED
  BY <1>1, <1>2, <1>3, <1>4, <1>5, <1>6, EnvironmentMoves DEF Next, Timer, KernelStep

-----------------------------------------------------------------------------
(* What the answers to a call do, field by field.                          *)

\* A call that is suspended has the record it is given, elsewhere.
LEMMA SuspendFields ==
  ASSUME Inv, NEW t \in Calls, NEW c \in CallRecord, NEW where, Suspend(t, c, where)
  PROVE  /\ \A u \in Calls \ {t} : call'[u] = call[u]
         /\ call'[t].pc = where /\ call'[t].host = c.host /\ call'[t].runtime = c.runtime
         /\ call'[t].session = c.session /\ call'[t].promise = c.promise
         /\ call'[t].listening = c.listening
<1>1. call'[t] = [c EXCEPT !.pc = where] /\ \A u \in Calls \ {t} : call'[u] = call[u]
  BY DEF Suspend, Inv, CallsOK
<1> QED
  BY <1>1 DEF CallRecord

\* Call t goes to another await and keeps its data.
Goes(t, where) ==
    /\ \A u \in Calls \ {t} : call'[u] = call[u]
    /\ call'[t].pc = where /\ call'[t].host = call[t].host /\ call'[t].runtime = call[t].runtime
    /\ call'[t].session = call[t].session /\ call'[t].promise = call[t].promise
    /\ call'[t].listening = call[t].listening

\* The sessions and their kernels are left alone.
SessionsStay == UNCHANGED <<running, session, kernel, state, disconnected, disconnecting, extHost>>

\* An automatic start goes on to create the session, for runtime r.
Creates(t, r) ==
    LET h == call[t].host
        old == startingSessions[<<h, r>>]
        p   == IF Pending(old) THEN old ELSE <<t, "create">>
    IN  /\ call[t].pc \in {"autoManager", "validating"}
        /\ call[t].pc = "autoManager" => r = call[t].runtime
        /\ \A u \in Calls \ {t} : call'[u] = call[u]
        /\ call'[t].pc = "creating" /\ call'[t].host = h /\ call'[t].runtime = r
        /\ call'[t].session = call[t].session /\ call'[t].promise = p
        /\ call'[t].listening = call[t].listening
        /\ BeginStart(h, r, p)
        /\ SessionsStay

\* The automatic start has to have its metadata validated.
Validates(t) ==
    /\ call[t].pc = "autoManager" /\ call[t].runtime \notin registered
    /\ Goes(t, "validating")
    /\ UNCHANGED <<starting, startingSessions, promise>>
    /\ SessionsStay

\* The answers during an automatic start.
LEMMA AutoAnswerStep ==
  ASSUME Inv, NEW t \in Calls, AutoManagerFound(t) \/ \E r \in Runtimes : MetadataValidated(t, r)
  PROVE  Validates(t) \/ \E r \in Runtimes : Creates(t, r)
<1> DEFINE c == call[t]
<1>1. c \in CallRecord /\ Keyed(c) /\ c.pc \in {"autoManager", "validating"}
  BY OwnRecord DEF AutoManagerFound, MetadataValidated, WellFormed, KeyedPcs, CreatingPcs
<1>2. ASSUME NEW r \in Runtimes, DoCreate(t, [c EXCEPT !.runtime = r]),
             c.pc = "autoManager" => r = c.runtime
      PROVE  Creates(t, r)
  <2> DEFINE d == [c EXCEPT !.runtime = r]
             old == startingSessions[<<c.host, r>>]
             p == IF Pending(old) THEN old ELSE <<t, "create">>
             e == [d EXCEPT !.promise = p]
  <2>1. /\ d \in CallRecord /\ d.host = c.host /\ d.runtime = r /\ d.session = c.session
        /\ d.listening = c.listening
    BY <1>1 DEF CallRecord
  <2>2. old \in Promises \cup {None} /\ p \in Promises
    BY <1>1 DEF Inv, StartsOK, Keys, Promises, Keyed, Pending
  <2> HIDE DEF d
  <2>3. /\ e \in CallRecord /\ e.host = c.host /\ e.runtime = r /\ e.session = c.session
        /\ e.listening = c.listening /\ e.promise = p
    BY <2>1, <2>2 DEF CallRecord
  <2>4. /\ BeginStart(c.host, r, p) /\ Suspend(t, e, "creating")
        /\ UNCHANGED <<sessionMaps, shutdowns, losses, kernels>>
    BY <1>2, <2>1 DEF DoCreate, d
  <2>5. SessionsStay
    BY <2>4 DEF SessionsStay, sessionMaps, losses, kernels
  <2> HIDE DEF e
  <2>6. /\ \A u \in Calls \ {t} : call'[u] = call[u]
        /\ call'[t].pc = "creating" /\ call'[t].host = c.host /\ call'[t].runtime = r
        /\ call'[t].session = c.session /\ call'[t].promise = p
        /\ call'[t].listening = c.listening
    BY <2>3, <2>4, SuspendFields
  <2> QED
    BY <1>1, <1>2, <2>4, <2>5, <2>6 DEF Creates
<1>3. CASE Leave(t, c, "validating") /\ c.pc = "autoManager" /\ c.runtime \notin registered
  <2>1. Goes(t, "validating")
    BY <1>1, <1>3, SuspendFields DEF Leave, Goes
  <2> QED
    BY <1>3, <2>1 DEF Validates, Leave, SessionsStay, serviceMaps, sessionMaps, losses, kernels
<1>4. DoCreate(t, c) => DoCreate(t, [c EXCEPT !.runtime = c.runtime])
  <2>1. [c EXCEPT !.runtime = c.runtime] = c
    BY <1>1 DEF CallRecord
  <2> QED
    BY <2>1
<1>5. CASE AutoManagerFound(t)
  BY <1>1, <1>2, <1>3, <1>4, <1>5 DEF AutoManagerFound, Keyed
<1>6. ASSUME NEW r \in Runtimes, MetadataValidated(t, r) PROVE Creates(t, r)
  BY <1>2, <1>6 DEF MetadataValidated
<1> QED
  BY <1>5, <1>6

\* A start fails.
Fails(t) ==
    /\ Creating(t)
    /\ call[t].pc = "starting" => kernel[call[t].session] \in {"none", "ended", "gone"}
    /\ Goes(t, "threw")
    /\ Settle(call[t].promise, "rejected") /\ ClearStarting(call[t].host, call[t].runtime)
    /\ SessionsStay

\* validateMetadata throws.
FailsInvalid(t) ==
    /\ call[t].pc = "validating"
    /\ Goes(t, "threw")
    /\ starting' = [starting EXCEPT ![call[t].host] = None]
    /\ UNCHANGED <<startingSessions, promise>>
    /\ SessionsStay

\* The rejections of the requests of a start.
LEMMA FailStep ==
  ASSUME Inv, NEW t \in Calls, ManagerFails(t) \/ StartFails(t) \/ MetadataInvalid(t)
  PROVE  Fails(t) \/ FailsInvalid(t)
<1>1. CASE ManagerFails(t) \/ StartFails(t)
  <2>1. /\ Creating(t) /\ FailStart(t)
        /\ call[t].pc = "starting" => kernel[call[t].session] \in {"none", "ended", "gone"}
    BY <1>1 DEF ManagerFails, StartFails, Creating, CreatingPcs
  <2>2. Goes(t, "threw")
    BY <2>1, OwnRecord, SuspendFields DEF FailStart, Goes
  <2> QED
    BY <2>1, <2>2 DEF Fails, FailStart, SessionsStay, sessionMaps, losses, kernels
<1>2. CASE MetadataInvalid(t)
  <2>1. Goes(t, "threw")
    BY <1>2, OwnRecord, SuspendFields DEF MetadataInvalid, Goes
  <2> QED
    BY <1>2, <2>1 DEF FailsInvalid, MetadataInvalid, SessionsStay, sessionMaps, losses, kernels
<1> QED
  BY <1>1, <1>2

\* session.restart() returns.
Restarted(t) ==
    /\ call[t].pc = "restarting"
    /\ Goes(t, "awaitPromise")
    /\ UNCHANGED <<starting, startingSessions, promise>>
    /\ SessionsStay

\* session.restart() throws.
RestartFailed(t) ==
    /\ call[t].pc = "restarting"
    /\ Goes(t, "awaitPromise")
    /\ session[call[t].session].relaunch \/ ~extHost
    /\ Settle(call[t].promise, "rejected") /\ ClearStarting(call[t].host, call[t].runtime)
    /\ session' = [session EXCEPT ![call[t].session].relaunch = FALSE]
    /\ UNCHANGED <<running, kernel, state, disconnected, disconnecting, extHost>>

\* The timer of a restart fires.
TimedOut(t) ==
    /\ call[t].listening /\ call' = [call EXCEPT ![t].listening = FALSE]
    /\ Settle(call[t].promise, "rejected")
    /\ UNCHANGED <<starting, startingSessions>>
    /\ SessionsStay

\* The answers to a restart.
LEMMA RestartStep ==
  ASSUME Inv, NEW t \in Calls, RestartSucceeds(t) \/ RestartFails(t) \/ RestartTimeout(t)
  PROVE  Restarted(t) \/ RestartFailed(t) \/ TimedOut(t)
<1>1. CASE RestartSucceeds(t)
  <2>1. Goes(t, "awaitPromise")
    BY <1>1, OwnRecord, SuspendFields DEF RestartSucceeds, Leave, Goes
  <2> QED
    BY <1>1, <2>1 DEF Restarted, RestartSucceeds, Leave, SessionsStay, serviceMaps, sessionMaps,
                      losses, kernels
<1>2. CASE RestartFails(t)
  <2>1. Goes(t, "awaitPromise")
    BY <1>2, OwnRecord, SuspendFields DEF RestartFails, Goes
  <2> QED
    BY <1>2, <2>1 DEF RestartFailed, RestartFails, losses, kernels
<1>3. CASE RestartTimeout(t)
  BY <1>3 DEF TimedOut, RestartTimeout, SessionsStay, sessionMaps, losses, kernels
<1> QED
  BY <1>1, <1>2, <1>3

\* The call of session s's creation or reconnection attaches it and asks it to start.
Attaches(t, s) ==
    /\ \/ call[t].pc = "creating" /\ s = t
       \/ call[t].pc = "restoring" /\ s = call[t].session
    /\ call'[t].pc = "starting" /\ call'[t].session = s
    /\ call'[t].host = call[t].host /\ call'[t].runtime = call[t].runtime
    /\ call'[t].promise = call[t].promise /\ call'[t].listening = call[t].listening
    /\ \A u \in Calls \ {t} :
         \/ call'[u] = call[u] /\ (call[u].session = s => ~call[u].listening)
         \/ /\ call[u].session = s /\ call'[u].session = s
            /\ call'[u].host = call[u].host /\ call'[u].runtime = call[u].runtime
            /\ call'[u].promise = call[u].promise /\ ~call'[u].listening
            /\ \/ call'[u].pc = call[u].pc
               \/ call[u].pc = "notebookReady" /\ call'[u].pc = "notebookOrphan"
    /\ \E a \in BOOLEAN :
         session' = [session EXCEPT ![s] = [host |-> call[t].host, runtime |-> call[t].runtime,
                                            activate |-> a, relaunch |-> FALSE]]
    /\ state' = [state EXCEPT ![s] = "Uninitialized"]
    /\ kernel' = [kernel EXCEPT ![s] = "none"]
    /\ UNCHANGED <<starting, startingSessions, promise, running, disconnected, disconnecting, extHost>>

\* SessionCreated and SessionRestored attach a session.
LEMMA AttachStep ==
  ASSUME Inv, NEW t \in Calls, SessionCreated(t) \/ SessionRestored(t)
  PROVE  \E s \in Sessions \cup {None} : Attaches(t, s)
<1>1. PICK s \in Sessions \cup {None} :
        /\ \/ call[t].pc = "creating" /\ s = t
           \/ call[t].pc = "restoring" /\ s = call[t].session
        /\ Attach(t, s)
  BY OwnRecord DEF SessionCreated, SessionRestored, Sessions, CallRecord
<1> DEFINE c == call[t]
           where(u) == IF call[u].pc = "notebookReady" THEN "notebookOrphan" ELSE call[u].pc
<1>2. /\ state' = [state EXCEPT ![s] = "Uninitialized"]
      /\ kernel' = [kernel EXCEPT ![s] = "none"]
      /\ UNCHANGED <<starting, startingSessions, promise, running, disconnected, disconnecting, extHost>>
  BY <1>1 DEF Attach, serviceMaps, losses
<1>3. c \in CallRecord
  BY OwnRecord
<1>4. call'[t] = [c EXCEPT !.session = s, !.pc = "starting"]
  BY <1>1, Zenon DEF Attach
<1>5. /\ call'[t].pc = "starting" /\ call'[t].session = s
      /\ call'[t].host = c.host /\ call'[t].runtime = c.runtime
      /\ call'[t].promise = c.promise /\ call'[t].listening = c.listening
  BY <1>3, <1>4 DEF CallRecord
<1>6. ASSUME NEW u \in Calls \ {t}
      PROVE  \/ call'[u] = call[u] /\ (call[u].session = s => ~call[u].listening)
             \/ /\ call[u].session = s /\ call'[u].session = s
                /\ call'[u].host = call[u].host /\ call'[u].runtime = call[u].runtime
                /\ call'[u].promise = call[u].promise /\ ~call'[u].listening
                /\ \/ call'[u].pc = call[u].pc
                   \/ call[u].pc = "notebookReady" /\ call'[u].pc = "notebookOrphan"
  <2>1. call[u] \in CallRecord
    BY OwnRecord
  <2>2. CASE call[u].session # s
    <3>1. call'[u] = call[u]
      BY <1>1, <2>2, Zenon DEF Attach
    <3> QED
      BY <2>2, <3>1
  <2>3. CASE call[u].session = s
    <3>1. call'[u] = [call[u] EXCEPT !.listening = FALSE, !.pc = where(u)]
      BY <1>1, <2>3, Zenon DEF Attach
    <3>2. [call[u] EXCEPT !.listening = FALSE, !.pc = where(u)].listening = FALSE
      BY <2>1, Zenon DEF CallRecord
    <3>3. /\ call'[u].session = call[u].session /\ call'[u].host = call[u].host
          /\ call'[u].runtime = call[u].runtime /\ call'[u].promise = call[u].promise
          /\ call'[u].pc = where(u)
      BY <2>1, <3>1 DEF CallRecord
    <3> QED
      BY <2>3, <3>1, <3>2, <3>3
  <2> QED
    BY <2>2, <2>3
<1>7. \E a \in BOOLEAN :
         session' = [session EXCEPT ![s] = [host |-> call[t].host, runtime |-> call[t].runtime,
                                            activate |-> a, relaunch |-> FALSE]]
  <2>1. session' = [session EXCEPT ![s] = [host |-> call[t].host, runtime |-> call[t].runtime,
                                           activate |-> c.activate, relaunch |-> FALSE]]
    BY <1>1, Zenon DEF Attach
  <2>2. c.activate \in BOOLEAN
    BY <1>3 DEF CallRecord
  <2> QED
    BY <2>1, <2>2, Zenon
<1> QED
  BY <1>1, <1>2, <1>5, <1>6, <1>7, Zenon DEF Attaches

\* session.start() returns.
Starts(t) ==
    /\ call[t].pc = "starting" /\ kernel[call[t].session] = "up"
    /\ Goes(t, "returned")
    /\ Settle(call[t].promise, "fulfilled") /\ ClearStarting(call[t].host, call[t].runtime)
    /\ running' = [running EXCEPT ![call[t].host] = call[t].session]
    /\ UNCHANGED <<session, kernel, state, disconnected, disconnecting, extHost>>

\* StartSucceeds.
LEMMA StartSucceedsStep ==
  ASSUME Inv, NEW t \in Calls, StartSucceeds(t)
  PROVE  Starts(t)
<1>1. Goes(t, "returned")
  BY OwnRecord, SuspendFields DEF StartSucceeds, Goes
<1> QED
  BY <1>1 DEF StartSucceeds, Starts, losses, kernels

\* What an answer does.
LEMMA AnswerStep ==
  ASSUME Inv, NEW t \in Calls, Answer(t)
  PROVE  \/ Validates(t) \/ \E r \in Runtimes : Creates(t, r)
         \/ Fails(t) \/ FailsInvalid(t)
         \/ Restarted(t) \/ RestartFailed(t) \/ TimedOut(t)
         \/ \E s \in Sessions \cup {None} : Attaches(t, s)
         \/ Starts(t)
  BY AutoAnswerStep, FailStep, RestartStep, AttachStep, StartSucceedsStep DEF Answer

-----------------------------------------------------------------------------
(* The maps of running and of disconnected sessions.                       *)

\* A session whose end has not been handled.
Running(s) == kernel[s] \in {"up", "exiting"}

\* A session whose extension host went away.
Lost(s) == Active(s) /\ kernel[s] = "gone" /\ state[s] = "Exited" /\ ~session[s].relaunch

\* The maps of running sessions.
HostsLive ==
    \A h \in Hosts : running[h] # None
        => session[running[h]].host = h /\ Running(running[h])

\* A session that runs is attached and has left its initial state.
RunningOK == \A s \in Sessions : Running(s) => Active(s) /\ state[s] \notin {"Exited", "Uninitialized"}

\* A session is attached by the call that creates it when it asks it to start.
CreatedOK == \A t \in Calls : Active(t) => call[t].pc \in {"starting"} \cup FinalPcs

\* A session that is asked to start is the one the call is for.
StartedOK == \A t \in Calls : call[t].pc = "starting" => SessionOf(t, call[t].session)

\* A session is reconnected by one call, and is in none of the lists meanwhile.
ReconnectOK ==
    /\ \A t \in Calls : call[t].pc = "restoring" =>
         /\ SessionOf(t, call[t].session) /\ Lost(call[t].session)
         /\ call[t].session \notin disconnected \cup disconnecting
    /\ \A t, u \in Calls :
         (call[t].pc = "restoring" /\ call[u].pc = "restoring" /\ call[t].session = call[u].session)
            => t = u
    /\ \A s \in disconnected \cup disconnecting : Lost(s)
    /\ disconnected \cap disconnecting = {}

Safe == HostsLive /\ RunningOK /\ CreatedOK /\ StartedOK /\ ReconnectOK

\* A call that neither attaches nor reconnects a session.
Ordinary(u) ==
    \/ call'[u] = call[u]
    \/ /\ call'[u].pc = call[u].pc /\ call'[u].session = call[u].session
       /\ call'[u].host = call[u].host /\ call'[u].runtime = call[u].runtime
    \/ /\ call'[u].pc \notin {"starting", "restoring"}
       /\ call'[u].pc \in FinalPcs \/ call[u].pc \notin {"starting"} \cup FinalPcs

\* The sessions that exist stay attached for the host and runtime they are for.
SameMetadata ==
    \A s \in Sessions : /\ session'[s].host = session[s].host
                        /\ session'[s].runtime = session[s].runtime
                        /\ Active(s)' <=> Active(s)

\* A step that starts and ends no session.
SafeFrame ==
    /\ \A u \in Calls : Ordinary(u)
    /\ UNCHANGED <<running, kernel>>
    /\ SameMetadata
    /\ \A s \in Sessions : state'[s] = state[s] \/ {state[s], state'[s]} \subseteq OnlineStates
    /\ \A s \in Sessions : Lost(s) => ~session'[s].relaunch
    /\ Remembers

\* The lists of lost sessions hold lost sessions, and none that was not in them before.
ListsKept ==
    /\ \A s \in Sessions : Lost(s) => Lost(s)'
    /\ \A s \in Sessions : (Lost(s) /\ s \notin disconnected \cup disconnecting)
                              => s \notin disconnected' \cup disconnecting'
    /\ \A s \in disconnected' \cup disconnecting' : Lost(s)'
    /\ disconnected' \cap disconnecting' = {}

\* What ordinary calls rely on, when sessions keep their metadata.
LEMMA CallsSafe ==
  ASSUME Inv, Safe, \A u \in Calls : Ordinary(u), SameMetadata, ListsKept
  PROVE  CreatedOK' /\ StartedOK' /\ ReconnectOK'
<1>1. CreatedOK'
  BY DEF Safe, CreatedOK, SameMetadata, Ordinary, Sessions
<1>2. ASSUME NEW t \in Calls, SessionOf(t, call[t].session), call'[t].session = call[t].session,
             call'[t].host = call[t].host, call'[t].runtime = call[t].runtime
      PROVE  SessionOf(t, call[t].session)'
  BY <1>2 DEF SessionOf, SameMetadata
<1>3. StartedOK'
  BY <1>2 DEF Safe, StartedOK, Ordinary
<1>4. ReconnectOK'
  <2>1. ASSUME NEW t \in Calls, call'[t].pc = "restoring"
        PROVE  /\ call[t].pc = "restoring" /\ call'[t].session = call[t].session
               /\ call'[t].host = call[t].host /\ call'[t].runtime = call[t].runtime
    BY <2>1 DEF Ordinary, FinalPcs
  <2>2. ASSUME NEW t \in Calls, call'[t].pc = "restoring"
        PROVE  /\ SessionOf(t, call[t].session)' /\ Lost(call[t].session)'
               /\ call'[t].session \notin disconnected' \cup disconnecting'
    <3>1. /\ SessionOf(t, call[t].session) /\ Lost(call[t].session)
          /\ call[t].session \notin disconnected \cup disconnecting
      BY <2>1, <2>2 DEF Safe, ReconnectOK
    <3>2. PICK s \in Sessions : s = call[t].session /\ s = call'[t].session
      BY <2>1, <2>2, <3>1 DEF SessionOf
    <3>3. Lost(s)' /\ s \notin disconnected' \cup disconnecting'
      BY <3>1, <3>2 DEF ListsKept
    <3>4. SessionOf(t, call[t].session)'
      BY <1>2, <2>1, <2>2, <3>1
    <3> QED
      BY <3>2, <3>3, <3>4 DEF Lost, Active
  <2>3. \A t, u \in Calls :
          (call'[t].pc = "restoring" /\ call'[u].pc = "restoring" /\ call'[t].session = call'[u].session)
             => t = u
    BY <2>1 DEF Safe, ReconnectOK
  <2> QED
    BY <2>2, <2>3 DEF ReconnectOK, ListsKept
<1> QED
  BY <1>1, <1>3, <1>4

\* The lists, when sessions that are lost stay so.
LEMMA RemembersKept ==
  ASSUME Inv, Safe, Remembers, \A s \in Sessions : Lost(s) => Lost(s)'
  PROVE  ListsKept
  BY DEF ListsKept, Remembers, Safe, ReconnectOK, Inv, LossesOK

\* The running sessions of the hosts, when sessions keep their metadata.
LEMMA HostsKept ==
  ASSUME Inv, Safe, SameMetadata, NEW h \in Hosts, running'[h] = running[h], running[h] # None,
         Running(running[h])'
  PROVE  session'[running'[h]].host = h /\ Running(running[h])'
  BY DEF Inv, SessionsOK, Safe, HostsLive, SameMetadata

\* Such a step keeps the invariant.
LEMMA FrameSafe ==
  ASSUME Inv, Safe, SafeFrame
  PROVE  Safe'
<1>1. \A s \in Sessions : (Running(s)' <=> Running(s)) /\ (Lost(s) => Lost(s)')
  BY DEF SafeFrame, SameMetadata, Running, Lost, Active, OnlineStates
<1>2. CreatedOK' /\ StartedOK' /\ ReconnectOK'
  BY <1>1, RemembersKept, CallsSafe DEF SafeFrame
<1>3. HostsLive'
  <2>1. ASSUME NEW h \in Hosts, running'[h] # None
        PROVE  session'[running'[h]].host = h /\ Running(running[h])'
    <3>1. running'[h] = running[h] /\ running[h] # None /\ SameMetadata
      BY <2>1 DEF SafeFrame
    <3>2. Running(running[h])'
      BY <3>1 DEF Safe, HostsLive, Running, SafeFrame
    <3> QED
      BY <3>1, <3>2, HostsKept
  <2> QED
    BY <2>1 DEF HostsLive
<1>4. RunningOK'
  BY <1>1 DEF Safe, RunningOK, SafeFrame, SameMetadata, OnlineStates
<1> QED
  BY <1>2, <1>3, <1>4 DEF Safe

\* What leaves a session's metadata alone but for its relaunch.
LEMMA RelaunchMetadata ==
  ASSUME Inv, NEW s, NEW b \in BOOLEAN, session' = [session EXCEPT ![s].relaunch = b],
         s \in Sessions => Active(s)
  PROVE  SameMetadata
<1> SUFFICES ASSUME NEW u \in Sessions
             PROVE  /\ session'[u].host = session[u].host /\ session'[u].runtime = session[u].runtime
                    /\ Active(u)' <=> Active(u)
  BY DEF SameMetadata
<1>1. CASE u # s
  BY <1>1 DEF Inv, SessionsOK, Active
<1>2. CASE u = s
  <2>1. session[u].host \in Hosts /\ session[u] \in SessionRecord
    BY <1>2 DEF Inv, SessionsOK, Keyed
  <2>2. session'[u] = [session[u] EXCEPT !.relaunch = b]
    BY <1>2 DEF Inv, SessionsOK
  <2>3. session'[u].host = session[u].host /\ session'[u].runtime = session[u].runtime
    BY <2>1, <2>2 DEF SessionRecord
  <2> QED
    BY <1>2, <2>1, <2>3, NoneAssumption DEF Active, NoSession
<1> QED
  BY <1>1, <1>2

\* A call that goes to an await where it attaches nothing is an ordinary one.
LEMMA GoesOrdinary ==
  ASSUME NEW t \in Calls, NEW where, Goes(t, where), where \notin {"starting", "restoring"},
         where \in FinalPcs \/ call[t].pc \notin {"starting"} \cup FinalPcs
  PROVE  \A u \in Calls : Ordinary(u)
  BY DEF Goes, Ordinary

\* Steps of calls that attach nothing.
LEMMA CallFrames ==
  ASSUME Inv, NEW t \in Calls,
         \/ \E h \in Hosts, r \in Runtimes, p \in {<<t, "auto">>, <<t, "create">>} : Begins(t, h, r, p)
         \/ Validates(t) \/ (\E r \in Runtimes : Creates(t, r))
         \/ Fails(t) \/ FailsInvalid(t) \/ Restarted(t) \/ TimedOut(t)
  PROVE  SafeFrame
<1>1. UNCHANGED <<running, session, kernel, state, disconnected, disconnecting>>
  BY DEF Begins, Validates, Creates, Fails, FailsInvalid, Restarted, TimedOut, SessionsStay
<1>2. SameMetadata /\ \A s \in Sessions : Lost(s) => ~session'[s].relaunch
  BY <1>1 DEF SameMetadata, Active, Lost
<1>3. \A u \in Calls : Ordinary(u)
  <2>1. CASE \E h \in Hosts, r \in Runtimes, p \in {<<t, "auto">>, <<t, "create">>} : Begins(t, h, r, p)
    BY <2>1, UnmadePcs DEF Begins, Ordinary, CreatingPcs
  <2>2. CASE \E r \in Runtimes : Creates(t, r)
    BY <2>2 DEF Creates, Ordinary, FinalPcs
  <2>3. CASE Validates(t) \/ Fails(t) \/ FailsInvalid(t) \/ Restarted(t)
    BY <2>3, GoesOrdinary DEF Validates, Fails, FailsInvalid, Restarted, FinalPcs
  <2>4. CASE TimedOut(t)
    BY <2>4 DEF TimedOut, Ordinary, Inv, CallsOK, CallRecord
  <2> QED
    BY <2>1, <2>2, <2>3, <2>4
<1> QED
  BY <1>1, <1>2, <1>3 DEF SafeFrame, Remembers

\* Moves.
LEMMA MovesFrame ==
  ASSUME Moves
  PROVE  SafeFrame
<1>1. UNCHANGED <<running, session, kernel>>
  BY DEF Moves
<1>2. SameMetadata /\ \A s \in Sessions : Lost(s) => ~session'[s].relaunch
  BY <1>1 DEF SameMetadata, Active, Lost
<1>3. \A u \in Calls : Ordinary(u)
  BY DEF Moves, Moved, Inert, Ordinary, CreatingPcs
<1> QED
  BY <1>1, <1>2, <1>3 DEF SafeFrame, Moves

\* The beginning of a restart, and its failure.
LEMMA RestartFrames ==
  ASSUME Inv, NEW t \in Calls,
         \/ \E s \in Sessions : Restarts(t, s)
         \/ RestartFailed(t) /\ (call[t].session \in Sessions => Active(call[t].session))
  PROVE  SafeFrame
<1>1. CASE \E s \in Sessions : Restarts(t, s)
  <2>1. PICK s \in Sessions : Restarts(t, s)
    BY <1>1
  <2>2. /\ session' = [session EXCEPT ![s].relaunch = TRUE] /\ Active(s) /\ state[s] = "Ready"
        /\ state' = [state EXCEPT ![s] = "Restarting"]
        /\ UNCHANGED <<running, kernel, disconnected, disconnecting>>
    BY <2>1 DEF Restarts
  <2>3. SameMetadata
    BY <2>2, RelaunchMetadata
  <2>4. \A u \in Sessions : Lost(u) => ~session'[u].relaunch
    BY <2>2 DEF Lost, Inv, SessionsOK
  <2>5. \A u \in Sessions : state'[u] = state[u] \/ {state[u], state'[u]} \subseteq OnlineStates
    BY <2>2 DEF Inv, KernelsOK, OnlineStates
  <2>6. \A u \in Calls : Ordinary(u)
    BY <2>1 DEF Restarts, Ordinary, FinalPcs
  <2> QED
    BY <2>2, <2>3, <2>4, <2>5, <2>6 DEF SafeFrame, Remembers
<1>2. CASE RestartFailed(t) /\ (call[t].session \in Sessions => Active(call[t].session))
  <2> DEFINE s == call[t].session
  <2>1. /\ session' = [session EXCEPT ![s].relaunch = FALSE]
        /\ UNCHANGED <<running, kernel, state, disconnected, disconnecting>>
    BY <1>2, Zenon DEF RestartFailed
  <2>2. SameMetadata
    BY <1>2, <2>1, RelaunchMetadata
  <2>3. ASSUME NEW u \in Sessions, Lost(u)
        PROVE  ~session'[u].relaunch
    <3>1. CASE u = s
      <4>1. session'[u] = [session[u] EXCEPT !.relaunch = FALSE]
        BY <2>1, <3>1 DEF Inv, SessionsOK
      <4>2. session[u] \in SessionRecord
        BY DEF Inv, SessionsOK
      <4>3. [session[u] EXCEPT !.relaunch = FALSE].relaunch = FALSE
        BY <4>2, Zenon DEF SessionRecord
      <4> QED
        BY <4>1, <4>3
    <3>2. CASE u # s
      BY <2>1, <2>3, <3>2 DEF Inv, SessionsOK, Lost
    <3> QED
      BY <3>1, <3>2
  <2>4. \A u \in Calls : Ordinary(u)
    BY <1>2, GoesOrdinary DEF RestartFailed, FinalPcs
  <2> QED
    BY <2>1, <2>2, <2>3, <2>4 DEF SafeFrame, Remembers
<1> QED
  BY <1>1, <1>2

\* Sessions that are attached stay so, for the host and the runtime they are for.
KeepsMetadata ==
    \A s \in Sessions : Active(s) =>
        /\ session'[s].host = session[s].host /\ session'[s].runtime = session[s].runtime
        /\ Active(s)'

\* A call does not begin to listen.
Quiet(u) ==
    \/ call'[u] = call[u]
    \/ ~Listens(u)'
    \/ /\ Listens(u) /\ call'[u].pc \in {"restarting", "awaitPromise"}
       /\ call'[u].session = call[u].session
       /\ call'[u].host = call[u].host /\ call'[u].runtime = call[u].runtime

\* The listeners stay those of attached sessions.
LEMMA ListenFrame ==
  ASSUME ListenOK, KeepsMetadata, NEW t \in Calls, Quiet(t), Listens(t)'
  PROVE  /\ call'[t].pc \in {"restarting", "awaitPromise"}
         /\ SessionOf(t, call[t].session)' /\ Active(call[t].session)'
<1>1. /\ Listens(t) /\ call'[t].pc \in {"restarting", "awaitPromise"}
      /\ call'[t].session = call[t].session
      /\ call'[t].host = call[t].host /\ call'[t].runtime = call[t].runtime
  BY DEF Quiet, Listens, ListenOK
<1>2. SessionOf(t, call[t].session) /\ Active(call[t].session)
  BY <1>1 DEF ListenOK
<1>3. PICK s \in Sessions : s = call[t].session
  BY <1>2 DEF SessionOf
<1>4. session'[s].host = session[s].host /\ session'[s].runtime = session[s].runtime /\ Active(s)'
  BY <1>2, <1>3 DEF KeepsMetadata
<1> QED
  BY <1>1, <1>2, <1>3, <1>4 DEF SessionOf, Active

\* A call that is inert when it has moved does not listen.
LEMMA MovedQuiet ==
  ASSUME NEW u \in Calls, call'[u] = call[u] \/ Moved(u)
  PROVE  Quiet(u)
  BY DEF Moved, Inert, Quiet, Listens

\* A call that goes on listens only if it did.
LEMMA GoesQuiet ==
  ASSUME ListenOK, NEW t \in Calls, NEW where, Goes(t, where),
         call[t].pc = "restarting" => where = "awaitPromise",
         call[t].pc # "restarting" => call[t].pc \in CreatingPcs /\ where # "restarting"
  PROVE  \A u \in Calls : Quiet(u)
<1>1. CASE call[t].pc = "restarting"
  BY <1>1 DEF Goes, Quiet, Listens
<1>2. CASE call[t].pc \in CreatingPcs /\ where # "restarting"
  BY <1>2 DEF Goes, Quiet, Listens, ListenOK, CreatingPcs
<1> QED
  BY <1>1, <1>2

\* The metadata after a step that keeps it.
LEMMA SameKeeps == ASSUME SameMetadata PROVE KeepsMetadata
  BY DEF SameMetadata, KeepsMetadata

\* The steps of calls keep the listeners.
LEMMA ListenCalls ==
  ASSUME Inv, ListenOK, NEW t \in Calls,
         \/ Moves
         \/ \E h \in Hosts, r \in Runtimes, p \in {<<t, "auto">>, <<t, "create">>} : Begins(t, h, r, p)
         \/ \E s \in Sessions : Restores(t, s)
         \/ Validates(t) \/ (\E r \in Runtimes : Creates(t, r))
         \/ Fails(t) \/ FailsInvalid(t) \/ Restarted(t) \/ RestartFailed(t) \/ TimedOut(t)
         \/ Starts(t)
  PROVE  \A u \in Calls : Quiet(u)
<1>1. CASE Moves
  BY <1>1, MovedQuiet DEF Moves
<1>2. CASE \E h \in Hosts, r \in Runtimes, p \in {<<t, "auto">>, <<t, "create">>} : Begins(t, h, r, p)
  BY <1>2 DEF Begins, Quiet, Listens
<1>3. CASE \E s \in Sessions : Restores(t, s)
  BY <1>3 DEF Restores, Quiet, Listens
<1>4. CASE \E r \in Runtimes : Creates(t, r)
  BY <1>4 DEF Creates, Quiet, Listens, ListenOK
<1>5. CASE Validates(t) \/ Fails(t) \/ FailsInvalid(t) \/ Restarted(t) \/ RestartFailed(t) \/ Starts(t)
  BY <1>5, GoesQuiet DEF Validates, Fails, FailsInvalid, Restarted, RestartFailed, Starts, Creating,
                         CreatingPcs
<1>6. CASE TimedOut(t)
  BY <1>6 DEF TimedOut, Quiet, Inv, CallsOK, CallRecord, ListenOK, Listens
<1> QED
  BY <1>1, <1>2, <1>3, <1>4, <1>5, <1>6

\* A restart begins with its listener.
LEMMA RestartsListen ==
  ASSUME Inv, ListenOK, NEW t \in Calls, NEW s \in Sessions, Restarts(t, s)
  PROVE  ListenOK'
<1>1. SameMetadata
  BY RelaunchMetadata DEF Restarts
<1>2. ASSUME NEW u \in Calls, Listens(u)'
      PROVE  /\ call'[u].pc \in {"restarting", "awaitPromise"}
             /\ SessionOf(u, call[u].session)' /\ Active(call[u].session)'
  <2>1. CASE u # t
    <3>1. Quiet(u)
      BY <2>1 DEF Restarts, Quiet
    <3> QED
      BY <1>1, <1>2, <3>1, ListenFrame, SameKeeps
  <2>2. CASE u = t
    BY <1>1, <2>2 DEF Restarts, SessionOf, Active, SameMetadata
  <2> QED
    BY <2>1, <2>2
<1> QED
  BY <1>2 DEF ListenOK

\* A call that reconnects a session takes it from the list.
LEMMA RestoresSafe ==
  ASSUME Inv, Safe, NEW t \in Calls, NEW s \in Sessions, Restores(t, s)
  PROVE  Safe'
<1>1. /\ UNCHANGED <<running, session, kernel, state, disconnecting>>
      /\ disconnected' = disconnected \ {s} /\ s \in disconnected
      /\ \A u \in Calls \ {t} : call'[u] = call[u]
      /\ call[t].pc = "new" /\ call'[t].pc = "restoring" /\ call'[t].session = s
      /\ call'[t].host = session[s].host /\ call'[t].runtime = session[s].runtime
  BY DEF Restores
<1>2. HostsLive' /\ RunningOK'
  BY <1>1 DEF Safe, HostsLive, RunningOK, Running, Active
<1>3. CreatedOK'
  BY <1>1 DEF Safe, CreatedOK, Active, FinalPcs
<1>4. StartedOK'
  BY <1>1 DEF Safe, StartedOK, SessionOf
<1>5. Lost(s)
  BY <1>1 DEF Safe, ReconnectOK
<1>6. \A u \in Sessions : Lost(u) => Lost(u)'
  BY <1>1 DEF Lost, Active
<1>7. \A u \in Calls \ {t} : call'[u].pc = "restoring" =>
        /\ call[u].session \in Sessions /\ Lost(call[u].session)
        /\ call[u].session # s
  BY <1>1 DEF Safe, ReconnectOK, SessionOf
<1>8. ReconnectOK'
  <2>1. ASSUME NEW u \in Calls, call'[u].pc = "restoring"
        PROVE  /\ SessionOf(u, call[u].session)' /\ Lost(call[u].session)'
               /\ call'[u].session \notin disconnected' \cup disconnecting'
    <3>1. CASE u = t
      <4>1. s \notin disconnected' \cup disconnecting'
        BY <1>1 DEF Safe, ReconnectOK
      <4> QED
        BY <1>1, <1>5, <3>1, <4>1 DEF SessionOf, Lost, Active, Safe, ReconnectOK
    <3>2. CASE u # t
      BY <1>1, <2>1, <3>2 DEF Safe, ReconnectOK, SessionOf, Lost, Active
    <3> QED
      BY <3>1, <3>2
  <2>2. \A u, v \in Calls :
          (call'[u].pc = "restoring" /\ call'[v].pc = "restoring" /\ call'[u].session = call'[v].session)
             => u = v
    BY <1>1, <1>7 DEF Safe, ReconnectOK
  <2>3. \A u \in disconnected' \cup disconnecting' : Lost(u)'
    BY <1>1, <1>6 DEF Safe, ReconnectOK, Inv, LossesOK
  <2>4. (disconnected \cap disconnecting = {})'
    BY <1>1 DEF Safe, ReconnectOK
  <2> QED
    BY <2>1, <2>2, <2>3, <2>4 DEF ReconnectOK
<1> QED
  BY <1>2, <1>3, <1>4, <1>8 DEF Safe

\* The session that is attached has not been running, and nobody else reconnects it.
LEMMA AttachFacts ==
  ASSUME Inv, Safe, NEW t \in Calls, NEW s, Attaches(t, s)
  PROVE  /\ s \in Sessions /\ ~Running(s) /\ s \notin disconnected \cup disconnecting
         /\ Active(s) => SessionOf(t, s)
         /\ \A u \in Calls \ {t} : call[u].pc = "restoring" => call[u].session # s
         /\ \A u \in Sessions \ {s} : session'[u] = session[u] /\ state'[u] = state[u]
                                      /\ kernel'[u] = kernel[u]
         /\ session'[s].host = call[t].host /\ session'[s].runtime = call[t].runtime
         /\ ~session'[s].relaunch /\ Active(s)'
         /\ state'[s] = "Uninitialized" /\ kernel'[s] = "none"
<1>3. /\ s \in Sessions /\ ~Running(s) /\ s \notin disconnected \cup disconnecting
      /\ Active(s) => SessionOf(t, s)
      /\ \A u \in Calls \ {t} : call[u].pc = "restoring" => call[u].session # s
  <2>1. CASE call[t].pc = "creating" /\ s = t
    <3>1. ~Active(s) /\ s \in Sessions
      BY <2>1 DEF Safe, CreatedOK, FinalPcs, Sessions
    <3>2. ~Running(s) /\ s \notin disconnected \cup disconnecting
      BY <3>1 DEF Safe, RunningOK, Inv, LossesOK
    <3> QED
      BY <3>1, <3>2 DEF Safe, ReconnectOK, Lost
  <2>2. CASE call[t].pc = "restoring" /\ s = call[t].session
    BY <2>2 DEF Safe, ReconnectOK, SessionOf, Lost, Running
  <2> QED
    BY <2>1, <2>2 DEF Attaches
<1>4. /\ \A u \in Sessions \ {s} : session'[u] = session[u] /\ state'[u] = state[u]
                                  /\ kernel'[u] = kernel[u]
      /\ state'[s] = "Uninitialized" /\ kernel'[s] = "none"
  BY <1>3 DEF Attaches, Inv, SessionsOK, KernelsOK
<1>5. PICK a \in BOOLEAN :
        session'[s] = [host |-> call[t].host, runtime |-> call[t].runtime,
                       activate |-> a, relaunch |-> FALSE]
  BY <1>3, Zenon DEF Attaches, Inv, SessionsOK
<1>6. session'[s].relaunch = FALSE
  <2> DEFINE m(b) == [host |-> call[t].host, runtime |-> call[t].runtime,
                      activate |-> a, relaunch |-> b]
  <2>1. \A b : m(b).relaunch = b
    OBVIOUS
  <2>2. session'[s] = m(FALSE)
    BY <1>5
  <2> HIDE DEF m
  <2> QED
    BY <2>1, <2>2
<1>7. session'[s].host = call[t].host /\ session'[s].runtime = call[t].runtime
  BY <1>5
<1>8. call[t].host \in Hosts
  BY OwnRecord DEF Attaches, WellFormed, KeyedPcs, CreatingPcs, Keyed
<1>9. Active(s)'
  <2>1. NoSession.host = None
    BY DEF NoSession
  <2> QED
    BY <1>7, <1>8, <2>1, NoneAssumption DEF Active
<1> QED
  BY <1>3, <1>4, <1>6, <1>7, <1>9

\* A session is attached.
LEMMA AttachesSafe ==
  ASSUME Inv, Safe, NEW t \in Calls, NEW s, Attaches(t, s)
  PROVE  Safe' /\ KeepsMetadata
<1>1. /\ s \in Sessions /\ ~Running(s) /\ s \notin disconnected \cup disconnecting
      /\ Active(s) => SessionOf(t, s)
      /\ \A u \in Calls \ {t} : call[u].pc = "restoring" => call[u].session # s
      /\ \A u \in Sessions \ {s} : session'[u] = session[u] /\ state'[u] = state[u]
                                   /\ kernel'[u] = kernel[u]
      /\ session'[s].host = call[t].host /\ session'[s].runtime = call[t].runtime
      /\ ~session'[s].relaunch /\ Active(s)'
      /\ state'[s] = "Uninitialized" /\ kernel'[s] = "none"
  BY AttachFacts
<1>2. UNCHANGED <<running, disconnected, disconnecting>>
  BY DEF Attaches
<1>3. \A u \in Calls \ {t} : /\ call'[u].session = call[u].session /\ call'[u].host = call[u].host
                             /\ call'[u].runtime = call[u].runtime
                             /\ \/ call'[u].pc = call[u].pc
                                \/ call[u].pc = "notebookReady" /\ call'[u].pc = "notebookOrphan"
  BY DEF Attaches
<1>4. /\ call'[t].pc = "starting" /\ call'[t].session = s
      /\ call'[t].host = call[t].host /\ call'[t].runtime = call[t].runtime
      /\ call[t].pc \in {"creating", "restoring"}
      /\ call[t].pc = "creating" => s = t
  BY DEF Attaches
<1>5. KeepsMetadata
  BY <1>1 DEF KeepsMetadata, SessionOf, Active
<1>6. HostsLive'
  <2>1. ASSUME NEW h \in Hosts, running'[h] # None
        PROVE  session'[running'[h]].host = h /\ Running(running[h])'
    <3>1. PICK u \in Sessions : u = running[h] /\ u = running'[h]
      BY <1>2, <2>1 DEF Inv, SessionsOK
    <3>2. session[u].host = h /\ Running(u)
      BY <1>2, <2>1, <3>1 DEF Safe, HostsLive
    <3>3. u # s
      BY <1>1, <3>2
    <3> QED
      BY <1>1, <3>1, <3>2, <3>3 DEF Running
  <2> QED
    BY <2>1 DEF HostsLive
<1>7. RunningOK'
  BY <1>1 DEF Safe, RunningOK, Running, Active
<1>8. CreatedOK'
  <2>1. ASSUME NEW u \in Calls, Active(u)'
        PROVE  call'[u].pc \in {"starting"} \cup FinalPcs
    <3>1. CASE u = t
      BY <1>4, <3>1
    <3>2. CASE u # t
      <4>1. Active(u)
        <5>1. CASE u # s
          BY <1>1, <2>1, <5>1 DEF Active, Sessions
        <5>2. CASE u = s
          <6>1. call[t].pc = "restoring"
            BY <1>4, <3>2, <5>2
          <6> QED
            BY <5>2, <6>1 DEF Safe, ReconnectOK, Lost, Attaches
        <5> QED
          BY <5>1, <5>2
      <4>2. call[u].pc \in {"starting"} \cup FinalPcs
        BY <4>1 DEF Safe, CreatedOK
      <4> QED
        BY <1>3, <3>2, <4>2 DEF FinalPcs
    <3> QED
      BY <3>1, <3>2
  <2> QED
    BY <2>1 DEF CreatedOK
<1>9. StartedOK'
  <2>1. ASSUME NEW u \in Calls, call'[u].pc = "starting"
        PROVE  SessionOf(u, call[u].session)'
    <3>1. CASE u = t
      BY <1>1, <1>4, <3>1 DEF SessionOf
    <3>2. CASE u # t
      <4>1. /\ call[u].pc = "starting" /\ call'[u].session = call[u].session
            /\ call'[u].host = call[u].host /\ call'[u].runtime = call[u].runtime
        BY <1>3, <2>1, <3>2
      <4>2. SessionOf(u, call[u].session)
        BY <4>1 DEF Safe, StartedOK
      <4>3. call[u].host \in Hosts
        BY <4>1, OwnRecord DEF WellFormed, KeyedPcs, CreatingPcs, Keyed
      <4>4. Active(call[u].session)
        BY <4>2, <4>3, NoneAssumption DEF SessionOf, Active, NoSession
      <4> QED
        BY <1>5, <4>1, <4>2, <4>4 DEF KeepsMetadata, SessionOf
    <3> QED
      BY <3>1, <3>2
  <2> QED
    BY <2>1 DEF StartedOK
<1>10. ReconnectOK'
  <2>1. ASSUME NEW u \in Calls, call'[u].pc = "restoring"
        PROVE  u # t /\ call[u].pc = "restoring" /\ call'[u].session = call[u].session
    BY <1>3, <1>4, <2>1
  <2>2. ASSUME NEW u \in Sessions, Lost(u), u # s PROVE Lost(u)'
    BY <1>1, <2>2 DEF Lost, Active
  <2>3. ASSUME NEW u \in Calls, call'[u].pc = "restoring"
        PROVE  /\ SessionOf(u, call[u].session)' /\ Lost(call[u].session)'
               /\ call'[u].session \notin disconnected' \cup disconnecting'
    <3>1. u # t /\ call[u].pc = "restoring" /\ call'[u].session = call[u].session
      BY <2>1, <2>3
    <3>2. /\ SessionOf(u, call[u].session) /\ Lost(call[u].session)
          /\ call[u].session \notin disconnected \cup disconnecting
      BY <3>1 DEF Safe, ReconnectOK
    <3>3. PICK v \in Sessions : v = call[u].session /\ v = call'[u].session /\ v # s
      BY <1>1, <3>1, <3>2 DEF SessionOf
    <3>4. Lost(v)'
      BY <2>2, <3>2, <3>3
    <3>5. session'[v] = session[v]
      BY <1>1, <3>3
    <3> QED
      BY <1>2, <1>3, <3>1, <3>2, <3>3, <3>4, <3>5 DEF SessionOf, Lost, Active
  <2>4. \A u, v \in Calls :
          (call'[u].pc = "restoring" /\ call'[v].pc = "restoring" /\ call'[u].session = call'[v].session)
             => u = v
    BY <2>1 DEF Safe, ReconnectOK
  <2>5. \A u \in disconnected' \cup disconnecting' : Lost(u)'
    BY <1>1, <1>2, <2>2 DEF Safe, ReconnectOK, Inv, LossesOK
  <2> QED
    BY <1>2, <2>3, <2>4, <2>5 DEF ReconnectOK, Safe
<1> QED
  BY <1>5, <1>6, <1>7, <1>8, <1>9, <1>10 DEF Safe

\* session.start() has returned.
LEMMA StartsSafe ==
  ASSUME Inv, Safe, NEW t \in Calls, Starts(t)
  PROVE  Safe' /\ SameMetadata
<1>1. /\ call[t].pc = "starting" /\ kernel[call[t].session] = "up" /\ Goes(t, "returned")
      /\ running' = [running EXCEPT ![call[t].host] = call[t].session]
      /\ UNCHANGED <<session, kernel, state, disconnected, disconnecting>>
  BY DEF Starts
<1>2. SessionOf(t, call[t].session) /\ call[t].host \in Hosts
  BY <1>1, OwnRecord DEF Safe, StartedOK, WellFormed, KeyedPcs, CreatingPcs, Keyed
<1>3. SameMetadata
  BY <1>1 DEF SameMetadata, Active
<1>4. \A s \in Sessions : Lost(s) => Lost(s)'
  BY <1>1 DEF Lost, Active
<1>5. \A u \in Calls : Ordinary(u)
  BY <1>1, GoesOrdinary DEF FinalPcs
<1>6. CreatedOK' /\ StartedOK' /\ ReconnectOK'
  BY <1>1, <1>3, <1>4, <1>5, RemembersKept, CallsSafe DEF Remembers
<1>7. HostsLive'
  <2>1. ASSUME NEW h \in Hosts, running'[h] # None
        PROVE  session'[running'[h]].host = h /\ Running(running[h])'
    <3>1. CASE h = call[t].host
      <4>1. running'[h] = call[t].session
        BY <1>1, <1>2, <3>1 DEF Inv, SessionsOK
      <4> QED
        BY <1>1, <1>2, <3>1, <4>1 DEF SessionOf, Running
    <3>2. CASE h # call[t].host
      <4>1. running'[h] = running[h]
        BY <1>1, <3>2 DEF Inv, SessionsOK
      <4> QED
        BY <1>1, <2>1, <4>1 DEF Safe, HostsLive, Running
    <3> QED
      BY <3>1, <3>2
  <2> QED
    BY <2>1 DEF HostsLive
<1>8. RunningOK'
  BY <1>1 DEF Safe, RunningOK, Running, Active
<1> QED
  BY <1>3, <1>6, <1>7, <1>8 DEF Safe

\* A kernel that was never launched, or is launched again after its end.
Launches(s) ==
    /\ Active(s) /\ state[s] \in {"Uninitialized", "Exited"}
    /\ \/ kernel[s] = "none" /\ \E t \in Calls : call[t].pc = "starting" /\ call[t].session = s
       \/ kernel[s] = "gone" /\ session[s].relaunch
    /\ state' = [state EXCEPT ![s] = "Starting"]
    /\ kernel' = [kernel EXCEPT ![s] = "up"]
    /\ session' = [session EXCEPT ![s].relaunch = FALSE]
    /\ UNCHANGED <<call, starting, startingSessions, promise, running, disconnected,
                   disconnecting, extHost>>

\* KernelLaunched.
LEMMA LaunchStep ==
  ASSUME NEW s \in Sessions, KernelLaunched(s)
  PROVE  Launches(s)
  BY DEF KernelLaunched, Event, Launches, serviceMaps, losses

\* A launch keeps the invariant.
LEMMA LaunchSafe ==
  ASSUME Inv, Safe, NEW s \in Sessions, Launches(s)
  PROVE  Safe' /\ SameMetadata
<1>1. /\ Active(s) /\ state' = [state EXCEPT ![s] = "Starting"] /\ kernel' = [kernel EXCEPT ![s] = "up"]
      /\ session' = [session EXCEPT ![s].relaunch = FALSE]
      /\ UNCHANGED <<call, running, disconnected, disconnecting>>
      /\ kernel[s] = "gone" => session[s].relaunch
  BY DEF Launches
<1>2. SameMetadata
  BY <1>1, RelaunchMetadata
<1>3. /\ \A u \in Sessions \ {s} : session'[u] = session[u] /\ state'[u] = state[u]
                                   /\ kernel'[u] = kernel[u]
      /\ state'[s] = "Starting" /\ kernel'[s] = "up"
  BY <1>1 DEF Inv, SessionsOK, KernelsOK
<1>4. \A u \in Sessions : Lost(u) => Lost(u)'
  <2>1. ~Lost(s)
    BY <1>1 DEF Lost
  <2> QED
    BY <1>3, <2>1 DEF Lost, Active
<1>5. CreatedOK' /\ StartedOK' /\ ReconnectOK'
  BY <1>1, <1>2, <1>4, RemembersKept, CallsSafe DEF Remembers, Ordinary
<1>6. HostsLive'
  <2>1. ASSUME NEW h \in Hosts, running'[h] # None
        PROVE  session'[running'[h]].host = h /\ Running(running[h])'
    <3>1. running'[h] = running[h] /\ running[h] # None /\ running[h] \in Sessions
      BY <1>1, <2>1 DEF Inv, SessionsOK
    <3>2. Running(running[h])'
      BY <1>3, <3>1 DEF Safe, HostsLive, Running
    <3> QED
      BY <1>2, <3>1, <3>2, HostsKept
  <2> QED
    BY <2>1 DEF HostsLive
<1>7. RunningOK'
  BY <1>1, <1>2, <1>3 DEF Safe, RunningOK, Running, SameMetadata
<1> QED
  BY <1>2, <1>5, <1>6, <1>7 DEF Safe

\* A session reports Ready: what its listeners do.
Listened(u, s) == call[u].listening /\ call[u].session = s
Readies(s) ==
    LET h == session[s].host
    IN  /\ Active(s) /\ state[s] = "Starting" /\ kernel[s] = "up"
        /\ state' = [state EXCEPT ![s] = "Ready"]
        /\ running' = IF running[h] = None THEN [running EXCEPT ![h] = s] ELSE running
        /\ \/ (\E u \in Calls : Listened(u, s)) /\ ClearStarting(h, session[s].runtime)
           \/ (\A u \in Calls : ~Listened(u, s)) /\ UNCHANGED <<starting, startingSessions>>
        /\ promise' = [p \in Promises |->
                         IF promise[p] = "pending" /\ \E u \in Calls : Listened(u, s) /\ call[u].promise = p
                         THEN "fulfilled" ELSE promise[p]]
        /\ \A u \in Calls :
             \/ ~Listened(u, s) /\ call'[u] = call[u]
             \/ /\ Listened(u, s) /\ ~call'[u].listening /\ call'[u].pc = call[u].pc
                /\ call'[u].session = call[u].session /\ call'[u].promise = call[u].promise
                /\ call'[u].host = call[u].host /\ call'[u].runtime = call[u].runtime
             \/ ~Listened(u, s) /\ Moved(u)
        /\ UNCHANGED <<session, kernel, disconnected, disconnecting, extHost>>

\* KernelReady.
LEMMA ReadyStep ==
  ASSUME Inv, ListenOK, NEW s \in Sessions, KernelReady(s)
  PROVE  Readies(s)
<1> DEFINE h == session[s].host
           L == {t \in Calls : call[t].listening /\ call[t].session = s}
<1>1. /\ Active(s) /\ state[s] = "Starting" /\ kernel[s] = "up"
      /\ state' = [state EXCEPT ![s] = "Ready"]
      /\ running' = IF running[h] = None THEN [running EXCEPT ![h] = s] ELSE running
      /\ UNCHANGED <<session, kernel, disconnected, disconnecting, extHost>>
  BY DEF KernelReady, Event, HandleReady, losses
<1>2. \/ (\E u \in Calls : Listened(u, s)) /\ ClearStarting(h, session[s].runtime)
      \/ (\A u \in Calls : ~Listened(u, s)) /\ UNCHANGED <<starting, startingSessions>>
  <2>1. IF L = {} THEN UNCHANGED <<starting, startingSessions>>
                  ELSE ClearStarting(h, session[s].runtime)
    BY DEF KernelReady, HandleReady
  <2>2. L = {} <=> \A u \in Calls : ~Listened(u, s)
    BY DEF Listened
  <2> HIDE DEF L
  <2> QED
    BY <2>1, <2>2
<1>3. promise' = [p \in Promises |->
                    IF promise[p] = "pending" /\ \E u \in Calls : Listened(u, s) /\ call[u].promise = p
                    THEN "fulfilled" ELSE promise[p]]
  <2>1. promise' = [p \in Promises |->
                      IF promise[p] = "pending" /\ \E t \in L : call[t].promise = p
                      THEN "fulfilled" ELSE promise[p]]
    BY DEF KernelReady, HandleReady
  <2>2. ASSUME NEW p \in Promises
        PROVE  (\E t \in L : call[t].promise = p)
                 <=> \E u \in Calls : Listened(u, s) /\ call[u].promise = p
    BY DEF Listened
  <2> HIDE DEF L
  <2> QED
    BY <2>1, <2>2
<1>4. ASSUME NEW u \in Calls
      PROVE  \/ ~Listened(u, s) /\ call'[u] = call[u]
             \/ /\ Listened(u, s) /\ ~call'[u].listening /\ call'[u].pc = call[u].pc
                /\ call'[u].session = call[u].session /\ call'[u].promise = call[u].promise
                /\ call'[u].host = call[u].host /\ call'[u].runtime = call[u].runtime
             \/ ~Listened(u, s) /\ Moved(u)
  <2>1. call[u] \in CallRecord
    BY OwnRecord
  <2>2. CASE Listened(u, s)
    <3>1. u \in L
      BY <2>2 DEF Listened
    <3>2. call'[u] = [call[u] EXCEPT !.listening = FALSE]
      BY <3>1, Zenon DEF KernelReady, HandleReady
    <3>3. [call[u] EXCEPT !.listening = FALSE].listening = FALSE
      BY <2>1, Zenon DEF CallRecord
    <3>4. /\ call'[u].pc = call[u].pc
          /\ call'[u].session = call[u].session /\ call'[u].promise = call[u].promise
          /\ call'[u].host = call[u].host /\ call'[u].runtime = call[u].runtime
      BY <2>1, <3>2 DEF CallRecord
    <3> QED
      BY <2>2, <3>2, <3>3, <3>4
  <2>3. CASE ~Listened(u, s)
    <3>1. u \notin L
      BY <2>3 DEF Listened
    <3>2. CASE ~(call[u].pc = "notebookReady" /\ call[u].session = s)
      <4>1. call'[u] = call[u]
        BY <3>1, <3>2, Zenon DEF KernelReady, HandleReady
      <4> QED
        BY <2>3, <4>1
    <3>3. CASE call[u].pc = "notebookReady" /\ call[u].session = s
      <4>1. call'[u] = [call[u] EXCEPT !.pc = "notebookResume"]
        BY <3>1, <3>3, Zenon DEF KernelReady, HandleReady
      <4>2. call'[u].pc = "notebookResume" /\ call'[u].listening = call[u].listening
        BY <2>1, <4>1 DEF CallRecord
      <4>3. ~call[u].listening
        BY <3>3 DEF ListenOK, Listens
      <4>4. Moved(u)
        BY <3>3, <4>2, <4>3 DEF Moved, Inert, CreatingPcs, FinalPcs, Unmade
      <4> QED
        BY <2>3, <4>4
    <3> QED
      BY <3>2, <3>3
  <2> QED
    BY <2>2, <2>3
<1> QED
  BY <1>1, <1>2, <1>3, <1>4, Zenon DEF Readies

\* Ready keeps the invariant.
LEMMA ReadySafe ==
  ASSUME Inv, Safe, NEW s \in Sessions, Readies(s)
  PROVE  Safe' /\ SameMetadata
<1> DEFINE h0 == session[s].host
<1>1. /\ Active(s) /\ kernel[s] = "up" /\ state[s] = "Starting"
      /\ state' = [state EXCEPT ![s] = "Ready"]
      /\ running' = IF running[h0] = None THEN [running EXCEPT ![h0] = s] ELSE running
      /\ UNCHANGED <<session, kernel, disconnected, disconnecting>>
  BY DEF Readies
<1>2. SameMetadata
  BY <1>1 DEF SameMetadata, Active
<1>3. h0 \in Hosts
  BY <1>1 DEF Inv, SessionsOK, Keyed
<1>4. \A u \in Sessions : Lost(u) => Lost(u)'
  BY <1>1 DEF Lost, Active, Inv, KernelsOK
<1>5. \A u \in Calls : Ordinary(u)
  <2>1. \A u \in Calls : Moved(u) => Ordinary(u)
    BY DEF Moved, Inert, Ordinary, CreatingPcs
  <2> QED
    BY <2>1 DEF Readies, Ordinary
<1>6. CreatedOK' /\ StartedOK' /\ ReconnectOK'
  BY <1>1, <1>2, <1>4, <1>5, RemembersKept, CallsSafe DEF Remembers
<1>7. HostsLive'
  <2>1. ASSUME NEW h \in Hosts, running'[h] # None
        PROVE  session'[running'[h]].host = h /\ Running(running[h])'
    <3>1. CASE running'[h] = running[h]
      BY <1>1, <2>1, <3>1 DEF Safe, HostsLive, Running
    <3>2. CASE running'[h] # running[h]
      <4>1. h = h0 /\ running'[h] = s
        BY <1>1, <1>3, <3>2 DEF Inv, SessionsOK
      <4> QED
        BY <1>1, <4>1 DEF Running
    <3> QED
      BY <3>1, <3>2
  <2> QED
    BY <2>1 DEF HostsLive
<1>8. RunningOK'
  BY <1>1 DEF Safe, RunningOK, Running, Active, Inv, KernelsOK
<1> QED
  BY <1>2, <1>6, <1>7, <1>8 DEF Safe

\* A kernel process ends.
LEMMA KernelExitsSafe ==
  ASSUME Inv, Safe, NEW s \in Sessions, KernelExits(s)
  PROVE  Safe' /\ SameMetadata
<1>1. /\ kernel[s] = "up" /\ kernel' = [kernel EXCEPT ![s] = "exiting"]
      /\ UNCHANGED <<call, running, session, state, disconnected, disconnecting>>
  BY DEF KernelExits, sessionMaps, losses
<1>2. SameMetadata
  BY <1>1 DEF SameMetadata, Active
<1>3. \A u \in Sessions : (Lost(u) => Lost(u)') /\ (Running(u)' <=> Running(u))
  BY <1>1 DEF Lost, Active, Running, Inv, KernelsOK
<1>4. CreatedOK' /\ StartedOK' /\ ReconnectOK'
  BY <1>1, <1>2, <1>3, RemembersKept, CallsSafe DEF Remembers, Ordinary
<1>5. HostsLive'
  <2>1. ASSUME NEW h \in Hosts, running'[h] # None
        PROVE  session'[running'[h]].host = h /\ Running(running[h])'
    <3>1. running'[h] = running[h] /\ running[h] # None /\ running[h] \in Sessions
      BY <1>1, <2>1 DEF Inv, SessionsOK
    <3>2. Running(running[h])'
      BY <1>1, <3>1 DEF Safe, HostsLive, Running, Inv, KernelsOK
    <3> QED
      BY <1>2, <3>1, <3>2, HostsKept
  <2> QED
    BY <2>1 DEF HostsLive
<1>6. RunningOK'
  BY <1>1, <1>2, <1>3 DEF Safe, RunningOK, SameMetadata
<1> QED
  BY <1>2, <1>4, <1>5, <1>6 DEF Safe

\* One of the two events of a session's end.
Exits(s) ==
    /\ \/ /\ Active(s) /\ state[s] # "Exited" /\ kernel[s] \in {"exiting", "ended"}
          /\ state' = [state EXCEPT ![s] = "Exited"]
          /\ kernel' = [kernel EXCEPT ![s] = IF @ = "exiting" THEN "exited" ELSE "gone"]
       \/ /\ kernel[s] \in {"exiting", "exited"}
          /\ kernel[s] = "exiting" => StatesMayLag \/ state[s] = "Starting"
          /\ kernel' = [kernel EXCEPT ![s] = IF @ = "exiting" THEN "ended" ELSE "gone"]
          /\ UNCHANGED state
    /\ running' = MapsAfterExit({s})
    /\ \A u \in Calls : call'[u] = call[u] \/ Moved(u)
    /\ UNCHANGED <<starting, startingSessions, promise, session, disconnected, disconnecting, extHost>>

\* SessionExited and SessionEnded.
LEMMA ExitStep ==
  ASSUME Inv, ListenOK, NEW s \in Sessions, ExitEvent(s)
  PROVE  Exits(s)
<1>1. CASE SessionExited(s)
  BY <1>1 DEF SessionExited, Event, Exits, serviceMaps, losses
<1>2. CASE SessionEnded(s)
  <2>1. PICK S : call' = CallsAfterShutdown(S, TRUE)
    BY <1>2 DEF SessionEnded, EndShutdowns, SettleShutdowns
  <2>2. \A u \in Calls : call'[u] = call[u] \/ Moved(u)
    BY <2>1, SettleMoves
  <2> QED
    BY <1>2, <2>2 DEF SessionEnded, Exits, serviceMaps, losses
<1> QED
  BY <1>1, <1>2 DEF ExitEvent

\* A session that ends is no longer in the map of its host.
LEMMA MapsForget ==
  ASSUME Inv, HostsLive, NEW S, running' = MapsAfterExit(S), NEW h \in Hosts, running'[h] # None
  PROVE  running'[h] = running[h] /\ running[h] \in Sessions /\ running[h] \notin S
<1>1. running'[h] = running[h] /\ running[h] \in Sessions
  BY DEF MapsAfterExit, Inv, SessionsOK
<1>2. session[running[h]].host = h
  BY <1>1 DEF HostsLive
<1> QED
  BY <1>1, <1>2 DEF MapsAfterExit

\* The end of a session keeps the invariant.
LEMMA ExitsSafe ==
  ASSUME Inv, Safe, NEW s \in Sessions, Exits(s)
  PROVE  Safe' /\ SameMetadata
<1>1. /\ UNCHANGED <<session, disconnected, disconnecting>>
      /\ running' = MapsAfterExit({s})
      /\ \A u \in Calls : call'[u] = call[u] \/ Moved(u)
  BY DEF Exits
<1>2. /\ \A u \in Sessions \ {s} : state'[u] = state[u] /\ kernel'[u] = kernel[u]
      /\ kernel'[s] \in {"exited", "gone", "ended"} /\ kernel[s] # "gone"
  BY DEF Exits, Inv, KernelsOK
<1>3. SameMetadata
  BY <1>1 DEF SameMetadata, Active
<1>4. \A u \in Sessions : Lost(u) => Lost(u)'
  BY <1>1, <1>2 DEF Lost, Active
<1>5. \A u \in Calls : Ordinary(u)
  BY <1>1 DEF Moved, Inert, Ordinary, CreatingPcs
<1>6. CreatedOK' /\ StartedOK' /\ ReconnectOK'
  BY <1>1, <1>3, <1>4, <1>5, RemembersKept, CallsSafe DEF Remembers
<1>7. HostsLive'
  <2>1. ASSUME NEW h \in Hosts, running'[h] # None
        PROVE  session'[running'[h]].host = h /\ Running(running[h])'
    <3>1. running'[h] = running[h] /\ running[h] \in Sessions /\ running[h] # s
      BY <1>1, <2>1, MapsForget DEF Safe
    <3> QED
      BY <1>1, <1>2, <2>1, <3>1 DEF Safe, HostsLive, Running
  <2> QED
    BY <2>1 DEF HostsLive
<1>8. RunningOK'
  BY <1>1, <1>2 DEF Safe, RunningOK, Running, Active
<1> QED
  BY <1>3, <1>6, <1>7, <1>8 DEF Safe

\* The extension host is lost.
LEMMA LoseSafe ==
  ASSUME Inv, Safe, ListenOK, LoseExtHost
  PROVE  Safe' /\ SameMetadata /\ \A u \in Calls : call'[u] = call[u] \/ Moved(u)
<1> DEFINE S == {s \in Sessions : Active(s) /\ state[s] # "Exited"}
<1>1. /\ state' = [s \in Sessions |-> IF s \in S THEN "Exited" ELSE state[s]]
      /\ kernel' = [s \in Sessions |-> IF Active(s) THEN "gone" ELSE kernel[s]]
      /\ running' = MapsAfterExit(S)
      /\ disconnecting' = disconnecting \cup S /\ UNCHANGED disconnected
  BY DEF LoseExtHost
<1>2. session' = [s \in Sessions |-> IF s \in Sessions THEN [session[s] EXCEPT !.relaunch = FALSE]
                                     ELSE session[s]]
  BY DEF LoseExtHost
<1>3. ASSUME NEW s \in Sessions
      PROVE  /\ session'[s].host = session[s].host /\ session'[s].runtime = session[s].runtime
             /\ session'[s].relaunch = FALSE /\ (Active(s)' <=> Active(s))
  <2>1. session[s] \in SessionRecord
    BY DEF Inv, SessionsOK
  <2>2. session'[s] = [session[s] EXCEPT !.relaunch = FALSE]
    BY <1>2
  <2>3. session'[s].host = session[s].host /\ session'[s].runtime = session[s].runtime
    BY <2>1, <2>2 DEF SessionRecord
  <2>4. [session[s] EXCEPT !.relaunch = FALSE].relaunch = FALSE
    BY <2>1, Zenon DEF SessionRecord
  <2>5. Active(s) => Active(s)'
    <3>1. Active(s) => session[s].host \in Hosts
      BY DEF Inv, SessionsOK, Keyed
    <3>2. NoSession.host = None
      BY DEF NoSession
    <3> QED
      BY <2>3, <3>1, <3>2, NoneAssumption DEF Active
  <2>6. ~Active(s) => ~Active(s)'
    <3> SUFFICES ASSUME ~Active(s) PROVE session'[s] = NoSession
      BY DEF Active
    <3>1. session[s] = NoSession
      BY DEF Active
    <3>2. [NoSession EXCEPT !.relaunch = FALSE] = NoSession
      <4>1. \A r \in SessionRecord, b \in BOOLEAN : r.relaunch = b => [r EXCEPT !.relaunch = b] = r
        BY DEF SessionRecord
      <4>2. NoSession.relaunch = FALSE
        BY Zenon DEF NoSession
      <4> QED
        BY <2>1, <3>1, <4>1, <4>2
    <3> QED
      BY <2>2, <3>1, <3>2
  <2> QED
    BY <2>2, <2>3, <2>4, <2>5, <2>6
<1>4. SameMetadata
  BY <1>3 DEF SameMetadata
<1>5. \A u \in Calls : call'[u] = call[u] \/ Moved(u)
  <2>1. PICK T : call' = CallsAfterShutdown(T, TRUE)
    BY DEF LoseExtHost, EndShutdowns, SettleShutdowns
  <2> QED
    BY <2>1, SettleMoves
<1>6. ASSUME NEW s \in Sessions
      PROVE  /\ Lost(s) => Lost(s)' /\ s \notin S
             /\ s \in S => Lost(s)'
             /\ ~Running(s)'
  <2>1. Active(s) => kernel'[s] = "gone" /\ state'[s] = "Exited"
    BY <1>1
  <2>2. ~Active(s) => kernel'[s] = kernel[s] /\ ~Running(s)
    BY <1>1 DEF Safe, RunningOK
  <2> QED
    BY <1>3, <2>1, <2>2 DEF Lost, Running
<1>7. ListsKept
  BY <1>1, <1>6 DEF ListsKept, Safe, ReconnectOK, Inv, LossesOK
<1>8. \A u \in Calls : Ordinary(u)
  BY <1>5 DEF Moved, Inert, Ordinary, CreatingPcs
<1>9. CreatedOK' /\ StartedOK' /\ ReconnectOK'
  BY <1>4, <1>7, <1>8, CallsSafe
<1>10. HostsLive'
  <2>1. ASSUME NEW h \in Hosts, running'[h] # None PROVE FALSE
    <3>1. running'[h] = running[h] /\ running[h] \in Sessions /\ running[h] \notin S
      BY <1>1, <2>1, MapsForget DEF Safe
    <3>2. Running(running[h])
      BY <2>1, <3>1 DEF Safe, HostsLive
    <3> QED
      BY <3>1, <3>2 DEF Safe, RunningOK
  <2> QED
    BY <2>1 DEF HostsLive
<1>11. RunningOK'
  BY <1>6 DEF RunningOK
<1> QED
  BY <1>4, <1>5, <1>9, <1>10, <1>11 DEF Safe

-----------------------------------------------------------------------------
(* The first invariant.                                                    *)

SafeInv == Inv /\ ListenOK /\ Safe

\* No session exists initially.
LEMMA SafeInit == Init => SafeInv
<1> SUFFICES ASSUME Init PROVE SafeInv
  OBVIOUS
<1>1. Inv
  BY InitInv
<1>2. \A t \in Calls : call[t].pc = "new"
  BY DEF Init, NewCall
<1>3. \A t \in Calls : ~call[t].listening
  <2>1. NewCall.listening = FALSE
    BY Zenon DEF NewCall
  <2> QED
    BY <2>1 DEF Init
<1>4. ListenOK
  BY <1>2, <1>3 DEF ListenOK, Listens
<1>5. \A s \in Sessions : ~Active(s)
  BY DEF Init, Active
<1>6. Safe
  BY <1>2, <1>5 DEF Init, Safe, HostsLive, RunningOK, CreatedOK, StartedOK, ReconnectOK, Running,
                    Sessions
<1> QED
  BY <1>1, <1>4, <1>6 DEF SafeInv

\* Every step keeps the listeners.
LEMMA ListenNext ==
  ASSUME SafeInv, Moves \/ Changes
  PROVE  ListenOK'
<1> USE DEF SafeInv
<1>1. ASSUME KeepsMetadata, \A u \in Calls : Quiet(u) PROVE ListenOK'
  BY <1>1, ListenFrame DEF ListenOK
<1>2. CASE Moves
  <2>1. KeepsMetadata
    BY <1>2, MovesFrame, SameKeeps DEF SafeFrame
  <2>2. \A u \in Calls : Quiet(u)
    BY <1>2, MovedQuiet DEF Moves
  <2> QED
    BY <1>1, <2>1, <2>2
<1>3. ASSUME NEW t \in Calls,
             \/ \E h \in Hosts, r \in Runtimes, p \in {<<t, "auto">>, <<t, "create">>} : Begins(t, h, r, p)
             \/ Validates(t) \/ (\E r \in Runtimes : Creates(t, r))
             \/ Fails(t) \/ FailsInvalid(t) \/ Restarted(t) \/ TimedOut(t)
      PROVE  ListenOK'
  <2>1. KeepsMetadata
    BY <1>3, CallFrames, SameKeeps DEF SafeFrame
  <2>2. \A u \in Calls : Quiet(u)
    BY <1>3, ListenCalls
  <2> QED
    BY <1>1, <2>1, <2>2
<1>4. ASSUME NEW t \in Calls, RestartFailed(t) PROVE ListenOK'
  <2>1. Active(call[t].session)
    BY <1>4 DEF RestartFailed, ListenOK, Listens
  <2>2. KeepsMetadata
    BY <1>4, <2>1, RestartFrames, SameKeeps DEF SafeFrame
  <2>3. \A u \in Calls : Quiet(u)
    BY <1>4, ListenCalls
  <2> QED
    BY <1>1, <2>2, <2>3
<1>5. ASSUME NEW t \in Calls, NEW s \in Sessions, Restores(t, s) PROVE ListenOK'
  <2>1. KeepsMetadata
    BY <1>5 DEF Restores, KeepsMetadata, Active
  <2>2. \A u \in Calls : Quiet(u)
    BY <1>5, ListenCalls
  <2> QED
    BY <1>1, <2>1, <2>2
<1>6. ASSUME NEW t \in Calls, NEW s, Attaches(t, s) PROVE ListenOK'
  <2>1. KeepsMetadata
    BY <1>6, AttachesSafe
  <2>2. ~Listens(t)'
    BY <1>6 DEF Attaches, ListenOK, Listens
  <2>3. \A u \in Calls \ {t} : Quiet(u)
    BY <1>6 DEF Attaches, Quiet, Listens, ListenOK
  <2> QED
    BY <1>1, <2>1, <2>2, <2>3 DEF Quiet
<1>7. ASSUME NEW t \in Calls, Starts(t) PROVE ListenOK'
  BY <1>1, <1>7, StartsSafe, SameKeeps, ListenCalls
<1>8. ASSUME NEW s \in Sessions, Launches(s) \/ KernelExits(s) PROVE ListenOK'
  <2>1. SameMetadata
    BY <1>8, LaunchSafe, KernelExitsSafe
  <2>2. \A u \in Calls : Quiet(u)
    BY <1>8 DEF Launches, KernelExits, Quiet
  <2> QED
    BY <1>1, <2>1, <2>2, SameKeeps
<1>9. ASSUME NEW s \in Sessions, Readies(s) PROVE ListenOK'
  <2>1. \A u \in Calls : Quiet(u)
    BY <1>9, MovedQuiet DEF Readies, Quiet, Listens, Listened, ListenOK
  <2> QED
    BY <1>1, <1>9, <2>1, ReadySafe, SameKeeps
<1>10. ASSUME NEW s \in Sessions, Exits(s) PROVE ListenOK'
  BY <1>1, <1>10, ExitsSafe, SameKeeps, MovedQuiet DEF Exits
<1>11. ASSUME LoseExtHost PROVE ListenOK'
  BY <1>1, <1>11, LoseSafe, SameKeeps, MovedQuiet
<1>12. ASSUME NEW t \in Calls, NEW s \in Sessions, Restarts(t, s) PROVE ListenOK'
  BY <1>12, RestartsListen
<1>13. ASSUME NEW t \in Calls, Answer(t) PROVE ListenOK'
  BY <1>3, <1>4, <1>6, <1>7, <1>13, AnswerStep
<1>14. ASSUME NEW t \in Calls, RestartTimeout(t) PROVE ListenOK'
  BY <1>3, <1>4, <1>14, RestartStep
<1> QED
  BY <1>2, <1>3, <1>5, <1>8, <1>9, <1>10, <1>11, <1>12, <1>13, <1>14, LaunchStep, ReadyStep, ExitStep
     DEF Changes

\* Every step keeps the first invariant.
LEMMA SafeNext == SafeInv /\ [Next]_vars => SafeInv'
<1> SUFFICES ASSUME SafeInv, [Next]_vars PROVE SafeInv'
  OBVIOUS
<1> USE DEF SafeInv
<1>1. Inv'
  BY NextInv
<1>2. Moves \/ Changes
  BY StepKinds
<1>3. ListenOK'
  BY <1>2, ListenNext
<1>4. Safe'
  <2>1. CASE Moves
    BY <2>1, MovesFrame, FrameSafe
  <2>2. ASSUME NEW t \in Calls,
               \/ \E h \in Hosts, r \in Runtimes, p \in {<<t, "auto">>, <<t, "create">>} : Begins(t, h, r, p)
               \/ Validates(t) \/ (\E r \in Runtimes : Creates(t, r))
               \/ Fails(t) \/ FailsInvalid(t) \/ Restarted(t) \/ TimedOut(t)
        PROVE  Safe'
    BY <2>2, CallFrames, FrameSafe
  <2>3. ASSUME NEW t \in Calls, RestartFailed(t) PROVE Safe'
    <3>1. Active(call[t].session)
      BY <2>3 DEF RestartFailed, ListenOK, Listens
    <3> QED
      BY <2>3, <3>1, RestartFrames, FrameSafe
  <2>4. ASSUME NEW t \in Calls, NEW s \in Sessions, Restarts(t, s) PROVE Safe'
    BY <2>4, RestartFrames, FrameSafe
  <2>5. ASSUME NEW t \in Calls, Answer(t) \/ RestartTimeout(t) PROVE Safe'
    BY <2>2, <2>3, <2>5, AnswerStep, RestartStep, AttachesSafe, StartsSafe
  <2> QED
    BY <1>2, <2>1, <2>2, <2>4, <2>5, RestoresSafe, LaunchStep, LaunchSafe, ReadyStep, ReadySafe,
       KernelExitsSafe, ExitStep, ExitsSafe, LoseSafe DEF Changes
<1> QED
  BY <1>1, <1>3, <1>4

\* The maps, the listeners and the lists of lost sessions agree in every reachable state.
THEOREM SafeInvariant == Spec => []SafeInv
<1> QED
  BY SafeInit, SafeNext, PTL DEF Spec

\* The maps of running sessions hold only sessions of their own host that have
\* been launched and whose end has not been handled, whatever the order in which
\* start replies, Ready, Exited and onDidEndSession arrive, with restarts,
\* reconnections and losses of the extension host at any time.
THEOREM RunningSessionsAreLive == Spec => []RunningIsLive
<1>1. SafeInv => RunningIsLive
  BY DEF SafeInv, Safe, HostsLive, Running, RunningIsLive
<1> QED
  BY <1>1, SafeInvariant, PTL

\* A session that waits to be reconnected is never a running one of its host.
THEOREM ReconnectableAreNotRunning == Spec => []DisconnectedNotRunning
<1>1. SafeInv => DisconnectedNotRunning
  <2> SUFFICES ASSUME SafeInv, NEW h \in Hosts, running[h] \in disconnected PROVE FALSE
    BY DEF DisconnectedNotRunning
  <2>1. running[h] \in Sessions /\ running[h] # None
    BY NoneAssumption DEF SafeInv, Inv, LossesOK, Sessions
  <2> QED
    BY <2>1 DEF SafeInv, Safe, HostsLive, ReconnectOK, Lost, Running
<1> QED
  BY <1>1, SafeInvariant, PTL

-----------------------------------------------------------------------------
(* Hosts that are marked as starting.                                      *)
(*                                                                         *)
(* Without restarts, whose timer forgets to clear the mark, only a call    *)
(* that creates or reconnects a session marks its host, it clears the mark *)
(* when it ends, and it is the only one that does so there.                *)

NoListener == \A t \in Calls : ~Listens(t)

StartsFor(t, h) == Creating(t) /\ call[t].host = h
MarksOwned == \A h \in Hosts : starting[h] # None => \E t \in Calls : StartsFor(t, h)

MarkInv == SafeInv /\ NoListener /\ MarksOwned

\* A call that creates a session at a host goes on doing so.
Persists(u) == Creating(u) => Creating(u)' /\ call'[u].host = call[u].host

\* The marks stay owned when no mark is set and the owner of every one that is
\* left goes on.
LEMMA MarksKept ==
  ASSUME MarkInv,
         \A h \in Hosts : starting'[h] \in {starting[h], None},
         \A u \in Calls : Persists(u) \/ starting'[call[u].host] = None
  PROVE  MarksOwned'
  BY DEF MarkInv, MarksOwned, StartsFor, Persists

\* A call that is given the mark of its host.
LEMMA MarksSet ==
  ASSUME MarkInv, NEW t \in Calls, NEW h, NEW r,
         starting' = [starting EXCEPT ![h] = r], Creating(t)', call'[t].host = h,
         \A u \in Calls \ {t} : call'[u] = call[u],
         Creating(t) => call[t].host = h
  PROVE  MarksOwned'
  BY DEF MarkInv, MarksOwned, StartsFor, Creating, SafeInv, Inv, StartsOK

\* Calls that only move keep their sessions.
LEMMA MovedPersists ==
  ASSUME NEW u \in Calls, call'[u] = call[u] \/ Moved(u)
  PROVE  Persists(u)
  BY DEF Persists, Creating, Moved, Inert

\* Nothing starts initially.
LEMMA MarkInit == Init => MarkInv
<1> SUFFICES ASSUME Init PROVE MarkInv
  OBVIOUS
<1>1. SafeInv
  BY SafeInit
<1>2. MarksOwned
  BY DEF Init, MarksOwned
<1>3. NewCall.listening = FALSE /\ NewCall.pc = "new"
  BY Zenon DEF NewCall
<1>4. NoListener
  BY <1>3 DEF Init, NoListener, Listens
<1> QED
  BY <1>1, <1>2, <1>4 DEF MarkInv

\* Every step keeps the marks owned.
LEMMA MarksNext ==
  ASSUME "restart" \notin Requests, MarkInv, [Next]_vars
  PROVE  MarkInv'
<1> USE DEF MarkInv
<1>1. SafeInv' /\ (Moves \/ Changes)
  BY SafeNext, StepKinds DEF SafeInv
<1>2. ASSUME NoListener', MarksOwned' PROVE MarkInv'
  BY <1>1, <1>2
<1>3. CASE Moves
  <2>1. NoListener'
    BY <1>3 DEF Moves, Moved, Inert, NoListener, Listens
  <2>2. MarksOwned'
    BY <1>3, MarksKept, MovedPersists DEF Moves
  <2> QED
    BY <1>2, <2>1, <2>2
<1>4. ASSUME NEW t \in Calls, NEW h \in Hosts, NEW r \in Runtimes,
             NEW p \in {<<t, "auto">>, <<t, "create">>}, Begins(t, h, r, p)
      PROVE  MarkInv'
  <2>1. NoListener'
    BY <1>4 DEF Begins, NoListener, Listens
  <2>2. MarksOwned'
    BY <1>4, MarksSet DEF Begins, BeginStart, Creating, CreatingPcs, Inert
  <2> QED
    BY <1>2, <2>1, <2>2
<1>5. ASSUME NEW t \in Calls, NEW s \in Sessions, Restores(t, s)
      PROVE  MarkInv'
  <2>1. NoListener'
    BY <1>5 DEF Restores, NoListener, Listens
  <2>2. MarksOwned'
    BY <1>5, MarksSet DEF Restores, BeginStart, Creating, CreatingPcs, Inert
  <2> QED
    BY <1>2, <2>1, <2>2
<1>6. ASSUME NEW t \in Calls, Restarted(t) \/ RestartFailed(t) \/ TimedOut(t) \/ \E s \in Sessions : Restarts(t, s)
      PROVE  FALSE
  BY <1>6 DEF Restarted, RestartFailed, TimedOut, Restarts, NoListener, Listens
<1>7. ASSUME NEW t \in Calls, NEW r \in Runtimes, Creates(t, r)
      PROVE  MarkInv'
  <2>1. NoListener'
    BY <1>7 DEF Creates, NoListener, Listens
  <2>2. MarksOwned'
    BY <1>7, MarksSet DEF Creates, BeginStart, Creating, CreatingPcs
  <2> QED
    BY <1>2, <2>1, <2>2
<1>8. ASSUME NEW t \in Calls, Validates(t)
      PROVE  MarkInv'
  <2>1. NoListener'
    BY <1>8 DEF Validates, Goes, NoListener, Listens
  <2>2. MarksOwned'
    BY <1>8, MarksKept DEF Validates, Goes, Persists, Creating, CreatingPcs
  <2> QED
    BY <1>2, <2>1, <2>2
<1>9. ASSUME NEW t \in Calls, Fails(t) \/ FailsInvalid(t) \/ Starts(t)
      PROVE  MarkInv'
  <2>1. NoListener'
    BY <1>9 DEF Fails, FailsInvalid, Starts, Goes, NoListener, Listens
  <2>2. call[t].host \in Hosts /\ starting' = [starting EXCEPT ![call[t].host] = None]
    BY <1>9, OwnRecord DEF Fails, FailsInvalid, Starts, ClearStarting, Creating, CreatingPcs, SafeInv,
                           WellFormed, KeyedPcs, Keyed
  <2>3. \A u \in Calls \ {t} : Persists(u)
    BY <1>9 DEF Fails, FailsInvalid, Starts, Goes, Persists, Creating
  <2>4. MarksOwned'
    BY <2>2, <2>3, MarksKept DEF SafeInv, Inv, StartsOK
  <2> QED
    BY <1>2, <2>1, <2>4
<1>10. ASSUME NEW t \in Calls, NEW s, Attaches(t, s)
       PROVE  MarkInv'
  <2>1. NoListener'
    BY <1>10 DEF Attaches, NoListener, Listens
  <2>2. MarksOwned'
    BY <1>10, MarksKept DEF Attaches, Persists, Creating, CreatingPcs
  <2> QED
    BY <1>2, <2>1, <2>2
<1>11. ASSUME NEW t \in Calls, Answer(t) \/ RestartTimeout(t) PROVE MarkInv'
  BY <1>6, <1>7, <1>8, <1>9, <1>10, <1>11, AnswerStep, RestartStep DEF SafeInv
<1>12. ASSUME UNCHANGED starting, \A u \in Calls : call'[u] = call[u] \/ Moved(u)
       PROVE  MarkInv'
  <2>1. NoListener'
    BY <1>12 DEF Moved, Inert, NoListener, Listens
  <2>2. MarksOwned'
    BY <1>12, MarksKept, MovedPersists
  <2> QED
    BY <1>2, <2>1, <2>2
<1>13. ASSUME NEW s \in Sessions, KernelLaunched(s) \/ KernelReady(s) \/ KernelExits(s) \/ ExitEvent(s)
       PROVE  MarkInv'
  <2>1. CASE Launches(s) \/ KernelExits(s) \/ Exits(s)
    BY <1>12, <2>1 DEF Launches, KernelExits, Exits, serviceMaps
  <2>2. CASE Readies(s)
    <3>1. \A u \in Calls : ~Listened(u, s)
      BY DEF NoListener, Listens, Listened
    <3> QED
      BY <1>12, <2>2, <3>1 DEF Readies
  <2> QED
    BY <1>13, <2>1, <2>2, LaunchStep, ReadyStep, ExitStep DEF SafeInv
<1>14. CASE LoseExtHost
  BY <1>12, <1>14, LoseSafe DEF LoseExtHost, serviceMaps, SafeInv
<1> QED
  BY <1>1, <1>3, <1>4, <1>5, <1>6, <1>11, <1>13, <1>14 DEF Changes

\* A host that is marked as starting has a start in progress that will clear the
\* mark, so that validateRuntimeSessionStart does not refuse further starts there
\* for ever: with reconnections, losses of the extension host and failing
\* metadata at any time, in a service that is asked for no restart (the timer of
\* a restart settles its promise and leaves the host marked).
THEOREM StartingHostsAreOwned ==
  "restart" \notin Requests => (Spec => []StartingHostOwned)
<1> SUFFICES ASSUME "restart" \notin Requests PROVE Spec => []StartingHostOwned
  OBVIOUS
<1>1. MarkInv /\ [Next]_vars => MarkInv'
  BY MarksNext
<1>2. MarkInv => StartingHostOwned
  BY DEF MarkInv, MarksOwned, StartsFor, Creating, StartingHostOwned, InProgress
<1> QED
  BY <1>1, <1>2, MarkInit, PTL DEF Spec

-----------------------------------------------------------------------------
(* Shutting a notebook session down.                                       *)
(*                                                                         *)
(* A call is suspended by its own steps: they may ask for a shutdown, but  *)
(* end none, and a call that waits for a shutdown takes none of them.      *)

\* The awaits of a start that depends on what is registered.
Automatic == {"deferred", "autoManager"}

\* The runtime of an automatic start is registered, unless the startup service
\* asked for it.
Expected(t, c) ==
    \/ c.runtime \in registered
    \/ "auto" \in Requests
    \/ call[t].pc = "deferred" /\ c.runtime = call[t].runtime

\* A step of call t ends with the call suspended, or finished.
Suspends(t) ==
    /\ \E c, where : /\ Suspend(t, c, where) /\ where # "validating"
                     /\ where \in Automatic => Expected(t, c)
    /\ registered \subseteq registered'
    /\ UNCHANGED extHost
    /\ UNCHANGED shuttingDown \/ \E s : RequestShutdown(s)

\* A call that leaves for an await that is not one of an automatic start.
LEMMA LeaveSuspends ==
  ASSUME NEW t, NEW c, NEW where, Leave(t, c, where), where \notin Automatic \cup {"validating"}
  PROVE  Suspends(t)
  BY DEF Leave, Suspends, shutdowns, losses, world

\* doAutoStartRuntime and autoStartRuntime.
LEMMA AutoStartSuspends ==
  ASSUME NEW t, NEW c \in CallRecord, Expected(t, c), DoAutoStart(t, c) \/ AutoStartRuntime(t, c)
  PROVE  Suspends(t)
<1>1. ASSUME NEW d, NEW how \in {"threw", "returned", "awaitPromise"}, Leave(t, d, how) PROVE Suspends(t)
  BY <1>1, LeaveSuspends DEF Automatic
<1>2. CASE Coalesce(t, c)
  BY <1>1, <1>2 DEF Coalesce
<1>3. CASE Leave(t, c, "deferred")
  BY <1>3 DEF Leave, Suspends, shutdowns, losses, world
<1>4. CASE /\ Suspend(t, [c EXCEPT !.promise = <<t, "auto">>], "autoManager")
           /\ UNCHANGED <<sessionMaps, shutdowns, losses, kernels, world>>
  <2>1. [c EXCEPT !.promise = <<t, "auto">>].runtime = c.runtime
    BY DEF CallRecord
  <2> QED
    BY <1>4, <2>1 DEF Suspends, Expected, shutdowns, losses, world
<1> QED
  BY <1>1, <1>2, <1>3, <1>4 DEF DoAutoStart, AutoStartRuntime

\* startNewRuntimeSession.
LEMMA StartNewSuspends ==
  ASSUME NEW t, NEW c \in CallRecord, StartNew(t, c)
  PROVE  Suspends(t)
<1>1. ASSUME NEW d, NEW how \in {"threw", "returned", "awaitPromise"}, Leave(t, d, how) PROVE Suspends(t)
  BY <1>1, LeaveSuspends DEF Automatic
<1>2. CASE Coalesce(t, c)
  BY <1>1, <1>2 DEF Coalesce
<1>3. CASE DoCreate(t, c) /\ UNCHANGED world
  BY <1>3 DEF DoCreate, Suspends, Automatic, shutdowns, losses, world
<1>4. CASE c.runtime \in registered /\ AutoStartRuntime(t, c)
  BY <1>4, AutoStartSuspends DEF Expected
<1> QED
  BY <1>1, <1>2, <1>3, <1>4 DEF StartNew

\* The rest of shutdownNotebookSession.
LEMMA NotebookSuspends ==
  ASSUME NEW t, NEW c, NotebookShutdown(t, c)
  PROVE  Suspends(t)
  BY DEF NotebookShutdown, Suspends, Automatic, losses, world

\* selectRuntime, from the lookup of the session on.
LEMMA SelectActiveSuspends ==
  ASSUME NEW t, NEW c \in CallRecord, SelectActive(t, c)
  PROVE  Suspends(t)
<1>1. CASE StartNew(t, c)
  BY <1>1, StartNewSuspends
<1>2. CASE /\ Suspend(t, c, "returned")
           /\ UNCHANGED <<serviceMaps, running, session, shutdowns, losses, kernels, world>>
  BY <1>2 DEF Suspends, Automatic, shutdowns, losses, world
<1>3. CASE Leave(t, c, "threw")
  BY <1>3, LeaveSuspends DEF Automatic
<1>4. ASSUME NEW s, Suspend(t, [c EXCEPT !.session = s], "selectShutdown"), RequestShutdown(s),
             UNCHANGED <<serviceMaps, sessionMaps, nbShutdown, losses, kernel, world>>
      PROVE  Suspends(t)
  BY <1>4 DEF Suspends, Automatic, losses, world
<1> QED
  BY <1>1, <1>2, <1>3, <1>4 DEF SelectActive

\* selectRuntime, from the check for a notebook shutdown on.
LEMMA SelectNotebookSuspends ==
  ASSUME NEW t, NEW c \in CallRecord, SelectNotebook(t, c)
  PROVE  Suspends(t)
  BY SelectActiveSuspends, LeaveSuspends DEF SelectNotebook, Automatic

\* restartSession.
LEMMA RestartSuspends ==
  ASSUME Inv, NEW t \in Calls, NEW s \in Sessions, RestartSession(t, s)
  PROVE  Suspends(t)
<1> DEFINE c == [NewCall EXCEPT !.host = session[s].host, !.runtime = session[s].runtime,
                                !.activate = TRUE]
           d == [c EXCEPT !.session = s]
<1>1. c \in CallRecord
  <2>1. session[s].host \in Hosts /\ session[s].runtime \in Runtimes
    BY DEF RestartSession, Inv, SessionsOK, Keyed
  <2> QED
    BY <2>1, NewCallOK
<1>2. DoRestart(t, d) \/ StartNew(t, c) \/ Leave(t, c, "returned") \/ Leave(t, c, "threw")
  BY DEF RestartSession
<1> HIDE DEF c
<1>3. CASE DoRestart(t, d)
  <2>1. ASSUME NEW e, Leave(t, e, "awaitPromise") PROVE Suspends(t)
    BY <2>1, LeaveSuspends DEF Automatic
  <2>2. ASSUME NEW e, Suspend(t, e, "restarting"), 
               UNCHANGED <<running, foreground, shutdowns, losses, kernel, world>>
        PROVE  Suspends(t)
    BY <2>2 DEF Suspends, Automatic, shutdowns, losses, world
  <2> HIDE DEF d
  <2> QED
    BY <1>3, <2>1, <2>2 DEF DoRestart, Coalesce
<1>4. CASE StartNew(t, c)
  BY <1>1, <1>4, StartNewSuspends
<1> QED
  BY <1>2, <1>3, <1>4, LeaveSuspends DEF Automatic

\* restoreRuntimeSession.
LEMMA RestoreSuspends ==
  ASSUME NEW t \in Calls, NEW s, RestoreRuntimeSession(t, s)
  PROVE  Suspends(t)
<1>1. UNCHANGED <<shuttingDown, extHost>> /\ registered \subseteq registered'
  BY DEF RestoreRuntimeSession, shutdowns
<1>2. \E c : \/ Suspend(t, c, "awaitPromise") \/ Suspend(t, c, "threw") \/ Suspend(t, c, "returned")
             \/ Suspend(t, c, "restoring")
  BY Zenon DEF RestoreRuntimeSession
<1> QED
  BY <1>1, <1>2 DEF Suspends, Automatic

\* Every request.
LEMMA AskSuspends ==
  ASSUME Inv, NEW t \in Calls, Ask(t)
  PROVE  Suspends(t) /\ call[t].pc = "new"
<1>1. call[t].pc = "new"
  BY DEF Ask, StartNewRuntimeSession, AutoStartRequest, EncounterLanguage, SelectRuntime,
         RestartSession, ShutdownNotebookSession, RestoreRuntimeSession, Request, CallNow
<1>2. ASSUME NEW h \in Hosts, NEW r \in Runtimes, StartNewRuntimeSession(t, h, r) PROVE Suspends(t)
  BY <1>2, NewCallOK, StartNewSuspends DEF StartNewRuntimeSession
<1>3. ASSUME NEW r \in Runtimes, NEW a \in BOOLEAN, AutoStartRequest(t, r, a) PROVE Suspends(t)
  BY <1>3, NewCallOK, LanguageIsHost, AutoStartSuspends DEF AutoStartRequest, Request, Expected
<1>4. ASSUME NEW r \in Runtimes, EncounterLanguage(t, r) PROVE Suspends(t)
  <2> DEFINE c == [NewCall EXCEPT !.host = LanguageOf[r], !.runtime = r, !.activate = TRUE]
  <2>1. c \in CallRecord /\ c.runtime = r
    BY NewCallOK, LanguageIsHost DEF NewCall
  <2>2. AutoStartRuntime(t, c) /\ r \in registered
    BY <1>4 DEF EncounterLanguage
  <2> HIDE DEF c
  <2> QED
    BY <2>1, <2>2, AutoStartSuspends DEF Expected
<1>5. ASSUME NEW h \in Hosts, NEW r \in Runtimes, SelectRuntime(t, h, r) PROVE Suspends(t)
  <2> DEFINE c == [NewCall EXCEPT !.host = h, !.runtime = r, !.activate = TRUE]
  <2>1. c \in CallRecord
    BY NewCallOK
  <2>2. (\E d : Leave(t, d, "threw") \/ Leave(t, d, "selectStart")) \/ SelectNotebook(t, c)
    BY <1>5, Zenon DEF SelectRuntime
  <2> HIDE DEF c
  <2> QED
    BY <2>1, <2>2, SelectNotebookSuspends, LeaveSuspends DEF Automatic
<1>6. ASSUME NEW n \in Notebooks, ShutdownNotebookSession(t, n) PROVE Suspends(t)
  <2>1. \E c : \/ Leave(t, c, "awaitNotebook") \/ Leave(t, c, "returned")
               \/ NotebookShutdown(t, c)
               \/ /\ Suspend(t, c, "notebookStart")
                  /\ UNCHANGED <<serviceMaps, sessionMaps, shuttingDown, losses, kernels, world>>
    BY <1>6, Zenon DEF ShutdownNotebookSession
  <2>2. ASSUME NEW c, Suspend(t, c, "notebookStart"),
               UNCHANGED <<serviceMaps, sessionMaps, shuttingDown, losses, kernels, world>>
        PROVE  Suspends(t)
    BY <2>2 DEF Suspends, Automatic, losses, world
  <2> QED
    BY <2>1, <2>2, LeaveSuspends, NotebookSuspends DEF Automatic
<1> QED
  BY <1>1, <1>2, <1>3, <1>4, <1>5, <1>6, RestartSuspends, RestoreSuspends DEF Ask

\* Every continuation.
LEMMA ResumeSuspends ==
  ASSUME Inv, NEW t \in Calls, Resume(t) \/ NotebookReadyTimeout(t)
  PROVE  Suspends(t) /\ call[t].pc # "notebookShutdown"
<1>1. call[t].pc # "notebookShutdown"
  BY DEF Resume, SelectAfterStart, SelectAfterNotebook, SelectAfterShutdown, StartAfterTrust,
         NotebookAfterStart, NotebookAfterReady, NotebookReadyTimeout
<1>2. call[t] \in CallRecord
  BY OwnRecord
<1>3. CASE SelectAfterStart(t) \/ SelectAfterNotebook(t)
  BY <1>2, <1>3, LeaveSuspends, SelectNotebookSuspends, SelectActiveSuspends
     DEF SelectAfterStart, SelectAfterNotebook, Automatic
<1>4. CASE SelectAfterShutdown(t)
  <2>1. [call[t] EXCEPT !.session = None] \in CallRecord
    BY <1>2 DEF CallRecord
  <2> QED
    BY <1>4, <2>1, StartNewSuspends DEF SelectAfterShutdown
<1>5. CASE StartAfterTrust(t)
  BY <1>2, <1>5, AutoStartSuspends DEF StartAfterTrust, Expected
<1>6. CASE NotebookAfterReady(t) \/ NotebookReadyTimeout(t)
  BY <1>6, NotebookSuspends DEF NotebookAfterReady, NotebookReadyTimeout
<1>7. CASE NotebookAfterStart(t)
  <2>1. \E c : \/ Leave(t, c, "notebookReady") \/ NotebookShutdown(t, c)
               \/ /\ Suspend(t, c, "returned")
                  /\ UNCHANGED <<serviceMaps, sessionMaps, shuttingDown, losses, kernels, world>>
    BY <1>7, Zenon DEF NotebookAfterStart
  <2>2. ASSUME NEW c, Suspend(t, c, "returned"),
               UNCHANGED <<serviceMaps, sessionMaps, shuttingDown, losses, kernels, world>>
        PROVE  Suspends(t)
    BY <2>2 DEF Suspends, Automatic, losses, world
  <2>3. ASSUME NEW c, Leave(t, c, "notebookReady") PROVE Suspends(t)
    BY <2>3, LeaveSuspends DEF Automatic
  <2>4. ASSUME NEW c, NotebookShutdown(t, c) PROVE Suspends(t)
    BY <2>4, NotebookSuspends
  <2> QED
    BY <1>1, <2>1, <2>2, <2>3, <2>4, Zenon
<1> QED
  BY <1>1, <1>3, <1>4, <1>5, <1>6, <1>7 DEF Resume

-----------------------------------------------------------------------------
(* When the extension host answers no request of a kernel that died, a     *)
(* shutdown whose answer is still awaited after its session has ended      *)
(* waits for an extension host that is gone.                               *)

EndedAnswers ==
    \A s \in Sessions :
        (shuttingDown[s].called = "calling" /\ shuttingDown[s].outcome = "ended") => ~extHost

\* The shutdown of s is the one it was, or not one that has ended and is awaited,
\* or the extension host is gone.
ShutdownAhead(s) ==
    \/ shuttingDown'[s] = shuttingDown[s]
    \/ ~extHost'
    \/ ~(shuttingDown'[s].called = "calling" /\ shuttingDown'[s].outcome = "ended")

\* A call that waits for its session's shutdown returns after the session's end.
EndsBefore(t) ==
    (call[t].pc = "notebookShutdown" /\ call'[t].pc = "returned")
        => kernel'[call[t].session] \notin {"up", "exiting"}

\* What a step does to the shutdowns, and to the calls that wait for them.
ShutdownStep ==
    /\ \A s \in Sessions : ShutdownAhead(s)
    /\ extHost' => extHost
    /\ \A t \in Calls : EndsBefore(t)

\* A step of a call ends no shutdown.
LEMMA SuspendsShutdowns ==
  ASSUME Inv, NEW t \in Calls, Suspends(t), call[t].pc # "notebookShutdown"
  PROVE  ShutdownStep
<1>1. extHost' = extHost
  BY DEF Suspends
<1>2. \A s \in Sessions : ShutdownAhead(s)
  BY DEF Suspends, RequestShutdown, ShutdownAhead, Inv, ShutdownsOK
<1>3. \A u \in Calls \ {t} : call'[u] = call[u]
  BY DEF Suspends, Suspend, Inv, CallsOK
<1> QED
  BY <1>1, <1>2, <1>3 DEF ShutdownStep, EndsBefore

\* Neither do the answers to a call, nor the other events of the sessions.
LEMMA OtherShutdowns ==
  ASSUME Inv, ListenOK,
         \/ \E t \in Calls : Answer(t) \/ RestartTimeout(t)
         \/ \E s \in Sessions : KernelStep(s) \/ RememberDisconnected(s) \/ SessionExited(s)
         \/ StorageMoved \/ GrantTrust \/ \E r \in Runtimes : RegisterRuntime(r)
         \/ UNCHANGED vars
  PROVE  ShutdownStep
<1>1. UNCHANGED <<shuttingDown, extHost>>
  BY DEF Answer, AutoManagerFound, DoCreate, Leave, MetadataValidated, MetadataInvalid, ManagerFails, FailStart,
         SessionCreated, SessionRestored, Attach, StartSucceeds, StartFails, RestartSucceeds,
         RestartFails, RestartTimeout, KernelStep, KernelLaunched, KernelReady, KernelActive,
         KernelOffline, KernelExits, RememberDisconnected, SessionExited, StorageMoved, GrantTrust,
         RegisterRuntime, vars, shutdowns, losses
<1>2. ASSUME NEW t \in Calls, Answer(t) \/ RestartTimeout(t), NEW u \in Calls,
             call[u].pc = "notebookShutdown"
      PROVE  call'[u].pc # "returned"
  <2>1. \/ Validates(t) \/ \E r \in Runtimes : Creates(t, r)
        \/ Fails(t) \/ FailsInvalid(t)
        \/ Restarted(t) \/ RestartFailed(t) \/ TimedOut(t)
        \/ \E s \in Sessions \cup {None} : Attaches(t, s)
        \/ Starts(t)
    BY <1>2, AnswerStep, RestartStep
  <2>2. CASE TimedOut(t)
    BY <1>2, <2>2 DEF TimedOut, Inv, CallsOK, CallRecord
  <2>3. CASE \E s \in Sessions \cup {None} : Attaches(t, s)
    BY <1>2, <2>3 DEF Attaches
  <2>4. CASE \/ Validates(t) \/ \E r \in Runtimes : Creates(t, r)
             \/ Fails(t) \/ FailsInvalid(t) \/ Restarted(t) \/ RestartFailed(t) \/ Starts(t)
    BY <1>2, <2>4 DEF Validates, Creates, Fails, FailsInvalid, Restarted, RestartFailed, Starts, Goes,
                      Creating, CreatingPcs
  <2> QED
    BY <2>1, <2>2, <2>3, <2>4
<1>3. ASSUME NEW s \in Sessions, KernelReady(s), NEW u \in Calls, call[u].pc = "notebookShutdown"
      PROVE  call'[u].pc # "returned"
  <2>1. call[u] \in CallRecord
    BY OwnRecord
  <2>2. call'[u] = call[u] \/ call'[u] = [call[u] EXCEPT !.listening = FALSE]
    BY <1>3, Zenon DEF KernelReady, HandleReady
  <2> QED
    BY <1>3, <2>1, <2>2 DEF CallRecord
<1>4. ASSUME NEW s \in Sessions, KernelStep(s), ~KernelReady(s)
      PROVE  UNCHANGED call
  BY <1>4 DEF KernelStep, KernelLaunched, KernelActive, KernelOffline, KernelExits
<1>5. ASSUME \/ \E s \in Sessions : RememberDisconnected(s) \/ SessionExited(s)
             \/ StorageMoved \/ GrantTrust \/ \E r \in Runtimes : RegisterRuntime(r)
             \/ UNCHANGED vars
      PROVE  UNCHANGED call
  BY <1>5 DEF RememberDisconnected, SessionExited, StorageMoved, GrantTrust, RegisterRuntime, vars
<1>6. \A t \in Calls : EndsBefore(t)
  BY <1>2, <1>3, <1>4, <1>5 DEF EndsBefore
<1> QED
  BY <1>1, <1>6 DEF ShutdownStep, ShutdownAhead

\* The answers to session.shutdown() and its timer.
LEMMA RepliesShutdowns ==
  ASSUME Inv, ListenOK, EndedAnswers, NEW s \in Sessions, ShutdownAnswer(s) \/ ShutdownTimeout(s)
  PROVE  ShutdownStep
<1>1. UNCHANGED extHost
  BY DEF ShutdownAnswer, ShutdownReplies, ShutdownTimeout, losses
<1>2. ASSUME NEW u \in Sessions PROVE ShutdownAhead(u)
  <2>1. shuttingDown \in [Sessions -> ShutdownRecord] /\ shuttingDown[s] \in ShutdownRecord
    BY DEF Inv, ShutdownsOK
  <2>2. \/ UNCHANGED shuttingDown \/ shuttingDown' = [shuttingDown EXCEPT ![s] = NoShutdown]
        \/ shuttingDown' = [shuttingDown EXCEPT ![s].called = "yes"]
        \/ shuttingDown' = [shuttingDown EXCEPT ![s].outcome = "timedOut"]
    BY DEF ShutdownAnswer, ShutdownReplies, ShutdownTimeout
  <2>3. CASE u # s
    BY <2>1, <2>2, <2>3 DEF ShutdownAhead
  <2>4. CASE u = s
    <3>1. shuttingDown'[s].called # "calling" \/ shuttingDown'[s].outcome = "timedOut"
          \/ shuttingDown'[s] = shuttingDown[s]
      BY <2>1, <2>2 DEF NoShutdown, ShutdownRecord
    <3> QED
      BY <2>4, <3>1 DEF ShutdownAhead
  <2> QED
    BY <2>3, <2>4
<1>3. UNCHANGED call \/ call' = CallsAfterShutdown({s}, FALSE)
  <2>1. ASSUME NEW ok \in BOOLEAN, ShutdownReplies(s, ok)
        PROVE  UNCHANGED call \/ call' = CallsAfterShutdown({s}, FALSE)
    <3>1. ~(ok /\ shuttingDown[s].outcome = "ended")
      BY <2>1 DEF ShutdownReplies, EndedAnswers
    <3>2. \/ UNCHANGED call
          \/ call' = CallsAfterShutdown({s}, ok /\ shuttingDown[s].outcome = "ended")
      BY <2>1 DEF ShutdownReplies, SettleShutdowns
    <3>3. (ok /\ shuttingDown[s].outcome = "ended") = FALSE
      BY <3>1
    <3> QED
      BY <3>2, <3>3
  <2>2. ShutdownTimeout(s) => UNCHANGED call \/ call' = CallsAfterShutdown({s}, FALSE)
    BY DEF ShutdownTimeout, SettleShutdowns
  <2> QED
    BY <2>1, <2>2 DEF ShutdownAnswer
<1>4. ASSUME NEW t \in Calls PROVE EndsBefore(t)
  BY <1>3, SettleMoves DEF EndsBefore
<1> QED
  BY <1>1, <1>2, <1>4 DEF ShutdownStep

\* The end of sessions.
LEMMA EndShutdownsStep ==
  ASSUME Inv, ListenOK, NEW S \in SUBSET Sessions, NEW unanswered,
         EndShutdowns(S, unanswered),
         \A s \in S : kernel'[s] \notin {"up", "exiting"},
         extHost' => extHost /\ unanswered = "lost"
  PROVE  ShutdownStep
<1> DEFINE waiting == [called |-> "yes", outcome |-> "none"]
           W == {s \in S : shuttingDown[s] = waiting}
<1>1. call' = CallsAfterShutdown(W, TRUE)
  BY DEF EndShutdowns, SettleShutdowns
<1>2. ASSUME NEW t \in Calls PROVE EndsBefore(t)
  <2>1. W \subseteq S
    OBVIOUS
  <2> HIDE DEF W
  <2> QED
    BY <1>1, <2>1, SettleMoves DEF EndsBefore
<1>3. ASSUME NEW s \in Sessions PROVE ShutdownAhead(s)
  <2>1. \/ shuttingDown'[s] = shuttingDown[s] \/ shuttingDown'[s] = NoShutdown
        \/ shuttingDown'[s].called = unanswered
    BY DEF EndShutdowns
  <2> QED
    BY <2>1 DEF ShutdownAhead, NoShutdown
<1> QED
  BY <1>2, <1>3 DEF ShutdownStep

\* SessionEnded and the loss of the extension host.
LEMMA EndsShutdowns ==
  ASSUME ~AnswersAfterExit, SafeInv,
         LoseExtHost \/ \E s \in Sessions : SessionEnded(s)
  PROVE  ShutdownStep
<1>1. CASE LoseExtHost
  <2> DEFINE S == {s \in Sessions : Active(s) /\ state[s] # "Exited"}
  <2>1. /\ EndShutdowns(S, "calling") /\ ~extHost'
        /\ kernel' = [s \in Sessions |-> IF Active(s) THEN "gone" ELSE kernel[s]]
    BY <1>1 DEF LoseExtHost
  <2> QED
    BY <2>1, EndShutdownsStep DEF SafeInv
<1>2. ASSUME NEW s \in Sessions, SessionEnded(s) PROVE ShutdownStep
  <2>1. EndShutdowns({s}, "lost") /\ UNCHANGED extHost
    BY <1>2 DEF SessionEnded, losses
  <2>2. kernel'[s] \notin {"up", "exiting"}
    BY <1>2 DEF SessionEnded, SafeInv, Inv, KernelsOK
  <2> QED
    BY <2>1, <2>2, EndShutdownsStep DEF SafeInv
<1> QED
  BY <1>1, <1>2

ShutdownInv == SafeInv /\ EndedAnswers

\* Every step but the return of the extension host is such a step.
LEMMA NextShutdowns ==
  ASSUME ~AnswersAfterExit, ShutdownInv, [Next]_vars
  PROVE  ShutdownStep \/ ExtHostReturns
<1> USE DEF ShutdownInv, SafeInv
<1>1. ASSUME NEW t \in Calls, Ask(t) \/ Resume(t) \/ NotebookReadyTimeout(t) PROVE ShutdownStep
  BY <1>1, AskSuspends, ResumeSuspends, SuspendsShutdowns
<1>2. ASSUME NEW t \in Calls, Answer(t) \/ RestartTimeout(t) PROVE ShutdownStep
  BY <1>2, OtherShutdowns
<1>3. ASSUME NEW s \in Sessions,
             \/ ShutdownAnswer(s) \/ ShutdownTimeout(s) \/ ExitEvent(s) \/ KernelStep(s)
             \/ RememberDisconnected(s)
      PROVE  ShutdownStep
  BY <1>3, RepliesShutdowns, OtherShutdowns, EndsShutdowns DEF ExitEvent
<1>4. CASE LoseExtHost
  BY <1>4, EndsShutdowns
<1>5. CASE StorageMoved \/ GrantTrust \/ (\E r \in Runtimes : RegisterRuntime(r)) \/ UNCHANGED vars
  BY <1>5, OtherShutdowns
<1> QED
  BY <1>1, <1>2, <1>3, <1>4, <1>5 DEF Next, Timer

\* Every step keeps the invariant of the shutdowns.
LEMMA ShutdownNext ==
  ASSUME ~AnswersAfterExit, ShutdownInv, [Next]_vars
  PROVE  ShutdownInv' /\ \A t \in Calls : EndsBefore(t)
<1>1. SafeInv'
  BY SafeNext DEF ShutdownInv
<1>2. CASE ShutdownStep
  <2>1. EndedAnswers'
    BY <1>2 DEF ShutdownStep, ShutdownAhead, ShutdownInv, EndedAnswers
  <2> QED
    BY <1>1, <1>2, <2>1 DEF ShutdownInv, ShutdownStep
<1>3. CASE ExtHostReturns
  <2>1. EndedAnswers'
    BY <1>3 DEF ExtHostReturns, NothingInFlight, EndedAnswers, shutdowns
  <2>2. \A t \in Calls : EndsBefore(t)
    BY <1>3 DEF ExtHostReturns, EndsBefore
  <2> QED
    BY <1>1, <2>1, <2>2 DEF ShutdownInv
<1> QED
  BY <1>2, <1>3, NextShutdowns

\* shutdownNotebookSession, once it has asked for the shutdown, returns
\* successfully only after the kernel has ended: whatever the order of the two
\* exit events, the answer to session.shutdown() and the five second timer, with
\* losses of the extension host at any time, as long as the extension host
\* answers no request that its kernel died under.  (A late answer of this kind
\* may come when the session has been launched again.)
THEOREM NotebookShutdownWaits ==
  ~AnswersAfterExit => (Spec => NotebookShutdownEnds)
<1> SUFFICES ASSUME ~AnswersAfterExit PROVE Spec => NotebookShutdownEnds
  OBVIOUS
<1>1. Init => ShutdownInv
  <2>1. Init => EndedAnswers
    BY DEF Init, EndedAnswers, NoShutdown
  <2> QED
    BY <2>1, SafeInit DEF ShutdownInv
<1>2. ShutdownInv /\ [Next]_vars => ShutdownInv'
  BY ShutdownNext
<1>3. ShutdownInv /\ [Next]_vars =>
        [\A t \in Calls :
           (call[t].pc = "notebookShutdown" /\ call'[t].pc = "returned")
              => kernel'[call[t].session] \notin {"up", "exiting"}]_vars
  BY ShutdownNext DEF EndsBefore
<1> QED
  BY <1>1, <1>2, <1>3, PTL DEF Spec, NotebookShutdownEnds

-----------------------------------------------------------------------------
(* Start promises.                                                         *)
(*                                                                         *)
(* A start promise is filed under the key of the call that made it or took *)
(* it over.  That call is the owner as long as it creates the session or   *)
(* listens for the end of a restart, and it settles the promise when it    *)
(* stops doing so.                                                         *)

Owns(t, k) ==
    /\ call[t].promise = startingSessions[k] /\ Key(t) = k
    /\ Creating(t) \/ call[t].listening
PromisesOwned == \A k \in Keys : Pending(startingSessions[k]) => \E t \in Calls : Owns(t, k)

\* A promise that is still to be made is not filed yet.
PromisesFresh ==
    /\ \A k \in Keys : startingSessions[k] # None => promise[startingSessions[k]] # "none"
    /\ \A t \in Calls : call[t].pc \in Unmade =>
         promise[<<t, "auto">>] = "none" /\ promise[<<t, "create">>] = "none"
    /\ \A t \in Calls : call[t].pc = "autoManager" => promise[<<t, "create">>] = "none"

\* Automatic starts are for registered runtimes: none has its metadata validated.
Foreseen == Discovered = Runtimes \/ "auto" \notin Requests
RegistryOK ==
    /\ Discovered \subseteq registered
    /\ \A t \in Calls : /\ call[t].pc # "validating"
                        /\ call[t].pc \in Automatic => call[t].runtime \in registered

\* The promise of call u is settled, or its key has been cleared or given to another.
Spent(u) == ~Pending(call[u].promise) \/ startingSessions[Key(u)] # call[u].promise

\* A reconnection, whose Attach disposes the listener of an earlier restart of
\* the session, begins only when the promise of that restart is out of the way.
Overtaken ==
    \A t, u \in Calls :
        (call[t].pc = "restoring" /\ call[u].listening /\ call[u].session = call[t].session)
            => Spent(u)
ListenersMade ==
    \A u \in Calls : call[u].listening =>
        call[u].promise \in Promises /\ promise[call[u].promise] # "none"

OwnInv == SafeInv /\ PromisesOwned /\ PromisesFresh /\ RegistryOK /\ Overtaken /\ ListenersMade

\* What the steps preserve of the promises.
PromisesKept == PromisesOwned' /\ PromisesFresh' /\ Overtaken' /\ ListenersMade'

-----------------------------------------------------------------------------
(* The registry.                                                           *)

\* Where a call that is suspended stands.
LEMMA SuspendedAt ==
  ASSUME Inv, Inv', NEW t \in Calls, NEW c, NEW where, Suspend(t, c, where)
  PROVE  /\ call'[t].pc = where /\ call'[t].runtime = c.runtime
         /\ \A u \in Calls \ {t} : call'[u] = call[u]
<1>1. call' = [call EXCEPT ![t] = [c EXCEPT !.pc = where]]
  BY DEF Suspend
<1>2. call'[t] = [c EXCEPT !.pc = where] /\ \A u \in Calls \ {t} : call'[u] = call[u]
  BY <1>1 DEF Inv, CallsOK
<1>3. call'[t] \in CallRecord
  BY DEF Inv, CallsOK
<1> QED
  BY <1>2, <1>3 DEF CallRecord

\* A step of a call keeps the registry.
LEMMA SuspendsRegistry ==
  ASSUME Foreseen, Inv, Inv', RegistryOK, NEW t \in Calls, Suspends(t)
  PROVE  RegistryOK'
<1>1. PICK c, where : /\ Suspend(t, c, where) /\ where # "validating"
                      /\ where \in Automatic => Expected(t, c)
  BY DEF Suspends
<1>2. registered \subseteq registered'
  BY DEF Suspends
<1>3. /\ call'[t].pc = where /\ call'[t].runtime = c.runtime
      /\ \A u \in Calls \ {t} : call'[u] = call[u]
  BY <1>1, SuspendedAt
<1>4. ASSUME where \in Automatic PROVE call'[t].runtime \in registered'
  <2>1. CASE "auto" \in Requests
    <3>1. Runtimes \subseteq registered
      BY <2>1 DEF Foreseen, RegistryOK
    <3>2. call'[t].runtime \in Runtimes
      BY <1>3, <1>4 DEF Inv, CallsOK, WellFormed, KeyedPcs, CreatingPcs, Keyed, Automatic
    <3> QED
      BY <1>2, <3>1, <3>2
  <2>2. CASE "auto" \notin Requests
    BY <1>1, <1>2, <1>3, <1>4, <2>2 DEF Expected, RegistryOK, Automatic
  <2> QED
    BY <2>1, <2>2
<1> QED
  BY <1>1, <1>2, <1>3, <1>4 DEF RegistryOK

\* So does everything else.
LEMMA OthersRegistry ==
  ASSUME Inv, ListenOK, RegistryOK,
         \/ \E t \in Calls : Answer(t) \/ RestartTimeout(t)
         \/ \E s \in Sessions : \/ ShutdownAnswer(s) \/ ShutdownTimeout(s) \/ ExitEvent(s) \/ KernelStep(s)
                                \/ RememberDisconnected(s)
         \/ LoseExtHost \/ ExtHostReturns \/ StorageMoved \/ GrantTrust
         \/ \E r \in Runtimes : RegisterRuntime(r)
         \/ UNCHANGED vars
  PROVE  RegistryOK'
<1>1. registered \subseteq registered'
  <2>1. UNCHANGED world \/ UNCHANGED registered \/ \E r : registered' = registered \cup {r}
    BY DEF Answer, AutoManagerFound, Leave, MetadataValidated, MetadataInvalid, ManagerFails, FailStart,
           SessionCreated, SessionRestored, Attach, StartSucceeds, StartFails, RestartSucceeds,
           RestartFails, RestartTimeout, ShutdownAnswer, ShutdownReplies, ShutdownTimeout, ExitEvent,
           SessionExited, SessionEnded, KernelStep, KernelLaunched, KernelReady, KernelActive,
           KernelOffline, KernelExits, RememberDisconnected, LoseExtHost, ExtHostReturns, StorageMoved,
           GrantTrust, RegisterRuntime, vars
  <2> QED
    BY <2>1 DEF world
<1>2. ASSUME NEW t \in Calls
      PROVE  \/ call'[t].pc \notin Automatic \cup {"validating"}
             \/ call'[t].pc = call[t].pc /\ call'[t].runtime = call[t].runtime
  <2>1. ASSUME NEW u \in Calls, Answer(u) \/ RestartTimeout(u)
        PROVE  \/ call'[t].pc \notin Automatic \cup {"validating"}
               \/ call'[t].pc = call[t].pc /\ call'[t].runtime = call[t].runtime
    <3>1. \/ Validates(u) \/ \E r \in Runtimes : Creates(u, r)
          \/ Fails(u) \/ FailsInvalid(u)
          \/ Restarted(u) \/ RestartFailed(u) \/ TimedOut(u)
          \/ \E s \in Sessions \cup {None} : Attaches(u, s)
          \/ Starts(u)
      BY <2>1, AnswerStep, RestartStep
    <3>2. CASE TimedOut(u)
      BY <3>2 DEF TimedOut, Inv, CallsOK, CallRecord
    <3>3. CASE \E s \in Sessions \cup {None} : Attaches(u, s)
      BY <3>3 DEF Attaches, Automatic
    <3>4. ~Validates(u)
      BY DEF Validates, RegistryOK, Automatic
    <3>5. CASE \/ \E r \in Runtimes : Creates(u, r)
               \/ Fails(u) \/ FailsInvalid(u) \/ Restarted(u) \/ RestartFailed(u) \/ Starts(u)
      BY <3>5 DEF Creates, Fails, FailsInvalid, Restarted, RestartFailed, Starts, Goes, Automatic
    <3> QED
      BY <3>1, <3>2, <3>3, <3>4, <3>5
  <2>2. ASSUME NEW S, NEW ok \in BOOLEAN, call' = CallsAfterShutdown(S, ok)
        PROVE  \/ call'[t].pc \notin Automatic \cup {"validating"}
               \/ call'[t].pc = call[t].pc /\ call'[t].runtime = call[t].runtime
    BY <2>2, SettleMoves DEF Automatic
  <2>3. ASSUME NEW s \in Sessions, KernelReady(s)
        PROVE  \/ call'[t].pc \notin Automatic \cup {"validating"}
               \/ call'[t].pc = call[t].pc /\ call'[t].runtime = call[t].runtime
    <3>1. call[t] \in CallRecord
      BY OwnRecord
    <3>2. \/ call'[t] = call[t] \/ call'[t] = [call[t] EXCEPT !.listening = FALSE]
          \/ call'[t] = [call[t] EXCEPT !.pc = "notebookResume"]
      BY <2>3, Zenon DEF KernelReady, HandleReady
    <3> QED
      BY <3>1, <3>2 DEF CallRecord, Automatic
  <2>4. \/ \E u \in Calls : Answer(u) \/ RestartTimeout(u)
        \/ \E S : \E ok \in BOOLEAN : call' = CallsAfterShutdown(S, ok)
        \/ \E s \in Sessions : KernelReady(s)
        \/ UNCHANGED call
    <3>1. ASSUME NEW s \in Sessions, ShutdownAnswer(s) \/ ShutdownTimeout(s)
          PROVE  UNCHANGED call \/ \E S : \E ok \in BOOLEAN : call' = CallsAfterShutdown(S, ok)
      BY <3>1 DEF ShutdownAnswer, ShutdownReplies, ShutdownTimeout, SettleShutdowns
    <3>2. ASSUME LoseExtHost \/ \E s \in Sessions : SessionEnded(s)
          PROVE  \E S : call' = CallsAfterShutdown(S, TRUE)
      BY <3>2, Zenon DEF LoseExtHost, SessionEnded, EndShutdowns, SettleShutdowns
    <3>3. ASSUME \/ \E s \in Sessions : \/ SessionExited(s)
                                        \/ RememberDisconnected(s)
                                        \/ KernelStep(s) /\ ~KernelReady(s)
                 \/ ExtHostReturns \/ StorageMoved \/ GrantTrust
                 \/ \E r \in Runtimes : RegisterRuntime(r)
                 \/ UNCHANGED vars
          PROVE  UNCHANGED call
      BY <3>3 DEF SessionExited, KernelStep, KernelLaunched, KernelActive, KernelOffline, KernelExits,
                  RememberDisconnected, ExtHostReturns, StorageMoved, GrantTrust, RegisterRuntime, vars
    <3> QED
      BY <3>1, <3>2, <3>3 DEF ExitEvent
  <2> QED
    BY <2>1, <2>2, <2>3, <2>4
<1> QED
  BY <1>1, <1>2 DEF RegistryOK

\* Every step keeps the registry.
LEMMA RegistryNext ==
  ASSUME Foreseen, SafeInv, RegistryOK, [Next]_vars
  PROVE  RegistryOK'
<1>1. Inv /\ Inv' /\ ListenOK
  BY SafeNext DEF SafeInv
<1>2. ASSUME NEW t \in Calls, Ask(t) \/ Resume(t) \/ NotebookReadyTimeout(t) PROVE RegistryOK'
  BY <1>1, <1>2, AskSuspends, ResumeSuspends, SuspendsRegistry
<1> QED
  BY <1>1, <1>2, OthersRegistry DEF Next, Timer

-----------------------------------------------------------------------------
(* Steps that file no promise, and steps that file one.                    *)

\* A call that owns a promise goes on owning it.
Retains(u) ==
    (Creating(u) \/ call[u].listening) =>
        /\ Creating(u)' \/ call'[u].listening
        /\ call'[u].promise = call[u].promise /\ Key(u)' = Key(u)

\* A call that begins neither a reconnection nor a restart.
Continues(u) ==
    /\ call'[u].pc = "restoring" =>
         call[u].pc = "restoring" /\ call'[u].session = call[u].session
    /\ call'[u].listening =>
         /\ call[u].listening /\ call'[u].session = call[u].session
         /\ call'[u].promise = call[u].promise /\ Key(u)' = Key(u)

\* No promise is made, filed or taken over; who stops owning a promise has
\* settled it, or has cleared its key.
Unfiled ==
    /\ \A k \in Keys : startingSessions'[k] \in {startingSessions[k], None}
    /\ \A p \in Promises : /\ promise'[p] = "none" <=> promise[p] = "none"
                           /\ promise'[p] = "pending" => promise[p] = "pending"
    /\ \A u \in Calls : /\ call'[u].pc \in Unmade => call[u].pc \in Unmade
                        /\ call'[u].pc = "autoManager" => call[u].pc = "autoManager"
    /\ \A u \in Calls : \/ Retains(u)
                        \/ call[u].promise \in Promises => promise'[call[u].promise] # "pending"
                        \/ startingSessions'[Key(u)] = None
                        \/ Spent(u)
    /\ \A u \in Calls : Continues(u)

\* The key of a call that listens, and the promise filed under it.
LEMMA ListenerKey ==
  ASSUME OwnInv, NEW u \in Calls, call[u].listening
  PROVE  /\ Key(u) \in Keys /\ call[u].promise \in Promises
         /\ promise[call[u].promise] # "none"
<1>1. call[u].host \in Hosts /\ call[u].runtime \in Runtimes
  BY DEF OwnInv, SafeInv, ListenOK, Listens, SessionOf, Inv, SessionsOK, Keyed
<1> QED
  BY <1>1 DEF OwnInv, ListenersMade, Key, Keys

\* Reconnections and listeners after a step that files no promise.
LEMMA UnfiledOvertaken ==
  ASSUME OwnInv, Unfiled
  PROVE  Overtaken' /\ ListenersMade'
<1>1. ASSUME NEW u \in Calls, call'[u].listening
      PROVE  /\ call[u].listening /\ call'[u].session = call[u].session
             /\ call'[u].promise = call[u].promise /\ Key(u)' = Key(u)
  BY <1>1 DEF Unfiled, Continues
<1>2. ListenersMade'
  BY <1>1, ListenerKey DEF ListenersMade, Unfiled
<1>3. ASSUME NEW t \in Calls, NEW u \in Calls, call'[t].pc = "restoring", call'[u].listening,
             call'[u].session = call'[t].session
      PROVE  Spent(u)'
  <2>1. call[t].pc = "restoring" /\ call'[t].session = call[t].session
    BY <1>3 DEF Unfiled, Continues
  <2>2. Spent(u)
    BY <1>1, <1>3, <2>1 DEF OwnInv, Overtaken
  <2>3. /\ startingSessions'[Key(u)] \in {startingSessions[Key(u)], None}
        /\ promise'[call[u].promise] = "pending" => promise[call[u].promise] = "pending"
        /\ call[u].promise # None
    BY <1>1, <1>3, ListenerKey, NoneAssumption DEF Unfiled
  <2>4. /\ Spent(u)' <=> ~Pending(call[u].promise)' \/ startingSessions'[Key(u)] # call[u].promise
        /\ Pending(call[u].promise)' <=> promise'[call[u].promise] = "pending"
    BY <1>1, <1>3, <2>3 DEF Spent, Pending
  <2> QED
    BY <2>2, <2>3, <2>4 DEF Spent, Pending
<1> QED
  BY <1>2, <1>3 DEF Overtaken

\* The promises after a step that files none.
LEMMA UnfiledOwned ==
  ASSUME OwnInv, Unfiled
  PROVE  PromisesKept
<1>1. \A k \in Keys : startingSessions[k] \in Promises \cup {None}
  BY DEF OwnInv, SafeInv, Inv, StartsOK
<1>2. ASSUME NEW k \in Keys, startingSessions'[k] # None
      PROVE  startingSessions'[k] = startingSessions[k] /\ startingSessions[k] \in Promises
  BY <1>1, <1>2 DEF Unfiled
<1>3. ASSUME NEW k \in Keys, Pending(startingSessions[k])'
      PROVE  \E t \in Calls : Owns(t, k)'
  <2>1. /\ startingSessions'[k] # None /\ startingSessions'[k] = startingSessions[k]
        /\ promise'[startingSessions[k]] = "pending"
    BY <1>2, <1>3 DEF Pending
  <2>2. Pending(startingSessions[k])
    BY <1>2, <2>1 DEF Unfiled, Pending
  <2>3. PICK t \in Calls : Owns(t, k)
    BY <2>2 DEF OwnInv, PromisesOwned
  <2>4. call[t].promise = startingSessions[k] /\ Key(t) = k /\ (Creating(t) \/ call[t].listening)
    BY <2>3 DEF Owns
  <2>5. Retains(t)
    BY <1>2, <2>1, <2>2, <2>4 DEF Unfiled, Spent
  <2>6. /\ Creating(t)' \/ call'[t].listening
        /\ call'[t].promise = call[t].promise /\ Key(t)' = Key(t)
    BY <2>4, <2>5 DEF Retains
  <2> QED
    BY <2>1, <2>4, <2>6 DEF Owns
<1>4. PromisesOwned'
  BY <1>3 DEF PromisesOwned
<1>5. \A k \in Keys : startingSessions'[k] # None => promise'[startingSessions'[k]] # "none"
  BY <1>2 DEF OwnInv, PromisesFresh, Unfiled
<1>6. \A t \in Calls : <<t, "auto">> \in Promises /\ <<t, "create">> \in Promises
  BY DEF Promises
<1>7. \A t \in Calls : call'[t].pc \in Unmade =>
        promise'[<<t, "auto">>] = "none" /\ promise'[<<t, "create">>] = "none"
  BY <1>6 DEF OwnInv, PromisesFresh, Unfiled
<1>8. \A t \in Calls : call'[t].pc = "autoManager" => promise'[<<t, "create">>] = "none"
  BY <1>6 DEF OwnInv, PromisesFresh, Unfiled
<1> QED
  BY <1>4, <1>5, <1>7, <1>8, UnfiledOvertaken DEF PromisesFresh, PromisesKept

\* A reconnection under key k finds no promise pending there, and a restart is
\* of no session that is being reconnected.
Overtakes(t, k) ==
    /\ call'[t].pc = "restoring" =>
         /\ ~call'[t].listening /\ ~Pending(startingSessions[k])
         /\ \A u \in Calls : (call[u].listening /\ call[u].session = call'[t].session) => Key(u) = k
    /\ call'[t].listening =>
         \A u \in Calls : call[u].pc = "restoring" => call[u].session # call'[t].session

\* Call t makes a promise, or takes over the one that is pending for its key.
FiledBy(t, k, p) ==
    /\ startingSessions' = [startingSessions EXCEPT ![k] = p]
    /\ promise' = [promise EXCEPT ![p] = "pending"]
    /\ \/ p \in {<<t, "auto">>, <<t, "create">>} /\ promise[p] = "none"
       \/ p = startingSessions[k] /\ Pending(p)
    /\ \A u \in Calls \ {t} : call'[u] = call[u]
    /\ call'[t].promise = p /\ Key(t)' = k
    /\ Creating(t)' \/ call'[t].listening
    /\ (Creating(t) \/ call[t].listening) => Key(t) = k
    /\ call'[t].pc \notin Unmade
    /\ call'[t].pc = "autoManager" => p = <<t, "auto">> /\ promise[<<t, "create">>] = "none"
    /\ Overtakes(t, k)

\* Reconnections and listeners after a step that files a promise.
LEMMA FilesOvertaken ==
  ASSUME OwnInv, NEW t \in Calls, NEW k \in Keys, NEW p \in Promises, FiledBy(t, k, p)
  PROVE  Overtaken' /\ ListenersMade'
<1>1. /\ startingSessions'[k] = p /\ \A l \in Keys \ {k} : startingSessions'[l] = startingSessions[l]
      /\ promise'[p] = "pending" /\ \A q \in Promises \ {p} : promise'[q] = promise[q]
  BY DEF FiledBy, OwnInv, SafeInv, Inv, StartsOK
<1>2. \A u \in Calls \ {t} : call'[u] = call[u] /\ Key(u)' = Key(u)
  BY DEF FiledBy, Key
<1>3. ListenersMade'
  BY <1>1, <1>2, ListenerKey DEF ListenersMade, FiledBy
<1>4. ASSUME NEW u \in Calls \ {t}, call[u].listening, call[u].promise = p
      PROVE  p = startingSessions[k] /\ Pending(p)
  BY <1>4, ListenerKey DEF FiledBy
<1>5. ASSUME NEW a \in Calls, NEW u \in Calls, call'[a].pc = "restoring", call'[u].listening,
             call'[u].session = call'[a].session
      PROVE  Spent(u)'
  <2>1. u # t
    BY <1>2, <1>5 DEF FiledBy, Overtakes
  <2>2. /\ call'[u] = call[u] /\ Key(u)' = Key(u) /\ call[u].listening
        /\ Key(u) \in Keys /\ call[u].promise \in Promises
    BY <1>2, <1>5, <2>1, ListenerKey
  <2>3. CASE a = t
    <3>1. Key(u) = k /\ ~Pending(startingSessions[k])
      BY <1>5, <2>2, <2>3 DEF FiledBy, Overtakes
    <3>2. call[u].promise # p
      BY <1>4, <2>1, <2>2, <3>1
    <3> QED
      BY <1>1, <2>2, <3>1, <3>2 DEF Spent
  <2>4. CASE a # t
    <3>1. Spent(u)
      BY <1>2, <1>5, <2>2, <2>4 DEF OwnInv, Overtaken
    <3>2. CASE call[u].promise = p
      <4>1. p = startingSessions[k] /\ Pending(p)
        BY <1>4, <2>1, <2>2, <3>2
      <4>2. Key(u) # k /\ startingSessions[Key(u)] # p
        BY <3>1, <3>2, <4>1 DEF Spent
      <4> QED
        BY <1>1, <2>2, <3>2, <4>2 DEF Spent
    <3>3. CASE call[u].promise # p
      <4>1. promise'[call[u].promise] = promise[call[u].promise]
        BY <1>1, <2>2, <3>3
      <4>2. startingSessions'[Key(u)] \in {startingSessions[Key(u)], p}
        BY <1>1, <2>2
      <4> QED
        BY <2>2, <3>1, <3>3, <4>1, <4>2 DEF Spent, Pending
    <3> QED
      BY <3>2, <3>3
  <2> QED
    BY <2>3, <2>4
<1> QED
  BY <1>3, <1>5 DEF Overtaken

\* The promises after a step that files one.
LEMMA FilesOwned ==
  ASSUME OwnInv, NEW t \in Calls, NEW k \in Keys, NEW p \in Promises, FiledBy(t, k, p)
  PROVE  PromisesKept
<1>1. /\ \A l \in Keys : startingSessions[l] \in Promises \cup {None}
      /\ startingSessions \in [Keys -> Promises \cup {None}]
      /\ promise \in [Promises -> {"none", "pending", "fulfilled", "rejected"}]
  BY DEF OwnInv, SafeInv, Inv, StartsOK
<1>2. /\ startingSessions'[k] = p /\ \A l \in Keys \ {k} : startingSessions'[l] = startingSessions[l]
      /\ promise'[p] = "pending" /\ \A q \in Promises \ {p} : promise'[q] = promise[q]
  BY <1>1 DEF FiledBy
<1>3. ASSUME NEW l \in Keys, Pending(startingSessions[l])'
      PROVE  \E u \in Calls : Owns(u, l)'
  <2>1. CASE l = k
    <3>1. Owns(t, k)'
      BY <1>2 DEF FiledBy, Owns
    <3> QED
      BY <2>1, <3>1
  <2>2. CASE l # k
    <3>1. /\ startingSessions'[l] = startingSessions[l] /\ startingSessions[l] # None
          /\ promise'[startingSessions[l]] = "pending" /\ startingSessions[l] \in Promises
      BY <1>1, <1>2, <1>3, <2>2 DEF Pending
    <3>2. promise[startingSessions[l]] # "none"
      BY <3>1 DEF OwnInv, PromisesFresh
    <3>3. promise[startingSessions[l]] = "pending"
      BY <1>2, <3>1, <3>2 DEF FiledBy, Pending
    <3>4. PICK u \in Calls : Owns(u, l)
      BY <3>1, <3>3 DEF OwnInv, PromisesOwned, Pending
    <3>5. call[u].promise = startingSessions[l] /\ Key(u) = l /\ (Creating(u) \/ call[u].listening)
      BY <3>4 DEF Owns
    <3>6. u # t
      BY <2>2, <3>5 DEF FiledBy
    <3>7. call'[u] = call[u]
      BY <3>6 DEF FiledBy
    <3>8. Key(u)' = Key(u) /\ (Creating(u)' <=> Creating(u))
      BY <3>7 DEF Key, Creating
    <3> QED
      BY <3>1, <3>5, <3>7, <3>8 DEF Owns
  <2> QED
    BY <2>1, <2>2
<1>4. PromisesOwned'
  BY <1>3 DEF PromisesOwned
<1>5. \A l \in Keys : startingSessions'[l] # None => promise'[startingSessions'[l]] # "none"
  BY <1>1, <1>2 DEF OwnInv, PromisesFresh
<1>6. \A u \in Calls : <<u, "auto">> \in Promises /\ <<u, "create">> \in Promises
  BY DEF Promises
<1>7. \A u \in Calls \ {t} : \A x \in {"auto", "create"} :
        promise[<<u, x>>] = "none" => promise'[<<u, x>>] = "none"
  <2> TAKE u \in Calls \ {t}
  <2> TAKE x \in {"auto", "create"}
  <2>1. promise[<<u, x>>] = "none" => <<u, x>> # p
    BY DEF FiledBy, Pending
  <2> QED
    BY <1>2, <1>6, <2>1
<1>8. ASSUME NEW u \in Calls, call'[u].pc \in Unmade
      PROVE  promise'[<<u, "auto">>] = "none" /\ promise'[<<u, "create">>] = "none"
  <2>1. u # t /\ call[u].pc \in Unmade
    BY <1>8 DEF FiledBy
  <2> QED
    BY <1>7, <2>1 DEF OwnInv, PromisesFresh
<1>9. ASSUME NEW u \in Calls, call'[u].pc = "autoManager"
      PROVE  promise'[<<u, "create">>] = "none"
  <2>1. CASE u = t
    BY <1>2, <1>6, <1>9, <2>1 DEF FiledBy
  <2>2. CASE u # t
    <3>1. call[u].pc = "autoManager"
      BY <1>9, <2>2 DEF FiledBy
    <3>2. promise[<<u, "create">>] = "none"
      BY <3>1 DEF OwnInv, PromisesFresh
    <3> QED
      BY <1>7, <2>2, <3>2
  <2> QED
    BY <2>1, <2>2
<1> QED
  BY <1>4, <1>5, <1>8, <1>9, FilesOvertaken DEF PromisesFresh, PromisesKept

-----------------------------------------------------------------------------
(* The steps.                                                              *)

\* A call that creates a session, or listens, has a key.
LEMMA WorkerKey ==
  ASSUME Inv, ListenOK, NEW u \in Calls, Creating(u) \/ Listens(u)
  PROVE  call[u].host \in Hosts /\ call[u].runtime \in Runtimes
<1>1. CASE Creating(u)
  BY <1>1, OwnRecord DEF Creating, WellFormed, KeyedPcs, Keyed
<1>2. CASE Listens(u)
  BY <1>2 DEF ListenOK, SessionOf, Inv, SessionsOK, Keyed
<1> QED
  BY <1>1, <1>2

\* Settling a promise makes none.
LEMMA SettleNone ==
  ASSUME Inv, NEW p, NEW outcome \in {"fulfilled", "rejected"}, Settle(p, outcome)
  PROVE  /\ \A q \in Promises : /\ promise'[q] = "none" <=> promise[q] = "none"
                                /\ promise'[q] = "pending" => promise[q] = "pending"
         /\ p \in Promises => promise'[p] # "pending"
  BY DEF Inv, StartsOK, Settle

\* Clearing the maps forgets the promise of the key, and no other.
LEMMA ClearKey ==
  ASSUME Inv, NEW h \in Hosts, NEW r \in Runtimes, ClearStarting(h, r)
  PROVE  /\ \A k \in Keys : startingSessions'[k] \in {startingSessions[k], None}
         /\ startingSessions'[<<h, r>>] = None
  BY DEF Inv, StartsOK, ClearStarting, Keys

\* Calls that only move, or stay as they are, own what they did.
LEMMA MovedRetains ==
  ASSUME NEW u \in Calls, call'[u] = call[u] \/ Moved(u)
  PROVE  /\ Retains(u) /\ Continues(u)
         /\ call'[u].pc \in Unmade => call[u].pc \in Unmade
         /\ call'[u].pc = "autoManager" => call[u].pc = "autoManager"
  BY DEF Retains, Continues, Creating, Key, Moved, Inert, CreatingPcs

\* Steps in which calls only move, and no promise is touched.
LEMMA MovesUnfiled ==
  ASSUME \A u \in Calls : call'[u] = call[u] \/ Moved(u),
         UNCHANGED <<startingSessions, promise>>
  PROVE  Unfiled
  BY MovedRetains DEF Unfiled

\* The steps of one call.
LEMMA GoesUnfiled ==
  ASSUME NEW t \in Calls, NEW where, where \notin Unmade \cup {"autoManager", "restoring"},
         Goes(t, where)
  PROVE  /\ \A u \in Calls : /\ call'[u].pc \in Unmade => call[u].pc \in Unmade
                             /\ call'[u].pc = "autoManager" => call[u].pc = "autoManager"
                             /\ Continues(u)
         /\ \A u \in Calls \ {t} : Retains(u)
         /\ (call[t].listening \/ where \in CreatingPcs) => Retains(t)
  BY DEF Goes, Retains, Continues, Creating, Key

\* The failure and the success of a start settle the promise and clear the key.
LEMMA EndsUnfiled ==
  ASSUME SafeInv, NEW t \in Calls, Fails(t) \/ Starts(t)
  PROVE  Unfiled
<1>1. PICK where \in {"threw", "returned"}, outcome \in {"rejected", "fulfilled"} :
        /\ Goes(t, where) /\ Creating(t)
        /\ Settle(call[t].promise, outcome) /\ ClearStarting(call[t].host, call[t].runtime)
  BY DEF Fails, Starts, Creating, CreatingPcs
<1>2. call[t].host \in Hosts /\ call[t].runtime \in Runtimes
  BY <1>1, WorkerKey DEF SafeInv
<1>3. /\ \A k \in Keys : startingSessions'[k] \in {startingSessions[k], None}
      /\ startingSessions'[Key(t)] = None
  BY <1>1, <1>2, ClearKey DEF SafeInv, Key
<1>4. \A p \in Promises : /\ promise'[p] = "none" <=> promise[p] = "none"
                          /\ promise'[p] = "pending" => promise[p] = "pending"
  BY <1>1, SettleNone DEF SafeInv
<1>5. /\ \A u \in Calls : /\ call'[u].pc \in Unmade => call[u].pc \in Unmade
                          /\ call'[u].pc = "autoManager" => call[u].pc = "autoManager"
                          /\ Continues(u)
      /\ \A u \in Calls \ {t} : Retains(u)
  BY <1>1, GoesUnfiled DEF Unmade
<1> QED
  BY <1>3, <1>4, <1>5 DEF Unfiled

\* The answers to a restart, and its timer.
LEMMA RestartUnfiled ==
  ASSUME SafeInv, NEW t \in Calls, Restarted(t) \/ RestartFailed(t) \/ TimedOut(t)
  PROVE  Unfiled
<1>1. CASE Restarted(t) \/ RestartFailed(t)
  <2>1. Goes(t, "awaitPromise") /\ call[t].pc = "restarting"
    BY <1>1 DEF Restarted, RestartFailed
  <2>2. /\ \A u \in Calls : /\ call'[u].pc \in Unmade => call[u].pc \in Unmade
                            /\ call'[u].pc = "autoManager" => call[u].pc = "autoManager"
                            /\ Continues(u)
        /\ \A u \in Calls \ {t} : Retains(u)
        /\ call[t].listening => Retains(t)
    BY <2>1, GoesUnfiled DEF Unmade
  <2>3. ~call[t].listening => Retains(t)
    BY <2>1 DEF Retains, Creating, CreatingPcs
  <2>4. CASE Restarted(t)
    BY <2>2, <2>3, <2>4 DEF Restarted, Unfiled
  <2>5. CASE RestartFailed(t)
    <3>1. call[t].host \in Hosts /\ call[t].runtime \in Runtimes
      BY <2>1, WorkerKey DEF SafeInv, Listens
    <3>2. Settle(call[t].promise, "rejected") /\ ClearStarting(call[t].host, call[t].runtime)
      BY <2>5 DEF RestartFailed
    <3> QED
      BY <2>2, <2>3, <3>1, <3>2, SettleNone, ClearKey DEF SafeInv, Unfiled
  <2> QED
    BY <1>1, <2>4, <2>5
<1>2. CASE TimedOut(t)
  <2>1. /\ call[t].listening /\ call' = [call EXCEPT ![t].listening = FALSE]
        /\ Settle(call[t].promise, "rejected") /\ UNCHANGED startingSessions
    BY <1>2 DEF TimedOut
  <2>2. /\ \A u \in Calls : call'[u].pc = call[u].pc /\ Continues(u)
        /\ \A u \in Calls \ {t} : Retains(u)
    BY <2>1 DEF SafeInv, Inv, CallsOK, CallRecord, Retains, Continues, Creating, Key
  <2>3. \A p \in Promises : /\ promise'[p] = "none" <=> promise[p] = "none"
                            /\ promise'[p] = "pending" => promise[p] = "pending"
    BY <2>1, SettleNone DEF SafeInv
  <2>4. call[t].promise \in Promises => promise'[call[t].promise] # "pending"
    BY <2>1, SettleNone DEF SafeInv
  <2> QED
    BY <2>1, <2>2, <2>3, <2>4 DEF Unfiled
<1> QED
  BY <1>1, <1>2

\* A session that is attached is new and has no listener, or its listeners have
\* been overtaken.
LEMMA AttachUnfiled ==
  ASSUME OwnInv, NEW t \in Calls, NEW s, Attaches(t, s)
  PROVE  Unfiled
<1>1. ASSUME NEW u \in Calls \ {t}, call[u].session = s, call[u].listening PROVE Spent(u)
  <2>1. CASE call[t].pc = "creating" /\ s = t
    <3>1. Active(t)
      BY <1>1, <2>1 DEF OwnInv, SafeInv, ListenOK, Listens
    <3> QED
      BY <2>1, <3>1 DEF OwnInv, SafeInv, Safe, CreatedOK, FinalPcs
  <2>2. CASE call[t].pc = "restoring" /\ s = call[t].session
    BY <1>1, <2>2 DEF OwnInv, Overtaken
  <2> QED
    BY <2>1, <2>2 DEF Attaches
<1>2. ASSUME NEW u \in Calls \ {t}
      PROVE  /\ Retains(u) \/ (call[u].session = s /\ call[u].listening)
             /\ call'[u].pc \in Unmade => call[u].pc \in Unmade
             /\ call'[u].pc = "autoManager" => call[u].pc = "autoManager"
             /\ Continues(u)
  BY DEF Attaches, Retains, Continues, Creating, Key, CreatingPcs, Unmade
<1>3. Retains(t) /\ Continues(t) /\ call'[t].pc \notin Unmade \cup {"autoManager"}
  <2>1. ~call[t].listening
    BY DEF Attaches, OwnInv, SafeInv, ListenOK, Listens
  <2> QED
    BY <2>1 DEF Attaches, Retains, Continues, Creating, Key, CreatingPcs, Unmade
<1> QED
  BY <1>1, <1>2, <1>3 DEF Attaches, Unfiled

\* Ready settles the promises of the listeners of the session.
LEMMA ReadiesUnfiled ==
  ASSUME SafeInv, NEW s \in Sessions, Readies(s)
  PROVE  Unfiled
<1>1. \A k \in Keys : startingSessions'[k] \in {startingSessions[k], None}
  <2>1. session[s].host \in Hosts /\ session[s].runtime \in Runtimes
    BY DEF Readies, SafeInv, Inv, SessionsOK, Keyed
  <2> QED
    BY <2>1, ClearKey DEF Readies, SafeInv
<1>2. \A p \in Promises : /\ promise'[p] = "none" <=> promise[p] = "none"
                          /\ promise'[p] = "pending" => promise[p] = "pending"
  BY DEF Readies
<1>3. ASSUME NEW u \in Calls, Listened(u, s), call[u].promise \in Promises
      PROVE  promise'[call[u].promise] # "pending"
  BY <1>3 DEF Readies
<1>4. ASSUME NEW u \in Calls
      PROVE  /\ call'[u].pc \in Unmade => call[u].pc \in Unmade
             /\ call'[u].pc = "autoManager" => call[u].pc = "autoManager"
             /\ Retains(u) \/ Listened(u, s)
             /\ Continues(u)
  BY MovedRetains DEF Readies, Continues
<1> QED
  BY <1>1, <1>2, <1>3, <1>4 DEF Unfiled

\* A start, a reconnection or a restart begins with a promise of its own.
LEMMA BeginsFiles ==
  ASSUME OwnInv, NEW t \in Calls, NEW h \in Hosts, NEW r \in Runtimes,
         NEW p \in {<<t, "auto">>, <<t, "create">>},
         Inert(call[t]), call[t].pc \in Unmade,
         \A u \in Calls \ {t} : call'[u] = call[u],
         call'[t].host = h, call'[t].runtime = r, call'[t].promise = p,
         \/ call'[t].pc = IF p = <<t, "auto">> THEN "autoManager" ELSE "creating"
         \/ call'[t].pc = "restoring" \/ (call'[t].pc = "restarting" /\ call'[t].listening),
         Overtakes(t, <<h, r>>), BeginStart(h, r, p)
  PROVE  PromisesKept
<1>1. <<h, r>> \in Keys /\ p \in Promises
  BY DEF Keys, Promises
<1>2. promise[<<t, "auto">>] = "none" /\ promise[<<t, "create">>] = "none"
  BY DEF OwnInv, PromisesFresh
<1>3. FiledBy(t, <<h, r>>, p)
  BY <1>2 DEF FiledBy, BeginStart, Key, Creating, CreatingPcs, Inert, Unmade
<1> QED
  BY <1>1, <1>3, FilesOwned

\* An automatic start goes on with its promise, or makes another one for the
\* same key.
LEMMA CreatesFiles ==
  ASSUME OwnInv, NEW t \in Calls, NEW r \in Runtimes, Creates(t, r)
  PROVE  PromisesKept
<1> DEFINE k == <<call[t].host, r>>
           old == startingSessions[k]
           p == IF Pending(old) THEN old ELSE <<t, "create">>
<1>1. call[t].pc = "autoManager"
  BY DEF Creates, OwnInv, RegistryOK
<1>2. r = call[t].runtime
  BY <1>1 DEF Creates
<1>3. k = Key(t) /\ k \in Keys
  BY <1>1, <1>2, OwnRecord DEF OwnInv, SafeInv, WellFormed, KeyedPcs, CreatingPcs, Keyed, Key, Keys
<1>4. old \in Promises \cup {None}
  BY <1>3 DEF OwnInv, SafeInv, Inv, StartsOK
<1>5. p \in Promises
  BY <1>4 DEF Promises, Pending
<1>6. promise[<<t, "create">>] = "none"
  BY <1>1 DEF OwnInv, PromisesFresh
<1>7. \/ p \in {<<t, "auto">>, <<t, "create">>} /\ promise[p] = "none"
      \/ p = startingSessions[k] /\ Pending(p)
  BY <1>6
<1>8. /\ BeginStart(call[t].host, r, p)
      /\ \A u \in Calls \ {t} : call'[u] = call[u]
      /\ call'[t].pc = "creating" /\ call'[t].host = call[t].host /\ call'[t].runtime = r
      /\ call'[t].promise = p
  BY DEF Creates
<1> HIDE DEF p
<1>9. FiledBy(t, k, p)
  <2>1. ~call'[t].listening
    BY <1>1 DEF Creates, OwnInv, SafeInv, ListenOK, Listens
  <2>2. Overtakes(t, k)
    BY <1>8, <2>1 DEF Overtakes
  <2> QED
    BY <1>3, <1>7, <1>8, <2>2 DEF FiledBy, BeginStart, Key, Creating, CreatingPcs, Unmade
<1> QED
  BY <1>3, <1>5, <1>9, FilesOwned

\* Every step keeps the start promises owned.
LEMMA OwnedNext ==
  ASSUME OwnInv, Moves \/ Changes
  PROVE  PromisesKept
<1>1. SafeInv /\ Inv /\ ListenOK
  BY DEF OwnInv, SafeInv
<1>2. CASE Moves
  BY <1>2, MovesUnfiled, UnfiledOwned DEF Moves
<1>3. ASSUME NEW t \in Calls, NEW h \in Hosts, NEW r \in Runtimes,
             NEW p \in {<<t, "auto">>, <<t, "create">>}, Begins(t, h, r, p)
      PROVE  PromisesKept
  <2>1. Overtakes(t, <<h, r>>)
    BY <1>3 DEF Begins, Overtakes
  <2> QED
    BY <1>3, <2>1, BeginsFiles DEF Begins
<1>4. ASSUME NEW t \in Calls, NEW s \in Sessions, Restores(t, s) \/ Restarts(t, s)
      PROVE  PromisesKept
  <2>1. session[s].host \in Hosts /\ session[s].runtime \in Runtimes
    BY <1>1, <1>4 DEF Restores, Restarts, Inv, LossesOK, SessionsOK, Keyed
  <2>2. call[t].pc \in Unmade
    BY <1>4 DEF Restores, Restarts, Unmade
  <2>3. /\ Inert(call[t]) /\ \A u \in Calls \ {t} : call'[u] = call[u]
        /\ call'[t].host = session[s].host /\ call'[t].runtime = session[s].runtime
        /\ call'[t].promise = <<t, "create">>
        /\ BeginStart(session[s].host, session[s].runtime, <<t, "create">>)
    BY <1>4 DEF Restores, Restarts
  <2>4. call'[t].pc = "restoring" \/ (call'[t].pc = "restarting" /\ call'[t].listening)
    BY <1>4 DEF Restores, Restarts
  <2>5. Overtakes(t, <<session[s].host, session[s].runtime>>)
    <3>1. CASE Restores(t, s)
      <4>1. ASSUME NEW u \in Calls, call[u].listening, call[u].session = s
            PROVE  Key(u) = <<session[s].host, session[s].runtime>>
        BY <1>1, <4>1 DEF ListenOK, Listens, SessionOf, Key
      <4> QED
        BY <3>1, <4>1 DEF Restores, Overtakes
    <3>2. CASE Restarts(t, s)
      <4>1. ASSUME NEW u \in Calls, call[u].pc = "restoring" PROVE call[u].session # s
        BY <1>1, <3>2, <4>1 DEF Restarts, SafeInv, Safe, ReconnectOK, Lost
      <4> QED
        BY <3>2, <4>1 DEF Restarts, Overtakes
    <3> QED
      BY <1>4, <3>1, <3>2
  <2> QED
    BY <2>1, <2>2, <2>3, <2>4, <2>5, BeginsFiles
<1>5. ASSUME NEW t \in Calls, Answer(t) \/ RestartTimeout(t)
      PROVE  PromisesKept
  <2>1. ~Validates(t) /\ ~FailsInvalid(t)
    BY DEF OwnInv, RegistryOK, Validates, FailsInvalid, Automatic
  <2>2. Unfiled => PromisesKept
    BY UnfiledOwned
  <2> QED
    BY <1>1, <1>5, <2>1, <2>2, AnswerStep, RestartStep, CreatesFiles, EndsUnfiled, RestartUnfiled,
       AttachUnfiled
<1>6. ASSUME NEW s \in Sessions, KernelLaunched(s) \/ KernelExits(s) \/ ExitEvent(s)
      PROVE  PromisesKept
  <2>1. Launches(s) \/ KernelExits(s) \/ Exits(s)
    BY <1>1, <1>6, LaunchStep, ExitStep
  <2>2. /\ \A u \in Calls : call'[u] = call[u] \/ Moved(u)
        /\ UNCHANGED <<startingSessions, promise>>
    BY <2>1 DEF Launches, KernelExits, Exits, serviceMaps
  <2> QED
    BY <2>2, MovesUnfiled, UnfiledOwned
<1>7. ASSUME NEW s \in Sessions, KernelReady(s)
      PROVE  PromisesKept
  BY <1>1, <1>7, ReadyStep, ReadiesUnfiled, UnfiledOwned
<1>8. CASE LoseExtHost
  <2>1. \A u \in Calls : call'[u] = call[u] \/ Moved(u)
    BY <1>1, <1>8, LoseSafe DEF SafeInv
  <2>2. UNCHANGED <<startingSessions, promise>>
    BY <1>8 DEF LoseExtHost, serviceMaps
  <2> QED
    BY <2>1, <2>2, MovesUnfiled, UnfiledOwned
<1> QED
  BY <1>2, <1>3, <1>4, <1>5, <1>6, <1>7, <1>8 DEF Changes

\* A pending start promise, with which new requests for the same session would
\* be coalesced, belongs to a call that is still working on it and will settle
\* it: for consoles and notebooks, with starts, automatic starts, selections,
\* restarts, reconnections and shutdowns interleaved in any way, kernels that end
\* and extension hosts that are lost at any time.  A start whose runtime has to
\* be validated first is not meant: when the validation throws, its promise is
\* left pending.
THEOREM StartPromisesAreOwned ==
  Foreseen => (Spec => []StartPromiseOwned)
<1> SUFFICES ASSUME Foreseen PROVE Spec => []StartPromiseOwned
  OBVIOUS
<1>1. Init => OwnInv
  <2> SUFFICES ASSUME Init PROVE OwnInv
    OBVIOUS
  <2>1. SafeInv
    BY SafeInit
  <2>2. \A t \in Calls : call[t].pc = "new"
    BY DEF Init, NewCall
  <2>3. PromisesOwned /\ PromisesFresh
    BY <2>2 DEF Init, PromisesOwned, PromisesFresh, Pending, Promises
  <2>4. RegistryOK
    BY <2>2 DEF Init, RegistryOK, Automatic
  <2>5. Overtaken
    BY <2>2 DEF Overtaken
  <2>6. ListenersMade
    BY <2>1, <2>2 DEF ListenersMade, SafeInv, ListenOK, Listens
  <2> QED
    BY <2>1, <2>3, <2>4, <2>5, <2>6 DEF OwnInv
<1>2. OwnInv /\ [Next]_vars => OwnInv'
  <2> SUFFICES ASSUME OwnInv, [Next]_vars PROVE OwnInv'
    OBVIOUS
  <2>1. SafeInv' /\ SafeInv /\ (Moves \/ Changes)
    BY SafeNext, StepKinds DEF OwnInv, SafeInv
  <2>2. PromisesKept
    BY <2>1, OwnedNext
  <2>3. RegistryOK'
    BY <2>1, RegistryNext DEF OwnInv
  <2> QED
    BY <2>1, <2>2, <2>3 DEF OwnInv, PromisesKept
<1>3. OwnInv => StartPromiseOwned
  BY DEF OwnInv, PromisesOwned, Owns, Creating, StartPromiseOwned, InProgress
<1> QED
  BY <1>1, <1>2, <1>3, PTL DEF Spec
==============================================================================
