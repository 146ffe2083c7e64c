----------------------- MODULE RuntimeSessionsConsole -----------------------
(***************************************************************************)
(* Consoles: one per language, found by the service as long as it runs.    *)
(*                                                                         *)
(* The results hold while the extension host stays (the reconnection of    *)
(* lost sessions is the subject of RuntimeSessionsProofs) and while the    *)
(* change to Exited is not held back behind the exit event: assumptions    *)
(* on two constants of the environment.                                    *)
(*                                                                         *)
(* The argument is about who OCCUPIES a language: a call that creates a    *)
(* session for it, a session of it that runs, or one that is about to be   *)
(* launched again.  There is never more than one, and the service can see  *)
(* it, in the map of starting or in the map of running sessions; a start   *)
(* is let through only if it sees nobody.                                  *)
(***************************************************************************)
EXTENDS RuntimeSessionsProofs

\* Call x, or the session it created, takes up language h.
Occupies(x, h) ==
    \/ Creating(x) /\ call[x].host = h
    \/ session[x].host = h /\ (Running(x) \/ session[x].relaunch)

\* No session is lost: a call that starts a session has created it.
Calm ==
    /\ extHost /\ disconnected = {} /\ disconnecting = {}
    /\ \A t \in Calls : /\ call[t].pc # "restoring"
                        /\ call[t].pc = "starting" => call[t].session = t

\* A language has one occupant.
Exclusive ==
    \A h \in Languages : \A x, y \in Calls : (Occupies(x, h) /\ Occupies(y, h)) => x = y

\* The service sees it.
Marked ==
    \A h \in Languages : \A x \in Calls : Occupies(x, h) => starting[h] # None \/ running[h] = x

\* A session that has been Ready and has not exited is the running one.
Tracked ==
    \A s \in Sessions :
        (session[s].host \in Languages /\ state[s] \notin {"Starting", "Uninitialized", "Exited"})
            => running[session[s].host] = s

\* A session that will be launched again marks its language until it is.
Relaunched ==
    \A s \in Sessions : session[s].relaunch =>
        /\ state[s] \notin {"Starting", "Uninitialized"}
        /\ session[s].host \in Languages =>
             /\ starting[session[s].host] # None
             /\ Running(s) => running[session[s].host] = s

\* The maps and the promise of a call that creates a console are its own.
CreatorOK ==
    \A t \in Calls : (Creating(t) /\ call[t].host \in Languages) =>
        /\ starting[call[t].host] # None
        /\ Pending(call[t].promise) /\ startingSessions[Key(t)] = call[t].promise
        /\ ~session[t].relaunch
        /\ \A u \in Calls : (u # t /\ call[u].promise = call[t].promise) => Inert(call[u])
        /\ \A u \in Calls : call[u].listening => call[u].session # t

\* A restart that requests are still coalesced with is the only thing that goes
\* on for its language.
Awaited(u) ==
    /\ call[u].host \in Languages
    /\ promise[call[u].promise] = "pending" /\ startingSessions[Key(u)] = call[u].promise
RestarterOK ==
    \A u \in Calls : Listens(u) =>
        /\ call[u].promise = <<u, "create">>
        /\ promise[call[u].promise] = "pending" => call[u].listening
        /\ Awaited(u) =>
             /\ starting[call[u].host] # None
             /\ \A x \in Calls : Occupies(x, call[u].host) => x = call[u].session /\ ~Creating(x)

\* A pending start promise is filed under one key, that of the call that works
\* on it, and promises are made only once.
FiledOnce ==
    \A k, l \in Keys :
        (Pending(startingSessions[k]) /\ startingSessions[k] = startingSessions[l]) => k = l
FiledByKey ==
    \A u \in Calls : \A k \in Keys :
        (~Inert(call[u]) /\ Pending(startingSessions[k]) /\ startingSessions[k] = call[u].promise)
            => k = Key(u)
MadeOnce ==
    /\ \A k \in Keys : startingSessions[k] # None => promise[startingSessions[k]] # "none"
    /\ \A t \in Calls : ~Inert(call[t]) =>
         call[t].promise \in Promises /\ promise[call[t].promise] # "none"
    /\ \A t \in Calls : call[t].pc \in Unmade =>
         promise[<<t, "auto">>] = "none" /\ promise[<<t, "create">>] = "none"
    /\ \A t \in Calls : call[t].pc \in {"autoManager", "validating"} => promise[<<t, "create">>] = "none"
PromisesOK == FiledOnce /\ FiledByKey /\ MadeOnce

Console == Calm /\ Exclusive /\ Marked /\ Tracked /\ Relaunched /\ CreatorOK /\ RestarterOK /\ PromisesOK

-----------------------------------------------------------------------------
(* What the provers need about a state.                                    *)

\* A session whose Exited event was the first of the two has the state Exited.
Over == \A s \in Sessions : kernel[s] = "exited" => state[s] = "Exited"

\* The invariant this module is about, with those it rests on.
CInv == SafeInv /\ Over /\ Console

\* A call is inert, or creates a session, or listens.
LEMMA InertKinds ==
  \A t \in Calls : Inert(call[t]) <=> ~Creating(t) /\ ~Listens(t)
  BY DEF Inert, Creating, Listens

\* The running session of a language occupies it.
LEMMA RunningOccupies ==
  ASSUME CInv, NEW h \in Languages, running[h] # None
  PROVE  /\ running[h] \in Calls /\ Occupies(running[h], h)
         /\ session[running[h]].host = h /\ Running(running[h])
<1>1. h \in Hosts
  BY DEF Hosts
<1>2. running[h] \in Calls
  BY <1>1 DEF CInv, SafeInv, Inv, SessionsOK, Sessions
<1> QED
  BY <1>1, <1>2 DEF CInv, SafeInv, Safe, HostsLive, Occupies

\* A call that creates a session and whose session exists is starting it.
LEMMA CreatorSession ==
  ASSUME CInv, NEW t \in Calls, Creating(t), Active(t)
  PROVE  /\ call[t].pc = "starting" /\ call[t].session = t
         /\ session[t].host = call[t].host /\ session[t].runtime = call[t].runtime
<1>1. call[t].pc = "starting"
  BY DEF CInv, SafeInv, Safe, CreatedOK, Creating, CreatingPcs, FinalPcs
<1> QED
  BY <1>1 DEF CInv, SafeInv, Safe, StartedOK, SessionOf, Console, Calm

\* A session that occupies a language is attached.
LEMMA OccupantActive ==
  ASSUME NEW s \in Sessions, NEW h \in Languages, session[s].host = h
  PROVE  Active(s)
  BY NoneAssumption DEF Active, NoSession, Hosts

\* A call that creates a session has its key.
LEMMA CreatorKey ==
  ASSUME CInv, NEW t \in Calls, Creating(t)
  PROVE  /\ call[t].host \in Hosts /\ call[t].runtime \in Runtimes /\ Key(t) \in Keys
         /\ ~Inert(call[t]) /\ ~Listens(t)
<1>1. call[t].host \in Hosts /\ call[t].runtime \in Runtimes
  BY OwnRecord DEF CInv, SafeInv, WellFormed, KeyedPcs, Keyed, Creating
<1>2. ~Listens(t)
  BY DEF CInv, SafeInv, ListenOK, Creating, CreatingPcs
<1> QED
  BY <1>1, <1>2, InertKinds DEF Key, Keys

\* A call that creates a session occupies no language but its own.
LEMMA CreatorHost ==
  ASSUME CInv, NEW x \in Calls, NEW h \in Languages, Occupies(x, h), Creating(x)
  PROVE  call[x].host = h
<1>1. CASE session[x].host = h
  <2>1. Active(x)
    BY <1>1, OccupantActive DEF Sessions
  <2> QED
    BY <1>1, <2>1, CreatorSession
<1> QED
  BY <1>1 DEF Occupies

-----------------------------------------------------------------------------
(* Steps that begin nothing.                                               *)

\* A call goes on with what it does, or with less.
Wanes(u) ==
    /\ ~Inert(call'[u]) => /\ call'[u].host = call[u].host /\ call'[u].runtime = call[u].runtime
                           /\ call'[u].promise = call[u].promise
    /\ Creating(u)' => Creating(u)
    /\ Listens(u)' => Listens(u) /\ call'[u].session = call[u].session
    /\ call'[u].listening => call[u].listening
    /\ call'[u].pc \in Unmade => call[u].pc \in Unmade
    /\ call'[u].pc \in {"autoManager", "validating"} => call[u].pc \in {"autoManager", "validating"}

\* Start promises are settled and forgotten, none is made.
Settling ==
    /\ \A u \in Calls : Wanes(u)
    /\ \A k \in Keys : startingSessions'[k] \in {startingSessions[k], None}
    /\ \A p \in Promises : /\ promise'[p] = "none" <=> promise[p] = "none"
                           /\ promise'[p] = "pending" => promise[p] = "pending"

\* Nobody occupies a language who did not.
OccupiesLess == \A h \in Languages : \A x \in Calls : Occupies(x, h)' => Occupies(x, h)

\* Files and promises after such a step.
LEMMA SettlingPromises ==
  ASSUME CInv, Settling
  PROVE  PromisesOK'
<1>1. /\ \A k \in Keys : startingSessions[k] \in Promises \cup {None}
      /\ None \notin Promises
  BY NoneAssumption DEF CInv, SafeInv, Inv, StartsOK
<1>2. ASSUME NEW k \in Keys, startingSessions'[k] # None
      PROVE  /\ startingSessions'[k] = startingSessions[k] /\ startingSessions[k] \in Promises
             /\ Pending(startingSessions[k])' => Pending(startingSessions[k])
  BY <1>1, <1>2 DEF Settling, Pending
<1>3. ASSUME NEW u \in Calls, ~Inert(call'[u])
      PROVE  /\ ~Inert(call[u]) /\ Key(u)' = Key(u) /\ call'[u].promise = call[u].promise
  <2>1. Creating(u)' \/ Listens(u)'
    BY <1>3 DEF Inert, Creating, Listens
  <2> QED
    BY <1>3, <2>1, InertKinds DEF Settling, Wanes, Key
<1>4. FiledOnce'
  BY <1>2 DEF CInv, Console, PromisesOK, FiledOnce, Pending
<1>5. FiledByKey'
  BY <1>2, <1>3 DEF CInv, Console, PromisesOK, FiledByKey, Pending
<1>6. MadeOnce'
  <2>1. \A k \in Keys : startingSessions'[k] # None => promise'[startingSessions'[k]] # "none"
    BY <1>2 DEF CInv, Console, PromisesOK, MadeOnce, Settling
  <2>2. \A t \in Calls : ~Inert(call'[t]) =>
          call'[t].promise \in Promises /\ promise'[call'[t].promise] # "none"
    BY <1>3 DEF CInv, Console, PromisesOK, MadeOnce, Settling
  <2>3. \A t \in Calls : <<t, "auto">> \in Promises /\ <<t, "create">> \in Promises
    BY DEF Promises
  <2>4. \A t \in Calls : call'[t].pc \in Unmade =>
          promise'[<<t, "auto">>] = "none" /\ promise'[<<t, "create">>] = "none"
    BY <2>3 DEF CInv, Console, PromisesOK, MadeOnce, Settling, Wanes
  <2>5. \A t \in Calls : call'[t].pc \in {"autoManager", "validating"} =>
          promise'[<<t, "create">>] = "none"
    BY <2>3 DEF CInv, Console, PromisesOK, MadeOnce, Settling, Wanes
  <2> QED
    BY <2>1, <2>2, <2>4, <2>5 DEF MadeOnce
<1> QED
  BY <1>4, <1>5, <1>6 DEF PromisesOK

\* A restart that is awaited after such a step was so before.
LEMMA StillAwaited ==
  ASSUME CInv, Settling, NEW u \in Calls, Listens(u)', Awaited(u)'
  PROVE  /\ Listens(u) /\ Awaited(u) /\ call'[u].session = call[u].session
         /\ call'[u].host = call[u].host /\ call'[u].runtime = call[u].runtime
         /\ call'[u].promise = call[u].promise
         /\ \A x \in Calls : Occupies(x, call[u].host) => x = call[u].session /\ ~Creating(x)
<1>1. /\ Listens(u) /\ call'[u].session = call[u].session
      /\ ~Inert(call'[u])
  BY DEF Settling, Wanes, Inert, Listens
<1>2. /\ call'[u].host = call[u].host /\ call'[u].runtime = call[u].runtime
      /\ call'[u].promise = call[u].promise
  BY <1>1 DEF Settling, Wanes
<1>3. call[u].promise \in Promises
  <2>1. call[u].promise = <<u, "create">>
    BY <1>1 DEF CInv, Console, RestarterOK
  <2> QED
    BY <2>1 DEF Promises
<1>4. Key(u) \in Keys
  <2>1. SessionOf(u, call[u].session) /\ Active(call[u].session)
    BY <1>1 DEF CInv, SafeInv, ListenOK
  <2>2. call[u].host \in Hosts /\ call[u].runtime \in Runtimes
    BY <2>1 DEF SessionOf, CInv, SafeInv, Inv, SessionsOK, Keyed
  <2> QED
    BY <2>2 DEF Key, Keys
<1>5. Awaited(u)
  <2>1. Key(u)' = Key(u)
    BY <1>2 DEF Key
  <2>2. startingSessions'[Key(u)] = call[u].promise /\ promise'[call[u].promise] = "pending"
        /\ call[u].host \in Languages
    BY <1>2, <2>1 DEF Awaited
  <2>3. startingSessions[Key(u)] = call[u].promise
    BY <1>3, <1>4, <2>2, NoneAssumption DEF Settling
  <2> QED
    BY <1>3, <2>2, <2>3 DEF Awaited, Settling
<1> QED
  BY <1>1, <1>2, <1>5 DEF CInv, Console, RestarterOK

\* Restarts after such a step.
LEMMA SettlingRestarters ==
  ASSUME CInv, Settling, OccupiesLess,
         \A u \in Calls : (Listens(u)' /\ promise'[call'[u].promise] = "pending") => call'[u].listening,
         \A u \in Calls : (Listens(u)' /\ Awaited(u)') => starting'[call'[u].host] # None
  PROVE  RestarterOK'
<1> SUFFICES ASSUME NEW u \in Calls, Listens(u)'
             PROVE  /\ call'[u].promise = <<u, "create">>
                    /\ promise'[call'[u].promise] = "pending" => call'[u].listening
                    /\ Awaited(u)' =>
                         /\ starting'[call'[u].host] # None
                         /\ \A x \in Calls : Occupies(x, call[u].host)' =>
                              x = call'[u].session /\ ~Creating(x)'
  BY DEF RestarterOK
<1>1. call'[u].promise = <<u, "create">>
  <2>1. Listens(u) /\ ~Inert(call'[u])
    BY DEF Settling, Wanes, Inert, Listens
  <2> QED
    BY <2>1 DEF Settling, Wanes, CInv, Console, RestarterOK
<1>2. ASSUME Awaited(u)', NEW x \in Calls, Occupies(x, call[u].host)'
      PROVE  x = call'[u].session /\ ~Creating(x)'
  <2>1. /\ call'[u].session = call[u].session /\ call'[u].host = call[u].host
        /\ call[u].host \in Languages
        /\ Occupies(x, call[u].host) => x = call[u].session /\ ~Creating(x)
    BY <1>2, StillAwaited DEF Awaited
  <2>2. PICK h \in Languages : h = call[u].host /\ h = call'[u].host
    BY <2>1
  <2>3. Occupies(x, h)'
    BY <1>2, <2>2 DEF Occupies, Creating, Running
  <2>4. Occupies(x, h)
    BY <2>3 DEF OccupiesLess
  <2> QED
    BY <2>1, <2>2, <2>4 DEF Settling, Wanes
<1> QED
  BY <1>1, <1>2

\* Creators after such a step.
LEMMA SettlingCreators ==
  ASSUME CInv, Settling,
         \A t \in Calls : (Creating(t)' /\ call[t].host \in Languages) =>
            /\ starting'[call[t].host] = starting[call[t].host]
            /\ startingSessions'[Key(t)] = startingSessions[Key(t)]
            /\ promise'[call[t].promise] = promise[call[t].promise]
            /\ ~session'[t].relaunch
  PROVE  CreatorOK'
<1> SUFFICES ASSUME NEW t \in Calls, Creating(t)', call'[t].host \in Languages
             PROVE  /\ starting'[call'[t].host] # None
                    /\ Pending(call[t].promise)' /\ startingSessions'[Key(t)'] = call'[t].promise
                    /\ ~session'[t].relaunch
                    /\ \A u \in Calls : (u # t /\ call'[u].promise = call'[t].promise) => Inert(call'[u])
                    /\ \A u \in Calls : call'[u].listening => call'[u].session # t
  BY DEF CreatorOK
<1>1. Creating(t) /\ ~Inert(call'[t])
  BY DEF Settling, Wanes, Inert, Creating
<1>2. /\ call'[t].host = call[t].host /\ call'[t].runtime = call[t].runtime
      /\ call'[t].promise = call[t].promise /\ Key(t)' = Key(t)
  BY <1>1 DEF Settling, Wanes, Key
<1>3. /\ starting[call[t].host] # None
      /\ Pending(call[t].promise) /\ startingSessions[Key(t)] = call[t].promise
      /\ \A u \in Calls : (u # t /\ call[u].promise = call[t].promise) => Inert(call[u])
      /\ \A u \in Calls : call[u].listening => call[u].session # t
  BY <1>1, <1>2 DEF CInv, Console, CreatorOK
<1>4. ASSUME NEW u \in Calls, u # t, call'[u].promise = call'[t].promise, ~Inert(call'[u]) PROVE FALSE
  <2>1. ~Inert(call[u]) /\ call'[u].promise = call[u].promise
    BY <1>4, InertKinds DEF Settling, Wanes, Inert, Creating, Listens
  <2> QED
    BY <1>2, <1>3, <1>4, <2>1
<1>5. ASSUME NEW u \in Calls, call'[u].listening PROVE call'[u].session # t
  BY <1>3, <1>5 DEF Settling, Wanes, Listens
<1> QED
  BY <1>2, <1>3, <1>4, <1>5 DEF Pending

\* A call that has only moved.
LEMMA MovedWanes ==
  ASSUME NEW u \in Calls, call'[u] = call[u] \/ Moved(u)
  PROVE  Wanes(u)
<1>1. CASE call'[u] = call[u]
  BY <1>1 DEF Wanes, Creating, Listens
<1>2. CASE Moved(u)
  BY <1>2 DEF Moved, Inert, Wanes, Creating, Listens, CreatingPcs
<1> QED
  BY <1>1, <1>2

\* A call that goes on.
LEMMA GoesWanes ==
  ASSUME NEW t \in Calls, NEW where, Goes(t, where),
         \/ where = "validating" /\ call[t].pc = "autoManager"
         \/ where \in {"threw", "returned"}
         \/ where = "awaitPromise" /\ call[t].pc = "restarting"
  PROVE  \A u \in Calls : Wanes(u)
<1> SUFFICES ASSUME NEW u \in Calls PROVE Wanes(u)
  OBVIOUS
<1>1. CASE u # t
  BY <1>1, MovedWanes DEF Goes
<1>2. CASE u = t
  BY <1>2 DEF Goes, Wanes, Inert, Creating, Listens, CreatingPcs, Unmade
<1> QED
  BY <1>1, <1>2

\* No session is lost or reconnected.
LEMMA StaysCalm ==
  ASSUME CInv, extHost' /\ disconnected' = {} /\ disconnecting' = {},
         \A t \in Calls : \/ call'[t].pc = call[t].pc /\ call'[t].session = call[t].session
                          \/ call'[t].pc \notin {"starting", "restoring"}
  PROVE  Calm'
  BY DEF CInv, Console, Calm

\* The map of running sessions and the sessions are left alone.
StillRunning ==
    /\ UNCHANGED running
    /\ \A x \in Sessions : session'[x] = session[x] /\ (Running(x)' <=> Running(x))
    /\ \A x \in Sessions : state'[x] = state[x] \/ {state[x], state'[x]} \subseteq OnlineStates

\* Steps that only settle the promise of a restart, if anything.
LEMMA QuietStep ==
  ASSUME CInv, Calm', Settling, StillRunning, UNCHANGED <<starting, startingSessions>>,
         \A t \in Calls : (Creating(t)' /\ call[t].host \in Languages)
            => promise'[call[t].promise] = promise[call[t].promise],
         \A u \in Calls : (Listens(u)' /\ promise'[call'[u].promise] = "pending") => call'[u].listening
  PROVE  Console'
<1>1. OccupiesLess
  <2> SUFFICES ASSUME NEW h \in Languages, NEW x \in Calls, Occupies(x, h)'
               PROVE  Occupies(x, h)
    BY DEF OccupiesLess
  <2>1. CASE Creating(x)' /\ call'[x].host = h
    <3>1. ~Inert(call'[x])
      BY <2>1 DEF Inert, Creating
    <3> QED
      BY <2>1, <3>1 DEF Settling, Wanes, Occupies
  <2>2. CASE session'[x].host = h /\ (Running(x)' \/ session'[x].relaunch)
    BY <2>2 DEF StillRunning, Occupies, Sessions
  <2> QED
    BY <2>1, <2>2 DEF Occupies
<1>2. Exclusive' /\ Marked'
  BY <1>1 DEF CInv, Console, Exclusive, Marked, OccupiesLess, StillRunning
<1>3. Tracked'
  BY DEF CInv, Console, Tracked, StillRunning, OnlineStates
<1>4. Relaunched'
  BY DEF CInv, Console, Relaunched, StillRunning, OnlineStates
<1>5. CreatorOK'
  <2>1. \A t \in Calls : (Creating(t)' /\ call[t].host \in Languages) => ~session'[t].relaunch
    BY DEF CInv, Console, CreatorOK, StillRunning, Settling, Wanes, Sessions
  <2> QED
    BY <2>1, SettlingCreators
<1>6. \A u \in Calls : (Listens(u)' /\ Awaited(u)') => starting'[call'[u].host] # None
  <2> SUFFICES ASSUME NEW u \in Calls, Listens(u)', Awaited(u)' PROVE starting'[call'[u].host] # None
    OBVIOUS
  <2>1. Listens(u) /\ Awaited(u) /\ call'[u].host = call[u].host
    BY StillAwaited
  <2> QED
    BY <2>1 DEF CInv, Console, RestarterOK
<1>7. RestarterOK'
  BY <1>1, <1>6, SettlingRestarters
<1> QED
  BY <1>2, <1>3, <1>4, <1>5, <1>7, SettlingPromises DEF Console

\* Moves.
LEMMA MovesConsole ==
  ASSUME CInv, Moves
  PROVE  Console'
<1>1. UNCHANGED <<starting, startingSessions, promise, running, session, kernel>>
  BY DEF Moves
<1>2. Settling
  BY <1>1, MovedWanes DEF Moves, Settling
<1>3. StillRunning
  BY <1>1 DEF StillRunning, Running, Moves
<1>4. Calm'
  <2>1. extHost' /\ disconnected' = {} /\ disconnecting' = {}
    BY DEF Moves, Remembers, CInv, Console, Calm
  <2>2. \A t \in Calls : \/ call'[t].pc = call[t].pc /\ call'[t].session = call[t].session
                         \/ call'[t].pc \notin {"starting", "restoring"}
    BY DEF Moves, Moved, Inert, CreatingPcs
  <2> QED
    BY <2>1, <2>2, StaysCalm
<1>5. ASSUME NEW u \in Calls, Listens(u)', promise'[call'[u].promise] = "pending"
      PROVE  call'[u].listening
  <2>1. call'[u] = call[u]
    BY <1>5 DEF Moves, Moved, Inert, Listens
  <2> QED
    BY <1>1, <1>5, <2>1 DEF CInv, Console, RestarterOK, Listens
<1> QED
  BY <1>1, <1>2, <1>3, <1>4, <1>5, QuietStep

\* What keeps calm.
LEMMA GoesCalm ==
  ASSUME CInv, NEW t \in Calls, NEW where, Goes(t, where), where \notin {"starting", "restoring"},
         UNCHANGED <<extHost, disconnected, disconnecting>>
  PROVE  Calm'
<1>1. extHost' /\ disconnected' = {} /\ disconnecting' = {}
  BY DEF CInv, Console, Calm
<1> QED
  BY <1>1, StaysCalm DEF Goes

\* An automatic start has its metadata validated; a restart returns.
LEMMA GoesConsole ==
  ASSUME CInv, NEW t \in Calls, Validates(t) \/ Restarted(t)
  PROVE  Console'
<1>1. UNCHANGED <<starting, startingSessions, promise, running, session, kernel, state,
                  disconnected, disconnecting, extHost>>
  BY DEF Validates, Restarted, SessionsStay
<1>2. PICK where : /\ Goes(t, where)
                   /\ \/ where = "validating" /\ call[t].pc = "autoManager"
                      \/ where = "awaitPromise" /\ call[t].pc = "restarting"
  BY DEF Validates, Restarted
<1>3. Settling
  BY <1>1, <1>2, GoesWanes DEF Settling
<1>4. StillRunning
  BY <1>1 DEF StillRunning, Running
<1>5. Calm'
  BY <1>1, <1>2, GoesCalm
<1>6. ASSUME NEW u \in Calls, Listens(u)', promise'[call'[u].promise] = "pending"
      PROVE  call'[u].listening
  <2>1. Listens(u) /\ call'[u].promise = call[u].promise /\ call'[u].listening = call[u].listening
    BY <1>2, <1>3, <1>6 DEF Goes, Settling, Wanes
  <2> QED
    BY <1>1, <1>6, <2>1 DEF CInv, Console, RestarterOK
<1> QED
  BY <1>1, <1>3, <1>4, <1>5, <1>6, QuietStep

\* A call that is not inert shares its promise with no call that creates a console.
LEMMA OtherPromise ==
  ASSUME CInv, NEW t \in Calls, NEW u \in Calls, t # u, ~Inert(call[u]),
         Creating(t), call[t].host \in Languages
  PROVE  call[u].promise # call[t].promise
  BY DEF CInv, Console, CreatorOK

\* What the timer of a restart does to its call.
LEMMA TimedOutCall ==
  ASSUME CInv, NEW t \in Calls, TimedOut(t)
  PROVE  /\ \A u \in Calls \ {t} : call'[u] = call[u]
         /\ ~call'[t].listening /\ call'[t].pc = call[t].pc
         /\ call'[t].session = call[t].session /\ call'[t].promise = call[t].promise
         /\ call'[t].host = call[t].host /\ call'[t].runtime = call[t].runtime
<1>1. call[t] \in CallRecord
  BY OwnRecord DEF CInv, SafeInv
<1>2. /\ call'[t] = [call[t] EXCEPT !.listening = FALSE]
      /\ \A u \in Calls \ {t} : call'[u] = call[u]
  BY DEF TimedOut, CInv, SafeInv, Inv, CallsOK
<1>3. [call[t] EXCEPT !.listening = FALSE].listening = FALSE
  BY <1>1, Zenon DEF CallRecord
<1>4. /\ call'[t].pc = call[t].pc
      /\ call'[t].session = call[t].session /\ call'[t].promise = call[t].promise
      /\ call'[t].host = call[t].host /\ call'[t].runtime = call[t].runtime
  BY <1>1, <1>2 DEF CallRecord
<1> QED
  BY <1>2, <1>3, <1>4

\* The timer of a restart fires.
LEMMA TimedOutConsole ==
  ASSUME CInv, NEW t \in Calls, TimedOut(t)
  PROVE  Console'
<1>1. UNCHANGED <<starting, startingSessions, running, session, kernel, state,
                  disconnected, disconnecting, extHost>>
  BY DEF TimedOut, SessionsStay
<1>2. /\ \A u \in Calls \ {t} : call'[u] = call[u]
      /\ ~call'[t].listening /\ call'[t].pc = call[t].pc
      /\ call'[t].session = call[t].session /\ call'[t].promise = call[t].promise
      /\ call'[t].host = call[t].host /\ call'[t].runtime = call[t].runtime
  BY TimedOutCall
<1>3. Listens(t) /\ ~Inert(call[t]) /\ ~Creating(t)
  BY DEF TimedOut, Listens, Inert, CInv, SafeInv, ListenOK, Creating, CreatingPcs
<1>4. call[t].promise = <<t, "create">> /\ call[t].promise \in Promises
  <2>1. call[t].promise = <<t, "create">>
    BY <1>3 DEF CInv, Console, RestarterOK
  <2> QED
    BY <2>1 DEF Promises
<1>5. promise' = [promise EXCEPT ![call[t].promise] = IF @ = "pending" THEN "rejected" ELSE @]
  BY DEF TimedOut, Settle
<1>6. \A p \in Promises : /\ p # call[t].promise => promise'[p] = promise[p]
                          /\ promise'[p] = "none" <=> promise[p] = "none"
                          /\ promise'[p] = "pending" => promise[p] = "pending"
  BY <1>5 DEF CInv, SafeInv, Inv, StartsOK
<1>7. promise'[call[t].promise] # "pending"
  BY <1>4, <1>5 DEF CInv, SafeInv, Inv, StartsOK
<1>8. Settling
  <2>1. \A u \in Calls \ {t} : Wanes(u)
    BY <1>2, MovedWanes
  <2>2. Wanes(t)
    BY <1>2, <1>3 DEF Wanes, Creating, Listens
  <2> QED
    BY <1>1, <1>6, <2>1, <2>2 DEF Settling
<1>9. StillRunning
  BY <1>1 DEF StillRunning, Running
<1>10. Calm'
  <2>1. extHost' /\ disconnected' = {} /\ disconnecting' = {}
    BY <1>1 DEF CInv, Console, Calm
  <2> QED
    BY <1>2, <2>1, StaysCalm
<1>11. ASSUME NEW u \in Calls, Creating(u)', call[u].host \in Languages
       PROVE  promise'[call[u].promise] = promise[call[u].promise]
  <2>1. u # t /\ Creating(u)
    BY <1>2, <1>3, <1>11 DEF Creating
  <2>2. call[u].promise # call[t].promise
    BY <1>3, <1>11, <2>1, OtherPromise
  <2>3. call[u].promise \in Promises
    BY <2>1, CreatorKey DEF CInv, Console, PromisesOK, MadeOnce
  <2> QED
    BY <1>6, <2>2, <2>3
<1>12. ASSUME NEW u \in Calls, Listens(u)', promise'[call'[u].promise] = "pending"
       PROVE  call'[u].listening
  <2>1. u # t
    BY <1>2, <1>7, <1>12
  <2>2. call'[u] = call[u] /\ Listens(u)
    BY <1>2, <1>12, <2>1 DEF Listens
  <2>3. call[u].promise \in Promises
    BY <2>2, InertKinds DEF CInv, Console, PromisesOK, MadeOnce
  <2> QED
    BY <1>6, <1>12, <2>2, <2>3 DEF CInv, Console, RestarterOK
<1> QED
  BY <1>1, <1>8, <1>9, <1>10, <1>11, <1>12, QuietStep

\* A kernel process ends.
LEMMA KernelExitsConsole ==
  ASSUME CInv, NEW s \in Sessions, KernelExits(s)
  PROVE  Console'
<1>1. /\ kernel[s] = "up" /\ kernel' = [kernel EXCEPT ![s] = "exiting"]
      /\ UNCHANGED <<call, starting, startingSessions, promise, running, session, state,
                     disconnected, disconnecting, extHost>>
  BY DEF KernelExits, serviceMaps, sessionMaps, losses
<1>2. Settling
  BY <1>1, MovedWanes DEF Settling
<1>3. StillRunning
  BY <1>1 DEF StillRunning, Running, CInv, SafeInv, Inv, KernelsOK
<1>4. Calm'
  BY <1>1, StaysCalm DEF CInv, Console, Calm
<1>5. \A u \in Calls : (Listens(u)' /\ promise'[call'[u].promise] = "pending") => call'[u].listening
  BY <1>1 DEF CInv, Console, RestarterOK, Listens
<1> QED
  BY <1>1, <1>2, <1>3, <1>4, <1>5, QuietStep

-----------------------------------------------------------------------------
(* The end of a start.                                                     *)

\* Call t ends its start, with its session running or without a session.
EndsStart(t) ==
    LET h == call[t].host
    IN  /\ Creating(t)
        /\ \E where \in {"threw", "returned"} : Goes(t, where)
        /\ \A g \in Hosts : starting'[g] = IF g = h THEN None ELSE starting[g]
        /\ \A k \in Keys : startingSessions'[k] = startingSessions[k] \/ (k = Key(t) /\ startingSessions'[k] = None)
        /\ \A p \in Promises : /\ p # call[t].promise => promise'[p] = promise[p]
                               /\ promise'[p] = "none" <=> promise[p] = "none"
                               /\ promise'[p] = "pending" => promise[p] = "pending"
        /\ \A g \in Hosts \ {h} : running'[g] = running[g]
        /\ (running'[h] = running[h] /\ ~Running(t)) \/ running'[h] = t
        /\ UNCHANGED <<session, kernel, state, disconnected, disconnecting, extHost>>

\* Such a step keeps the invariant.
LEMMA EndsStartConsole ==
  ASSUME CInv, NEW t \in Calls, EndsStart(t)
  PROVE  Console'
<1> DEFINE h0 == call[t].host
<1>1. Creating(t) /\ UNCHANGED <<session, kernel, state, disconnected, disconnecting, extHost>>
  BY DEF EndsStart
<1>2. PICK where \in {"threw", "returned"} : Goes(t, where)
  BY DEF EndsStart
<1>3. /\ h0 \in Hosts /\ Key(t) \in Keys /\ ~Listens(t) /\ ~Inert(call[t])
  BY <1>1, CreatorKey
<1>4. Settling
  BY <1>2, GoesWanes DEF Settling, EndsStart
<1>5. ~Creating(t)' /\ ~Listens(t)' /\ \A u \in Calls \ {t} : call'[u] = call[u]
  BY <1>2, <1>3 DEF Goes, Creating, Listens, CreatingPcs
<1>6. OccupiesLess
  BY <1>1, <1>5 DEF OccupiesLess, Occupies, Creating, Running
<1>7. \A h \in Languages : h = h0 => \A x \in Calls : Occupies(x, h) => x = t
  BY <1>1 DEF CInv, Console, Exclusive, Occupies
<1>8. \A g \in Languages : g \in Hosts
  BY DEF Hosts
<1>9. /\ \A g \in Hosts : starting'[g] = IF g = h0 THEN None ELSE starting[g]
      /\ \A g \in Hosts \ {h0} : running'[g] = running[g]
      /\ (running'[h0] = running[h0] /\ ~Running(t)) \/ running'[h0] = t
  BY DEF EndsStart
<1>10. h0 \in Languages => ~session[t].relaunch
  BY <1>1 DEF CInv, Console, CreatorOK
<1>11. Exclusive'
  BY <1>6 DEF CInv, Console, Exclusive, OccupiesLess
<1>12. Marked'
  <2> SUFFICES ASSUME NEW h \in Languages, NEW x \in Calls, Occupies(x, h)'
               PROVE  starting'[h] # None \/ running'[h] = x
    BY DEF Marked
  <2>1. Occupies(x, h)
    BY <1>6 DEF OccupiesLess
  <2>2. CASE h # h0
    BY <1>8, <1>9, <2>1, <2>2 DEF CInv, Console, Marked
  <2>3. CASE h = h0
    <3>1. x = t
      BY <1>7, <2>1, <2>3
    <3>2. Running(t)
      BY <1>1, <1>5, <1>10, <2>3, <3>1 DEF Occupies, Running
    <3> QED
      BY <1>9, <2>3, <3>1, <3>2
  <2> QED
    BY <2>2, <2>3
<1>13. Tracked'
  <2> SUFFICES ASSUME NEW s \in Sessions, session[s].host \in Languages,
                      state[s] \notin {"Starting", "Uninitialized", "Exited"}
               PROVE  running'[session[s].host] = s
    BY <1>1 DEF Tracked
  <2>1. running[session[s].host] = s
    BY DEF CInv, Console, Tracked
  <2>2. CASE session[s].host # h0
    BY <1>8, <1>9, <2>1, <2>2
  <2>3. CASE session[s].host = h0
    <3>1. s # None /\ s \in Calls
      BY NoneAssumption DEF Sessions
    <3>2. Occupies(s, h0)
      BY <2>1, <2>3, <3>1, RunningOccupies
    <3>3. s = t
      BY <1>7, <2>3, <3>1, <3>2
    <3> QED
      BY <1>9, <2>1, <2>3, <3>3
  <2> QED
    BY <2>2, <2>3
<1>14. Relaunched'
  <2> SUFFICES ASSUME NEW s \in Sessions, session[s].relaunch
               PROVE  /\ state[s] \notin {"Starting", "Uninitialized"}
                      /\ session[s].host \in Languages =>
                           /\ starting'[session[s].host] # None
                           /\ Running(s) => running'[session[s].host] = s
    BY <1>1 DEF Relaunched, Running
  <2>1. session[s].host \in Languages => Occupies(s, session[s].host)
    BY DEF Occupies
  <2>2. session[s].host \in Languages => session[s].host # h0
    BY <1>7, <1>10, <2>1 DEF Sessions
  <2> QED
    BY <1>8, <1>9, <2>2 DEF CInv, Console, Relaunched
<1>15. CreatorOK'
  <2>1. ASSUME NEW x \in Calls, Creating(x)', call[x].host \in Languages
        PROVE  /\ starting'[call[x].host] = starting[call[x].host]
               /\ startingSessions'[Key(x)] = startingSessions[Key(x)]
               /\ promise'[call[x].promise] = promise[call[x].promise]
               /\ ~session'[x].relaunch
    <3>1. x # t /\ Creating(x)
      BY <1>5, <2>1 DEF Creating
    <3>2. call[x].host # h0
      BY <1>7, <2>1, <3>1 DEF Occupies
    <3>3. Key(x) # Key(t) /\ Key(x) \in Keys
      BY <3>1, <3>2, CreatorKey DEF Key
    <3>4. call[x].promise # call[t].promise
      BY <1>3, <2>1, <3>1, OtherPromise
    <3>5. call[x].promise \in Promises
      BY <3>1, CreatorKey DEF CInv, Console, PromisesOK, MadeOnce
    <3>6. ~session[x].relaunch
      BY <2>1, <3>1 DEF CInv, Console, CreatorOK
    <3> QED
      BY <1>1, <1>8, <1>9, <2>1, <3>2, <3>3, <3>4, <3>5, <3>6 DEF EndsStart
  <2> QED
    BY <1>4, <2>1, SettlingCreators
<1>16. RestarterOK'
  <2>1. ASSUME NEW u \in Calls, Listens(u)', promise'[call'[u].promise] = "pending"
        PROVE  call'[u].listening
    <3>1. call'[u] = call[u] /\ Listens(u)
      BY <1>5, <2>1 DEF Listens
    <3>2. call[u].promise \in Promises
      BY <3>1, InertKinds DEF CInv, Console, PromisesOK, MadeOnce
    <3> QED
      BY <1>4, <2>1, <3>1, <3>2 DEF Settling, CInv, Console, RestarterOK
  <2>2. ASSUME NEW u \in Calls, Listens(u)', Awaited(u)'
        PROVE  starting'[call'[u].host] # None
    <3>1. /\ Listens(u) /\ Awaited(u) /\ call'[u].host = call[u].host
          /\ \A x \in Calls : Occupies(x, call[u].host) => x = call[u].session /\ ~Creating(x)
      BY <1>4, <2>2, StillAwaited
    <3>2. call[u].host # h0
      BY <1>1, <3>1 DEF Occupies
    <3> QED
      BY <1>8, <1>9, <3>1, <3>2 DEF CInv, Console, RestarterOK, Awaited
  <2> QED
    BY <1>4, <1>6, <2>1, <2>2, SettlingRestarters
<1>17. Calm'
  BY <1>1, <1>2, GoesCalm
<1> QED
  BY <1>4, <1>11, <1>12, <1>13, <1>14, <1>15, <1>16, <1>17, SettlingPromises DEF Console

\* What the settlement of a promise does to promises.
LEMMA SettleFacts ==
  ASSUME Inv, NEW q, NEW outcome \in {"fulfilled", "rejected"}, Settle(q, outcome)
  PROVE  \A p \in Promises : /\ p # q => promise'[p] = promise[p]
                             /\ promise'[p] = "none" <=> promise[p] = "none"
                             /\ promise'[p] = "pending" => promise[p] = "pending"
                             /\ promise'[q] # "pending" \/ q \notin Promises
  BY DEF Settle, Inv, StartsOK

\* What clearing the starting maps does to them.
LEMMA ClearFacts ==
  ASSUME Inv, NEW h, NEW r, ClearStarting(h, r)
  PROVE  /\ \A g \in Hosts : starting'[g] = IF g = h THEN None ELSE starting[g]
         /\ \A k \in Keys : startingSessions'[k] = IF k = <<h, r>> THEN None ELSE startingSessions[k]
  BY DEF ClearStarting, Inv, StartsOK

\* The failures and the success of a start.
LEMMA StartEndsConsole ==
  ASSUME CInv, NEW t \in Calls, Fails(t) \/ FailsInvalid(t) \/ Starts(t)
  PROVE  Console'
<1>1. Creating(t) /\ call[t].host \in Hosts
  BY CreatorKey DEF Fails, FailsInvalid, Starts, Creating, CreatingPcs
<1>2. call[t].pc # "starting" => ~Running(t)
  <2> SUFFICES ASSUME call[t].pc # "starting", Running(t) PROVE FALSE
    OBVIOUS
  <2>1. Active(t)
    BY DEF CInv, SafeInv, Safe, RunningOK, Sessions
  <2> QED
    BY <1>1, <2>1, CreatorSession
<1>3. call[t].pc = "starting" => call[t].session = t
  BY DEF CInv, Console, Calm
<1>4. Inv
  BY DEF CInv, SafeInv
<1>5. CASE Fails(t)
  <2>1. ~Running(t)
    BY <1>2, <1>3, <1>5 DEF Fails, Running
  <2> QED
    BY <1>1, <1>4, <1>5, <2>1, SettleFacts, ClearFacts, EndsStartConsole
       DEF Fails, SessionsStay, EndsStart, Key
<1>6. CASE FailsInvalid(t)
  <2>1. ~Running(t)
    BY <1>2, <1>6 DEF FailsInvalid
  <2>2. \A g \in Hosts : starting'[g] = IF g = call[t].host THEN None ELSE starting[g]
    BY <1>4, <1>6 DEF FailsInvalid, Inv, StartsOK
  <2> QED
    BY <1>1, <1>6, <2>1, <2>2, EndsStartConsole DEF FailsInvalid, SessionsStay, EndsStart
<1>7. CASE Starts(t)
  <2>1. running'[call[t].host] = t /\ \A g \in Hosts \ {call[t].host} : running'[g] = running[g]
    BY <1>1, <1>3, <1>4, <1>7 DEF Starts, Inv, SessionsOK
  <2> QED
    BY <1>1, <1>4, <1>7, <2>1, SettleFacts, ClearFacts, EndsStartConsole DEF Starts, EndsStart, Key
<1> QED
  BY <1>5, <1>6, <1>7

-----------------------------------------------------------------------------
(* Restarts that fail.                                                     *)

\* session.restart() throws.
LEMMA RestartFailedConsole ==
  ASSUME CInv, NEW t \in Calls, RestartFailed(t)
  PROVE  Console'
<1>0. Inv /\ Listens(t) /\ ~Inert(call[t]) /\ ~Creating(t)
  BY DEF RestartFailed, CInv, SafeInv, Listens, Inert, Creating, CreatingPcs
<1>1. SessionOf(t, call[t].session) /\ Active(call[t].session)
  BY <1>0 DEF CInv, SafeInv, ListenOK
<1>2. PICK s \in Sessions : s = call[t].session
  BY <1>1 DEF SessionOf
<1>3. PICK h0 \in Hosts : h0 = call[t].host /\ h0 = session[s].host
  BY <1>0, <1>1, <1>2 DEF SessionOf, Inv, SessionsOK, Keyed
<1>4. session[s].relaunch /\ Goes(t, "awaitPromise")
  BY <1>2 DEF RestartFailed, CInv, Console, Calm
<1>5. UNCHANGED <<running, kernel, state, disconnected, disconnecting, extHost>>
  BY DEF RestartFailed
<1>6. /\ \A g \in Hosts : starting'[g] = IF g = h0 THEN None ELSE starting[g]
      /\ \A k \in Keys : startingSessions'[k] = IF k = Key(t) THEN None ELSE startingSessions[k]
  BY <1>0, <1>3, ClearFacts DEF RestartFailed, Key
<1>7. \A p \in Promises : /\ p # call[t].promise => promise'[p] = promise[p]
                          /\ promise'[p] = "none" <=> promise[p] = "none"
                          /\ promise'[p] = "pending" => promise[p] = "pending"
  BY <1>0, SettleFacts DEF RestartFailed
<1>8. /\ \A x \in Sessions \ {s} : session'[x] = session[x]
      /\ session'[s].host = session[s].host
      /\ ~session'[s].relaunch
  <2>1. session[s] \in SessionRecord
    BY <1>0 DEF Inv, SessionsOK
  <2>2. /\ session'[s] = [session[s] EXCEPT !.relaunch = FALSE]
        /\ \A x \in Sessions \ {s} : session'[x] = session[x]
    BY <1>0, <1>2 DEF RestartFailed, Inv, SessionsOK
  <2>3. [session[s] EXCEPT !.relaunch = FALSE].relaunch = FALSE
    BY <2>1, Zenon DEF SessionRecord
  <2>4. session'[s].host = session[s].host
    BY <2>1, <2>2 DEF SessionRecord
  <2> QED
    BY <2>2, <2>3, <2>4
<1>9. Settling
  <2>1. \A u \in Calls : Wanes(u)
    BY <1>4, GoesWanes DEF RestartFailed
  <2> QED
    BY <1>6, <1>7, <2>1 DEF Settling
<1>10. /\ \A u \in Calls \ {t} : call'[u] = call[u]
       /\ \A u \in Calls : Creating(u)' => u # t /\ Creating(u)
  BY <1>4, <1>0 DEF Goes, Creating, CreatingPcs
<1>11. \A x \in Sessions : Running(x)' <=> Running(x)
  BY <1>5 DEF Running
<1>12. OccupiesLess
  BY <1>8, <1>10, <1>11 DEF OccupiesLess, Occupies, Sessions
<1>13. \A g \in Languages : g \in Hosts
  BY DEF Hosts
<1>14. \A h \in Languages : h = h0 => \A x \in Calls : Occupies(x, h) => x = s
  <2>1. Occupies(s, h0)
    BY <1>3, <1>4 DEF Occupies
  <2> QED
    BY <2>1 DEF CInv, Console, Exclusive, Sessions
<1>15. h0 \in Languages => (starting[h0] # None /\ (Running(s) => running[h0] = s))
  BY <1>3, <1>4 DEF CInv, Console, Relaunched
<1>16. h0 \in Languages => \A x \in Calls : Creating(x) => call[x].host # h0
  <2> SUFFICES ASSUME h0 \in Languages, NEW x \in Calls, Creating(x), call[x].host = h0 PROVE FALSE
    OBVIOUS
  <2>1. x = s
    BY <1>14 DEF Occupies
  <2> QED
    BY <1>4, <2>1 DEF CInv, Console, CreatorOK
<1>17. Exclusive'
  BY <1>12 DEF CInv, Console, Exclusive, OccupiesLess
<1>18. Marked'
  <2> SUFFICES ASSUME NEW h \in Languages, NEW x \in Calls, Occupies(x, h)'
               PROVE  starting'[h] # None \/ running'[h] = x
    BY DEF Marked
  <2>1. Occupies(x, h)
    BY <1>12 DEF OccupiesLess
  <2>2. CASE h # h0
    BY <1>5, <1>6, <1>13, <2>1, <2>2 DEF CInv, Console, Marked
  <2>3. CASE h = h0
    <3>1. x = s
      BY <1>14, <2>1, <2>3
    <3>2. ~Creating(s)'
      BY <1>2, <1>1, <1>3, <1>10, <1>16, <2>3, CreatorSession DEF Sessions
    <3>3. Running(s)
      BY <1>8, <1>11, <3>1, <3>2 DEF Occupies
    <3> QED
      BY <1>5, <1>15, <2>3, <3>1, <3>3
  <2> QED
    BY <2>2, <2>3
<1>19. Tracked'
  BY <1>5, <1>8 DEF CInv, Console, Tracked
<1>20. Relaunched'
  <2> SUFFICES ASSUME NEW x \in Sessions, session'[x].relaunch
               PROVE  /\ state[x] \notin {"Starting", "Uninitialized"}
                      /\ session[x].host \in Languages =>
                           /\ starting'[session[x].host] # None
                           /\ Running(x) => running[session[x].host] = x
    BY <1>5, <1>8, <1>11 DEF Relaunched
  <2>1. x # s /\ session[x].relaunch
    BY <1>8
  <2>2. session[x].host \in Languages => session[x].host # h0
    BY <1>14, <2>1 DEF Occupies, Sessions
  <2> QED
    BY <1>6, <1>13, <2>1, <2>2 DEF CInv, Console, Relaunched
<1>21. CreatorOK'
  <2>1. ASSUME NEW x \in Calls, Creating(x)', call[x].host \in Languages
        PROVE  /\ starting'[call[x].host] = starting[call[x].host]
               /\ startingSessions'[Key(x)] = startingSessions[Key(x)]
               /\ promise'[call[x].promise] = promise[call[x].promise]
               /\ ~session'[x].relaunch
    <3>1. x # t /\ Creating(x)
      BY <1>10, <2>1
    <3>2. call[x].host # h0
      BY <1>16, <2>1, <3>1
    <3>3. Key(x) # Key(t) /\ Key(x) \in Keys
      BY <1>3, <3>1, <3>2, CreatorKey DEF Key
    <3>4. call[x].promise # call[t].promise
      BY <1>0, <2>1, <3>1, OtherPromise
    <3>5. call[x].promise \in Promises
      BY <3>1, CreatorKey DEF CInv, Console, PromisesOK, MadeOnce
    <3>6. ~session'[x].relaunch
      <4>1. ~session[x].relaunch
        BY <2>1, <3>1 DEF CInv, Console, CreatorOK
      <4> QED
        BY <1>8, <4>1 DEF Sessions
    <3> QED
      BY <1>6, <1>7, <1>13, <2>1, <3>2, <3>3, <3>4, <3>5, <3>6
  <2> QED
    BY <1>9, <2>1, SettlingCreators
<1>22. RestarterOK'
  <2>1. ASSUME NEW u \in Calls, Listens(u)', promise'[call'[u].promise] = "pending"
        PROVE  call'[u].listening
    <3>1. Listens(u) /\ call'[u].promise = call[u].promise /\ call'[u].listening = call[u].listening
      BY <1>4, <1>9, <2>1 DEF Settling, Wanes, Goes
    <3>2. call[u].promise \in Promises
      BY <3>1, InertKinds DEF CInv, Console, PromisesOK, MadeOnce
    <3> QED
      BY <1>7, <2>1, <3>1, <3>2 DEF CInv, Console, RestarterOK
  <2>2. ASSUME NEW u \in Calls, Listens(u)', Awaited(u)'
        PROVE  starting'[call'[u].host] # None
    <3>1. /\ Listens(u) /\ Awaited(u) /\ call'[u].host = call[u].host
          /\ call'[u].runtime = call[u].runtime /\ call'[u].promise = call[u].promise
          /\ \A x \in Calls : Occupies(x, call[u].host) => x = call[u].session /\ ~Creating(x)
      BY <1>9, <2>2, StillAwaited
    <3>2. ASSUME call[u].host = h0 PROVE FALSE
      <4>1. s = call[u].session
        BY <1>3, <1>4, <3>1, <3>2 DEF Occupies, Sessions
      <4>2. SessionOf(u, s)
        BY <3>1, <4>1 DEF CInv, SafeInv, ListenOK
      <4>3. Key(u) = Key(t) /\ Key(u)' = Key(u)
        BY <1>1, <1>2, <3>1, <4>2 DEF SessionOf, Key
      <4>4. Key(t) \in Keys
        BY <1>0, <1>1, <1>2, <1>3 DEF Key, Keys, SessionOf, Inv, SessionsOK, Keyed
      <4>5. startingSessions'[Key(u)] = None
        BY <1>6, <4>3, <4>4
      <4>6. startingSessions'[Key(u)] = call'[u].promise
        BY <2>2, <4>3 DEF Awaited
      <4>7. call[u].promise \in Promises
        BY <3>1, InertKinds DEF CInv, Console, PromisesOK, MadeOnce
      <4> QED
        BY <3>1, <4>5, <4>6, <4>7, NoneAssumption
    <3> QED
      BY <1>6, <1>13, <3>1, <3>2 DEF CInv, Console, RestarterOK, Awaited
  <2> QED
    BY <1>9, <1>12, <2>1, <2>2, SettlingRestarters
<1>23. Calm'
  BY <1>4, <1>5, GoesCalm
<1> QED
  BY <1>9, <1>17, <1>18, <1>19, <1>20, <1>21, <1>22, <1>23, SettlingPromises DEF Console

-----------------------------------------------------------------------------
(* The events of a session.                                                *)

\* Steps that leave the maps of starting sessions and the promises alone.
LEMMA EventStep ==
  ASSUME CInv, Calm', \A u \in Calls : Wanes(u), UNCHANGED <<starting, startingSessions, promise>>,
         OccupiesLess, Marked', Tracked', Relaunched',
         \A s \in Sessions : session'[s].relaunch => session[s].relaunch,
         \A u \in Calls : (Listens(u)' /\ call[u].listening) => call'[u].listening
  PROVE  Console'
<1>1. Settling
  BY DEF Settling
<1>2. Exclusive'
  BY DEF CInv, Console, Exclusive, OccupiesLess
<1>3. CreatorOK'
  <2>1. ASSUME NEW t \in Calls, Creating(t)', call[t].host \in Languages PROVE ~session'[t].relaunch
    BY <2>1 DEF Wanes, CInv, Console, CreatorOK, Sessions
  <2> QED
    BY <1>1, <2>1, SettlingCreators
<1>4. RestarterOK'
  <2>1. ASSUME NEW u \in Calls, Listens(u)', promise'[call'[u].promise] = "pending"
        PROVE  call'[u].listening
    <3>1. Listens(u) /\ ~Inert(call'[u])
      BY <2>1 DEF Wanes, Inert, Listens
    <3>2. call'[u].promise = call[u].promise
      BY <3>1 DEF Wanes
    <3> QED
      BY <2>1, <3>1, <3>2 DEF CInv, Console, RestarterOK
  <2>2. ASSUME NEW u \in Calls, Listens(u)', Awaited(u)'
        PROVE  starting'[call'[u].host] # None
    <3>1. Listens(u) /\ Awaited(u) /\ call'[u].host = call[u].host
      BY <1>1, <2>2, StillAwaited
    <3> QED
      BY <3>1 DEF CInv, Console, RestarterOK
  <2> QED
    BY <1>1, <2>1, <2>2, SettlingRestarters
<1> QED
  BY <1>1, <1>2, <1>3, <1>4, SettlingPromises DEF Console

\* A session is attached: its call has taken up the language already.
LEMMA AttachesConsole ==
  ASSUME CInv, NEW t \in Calls, NEW s, Attaches(t, s)
  PROVE  Console'
<1>0. Inv /\ Safe
  BY DEF CInv, SafeInv
<1>1. call[t].pc = "creating" /\ s = t /\ t \in Sessions
  BY DEF Attaches, CInv, Console, Calm, Sessions
<1>2. /\ ~Running(t)
      /\ \A u \in Sessions \ {t} : session'[u] = session[u] /\ state'[u] = state[u]
                                   /\ kernel'[u] = kernel[u]
      /\ session'[t].host = call[t].host /\ ~session'[t].relaunch
      /\ state'[t] = "Uninitialized" /\ kernel'[t] = "none"
  BY <1>0, <1>1, AttachFacts
<1>3. UNCHANGED <<starting, startingSessions, promise, running, disconnected, disconnecting, extHost>>
  BY DEF Attaches
<1>4. ~Active(t) /\ Creating(t) /\ ~Listens(t)
  BY <1>0, <1>1 DEF Safe, CreatedOK, FinalPcs, Creating, CreatingPcs, CInv, SafeInv, ListenOK
<1>5. \A u \in Calls : Listens(u) => call[u].session # t
  BY <1>4 DEF CInv, SafeInv, ListenOK
<1>6. /\ call'[t].pc = "starting" /\ call'[t].session = t
      /\ call'[t].host = call[t].host /\ call'[t].runtime = call[t].runtime
      /\ call'[t].promise = call[t].promise /\ call'[t].listening = call[t].listening
  BY <1>1 DEF Attaches
<1>7. ASSUME NEW u \in Calls \ {t}
      PROVE  \/ call'[u] = call[u]
             \/ /\ call'[u].session = call[u].session /\ call'[u].promise = call[u].promise
                /\ call'[u].host = call[u].host /\ call'[u].runtime = call[u].runtime
                /\ ~Listens(u) /\ ~call'[u].listening
                /\ \/ call'[u].pc = call[u].pc
                   \/ call[u].pc = "notebookReady" /\ call'[u].pc = "notebookOrphan"
  BY <1>1, <1>5 DEF Attaches
<1>8. \A u \in Calls : Wanes(u)
  <2>1. Wanes(t)
    BY <1>4, <1>6 DEF Wanes, Listens, Unmade, Creating
  <2>2. ASSUME NEW u \in Calls \ {t} PROVE Wanes(u)
    BY <1>7, MovedWanes DEF Wanes, Inert, Listens, Unmade, Creating, CreatingPcs
  <2> QED
    BY <2>1, <2>2
<1>9. Calm'
  BY <1>3, <1>6, <1>7 DEF CInv, Console, Calm
<1>10. \A x \in Sessions : Running(x)' <=> Running(x)
  BY <1>2 DEF Running
<1>11. \A u \in Calls : Creating(u)' => Creating(u) /\ call'[u].host = call[u].host
  BY <1>4, <1>6, <1>7 DEF Creating, CreatingPcs
<1>12. OccupiesLess
  BY <1>2, <1>10, <1>11 DEF OccupiesLess, Occupies, Sessions
<1>13. Marked'
  BY <1>3, <1>12 DEF CInv, Console, Marked, OccupiesLess
<1>14. Tracked'
  BY <1>2, <1>3 DEF CInv, Console, Tracked
<1>15. Relaunched'
  BY <1>2, <1>3, <1>10 DEF CInv, Console, Relaunched
<1>16. \A x \in Sessions : session'[x].relaunch => session[x].relaunch
  BY <1>2
<1>17. \A u \in Calls : (Listens(u)' /\ call[u].listening) => call'[u].listening
  BY <1>4, <1>7 DEF Listens
<1> QED
  BY <1>3, <1>8, <1>9, <1>12, <1>13, <1>14, <1>15, <1>16, <1>17, EventStep

\* What a change of a session's relaunch flag does to sessions.
LEMMA RelaunchFacts ==
  ASSUME Inv, NEW s \in Sessions, session' = [session EXCEPT ![s].relaunch = FALSE]
  PROVE  /\ \A x \in Sessions \ {s} : session'[x] = session[x]
         /\ session'[s].host = session[s].host
         /\ ~session'[s].relaunch
<1>1. session[s] \in SessionRecord
  BY DEF Inv, SessionsOK
<1>2. /\ session'[s] = [session[s] EXCEPT !.relaunch = FALSE]
      /\ \A x \in Sessions \ {s} : session'[x] = session[x]
  BY DEF Inv, SessionsOK
<1>3. [session[s] EXCEPT !.relaunch = FALSE].relaunch = FALSE
  BY <1>1, Zenon DEF SessionRecord
<1>4. session'[s].host = session[s].host
  BY <1>1, <1>2 DEF SessionRecord
<1> QED
  BY <1>2, <1>3, <1>4

\* A kernel is launched: its session has taken up the language already.
LEMMA LaunchesConsole ==
  ASSUME CInv, NEW s \in Sessions, Launches(s)
  PROVE  Console'
<1>0. Inv
  BY DEF CInv, SafeInv
<1>1. /\ Active(s)
      /\ state' = [state EXCEPT ![s] = "Starting"]
      /\ kernel' = [kernel EXCEPT ![s] = "up"]
      /\ session' = [session EXCEPT ![s].relaunch = FALSE]
      /\ UNCHANGED <<call, starting, startingSessions, promise, running, disconnected,
                     disconnecting, extHost>>
  BY DEF Launches
<1>2. /\ \A x \in Sessions \ {s} : session'[x] = session[x]
      /\ session'[s].host = session[s].host
      /\ ~session'[s].relaunch
  BY <1>0, <1>1, RelaunchFacts
<1>3. /\ \A x \in Sessions \ {s} : state'[x] = state[x] /\ kernel'[x] = kernel[x]
      /\ state'[s] = "Starting"
  BY <1>0, <1>1 DEF Inv, KernelsOK
<1>4. \A u \in Calls : Wanes(u)
  BY <1>1, MovedWanes
<1>5. Calm'
  BY <1>1 DEF CInv, Console, Calm
<1>6. (Creating(s) /\ call[s].host = session[s].host) \/ session[s].relaunch
  <2>1. CASE \E t \in Calls : call[t].pc = "starting" /\ call[t].session = s
    <3>1. call[s].pc = "starting" /\ call[s].session = s
      BY <2>1 DEF CInv, Console, Calm
    <3> QED
      BY <3>1 DEF CInv, SafeInv, Safe, StartedOK, SessionOf, Creating, CreatingPcs, Sessions
  <2> QED
    BY <2>1 DEF Launches
<1>7. OccupiesLess
  <2> SUFFICES ASSUME NEW h \in Languages, NEW x \in Calls, Occupies(x, h)'
               PROVE  Occupies(x, h)
    BY DEF OccupiesLess
  <2>1. CASE Creating(x)' /\ call'[x].host = h
    BY <1>1, <2>1 DEF Occupies, Creating
  <2>2. CASE x # s
    BY <1>1, <1>2, <1>3, <2>2 DEF Occupies, Creating, Running, Sessions
  <2>3. CASE x = s /\ session'[x].host = h
    BY <1>2, <1>6, <2>3 DEF Occupies
  <2> QED
    BY <2>1, <2>2, <2>3 DEF Occupies
<1>8. Marked'
  BY <1>1, <1>7 DEF CInv, Console, Marked, OccupiesLess
<1>9. Tracked'
  BY <1>1, <1>2, <1>3 DEF CInv, Console, Tracked
<1>10. Relaunched'
  BY <1>1, <1>2, <1>3 DEF CInv, Console, Relaunched, Running
<1>11. \A x \in Sessions : session'[x].relaunch => session[x].relaunch
  BY <1>2
<1>12. \A u \in Calls : (Listens(u)' /\ call[u].listening) => call'[u].listening
  BY <1>1
<1> QED
  BY <1>1, <1>4, <1>5, <1>7, <1>8, <1>9, <1>10, <1>11, <1>12, EventStep

\* A session ends.
LEMMA ExitsConsole ==
  ASSUME CInv, ~StatesMayLag, NEW s \in Sessions, Exits(s)
  PROVE  Console'
<1>0. Inv /\ HostsLive
  BY DEF CInv, SafeInv, Safe
<1>1. /\ UNCHANGED <<starting, startingSessions, promise, session, disconnected, disconnecting, extHost>>
      /\ running' = MapsAfterExit({s})
      /\ \A u \in Calls : call'[u] = call[u] \/ Moved(u)
  BY DEF Exits
<1>2. /\ \A x \in Sessions \ {s} : state'[x] = state[x] /\ kernel'[x] = kernel[x]
      /\ kernel'[s] \in {"exited", "gone", "ended"}
      /\ state'[s] = state[s] \/ state'[s] = "Exited"
  BY <1>0 DEF Exits, Inv, KernelsOK
<1>3. state'[s] \in {"Starting", "Exited"}
  <2>1. kernel[s] = "exited" => state[s] = "Exited"
    BY DEF CInv, Over
  <2> QED
    BY <1>0, <2>1 DEF Exits, Inv, KernelsOK
<1>4. \A u \in Calls : Wanes(u)
  BY <1>1, MovedWanes
<1>5. Calm'
  <2>1. extHost' /\ disconnected' = {} /\ disconnecting' = {}
    BY <1>1 DEF CInv, Console, Calm
  <2>2. \A u \in Calls : \/ call'[u].pc = call[u].pc /\ call'[u].session = call[u].session
                         \/ call'[u].pc \notin {"starting", "restoring"}
    BY <1>1 DEF Moved, Inert, CreatingPcs
  <2> QED
    BY <2>1, <2>2, StaysCalm
<1>6. \A u \in Calls : Creating(u)' => Creating(u) /\ call'[u] = call[u]
  BY <1>1 DEF Moved, Inert, Creating
<1>7. ~Running(s)' /\ \A x \in Sessions : Running(x)' => Running(x) /\ x # s
  BY <1>2 DEF Running
<1>8. OccupiesLess
  BY <1>1, <1>6, <1>7 DEF OccupiesLess, Occupies, Sessions
<1>9. \A h \in Languages : h \in Hosts /\ running'[h] = IF running[h] = s THEN None ELSE running[h]
  <2>1. \A h \in Languages : h \in Hosts /\ IsConsole(h)
    BY DEF Hosts, IsConsole
  <2> QED
    BY <1>1, <2>1 DEF MapsAfterExit
<1>10. Marked'
  <2> SUFFICES ASSUME NEW h \in Languages, NEW x \in Calls, Occupies(x, h)', starting[h] = None
               PROVE  running'[h] = x
    BY <1>1 DEF Marked
  <2>1. Occupies(x, h) /\ running[h] = x
    BY <1>8 DEF OccupiesLess, CInv, Console, Marked
  <2>2. ~Creating(x)'
    BY <1>6, <2>1, CreatorHost DEF CInv, Console, CreatorOK
  <2>3. CASE x = s
    <3>1. session[s].relaunch /\ session[s].host = h
      BY <1>1, <1>7, <2>2, <2>3 DEF Occupies
    <3> QED
      BY <3>1 DEF CInv, Console, Relaunched
  <2> QED
    BY <1>9, <2>1, <2>3
<1>11. Tracked'
  <2> SUFFICES ASSUME NEW x \in Sessions, session[x].host \in Languages,
                      state'[x] \notin {"Starting", "Uninitialized", "Exited"}
               PROVE  running'[session[x].host] = x
    BY <1>1 DEF Tracked
  <2>1. x # s /\ state'[x] = state[x]
    BY <1>2, <1>3
  <2> QED
    BY <1>9, <2>1 DEF CInv, Console, Tracked
<1>12. Relaunched'
  <2> SUFFICES ASSUME NEW x \in Sessions, session[x].relaunch
               PROVE  /\ state'[x] \notin {"Starting", "Uninitialized"}
                      /\ session[x].host \in Languages =>
                           /\ starting[session[x].host] # None
                           /\ Running(x)' => running'[session[x].host] = x
    BY <1>1 DEF Relaunched
  <2>1. state'[x] \notin {"Starting", "Uninitialized"}
    BY <1>2 DEF CInv, Console, Relaunched
  <2>2. ASSUME session[x].host \in Languages, Running(x)' PROVE running'[session[x].host] = x
    BY <1>7, <1>9, <2>2 DEF CInv, Console, Relaunched
  <2> QED
    BY <2>1, <2>2 DEF CInv, Console, Relaunched
<1>13. \A u \in Calls : (Listens(u)' /\ call[u].listening) => call'[u].listening
  BY <1>1 DEF Moved, Inert
<1> QED
  BY <1>1, <1>4, <1>5, <1>8, <1>10, <1>11, <1>12, <1>13, EventStep

\* The events of an end come in one order or the other.
LEMMA OverNext ==
  ASSUME SafeInv, Over, Moves \/ Changes
  PROVE  Over'
<1>0. Inv /\ ListenOK
  BY DEF SafeInv
<1>1. ASSUME UNCHANGED <<state, kernel>> PROVE Over'
  BY <1>1 DEF Over
<1>2. CASE Moves
  BY <1>2 DEF Moves, Over, OnlineStates
<1>3. ASSUME NEW t \in Calls,
             \/ \E h \in Hosts, r \in Runtimes, p \in {<<t, "auto">>, <<t, "create">>} : Begins(t, h, r, p)
             \/ \E s \in Sessions : Restores(t, s)
             \/ Validates(t) \/ (\E r \in Runtimes : Creates(t, r))
             \/ Fails(t) \/ FailsInvalid(t) \/ Restarted(t) \/ TimedOut(t)
             \/ RestartFailed(t) \/ Starts(t)
      PROVE  Over'
  <2>1. UNCHANGED <<state, kernel>>
    BY <1>3 DEF Begins, Restores, Validates, Creates, Fails, FailsInvalid, Restarted, TimedOut,
                RestartFailed, Starts, SessionsStay
  <2> QED
    BY <1>1, <2>1
<1>4. ASSUME NEW t \in Calls, NEW s \in Sessions, Restarts(t, s) PROVE Over'
  BY <1>0, <1>4 DEF Restarts, Over, Inv, KernelsOK
<1>5. ASSUME NEW t \in Calls, NEW s, Attaches(t, s) PROVE Over'
  BY <1>0, <1>5, AttachFacts DEF Over, SafeInv
<1>6. ASSUME NEW s \in Sessions, Launches(s) \/ Readies(s) \/ KernelExits(s) \/ Exits(s) PROVE Over'
  BY <1>0, <1>6 DEF Launches, Readies, KernelExits, Exits, Over, Inv, KernelsOK
<1>7. ASSUME LoseExtHost PROVE Over'
  BY <1>0, <1>7 DEF LoseExtHost, Over, Inv, KernelsOK
<1>8. ASSUME NEW t \in Calls, Answer(t) \/ RestartTimeout(t) PROVE Over'
  BY <1>0, <1>3, <1>5, <1>8, AnswerStep, RestartStep
<1> QED
  BY <1>0, <1>2, <1>3, <1>4, <1>6, <1>7, <1>8, LaunchStep, ReadyStep, ExitStep DEF Changes

\* A session becomes ready.
LEMMA ReadiesConsole ==
  ASSUME CInv, NEW s \in Sessions, Readies(s)
  PROVE  Console'
<1>0. Inv
  BY DEF CInv, SafeInv
<1>1. /\ Active(s) /\ state[s] = "Starting" /\ kernel[s] = "up"
      /\ state' = [state EXCEPT ![s] = "Ready"]
      /\ UNCHANGED <<session, kernel, disconnected, disconnecting, extHost>>
  BY DEF Readies
<1>2. PICK h0 \in Hosts : h0 = session[s].host
  BY <1>0, <1>1 DEF Inv, SessionsOK, Keyed
<1>3. \A h \in Hosts : h # h0 => running'[h] = running[h]
  BY <1>0, <1>2 DEF Readies, Inv, SessionsOK
<1>4. \A u \in Calls :
             \/ ~Listened(u, s) /\ call'[u] = call[u]
             \/ /\ Listened(u, s) /\ ~call'[u].listening /\ call'[u].pc = call[u].pc
                /\ call'[u].session = call[u].session /\ call'[u].promise = call[u].promise
                /\ call'[u].host = call[u].host /\ call'[u].runtime = call[u].runtime
             \/ ~Listened(u, s) /\ Moved(u)
  BY DEF Readies
<1>5. \A u \in Calls : Wanes(u)
  <2> SUFFICES ASSUME NEW u \in Calls, Listened(u, s) PROVE Wanes(u)
    BY <1>4, MovedWanes
  <2> QED
    BY <1>4 DEF Listened, Wanes, Inert, Creating, Listens
<1>6. \/ (\E u \in Calls : Listened(u, s))
         /\ (\A h \in Hosts : starting'[h] = IF h = h0 THEN None ELSE starting[h])
         /\ (\A k \in Keys : startingSessions'[k] =
               IF k = <<h0, session[s].runtime>> THEN None ELSE startingSessions[k])
      \/ (\A u \in Calls : ~Listened(u, s)) /\ UNCHANGED <<starting, startingSessions>>
  BY <1>0, <1>2, ClearFacts DEF Readies
<1>7. \A p \in Promises : promise'[p] =
        IF promise[p] = "pending" /\ \E u \in Calls : Listened(u, s) /\ call[u].promise = p
        THEN "fulfilled" ELSE promise[p]
  BY DEF Readies
<1>8. Settling
  BY <1>5, <1>6, <1>7 DEF Settling
<1>9. Calm'
  <2>1. extHost' /\ disconnected' = {} /\ disconnecting' = {}
    BY <1>1 DEF CInv, Console, Calm
  <2>2. \A u \in Calls : \/ call'[u].pc = call[u].pc /\ call'[u].session = call[u].session
                         \/ call'[u].pc \notin {"starting", "restoring"}
    BY <1>4 DEF Moved, Inert, CreatingPcs
  <2> QED
    BY <2>1, <2>2, StaysCalm
<1>10. \A u \in Calls : Creating(u)' => Creating(u) /\ call'[u].host = call[u].host /\ ~Listened(u, s)
  BY <1>4 DEF Moved, Inert, Creating, CreatingPcs, Listened, Listens, CInv, SafeInv, ListenOK
<1>11. OccupiesLess
  BY <1>1, <1>10 DEF OccupiesLess, Occupies, Running
<1>12. \A g \in Languages : g \in Hosts
  BY DEF Hosts
<1>13. Occupies(s, h0)
  BY <1>1, <1>2 DEF Occupies, Running
<1>14. \A h \in Languages : h = h0 => \A x \in Calls : Occupies(x, h) => x = s
  BY <1>13 DEF CInv, Console, Exclusive, Sessions
<1>15. h0 \in Languages => running'[h0] = s /\ (running[h0] = None \/ running[h0] = s)
  <2>1. h0 \in Languages => (running[h0] = None \/ running[h0] = s)
    BY <1>14, RunningOccupies
  <2> QED
    BY <1>0, <1>2, <2>1 DEF Readies, Inv, SessionsOK
<1>16. Exclusive'
  BY <1>11 DEF CInv, Console, Exclusive, OccupiesLess
<1>17. Marked'
  <2> SUFFICES ASSUME NEW h \in Languages, NEW x \in Calls, Occupies(x, h)'
               PROVE  starting'[h] # None \/ running'[h] = x
    BY DEF Marked
  <2>1. Occupies(x, h)
    BY <1>11 DEF OccupiesLess
  <2>2. CASE h # h0
    BY <1>3, <1>6, <1>12, <2>1, <2>2 DEF CInv, Console, Marked
  <2>3. CASE h = h0
    BY <1>14, <1>15, <2>1, <2>3
  <2> QED
    BY <2>2, <2>3
<1>18. Tracked'
  <2> SUFFICES ASSUME NEW x \in Sessions, session[x].host \in Languages,
                      state'[x] \notin {"Starting", "Uninitialized", "Exited"}
               PROVE  running'[session[x].host] = x
    BY <1>1 DEF Tracked
  <2>1. CASE x = s
    BY <1>2, <1>15, <2>1
  <2>2. CASE x # s
    <3>1. running[session[x].host] = x
      BY <1>0, <1>1, <2>2 DEF Inv, KernelsOK, CInv, Console, Tracked
    <3>2. session[x].host # h0
      BY <1>15, <2>2, <3>1, NoneAssumption DEF Sessions
    <3> QED
      BY <1>3, <1>12, <3>1, <3>2
  <2> QED
    BY <2>1, <2>2
<1>19. Relaunched'
  <2> SUFFICES ASSUME NEW x \in Sessions, session[x].relaunch
               PROVE  /\ state'[x] \notin {"Starting", "Uninitialized"}
                      /\ session[x].host \in Languages =>
                           /\ starting'[session[x].host] # None
                           /\ Running(x) => running'[session[x].host] = x
    BY <1>1 DEF Relaunched, Running
  <2>1. x # s /\ state'[x] = state[x]
    BY <1>0, <1>1 DEF CInv, Console, Relaunched, Inv, KernelsOK
  <2>2. session[x].host \in Languages => session[x].host # h0
    BY <1>14, <2>1 DEF Occupies, Sessions
  <2> QED
    BY <1>3, <1>6, <1>12, <2>1, <2>2 DEF CInv, Console, Relaunched
<1>20. CreatorOK'
  <2>1. ASSUME NEW x \in Calls, Creating(x)', call[x].host \in Languages
        PROVE  /\ starting'[call[x].host] = starting[call[x].host]
               /\ startingSessions'[Key(x)] = startingSessions[Key(x)]
               /\ promise'[call[x].promise] = promise[call[x].promise]
               /\ ~session'[x].relaunch
    <3>1. Creating(x) /\ ~session'[x].relaunch
      BY <1>1, <1>10, <2>1 DEF CInv, Console, CreatorOK
    <3>2. call[x].promise \in Promises /\ Key(x) \in Keys
      BY <3>1, CreatorKey DEF CInv, Console, PromisesOK, MadeOnce
    <3>3. CASE \A u \in Calls : ~Listened(u, s)
      BY <1>6, <1>7, <3>1, <3>2, <3>3
    <3>4. CASE \E u \in Calls : Listened(u, s)
      <4>1. call[x].host # h0
        <5> SUFFICES ASSUME call[x].host = h0 PROVE FALSE
          OBVIOUS
        <5>1. x = s
          BY <1>14, <2>1, <3>1 DEF Occupies
        <5> QED
          BY <2>1, <3>1, <3>4, <5>1 DEF CInv, Console, CreatorOK, Listened
      <4>2. Key(x) # <<h0, session[s].runtime>>
        BY <4>1 DEF Key
      <4>3. ASSUME NEW u \in Calls, Listened(u, s) PROVE call[u].promise # call[x].promise
        <5>1. ~Inert(call[u]) /\ u # x
          BY <1>10, <2>1, <4>3 DEF Inert, Listened
        <5> QED
          BY <2>1, <3>1, <5>1, OtherPromise
      <4> QED
        BY <1>6, <1>7, <1>12, <2>1, <3>1, <3>2, <4>1, <4>2, <4>3
    <3> QED
      BY <3>3, <3>4
  <2> QED
    BY <1>8, <2>1, SettlingCreators
<1>21. RestarterOK'
  <2>1. ASSUME NEW u \in Calls, Listens(u)'
        PROVE  /\ Listens(u) /\ call'[u].promise = call[u].promise /\ call[u].promise \in Promises
               /\ promise'[call'[u].promise] = "pending" =>
                    promise[call[u].promise] = "pending" /\ call[u].listening /\ ~Listened(u, s)
               /\ ~Listened(u, s) => call'[u] = call[u]
    <3>1. Listens(u) /\ ~Inert(call'[u])
      BY <1>5, <2>1 DEF Wanes, Inert, Listens
    <3>2. call'[u].promise = call[u].promise
      BY <1>5, <3>1 DEF Wanes
    <3>3. call[u].promise \in Promises
      BY <3>1, InertKinds DEF CInv, Console, PromisesOK, MadeOnce
    <3>4. ~Listened(u, s) => call'[u] = call[u]
      BY <1>4, <3>1 DEF Moved
    <3>5. promise'[call[u].promise] = "pending" =>
            promise[call[u].promise] = "pending" /\ ~Listened(u, s)
      BY <1>7, <3>3
    <3> QED
      BY <3>1, <3>2, <3>3, <3>4, <3>5 DEF CInv, Console, RestarterOK
  <2>2. ASSUME NEW u \in Calls, Listens(u)', promise'[call'[u].promise] = "pending"
        PROVE  call'[u].listening
    BY <2>1, <2>2
  <2>3. ASSUME NEW u \in Calls, Listens(u)', Awaited(u)'
        PROVE  starting'[call'[u].host] # None
    <3>1. /\ Listens(u) /\ Awaited(u) /\ call'[u].host = call[u].host
          /\ \A x \in Calls : Occupies(x, call[u].host) => x = call[u].session /\ ~Creating(x)
      BY <1>8, <2>3, StillAwaited
    <3>2. call[u].listening /\ ~Listened(u, s)
      BY <2>1, <2>3 DEF Awaited
    <3>3. call[u].host # h0
      BY <1>13, <3>1, <3>2 DEF Listened, Sessions
    <3> QED
      BY <1>6, <1>12, <3>1, <3>3 DEF CInv, Console, RestarterOK, Awaited
  <2> QED
    BY <1>8, <1>11, <2>2, <2>3, SettlingRestarters
<1> QED
  BY <1>8, <1>9, <1>16, <1>17, <1>18, <1>19, <1>20, <1>21, SettlingPromises DEF Console

-----------------------------------------------------------------------------
(* The beginnings of starts and restarts.                                  *)

\* Call t files start promise p, a new one or the one that is filed there
\* already.
Files(t, h, r, p) ==
    /\ h \in Hosts /\ r \in Runtimes /\ p \in Promises
    /\ BeginStart(h, r, p)
    /\ \A u \in Calls \ {t} : call'[u] = call[u]
    /\ call'[t].host = h /\ call'[t].runtime = r /\ call'[t].promise = p
    /\ call'[t].pc \notin Unmade
    /\ call'[t].pc \in {"autoManager", "validating"} =>
         promise[<<t, "create">>] = "none" /\ p # <<t, "create">>
    /\ \/ p \in {<<t, "auto">>, <<t, "create">>} /\ promise[p] = "none"
       \/ Pending(p) /\ startingSessions[<<h, r>>] = p

\* What it does to the maps of starting sessions and the promises.
LEMMA FilesMaps ==
  ASSUME CInv, NEW t \in Calls, NEW h, NEW r, NEW p, Files(t, h, r, p)
  PROVE  /\ \A g \in Hosts : starting'[g] = IF g = h THEN r ELSE starting[g]
         /\ r # None /\ p # None /\ <<h, r>> \in Keys
         /\ startingSessions'[<<h, r>>] = p
         /\ \A k \in Keys : k # <<h, r>> => /\ startingSessions'[k] = startingSessions[k]
                                            /\ startingSessions[k] # p
         /\ \A q \in Promises : promise'[q] = IF q = p THEN "pending" ELSE promise[q]
<1>1. Inv /\ FiledOnce /\ MadeOnce
  BY DEF CInv, SafeInv, Console, PromisesOK
<1>2. h \in Hosts /\ r \in Runtimes /\ p \in Promises /\ BeginStart(h, r, p)
  BY DEF Files
<1>3. <<h, r>> \in Keys /\ r # None /\ p # None
  BY <1>2, NoneAssumption DEF Keys
<1>4. ASSUME NEW k \in Keys, k # <<h, r>>, startingSessions[k] = p PROVE FALSE
  <2>1. promise[p] # "none"
    BY <1>1, <1>3, <1>4 DEF MadeOnce
  <2>2. Pending(p) /\ startingSessions[<<h, r>>] = p
    BY <2>1 DEF Files
  <2> QED
    BY <1>1, <1>3, <1>4, <2>2 DEF FiledOnce
<1>5. /\ \A g \in Hosts : starting'[g] = IF g = h THEN r ELSE starting[g]
      /\ \A q \in Promises : promise'[q] = IF q = p THEN "pending" ELSE promise[q]
      /\ \A k \in Keys : startingSessions'[k] = IF k = <<h, r>> THEN p ELSE startingSessions[k]
  BY <1>1, <1>2 DEF BeginStart, Inv, StartsOK
<1> QED
  BY <1>3, <1>4, <1>5

\* Files and promises after it.
LEMMA FilesPromises ==
  ASSUME CInv, NEW t \in Calls, NEW h, NEW r, NEW p, Files(t, h, r, p)
  PROVE  PromisesOK'
<1>1. /\ r # None /\ p # None /\ <<h, r>> \in Keys
      /\ startingSessions'[<<h, r>>] = p
      /\ \A k \in Keys : k # <<h, r>> => /\ startingSessions'[k] = startingSessions[k]
                                         /\ startingSessions[k] # p
      /\ \A q \in Promises : promise'[q] = IF q = p THEN "pending" ELSE promise[q]
  BY FilesMaps
<1>2. /\ p \in Promises /\ Key(t)' = <<h, r>> /\ call'[t].promise = p
      /\ \A u \in Calls \ {t} : call'[u] = call[u]
      /\ \/ p \in {<<t, "auto">>, <<t, "create">>} /\ promise[p] = "none"
         \/ Pending(p) /\ startingSessions[<<h, r>>] = p
  BY DEF Files, Key
<1>3. /\ \A k \in Keys : startingSessions[k] \in Promises \cup {None}
      /\ None \notin Promises
  BY NoneAssumption DEF CInv, SafeInv, Inv, StartsOK
<1>4. FiledOnce /\ FiledByKey /\ MadeOnce
  BY DEF CInv, Console, PromisesOK
<1>5. ASSUME NEW k \in Keys, k # <<h, r>>, Pending(startingSessions[k])'
      PROVE  Pending(startingSessions[k]) /\ startingSessions'[k] = startingSessions[k]
  BY <1>1, <1>3, <1>5 DEF Pending
<1>6. FiledOnce'
  BY <1>1, <1>4, <1>5 DEF FiledOnce
<1>7. FiledByKey'
  <2> SUFFICES ASSUME NEW u \in Calls, NEW k \in Keys, ~Inert(call'[u]),
                      Pending(startingSessions[k])', startingSessions'[k] = call'[u].promise
               PROVE  k = Key(u)'
    BY DEF FiledByKey
  <2>1. CASE u = t
    BY <1>1, <1>2, <2>1
  <2>2. CASE u # t
    <3>1. call'[u] = call[u] /\ Key(u)' = Key(u)
      BY <1>2, <2>2 DEF Key
    <3>2. CASE k = <<h, r>>
      <4>1. call[u].promise = p /\ promise[p] # "none"
        BY <1>1, <1>4, <3>1, <3>2 DEF MadeOnce
      <4> QED
        BY <1>2, <1>4, <3>1, <3>2, <4>1 DEF FiledByKey
    <3>3. CASE k # <<h, r>>
      BY <1>4, <1>5, <3>1, <3>3 DEF FiledByKey
    <3> QED
      BY <3>2, <3>3
  <2> QED
    BY <2>1, <2>2
<1>8. MadeOnce'
  <2>1. \A k \in Keys : startingSessions'[k] # None => promise'[startingSessions'[k]] # "none"
    BY <1>1, <1>2, <1>3, <1>4 DEF MadeOnce
  <2>2. \A u \in Calls : ~Inert(call'[u]) =>
          call'[u].promise \in Promises /\ promise'[call'[u].promise] # "none"
    BY <1>1, <1>2, <1>4 DEF MadeOnce
  <2>3. \A u \in Calls : <<u, "auto">> \in Promises /\ <<u, "create">> \in Promises
    BY DEF Promises
  <2>4. ASSUME NEW u \in Calls \ {t}, promise[<<u, "auto">>] = "none"
        PROVE  promise'[<<u, "auto">>] = "none"
    <3>1. <<u, "auto">> # <<t, "auto">> /\ <<u, "auto">> # <<t, "create">>
      OBVIOUS
    <3>2. <<u, "auto">> # p
      BY <1>2, <2>4, <3>1 DEF Pending
    <3> QED
      BY <1>1, <2>3, <2>4, <3>2
  <2>5. ASSUME NEW u \in Calls \ {t}, promise[<<u, "create">>] = "none"
        PROVE  promise'[<<u, "create">>] = "none"
    <3>1. <<u, "create">> # <<t, "auto">> /\ <<u, "create">> # <<t, "create">>
      OBVIOUS
    <3>2. <<u, "create">> # p
      BY <1>2, <2>5, <3>1 DEF Pending
    <3> QED
      BY <1>1, <2>3, <2>5, <3>2
  <2>6. \A u \in Calls : call'[u].pc \in Unmade =>
          promise'[<<u, "auto">>] = "none" /\ promise'[<<u, "create">>] = "none"
    BY <1>2, <1>4, <2>4, <2>5 DEF MadeOnce, Files
  <2>7. call'[t].pc \in {"autoManager", "validating"} => promise'[<<t, "create">>] = "none"
    BY <1>1, <2>3 DEF Files
  <2>8. \A u \in Calls : call'[u].pc \in {"autoManager", "validating"} =>
          promise'[<<u, "create">>] = "none"
    BY <1>2, <1>4, <2>5, <2>7 DEF MadeOnce
  <2> QED
    BY <2>1, <2>2, <2>6, <2>8 DEF MadeOnce
<1> QED
  BY <1>6, <1>7, <1>8 DEF PromisesOK

\* Nobody else creates a session at host h, and no restart is awaited under the key.
Alone(t, h, r) ==
    \A u \in Calls \ {t} :
        /\ Creating(u) => call[u].host # h
        /\ (Listens(u) /\ Awaited(u)) => Key(u) # <<h, r>>

\* The promise is nobody else's.
LEMMA FilesOwn ==
  ASSUME CInv, NEW t \in Calls, NEW h, NEW r, NEW p, Files(t, h, r, p),
         h \in Languages => Alone(t, h, r),
         NEW u \in Calls \ {t}, ~Inert(call[u]), h \in Languages \/ call[u].host \in Languages
  PROVE  call[u].promise # p
<1> SUFFICES ASSUME call[u].promise = p PROVE FALSE
  OBVIOUS
<1>1. MadeOnce /\ FiledByKey /\ <<h, r>> \in Keys
  BY FilesMaps DEF CInv, Console, PromisesOK
<1>2. promise[p] # "none"
  BY <1>1 DEF MadeOnce
<1>3. Pending(p) /\ startingSessions[<<h, r>>] = p
  BY <1>2 DEF Files
<1>4. Key(u) = <<h, r>> /\ call[u].host = h
  BY <1>1, <1>3 DEF FiledByKey, Key
<1>5. Alone(t, h, r) /\ call[u].host \in Languages
  BY <1>4
<1>6. CASE Listens(u)
  <2>1. Awaited(u)
    BY <1>3, <1>4, <1>5 DEF Awaited, Pending
  <2> QED
    BY <1>4, <1>5, <1>6, <2>1 DEF Alone
<1> QED
  BY <1>4, <1>5, <1>6, InertKinds DEF Alone

\* Other calls that create a session.
LEMMA FilesCreators ==
  ASSUME CInv, NEW t \in Calls, NEW h, NEW r, NEW p, Files(t, h, r, p),
         h \in Languages => Alone(t, h, r),
         NEW x \in Calls \ {t}, Creating(x)', call'[x].host \in Languages,
         session'[x] = session[x], call'[t].listening => call'[t].session # x
  PROVE  /\ starting'[call'[x].host] # None
         /\ Pending(call[x].promise)' /\ startingSessions'[Key(x)'] = call'[x].promise
         /\ ~session'[x].relaunch
         /\ \A u \in Calls : (u # x /\ call'[u].promise = call'[x].promise) => Inert(call'[u])
         /\ \A u \in Calls : call'[u].listening => call'[u].session # x
<1>1. /\ \A u \in Calls \ {t} : call'[u] = call[u]
      /\ call'[t].promise = p /\ Key(x)' = Key(x) /\ Creating(x)
  BY DEF Files, Key, Creating
<1>2. /\ \A g \in Hosts : starting'[g] = IF g = h THEN r ELSE starting[g]
      /\ r # None /\ p # None /\ <<h, r>> \in Keys
      /\ \A k \in Keys : k # <<h, r>> => startingSessions'[k] = startingSessions[k]
      /\ \A q \in Promises : promise'[q] = IF q = p THEN "pending" ELSE promise[q]
  BY FilesMaps
<1>3. /\ starting[call[x].host] # None
      /\ Pending(call[x].promise) /\ startingSessions[Key(x)] = call[x].promise
      /\ ~session[x].relaunch
      /\ \A u \in Calls : (u # x /\ call[u].promise = call[x].promise) => Inert(call[u])
      /\ \A u \in Calls : call[u].listening => call[u].session # x
  BY <1>1 DEF CInv, Console, CreatorOK
<1>4. /\ call[x].host \in Hosts /\ Key(x) \in Keys /\ ~Inert(call[x])
      /\ call[x].promise \in Promises
  BY <1>1, CreatorKey DEF CInv, Console, PromisesOK, MadeOnce
<1>5. call[x].promise # p
  BY <1>1, <1>4, FilesOwn
<1>6. Key(x) # <<h, r>>
  <2>1. call[x].host \in Languages
    BY <1>1
  <2> QED
    BY <1>1, <2>1 DEF Alone, Key
<1> QED
  BY <1>1, <1>2, <1>3, <1>4, <1>5, <1>6 DEF Pending

\* Other restarts.
LEMMA FilesRestarters ==
  ASSUME CInv, NEW t \in Calls, NEW h, NEW r, NEW p, Files(t, h, r, p),
         h \in Languages => Alone(t, h, r),
         NEW u \in Calls \ {t}, Listens(u)',
         \A g \in Languages : Awaited(u) /\ g = call[u].host =>
            \A x \in Calls : Occupies(x, g)' => Occupies(x, g) /\ (Creating(x)' => Creating(x))
  PROVE  /\ call'[u].promise = <<u, "create">>
         /\ promise'[call'[u].promise] = "pending" => call'[u].listening
         /\ Awaited(u)' =>
              /\ starting'[call'[u].host] # None
              /\ \A g \in Languages : g = call[u].host =>
                   \A x \in Calls : Occupies(x, g)' => x = call'[u].session /\ ~Creating(x)'
<1>1. call'[u] = call[u] /\ Listens(u) /\ Key(u)' = Key(u) /\ ~Inert(call[u])
  BY DEF Files, Listens, Key, Inert
<1>2. /\ \A g \in Hosts : starting'[g] = IF g = h THEN r ELSE starting[g]
      /\ r # None /\ p # None /\ <<h, r>> \in Keys
      /\ startingSessions'[<<h, r>>] = p
      /\ \A k \in Keys : k # <<h, r>> => startingSessions'[k] = startingSessions[k]
      /\ \A q \in Promises : promise'[q] = IF q = p THEN "pending" ELSE promise[q]
  BY FilesMaps
<1>3. /\ call[u].promise = <<u, "create">>
      /\ promise[call[u].promise] = "pending" => call[u].listening
      /\ Awaited(u) =>
             /\ starting[call[u].host] # None
             /\ \A x \in Calls : Occupies(x, call[u].host) => x = call[u].session /\ ~Creating(x)
  BY <1>1 DEF CInv, Console, RestarterOK
<1>4. call[u].promise \in Promises /\ promise[call[u].promise] # "none"
  BY <1>1 DEF CInv, Console, PromisesOK, MadeOnce
<1>5. promise'[call[u].promise] = promise[call[u].promise]
  <2>1. CASE call[u].promise = p
    BY <1>2, <1>4, <2>1 DEF Files, Pending
  <2> QED
    BY <1>2, <1>4, <2>1
<1>6. Key(u) \in Keys
  <2>1. SessionOf(u, call[u].session) /\ Active(call[u].session)
    BY <1>1 DEF CInv, SafeInv, ListenOK
  <2>2. call[u].host \in Hosts /\ call[u].runtime \in Runtimes
    BY <2>1 DEF SessionOf, CInv, SafeInv, Inv, SessionsOK, Keyed
  <2> QED
    BY <2>2 DEF Key, Keys
<1>7. ASSUME Awaited(u)' PROVE Awaited(u)
  <2>1. /\ call[u].host \in Languages /\ promise[call[u].promise] = "pending"
        /\ startingSessions'[Key(u)] = call[u].promise
    BY <1>1, <1>5, <1>7 DEF Awaited
  <2>2. call[u].promise # p
    BY <1>1, <2>1, FilesOwn
  <2>3. startingSessions'[Key(u)] = startingSessions[Key(u)]
    BY <1>2, <1>6, <2>1, <2>2
  <2> QED
    BY <2>1, <2>3 DEF Awaited
<1>8. ASSUME Awaited(u)' PROVE starting'[call'[u].host] # None
  <2>1. call[u].host \in Hosts /\ starting[call[u].host] # None
    BY <1>3, <1>7, <1>8 DEF Awaited, Hosts
  <2> QED
    BY <1>1, <1>2, <2>1
<1>9. ASSUME Awaited(u)', NEW g \in Languages, g = call[u].host, NEW x \in Calls, Occupies(x, g)'
      PROVE  x = call'[u].session /\ ~Creating(x)'
  BY <1>1, <1>3, <1>7, <1>9
<1> QED
  BY <1>1, <1>3, <1>5, <1>8, <1>9

\* The two together, once call t has been looked at.
LEMMA FilesCalls ==
  ASSUME CInv, NEW t \in Calls, NEW h, NEW r, NEW p, Files(t, h, r, p),
         h \in Languages => Alone(t, h, r),
         \A x \in Calls \ {t} : (Creating(x) /\ call[x].host \in Languages) =>
            session'[x] = session[x] /\ (call'[t].listening => call'[t].session # x),
         \A u \in Calls \ {t} : \A g \in Languages : (Listens(u) /\ Awaited(u) /\ g = call[u].host) =>
            \A x \in Calls : Occupies(x, g)' => Occupies(x, g) /\ (Creating(x)' => Creating(x)),
         Creating(t)' =>
            /\ ~session'[t].relaunch
            /\ h \in Languages => \A u \in Calls : call'[u].listening => call'[u].session # t,
         Listens(t)' =>
            /\ p = <<t, "create">> /\ call'[t].listening
            /\ \A g \in Languages : g = h =>
                 \A x \in Calls : Occupies(x, g)' => x = call'[t].session /\ ~Creating(x)'
  PROVE  CreatorOK' /\ RestarterOK'
<1>1. /\ \A u \in Calls \ {t} : call'[u] = call[u]
      /\ h \in Hosts /\ r \in Runtimes /\ p \in Promises
      /\ call'[t].host = h /\ call'[t].runtime = r /\ call'[t].promise = p
  BY DEF Files
<1>2. /\ \A g \in Hosts : starting'[g] = IF g = h THEN r ELSE starting[g]
      /\ r # None /\ p # None /\ <<h, r>> \in Keys
      /\ startingSessions'[<<h, r>>] = p
      /\ \A q \in Promises : promise'[q] = IF q = p THEN "pending" ELSE promise[q]
  BY FilesMaps
<1>3. CreatorOK'
  <2> SUFFICES ASSUME NEW x \in Calls, Creating(x)', call'[x].host \in Languages
               PROVE  /\ starting'[call'[x].host] # None
                      /\ Pending(call[x].promise)' /\ startingSessions'[Key(x)'] = call'[x].promise
                      /\ ~session'[x].relaunch
                      /\ \A u \in Calls : (u # x /\ call'[u].promise = call'[x].promise) => Inert(call'[u])
                      /\ \A u \in Calls : call'[u].listening => call'[u].session # x
    BY DEF CreatorOK
  <2>1. CASE x # t
    <3>1. Creating(x)
      BY <1>1, <2>1 DEF Creating
    <3>2. session'[x] = session[x] /\ (call'[t].listening => call'[t].session # x)
      BY <1>1, <2>1, <3>1
    <3> QED
      BY <2>1, <3>2, FilesCreators
  <2>2. CASE x = t
    <3>1. h \in Languages /\ Key(t)' = <<h, r>>
      BY <1>1, <2>2 DEF Key
    <3>2. ASSUME NEW u \in Calls, u # t, call'[u].promise = p PROVE Inert(call'[u])
      BY <1>1, <3>1, <3>2, FilesOwn
    <3> QED
      BY <1>1, <1>2, <2>2, <3>1, <3>2 DEF Pending
  <2> QED
    BY <2>1, <2>2
<1>4. RestarterOK'
  <2> SUFFICES ASSUME NEW u \in Calls, Listens(u)'
               PROVE  /\ call'[u].promise = <<u, "create">>
                      /\ promise'[call'[u].promise] = "pending" => call'[u].listening
                      /\ Awaited(u)' =>
                           /\ starting'[call'[u].host] # None
                           /\ \A x \in Calls : Occupies(x, call[u].host)' =>
                                x = call'[u].session /\ ~Creating(x)'
    BY DEF RestarterOK
  <2>1. CASE u # t
    <3>1. Listens(u) /\ call'[u] = call[u]
      BY <1>1, <2>1 DEF Listens
    <3>2. \A g \in Languages : Awaited(u) /\ g = call[u].host =>
            \A x \in Calls : Occupies(x, g)' => Occupies(x, g) /\ (Creating(x)' => Creating(x))
      BY <2>1, <3>1
    <3>3. /\ call'[u].promise = <<u, "create">>
          /\ promise'[call'[u].promise] = "pending" => call'[u].listening
          /\ Awaited(u)' =>
               /\ starting'[call'[u].host] # None
               /\ \A g \in Languages : g = call[u].host =>
                    \A x \in Calls : Occupies(x, g)' => x = call'[u].session /\ ~Creating(x)'
      BY <2>1, <3>2, FilesRestarters
    <3>4. ASSUME Awaited(u)', NEW x \in Calls, Occupies(x, call[u].host)'
          PROVE  x = call'[u].session /\ ~Creating(x)'
      <4>1. PICK g \in Languages : g = call[u].host /\ g = call'[u].host
        BY <3>1, <3>4 DEF Awaited
      <4>2. Occupies(x, g)'
        BY <3>4, <4>1 DEF Occupies, Creating, Running
      <4> QED
        BY <3>3, <3>4, <4>1, <4>2
    <3> QED
      BY <3>3, <3>4
  <2>2. CASE u = t
    <3>1. ASSUME Awaited(t)', NEW x \in Calls, Occupies(x, call[t].host)'
          PROVE  x = call'[t].session /\ ~Creating(x)'
      <4>1. PICK g \in Languages : g = h /\ g = call'[t].host
        BY <1>1, <3>1 DEF Awaited
      <4>2. Occupies(x, g)'
        BY <3>1, <4>1 DEF Occupies, Creating, Running
      <4> QED
        BY <2>2, <4>1, <4>2
    <3> QED
      BY <1>1, <1>2, <2>2, <3>1
  <2> QED
    BY <2>1, <2>2
<1> QED
  BY <1>3, <1>4

\* A start begins where nothing starts or runs.
LEMMA BeginsConsole ==
  ASSUME CInv, NEW t \in Calls, NEW h \in Hosts, NEW r \in Runtimes,
         NEW p \in {<<t, "auto">>, <<t, "create">>}, Begins(t, h, r, p)
  PROVE  Console'
<1>1. /\ Inert(call[t]) /\ call[t].pc \in Unmade
      /\ \A u \in Calls \ {t} : call'[u] = call[u]
      /\ call'[t].pc = (IF p = <<t, "auto">> THEN "autoManager" ELSE "creating")
      /\ call'[t].host = h /\ ~call'[t].listening
      /\ starting[h] = None /\ running[h] = None /\ ~Pending(startingSessions[<<h, r>>])
      /\ UNCHANGED <<running, session, kernel, state, disconnected, disconnecting, extHost>>
  BY DEF Begins
<1>2. Files(t, h, r, p)
  <2>1. p \in Promises /\ <<t, "auto">> # <<t, "create">>
    BY DEF Promises
  <2>2. promise[<<t, "auto">>] = "none" /\ promise[<<t, "create">>] = "none"
    BY <1>1 DEF CInv, Console, PromisesOK, MadeOnce
  <2>3. call'[t].pc \in {"autoManager", "validating"} => p = <<t, "auto">>
    BY <1>1
  <2>4. call'[t].pc \notin Unmade
    BY <1>1 DEF Unmade
  <2> QED
    BY <2>1, <2>2, <2>3, <2>4 DEF Files, Begins
<1>3. /\ \A g \in Hosts : starting'[g] = IF g = h THEN r ELSE starting[g]
      /\ r # None
  <2>1. r # None
    BY NoneAssumption
  <2>2. \A g \in Hosts : starting'[g] = IF g = h THEN r ELSE starting[g]
    BY DEF Begins, BeginStart, CInv, SafeInv, Inv, StartsOK
  <2> QED
    BY <2>1, <2>2
<1>4. ~Active(t) /\ t \in Sessions
  BY <1>1 DEF CInv, SafeInv, Safe, CreatedOK, Unmade, FinalPcs, Sessions
<1>5. ~Running(t) /\ ~session[t].relaunch
  <2>1. ~Running(t)
    BY <1>4 DEF CInv, SafeInv, Safe, RunningOK
  <2>2. NoSession.relaunch = FALSE
    BY Zenon DEF NoSession
  <2> QED
    BY <1>4, <2>1, <2>2 DEF Active
<1>6. \A g \in Languages : g \in Hosts
  BY DEF Hosts
<1>7. h \in Languages => \A x \in Calls : ~Occupies(x, h)
  BY <1>1, NoneAssumption DEF CInv, Console, Marked, Sessions
<1>8. ASSUME NEW g \in Languages, NEW x \in Calls
      PROVE  Occupies(x, g)' => (Occupies(x, g) /\ x # t) \/ (x = t /\ g = h)
  BY <1>1, <1>5 DEF Occupies, Creating, Running
<1>9. ~Creating(t) /\ ~Listens(t) /\ ~Listens(t)'
  BY <1>1 DEF Inert, Creating, Listens
<1>10. h \in Languages => Alone(t, h, r)
  <2> SUFFICES ASSUME h \in Languages, NEW u \in Calls \ {t}
               PROVE  /\ Creating(u) => call[u].host # h
                      /\ (Listens(u) /\ Awaited(u)) => Key(u) # <<h, r>>
    BY DEF Alone
  <2>1. Creating(u) => call[u].host # h
    BY <1>7 DEF Occupies
  <2>2. ASSUME Listens(u), Awaited(u), Key(u) = <<h, r>> PROVE FALSE
    <3>1. Pending(startingSessions[<<h, r>>])
      <4>1. call[u].promise \in Promises
        BY <2>2, InertKinds DEF CInv, Console, PromisesOK, MadeOnce
      <4> QED
        BY <2>2, <4>1, NoneAssumption DEF Awaited, Pending
    <3> QED
      BY <1>1, <3>1
  <2> QED
    BY <2>1, <2>2
<1>11. CreatorOK' /\ RestarterOK'
  <2>1. ASSUME NEW u \in Calls \ {t}, NEW g \in Languages, Listens(u), Awaited(u), g = call[u].host,
               NEW x \in Calls, Occupies(x, g)'
        PROVE  Occupies(x, g) /\ (Creating(x)' => Creating(x))
    <3>1. g # h
      BY <1>1, <2>1 DEF CInv, Console, RestarterOK
    <3>2. Occupies(x, g) /\ x # t
      BY <1>8, <2>1, <3>1
    <3> QED
      BY <1>1, <3>2 DEF Creating
  <2>2. \A u \in Calls : call'[u].listening => call'[u].session # t
    BY <1>1, <1>4 DEF CInv, SafeInv, ListenOK, Listens
  <2>3. \A x \in Calls \ {t} : (Creating(x) /\ call[x].host \in Languages) =>
            session'[x] = session[x] /\ (call'[t].listening => call'[t].session # x)
    BY <1>1
  <2>4. ~session'[t].relaunch
    BY <1>1, <1>5
  <2> QED
    BY <1>2, <1>9, <1>10, <2>1, <2>2, <2>3, <2>4, FilesCalls
<1>12. Exclusive'
  BY <1>7, <1>8 DEF CInv, Console, Exclusive
<1>13. Marked'
  BY <1>1, <1>3, <1>6, <1>8 DEF CInv, Console, Marked
<1>14. Tracked'
  BY <1>1 DEF CInv, Console, Tracked
<1>15. Relaunched'
  BY <1>1, <1>3, <1>6 DEF CInv, Console, Relaunched, Running
<1>16. Calm'
  BY <1>1 DEF CInv, Console, Calm
<1> QED
  BY <1>2, <1>11, <1>12, <1>13, <1>14, <1>15, <1>16, FilesPromises DEF Console

\* An automatic start goes on to create the session.
LEMMA CreatesConsole ==
  ASSUME CInv, NEW t \in Calls, NEW r \in Runtimes, Creates(t, r)
  PROVE  Console'
<1>0. Creating(t) /\ call[t].pc \in {"autoManager", "validating"}
  BY DEF Creates, Creating, CreatingPcs
<1>1. PICK h \in Hosts : h = call[t].host
  BY <1>0, CreatorKey
<1>2. PICK p \in Promises : p = IF Pending(startingSessions[<<h, r>>]) THEN startingSessions[<<h, r>>]
                                                                        ELSE <<t, "create">>
  <2>1. startingSessions[<<h, r>>] \in Promises \cup {None} /\ <<t, "create">> \in Promises
    BY DEF CInv, SafeInv, Inv, StartsOK, Keys, Promises
  <2> QED
    BY <2>1 DEF Pending
<1>3. /\ \A u \in Calls \ {t} : call'[u] = call[u]
      /\ call'[t].pc = "creating" /\ call'[t].host = h /\ call'[t].runtime = r
      /\ call'[t].promise = p /\ call'[t].listening = call[t].listening
      /\ BeginStart(h, r, p)
      /\ UNCHANGED <<running, session, kernel, state, disconnected, disconnecting, extHost>>
  BY <1>1, <1>2 DEF Creates, SessionsStay
<1>4. Files(t, h, r, p)
  <2>1. promise[<<t, "create">>] = "none"
    BY <1>0 DEF CInv, Console, PromisesOK, MadeOnce
  <2> QED
    BY <1>2, <1>3, <2>1 DEF Files, Unmade
<1>5. \A g \in Hosts : starting'[g] = IF g = h THEN r ELSE starting[g]
  BY <1>3 DEF BeginStart, CInv, SafeInv, Inv, StartsOK
<1>6. r # None
  BY NoneAssumption
<1>7. ~Active(t) /\ t \in Sessions /\ ~session[t].relaunch
  <2>1. ~Active(t)
    BY <1>0 DEF CInv, SafeInv, Safe, CreatedOK, FinalPcs
  <2>2. NoSession.relaunch = FALSE
    BY Zenon DEF NoSession
  <2> QED
    BY <2>1, <2>2 DEF Active, Sessions
<1>8. ~Listens(t) /\ ~Listens(t)' /\ Creating(t)'
  BY <1>0, <1>3, CreatorKey DEF Listens, Creating, CreatingPcs
<1>9. ASSUME NEW g, NEW x \in Calls PROVE Occupies(x, g)' <=> Occupies(x, g)
  BY <1>0, <1>1, <1>3, <1>8 DEF Occupies, Creating, Running
<1>10. \A g \in Languages : g \in Hosts
  BY DEF Hosts
<1>11. Occupies(t, h)
  BY <1>0, <1>1 DEF Occupies
<1>12. h \in Languages => Alone(t, h, r)
  <2> SUFFICES ASSUME h \in Languages, NEW u \in Calls \ {t}
               PROVE  /\ Creating(u) => call[u].host # h
                      /\ (Listens(u) /\ Awaited(u)) => Key(u) # <<h, r>>
    BY DEF Alone
  <2>1. Creating(u) => call[u].host # h
    BY <1>11 DEF CInv, Console, Exclusive, Occupies
  <2>2. ASSUME Listens(u), Awaited(u), Key(u) = <<h, r>> PROVE FALSE
    <3>1. call[u].host = h
      BY <2>2 DEF Key
    <3> QED
      BY <1>0, <1>11, <2>2, <3>1 DEF CInv, Console, RestarterOK
  <2> QED
    BY <2>1, <2>2
<1>13. CreatorOK' /\ RestarterOK'
  <2>1. \A u \in Calls \ {t} : \A g \in Languages : (Listens(u) /\ Awaited(u) /\ g = call[u].host) =>
            \A x \in Calls : Occupies(x, g)' => Occupies(x, g) /\ (Creating(x)' => Creating(x))
    BY <1>0, <1>3, <1>9 DEF Creating
  <2>2. \A u \in Calls : call'[u].listening => call'[u].session # t
    BY <1>3, <1>7, <1>8 DEF CInv, SafeInv, ListenOK, Listens
  <2>3. \A x \in Calls \ {t} : (Creating(x) /\ call[x].host \in Languages) =>
            session'[x] = session[x] /\ (call'[t].listening => call'[t].session # x)
    BY <1>3, <1>8 DEF Listens
  <2>4. ~session'[t].relaunch
    BY <1>3, <1>7
  <2> QED
    BY <1>4, <1>8, <1>12, <2>1, <2>2, <2>3, <2>4, FilesCalls
<1>14. Exclusive'
  BY <1>9 DEF CInv, Console, Exclusive
<1>15. Marked'
  BY <1>3, <1>5, <1>6, <1>9, <1>10 DEF CInv, Console, Marked
<1>16. Tracked'
  BY <1>3 DEF CInv, Console, Tracked
<1>17. Relaunched'
  BY <1>3, <1>5, <1>6, <1>10 DEF CInv, Console, Relaunched, Running
<1>18. Calm'
  BY <1>3 DEF CInv, Console, Calm
<1> QED
  BY <1>4, <1>13, <1>14, <1>15, <1>16, <1>17, <1>18, FilesPromises DEF Console

\* A restart begins: its session is the one that runs.
LEMMA RestartsConsole ==
  ASSUME CInv, NEW t \in Calls, NEW s \in Sessions, Restarts(t, s)
  PROVE  Console'
<1>0. Inv
  BY DEF CInv, SafeInv
<1>1. /\ Inert(call[t]) /\ call[t].pc = "new" /\ Active(s) /\ state[s] = "Ready"
      /\ state' = [state EXCEPT ![s] = "Restarting"]
      /\ session' = [session EXCEPT ![s].relaunch = TRUE]
      /\ UNCHANGED <<running, kernel, disconnected, disconnecting, extHost>>
  BY DEF Restarts
<1>2. PICK h \in Hosts, r \in Runtimes : h = session[s].host /\ r = session[s].runtime
  BY <1>0, <1>1 DEF Inv, SessionsOK, Keyed
<1>3. PICK p \in Promises : p = <<t, "create">>
  BY DEF Promises
<1>4. /\ \A u \in Calls \ {t} : call'[u] = call[u]
      /\ call'[t].pc = "restarting" /\ call'[t].session = s
      /\ call'[t].host = h /\ call'[t].runtime = r
      /\ call'[t].promise = p /\ call'[t].listening
      /\ ~Pending(startingSessions[<<h, r>>])
      /\ BeginStart(h, r, p)
  BY <1>2, <1>3 DEF Restarts
<1>5. Files(t, h, r, p)
  <2>1. promise[p] = "none"
    BY <1>1, <1>3 DEF CInv, Console, PromisesOK, MadeOnce, Unmade
  <2> QED
    BY <1>3, <1>4, <2>1 DEF Files, Unmade
<1>6. \A g \in Hosts : starting'[g] = IF g = h THEN r ELSE starting[g]
  BY <1>4 DEF BeginStart, CInv, SafeInv, Inv, StartsOK
<1>7. r # None
  BY NoneAssumption
<1>8. t \in Sessions /\ ~Active(t) /\ t # s
  BY <1>1 DEF CInv, SafeInv, Safe, CreatedOK, FinalPcs, Sessions
<1>9. /\ \A x \in Sessions \ {s} : session'[x] = session[x] /\ state'[x] = state[x]
      /\ session'[s].host = session[s].host
      /\ state'[s] = "Restarting"
  <2>1. session[s] \in SessionRecord
    BY <1>0 DEF Inv, SessionsOK
  <2>2. session'[s] = [session[s] EXCEPT !.relaunch = TRUE]
    BY <1>0, <1>1 DEF Inv, SessionsOK
  <2>3. session'[s].host = session[s].host
    BY <2>1, <2>2 DEF SessionRecord
  <2> QED
    BY <1>0, <1>1, <2>3 DEF Inv, SessionsOK, KernelsOK
<1>10. ~Creating(t) /\ ~Creating(t)' /\ \A x \in Calls : Creating(x)' <=> Creating(x)
  BY <1>1, <1>4 DEF Creating, CreatingPcs
<1>11. h \in Languages => running[h] = s /\ Occupies(s, h)
  <2> SUFFICES ASSUME h \in Languages PROVE running[h] = s /\ Occupies(s, h)
    OBVIOUS
  <2>1. running[h] = s
    BY <1>1, <1>2 DEF CInv, Console, Tracked
  <2> QED
    BY <2>1, RunningOccupies, NoneAssumption DEF Sessions
<1>12. ASSUME NEW g \in Languages, NEW x \in Calls PROVE Occupies(x, g)' => Occupies(x, g)
  <2>1. CASE Creating(x)' /\ call'[x].host = g
    BY <1>4, <1>10, <2>1 DEF Occupies
  <2>2. CASE x # s
    BY <1>1, <1>4, <1>9, <1>10, <2>2 DEF Occupies, Running, Sessions
  <2>3. CASE x = s /\ session'[s].host = g
    BY <1>2, <1>9, <1>11, <2>3
  <2> QED
    BY <2>1, <2>2, <2>3 DEF Occupies
<1>13. h \in Languages => \A x \in Calls : Occupies(x, h) => x = s
  BY <1>11 DEF CInv, Console, Exclusive, Sessions
<1>14. \A g \in Languages : g \in Hosts
  BY DEF Hosts
<1>15. h \in Languages => ~Creating(s)
  <2> SUFFICES ASSUME h \in Languages, Creating(s) PROVE FALSE
    OBVIOUS
  <2>1. Key(s) = <<h, r>> /\ call[s].host = h
    BY <1>1, <1>2, CreatorSession DEF Key, Sessions
  <2> QED
    BY <1>4, <2>1 DEF CInv, Console, CreatorOK, Sessions
<1>16. h \in Languages => Alone(t, h, r)
  <2> SUFFICES ASSUME h \in Languages, NEW u \in Calls \ {t}
               PROVE  /\ Creating(u) => call[u].host # h
                      /\ (Listens(u) /\ Awaited(u)) => Key(u) # <<h, r>>
    BY DEF Alone
  <2>1. Creating(u) => call[u].host # h
    BY <1>13, <1>15 DEF Occupies
  <2>2. ASSUME Listens(u), Awaited(u), Key(u) = <<h, r>> PROVE FALSE
    <3>1. call[u].promise \in Promises
      BY <2>2, InertKinds DEF CInv, Console, PromisesOK, MadeOnce
    <3> QED
      BY <1>4, <2>2, <3>1, NoneAssumption DEF Awaited, Pending
  <2> QED
    BY <2>1, <2>2
<1>17. Exclusive'
  BY <1>12 DEF CInv, Console, Exclusive
<1>18. Marked'
  BY <1>1, <1>6, <1>7, <1>12, <1>14 DEF CInv, Console, Marked
<1>19. Tracked'
  <2> SUFFICES ASSUME NEW x \in Sessions, session'[x].host \in Languages,
                      state'[x] \notin {"Starting", "Uninitialized", "Exited"}
               PROVE  running'[session'[x].host] = x
    BY DEF Tracked
  <2> QED
    BY <1>1, <1>9 DEF CInv, Console, Tracked
<1>20. Relaunched'
  <2> SUFFICES ASSUME NEW x \in Sessions, session'[x].relaunch
               PROVE  /\ state'[x] \notin {"Starting", "Uninitialized"}
                      /\ session'[x].host \in Languages =>
                           /\ starting'[session'[x].host] # None
                           /\ Running(x) => running[session'[x].host] = x
    BY <1>1 DEF Relaunched, Running
  <2>1. CASE x = s
    BY <1>2, <1>6, <1>7, <1>9, <1>11, <2>1
  <2>2. CASE x # s
    BY <1>6, <1>7, <1>9, <1>14, <2>2 DEF CInv, Console, Relaunched
  <2> QED
    BY <2>1, <2>2
<1>21. CreatorOK' /\ RestarterOK'
  <2>1. \A u \in Calls \ {t} : \A g \in Languages : (Listens(u) /\ Awaited(u) /\ g = call[u].host) =>
            \A x \in Calls : Occupies(x, g)' => Occupies(x, g) /\ (Creating(x)' => Creating(x))
    BY <1>10, <1>12
  <2>2. \A g \in Languages : g = h =>
          \A x \in Calls : Occupies(x, g)' => x = call'[t].session /\ ~Creating(x)'
    BY <1>4, <1>10, <1>12, <1>13, <1>15
  <2>3. \A x \in Calls \ {t} : (Creating(x) /\ call[x].host \in Languages) =>
            session'[x] = session[x] /\ (call'[t].listening => call'[t].session # x)
    <3> SUFFICES ASSUME Creating(s), call[s].host \in Languages PROVE FALSE
      BY <1>4, <1>9 DEF Sessions
    <3> QED
      BY <1>1, <1>2, <1>15, CreatorSession DEF Sessions
  <2> QED
    BY <1>3, <1>4, <1>5, <1>10, <1>16, <2>1, <2>2, <2>3, FilesCalls
<1>22. Calm'
  BY <1>1, <1>4 DEF CInv, Console, Calm
<1> QED
  BY <1>5, <1>17, <1>18, <1>19, <1>20, <1>21, <1>22, FilesPromises DEF Console

-----------------------------------------------------------------------------
(* The invariant.                                                          *)

\* Nobody occupies a language initially.
LEMMA ConsoleInit == Init => CInv
<1> SUFFICES ASSUME Init PROVE CInv
  OBVIOUS
<1>1. SafeInv
  BY SafeInit
<1>2. \A t \in Calls : call[t].pc = "new" /\ ~call[t].listening
  <2>1. NewCall.pc = "new"
    BY DEF NewCall
  <2>2. NewCall.listening = FALSE
    BY Zenon DEF NewCall
  <2> QED
    BY <2>1, <2>2 DEF Init
<1>3. \A t \in Calls : Inert(call[t]) /\ ~Creating(t) /\ ~Listens(t)
  BY <1>2 DEF Inert, Creating, Listens, CreatingPcs
<1>4. \A s \in Sessions : ~session[s].relaunch /\ ~Running(s) /\ state[s] = "Uninitialized"
                          /\ kernel[s] # "exited"
  <2>1. NoSession.relaunch = FALSE
    BY Zenon DEF NoSession
  <2> QED
    BY <2>1 DEF Init, Running
<1>5. Over /\ Calm
  BY <1>2, <1>4 DEF Over, Calm, Init
<1>6. Exclusive /\ Marked /\ Tracked /\ Relaunched /\ CreatorOK /\ RestarterOK
  BY <1>3, <1>4 DEF Exclusive, Marked, Tracked, Relaunched, CreatorOK, RestarterOK, Occupies, Sessions
<1>7. PromisesOK
  <2>1. \A k \in Keys : startingSessions[k] = None
    BY DEF Init
  <2>2. \A p \in Promises : promise[p] = "none"
    BY DEF Init
  <2>3. \A t \in Calls : <<t, "auto">> \in Promises /\ <<t, "create">> \in Promises
    BY DEF Promises
  <2> QED
    BY <1>3, <2>1, <2>2, <2>3 DEF PromisesOK, FiledOnce, FiledByKey, MadeOnce, Pending
<1> QED
  BY <1>1, <1>5, <1>6, <1>7 DEF CInv, Console

\* Every step keeps the invariant, in an environment that loses no extension
\* host and does not hold back the change to Exited.
LEMMA ConsoleNext ==
  ASSUME ~StatesMayLag, ~CanLoseExtHost
  PROVE  CInv /\ [Next]_vars => CInv'
<1> SUFFICES ASSUME CInv, [Next]_vars PROVE CInv'
  OBVIOUS
<1>1. SafeInv'
  BY SafeNext DEF CInv
<1>2. Moves \/ Changes
  BY StepKinds DEF CInv, SafeInv
<1>3. Over'
  BY <1>2, OverNext DEF CInv
<1>4. ASSUME NEW t \in Calls, NEW s \in Sessions, Restores(t, s) PROVE FALSE
  BY <1>4 DEF Restores, CInv, Console, Calm
<1>5. ASSUME LoseExtHost PROVE FALSE
  BY <1>5 DEF LoseExtHost
<1>6. Inv /\ ListenOK
  BY DEF CInv, SafeInv
<1>7. ASSUME NEW t \in Calls, Answer(t) \/ RestartTimeout(t) PROVE Console'
  BY <1>6, <1>7, AnswerStep, RestartStep, GoesConsole, CreatesConsole, StartEndsConsole,
     RestartFailedConsole, TimedOutConsole, AttachesConsole
<1>8. Console'
  BY <1>2, <1>4, <1>5, <1>6, <1>7, MovesConsole, BeginsConsole, RestartsConsole, KernelExitsConsole,
     LaunchStep, LaunchesConsole, ReadyStep, ReadiesConsole, ExitStep, ExitsConsole DEF Changes
<1> QED
  BY <1>1, <1>3, <1>8 DEF CInv

\* A language has one occupant, and the service sees it, in every reachable state.
THEOREM ConsoleInvariant ==
  ASSUME ~StatesMayLag, ~CanLoseExtHost
  PROVE  Spec => []CInv
<1>1. CInv /\ [Next]_vars => CInv'
  BY ConsoleNext
<1> QED
  BY <1>1, ConsoleInit, PTL DEF Spec

\* No interleaving of any number of start requests, automatic starts, selections,
\* notebook shutdowns, restarts and their timeouts, with kernels that crash at any
\* time and requests that fail, leaves two console kernels of a language running.
THEOREM OneConsoleAtATime ==
  ASSUME ~StatesMayLag, ~CanLoseExtHost
  PROVE  Spec => []OneConsolePerLanguage
<1>1. CInv => OneConsolePerLanguage
  <2> SUFFICES ASSUME CInv, NEW s \in Sessions, NEW u \in Sessions, s # u, Up(s), Up(u),
                      IsConsole(session[s].host), session[s].host = session[u].host
               PROVE  FALSE
    BY DEF OneConsolePerLanguage
  <2>1. session[s].host \in Languages
    BY DEF IsConsole
  <2>2. Occupies(s, session[s].host) /\ Occupies(u, session[s].host)
    BY DEF Up, Occupies, Running
  <2> QED
    BY <2>1, <2>2 DEF CInv, Console, Exclusive, Sessions
<1> QED
  BY <1>1, ConsoleInvariant, PTL

\* A console that is ready is the one getConsoleSessionForLanguage finds: neither
\* the exit events of an earlier session nor a start that ends late evict it.
THEOREM ReadyConsoleIsTracked ==
  ASSUME ~StatesMayLag, ~CanLoseExtHost
  PROVE  Spec => []ConsoleTracked
<1>1. CInv => ConsoleTracked
  BY DEF CInv, Console, Tracked, ConsoleTracked, IsConsole
<1> QED
  BY <1>1, ConsoleInvariant, PTL

\* A language is never the target of two console starts at once, however requests
\* interleave at the awaits of startNewRuntimeSession, doAutoStartRuntime,
\* selectRuntime and restartSession.
THEOREM OneStartAtATime ==
  ASSUME ~StatesMayLag, ~CanLoseExtHost
  PROVE  Spec => []OneStartPerLanguage
<1>1. CInv => OneStartPerLanguage
  <2> SUFFICES ASSUME CInv, NEW t \in Calls, NEW u \in Calls, t # u, Creating(t), Creating(u),
                      IsConsole(call[t].host), call[t].host = call[u].host
               PROVE  FALSE
    BY DEF OneStartPerLanguage, Creating
  <2>1. call[t].host \in Languages
    BY DEF IsConsole
  <2>2. Occupies(t, call[t].host) /\ Occupies(u, call[t].host)
    BY DEF Occupies
  <2> QED
    BY <2>1, <2>2 DEF CInv, Console, Exclusive
<1> QED
  BY <1>1, ConsoleInvariant, PTL

-----------------------------------------------------------------------------
(* The foreground session.                                                 *)

\* If the foreground session changes, it is the running one of a language.
Shows == foreground' # foreground => \E h \in Languages : running'[h] = foreground'

\* Requests that may start a session leave it alone.
LEMMA StartShows ==
  ASSUME NEW t, NEW c, StartNew(t, c) \/ AutoStartRuntime(t, c) \/ DoAutoStart(t, c)
  PROVE  Shows
  BY DEF StartNew, AutoStartRuntime, DoAutoStart, DoCreate, Coalesce, Leave, sessionMaps, Shows

\* selectRuntime brings the session it finds to the foreground.
LEMMA SelectShows ==
  ASSUME NEW t, NEW c, SelectActive(t, c) \/ SelectNotebook(t, c)
  PROVE  Shows
<1>1. CASE StartNew(t, c)
  BY <1>1, StartShows
<1>2. CASE ~StartNew(t, c)
  BY <1>2 DEF SelectActive, SelectNotebook, Leave, sessionMaps, Shows, IsConsole
<1> QED
  BY <1>1, <1>2

\* Requests of the user, and their continuations.
LEMMA CallShows ==
  ASSUME NEW t \in Calls, Ask(t) \/ Resume(t) \/ Timer(t)
  PROVE  Shows
<1>1. CASE \/ \E c : StartNew(t, c) \/ AutoStartRuntime(t, c) \/ DoAutoStart(t, c)
           \/ \E c : SelectActive(t, c) \/ SelectNotebook(t, c)
  BY <1>1, StartShows, SelectShows
<1>2. CASE \E c, how : Leave(t, c, how)
  BY <1>2 DEF Leave, sessionMaps, Shows
<1>3. CASE \E c : Coalesce(t, c) \/ NotebookShutdown(t, c)
  BY <1>3 DEF Coalesce, Leave, NotebookShutdown, sessionMaps, Shows
<1>4. CASE \E h \in Hosts, r \in Runtimes : StartNewRuntimeSession(t, h, r)
  BY <1>1, <1>2, <1>4 DEF StartNewRuntimeSession
<1>5. CASE \E r \in Runtimes, activate \in BOOLEAN : AutoStartRequest(t, r, activate)
  BY <1>1, <1>2, <1>5 DEF AutoStartRequest
<1>6. CASE \E r \in Runtimes : EncounterLanguage(t, r)
  BY <1>1, <1>2, <1>6 DEF EncounterLanguage
<1>7. CASE \E h \in Hosts, r \in Runtimes : SelectRuntime(t, h, r)
  BY <1>1, <1>2, <1>7 DEF SelectRuntime
<1>8. CASE \E s \in Sessions : RestartSession(t, s)
  <2>1. CASE \E c : DoRestart(t, c)
    BY <1>3, <2>1 DEF DoRestart, Shows
  <2> QED
    BY <1>1, <1>2, <1>8, <2>1 DEF RestartSession
<1>9. CASE \E n \in Notebooks : ShutdownNotebookSession(t, n)
  BY <1>2, <1>3, <1>9 DEF ShutdownNotebookSession, sessionMaps, Shows
<1>10. CASE \E s \in Sessions : RestoreRuntimeSession(t, s)
  BY <1>10 DEF RestoreRuntimeSession, sessionMaps, Shows
<1>11. CASE Resume(t)
  <2>1. CASE SelectAfterStart(t) \/ SelectAfterNotebook(t) \/ SelectAfterShutdown(t) \/ StartAfterTrust(t)
    BY <1>1, <1>2, <2>1 DEF SelectAfterStart, SelectAfterNotebook, SelectAfterShutdown, StartAfterTrust
  <2>2. CASE NotebookAfterStart(t) \/ NotebookAfterReady(t)
    BY <1>2, <1>3, <2>2 DEF NotebookAfterStart, NotebookAfterReady, sessionMaps, Shows
  <2> QED
    BY <1>11, <2>1, <2>2 DEF Resume
<1>12. CASE Timer(t)
  BY <1>3, <1>12 DEF Timer, RestartTimeout, NotebookReadyTimeout, sessionMaps, Shows
<1> QED
  BY <1>4, <1>5, <1>6, <1>7, <1>8, <1>9, <1>10, <1>11, <1>12 DEF Ask

\* A start that succeeds brings its session to the foreground.
LEMMA AnswerShows ==
  ASSUME Inv, NEW t \in Calls, Answer(t)
  PROVE  Shows
<1>1. CASE StartSucceeds(t)
  <2>1. IsConsole(call[t].host) => call[t].host \in Languages /\ call[t].host \in Hosts
    BY DEF IsConsole, Hosts
  <2> QED
    BY <1>1, <2>1 DEF StartSucceeds, Shows, Inv, SessionsOK
<1>2. CASE \/ AutoManagerFound(t) \/ ManagerFails(t) \/ \E r \in Runtimes : MetadataValidated(t, r)
           \/ MetadataInvalid(t) \/ StartFails(t) \/ RestartSucceeds(t) \/ RestartFails(t)
  BY <1>2 DEF AutoManagerFound, ManagerFails, MetadataValidated, MetadataInvalid, StartFails,
              RestartSucceeds, RestartFails, DoCreate, FailStart, Leave, sessionMaps, Shows
<1>3. CASE SessionCreated(t) \/ SessionRestored(t)
  BY <1>3 DEF SessionCreated, SessionRestored, Attach, Shows
<1> QED
  BY <1>1, <1>2, <1>3 DEF Answer

\* A console that becomes ready is the running one of its language.
LEMMA ReadyShows ==
  ASSUME CInv, NEW s \in Sessions, KernelReady(s)
  PROVE  Shows
<1>1. /\ Active(s) /\ kernel[s] = "up"
      /\ foreground' = IF IsConsole(session[s].host) /\ session[s].activate THEN s ELSE foreground
      /\ running' = IF running[session[s].host] = None
                    THEN [running EXCEPT ![session[s].host] = s] ELSE running
  BY DEF KernelReady, Event, HandleReady
<1> SUFFICES ASSUME session[s].host \in Languages
             PROVE  running'[session[s].host] = s
  BY <1>1 DEF Shows, IsConsole
<1>2. session[s].host \in Hosts
  BY DEF Hosts
<1>3. Occupies(s, session[s].host)
  BY <1>1 DEF Occupies, Running
<1>4. running[session[s].host] # None => running[session[s].host] = s
  BY <1>3, RunningOccupies DEF CInv, Console, Exclusive, Sessions
<1> QED
  BY <1>1, <1>2, <1>4 DEF CInv, SafeInv, Inv, SessionsOK

\* Whatever brings a session to the foreground (a selection, the end of its start,
\* its Ready event) finds or makes it the running console of its language.
THEOREM ForegroundConsoleRuns ==
  ASSUME ~StatesMayLag, ~CanLoseExtHost
  PROVE  Spec => ForegroundIsRunning
<1>1. CInv /\ [Next]_vars => [foreground' # foreground
                                => \E h \in Languages : running'[h] = foreground']_vars
  <2> SUFFICES ASSUME CInv, Next PROVE Shows
    BY DEF Shows
  <2>1. Inv
    BY DEF CInv, SafeInv
  <2>2. ASSUME NEW t \in Calls, Ask(t) \/ Resume(t) \/ Answer(t) \/ Timer(t) PROVE Shows
    BY <2>1, <2>2, CallShows, AnswerShows
  <2>3. ASSUME NEW s \in Sessions, KernelReady(s) PROVE Shows
    BY <2>3, ReadyShows
  <2>4. ASSUME NEW s \in Sessions,
               \/ ShutdownAnswer(s) \/ ShutdownTimeout(s) \/ ExitEvent(s) \/ KernelLaunched(s)
               \/ KernelActive(s) \/ KernelOffline(s) \/ KernelExits(s) \/ RememberDisconnected(s)
        PROVE  Shows
    BY <2>4 DEF ShutdownAnswer, ShutdownReplies, ShutdownTimeout, ExitEvent, SessionExited, SessionEnded,
                KernelLaunched, KernelActive, KernelOffline, KernelExits, RememberDisconnected,
                sessionMaps, Shows
  <2>5. CASE \/ LoseExtHost \/ ExtHostReturns \/ StorageMoved \/ GrantTrust
             \/ \E r \in Runtimes : RegisterRuntime(r)
    BY <2>5 DEF LoseExtHost, ExtHostReturns, StorageMoved, GrantTrust, RegisterRuntime, sessionMaps,
                vars, Shows
  <2> QED
    BY <2>2, <2>3, <2>4, <2>5 DEF Next, KernelStep
<1> QED
  BY <1>1, ConsoleInvariant, PTL DEF Spec, ForegroundIsRunning
==============================================================================
