------------------------ MODULE TableDataCacheProofs ------------------------
(* Proofs about TableDataCache, for tables, screens and overscan factors of  *)
(* any size and any number of changes and calls.                             *)
(*                                                                           *)
(* Two invariants.  Inv bounds the cache: what an update asks for lies in    *)
(* its window, and what it does not trim later it has cleared before.        *)
(* FreshInv is about versions: nothing stale is cached, on the connection or *)
(* held unless someone still owes its reload, and every message with an old  *)
(* size of the table has an event behind it on the ordered connection.       *)
EXTENDS TableDataCache, TLAPS

-----------------------------------------------------------------------------
(* The inductive invariant. *)

WC == WindowColumns(task, columns)
WR == WindowRows(task, rows)

\* The schema cache, and the label and data caches, hold nothing beyond the
\* window of the update in progress, or of the last one.
SchemaIn == \A c \in ColumnIndex : schemaCache[c] # None => c \in WC
DataIn ==
    /\ \A r \in RowIndex : labelCache[r] # None => r \in WR
    /\ \A x \in Cells : dataCache[x] # None => x[1] \in WC /\ x[2] \in WR

\* What an update has asked for, and has received, lies in its window.
WantedIn ==
    /\ step = "schema" => wanted.schema \subseteq WC
    /\ step \in {"labels", "values"} =>
          wanted.labels \subseteq WR /\ wanted.cells \subseteq WC \X WR
    /\ step = "values" => held.rows \subseteq WR
    /\ step \in {"idle", "state", "schema", "labels"} => held.rows = {}

\* What an update invalidates it has cleared by the time it caches again.
ClearedIn ==
    task # None =>
        /\ step \in {"schema", "labels", "values", "idle"} /\ "Schema" \in task.flags => SchemaIn
        /\ step \in {"values", "idle"} /\ "Data" \in task.flags => DataIn

UpdateOK ==
    /\ WantedIn /\ ClearedIn
    /\ TrimNotDuringUpdate /\ CacheBounded
    /\ step # "idle" => task # None

Inv == TypeOK /\ UpdateOK

-----------------------------------------------------------------------------
(* Types. *)

Wanteds == [schema : SUBSET ColumnIndex, columns : SUBSET ColumnIndex,
            cells : SUBSET Cells, labels : SUBSET RowIndex]
Holdings == [rows : SUBSET RowIndex, at : Version]

\* The parts of TypeOK: the backend, the client, the caches and the update.
BackTypes ==
    /\ shape \in Shapes /\ dataVersion \in Version /\ schemaVersion \in Version
    /\ wire \in Seq(Messages)
ClientTypes ==
    /\ cachedState \in Shapes
    /\ statePromise \in {"none", "pending", "rejected"}
    /\ waiting \subseteq {"dataUpdate", "schemaUpdate"}
    /\ layout \in [columns : 0..MaxColumns, rows : 0..MaxRows]
    /\ due \in [Handlers -> Nat]
CacheTypes ==
    /\ columns \in 0..MaxColumns /\ rows \in 0..MaxRows
    /\ schemaCache \in [ColumnIndex -> Version \cup {None}]
    /\ labelCache \in [RowIndex -> Version \cup {None}]
    /\ dataCache \in [Cells -> Version \cup {None}]
UpdateTypes ==
    /\ step \in {"idle", "state", "schema", "labels", "values", "failed"}
    /\ task \in Descriptors \cup {None}
    /\ pending \in Descriptors \cup {None}
    /\ wanted \in Wanteds
    /\ held \in Holdings
    /\ trim \in Descriptors \cup {None}
    /\ lost \subseteq {"Schema", "Data"}
OtherTypes == asked \subseteq Rpcs /\ calls \in 0..MaxCalls
LabelType == hasRowLabels \in BOOLEAN

\* TypeOK is the conjunction of its parts, in a state and in the next one.
LEMMA TypeParts ==
    /\ TypeOK <=> BackTypes /\ ClientTypes /\ CacheTypes /\ UpdateTypes /\ OtherTypes /\ LabelType
    /\ TypeOK' <=> BackTypes' /\ ClientTypes' /\ CacheTypes' /\ UpdateTypes' /\ OtherTypes' /\ LabelType'
<1>1. TypeOK <=> BackTypes /\ ClientTypes /\ CacheTypes /\ UpdateTypes /\ OtherTypes /\ LabelType
  BY Zenon DEF TypeOK, BackTypes, ClientTypes, CacheTypes, UpdateTypes, OtherTypes, LabelType, Wanteds, Holdings
<1>2. TypeOK' <=> BackTypes' /\ ClientTypes' /\ CacheTypes' /\ UpdateTypes' /\ OtherTypes' /\ LabelType'
  BY Zenon DEF TypeOK, BackTypes, ClientTypes, CacheTypes, UpdateTypes, OtherTypes, LabelType, Wanteds, Holdings
<1>. QED  BY ONLY <1>1, <1>2, Zenon

\* A part whose variables do not change goes on holding.
LEMMA TypesKept ==
    /\ BackTypes /\ UNCHANGED <<backendVars, wire>> => BackTypes'
    /\ ClientTypes /\ UNCHANGED <<clientVars, gridVars>> => ClientTypes'
    /\ CacheTypes /\ LabelType /\ UNCHANGED cacheVars => CacheTypes' /\ LabelType'
    /\ UpdateTypes /\ UNCHANGED updateVars => UpdateTypes'
<1>1. BackTypes /\ UNCHANGED <<backendVars, wire>> => BackTypes'
  BY DEF BackTypes, backendVars
<1>2. ClientTypes /\ UNCHANGED <<clientVars, gridVars>> => ClientTypes'
  BY DEF ClientTypes, clientVars, gridVars
<1>3. CacheTypes /\ UNCHANGED cacheVars => CacheTypes'
  BY DEF CacheTypes, cacheVars
<1>4. LabelType /\ UNCHANGED cacheVars => LabelType'
  BY Zenon DEF LabelType, cacheVars
<1>5. UpdateTypes /\ UNCHANGED updateVars => UpdateTypes'
  BY DEF UpdateTypes, updateVars
<1>. QED  BY ONLY <1>1, <1>2, <1>3, <1>4, <1>5, Zenon

\* A descriptor has a screen and flags, and is not None.
LEMMA DescriptorFacts ==
    ASSUME NEW d \in Descriptors
    PROVE  d # None /\ d.flags \in Flags /\ d.screen \in Screens
BY NoneAssumption DEF Descriptors, Flags

\* Windows lie within the table.
LEMMA WindowFacts ==
    /\ \A d, n : n \in 0..MaxColumns => WindowColumns(d, n) \subseteq ColumnIndex
    /\ \A d, n : n \in 0..MaxRows => WindowRows(d, n) \subseteq RowIndex
BY BoundsAssumption DEF WindowColumns, WindowRows, Window, ColumnIndex, RowIndex

\* So does the window of the update in progress, or of the last one.
LEMMA WindowInTable ==
    ASSUME CacheTypes
    PROVE  /\ WC \subseteq ColumnIndex /\ WR \subseteq RowIndex /\ WC \X WR \subseteq Cells
           /\ Selected(task) \subseteq ColumnIndex
<1>1. columns \in 0..MaxColumns /\ rows \in 0..MaxRows
  BY DEF CacheTypes
<1>2. WC \subseteq ColumnIndex /\ WR \subseteq RowIndex
  BY <1>1, WindowFacts DEF WC, WR
<1>3. Selected(task) \subseteq WC
  BY DEF Selected, WC
<1>. QED  BY <1>2, <1>3 DEF Cells

\* The head and the tail of the connection.
LEMMA WireFacts ==
    ASSUME BackTypes, wire # <<>>
    PROVE  /\ Head(wire) \in Messages /\ Tail(wire) \in Seq(Messages)
           /\ Head(wire).at \in Version /\ Head(wire).shape \in Shapes
<1>1. Head(wire) \in Messages /\ Tail(wire) \in Seq(Messages)
  BY DEF BackTypes
<1>2. Head(wire).at \in Version /\ Head(wire).shape \in Shapes
  BY <1>1 DEF Messages
<1>. QED  BY <1>1, <1>2

-----------------------------------------------------------------------------
(* Steps of update(). *)

\* WithState determines the schema to load within the window, and clears the
\* schema cache if it is invalidated.
WithStateFact(d) ==
    /\ columns' \in 0..MaxColumns /\ rows' \in 0..MaxRows
    /\ schemaCache' \in [ColumnIndex -> Version \cup {None}]
    /\ wanted' \in Wanteds
    /\ asked' \subseteq Rpcs
    /\ wanted'.schema \subseteq WindowColumns(d, columns')
    /\ "Schema" \in d.flags => \A c \in ColumnIndex : schemaCache'[c] = None

\* What WithState leads to.
LEMMA WithStateLemma ==
    ASSUME TypeOK, NEW d \in Descriptors, WithState(d)
    PROVE  WithStateFact(d) /\ step' = "schema" /\ LabelType'
<1>. USE TypeParts
<1>1. ClientTypes /\ CacheTypes /\ OtherTypes
  BY Zenon
<1>2. cachedState \in Shapes
  BY <1>1 DEF ClientTypes
<1>3. cachedState.columns \in 0..MaxColumns /\ cachedState.rows \in 0..MaxRows
  BY <1>2, ShapesAssumption
<1>4. hasRowLabels' \in BOOLEAN
  <2>1. cachedState.labels \in BOOLEAN
    BY <1>2, ShapesAssumption
  <2>. QED  BY <2>1, Zenon DEF WithState
<1>5. columns' = cachedState.columns /\ columns' \in 0..MaxColumns /\ rows' \in 0..MaxRows
  BY <1>3, BoundsAssumption DEF WithState
<1>6. schemaCache' \in [ColumnIndex -> Version \cup {None}]
  BY <1>1 DEF WithState, CacheTypes
<1>7. "Schema" \in d.flags => \A c \in ColumnIndex : schemaCache'[c] = None
  BY DEF WithState
<1>8. asked' \subseteq Rpcs
  BY <1>1 DEF WithState, OtherTypes, Rpcs
<1>9. PICK load : /\ load \subseteq WindowColumns(d, cachedState.columns)
                  /\ wanted' = [Nothing EXCEPT !.schema = load]
  BY DEF WithState, ToLoad
<1>10. wanted' \in Wanteds /\ wanted'.schema = load
  <2>1. load \subseteq ColumnIndex
    BY <1>3, <1>9, WindowFacts
  <2>. QED  BY <1>9, <2>1 DEF Nothing, Wanteds
<1>11. step' = "schema"
  BY DEF WithState
<1>. QED  BY <1>4, <1>5, <1>6, <1>7, <1>8, <1>9, <1>10, <1>11 DEF WithStateFact, LabelType

\* The beginning of an update.
BeginFact(d) ==
    /\ task' = d /\ trim' = None /\ lost' \subseteq {"Schema", "Data"}
    /\ columns' \in 0..MaxColumns /\ rows' \in 0..MaxRows
    /\ schemaCache' \in [ColumnIndex -> Version \cup {None}]
    /\ wanted' \in Wanteds
    /\ asked' \subseteq Rpcs
    /\ step' \in {"schema", "state", "failed"}
    /\ step' = "schema" => WithStateFact(d)

\* What Begin leads to, whether the state is known, awaited or refused.
LEMMA BeginLemma ==
    ASSUME TypeOK, NEW d \in Descriptors, Begin(d)
    PROVE  BeginFact(d) /\ LabelType'
<1>. USE TypeParts
<1>1. ClientTypes /\ CacheTypes /\ OtherTypes /\ LabelType /\ UpdateTypes
  BY Zenon
<1>2. task' = d /\ trim' = None /\ lost' \subseteq {"Schema", "Data"}
  BY <1>1, DescriptorFacts DEF Begin, UpdateTypes, Flags
<1>3. CASE statePromise = "none"
  <2>1. WithState(d)
    BY <1>3 DEF Begin
  <2>2. WithStateFact(d) /\ step' = "schema" /\ LabelType'
    BY <2>1, WithStateLemma
  <2>3. BeginFact(d)
    BY <1>2, <2>2 DEF BeginFact, WithStateFact
  <2>. QED  BY <2>2, <2>3
<1>4. CASE statePromise \in {"pending", "rejected"}
  <2>1. /\ step' \in {"state", "failed"}
        /\ UNCHANGED <<columns, rows, schemaCache, wanted, asked>>
    BY <1>4 DEF Begin
  <2>2. UNCHANGED hasRowLabels
    BY <1>4 DEF Begin
  <2>3. BeginFact(d)
    BY <1>1, <1>2, <2>1 DEF BeginFact, CacheTypes, UpdateTypes, OtherTypes
  <2>4. LabelType'
    BY <1>1, <2>2, Zenon DEF LabelType
  <2>. QED  BY <2>3, <2>4
<1>. QED  BY <1>1, <1>3, <1>4 DEF ClientTypes

\* An update that begins with nothing held is in order, whatever is cached.
LEMMA BegunIsOK ==
    ASSUME NEW d \in Descriptors, BeginFact(d), held'.rows = {}
    PROVE  UpdateOK'
<1>1. task' = d /\ d # None /\ trim' = None /\ step' \in {"schema", "state", "failed"}
  BY DescriptorFacts DEF BeginFact
<1>2. step' = "schema" => wanted'.schema \subseteq WindowColumns(d, columns')
  BY DEF BeginFact, WithStateFact
<1>3. step' = "schema" /\ "Schema" \in d.flags => \A c \in ColumnIndex : schemaCache'[c] = None
  BY DEF BeginFact, WithStateFact
<1>4. WantedIn'
  BY <1>1, <1>2 DEF WantedIn, WC
<1>5. ClearedIn'
  BY <1>1, <1>3 DEF ClearedIn, SchemaIn
<1>6. TrimNotDuringUpdate' /\ CacheBounded'
  BY <1>1 DEF TrimNotDuringUpdate, CacheBounded
<1>. QED  BY <1>1, <1>4, <1>5, <1>6 DEF UpdateOK

\* UpdateOK is about the update and the caches only.
UpdateKept ==
    UNCHANGED <<step, task, wanted, held, trim, columns, rows, schemaCache, labelCache, dataCache>>

\* A step that touches none of these variables keeps UpdateOK.
LEMMA UpdateFrame ==
    ASSUME UpdateOK, UpdateKept
    PROVE  UpdateOK'
BY DEF UpdateOK, UpdateKept, WantedIn, ClearedIn, TrimNotDuringUpdate, CacheBounded, SchemaIn, DataIn, WC, WR,
       WindowColumns, WindowRows, Window

-----------------------------------------------------------------------------
(* One lemma for each action. *)

\* Calls of update() keep the invariant: a call during an update changes only
\* the descriptor that waits.
LEMMA UpdateStep ==
    ASSUME Inv, NEW d \in Descriptors, Update(d),
           UNCHANGED <<backendVars, wire, labelCache, dataCache, held>>,
           ClientTypes', calls' \in 0..MaxCalls
    PROVE  Inv'
<1>. USE TypeParts
<1>1. BackTypes /\ ClientTypes /\ CacheTypes /\ OtherTypes /\ LabelType /\ UpdateTypes
  BY Zenon DEF Inv
<1>2. BackTypes'
  BY <1>1, TypesKept
<1>3. CASE step # "idle"
  <2>1. /\ KeepDescriptor(d)
        /\ UNCHANGED <<step, task, wanted, trim, asked, columns, rows, hasRowLabels, schemaCache>>
    BY <1>3 DEF Update
  <2>2. pending' = d /\ lost' \subseteq {"Schema", "Data"}
    <3>1. pending # None => pending.flags \in Flags
      BY <1>1, DescriptorFacts DEF UpdateTypes
    <3>. QED  BY <1>1, <2>1, <3>1 DEF KeepDescriptor, UpdateTypes, Flags
  <2>3. CacheTypes' /\ LabelType'
    BY <1>1, <2>1, TypesKept DEF cacheVars
  <2>4. UpdateTypes'
    BY <1>1, <2>1, <2>2 DEF UpdateTypes
  <2>5. OtherTypes'
    BY <1>1, <2>1 DEF OtherTypes
  <2>6. UpdateOK'
    BY <2>1, UpdateFrame DEF Inv, UpdateKept
  <2>. QED  BY <1>2, <2>3, <2>4, <2>5, <2>6, Zenon DEF Inv
<1>4. CASE step = "idle"
  <2>1. Begin(d) /\ UNCHANGED pending
    BY <1>4 DEF Update
  <2>2. BeginFact(d) /\ LabelType'
    BY <2>1, BeginLemma DEF Inv
  <2>3. CacheTypes'
    BY <1>1, <2>2 DEF CacheTypes, BeginFact
  <2>4. UpdateTypes'
    BY <1>1, <2>1, <2>2 DEF UpdateTypes, BeginFact
  <2>5. OtherTypes'
    BY <2>2 DEF OtherTypes, BeginFact
  <2>6. held'.rows = {}
    BY <1>4 DEF Inv, UpdateOK, WantedIn
  <2>7. UpdateOK'
    BY <2>2, <2>6, BegunIsOK
  <2>. QED  BY <1>2, <2>2, <2>3, <2>4, <2>5, <2>7, Zenon DEF Inv
<1>. QED  BY <1>3, <1>4

\* fetchData after a scroll.
LEMMA ScrollStep ==
    ASSUME Inv, NEW s \in Screens, Scroll(s)
    PROVE  Inv'
<1>. USE TypeParts
<1>1. ClientTypes /\ OtherTypes
  BY Zenon DEF Inv
<1>2. ClientTypes'
  BY <1>1, TypesKept DEF Scroll
<1>3. calls' \in 0..MaxCalls
  BY <1>1, BoundsAssumption DEF Scroll, OtherTypes
<1>4. [screen |-> s, flags |-> {}] \in Descriptors
  BY DEF Descriptors, Flags
<1>5. /\ Update([screen |-> s, flags |-> {}])
      /\ UNCHANGED <<backendVars, wire, labelCache, dataCache, held>>
  BY DEF Scroll
<1>. QED  BY <1>2, <1>3, <1>4, <1>5, UpdateStep

\* A handler that goes on has its part of ClientTypes.
LEMMA HandlerEndsTypes ==
    ASSUME ClientTypes, NEW h \in Handlers, HandlerEnds(h),
           layout' = layout \/ layout' = LayoutOf(h)
    PROVE  ClientTypes'
<1>1. due' \in [Handlers -> Nat]
  BY DEF ClientTypes, HandlerEnds
<1>2. layout' \in [columns : 0..MaxColumns, rows : 0..MaxRows]
  <2>1. h.shape # None => h.shape \in Shapes
    BY DEF Handlers
  <2>2. LayoutOf(h) \in [columns : 0..MaxColumns, rows : 0..MaxRows]
    <3>1. CASE h.shape = None
      BY <3>1 DEF LayoutOf, ClientTypes
    <3>2. CASE h.shape # None
      <4>1. h.shape.columns \in 0..MaxColumns /\ h.shape.rows \in 0..MaxRows
        BY <2>1, <3>2, ShapesAssumption
      <4>. QED  BY <3>2, <4>1 DEF LayoutOf
    <3>. QED  BY <3>1, <3>2
  <2>. QED  BY <2>2 DEF ClientTypes
<1>3. UNCHANGED clientVars
  BY DEF HandlerEnds
<1>. QED  BY <1>1, <1>2, <1>3 DEF ClientTypes, clientVars

\* fetchData after an event.
LEMMA FetchStep ==
    ASSUME Inv, NEW s \in Screens, NEW h \in Handlers, FetchAfterEvent(h, s)
    PROVE  Inv'
<1>. USE TypeParts
<1>1. ClientTypes /\ OtherTypes
  BY Zenon DEF Inv
<1>2. ClientTypes'
  BY <1>1, HandlerEndsTypes DEF FetchAfterEvent
<1>3. calls' \in 0..MaxCalls
  BY <1>1 DEF FetchAfterEvent, HandlerEnds, OtherTypes
<1>. DEFINE d == [screen |-> s, flags |-> h.flags]
<1>4. d \in Descriptors
  BY DEF Descriptors, Flags, Handlers
<1>5. Update(d) /\ UNCHANGED <<backendVars, wire, labelCache, dataCache, held>>
  BY DEF FetchAfterEvent, HandlerEnds
<1>. HIDE DEF d
<1>. QED  BY <1>2, <1>3, <1>4, <1>5, UpdateStep

\* What a handler that fetches nothing changes: its invalidation is lost.
Drops(h) ==
    /\ HandlerEnds(h)
    /\ layout' = layout \/ layout' = LayoutOf(h)
    /\ lost' = lost \cup h.flags
    /\ UNCHANGED <<asked, columns, rows, hasRowLabels, schemaCache, step, task, pending, wanted, trim>>

\* The two ways to fetch nothing.
LEMMA DropsFacts ==
    ASSUME NEW h \in Handlers, FetchNothing(h) \/ HandlerFails(h)
    PROVE  Drops(h)
BY DEF Drops, FetchNothing, HandlerFails

\* A handler that fetches nothing leaves the cache as it is.
LEMMA DropStep ==
    ASSUME Inv, NEW h \in Handlers, Drops(h)
    PROVE  Inv'
<1>. USE TypeParts
<1>1. BackTypes /\ ClientTypes /\ CacheTypes /\ OtherTypes /\ LabelType /\ UpdateTypes
  BY Zenon DEF Inv
<1>2. /\ UNCHANGED <<backendVars, wire, clientVars, labelCache, dataCache, held, calls>>
      /\ UNCHANGED <<asked, columns, rows, schemaCache, step, task, pending, wanted, trim>>
      /\ lost' = lost \cup h.flags
  BY DEF Drops, HandlerEnds
<1>3. BackTypes'
  BY <1>1, <1>2, TypesKept
<1>4. ClientTypes'
  BY <1>1, HandlerEndsTypes DEF Drops
<1>5. CacheTypes'
  BY <1>1, <1>2 DEF CacheTypes
<1>6. LabelType'
  <2>1. UNCHANGED hasRowLabels
    BY DEF Drops
  <2>. QED  BY <1>1, <2>1, Zenon DEF LabelType
<1>7. UpdateTypes'
  <2>1. h.flags \subseteq {"Schema", "Data"}
    BY DEF Handlers
  <2>. QED  BY <1>1, <1>2, <2>1 DEF UpdateTypes
<1>8. OtherTypes'
  BY <1>1, <1>2 DEF OtherTypes
<1>9. UpdateOK'
  BY <1>2, UpdateFrame DEF Inv, UpdateKept
<1>. QED  BY <1>3, <1>4, <1>5, <1>6, <1>7, <1>8, <1>9, Zenon DEF Inv

\* The table, the connection and the client leave the cache alone.
LEMMA OutsideStep ==
    ASSUME Inv, UNCHANGED <<cacheVars, updateVars>>, BackTypes', ClientTypes', OtherTypes'
    PROVE  Inv'
<1>. USE TypeParts
<1>1. CacheTypes /\ LabelType /\ UpdateTypes /\ UpdateOK
  BY Zenon DEF Inv
<1>2. CacheTypes' /\ LabelType' /\ UpdateTypes'
  BY <1>1, TypesKept
<1>3. UpdateOK'
  BY <1>1, UpdateFrame DEF UpdateKept, cacheVars, updateVars
<1>. QED  BY <1>2, <1>3, Zenon DEF Inv

\* Changes of the table, replies, and what the client does with messages.
LEMMA OutsideActions ==
    ASSUME Inv,
           \/ \E sh \in Shapes : DataChange(sh) \/ SchemaChange(sh)
           \/ \E k \in Rpcs : Reply(k)
           \/ Notified \/ StateArrives \/ StateFails \/ Sort
    PROVE  Inv'
<1>. USE TypeParts
<1>1. BackTypes /\ ClientTypes /\ OtherTypes
  BY Zenon DEF Inv
<1>2. ASSUME NEW sh \in Shapes, DataChange(sh) PROVE Inv'
  <2>1. dataVersion' \in Version
    BY <1>1, <1>2, BoundsAssumption DEF DataChange, BackTypes, Version
  <2>2. [kind |-> "dataUpdate", at |-> dataVersion', shape |-> sh] \in Messages
    BY <2>1 DEF Messages
  <2>3. BackTypes'
    BY <1>1, <1>2, <2>1, <2>2 DEF DataChange, BackTypes
  <2>4. ClientTypes' /\ OtherTypes'
    BY <1>1, <1>2, TypesKept DEF DataChange, OtherTypes
  <2>. QED  BY <1>2, <2>3, <2>4, OutsideStep DEF DataChange
<1>3. ASSUME NEW sh \in Shapes, SchemaChange(sh) PROVE Inv'
  <2>1. dataVersion' \in Version /\ schemaVersion' \in Version
    BY <1>1, <1>3, BoundsAssumption DEF SchemaChange, BackTypes, Version
  <2>2. [kind |-> "schemaUpdate", at |-> schemaVersion', shape |-> sh] \in Messages
    BY <2>1 DEF Messages
  <2>3. BackTypes'
    BY <1>1, <1>3, <2>1, <2>2 DEF SchemaChange, BackTypes
  <2>4. ClientTypes' /\ OtherTypes'
    BY <1>1, <1>3, TypesKept DEF SchemaChange, OtherTypes
  <2>. QED  BY <1>3, <2>3, <2>4, OutsideStep DEF SchemaChange
<1>4. ASSUME NEW k \in Rpcs, Reply(k) PROVE Inv'
  <2>1. Message(k) \in Messages
    BY <1>1 DEF Message, Messages, BackTypes
  <2>2. BackTypes'
    BY <1>1, <1>4, <2>1 DEF Reply, BackTypes, backendVars
  <2>3. ClientTypes' /\ OtherTypes'
    BY <1>1, <1>4, TypesKept DEF Reply, OtherTypes
  <2>. QED  BY <1>4, <2>2, <2>3, OutsideStep DEF Reply
<1>5. CASE Notified
  <2>1. wire # <<>> /\ wire' = Tail(wire) /\ UNCHANGED <<backendVars, cacheVars, updateVars>>
    BY <1>5 DEF Notified, Arrives
  <2>2. BackTypes'
    BY <1>1, <2>1, WireFacts DEF BackTypes, backendVars
  <2>3. waiting' \subseteq {"dataUpdate", "schemaUpdate"}
    BY <1>1, <1>5 DEF Notified, ClientTypes
  <2>4. ClientTypes'
    BY <1>1, <1>5, <2>3 DEF Notified, UpdateBackendState, ClientTypes, gridVars
  <2>5. OtherTypes'
    BY <1>1, <1>5 DEF Notified, UpdateBackendState, OtherTypes, Rpcs
  <2>. QED  BY <2>1, <2>2, <2>4, <2>5, OutsideStep
<1>6. CASE StateArrives
  <2>1. wire # <<>> /\ wire' = Tail(wire) /\ UNCHANGED <<backendVars, cacheVars, updateVars>>
    BY <1>6 DEF StateArrives, Arrives
  <2>2. BackTypes'
    BY <1>1, <2>1, WireFacts DEF BackTypes, backendVars
  <2>3. due' \in [Handlers -> Nat] /\ UNCHANGED layout
    BY <1>1, <1>6 DEF StateArrives, ClientTypes
  <2>4. cachedState' \in Shapes
    BY <1>1, <1>6, <2>1, WireFacts DEF StateArrives
  <2>5. ClientTypes'
    BY <1>1, <1>6, <2>3, <2>4 DEF StateArrives, ClientTypes
  <2>6. OtherTypes'
    BY <1>1, <1>6 DEF StateArrives, OtherTypes
  <2>. QED  BY <2>1, <2>2, <2>5, <2>6, OutsideStep
<1>7. CASE StateFails
  <2>1. BackTypes'
    BY <1>1, <1>7, TypesKept DEF StateFails
  <2>2. ClientTypes'
    BY <1>1, <1>7 DEF StateFails, ClientTypes, gridVars
  <2>3. OtherTypes'
    BY <1>1, <1>7 DEF StateFails, OtherTypes
  <2>. QED  BY <1>7, <2>1, <2>2, <2>3, OutsideStep DEF StateFails
<1>8. CASE Sort
  <2>1. BackTypes'
    BY <1>1, <1>8, BoundsAssumption DEF Sort, BackTypes, Version
  <2>2. due' \in [Handlers -> Nat]
    <3>. DEFINE sort == [flags |-> {"Data"}, shape |-> None]
    <3>1. sort \in Handlers
      BY DEF Handlers
    <3>2. due \in [Handlers -> Nat] /\ due' = [due EXCEPT ![sort] = @ + 1]
      BY <1>1, <1>8 DEF Sort, ClientTypes
    <3>. HIDE DEF sort
    <3>. QED  BY <3>1, <3>2
  <2>3. ClientTypes'
    BY <1>1, <1>8, <2>2 DEF Sort, ClientTypes, clientVars
  <2>4. OtherTypes'
    BY <1>1, <1>8 DEF Sort, OtherTypes
  <2>. QED  BY <1>8, <2>1, <2>3, <2>4, OutsideStep DEF Sort
<1>. QED  BY <1>2, <1>3, <1>4, <1>5, <1>6, <1>7, <1>8

\* The update in progress has a descriptor.
LEMMA TaskFacts ==
    ASSUME Inv, step # "idle"
    PROVE  task \in Descriptors /\ task # None /\ task.flags \in Flags /\ trim = None
<1>1. UpdateTypes
  BY TypeParts, Zenon DEF Inv
<1>2. task \in Descriptors /\ trim = None
  BY <1>1 DEF Inv, UpdateOK, UpdateTypes, TrimNotDuringUpdate
<1>. QED  BY <1>2, DescriptorFacts

\* The awaited state is there, or was refused.
LEMMA StateLoadedStep ==
    ASSUME Inv, StateLoaded
    PROVE  Inv'
<1>. USE TypeParts
<1>1. BackTypes /\ ClientTypes /\ CacheTypes /\ OtherTypes /\ LabelType /\ UpdateTypes
  BY Zenon DEF Inv
<1>2. task \in Descriptors /\ trim = None
  BY TaskFacts DEF StateLoaded
<1>3. BackTypes' /\ ClientTypes'
  BY <1>1, TypesKept DEF StateLoaded
<1>4. UNCHANGED <<labelCache, dataCache, task, pending, held, trim, lost, calls>> /\ held.rows = {}
  BY DEF StateLoaded, Inv, UpdateOK, WantedIn
<1>5. BeginFact(task) /\ LabelType'
  <2>1. CASE statePromise = "none" /\ WithState(task)
    <3>1. WithStateFact(task) /\ step' = "schema" /\ LabelType'
      BY <1>2, <2>1, WithStateLemma DEF Inv
    <3>2. BeginFact(task)
      BY <1>1, <1>2, <1>4, <3>1 DEF BeginFact, WithStateFact, UpdateTypes
    <3>. QED  BY <3>1, <3>2
  <2>2. CASE step' = "failed" /\ UNCHANGED <<columns, rows, hasRowLabels, schemaCache, wanted, asked>>
    <3>1. LabelType'
      BY <1>1, <2>2, Zenon DEF LabelType
    <3>2. BeginFact(task)
      BY <1>1, <1>2, <1>4, <2>2 DEF BeginFact, UpdateTypes, CacheTypes, OtherTypes
    <3>. QED  BY <3>1, <3>2
  <2>. QED  BY <2>1, <2>2 DEF StateLoaded
<1>6. CacheTypes'
  BY <1>1, <1>4, <1>5 DEF CacheTypes, BeginFact
<1>7. UpdateTypes'
  BY <1>1, <1>4, <1>5 DEF UpdateTypes, BeginFact
<1>8. OtherTypes'
  BY <1>1, <1>4, <1>5 DEF OtherTypes, BeginFact
<1>9. UpdateOK'
  BY <1>2, <1>4, <1>5, BegunIsOK
<1>. QED  BY <1>3, <1>5, <1>6, <1>7, <1>8, <1>9, Zenon DEF Inv

\* ClearData empties the data caches if they are invalidated.
LEMMA ClearDataLemma ==
    ASSUME CacheTypes, NEW d, ClearData(d)
    PROVE  /\ labelCache' \in [RowIndex -> Version \cup {None}]
           /\ dataCache' \in [Cells -> Version \cup {None}]
           /\ "Data" \in d.flags => /\ \A r \in RowIndex : labelCache'[r] = None
                                    /\ \A x \in Cells : dataCache'[x] = None
BY DEF ClearData, CacheTypes

\* What SchemaLoaded and LabelsLoaded leave: the cells and labels wanted lie in
\* the window, and once the step is "values" the data caches are cleared.
LEMMA LoadingIsOK ==
    ASSUME Inv, step # "idle", UNCHANGED <<task, columns, rows, trim>>,
           step' \in {"labels", "values"},
           wanted'.labels \subseteq WR, wanted'.cells \subseteq WC \X WR,
           step' = "values" => held'.rows \subseteq WR,
           step' = "labels" => held'.rows = {},
           "Schema" \in task.flags => SchemaIn',
           step' = "values" /\ "Data" \in task.flags =>
               /\ \A r \in RowIndex : labelCache'[r] = None
               /\ \A x \in Cells : dataCache'[x] = None
    PROVE  UpdateOK'
<1>1. task # None /\ trim = None /\ WC' = WC /\ WR' = WR
  BY TaskFacts DEF WC, WR, WindowColumns, WindowRows, Window
<1>2. WantedIn'
  BY <1>1 DEF WantedIn
<1>3. step' = "values" /\ "Data" \in task.flags => DataIn'
  BY DEF DataIn
<1>4. ClearedIn'
  BY <1>3 DEF ClearedIn
<1>5. TrimNotDuringUpdate' /\ CacheBounded'
  BY <1>1 DEF TrimNotDuringUpdate, CacheBounded
<1>. QED  BY <1>1, <1>2, <1>4, <1>5 DEF UpdateOK

\* The schema is there.
LEMMA SchemaLoadedStep ==
    ASSUME Inv, SchemaLoaded
    PROVE  Inv'
<1>. USE TypeParts
<1>1. BackTypes /\ ClientTypes /\ CacheTypes /\ OtherTypes /\ LabelType /\ UpdateTypes
  BY Zenon DEF Inv
<1>2. step = "schema" /\ UNCHANGED <<backendVars, clientVars, gridVars, columns, rows, task, pending, held, trim, lost, calls>>
  BY DEF SchemaLoaded
<1>3. LabelType'
  <2>1. UNCHANGED hasRowLabels
    BY DEF SchemaLoaded
  <2>. QED  BY <1>1, <2>1, Zenon DEF LabelType
<1>4. ClientTypes'
  BY <1>1, <1>2, TypesKept
<1>. DEFINE got == IF wanted.schema = {} THEN {}
                   ELSE {c \in wanted.schema : c < Head(wire).shape.columns}
            cells == WindowColumns(task, columns) \X WindowRows(task, rows)
            loadCells == ToLoad(task, "Data", cells, {x \in Cells : dataCache[x] # None})
            loadLabels == ToLoad(task, "Data", WindowRows(task, rows),
                                 {r \in RowIndex : labelCache[r] # None})
<1>5. /\ wire' = wire \/ (wire # <<>> /\ wire' = Tail(wire))
      /\ wanted.schema # {} => wire # <<>>
  BY DEF SchemaLoaded, Arrives
<1>6. BackTypes'
  BY <1>1, <1>2, <1>5, WireFacts DEF BackTypes, backendVars
<1>7. got \subseteq wanted.schema /\ (got # {} => Head(wire).at \in Version)
  BY <1>1, <1>5, WireFacts
<1>8. schemaCache' = [c \in ColumnIndex |-> IF c \in got THEN Head(wire).at ELSE schemaCache[c]]
  BY DEF SchemaLoaded
<1>9. wanted' = [schema |-> {}, columns |-> Selected(task), cells |-> loadCells, labels |-> loadLabels]
  BY DEF SchemaLoaded
<1>10. /\ step' \in {"labels", "values"} /\ asked' \subseteq Rpcs
       /\ \/ UNCHANGED <<labelCache, dataCache>> /\ step' = "labels"
          \/ ClearData(task)
  BY <1>1 DEF SchemaLoaded, AskValues, Rpcs, OtherTypes
<1>11. loadCells \subseteq WC \X WR /\ loadLabels \subseteq WR
  BY DEF ToLoad, WC, WR
<1>12. WC \subseteq ColumnIndex /\ WR \subseteq RowIndex
  BY <1>1, WindowInTable
<1>13. Selected(task) \subseteq ColumnIndex
  BY <1>1, WindowInTable
<1>14. "Schema" \in task.flags => SchemaIn'
  <2>1. wanted.schema \subseteq WC /\ WC' = WC /\ task # None
    BY <1>2, TaskFacts DEF Inv, UpdateOK, WantedIn, WC, WindowColumns, Window
  <2>2. "Schema" \in task.flags => SchemaIn
    BY <1>2, <2>1 DEF Inv, UpdateOK, ClearedIn
  <2>. HIDE DEF got
  <2>. QED  BY <1>7, <1>8, <2>1, <2>2 DEF SchemaIn
<1>. HIDE DEF got, cells, loadCells, loadLabels
<1>15. WC \X WR \subseteq Cells
  BY <1>12 DEF Cells
<1>16. /\ wanted'.labels = loadLabels /\ wanted'.cells = loadCells
       /\ wanted' \in Wanteds
  BY <1>9, <1>11, <1>12, <1>13, <1>15 DEF Wanteds
<1>17. schemaCache' \in [ColumnIndex -> Version \cup {None}]
  BY <1>1, <1>7, <1>8 DEF CacheTypes
<1>18. /\ labelCache' \in [RowIndex -> Version \cup {None}]
       /\ dataCache' \in [Cells -> Version \cup {None}]
       /\ step' = "values" /\ "Data" \in task.flags =>
               /\ \A r \in RowIndex : labelCache'[r] = None
               /\ \A x \in Cells : dataCache'[x] = None
  BY <1>1, <1>10, ClearDataLemma DEF CacheTypes
<1>19. CacheTypes'
  BY <1>1, <1>2, <1>17, <1>18 DEF CacheTypes
<1>20. UpdateTypes'
  BY <1>1, <1>2, <1>10, <1>16 DEF UpdateTypes
<1>21. OtherTypes'
  BY <1>1, <1>2, <1>10 DEF OtherTypes
<1>22. held'.rows = {}
  BY <1>2 DEF Inv, UpdateOK, WantedIn
<1>23. UpdateOK'
  BY <1>2, <1>10, <1>11, <1>14, <1>16, <1>18, <1>22, LoadingIsOK
<1>. QED  BY <1>3, <1>4, <1>6, <1>19, <1>20, <1>21, <1>23, Zenon DEF Inv

\* The row labels are there.
LEMMA LabelsLoadedStep ==
    ASSUME Inv, LabelsLoaded
    PROVE  Inv'
<1>. USE TypeParts
<1>1. BackTypes /\ ClientTypes /\ CacheTypes /\ OtherTypes /\ LabelType /\ UpdateTypes
  BY Zenon DEF Inv
<1>2. step = "labels" /\ UNCHANGED <<backendVars, clientVars, gridVars, columns, rows, schemaCache, task, pending,
                                     wanted, trim, lost, calls>>
  BY DEF LabelsLoaded
<1>3. LabelType'
  <2>1. UNCHANGED hasRowLabels
    BY DEF LabelsLoaded
  <2>. QED  BY <1>1, <2>1, Zenon DEF LabelType
<1>4. ClientTypes'
  BY <1>1, <1>2, TypesKept
<1>5. wire # <<>> /\ wire' = Tail(wire)
  BY DEF LabelsLoaded, Arrives
<1>6. BackTypes'
  BY <1>1, <1>2, <1>5, WireFacts DEF BackTypes, backendVars
<1>7. step' = "values" /\ asked' \subseteq Rpcs
  BY <1>1 DEF LabelsLoaded, AskValues, OtherTypes, Rpcs
<1>8. ClearData(task)
  BY DEF LabelsLoaded
<1>9. wanted.labels \subseteq WR /\ wanted.cells \subseteq WC \X WR
  BY <1>2 DEF Inv, UpdateOK, WantedIn
<1>10. WR \subseteq RowIndex
  BY <1>1, WindowInTable
<1>11. held'.rows \subseteq WR /\ held' \in Holdings
  <2>1. held' = [rows |-> {r \in wanted.labels : r < Head(wire).shape.rows}, at |-> Head(wire).at]
    BY DEF LabelsLoaded
  <2>. QED  BY <1>1, <1>5, <1>9, <1>10, <2>1, WireFacts DEF Holdings
<1>12. /\ labelCache' \in [RowIndex -> Version \cup {None}]
       /\ dataCache' \in [Cells -> Version \cup {None}]
       /\ "Data" \in task.flags => /\ \A r \in RowIndex : labelCache'[r] = None
                                   /\ \A x \in Cells : dataCache'[x] = None
  BY <1>1, <1>8, ClearDataLemma
<1>13. CacheTypes'
  BY <1>1, <1>2, <1>12 DEF CacheTypes
<1>14. UpdateTypes'
  BY <1>1, <1>2, <1>7, <1>11 DEF UpdateTypes
<1>15. OtherTypes'
  BY <1>1, <1>2, <1>7 DEF OtherTypes
<1>16. "Schema" \in task.flags => SchemaIn'
  <2>1. task # None /\ WC' = WC
    BY <1>2, TaskFacts DEF WC, WindowColumns, Window
  <2>2. "Schema" \in task.flags => SchemaIn
    BY <1>2, <2>1 DEF Inv, UpdateOK, ClearedIn
  <2>. QED  BY <1>2, <2>1, <2>2 DEF SchemaIn
<1>17. UpdateOK'
  BY <1>2, <1>7, <1>9, <1>11, <1>12, <1>16, LoadingIsOK
<1>. QED  BY <1>3, <1>4, <1>6, <1>13, <1>14, <1>15, <1>17, Zenon DEF Inv

\* The values are there, and the next descriptor is taken up or the timer set.
LEMMA ValuesLoadedStep ==
    ASSUME Inv, ValuesLoaded
    PROVE  Inv'
<1>. USE TypeParts
<1>1. BackTypes /\ ClientTypes /\ CacheTypes /\ OtherTypes /\ LabelType /\ UpdateTypes
  BY Zenon DEF Inv
<1>2. step = "values" /\ Finish /\ UNCHANGED <<backendVars, clientVars, gridVars, calls>>
      /\ held' = [rows |-> {}, at |-> 0]
  BY DEF ValuesLoaded
<1>3. ClientTypes'
  BY <1>1, <1>2, TypesKept
<1>4. /\ wire' = wire \/ (wire # <<>> /\ wire' = Tail(wire))
      /\ wanted.columns # {} => wire # <<>>
  BY DEF ValuesLoaded, Arrives
<1>5. BackTypes'
  BY <1>1, <1>2, <1>4, WireFacts DEF BackTypes, backendVars
<1>. DEFINE got == IF wanted.columns = {} THEN {}
                   ELSE {x \in wanted.cells : /\ x[1] < Head(wire).shape.columns
                                              /\ x[2] < Head(wire).shape.rows}
<1>6. got \subseteq wanted.cells /\ (got # {} => Head(wire).at \in Version)
  BY <1>1, <1>4, WireFacts
<1>7. /\ dataCache' = [x \in Cells |-> IF x \in got THEN Head(wire).at ELSE dataCache[x]]
      /\ labelCache' = [r \in RowIndex |-> IF r \in held.rows THEN held.at ELSE labelCache[r]]
  BY DEF ValuesLoaded
<1>. HIDE DEF got
<1>8. /\ labelCache' \in [RowIndex -> Version \cup {None}]
      /\ dataCache' \in [Cells -> Version \cup {None}]
  BY <1>1, <1>6, <1>7 DEF CacheTypes, UpdateTypes, Holdings
<1>9. 0 \in Version
  BY BoundsAssumption DEF Version
<1>10. held' \in Holdings /\ held'.rows = {}
  BY <1>2, <1>9 DEF Holdings
<1>11. task \in Descriptors /\ task # None /\ task.flags \in Flags /\ trim = None
  BY <1>2, TaskFacts
<1>12. CASE pending # None
  <2>1. Begin(pending) /\ pending' = None /\ pending \in Descriptors
    BY <1>1, <1>2, <1>12 DEF Finish, UpdateTypes
  <2>2. BeginFact(pending) /\ LabelType'
    BY <2>1, BeginLemma DEF Inv
  <2>3. CacheTypes'
    BY <1>8, <2>2 DEF CacheTypes, BeginFact
  <2>4. UpdateTypes'
    BY <1>1, <1>10, <2>1, <2>2 DEF UpdateTypes, BeginFact
  <2>5. OtherTypes'
    BY <1>1, <1>2, <2>2 DEF OtherTypes, BeginFact
  <2>6. UpdateOK'
    BY <1>10, <2>1, <2>2, BegunIsOK
  <2>. QED  BY <1>3, <1>5, <2>2, <2>3, <2>4, <2>5, <2>6, Zenon DEF Inv
<1>13. CASE pending = None
  <2>1. /\ step' = "idle"
        /\ trim' = IF task.flags # {"Schema", "Data"} THEN task ELSE None
        /\ wanted' = Nothing
        /\ UNCHANGED <<task, pending, lost, asked, columns, rows, schemaCache>>
    BY <1>2, <1>13 DEF Finish
  <2>2. UNCHANGED hasRowLabels
    BY <1>2, <1>13 DEF Finish
  <2>3. LabelType'
    BY <1>1, <2>2, Zenon DEF LabelType
  <2>4. CacheTypes'
    BY <1>1, <1>8, <2>1 DEF CacheTypes
  <2>5. Nothing \in Wanteds
    BY DEF Nothing, Wanteds
  <2>6. UpdateTypes'
    BY <1>1, <1>10, <1>11, <2>1, <2>5 DEF UpdateTypes
  <2>7. OtherTypes'
    BY <1>1, <1>2, <2>1 DEF OtherTypes
  <2>8. WC' = WC /\ WR' = WR
    BY <2>1 DEF WC, WR, WindowColumns, WindowRows, Window
  <2>9. "Schema" \in task.flags => SchemaIn'
    BY <1>2, <1>11, <2>1, <2>8 DEF Inv, UpdateOK, ClearedIn, SchemaIn
  <2>10. "Data" \in task.flags => DataIn'
    <3>1. wanted.cells \subseteq WC \X WR /\ held.rows \subseteq WR
      BY <1>2 DEF Inv, UpdateOK, WantedIn
    <3>2. "Data" \in task.flags => DataIn
      BY <1>2, <1>11 DEF Inv, UpdateOK, ClearedIn
    <3>. QED  BY <1>6, <1>7, <2>8, <3>1, <3>2 DEF DataIn
  <2>11. WantedIn' /\ ClearedIn' /\ TrimNotDuringUpdate'
    BY <1>10, <2>1, <2>9, <2>10 DEF WantedIn, ClearedIn, TrimNotDuringUpdate
  <2>12. trim' = None => task.flags = {"Schema", "Data"}
    BY <1>11, <2>1
  <2>13. CacheBounded'
    BY <2>9, <2>10, <2>12, <2>1 DEF CacheBounded, SchemaIn, DataIn, WC, WR
  <2>14. UpdateOK'
    BY <2>1, <2>11, <2>13 DEF UpdateOK
  <2>. QED  BY <1>3, <1>5, <2>3, <2>4, <2>6, <2>7, <2>14, Zenon DEF Inv
<1>. QED  BY <1>12, <1>13

\* An RPC of the update fails.
LEMMA UpdateFailsStep ==
    ASSUME Inv, UpdateFails
    PROVE  Inv'
<1>. USE TypeParts
<1>1. BackTypes /\ ClientTypes /\ CacheTypes /\ OtherTypes /\ LabelType /\ UpdateTypes
  BY Zenon DEF Inv
<1>2. BackTypes' /\ ClientTypes' /\ CacheTypes' /\ LabelType'
  BY <1>1, TypesKept DEF UpdateFails
<1>3. step # "idle" /\ step' = "failed" /\ UNCHANGED <<task, trim>>
  BY <1>1 DEF UpdateFails, OtherTypes, Rpcs
<1>4. UpdateTypes'
  BY <1>1 DEF UpdateFails, UpdateTypes
<1>5. OtherTypes'
  BY <1>1 DEF UpdateFails, OtherTypes
<1>6. task # None /\ trim = None
  BY <1>3, TaskFacts
<1>7. UpdateOK'
  BY <1>3, <1>6 DEF UpdateOK, WantedIn, ClearedIn, TrimNotDuringUpdate, CacheBounded
<1>. QED  BY <1>2, <1>4, <1>5, <1>7, Zenon DEF Inv

\* The trim timer fires between updates, with the descriptor of the last one.
LEMMA TrimCacheStep ==
    ASSUME Inv, TrimCache
    PROVE  Inv'
<1>. USE TypeParts
<1>1. BackTypes /\ ClientTypes /\ CacheTypes /\ OtherTypes /\ LabelType /\ UpdateTypes
  BY Zenon DEF Inv
<1>2. trim # None /\ trim' = None
      /\ UNCHANGED <<backendVars, wire, asked, clientVars, gridVars, columns, rows, step, task, pending, wanted, held, lost, calls>>
  BY DEF TrimCache
<1>3. LabelType'
  <2>1. UNCHANGED hasRowLabels
    BY DEF TrimCache
  <2>. QED  BY <1>1, <2>1, Zenon DEF LabelType
<1>4. BackTypes' /\ ClientTypes'
  BY <1>1, <1>2, TypesKept
<1>5. step = "idle" /\ trim = task
  BY <1>2 DEF Inv, UpdateOK, TrimNotDuringUpdate
<1>6. /\ schemaCache' = [c \in ColumnIndex |->
              IF "Schema" \in task.flags \/ c \in WC THEN schemaCache[c] ELSE None]
      /\ labelCache' = [r \in RowIndex |->
              IF "Data" \in task.flags \/ r \in WR THEN labelCache[r] ELSE None]
      /\ dataCache' = [x \in Cells |->
              IF "Data" \in task.flags \/ (x[1] \in WC /\ x[2] \in WR)
              THEN dataCache[x] ELSE None]
  BY <1>5 DEF TrimCache, Kept, WC, WR
<1>7. CacheTypes'
  BY <1>1, <1>2, <1>6 DEF CacheTypes
<1>8. UpdateTypes'
  BY <1>1, <1>2 DEF UpdateTypes
<1>9. OtherTypes'
  BY <1>1, <1>2 DEF OtherTypes
<1>10. WC' = WC /\ WR' = WR
  BY <1>2 DEF WC, WR, WindowColumns, WindowRows, Window
<1>11. SchemaIn'
  <2>1. "Schema" \in task.flags => SchemaIn
    BY <1>2, <1>5 DEF Inv, UpdateOK, ClearedIn
  <2>. QED  BY <1>6, <1>10, <2>1 DEF SchemaIn
<1>12. DataIn'
  <2>1. "Data" \in task.flags => DataIn
    BY <1>2, <1>5 DEF Inv, UpdateOK, ClearedIn
  <2>. QED  BY <1>6, <1>10, <2>1 DEF DataIn
<1>13. WantedIn'
  BY <1>2, <1>5 DEF Inv, UpdateOK, WantedIn
<1>14. ClearedIn' /\ TrimNotDuringUpdate'
  BY <1>2, <1>11, <1>12 DEF ClearedIn, TrimNotDuringUpdate
<1>15. CacheBounded'
  BY <1>11, <1>12 DEF CacheBounded, SchemaIn, DataIn, WC, WR
<1>16. UpdateOK'
  BY <1>2, <1>5, <1>13, <1>14, <1>15 DEF UpdateOK
<1>. QED  BY <1>3, <1>4, <1>7, <1>8, <1>9, <1>16, Zenon DEF Inv

-----------------------------------------------------------------------------
(* Theorems. *)

\* The invariant holds of an empty cache.
LEMMA InitInv ==
    ASSUME Init
    PROVE  Inv
<1>. USE TypeParts
<1>1. 0 \in Version
  BY BoundsAssumption DEF Version
<1>2. BackTypes
  BY <1>1 DEF Init, BackTypes
<1>3. ClientTypes
  BY BoundsAssumption DEF Init, ClientTypes
<1>4. CacheTypes
  BY BoundsAssumption DEF Init, CacheTypes
<1>5. UpdateTypes
  BY <1>1 DEF Init, UpdateTypes, Nothing, Wanteds, Holdings, Flags
<1>6. OtherTypes
  BY BoundsAssumption DEF Init, OtherTypes
<1>7. LabelType
  BY Zenon DEF Init, LabelType
<1>8. UpdateOK
  BY DEF Init, UpdateOK, WantedIn, ClearedIn, TrimNotDuringUpdate, CacheBounded
<1>. QED  BY <1>2, <1>3, <1>4, <1>5, <1>6, <1>7, <1>8, Zenon DEF Inv

\* Every step keeps the invariant.
LEMMA NextInv ==
    ASSUME Inv, [Next]_vars
    PROVE  Inv'
<1>1. CASE Next
  BY <1>1, OutsideActions, ScrollStep, FetchStep, DropsFacts, DropStep, StateLoadedStep, SchemaLoadedStep,
     LabelsLoadedStep, ValuesLoadedStep, UpdateFailsStep, TrimCacheStep, Zenon DEF Next, Continue
<1>2. CASE UNCHANGED vars
  <2>1. BackTypes /\ ClientTypes /\ OtherTypes
    BY TypeParts, Zenon DEF Inv
  <2>2. BackTypes' /\ ClientTypes'
    BY <1>2, <2>1, TypesKept DEF vars
  <2>3. OtherTypes'
    BY <1>2, <2>1 DEF vars, OtherTypes
  <2>. QED  BY <1>2, <2>2, <2>3, OutsideStep DEF vars
<1>. QED  BY <1>1, <1>2

\* The inductive invariant holds always.
THEOREM Invariance == Spec => []Inv
<1>1. Init => Inv
  BY InitInv
<1>2. Inv /\ [Next]_vars => Inv'
  BY NextInv
<1>. QED  BY <1>1, <1>2, PTL DEF Spec

\* Type correctness of the cache, the client and the connection.
THEOREM TypeCorrect == Spec => []TypeOK
<1>1. Inv => TypeOK
  BY Zenon DEF Inv
<1>. QED  BY <1>1, Invariance, PTL

\* A trim timer never runs during an update, and has the last descriptor.
THEOREM TrimTimerIsLast == Spec => []TrimNotDuringUpdate
<1>1. Inv => TrimNotDuringUpdate
  BY DEF Inv, UpdateOK
<1>. QED  BY <1>1, Invariance, PTL

\* Between updates, once trimmed, the cache stays within the window: its size
\* is bounded by the screen and the overscan, whatever was scrolled through.
THEOREM CacheStaysBounded == Spec => []CacheBounded
<1>1. Inv => CacheBounded
  BY DEF Inv, UpdateOK
<1>. QED  BY <1>1, Invariance, PTL

-----------------------------------------------------------------------------
(* Freshness: the invariant behind ScreenIsCurrent.  Whatever is stale has   *)
(* someone who still owes its reload: an event on the wire, a request for    *)
(* the state, a handler that will fetch, a descriptor that waits, or an      *)
(* invalidation that did not take place.                                     *)

Events == {"dataUpdate", "schemaUpdate"}
EventOnWire == \E i \in DOMAIN wire : wire[i].kind \in Events

\* An invalidation that waits, did not take place, or has failed.
Owed(flag) ==
    \/ pending # None /\ flag \in pending.flags
    \/ flag \in lost
    \/ step = "failed"

HandlerDue == \E h \in Handlers : due[h] > 0
SchemaHandlerDue == \E h \in Handlers : due[h] > 0 /\ "Schema" \in h.flags
DataDue == HandlerDue \/ Owed("Data")
DataOwed == EventOnWire \/ statePromise # "none" \/ DataDue
SchemaOwed ==
    \/ \E i \in DOMAIN wire : wire[i].kind = "schemaUpdate"
    \/ "schemaUpdate" \in waiting \/ statePromise = "rejected"
    \/ SchemaHandlerDue \/ Owed("Schema")

\* The update in progress invalidates, and has not cleared the cache yet.
DataBegun == task # None /\ "Data" \in task.flags /\ step \in {"state", "schema", "labels"}
SchemaBegun == task # None /\ "Schema" \in task.flags /\ step = "state"

\* A message with an old size of the table is followed by an event, and at
\* most one answer to each kind of request is under way.
OrderOK ==
    /\ \A i \in DOMAIN wire : wire[i].shape # shape =>
          \E j \in DOMAIN wire : j > i /\ wire[j].kind \in Events
    /\ \A i, j \in DOMAIN wire : wire[i].kind \in Rpcs /\ wire[i].kind = wire[j].kind => i = j
    /\ \A i \in DOMAIN wire : wire[i].kind \notin asked

\* An answer is current, or its reload is owed.
RepliesOK ==
    /\ \A i \in DOMAIN wire : wire[i].kind \in {"labels", "values"} => wire[i].at = dataVersion \/ DataOwed
    /\ \A i \in DOMAIN wire : wire[i].kind = "schema" => wire[i].at = schemaVersion \/ SchemaOwed

\* Someone waits for an answer of this kind.
Expected(k) ==
    /\ k = "state" => statePromise = "pending"
    /\ k = "schema" => step = "schema" /\ wanted.schema # {}
    /\ k = "labels" => step = "labels"
    /\ k = "values" => step = "values" /\ wanted.columns # {}

WireExpected == \A i \in DOMAIN wire : Expected(wire[i].kind)

ControlOK ==
    /\ step = "idle" => pending = None
    /\ waiting # {} => statePromise = "pending"
    /\ \A k \in asked : Expected(k)
    /\ WireExpected

ShapeOK ==
    /\ cachedState # shape => EventOnWire \/ statePromise # "none"
    /\ task # None => \/ columns = cachedState.columns /\ rows = cachedState.rows
                      \/ DataDue \/ step = "state"

\* What is cached is current, or its reload is owed or under way.
FreshOK ==
    /\ \A x \in Cells : dataCache[x] \in {None, dataVersion} \/ DataOwed \/ DataBegun
    /\ \A r \in RowIndex : labelCache[r] \in {None, dataVersion} \/ DataOwed \/ DataBegun
    /\ \A c \in ColumnIndex : schemaCache[c] \in {None, schemaVersion} \/ SchemaOwed \/ SchemaBegun
    /\ held.rows # {} => held.at = dataVersion \/ DataOwed

\* The window of the update is cached, or asked for, or was cut by an answer
\* for a smaller table, and then a reload is owed.
LoadedOK ==
    /\ step = "schema" => \A c \in WC : c \in wanted.schema \/ schemaCache[c] # None
    /\ step \in {"labels", "values", "idle"} /\ task # None =>
          DataOwed \/ \A c \in WC : schemaCache[c] # None
    /\ step \in {"labels", "values"} =>
          /\ \A x \in WC \X WR : x \in wanted.cells \/ ("Data" \notin task.flags /\ dataCache[x] # None)
          /\ wanted.cells # {} => wanted.columns # {}
    /\ step = "labels" =>
          \A r \in WR : r \in wanted.labels \/ ("Data" \notin task.flags /\ labelCache[r] # None)
    /\ step = "values" /\ hasRowLabels =>
          DataOwed \/ \A r \in WR : r \in held.rows \/ labelCache[r] # None
    /\ step = "idle" /\ task # None =>
          DataOwed \/ /\ \A x \in WC \X WR : dataCache[x] # None
                      /\ hasRowLabels => \A r \in WR : labelCache[r] # None

FreshInv == OrderOK /\ RepliesOK /\ ControlOK /\ ShapeOK /\ FreshOK /\ LoadedOK

\* The connection after a message is taken from it.
LEMMA TakenFacts ==
    ASSUME BackTypes, wire # <<>>, wire' = Tail(wire)
    PROVE  /\ \A i \in DOMAIN wire' : i \in Nat /\ i + 1 \in DOMAIN wire /\ wire'[i] = wire[i + 1] /\ i + 1 # 1
           /\ \A i \in DOMAIN wire : i = 1 \/ (i - 1 \in DOMAIN wire' /\ wire'[i - 1] = wire[i])
           /\ 1 \in DOMAIN wire /\ wire[1] = Head(wire)
           /\ \A i \in DOMAIN wire : i \in Nat
BY DEF BackTypes

\* The connection after a message is sent.
LEMMA SentFacts ==
    ASSUME BackTypes, NEW m \in Messages, wire' = Append(wire, m)
    PROVE  /\ DOMAIN wire' = DOMAIN wire \cup {Len(wire) + 1}
           /\ wire'[Len(wire) + 1] = m
           /\ \A i \in DOMAIN wire : wire'[i] = wire[i] /\ i \in Nat /\ i < Len(wire) + 1
           /\ Len(wire) \in Nat
BY DEF BackTypes

\* The two parts of a step that leaves the cache and the update alone: what is
\* owed stays owed, and a new version comes with a debt.
LEMMA CacheFrame ==
    ASSUME FreshOK, LoadedOK, DataOwed => DataOwed', SchemaOwed => SchemaOwed',
           UNCHANGED <<cacheVars, step, task, wanted, held>>,
           dataVersion' = dataVersion \/ DataOwed',
           schemaVersion' = schemaVersion \/ SchemaOwed'
    PROVE  FreshOK' /\ LoadedOK'
<1>1. WC' = WC /\ WR' = WR /\ (DataBegun <=> DataBegun') /\ (SchemaBegun <=> SchemaBegun')
  BY DEF WC, WR, WindowColumns, WindowRows, Window, cacheVars, DataBegun, SchemaBegun
<1>2. FreshOK'
  BY <1>1 DEF FreshOK, cacheVars
<1>3. LoadedOK'
  BY <1>1 DEF LoadedOK, cacheVars
<1>. QED  BY <1>2, <1>3

\* A message that is taken leaves the order as it is; if it is not an event,
\* the events stay, and if it has an old size one of them comes later.
LEMMA TakenOrder ==
    ASSUME BackTypes, OrderOK, wire # <<>>, wire' = Tail(wire), shape' = shape
    PROVE  /\ \A i \in DOMAIN wire' : wire'[i].shape # shape' =>
                 \E j \in DOMAIN wire' : j > i /\ wire'[j].kind \in Events
           /\ \A i, j \in DOMAIN wire' : wire'[i].kind \in Rpcs /\ wire'[i].kind = wire'[j].kind => i = j
           /\ \A i \in DOMAIN wire' : wire'[i].kind \notin asked
           /\ Head(wire).kind \in Rpcs => \A i \in DOMAIN wire' : wire'[i].kind # Head(wire).kind
           /\ Head(wire).kind \notin Events => (EventOnWire => EventOnWire')
           /\ Head(wire).kind # "schemaUpdate" =>
                 ((\E i \in DOMAIN wire : wire[i].kind = "schemaUpdate") =>
                     \E i \in DOMAIN wire' : wire'[i].kind = "schemaUpdate")
           /\ Head(wire).shape # shape => EventOnWire'
           /\ Head(wire).kind \notin asked
<1>1. /\ \A i \in DOMAIN wire' : i \in Nat /\ i + 1 \in DOMAIN wire /\ wire'[i] = wire[i + 1] /\ i + 1 # 1
      /\ \A i \in DOMAIN wire : i = 1 \/ (i - 1 \in DOMAIN wire' /\ wire'[i - 1] = wire[i])
      /\ 1 \in DOMAIN wire /\ wire[1] = Head(wire)
      /\ \A i \in DOMAIN wire : i \in Nat
  BY TakenFacts
<1>2. ASSUME NEW i \in DOMAIN wire', wire'[i].shape # shape'
      PROVE  \E j \in DOMAIN wire' : j > i /\ wire'[j].kind \in Events
  <2>1. PICK j \in DOMAIN wire : j > i + 1 /\ wire[j].kind \in Events
    BY <1>1, <1>2 DEF OrderOK
  <2>2. j - 1 \in DOMAIN wire' /\ wire'[j - 1] = wire[j] /\ j - 1 > i
    BY <1>1, <2>1
  <2>. QED  BY <2>1, <2>2
<1>3. ASSUME NEW i \in DOMAIN wire', NEW j \in DOMAIN wire', wire'[i].kind \in Rpcs, wire'[i].kind = wire'[j].kind
      PROVE  i = j
  <2>1. i + 1 = j + 1
    BY <1>1, <1>3 DEF OrderOK
  <2>. QED  BY <1>1, <2>1
<1>4. \A i \in DOMAIN wire' : wire'[i].kind \notin asked
  BY <1>1 DEF OrderOK
<1>5. Head(wire).kind \in Rpcs => \A i \in DOMAIN wire' : wire'[i].kind # Head(wire).kind
  BY <1>1 DEF OrderOK
<1>6. Head(wire).kind \notin Events => (EventOnWire => EventOnWire')
  BY <1>1 DEF EventOnWire
<1>7. Head(wire).kind # "schemaUpdate" =>
                 ((\E i \in DOMAIN wire : wire[i].kind = "schemaUpdate") =>
                     \E i \in DOMAIN wire' : wire'[i].kind = "schemaUpdate")
  BY <1>1
<1>8. Head(wire).shape # shape => EventOnWire'
  <2>. SUFFICES ASSUME Head(wire).shape # shape PROVE EventOnWire'
    OBVIOUS
  <2>1. PICK j \in DOMAIN wire : j > 1 /\ wire[j].kind \in Events
    BY <1>1 DEF OrderOK
  <2>2. j - 1 \in DOMAIN wire' /\ wire'[j - 1] = wire[j]
    BY <1>1, <2>1
  <2>. QED  BY <2>1, <2>2 DEF EventOnWire
<1>9. Head(wire).kind \notin asked
  BY <1>1 DEF OrderOK
<1>. QED  BY <1>2, <1>3, <1>4, <1>5, <1>6, <1>7, <1>8, <1>9

\* The table changes: the event that follows owes the reload.
LEMMA TableFresh ==
    ASSUME Inv, FreshInv, NEW sh \in Shapes, NEW m \in Messages, m.shape = sh,
           shape' = sh, wire' = Append(wire, m),
           \/ m.kind = "dataUpdate" /\ schemaVersion' = schemaVersion
           \/ m.kind = "schemaUpdate",
           UNCHANGED <<asked, clientVars, gridVars, cacheVars, updateVars>>
    PROVE  FreshInv'
<1>1. BackTypes
  BY TypeParts, Zenon DEF Inv
<1>. DEFINE n == Len(wire) + 1
<1>2. /\ DOMAIN wire' = DOMAIN wire \cup {n} /\ wire'[n] = m
      /\ \A i \in DOMAIN wire : wire'[i] = wire[i] /\ i \in Nat /\ i < n
      /\ n \in Nat
  BY <1>1, SentFacts
<1>. HIDE DEF n
<1>3. m.kind \in Events /\ m.kind \notin Rpcs
  BY DEF Events, Rpcs
<1>4. EventOnWire' /\ DataOwed'
  BY <1>2, <1>3 DEF EventOnWire, DataOwed
<1>5. Owed("Schema") => Owed("Schema")'
  BY DEF Owed, updateVars
<1>6. SchemaOwed => SchemaOwed'
  BY <1>2, <1>5 DEF SchemaOwed, SchemaHandlerDue, clientVars, gridVars
<1>7. schemaVersion' = schemaVersion \/ SchemaOwed'
  BY <1>2 DEF SchemaOwed, SchemaHandlerDue
<1>8. FreshOK' /\ LoadedOK'
  BY <1>4, <1>6, <1>7, CacheFrame DEF FreshInv, updateVars
<1>9. ShapeOK'
  <2>1. DataDue => DataDue'
    BY DEF DataDue, HandlerDue, Owed, updateVars, clientVars, gridVars
  <2>. QED  BY <1>4, <2>1 DEF FreshInv, ShapeOK, clientVars, gridVars, cacheVars, updateVars
<1>10. ControlOK'
  <2>1. \A k : Expected(k) => Expected(k)'
    BY DEF Expected, clientVars, gridVars, updateVars
  <2>2. \A k : k = m.kind => Expected(k)'
    BY <1>3 DEF Expected, Rpcs
  <2>3. ASSUME NEW i \in DOMAIN wire', NEW k, k = wire'[i].kind PROVE Expected(k)'
    BY <1>2, <2>1, <2>2, <2>3 DEF FreshInv, ControlOK, WireExpected
  <2>4. \A k \in asked' : Expected(k)'
    BY <2>1 DEF FreshInv, ControlOK
  <2>5. (step' = "idle" => pending' = None) /\ (waiting' # {} => statePromise' = "pending")
    BY DEF FreshInv, ControlOK, updateVars, clientVars, gridVars
  <2>6. WireExpected'
    BY <2>3 DEF WireExpected, Expected
  <2>. QED  BY <2>4, <2>5, <2>6 DEF ControlOK
<1>11. OrderOK'
  <2>1. asked \subseteq Rpcs
    BY TypeParts, Zenon DEF Inv, OtherTypes
  <2>2. ASSUME NEW i \in DOMAIN wire', wire'[i].shape # shape'
        PROVE  \E j \in DOMAIN wire' : j > i /\ wire'[j].kind \in Events
    BY <1>2, <1>3, <2>2
  <2>3. \A i, j \in DOMAIN wire' : wire'[i].kind \in Rpcs /\ wire'[i].kind = wire'[j].kind => i = j
    BY <1>2, <1>3 DEF FreshInv, OrderOK
  <2>4. \A i \in DOMAIN wire' : wire'[i].kind \notin asked'
    BY <1>2, <1>3, <2>1 DEF FreshInv, OrderOK
  <2>. QED  BY <2>2, <2>3, <2>4 DEF OrderOK
<1>12. RepliesOK'
  <2>1. \A i \in DOMAIN wire' : wire'[i].kind = "schema" => wire'[i].at = schemaVersion' \/ SchemaOwed'
    BY <1>2, <1>3, <1>6, <1>7 DEF FreshInv, RepliesOK, Rpcs
  <2>. QED  BY <1>4, <2>1 DEF RepliesOK
<1>. QED  BY <1>8, <1>9, <1>10, <1>11, <1>12 DEF FreshInv

\* The backend answers with what it has.
LEMMA ReplyFresh ==
    ASSUME Inv, FreshInv, NEW k \in Rpcs, Reply(k)
    PROVE  FreshInv'
<1>1. BackTypes
  BY TypeParts, Zenon DEF Inv
<1>. DEFINE n == Len(wire) + 1
            m == Message(k)
<1>2. /\ m \in Messages /\ m.kind = k /\ m.shape = shape
      /\ m.at = IF k = "schema" THEN schemaVersion ELSE dataVersion
  BY <1>1 DEF Message, Messages, BackTypes, Rpcs
<1>3. wire' = Append(wire, m) /\ k \in asked /\ asked' = asked \ {k}
      /\ UNCHANGED <<shape, dataVersion, schemaVersion, clientVars, gridVars, cacheVars, updateVars>>
  BY DEF Reply, backendVars
<1>. HIDE DEF m
<1>4. /\ DOMAIN wire' = DOMAIN wire \cup {n} /\ wire'[n] = m
      /\ \A i \in DOMAIN wire : wire'[i] = wire[i] /\ i \in Nat /\ i < n
      /\ n \in Nat
  BY <1>1, <1>2, <1>3, SentFacts
<1>. HIDE DEF n
<1>5. k \notin Events
  BY DEF Events, Rpcs
<1>6. (EventOnWire => EventOnWire') /\ (DataDue => DataDue')
  BY <1>3, <1>4 DEF EventOnWire, DataDue, HandlerDue, Owed, updateVars, clientVars, gridVars
<1>7. DataOwed => DataOwed'
  BY <1>3, <1>6 DEF DataOwed, clientVars, gridVars
<1>8. SchemaOwed => SchemaOwed'
  BY <1>3, <1>4 DEF SchemaOwed, SchemaHandlerDue, Owed, updateVars, clientVars, gridVars
<1>9. FreshOK' /\ LoadedOK'
  BY <1>3, <1>7, <1>8, CacheFrame DEF FreshInv, updateVars
<1>10. ShapeOK'
  BY <1>3, <1>6 DEF FreshInv, ShapeOK, clientVars, gridVars, cacheVars, updateVars
<1>11. ControlOK'
  <2>1. \A l : Expected(l) => Expected(l)'
    BY <1>3 DEF Expected, clientVars, gridVars, updateVars
  <2>2. Expected(k)
    BY <1>3 DEF FreshInv, ControlOK
  <2>3. ASSUME NEW i \in DOMAIN wire', NEW l, l = wire'[i].kind PROVE Expected(l)'
    BY <1>2, <1>4, <2>1, <2>2, <2>3 DEF FreshInv, ControlOK, WireExpected
  <2>6. WireExpected'
    BY <2>3 DEF WireExpected, Expected
  <2>4. \A l \in asked' : Expected(l)'
    BY <1>3, <2>1 DEF FreshInv, ControlOK
  <2>5. (step' = "idle" => pending' = None) /\ (waiting' # {} => statePromise' = "pending")
    BY <1>3 DEF FreshInv, ControlOK, updateVars, clientVars, gridVars
  <2>. QED  BY <2>4, <2>5, <2>6 DEF ControlOK
<1>12. OrderOK'
  <2>1. ASSUME NEW i \in DOMAIN wire', wire'[i].shape # shape'
        PROVE  \E j \in DOMAIN wire' : j > i /\ wire'[j].kind \in Events
    <3>1. i \in DOMAIN wire /\ wire[i].shape # shape
      BY <1>2, <1>3, <1>4, <2>1
    <3>2. PICK j \in DOMAIN wire : j > i /\ wire[j].kind \in Events
      BY <3>1 DEF FreshInv, OrderOK
    <3>. QED  BY <1>4, <3>2
  <2>2. \A i, j \in DOMAIN wire' : wire'[i].kind \in Rpcs /\ wire'[i].kind = wire'[j].kind => i = j
    BY <1>2, <1>3, <1>4 DEF FreshInv, OrderOK
  <2>3. \A i \in DOMAIN wire' : wire'[i].kind \notin asked'
    BY <1>2, <1>3, <1>4 DEF FreshInv, OrderOK
  <2>. QED  BY <2>1, <2>2, <2>3 DEF OrderOK
<1>13. RepliesOK'
  <2>1. \A i \in DOMAIN wire' : wire'[i].kind = "schema" => wire'[i].at = schemaVersion' \/ SchemaOwed'
    BY <1>2, <1>3, <1>4, <1>8 DEF FreshInv, RepliesOK
  <2>2. \A i \in DOMAIN wire' : wire'[i].kind \in {"labels", "values"} => wire'[i].at = dataVersion' \/ DataOwed'
    BY <1>2, <1>3, <1>4, <1>7 DEF FreshInv, RepliesOK
  <2>. QED  BY <2>1, <2>2 DEF RepliesOK
<1>. QED  BY <1>9, <1>10, <1>11, <1>12, <1>13 DEF FreshInv

\* sortData owes an update.
LEMMA SortFresh ==
    ASSUME Inv, FreshInv, Sort
    PROVE  FreshInv'
<1>1. BackTypes /\ ClientTypes
  BY TypeParts, Zenon DEF Inv
<1>2. UNCHANGED <<shape, schemaVersion, wire, asked, cachedState, statePromise, waiting, cacheVars, updateVars>>
  BY DEF Sort, clientVars
<1>. DEFINE sort == [flags |-> {"Data"}, shape |-> None]
<1>3. HandlerDue' /\ (SchemaHandlerDue => SchemaHandlerDue')
  <2>1. sort \in Handlers /\ "Schema" \notin sort.flags
    BY DEF Handlers
  <2>2. due' = [due EXCEPT ![sort] = @ + 1] /\ due \in [Handlers -> Nat]
    BY <1>1 DEF Sort, ClientTypes
  <2>. HIDE DEF sort
  <2>. QED  BY <2>1, <2>2 DEF HandlerDue, SchemaHandlerDue
<1>4. DataDue' /\ DataOwed'
  BY <1>3 DEF DataDue, DataOwed
<1>5. SchemaOwed => SchemaOwed'
  BY <1>2, <1>3 DEF SchemaOwed, Owed, updateVars, clientVars
<1>6. FreshOK' /\ LoadedOK'
  BY <1>2, <1>4, <1>5, CacheFrame DEF FreshInv, updateVars
<1>7. ShapeOK'
  BY <1>2, <1>4 DEF FreshInv, ShapeOK, EventOnWire
<1>8. ControlOK'
  BY <1>2 DEF FreshInv, ControlOK, WireExpected, Expected, updateVars
<1>9. OrderOK'
  BY <1>2 DEF FreshInv, OrderOK
<1>10. RepliesOK'
  BY <1>2, <1>4, <1>5 DEF FreshInv, RepliesOK
<1>. QED  BY <1>6, <1>7, <1>8, <1>9, <1>10 DEF FreshInv

\* An event arrives: its handler waits for the state, or it never comes.
LEMMA NotifiedFresh ==
    ASSUME Inv, FreshInv, Notified
    PROVE  FreshInv'
<1>1. BackTypes /\ ClientTypes
  BY TypeParts, Zenon DEF Inv
<1>2. PICK k \in {"dataUpdate", "schemaUpdate"} :
          /\ wire # <<>> /\ Head(wire).kind = k
          /\ waiting' = IF statePromise = "rejected" THEN waiting ELSE waiting \cup {k}
  BY DEF Notified, Arrives
<1>3. /\ wire' = Tail(wire)
      /\ UNCHANGED <<shape, dataVersion, schemaVersion, cachedState, gridVars, cacheVars, updateVars>>
      /\ statePromise' = IF statePromise = "none" THEN "pending" ELSE statePromise
      /\ asked' = asked \cup (IF statePromise = "none" THEN {"state"} ELSE {})
  BY DEF Notified, UpdateBackendState, backendVars
<1>4. /\ \A i \in DOMAIN wire' : i \in Nat /\ i + 1 \in DOMAIN wire /\ wire'[i] = wire[i + 1]
      /\ \A i \in DOMAIN wire : i = 1 \/ (i - 1 \in DOMAIN wire' /\ wire'[i - 1] = wire[i])
      /\ wire[1] = Head(wire)
  BY <1>1, <1>2, <1>3, TakenFacts
<1>5. statePromise' # "none" /\ DataOwed'
  BY <1>3 DEF DataOwed
<1>6. SchemaOwed => SchemaOwed'
  <2>1. Owed("Schema") => Owed("Schema")'
    BY <1>3 DEF Owed, updateVars
  <2>2. ASSUME NEW i \in DOMAIN wire, wire[i].kind = "schemaUpdate" PROVE SchemaOwed'
    <3>1. CASE i = 1
      BY <1>2, <1>3, <1>4, <2>2, <3>1 DEF SchemaOwed, SchemaHandlerDue
    <3>2. CASE i # 1
      BY <1>4, <2>2, <3>2 DEF SchemaOwed, SchemaHandlerDue
    <3>. QED  BY <3>1, <3>2
  <2>3. "schemaUpdate" \in waiting => "schemaUpdate" \in waiting'
    BY <1>2
  <2>4. statePromise = "rejected" => statePromise' = "rejected"
    BY <1>3
  <2>. QED  BY <1>3, <2>1, <2>2, <2>3, <2>4 DEF SchemaOwed, SchemaHandlerDue, gridVars
<1>7. FreshOK' /\ LoadedOK'
  BY <1>3, <1>5, <1>6, CacheFrame DEF FreshInv, updateVars
<1>8. ShapeOK'
  <2>1. DataDue => DataDue'
    BY <1>3 DEF DataDue, HandlerDue, Owed, updateVars, gridVars
  <2>. QED  BY <1>3, <1>5, <2>1 DEF FreshInv, ShapeOK, cacheVars, updateVars
<1>9. ControlOK'
  <2>1. \A l : Expected(l) => Expected(l)'
    BY <1>3 DEF Expected, updateVars
  <2>2. statePromise = "none" => Expected("state")'
    BY <1>3 DEF Expected
  <2>3. ASSUME NEW i \in DOMAIN wire', NEW l, l = wire'[i].kind PROVE Expected(l)'
    BY <1>4, <2>1, <2>3 DEF FreshInv, ControlOK, WireExpected
  <2>4. WireExpected'
    BY <2>3 DEF WireExpected, Expected
  <2>5. \A l \in asked' : Expected(l)'
    BY <1>3, <2>1, <2>2 DEF FreshInv, ControlOK
  <2>6. (step' = "idle" => pending' = None) /\ (waiting' # {} => statePromise' = "pending")
    BY <1>1, <1>2, <1>3 DEF FreshInv, ControlOK, updateVars, ClientTypes
  <2>. QED  BY <2>4, <2>5, <2>6 DEF ControlOK
<1>10. OrderOK'
  <2>1. statePromise = "none" => \A i \in DOMAIN wire' : wire'[i].kind # "state"
    BY <1>4 DEF FreshInv, ControlOK, WireExpected, Expected
  <2>2. \A i \in DOMAIN wire' : wire'[i].kind \notin asked
    BY <1>4 DEF FreshInv, OrderOK
  <2>3. \A i \in DOMAIN wire' : wire'[i].kind \notin asked'
    BY <1>3, <2>1, <2>2
  <2>. QED  BY <1>1, <1>2, <1>3, <2>3, TakenOrder DEF FreshInv, OrderOK
<1>11. RepliesOK'
  BY <1>3, <1>4, <1>5, <1>6 DEF FreshInv, RepliesOK
<1>. QED  BY <1>7, <1>8, <1>9, <1>10, <1>11 DEF FreshInv

\* The state arrives: a fetch of the data is to come, and one of all of it if
\* a schema event waited.
LEMMA StateArrivesFresh ==
    ASSUME Inv, FreshInv, StateArrives
    PROVE  FreshInv'
<1>1. BackTypes /\ ClientTypes
  BY TypeParts, Zenon DEF Inv
<1>2. /\ wire # <<>> /\ Head(wire).kind = "state" /\ wire' = Tail(wire)
      /\ cachedState' = Head(wire).shape /\ statePromise' = "none" /\ waiting' = {}
      /\ UNCHANGED <<shape, dataVersion, schemaVersion, asked, cacheVars, updateVars>>
  BY DEF StateArrives, Arrives, backendVars
<1>3. HandlerDue' /\ (SchemaHandlerDue \/ "schemaUpdate" \in waiting => SchemaHandlerDue')
  <2>. DEFINE sh == Head(wire).shape
              more(h) == (IF h.flags = {"Data"} THEN 1 ELSE 0)
                         + (IF "dataUpdate" \in waiting /\ h.flags = {"Data"} THEN 1 ELSE 0)
                         + (IF "schemaUpdate" \in waiting /\ "Schema" \in h.flags THEN 1 ELSE 0)
              data == [flags |-> {"Data"}, shape |-> sh]
              all == [flags |-> {"Schema", "Data"}, shape |-> sh]
  <2>1. sh \in Shapes
    BY <1>1, <1>2, WireFacts
  <2>2. /\ due \in [Handlers -> Nat]
        /\ due' = [h \in Handlers |-> due[h] + IF h.shape = sh THEN more(h) ELSE 0]
    BY <1>1 DEF StateArrives, ClientTypes
  <2>3. data \in Handlers /\ data.flags = {"Data"} /\ data.shape = sh
    BY <2>1 DEF Handlers
  <2>4. all \in Handlers /\ "Schema" \in all.flags /\ all.shape = sh
    BY <2>1 DEF Handlers
  <2>5. \A h \in Handlers : more(h) \in Nat
    OBVIOUS
  <2>6. more(data) > 0 /\ ("schemaUpdate" \in waiting => more(all) > 0)
    <3>1. more(data) > 0
      BY <2>3
    <3>2. "schemaUpdate" \in waiting => more(all) > 0
      <4>. HIDE DEF all
      <4>. QED  BY <2>4
    <3>. QED  BY <3>1, <3>2
  <2>. HIDE DEF more, data, all, sh
  <2>7. \A h \in Handlers : (due[h] > 0 => due'[h] > 0) /\ (h.shape = sh /\ more(h) > 0 => due'[h] > 0)
    BY <2>2, <2>5
  <2>8. HandlerDue'
    BY <2>3, <2>6, <2>7 DEF HandlerDue
  <2>9. SchemaHandlerDue => SchemaHandlerDue'
    BY <2>7 DEF SchemaHandlerDue
  <2>10. "schemaUpdate" \in waiting => SchemaHandlerDue'
    BY <2>4, <2>6, <2>7 DEF SchemaHandlerDue
  <2>. QED  BY <2>8, <2>9, <2>10
<1>4. /\ \A i \in DOMAIN wire' : i \in Nat /\ i + 1 \in DOMAIN wire /\ wire'[i] = wire[i + 1]
      /\ 1 \in DOMAIN wire /\ wire[1] = Head(wire)
  BY <1>1, <1>2, TakenFacts
<1>5. statePromise = "pending"
  BY <1>2, <1>4 DEF FreshInv, ControlOK, WireExpected, Expected
<1>6. /\ \A i \in DOMAIN wire' : wire'[i].kind # "state"
      /\ (\E i \in DOMAIN wire : wire[i].kind = "schemaUpdate") => \E i \in DOMAIN wire' : wire'[i].kind = "schemaUpdate"
      /\ Head(wire).shape # shape => EventOnWire'
      /\ "state" \notin asked
  BY <1>1, <1>2, TakenOrder DEF FreshInv, Rpcs
<1>7. DataDue' /\ DataOwed'
  BY <1>3 DEF DataDue, DataOwed
<1>8. SchemaOwed => SchemaOwed'
  <2>1. Owed("Schema") => Owed("Schema")'
    BY <1>2 DEF Owed, updateVars
  <2>. QED  BY <1>3, <1>5, <1>6, <2>1 DEF SchemaOwed
<1>9. FreshOK' /\ LoadedOK'
  BY <1>2, <1>7, <1>8, CacheFrame DEF FreshInv, updateVars
<1>10. ShapeOK'
  BY <1>2, <1>6, <1>7 DEF ShapeOK
<1>11. ControlOK'
  <2>1. \A l : Expected(l) /\ l # "state" => Expected(l)'
    BY <1>2 DEF Expected, updateVars
  <2>2. ASSUME NEW i \in DOMAIN wire', NEW l, l = wire'[i].kind PROVE Expected(l)'
    BY <1>4, <1>6, <2>1, <2>2 DEF FreshInv, ControlOK, WireExpected
  <2>3. WireExpected'
    BY <2>2 DEF WireExpected, Expected
  <2>4. \A l \in asked' : Expected(l)'
    BY <1>2, <1>6, <2>1 DEF FreshInv, ControlOK
  <2>5. (step' = "idle" => pending' = None) /\ (waiting' # {} => statePromise' = "pending")
    BY <1>2 DEF FreshInv, ControlOK, updateVars
  <2>. QED  BY <2>3, <2>4, <2>5 DEF ControlOK
<1>12. OrderOK'
  BY <1>1, <1>2, TakenOrder DEF FreshInv, OrderOK
<1>13. RepliesOK'
  BY <1>2, <1>4, <1>7, <1>8 DEF FreshInv, RepliesOK
<1>. QED  BY <1>9, <1>10, <1>11, <1>12, <1>13 DEF FreshInv

\* The request for the state fails, and is never repeated.
LEMMA StateFailsFresh ==
    ASSUME Inv, FreshInv, StateFails
    PROVE  FreshInv'
<1>1. /\ "state" \in asked /\ asked' = asked \ {"state"} /\ statePromise' = "rejected" /\ waiting' = {}
      /\ UNCHANGED <<shape, dataVersion, schemaVersion, wire, cachedState, gridVars, cacheVars, updateVars>>
  BY DEF StateFails, backendVars
<1>2. DataOwed' /\ SchemaOwed'
  BY <1>1 DEF DataOwed, SchemaOwed, SchemaHandlerDue
<1>3. FreshOK' /\ LoadedOK'
  BY <1>1, <1>2, CacheFrame DEF FreshInv, updateVars
<1>4. ShapeOK'
  <2>1. DataDue => DataDue'
    BY <1>1 DEF DataDue, HandlerDue, Owed, updateVars, gridVars
  <2>. QED  BY <1>1, <2>1 DEF FreshInv, ShapeOK, cacheVars, updateVars
<1>5. \A i \in DOMAIN wire : wire[i].kind # "state"
  BY <1>1 DEF FreshInv, OrderOK
<1>6. ControlOK'
  <2>1. \A l : Expected(l) /\ l # "state" => Expected(l)'
    BY <1>1 DEF Expected, updateVars
  <2>2. ASSUME NEW i \in DOMAIN wire', NEW l, l = wire'[i].kind PROVE Expected(l)'
    BY <1>1, <1>5, <2>1, <2>2 DEF FreshInv, ControlOK, WireExpected
  <2>3. WireExpected'
    BY <2>2 DEF WireExpected, Expected
  <2>4. \A l \in asked' : Expected(l)'
    BY <1>1, <2>1 DEF FreshInv, ControlOK
  <2>5. (step' = "idle" => pending' = None) /\ (waiting' # {} => statePromise' = "pending")
    BY <1>1 DEF FreshInv, ControlOK, updateVars
  <2>. QED  BY <2>3, <2>4, <2>5 DEF ControlOK
<1>7. OrderOK'
  BY <1>1 DEF FreshInv, OrderOK
<1>8. RepliesOK'
  BY <1>2 DEF RepliesOK
<1>. QED  BY <1>3, <1>4, <1>6, <1>7, <1>8 DEF FreshInv

\* What an update that starts, or gets the state it awaited, has done: the
\* sizes are those of the client, and the schema of the window is asked for.
StartFact(d) ==
    /\ task' = d /\ step' \in {"schema", "state", "failed"}
    /\ step' = "schema" =>
          /\ columns' = cachedState.columns /\ rows' = cachedState.rows
          /\ "Schema" \in d.flags => \A c \in ColumnIndex : schemaCache'[c] = None
          /\ "Schema" \notin d.flags => schemaCache' = schemaCache
          /\ \A c \in WindowColumns(d, columns') : c \in wanted'.schema \/ schemaCache'[c] # None
          /\ asked' = asked \cup (IF wanted'.schema # {} THEN {"schema"} ELSE {})
    /\ step' # "schema" => asked' = asked /\ schemaCache' = schemaCache

\* WithState starts the update.
LEMMA WithStateStarts ==
    ASSUME CacheTypes, NEW d \in Descriptors, WithState(d), task' = d
    PROVE  StartFact(d)
<1>. DEFINE cached == {c \in ColumnIndex : schemaCache[c] # None}
            load == ToLoad(d, "Schema", WindowColumns(d, cachedState.columns), cached)
<1>1. /\ columns' = cachedState.columns /\ rows' = cachedState.rows /\ step' = "schema"
      /\ schemaCache' = IF "Schema" \in d.flags THEN [c \in ColumnIndex |-> None] ELSE schemaCache
      /\ wanted' = [Nothing EXCEPT !.schema = load]
      /\ asked' = asked \cup (IF load # {} THEN {"schema"} ELSE {})
  BY DEF WithState
<1>2. \A c \in WindowColumns(d, columns') : c \in load \/ ("Schema" \notin d.flags /\ schemaCache[c] # None)
  BY <1>1, WindowFacts DEF ToLoad
<1>. HIDE DEF load
<1>3. wanted'.schema = load
  BY <1>1 DEF Nothing
<1>. QED  BY <1>1, <1>2, <1>3 DEF StartFact

\* So does Begin, or it awaits the state, or it fails.
LEMMA BeginStarts ==
    ASSUME CacheTypes, ClientTypes, NEW d \in Descriptors, Begin(d)
    PROVE  StartFact(d)
<1>1. CASE statePromise = "none"
  BY <1>1, WithStateStarts DEF Begin
<1>2. CASE statePromise \in {"pending", "rejected"}
  <2>1. task' = d /\ step' \in {"state", "failed"} /\ UNCHANGED <<schemaCache, asked>>
    BY <1>2 DEF Begin
  <2>. QED  BY <2>1 DEF StartFact
<1>. QED  BY <1>1, <1>2 DEF ClientTypes

\* The connection holds events, and the state if it is awaited.
Calm(w) == \A i \in DOMAIN w : w[i].kind \in Events \cup {"state"}

\* A start with a calm connection keeps freshness: what it is owed and not
\* loaded by the start itself stays owed.
LEMMA StartIsFresh ==
    ASSUME ControlOK, asked \subseteq {"state"}, NEW d \in Descriptors, StartFact(d),
           UNCHANGED <<backendVars, cachedState, statePromise, waiting>>,
           held'.rows = {}, Calm(wire'),
           \A i \in DOMAIN wire' : \E j \in DOMAIN wire : wire'[i] = wire[j],
           \A i \in DOMAIN wire' : wire'[i].shape # shape' =>
                 \E j \in DOMAIN wire' : j > i /\ wire'[j].kind \in Events,
           \A i, j \in DOMAIN wire' : wire'[i].kind \in Rpcs /\ wire'[i].kind = wire'[j].kind => i = j,
           \A i \in DOMAIN wire' : wire'[i].kind \notin asked,
           cachedState # shape => EventOnWire' \/ statePromise # "none",
           \A x \in Cells : dataCache'[x] \in {None, dataVersion} \/ DataOwed' \/ "Data" \in d.flags,
           \A r \in RowIndex : labelCache'[r] \in {None, dataVersion} \/ DataOwed' \/ "Data" \in d.flags,
           \A c \in ColumnIndex : schemaCache[c] \in {None, schemaVersion} \/ SchemaOwed' \/ "Schema" \in d.flags
    PROVE  FreshInv'
<1>1. task' = d /\ d # None /\ step' \in {"schema", "state", "failed"}
  BY DescriptorFacts DEF StartFact
<1>2. asked' \subseteq {"state"} \cup (IF step' = "schema" /\ wanted'.schema # {} THEN {"schema"} ELSE {})
  BY <1>1 DEF StartFact
<1>3. step' = "failed" => DataDue' /\ DataOwed' /\ SchemaOwed'
  BY DEF DataDue, HandlerDue, DataOwed, SchemaOwed, SchemaHandlerDue, Owed
<1>4. \A i \in DOMAIN wire' : wire'[i].kind \notin {"schema", "labels", "values"}
  BY DEF Calm, Events
<1>5. OrderOK'
  <2>1. \A i \in DOMAIN wire' : wire'[i].kind \notin asked'
    BY <1>1, <1>4 DEF StartFact
  <2>. QED  BY <2>1 DEF OrderOK
<1>6. RepliesOK'
  BY <1>4 DEF RepliesOK
<1>7. ControlOK'
  <2>1. "state" \in asked => statePromise = "pending"
    BY DEF ControlOK, Expected
  <2>2. \A k \in asked' : Expected(k)'
    <3>1. "state" \in asked' => "state" \in asked
      BY <1>1 DEF StartFact
    <3>. QED  BY <1>2, <2>1, <3>1 DEF Expected
  <2>3. \A i \in DOMAIN wire' : wire'[i].kind = "state" => statePromise = "pending"
    BY DEF ControlOK, WireExpected, Expected
  <2>4. WireExpected'
    BY <1>4, <2>3 DEF WireExpected, Expected
  <2>. QED  BY <1>1, <2>2, <2>4 DEF ControlOK
<1>8. ShapeOK'
  BY <1>1, <1>3 DEF ShapeOK, StartFact, backendVars
<1>9. "Data" \in d.flags => DataOwed' \/ DataBegun'
  BY <1>1, <1>3 DEF DataBegun
<1>10. FreshOK'
  <2>1. ASSUME NEW c \in ColumnIndex
        PROVE  schemaCache'[c] \in {None, schemaVersion'} \/ SchemaOwed' \/ SchemaBegun'
    <3>1. CASE step' = "schema"
      BY <3>1 DEF StartFact, backendVars
    <3>2. CASE step' = "state"
      BY <1>1, <3>2 DEF StartFact, SchemaBegun, backendVars
    <3>. QED  BY <1>1, <1>3, <3>1, <3>2
  <2>. QED  BY <1>9, <2>1 DEF FreshOK, backendVars
<1>11. LoadedOK'
  BY <1>1 DEF LoadedOK, StartFact, WC
<1>. QED  BY <1>5, <1>6, <1>7, <1>8, <1>10, <1>11 DEF FreshInv

\* A call during an update keeps what is owed, and owes what it asks for.
LEMMA KeepOwes ==
    ASSUME NEW d \in Descriptors, NEW flag, KeepDescriptor(d), UNCHANGED step
    PROVE  Owed(flag) \/ flag \in d.flags => Owed(flag)'
<1>1. d # None
  BY DescriptorFacts
<1>. QED  BY <1>1 DEF Owed, KeepDescriptor

\* An update that begins keeps what is owed, or loads it.
LEMMA BeginOwes ==
    ASSUME NEW d \in Descriptors, NEW flag, Begin(d), step # "failed",
           pending' = pending \/ pending = d
    PROVE  Owed(flag) => Owed(flag)' \/ flag \in d.flags
BY DEF Owed, Begin

\* Between updates, and when the values have arrived, nothing else is asked.
LEMMA OnlyStateAsked ==
    ASSUME Inv, FreshInv, step \in {"idle", "state"}
    PROVE  asked \subseteq {"state"} /\ Calm(wire)
<1>1. asked \subseteq Rpcs /\ BackTypes
  BY TypeParts, Zenon DEF Inv, OtherTypes
<1>2. asked \subseteq {"state"}
  BY <1>1 DEF FreshInv, ControlOK, Expected, Rpcs
<1>3. \A i \in DOMAIN wire : wire[i] \in Messages
  BY <1>1 DEF BackTypes
<1>4. \A i \in DOMAIN wire : wire[i].kind \in Rpcs \cup {"dataUpdate", "schemaUpdate"}
  BY <1>3 DEF Messages
<1>5. Calm(wire)
  BY <1>4 DEF FreshInv, ControlOK, WireExpected, Expected, Rpcs, Calm, Events
<1>. QED  BY <1>2, <1>5

\* Calls of update() keep freshness; the fetch they come from is theirs.
LEMMA UpdateFresh ==
    ASSUME Inv, FreshInv, NEW d \in Descriptors, Update(d),
           UNCHANGED <<backendVars, wire, cachedState, statePromise, waiting, labelCache, dataCache, held>>,
           HandlerDue => HandlerDue' \/ "Data" \in d.flags,
           SchemaHandlerDue => SchemaHandlerDue' \/ "Schema" \in d.flags
    PROVE  FreshInv'
<1>1. BackTypes /\ ClientTypes /\ CacheTypes
  BY TypeParts, Zenon DEF Inv
<1>2. EventOnWire => EventOnWire'
  BY DEF EventOnWire
<1>3. CASE step # "idle"
  <2>1. /\ KeepDescriptor(d)
        /\ UNCHANGED <<step, task, wanted, trim, asked, columns, rows, hasRowLabels, schemaCache>>
    BY <1>3 DEF Update
  <2>2. /\ Owed("Data") \/ "Data" \in d.flags => Owed("Data")'
        /\ Owed("Schema") \/ "Schema" \in d.flags => Owed("Schema")'
    BY <2>1, KeepOwes
  <2>3. (DataDue => DataDue') /\ (DataOwed => DataOwed')
    BY <1>2, <2>2 DEF DataDue, HandlerDue, DataOwed
  <2>4. SchemaOwed => SchemaOwed'
    BY <2>2 DEF SchemaOwed, SchemaHandlerDue
  <2>5. FreshOK' /\ LoadedOK'
    BY <2>1, <2>3, <2>4, CacheFrame DEF FreshInv, cacheVars, backendVars
  <2>6. ShapeOK'
    BY <1>2, <2>1, <2>3 DEF FreshInv, ShapeOK, backendVars
  <2>7. ControlOK'
    BY <1>3, <2>1 DEF FreshInv, ControlOK, WireExpected, Expected
  <2>8. OrderOK'
    BY <2>1 DEF FreshInv, OrderOK, backendVars
  <2>9. RepliesOK'
    BY <2>1, <2>3, <2>4 DEF FreshInv, RepliesOK, backendVars
  <2>. QED  BY <2>5, <2>6, <2>7, <2>8, <2>9 DEF FreshInv
<1>4. CASE step = "idle"
  <2>1. Begin(d) /\ pending' = pending
    BY <1>4 DEF Update
  <2>2. StartFact(d)
    BY <1>1, <2>1, BeginStarts
  <2>3. /\ Owed("Data") => Owed("Data")' \/ "Data" \in d.flags
        /\ Owed("Schema") => Owed("Schema")' \/ "Schema" \in d.flags
    BY <1>4, <2>1, BeginOwes
  <2>4. DataOwed => DataOwed' \/ "Data" \in d.flags
    BY <1>2, <2>3 DEF DataDue, HandlerDue, DataOwed
  <2>5. SchemaOwed => SchemaOwed' \/ "Schema" \in d.flags
    BY <2>3 DEF SchemaOwed, SchemaHandlerDue
  <2>6. ~DataBegun /\ ~SchemaBegun
    BY <1>4 DEF DataBegun, SchemaBegun
  <2>7. asked \subseteq {"state"} /\ Calm(wire')
    BY <1>4, OnlyStateAsked
  <2>8. held'.rows = {}
    BY <1>4 DEF Inv, UpdateOK, WantedIn
  <2>9. /\ \A i \in DOMAIN wire' : \E j \in DOMAIN wire : wire'[i] = wire[j]
        /\ \A i \in DOMAIN wire' : wire'[i].shape # shape' =>
              \E j \in DOMAIN wire' : j > i /\ wire'[j].kind \in Events
        /\ \A i, j \in DOMAIN wire' : wire'[i].kind \in Rpcs /\ wire'[i].kind = wire'[j].kind => i = j
        /\ \A i \in DOMAIN wire' : wire'[i].kind \notin asked
    BY DEF FreshInv, OrderOK, backendVars
  <2>10. cachedState # shape => EventOnWire' \/ statePromise # "none"
    BY <1>2 DEF FreshInv, ShapeOK
  <2>11. /\ \A x \in Cells : dataCache'[x] \in {None, dataVersion} \/ DataOwed' \/ "Data" \in d.flags
         /\ \A r \in RowIndex : labelCache'[r] \in {None, dataVersion} \/ DataOwed' \/ "Data" \in d.flags
         /\ \A c \in ColumnIndex : schemaCache[c] \in {None, schemaVersion} \/ SchemaOwed' \/ "Schema" \in d.flags
    BY <2>4, <2>5, <2>6 DEF FreshInv, FreshOK
  <2>12. ControlOK
    BY DEF FreshInv
  <2>. QED  BY <2>2, <2>7, <2>8, <2>9, <2>10, <2>11, <2>12, StartIsFresh
<1>. QED  BY <1>3, <1>4

\* The other handlers still owe their reload.
LEMMA HandlerEndsOwes ==
    ASSUME ClientTypes, NEW h \in Handlers, HandlerEnds(h)
    PROVE  SchemaHandlerDue => SchemaHandlerDue' \/ "Schema" \in h.flags
<1>1. \A g \in Handlers : g = h \/ due'[g] = due[g]
  BY DEF HandlerEnds, ClientTypes
<1>. QED  BY <1>1 DEF SchemaHandlerDue

\* A handler that fetches nothing leaves its reload as lost.
LEMMA DropFresh ==
    ASSUME Inv, FreshInv, NEW h \in Handlers, Drops(h)
    PROVE  FreshInv'
<1>1. BackTypes /\ ClientTypes
  BY TypeParts, Zenon DEF Inv
<1>2. /\ UNCHANGED <<shape, dataVersion, schemaVersion, wire, asked, clientVars, cacheVars>>
      /\ UNCHANGED <<step, task, pending, wanted, held>>
  BY DEF Drops, HandlerEnds, backendVars, cacheVars
<1>3. lost' = lost \cup h.flags /\ HandlerEnds(h) /\ "Data" \in h.flags
  BY DEF Drops, Handlers
<1>4. EventOnWire => EventOnWire'
  BY <1>2 DEF EventOnWire
<1>5. DataDue' /\ DataOwed'
  BY <1>3 DEF DataDue, DataOwed, Owed
<1>6. SchemaHandlerDue => SchemaHandlerDue' \/ "Schema" \in lost'
  BY <1>1, <1>3, HandlerEndsOwes
<1>7. SchemaOwed => SchemaOwed'
  BY <1>2, <1>3, <1>6 DEF SchemaOwed, Owed, clientVars
<1>8. FreshOK' /\ LoadedOK'
  BY <1>2, <1>5, <1>7, CacheFrame DEF FreshInv
<1>9. ShapeOK'
  BY <1>2, <1>4, <1>5 DEF FreshInv, ShapeOK, clientVars, cacheVars
<1>10. ControlOK'
  BY <1>2 DEF FreshInv, ControlOK, WireExpected, Expected, clientVars
<1>11. OrderOK'
  BY <1>2 DEF FreshInv, OrderOK
<1>12. RepliesOK'
  BY <1>2, <1>5, <1>7 DEF FreshInv, RepliesOK
<1>. QED  BY <1>8, <1>9, <1>10, <1>11, <1>12 DEF FreshInv

\* The awaited state is there, or was refused.
LEMMA StateLoadedFresh ==
    ASSUME Inv, FreshInv, StateLoaded
    PROVE  FreshInv'
<1>1. BackTypes /\ ClientTypes /\ CacheTypes
  BY TypeParts, Zenon DEF Inv
<1>2. /\ step = "state"
      /\ UNCHANGED <<shape, dataVersion, schemaVersion, wire, clientVars, gridVars, labelCache, dataCache, task,
                     pending, held, trim, lost>>
  BY DEF StateLoaded, backendVars
<1>3. task \in Descriptors /\ task # None
  BY <1>2, TaskFacts
<1>4. StartFact(task)
  <2>1. CASE WithState(task)
    BY <1>1, <1>2, <1>3, <2>1, WithStateStarts
  <2>2. CASE step' = "failed" /\ UNCHANGED <<columns, rows, hasRowLabels, schemaCache, wanted, asked>>
    BY <1>2, <2>2 DEF StartFact
  <2>. QED  BY <2>1, <2>2 DEF StateLoaded
<1>5. (EventOnWire => EventOnWire') /\ (\A flag : Owed(flag) => Owed(flag)')
  BY <1>2 DEF EventOnWire, Owed
<1>6. DataOwed => DataOwed'
  BY <1>2, <1>5 DEF DataOwed, DataDue, HandlerDue, clientVars, gridVars
<1>7. SchemaOwed => SchemaOwed'
  BY <1>2, <1>5 DEF SchemaOwed, SchemaHandlerDue, clientVars, gridVars
<1>8. asked \subseteq {"state"} /\ Calm(wire')
  BY <1>2, OnlyStateAsked
<1>9. held'.rows = {}
  BY <1>2 DEF Inv, UpdateOK, WantedIn
<1>10. /\ \A i \in DOMAIN wire' : \E j \in DOMAIN wire : wire'[i] = wire[j]
       /\ \A i \in DOMAIN wire' : wire'[i].shape # shape' =>
             \E j \in DOMAIN wire' : j > i /\ wire'[j].kind \in Events
       /\ \A i, j \in DOMAIN wire' : wire'[i].kind \in Rpcs /\ wire'[i].kind = wire'[j].kind => i = j
       /\ \A i \in DOMAIN wire' : wire'[i].kind \notin asked
  BY <1>2 DEF FreshInv, OrderOK
<1>11. cachedState # shape => EventOnWire' \/ statePromise # "none"
  BY <1>5 DEF FreshInv, ShapeOK
<1>12. /\ \A x \in Cells : dataCache'[x] \in {None, dataVersion} \/ DataOwed' \/ "Data" \in task.flags
       /\ \A r \in RowIndex : labelCache'[r] \in {None, dataVersion} \/ DataOwed' \/ "Data" \in task.flags
       /\ \A c \in ColumnIndex : schemaCache[c] \in {None, schemaVersion} \/ SchemaOwed' \/ "Schema" \in task.flags
  BY <1>2, <1>6, <1>7 DEF FreshInv, FreshOK, DataBegun, SchemaBegun
<1>13. ControlOK /\ UNCHANGED <<backendVars, cachedState, statePromise, waiting>>
  BY <1>2 DEF FreshInv, backendVars, clientVars, gridVars
<1>. QED  BY <1>3, <1>4, <1>8, <1>9, <1>10, <1>11, <1>12, <1>13, StartIsFresh

\* An RPC of the update fails: everything is owed from then on.
LEMMA UpdateFailsFresh ==
    ASSUME Inv, FreshInv, UpdateFails
    PROVE  FreshInv'
<1>1. /\ step \in asked /\ step # "state" /\ asked' = asked \ {step} /\ step' = "failed"
      /\ UNCHANGED <<shape, dataVersion, schemaVersion, wire, clientVars, gridVars, cacheVars, task, pending, wanted,
                     held, lost>>
  BY DEF UpdateFails, backendVars
<1>2. asked \subseteq Rpcs
  BY TypeParts, Zenon DEF Inv, OtherTypes
<1>3. DataDue' /\ DataOwed' /\ SchemaOwed'
  BY <1>1 DEF DataDue, HandlerDue, DataOwed, SchemaOwed, SchemaHandlerDue, Owed
<1>4. EventOnWire => EventOnWire'
  BY <1>1 DEF EventOnWire
<1>5. ShapeOK'
  BY <1>1, <1>3, <1>4 DEF FreshInv, ShapeOK, clientVars, gridVars
<1>6. \A k \in asked' : k = "state"
  BY <1>1, <1>2 DEF FreshInv, ControlOK, Expected, Rpcs
<1>7. \A i \in DOMAIN wire : wire[i].kind # step
  BY <1>1 DEF FreshInv, OrderOK
<1>8. ControlOK'
  <2>1. \A k \in asked' : Expected(k)'
    BY <1>1, <1>6 DEF FreshInv, ControlOK, Expected, clientVars, gridVars
  <2>2. WireExpected'
    BY <1>1, <1>7 DEF FreshInv, ControlOK, WireExpected, Expected, clientVars, gridVars
  <2>. QED  BY <1>1, <2>1, <2>2 DEF FreshInv, ControlOK, clientVars, gridVars
<1>9. OrderOK'
  BY <1>1 DEF FreshInv, OrderOK
<1>10. RepliesOK' /\ FreshOK'
  BY <1>3 DEF RepliesOK, FreshOK
<1>11. LoadedOK'
  BY <1>1 DEF LoadedOK
<1>. QED  BY <1>5, <1>8, <1>9, <1>10, <1>11 DEF FreshInv

\* The trim timer keeps the window.
LEMMA TrimCacheFresh ==
    ASSUME Inv, FreshInv, TrimCache
    PROVE  FreshInv'
<1>1. /\ trim # None
      /\ UNCHANGED <<shape, dataVersion, schemaVersion, wire, asked, clientVars, gridVars, columns, rows,
                     step, task, pending, wanted, held, lost>>
  BY DEF TrimCache, backendVars
<1>2. step = "idle" /\ trim = task
  BY <1>1 DEF Inv, UpdateOK, TrimNotDuringUpdate
<1>3. /\ schemaCache' = [c \in ColumnIndex |->
              IF "Schema" \in task.flags \/ c \in WC THEN schemaCache[c] ELSE None]
      /\ labelCache' = [r \in RowIndex |->
              IF "Data" \in task.flags \/ r \in WR THEN labelCache[r] ELSE None]
      /\ dataCache' = [x \in Cells |->
              IF "Data" \in task.flags \/ (x[1] \in WC /\ x[2] \in WR)
              THEN dataCache[x] ELSE None]
  BY <1>2 DEF TrimCache, Kept, WC, WR
<1>4. (EventOnWire <=> EventOnWire') /\ (\A flag : Owed(flag) <=> Owed(flag)')
  BY <1>1 DEF EventOnWire, Owed
<1>5. (DataDue <=> DataDue') /\ (DataOwed <=> DataOwed')
  BY <1>1, <1>4 DEF DataOwed, DataDue, HandlerDue, clientVars, gridVars
<1>6. SchemaOwed <=> SchemaOwed'
  BY <1>1, <1>4 DEF SchemaOwed, SchemaHandlerDue, clientVars, gridVars
<1>7. WC' = WC /\ WR' = WR /\ ~DataBegun /\ ~SchemaBegun
  BY <1>1, <1>2 DEF WC, WR, WindowColumns, WindowRows, Window, DataBegun, SchemaBegun
<1>8. FreshOK'
  BY <1>1, <1>3, <1>5, <1>6, <1>7 DEF FreshInv, FreshOK
<1>9. LoadedOK'
  <2>1. WC \subseteq ColumnIndex /\ WR \subseteq RowIndex /\ WC \X WR \subseteq Cells
    BY TypeParts, WindowInTable DEF Inv
  <2>2. \A c \in WC : schemaCache'[c] = schemaCache[c]
    BY <1>3, <2>1
  <2>3. \A r \in WR : labelCache'[r] = labelCache[r]
    BY <1>3, <2>1
  <2>4. \A x \in WC \X WR : dataCache'[x] = dataCache[x]
    BY <1>3, <2>1
  <2>5. hasRowLabels' = hasRowLabels
    BY DEF TrimCache
  <2>. QED  BY <1>1, <1>2, <1>5, <1>7, <2>2, <2>3, <2>4, <2>5 DEF FreshInv, LoadedOK
<1>10. ShapeOK'
  BY <1>1, <1>4, <1>5 DEF FreshInv, ShapeOK, clientVars, gridVars
<1>11. ControlOK'
  BY <1>1 DEF FreshInv, ControlOK, WireExpected, Expected, clientVars, gridVars
<1>12. OrderOK'
  BY <1>1 DEF FreshInv, OrderOK
<1>13. RepliesOK'
  BY <1>1, <1>5, <1>6 DEF FreshInv, RepliesOK
<1>. QED  BY <1>8, <1>9, <1>10, <1>11, <1>12, <1>13 DEF FreshInv

\* The connection after an update has taken the answer it waited for, or has
\* gone on because it had asked for nothing.
LoadTaken ==
    /\ asked \subseteq {"state"} /\ Calm(wire')
    /\ \A i \in DOMAIN wire' : \E j \in DOMAIN wire : wire'[i] = wire[j]
    /\ \A i \in DOMAIN wire' : wire'[i].shape # shape' =>
          \E j \in DOMAIN wire' : j > i /\ wire'[j].kind \in Events
    /\ \A i, j \in DOMAIN wire' : wire'[i].kind \in Rpcs /\ wire'[i].kind = wire'[j].kind => i = j
    /\ \A i \in DOMAIN wire' : wire'[i].kind \notin asked
    /\ EventOnWire => EventOnWire'
    /\ (\E i \in DOMAIN wire : wire[i].kind = "schemaUpdate") => \E i \in DOMAIN wire' : wire'[i].kind = "schemaUpdate"

\* Nothing else is on its way then.
LEMMA LoadTakes ==
    ASSUME Inv, FreshInv, step \in {"schema", "labels", "values"}, shape' = shape,
           \/ wire # <<>> /\ Head(wire).kind = step /\ wire' = Tail(wire)
           \/ wire' = wire /\ ~Expected(step)
    PROVE  /\ LoadTaken
           /\ wire' # wire \/ (wire # <<>> /\ wire' = Tail(wire)) => (Head(wire).shape # shape => EventOnWire')
<1>1. asked \subseteq Rpcs /\ BackTypes
  BY TypeParts, Zenon DEF Inv, OtherTypes
<1>2. \A i \in DOMAIN wire : wire[i] \in Messages
  BY <1>1 DEF BackTypes
<1>3. \A i \in DOMAIN wire : wire[i].kind \in Rpcs \cup {"dataUpdate", "schemaUpdate"}
  BY <1>2 DEF Messages
<1>4. asked \subseteq {"state", step}
  BY <1>1 DEF FreshInv, ControlOK, Expected, Rpcs
<1>5. \A i \in DOMAIN wire : wire[i].kind \in Events \cup {"state", step}
  BY <1>3 DEF FreshInv, ControlOK, WireExpected, Expected, Rpcs, Events
<1>6. CASE wire # <<>> /\ Head(wire).kind = step /\ wire' = Tail(wire)
  <2>1. step \notin Events /\ step \in Rpcs /\ step # "schemaUpdate"
    BY DEF Events, Rpcs
  <2>2. /\ \A i \in DOMAIN wire' : wire'[i].shape # shape' =>
              \E j \in DOMAIN wire' : j > i /\ wire'[j].kind \in Events
        /\ \A i, j \in DOMAIN wire' : wire'[i].kind \in Rpcs /\ wire'[i].kind = wire'[j].kind => i = j
        /\ \A i \in DOMAIN wire' : wire'[i].kind \notin asked
        /\ \A i \in DOMAIN wire' : wire'[i].kind # step
        /\ EventOnWire => EventOnWire'
        /\ (\E i \in DOMAIN wire : wire[i].kind = "schemaUpdate") => \E i \in DOMAIN wire' : wire'[i].kind = "schemaUpdate"
        /\ Head(wire).shape # shape => EventOnWire'
        /\ step \notin asked
    BY <1>1, <1>6, <2>1, TakenOrder DEF FreshInv
  <2>3. \A i \in DOMAIN wire' : \E j \in DOMAIN wire : wire'[i] = wire[j]
    BY <1>1, <1>6, TakenFacts
  <2>4. Calm(wire')
    BY <1>5, <2>2, <2>3 DEF Calm
  <2>5. asked \subseteq {"state"}
    BY <1>4, <2>2
  <2>. QED  BY <2>2, <2>3, <2>4, <2>5 DEF LoadTaken
<1>7. CASE wire' = wire /\ ~Expected(step)
  <2>1. asked \subseteq {"state"}
    BY <1>4, <1>7 DEF FreshInv, ControlOK
  <2>2. Calm(wire')
    BY <1>5, <1>7 DEF FreshInv, ControlOK, WireExpected, Calm
  <2>3. EventOnWire => EventOnWire'
    BY <1>7 DEF EventOnWire
  <2>4. LoadTaken
    BY <1>7, <2>1, <2>2, <2>3 DEF FreshInv, OrderOK, LoadTaken
  <2>5. wire # <<>> => wire # Tail(wire)
    BY <1>1 DEF BackTypes
  <2>. QED  BY <1>7, <2>4, <2>5
<1>. QED  BY <1>6, <1>7

\* A load step keeps what is owed and the parts of the invariant that are not
\* about the caches.
LEMMA LoadFrame ==
    ASSUME Inv, FreshInv, step \in {"schema", "labels", "values"}, LoadTaken,
           UNCHANGED <<backendVars, clientVars, gridVars, columns, rows, task, pending, lost>>,
           step' \in {"labels", "values", "idle"}, step' = "idle" => pending = None,
           \/ asked' = asked
           \/ asked' = asked \cup {"labels"} /\ step' = "labels"
           \/ asked' = asked \cup {"values"} /\ step' = "values" /\ wanted'.columns # {}
    PROVE  /\ OrderOK' /\ RepliesOK' /\ ShapeOK' /\ ControlOK'
           /\ DataOwed => DataOwed'
           /\ SchemaOwed => SchemaOwed'
<1>1. \A flag : Owed(flag) => Owed(flag)'
  BY DEF Owed
<1>2. (DataDue => DataDue') /\ (DataOwed => DataOwed')
  BY <1>1 DEF DataDue, HandlerDue, DataOwed, LoadTaken, clientVars, gridVars
<1>3. SchemaOwed => SchemaOwed'
  BY <1>1 DEF SchemaOwed, SchemaHandlerDue, LoadTaken, clientVars, gridVars
<1>4. \A i \in DOMAIN wire' : wire'[i].kind \notin {"schema", "labels", "values"}
  BY DEF LoadTaken, Calm, Events
<1>5. OrderOK'
  <2>1. \A i \in DOMAIN wire' : wire'[i].kind \notin asked'
    BY <1>4 DEF LoadTaken
  <2>. QED  BY <2>1 DEF LoadTaken, OrderOK
<1>6. RepliesOK'
  BY <1>4 DEF RepliesOK
<1>7. ShapeOK'
  BY <1>2 DEF FreshInv, ShapeOK, LoadTaken, backendVars, clientVars, gridVars
<1>8. ControlOK'
  <2>1. "state" \in asked => statePromise = "pending"
    BY DEF FreshInv, ControlOK, Expected
  <2>2. \A k \in asked' : Expected(k)'
    BY <2>1 DEF LoadTaken, Expected, clientVars, gridVars
  <2>3. \A i \in DOMAIN wire' : wire'[i].kind = "state" => statePromise = "pending"
    BY DEF FreshInv, ControlOK, WireExpected, Expected, LoadTaken
  <2>4. WireExpected'
    BY <1>4, <2>3 DEF WireExpected, Expected, clientVars, gridVars
  <2>. QED  BY <2>2, <2>4 DEF FreshInv, ControlOK, clientVars, gridVars
<1>. QED  BY <1>2, <1>3, <1>5, <1>6, <1>7, <1>8

\* Unless a reload is owed, the update works with the size the table has.
LEMMA SizeFits ==
    ASSUME Inv, FreshInv, step \notin {"idle", "state"}, ~DataOwed
    PROVE  columns = shape.columns /\ rows = shape.rows
<1>1. task # None
  BY TaskFacts
<1>. QED  BY <1>1 DEF FreshInv, ShapeOK, DataOwed

\* Indices in the window are smaller than the size.
LEMMA WindowBound ==
    ASSUME Inv
    PROVE  (\A c \in WC : c < columns) /\ (\A r \in WR : r < rows)
<1>1. CacheTypes
  BY TypeParts, Zenon DEF Inv
<1>. QED  BY <1>1, BoundsAssumption DEF CacheTypes, WC, WR, WindowColumns, WindowRows, Window

\* A cell to load has its column in the selection.
LEMMA SelectionCovers ==
    ASSUME NEW load, load \subseteq WC \X WR,
           \A x \in load : "Data" \in task.flags \/ dataCache[x] = None,
           load # {}
    PROVE  Selected(task) # {}
<1>1. PICK c \in WC, r \in WR : <<c, r>> \in load
  OBVIOUS
<1>2. "Data" \in task.flags \/ dataCache[<<c, r>>] = None
  BY <1>1
<1>3. c \in Selected(task)
  BY <1>2 DEF Selected, WC, WR
<1>. QED  BY <1>3

\* The schema is there.
LEMMA SchemaLoadedFresh ==
    ASSUME Inv, FreshInv, SchemaLoaded
    PROVE  FreshInv'
<1>1. BackTypes /\ ClientTypes /\ CacheTypes /\ OtherTypes /\ UpdateTypes
  BY TypeParts, Zenon DEF Inv
<1>2. step = "schema" /\ UNCHANGED <<backendVars, clientVars, gridVars, columns, rows, task, pending, held, lost>>
  BY DEF SchemaLoaded
<1>. DEFINE got == IF wanted.schema = {} THEN {}
                   ELSE {c \in wanted.schema : c < Head(wire).shape.columns}
            cells == WindowColumns(task, columns) \X WindowRows(task, rows)
            loadCells == ToLoad(task, "Data", cells, {x \in Cells : dataCache[x] # None})
            loadLabels == ToLoad(task, "Data", WindowRows(task, rows),
                                 {r \in RowIndex : labelCache[r] # None})
<1>3. \/ wire # <<>> /\ Head(wire).kind = step /\ wire' = Tail(wire)
      \/ wire' = wire /\ ~Expected(step)
  BY <1>2 DEF SchemaLoaded, Arrives, Expected
<1>4. wanted.schema # {} => wire # <<>> /\ Head(wire).kind = "schema" /\ wire' = Tail(wire)
  BY DEF SchemaLoaded, Arrives
<1>5. /\ LoadTaken
      /\ wire' # wire \/ (wire # <<>> /\ wire' = Tail(wire)) => (Head(wire).shape # shape => EventOnWire')
  BY <1>2, <1>3, LoadTakes DEF backendVars
<1>6. schemaCache' = [c \in ColumnIndex |-> IF c \in got THEN Head(wire).at ELSE schemaCache[c]]
  BY DEF SchemaLoaded
<1>7. wanted' = [schema |-> {}, columns |-> Selected(task), cells |-> loadCells, labels |-> loadLabels]
  BY DEF SchemaLoaded
<1>8. \/ /\ step' = "labels" /\ asked' = asked \cup {"labels"} /\ UNCHANGED <<labelCache, dataCache>>
      \/ /\ step' = "values" /\ ClearData(task)
         /\ asked' = asked \cup (IF Selected(task) # {} THEN {"values"} ELSE {})
         /\ hasRowLabels => "Data" \notin task.flags /\ loadLabels = {}
  BY DEF SchemaLoaded, AskValues
<1>9. task # None /\ WC' = WC /\ WR' = WR
  BY <1>2, TaskFacts DEF WC, WR, WindowColumns, WindowRows, Window
<1>10. WC \subseteq ColumnIndex /\ WR \subseteq RowIndex /\ WC \X WR \subseteq Cells
  BY TypeParts, WindowInTable DEF Inv
<1>11. /\ loadCells \subseteq WC \X WR
       /\ \A x \in WC \X WR : x \in loadCells \/ ("Data" \notin task.flags /\ dataCache[x] # None)
       /\ \A x \in loadCells : "Data" \in task.flags \/ dataCache[x] = None
  BY <1>10 DEF ToLoad, WC, WR
<1>12. \A r \in WR : r \in loadLabels \/ ("Data" \notin task.flags /\ labelCache[r] # None)
  BY <1>10 DEF ToLoad, WC, WR
<1>13. wanted.schema # {} => Head(wire).at = schemaVersion \/ SchemaOwed
  BY <1>1, <1>4, TakenFacts DEF FreshInv, RepliesOK
<1>14. wanted.schema # {} => Head(wire).at \in Version
  BY <1>1, <1>4, WireFacts
<1>15. loadCells # {} => Selected(task) # {}
  <2>. HIDE DEF loadCells
  <2>. QED  BY <1>11, SelectionCovers
<1>16. ASSUME ~DataOwed', NEW c \in WC PROVE c \in got \/ schemaCache[c] # None
  <2>1. c \in wanted.schema \/ schemaCache[c] # None
    BY <1>2 DEF FreshInv, LoadedOK
  <2>2. ~DataOwed /\ ~EventOnWire'
    BY <1>2, <1>5, <1>16 DEF DataOwed, DataDue, HandlerDue, Owed, LoadTaken, clientVars, gridVars
  <2>3. columns = shape.columns /\ c < columns
    BY <1>2, <2>2, SizeFits, WindowBound
  <2>4. CASE c \in wanted.schema
    <3>1. Head(wire).shape = shape
      BY <1>4, <1>5, <2>2, <2>4
    <3>. QED  BY <2>3, <2>4, <3>1
  <2>. QED  BY <2>1, <2>4
<1>17. got # {} => wanted.schema # {}
  OBVIOUS
<1>. HIDE DEF got, cells, loadCells, loadLabels
<1>18. wanted'.cells = loadCells /\ wanted'.labels = loadLabels /\ wanted'.columns = Selected(task)
  BY <1>7
<1>19. /\ OrderOK' /\ RepliesOK' /\ ShapeOK' /\ ControlOK'
       /\ DataOwed => DataOwed'
       /\ SchemaOwed => SchemaOwed'
  <2>1. /\ step' \in {"labels", "values", "idle"} /\ step' # "idle"
        /\ \/ asked' = asked
           \/ asked' = asked \cup {"labels"} /\ step' = "labels"
           \/ asked' = asked \cup {"values"} /\ step' = "values" /\ wanted'.columns # {}
    BY <1>8, <1>18
  <2>. QED  BY <1>2, <1>5, <2>1, LoadFrame
<1>20. "Data" \notin task.flags => labelCache' = labelCache /\ dataCache' = dataCache
  BY <1>8 DEF ClearData
<1>21. step' = "values" /\ "Data" \in task.flags =>
               /\ \A r \in RowIndex : labelCache'[r] = None
               /\ \A x \in Cells : dataCache'[x] = None
  BY <1>1, <1>8, ClearDataLemma
<1>22. FreshOK'
  <2>1. \A c \in ColumnIndex : schemaCache'[c] \in {None, schemaVersion'} \/ SchemaOwed'
    BY <1>2, <1>6, <1>13, <1>17, <1>19 DEF FreshInv, FreshOK, SchemaBegun, backendVars
  <2>2. CASE step' = "labels"
    <3>1. UNCHANGED <<labelCache, dataCache>>
      BY <1>8, <2>2
    <3>2. DataBegun => DataBegun'
      BY <1>2, <2>2 DEF DataBegun
    <3>. QED  BY <1>2, <1>19, <2>1, <3>1, <3>2 DEF FreshInv, FreshOK, backendVars
  <2>3. CASE step' = "values"
    <3>1. CASE "Data" \in task.flags
      BY <1>2, <1>19, <1>21, <2>1, <2>3, <3>1 DEF FreshInv, FreshOK, backendVars
    <3>2. CASE "Data" \notin task.flags
      BY <1>2, <1>19, <1>20, <2>1, <3>2 DEF FreshInv, FreshOK, DataBegun, backendVars
    <3>. QED  BY <3>1, <3>2
  <2>. QED  BY <1>8, <2>2, <2>3
<1>23. LoadedOK'
  <2>1. step' \in {"labels", "values"} /\ task' = task
    BY <1>2, <1>8
  <2>2. DataOwed' \/ \A c \in WC' : schemaCache'[c] # None
    BY <1>6, <1>9, <1>10, <1>14, <1>16, <1>17, NoneAssumption
  <2>3. \A x \in WC \X WR : x \in loadCells \/ ("Data" \notin task.flags /\ dataCache'[x] # None)
    BY <1>11, <1>20
  <2>4. \A r \in WR : r \in loadLabels \/ ("Data" \notin task.flags /\ labelCache'[r] # None)
    BY <1>12, <1>20
  <2>5. hasRowLabels' = hasRowLabels
    BY DEF SchemaLoaded
  <2>6. step' = "values" /\ hasRowLabels => \A r \in WR : labelCache'[r] # None
    BY <1>8, <2>4
  <2>. QED  BY <1>9, <1>15, <1>18, <2>1, <2>2, <2>3, <2>4, <2>5, <2>6 DEF LoadedOK
<1>. QED  BY <1>19, <1>22, <1>23 DEF FreshInv

\* The row labels are there.
LEMMA LabelsLoadedFresh ==
    ASSUME Inv, FreshInv, LabelsLoaded
    PROVE  FreshInv'
<1>1. BackTypes /\ ClientTypes /\ CacheTypes /\ OtherTypes /\ UpdateTypes
  BY TypeParts, Zenon DEF Inv
<1>2. /\ step = "labels" /\ step' = "values"
      /\ UNCHANGED <<backendVars, clientVars, gridVars, columns, rows, schemaCache, task, pending, wanted, lost>>
      /\ wire # <<>> /\ Head(wire).kind = "labels" /\ wire' = Tail(wire)
      /\ ClearData(task)
      /\ asked' = asked \cup (IF wanted.columns # {} THEN {"values"} ELSE {})
  BY DEF LabelsLoaded, Arrives, AskValues
<1>3. held' = [rows |-> {r \in wanted.labels : r < Head(wire).shape.rows}, at |-> Head(wire).at]
  BY DEF LabelsLoaded
<1>4. LoadTaken /\ (Head(wire).shape # shape => EventOnWire')
  BY <1>2, LoadTakes DEF backendVars
<1>5. /\ OrderOK' /\ RepliesOK' /\ ShapeOK' /\ ControlOK'
      /\ DataOwed => DataOwed'
      /\ SchemaOwed => SchemaOwed'
  BY <1>2, <1>4, LoadFrame
<1>6. task # None /\ WC' = WC /\ WR' = WR
  BY <1>2, TaskFacts DEF WC, WR, WindowColumns, WindowRows, Window
<1>7. "Data" \notin task.flags => labelCache' = labelCache /\ dataCache' = dataCache
  BY <1>2 DEF ClearData
<1>8. "Data" \in task.flags => /\ \A r \in RowIndex : labelCache'[r] = None
                               /\ \A x \in Cells : dataCache'[x] = None
  BY <1>1, <1>2, ClearDataLemma
<1>9. Head(wire).at = dataVersion \/ DataOwed
  BY <1>1, <1>2, TakenFacts DEF FreshInv, RepliesOK
<1>10. held'.at = dataVersion \/ DataOwed
  BY <1>3, <1>9
<1>11. FreshOK'
  <2>1. \A c \in ColumnIndex : schemaCache'[c] \in {None, schemaVersion'} \/ SchemaOwed'
    BY <1>2, <1>5 DEF FreshInv, FreshOK, SchemaBegun, backendVars
  <2>2. CASE "Data" \in task.flags
    BY <1>2, <1>5, <1>8, <1>10, <2>1, <2>2 DEF FreshOK, backendVars
  <2>3. CASE "Data" \notin task.flags
    BY <1>2, <1>5, <1>7, <1>10, <2>1, <2>3 DEF FreshInv, FreshOK, DataBegun, backendVars
  <2>. QED  BY <2>2, <2>3
<1>12. ASSUME ~DataOwed', NEW r \in WR PROVE r \in held'.rows \/ labelCache'[r] # None
  <2>1. r \in wanted.labels \/ ("Data" \notin task.flags /\ labelCache[r] # None)
    BY <1>2 DEF FreshInv, LoadedOK
  <2>2. ~DataOwed /\ ~EventOnWire'
    BY <1>5, <1>12 DEF DataOwed
  <2>3. rows = shape.rows /\ r < rows /\ Head(wire).shape = shape
    BY <1>2, <1>4, <2>2, SizeFits, WindowBound
  <2>. QED  BY <1>3, <1>7, <2>1, <2>3
<1>13. LoadedOK'
  <2>1. \A x \in WC \X WR : x \in wanted.cells \/ ("Data" \notin task.flags /\ dataCache'[x] # None)
    BY <1>2, <1>7 DEF FreshInv, LoadedOK
  <2>2. DataOwed' \/ \A c \in WC' : schemaCache'[c] # None
    BY <1>2, <1>5, <1>6 DEF FreshInv, LoadedOK
  <2>3. wanted.cells # {} => wanted.columns # {}
    BY <1>2 DEF FreshInv, LoadedOK
  <2>. QED  BY <1>2, <1>6, <1>12, <2>1, <2>2, <2>3 DEF LoadedOK
<1>. QED  BY <1>5, <1>11, <1>13 DEF FreshInv

\* The values are there: the update ends, or the descriptor that waits begins.
LEMMA ValuesLoadedFresh ==
    ASSUME Inv, FreshInv, ValuesLoaded
    PROVE  FreshInv'
<1>1. BackTypes /\ ClientTypes /\ CacheTypes /\ OtherTypes /\ UpdateTypes
  BY TypeParts, Zenon DEF Inv
<1>2. step = "values" /\ Finish /\ UNCHANGED <<backendVars, clientVars, gridVars>>
      /\ held' = [rows |-> {}, at |-> 0]
  BY DEF ValuesLoaded
<1>. DEFINE got == IF wanted.columns = {} THEN {}
                   ELSE {x \in wanted.cells : /\ x[1] < Head(wire).shape.columns
                                              /\ x[2] < Head(wire).shape.rows}
<1>3. \/ wire # <<>> /\ Head(wire).kind = step /\ wire' = Tail(wire)
      \/ wire' = wire /\ ~Expected(step)
  BY <1>2 DEF ValuesLoaded, Arrives, Expected
<1>4. wanted.columns # {} => wire # <<>> /\ Head(wire).kind = "values" /\ wire' = Tail(wire)
  BY DEF ValuesLoaded, Arrives
<1>5. /\ LoadTaken
      /\ wire' # wire \/ (wire # <<>> /\ wire' = Tail(wire)) => (Head(wire).shape # shape => EventOnWire')
  BY <1>2, <1>3, LoadTakes DEF backendVars
<1>6. /\ dataCache' = [x \in Cells |-> IF x \in got THEN Head(wire).at ELSE dataCache[x]]
      /\ labelCache' = [r \in RowIndex |-> IF r \in held.rows THEN held.at ELSE labelCache[r]]
  BY DEF ValuesLoaded
<1>7. task # None
  BY <1>2, TaskFacts
<1>8. WC \subseteq ColumnIndex /\ WR \subseteq RowIndex /\ WC \X WR \subseteq Cells
  BY TypeParts, WindowInTable DEF Inv
<1>9. wanted.columns # {} => (Head(wire).at = dataVersion \/ DataOwed) /\ Head(wire).at \in Version
  <2>1. wanted.columns # {} => Head(wire).at = dataVersion \/ DataOwed
    BY <1>1, <1>4, TakenFacts DEF FreshInv, RepliesOK
  <2>. QED  BY <1>1, <1>4, <2>1, WireFacts
<1>10. got # {} => wanted.columns # {}
  OBVIOUS
<1>11. held.at \in Version /\ (held.rows # {} => held.at = dataVersion \/ DataOwed)
  BY <1>1 DEF UpdateTypes, Holdings, FreshInv, FreshOK
<1>12. /\ \A x \in Cells : dataCache'[x] \in {None, dataVersion} \/ DataOwed
       /\ \A r \in RowIndex : labelCache'[r] \in {None, dataVersion} \/ DataOwed
  <2>. HIDE DEF got
  <2>1. ~DataBegun
    BY <1>2 DEF DataBegun
  <2>2. ASSUME NEW x \in Cells PROVE dataCache'[x] \in {None, dataVersion} \/ DataOwed
    BY <1>6, <1>9, <1>10, <2>1 DEF FreshInv, FreshOK
  <2>3. ASSUME NEW r \in RowIndex PROVE labelCache'[r] \in {None, dataVersion} \/ DataOwed
    BY <1>6, <1>11, <2>1 DEF FreshInv, FreshOK
  <2>. QED  BY <2>2, <2>3
<1>13. CASE pending # None
  <2>1. Begin(pending) /\ pending' = None /\ pending \in Descriptors
    BY <1>1, <1>2, <1>13 DEF Finish, UpdateTypes
  <2>2. StartFact(pending)
    BY <1>1, <2>1, BeginStarts
  <2>3. /\ Owed("Data") => Owed("Data")' \/ "Data" \in pending.flags
        /\ Owed("Schema") => Owed("Schema")' \/ "Schema" \in pending.flags
    BY <1>2, <2>1, BeginOwes
  <2>4. DataOwed => DataOwed' \/ "Data" \in pending.flags
    BY <1>2, <1>5, <2>3 DEF DataDue, HandlerDue, DataOwed, LoadTaken, clientVars, gridVars
  <2>5. SchemaOwed => SchemaOwed' \/ "Schema" \in pending.flags
    BY <1>2, <1>5, <2>3 DEF SchemaOwed, SchemaHandlerDue, LoadTaken, clientVars, gridVars
  <2>6. held'.rows = {}
    BY <1>2
  <2>7. cachedState # shape => EventOnWire' \/ statePromise # "none"
    BY <1>5 DEF FreshInv, ShapeOK, LoadTaken
  <2>8. /\ \A x \in Cells : dataCache'[x] \in {None, dataVersion} \/ DataOwed' \/ "Data" \in pending.flags
        /\ \A r \in RowIndex : labelCache'[r] \in {None, dataVersion} \/ DataOwed' \/ "Data" \in pending.flags
    BY <1>12, <2>4
  <2>9. \A c \in ColumnIndex : schemaCache[c] \in {None, schemaVersion} \/ SchemaOwed' \/ "Schema" \in pending.flags
    BY <1>2, <2>5 DEF FreshInv, FreshOK, SchemaBegun
  <2>10. ControlOK /\ UNCHANGED <<backendVars, cachedState, statePromise, waiting>>
    BY <1>2 DEF FreshInv, clientVars, gridVars
  <2>11. /\ asked \subseteq {"state"} /\ Calm(wire')
         /\ \A i \in DOMAIN wire' : \E j \in DOMAIN wire : wire'[i] = wire[j]
         /\ \A i \in DOMAIN wire' : wire'[i].shape # shape' =>
               \E j \in DOMAIN wire' : j > i /\ wire'[j].kind \in Events
         /\ \A i, j \in DOMAIN wire' : wire'[i].kind \in Rpcs /\ wire'[i].kind = wire'[j].kind => i = j
         /\ \A i \in DOMAIN wire' : wire'[i].kind \notin asked
    BY <1>5 DEF LoadTaken
  <2>. QED  BY <2>1, <2>2, <2>6, <2>7, <2>8, <2>9, <2>10, <2>11, StartIsFresh
<1>14. CASE pending = None
  <2>1. /\ step' = "idle"
        /\ UNCHANGED <<task, pending, lost, asked, columns, rows, schemaCache>>
    BY <1>2, <1>14 DEF Finish
  <2>2. hasRowLabels' = hasRowLabels
    BY <1>2, <1>14 DEF Finish
  <2>3. /\ OrderOK' /\ RepliesOK' /\ ShapeOK' /\ ControlOK'
        /\ DataOwed => DataOwed'
        /\ SchemaOwed => SchemaOwed'
    BY <1>2, <1>5, <1>14, <2>1, LoadFrame
  <2>4. WC' = WC /\ WR' = WR
    BY <2>1 DEF WC, WR, WindowColumns, WindowRows, Window
  <2>5. FreshOK'
    <3>1. \A c \in ColumnIndex : schemaCache'[c] \in {None, schemaVersion'} \/ SchemaOwed'
      BY <1>2, <2>1, <2>3 DEF FreshInv, FreshOK, SchemaBegun, backendVars
    <3>. QED  BY <1>2, <1>12, <2>3, <3>1 DEF FreshOK, backendVars
  <2>6. ASSUME ~DataOwed', NEW x \in WC \X WR PROVE dataCache'[x] # None
    <3>1. x \in wanted.cells \/ dataCache[x] # None
      BY <1>2 DEF FreshInv, LoadedOK
    <3>2. ~DataOwed /\ ~EventOnWire'
      BY <2>3, <2>6 DEF DataOwed
    <3>3. /\ columns = shape.columns /\ rows = shape.rows /\ x[1] < columns /\ x[2] < rows
          /\ x \in Cells
      BY <1>2, <1>8, <3>2, SizeFits, WindowBound
    <3>4. CASE x \in wanted.cells
      <4>1. wanted.columns # {}
        BY <1>2, <3>4 DEF FreshInv, LoadedOK
      <4>2. Head(wire).shape = shape
        BY <1>4, <1>5, <3>2, <4>1
      <4>3. x \in got
        BY <3>3, <3>4, <4>1, <4>2
      <4>. HIDE DEF got
      <4>. QED  BY <1>6, <1>9, <3>3, <4>1, <4>3, NoneAssumption
    <3>5. CASE dataCache[x] # None
      <4>. HIDE DEF got
      <4>. QED  BY <1>6, <1>9, <1>10, <3>3, <3>5, NoneAssumption
    <3>. QED  BY <3>1, <3>4, <3>5
  <2>7. ASSUME ~DataOwed', hasRowLabels, NEW r \in WR PROVE labelCache'[r] # None
    <3>1. r \in held.rows \/ labelCache[r] # None
      BY <1>2, <2>3, <2>7 DEF FreshInv, LoadedOK
    <3>. QED  BY <1>6, <1>8, <1>11, <3>1, NoneAssumption
  <2>8. DataOwed' \/ \A c \in WC' : schemaCache'[c] # None
    BY <1>2, <1>7, <2>1, <2>3, <2>4 DEF FreshInv, LoadedOK
  <2>9. LoadedOK'
    <3>. HIDE DEF got
    <3>. QED  BY <2>1, <2>2, <2>4, <2>6, <2>7, <2>8 DEF LoadedOK
  <2>. QED  BY <2>3, <2>5, <2>9 DEF FreshInv
<1>. QED  BY <1>13, <1>14

\* Freshness holds of an empty cache.
LEMMA InitFresh ==
    ASSUME Init
    PROVE  FreshInv
BY DEF Init, FreshInv, OrderOK, RepliesOK, ControlOK, WireExpected, ShapeOK, FreshOK, LoadedOK

\* Every step keeps it.
LEMMA NextFresh ==
    ASSUME Inv, FreshInv, [Next]_vars
    PROVE  FreshInv'
<1>1. BackTypes /\ ClientTypes
  BY TypeParts, Zenon DEF Inv
<1>2. ASSUME NEW sh \in Shapes, DataChange(sh) PROVE FreshInv'
  <2>. DEFINE m == [kind |-> "dataUpdate", at |-> dataVersion', shape |-> sh]
  <2>1. m \in Messages
    BY <1>1, <1>2, BoundsAssumption DEF DataChange, BackTypes, Version, Messages
  <2>2. m.shape = sh /\ m.kind = "dataUpdate"
    OBVIOUS
  <2>3. /\ shape' = sh /\ wire' = Append(wire, m) /\ schemaVersion' = schemaVersion
        /\ UNCHANGED <<asked, clientVars, gridVars, cacheVars, updateVars>>
    BY <1>2 DEF DataChange
  <2>. HIDE DEF m
  <2>. QED  BY <2>1, <2>2, <2>3, TableFresh
<1>3. ASSUME NEW sh \in Shapes, SchemaChange(sh) PROVE FreshInv'
  <2>. DEFINE m == [kind |-> "schemaUpdate", at |-> schemaVersion', shape |-> sh]
  <2>1. m \in Messages
    BY <1>1, <1>3, BoundsAssumption DEF SchemaChange, BackTypes, Version, Messages
  <2>2. m.shape = sh /\ m.kind = "schemaUpdate"
    OBVIOUS
  <2>3. /\ shape' = sh /\ wire' = Append(wire, m)
        /\ UNCHANGED <<asked, clientVars, gridVars, cacheVars, updateVars>>
    BY <1>3 DEF SchemaChange
  <2>. HIDE DEF m
  <2>. QED  BY <2>1, <2>2, <2>3, TableFresh
<1>4. ASSUME NEW s \in Screens, Scroll(s) PROVE FreshInv'
  <2>. DEFINE d == [screen |-> s, flags |-> {}]
  <2>1. d \in Descriptors
    BY DEF Descriptors, Flags
  <2>2. /\ Update(d) /\ (HandlerDue => HandlerDue') /\ (SchemaHandlerDue => SchemaHandlerDue')
        /\ UNCHANGED <<backendVars, wire, cachedState, statePromise, waiting, labelCache, dataCache, held>>
    BY <1>4 DEF Scroll, clientVars, gridVars, HandlerDue, SchemaHandlerDue
  <2>. HIDE DEF d
  <2>. QED  BY <2>1, <2>2, UpdateFresh
<1>5. ASSUME NEW s \in Screens, NEW h \in Handlers, FetchAfterEvent(h, s) PROVE FreshInv'
  <2>. DEFINE d == [screen |-> s, flags |-> h.flags]
  <2>1. d \in Descriptors /\ d.flags = h.flags /\ "Data" \in h.flags
    BY DEF Descriptors, Flags, Handlers
  <2>2. /\ Update(d) /\ HandlerEnds(h)
        /\ UNCHANGED <<backendVars, wire, cachedState, statePromise, waiting, labelCache, dataCache, held>>
    BY <1>5 DEF FetchAfterEvent, HandlerEnds, clientVars
  <2>. HIDE DEF d
  <2>3. SchemaHandlerDue => SchemaHandlerDue' \/ "Schema" \in d.flags
    BY <1>1, <2>1, <2>2, HandlerEndsOwes
  <2>. QED  BY <2>1, <2>2, <2>3, UpdateFresh
<1>6. CASE UNCHANGED vars
  <2>1. /\ UNCHANGED <<shape, dataVersion, schemaVersion, wire, asked, clientVars, gridVars, cacheVars, updateVars>>
    BY <1>6 DEF vars, backendVars
  <2>2. EventOnWire <=> EventOnWire'
    BY <2>1 DEF EventOnWire
  <2>3. DataDue <=> DataDue'
    BY <2>1 DEF DataDue, HandlerDue, Owed, clientVars, gridVars, updateVars
  <2>4. DataOwed <=> DataOwed'
    BY <2>1, <2>2, <2>3 DEF DataOwed, clientVars, gridVars
  <2>5. SchemaOwed <=> SchemaOwed'
    BY <2>1 DEF SchemaOwed, SchemaHandlerDue, Owed, clientVars, gridVars, updateVars
  <2>6. FreshOK' /\ LoadedOK'
    BY <2>1, <2>4, <2>5, CacheFrame DEF FreshInv, updateVars
  <2>7. ShapeOK'
    BY <2>1, <2>2, <2>3 DEF FreshInv, ShapeOK, clientVars, gridVars, cacheVars, updateVars
  <2>8. ControlOK'
    BY <2>1 DEF FreshInv, ControlOK, WireExpected, Expected, clientVars, gridVars, updateVars
  <2>9. OrderOK'
    BY <2>1 DEF FreshInv, OrderOK
  <2>10. RepliesOK'
    BY <2>1, <2>4, <2>5 DEF FreshInv, RepliesOK
  <2>. QED  BY <2>6, <2>7, <2>8, <2>9, <2>10 DEF FreshInv
<1>7. CASE Next
  BY <1>2, <1>3, <1>4, <1>5, <1>7, DropsFacts, DropFresh, ReplyFresh, SortFresh, NotifiedFresh, StateArrivesFresh, StateFailsFresh,
     StateLoadedFresh, SchemaLoadedFresh, LabelsLoadedFresh, ValuesLoadedFresh, UpdateFailsFresh,
     TrimCacheFresh, Zenon DEF Next, Continue
<1>. QED  BY <1>6, <1>7

\* What a screen shows of the table lies in the window around it.
LEMMA ShownInWindow ==
    ASSUME NEW first \in Nat, NEW extent \in Nat, NEW count \in Nat, NEW i \in Nat,
           first <= i, i < count, i < first + extent
    PROVE  i \in Window(first, extent, count)
<1>. DEFINE overscan == extent * OverscanFactor
<1>1. ASSUME NEW a \in Nat, NEW b \in Nat PROVE a * b \in Nat
  OBVIOUS
<1>2. overscan \in Nat
  BY <1>1, BoundsAssumption
<1>. HIDE DEF overscan
<1>3. first <= i + overscan /\ i <= first + extent + overscan /\ i \in 0..(count - 1)
  BY <1>2
<1>. QED  BY <1>3 DEF Window, overscan

\* The visible columns and rows lie in the window.
LEMMA VisibleInWindow ==
    ASSUME Inv, task # None
    PROVE  VisibleColumns \subseteq WC /\ VisibleRows \subseteq WR
<1>1. CacheTypes /\ UpdateTypes
  BY TypeParts, Zenon DEF Inv
<1>2. task \in Descriptors /\ task.screen \in [column : Nat, columns : Nat, row : Nat, rows : Nat]
  BY <1>1, DescriptorFacts, ScreensAssumption DEF UpdateTypes
<1>3. /\ task.screen.column \in Nat /\ task.screen.columns \in Nat
      /\ task.screen.row \in Nat /\ task.screen.rows \in Nat
  BY <1>2
<1>4. columns \in Nat /\ rows \in Nat /\ ColumnIndex \subseteq Nat /\ RowIndex \subseteq Nat
  BY <1>1, BoundsAssumption DEF CacheTypes, ColumnIndex, RowIndex
<1>5. ASSUME NEW c \in VisibleColumns PROVE c \in WC
  <2>1. c \in Nat /\ task.screen.column <= c /\ c < columns /\ c < task.screen.column + task.screen.columns
    BY <1>4 DEF VisibleColumns
  <2>. QED  BY <1>3, <1>4, <2>1, ShownInWindow DEF WC, WindowColumns
<1>6. ASSUME NEW r \in VisibleRows PROVE r \in WR
  <2>1. r \in Nat /\ task.screen.row <= r /\ r < rows /\ r < task.screen.row + task.screen.rows
    BY <1>4 DEF VisibleRows
  <2>. QED  BY <1>3, <1>4, <2>1, ShownInWindow DEF WR, WindowRows
<1>. QED  BY <1>5, <1>6

\* At rest, with nothing lost, nothing is owed, and the window is current.
LEMMA FreshAtRest ==
    ASSUME Inv, FreshInv
    PROVE  ScreenIsCurrent
<1>. SUFFICES ASSUME AtRest, lost = {}
              PROVE  /\ columns = shape.columns /\ rows = shape.rows
                     /\ \A c \in VisibleColumns : schemaCache[c] = schemaVersion
                     /\ \A x \in VisibleColumns \X VisibleRows : dataCache[x] = dataVersion
                     /\ hasRowLabels => \A r \in VisibleRows : labelCache[r] = dataVersion
  BY DEF ScreenIsCurrent
<1>1. /\ step = "idle" /\ statePromise = "none" /\ wire = <<>>
      /\ \A h \in Handlers : due[h] = 0
      /\ task # None
  BY DEF AtRest
<1>2. pending = None /\ waiting = {}
  BY <1>1 DEF FreshInv, ControlOK
<1>3. ~Owed("Data") /\ ~Owed("Schema") /\ ~EventOnWire
  BY <1>1, <1>2 DEF Owed, EventOnWire
<1>4. ~DataDue /\ ~DataOwed /\ ~SchemaOwed
  BY <1>1, <1>2, <1>3 DEF DataDue, HandlerDue, DataOwed, SchemaOwed, SchemaHandlerDue
<1>5. ~DataBegun /\ ~SchemaBegun
  BY <1>1 DEF DataBegun, SchemaBegun
<1>6. columns = shape.columns /\ rows = shape.rows
  BY <1>1, <1>3, <1>4 DEF FreshInv, ShapeOK
<1>7. VisibleColumns \subseteq WC /\ VisibleRows \subseteq WR
  BY <1>1, VisibleInWindow
<1>8. WC \subseteq ColumnIndex /\ WR \subseteq RowIndex /\ WC \X WR \subseteq Cells
  BY TypeParts, WindowInTable DEF Inv
<1>9. ASSUME NEW c \in VisibleColumns PROVE schemaCache[c] = schemaVersion
  <2>1. c \in WC /\ c \in ColumnIndex
    BY <1>7, <1>8
  <2>. QED  BY <1>1, <1>4, <1>5, <2>1 DEF FreshInv, FreshOK, LoadedOK
<1>10. ASSUME NEW x \in VisibleColumns \X VisibleRows PROVE dataCache[x] = dataVersion
  <2>1. x \in WC \X WR /\ x \in Cells
    BY <1>7, <1>8
  <2>. QED  BY <1>1, <1>4, <1>5, <2>1 DEF FreshInv, FreshOK, LoadedOK
<1>11. ASSUME hasRowLabels, NEW r \in VisibleRows PROVE labelCache[r] = dataVersion
  <2>1. r \in WR /\ r \in RowIndex
    BY <1>7, <1>8
  <2>. QED  BY <1>1, <1>4, <1>5, <1>11, <2>1 DEF FreshInv, FreshOK, LoadedOK
<1>. QED  BY <1>6, <1>9, <1>10, <1>11

\* At rest the grid shows the table as it is, unless an invalidation that was
\* due did not take place: overwritten by a scroll, dropped because the layout
\* was empty, or never sent because an RPC for the layout failed; whatever
\* changed, in whatever order answers, events, timers and scrolls came, for a
\* table, screens and an overscan of any size.
THEOREM GridShowsTheTable == Spec => []ScreenIsCurrent
<1>1. Init => FreshInv
  BY InitFresh
<1>2. Inv /\ FreshInv /\ [Next]_vars => FreshInv'
  BY NextFresh
<1>3. Inv /\ FreshInv => ScreenIsCurrent
  BY FreshAtRest
<1>. QED  BY <1>1, <1>2, <1>3, Invariance, PTL DEF Spec
==============================================================================
