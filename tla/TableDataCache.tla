--------------------------- MODULE TableDataCache ---------------------------
(* The cache between a data explorer's grid and the kernel that owns the     *)
(* table: TableDataCache.update with its trim timer, the calls of the grid   *)
(* that lead to it, and the part of DataExplorerClientInstance that refreshes *)
(* the backend state.                                                        *)
(*                                                                           *)
(* Contents are versions: dataVersion and schemaVersion count the changes of *)
(* the table, and a cached cell, label or schema carries the version the     *)
(* backend had when it answered.  `wire` is the ordered connection from the  *)
(* backend.  update() is split at its awaits (`step`); a continuation that   *)
(* waits for nothing runs before the next event (Quiet).  A handler of an    *)
(* event computes the layout, with RPCs of its own that take any time and    *)
(* may fail, and only then fetches data (`due`).                             *)
EXTENDS Integers, Sequences

CONSTANTS
    MaxColumns, MaxRows, \* bounds on the table's size
    Shapes,              \* the sizes the table may take
    Screens,             \* what the grid may show: first column and row, extent
    OverscanFactor,      \* OVERSCAN_FACTOR
    MaxChanges,          \* bound on the changes of the table
    MaxCalls,            \* bound on the calls caused by scrolling
    MayFail,             \* whether an RPC may fail or time out
    None                 \* nothing cached, no descriptor, no timer

ColumnIndex == 0..(MaxColumns - 1)
RowIndex == 0..(MaxRows - 1)
Version == 0..MaxChanges

ASSUME ShapesAssumption ==
    Shapes \subseteq [columns : 0..MaxColumns, rows : 0..MaxRows, labels : BOOLEAN]
ASSUME ScreensAssumption ==
    Screens \subseteq [column : Nat, columns : Nat, row : Nat, rows : Nat]
ASSUME BoundsAssumption ==
    /\ MaxColumns \in Nat /\ MaxRows \in Nat /\ MaxChanges \in Nat /\ MaxCalls \in Nat
    /\ OverscanFactor \in Nat
    /\ MayFail \in BOOLEAN
ASSUME NoneAssumption ==
    /\ None \notin Version
    /\ None \notin Shapes
    /\ None \notin [screen : Screens, flags : {{}, {"Data"}, {"Schema", "Data"}}]

VARIABLES
    shape, dataVersion, schemaVersion,  \* the table in the kernel
    wire,           \* replies and events on their way to the workbench
    asked,          \* kinds of RPCs the backend has not answered
    cachedState,    \* cachedBackendState.table_shape of the client
    statePromise,   \* _backendPromise: "none", "pending" or "rejected"
    waiting,        \* event handlers that await updateBackendState
    layout,         \* columns and rows of the layout managers of the grid
    due,            \* handlers that compute the layout before they fetch data
    step,           \* await of update(); any but "idle" means _updating
    task,           \* descriptor of the update in progress, or of the last one
    pending,        \* _pendingUpdateDescriptor
    columns, rows, hasRowLabels, \* _columns, _rows, _hasRowLabels
    schemaCache,    \* _columnSchemaCache
    labelCache,     \* _rowLabelCache
    dataCache,      \* _dataColumnCache
    wanted,         \* what the update asked for and has not cached yet
    held,           \* row labels received but not cached yet
    trim,           \* descriptor of the trim timer
    lost,           \* history: invalidations that were due and did not take place
    calls           \* scroll calls so far

backendVars == <<shape, dataVersion, schemaVersion>>
clientVars == <<cachedState, statePromise, waiting>>
gridVars == <<layout, due>>
cacheVars == <<columns, rows, hasRowLabels, schemaCache, labelCache, dataCache>>
updateVars == <<step, task, pending, wanted, held, trim, lost>>
vars == <<backendVars, wire, asked, clientVars, gridVars, cacheVars, updateVars, calls>>

Flags == {{}, {"Data"}, {"Schema", "Data"}}
Descriptors == [screen : Screens, flags : Flags]
\* What a handler fetches, and the state it computes the layout from; None
\* for sortData, which leaves the layout alone.
Handlers == [flags : {{"Data"}, {"Schema", "Data"}}, shape : Shapes \cup {None}]
Rpcs == {"state", "schema", "labels", "values"}
Messages == [kind : Rpcs \cup {"dataUpdate", "schemaUpdate"}, at : Version, shape : Shapes]
Cells == ColumnIndex \X RowIndex
Nothing == [schema |-> {}, columns |-> {}, cells |-> {}, labels |-> {}]

TypeOK ==
    /\ shape \in Shapes /\ dataVersion \in Version /\ schemaVersion \in Version
    /\ wire \in Seq(Messages)
    /\ asked \subseteq Rpcs
    /\ cachedState \in Shapes
    /\ statePromise \in {"none", "pending", "rejected"}
    /\ waiting \subseteq {"dataUpdate", "schemaUpdate"}
    /\ layout \in [columns : 0..MaxColumns, rows : 0..MaxRows]
    /\ due \in [Handlers -> Nat]
    /\ step \in {"idle", "state", "schema", "labels", "values", "failed"}
    /\ task \in Descriptors \cup {None}
    /\ pending \in Descriptors \cup {None}
    /\ columns \in 0..MaxColumns /\ rows \in 0..MaxRows /\ hasRowLabels \in BOOLEAN
    /\ schemaCache \in [ColumnIndex -> Version \cup {None}]
    /\ labelCache \in [RowIndex -> Version \cup {None}]
    /\ dataCache \in [Cells -> Version \cup {None}]
    /\ wanted \in [schema : SUBSET ColumnIndex, columns : SUBSET ColumnIndex,
                   cells : SUBSET Cells, labels : SUBSET RowIndex]
    /\ held \in [rows : SUBSET RowIndex, at : Version]
    /\ trim \in Descriptors \cup {None}
    /\ lost \subseteq {"Schema", "Data"}
    /\ calls \in 0..MaxCalls

\* The client has its first state, and the grid computes its first layout.
Init ==
    /\ shape \in Shapes /\ cachedState = shape
    /\ dataVersion = 0 /\ schemaVersion = 0
    /\ wire = <<>> /\ asked = {}
    /\ statePromise = "none" /\ waiting = {}
    /\ layout = [columns |-> 0, rows |-> 0]
    /\ due = [h \in Handlers |-> IF h = [flags |-> {"Data"}, shape |-> shape] THEN 1 ELSE 0]
    /\ step = "idle" /\ task = None /\ pending = None
    /\ columns = 0 /\ rows = 0 /\ hasRowLabels = FALSE
    /\ schemaCache = [c \in ColumnIndex |-> None]
    /\ labelCache = [r \in RowIndex |-> None]
    /\ dataCache = [x \in Cells |-> None]
    /\ wanted = Nothing
    /\ held = [rows |-> {}, at |-> 0]
    /\ trim = None /\ lost = {} /\ calls = 0

-----------------------------------------------------------------------------
(* The table in the kernel *)

Message(k) ==
    [kind |-> k, at |-> IF k \in {"schema", "schemaUpdate"} THEN schemaVersion ELSE dataVersion,
     shape |-> shape]

\* The data of the table change, and perhaps the number of rows.
DataChange(sh) ==
    /\ dataVersion < MaxChanges
    /\ sh.columns = shape.columns
    /\ dataVersion' = dataVersion + 1
    /\ shape' = sh
    /\ wire' = Append(wire, [kind |-> "dataUpdate", at |-> dataVersion', shape |-> sh])
    /\ UNCHANGED <<schemaVersion, asked, clientVars, gridVars, cacheVars, updateVars, calls>>

\* The columns of the table change, and with them the data.
SchemaChange(sh) ==
    /\ dataVersion < MaxChanges
    /\ schemaVersion < MaxChanges
    /\ dataVersion' = dataVersion + 1
    /\ schemaVersion' = schemaVersion + 1
    /\ shape' = sh
    /\ wire' = Append(wire, [kind |-> "schemaUpdate", at |-> schemaVersion', shape |-> sh])
    /\ UNCHANGED <<asked, clientVars, gridVars, cacheVars, updateVars, calls>>

\* The backend answers an RPC.
Reply(k) ==
    /\ k \in asked
    /\ asked' = asked \ {k}
    /\ wire' = Append(wire, Message(k))
    /\ UNCHANGED <<backendVars, clientVars, gridVars, cacheVars, updateVars, calls>>

\* The next message from the backend.
Arrives(k) == wire # <<>> /\ Head(wire).kind = k

-----------------------------------------------------------------------------
(* update() *)

\* Seeded fault: the end of the window lies one beyond the table.
WindowPastEnd(first, extent, count) ==
    {i \in 0..count :
        /\ first <= i + extent * OverscanFactor
        /\ i <= first + extent + extent * OverscanFactor}

\* Indices cached around a screen: the screen, one more, and the overscan on
\* both sides, within the table.
Window(first, extent, count) ==
    {i \in 0..(count - 1) :
        /\ first <= i + extent * OverscanFactor
        /\ i <= first + extent + extent * OverscanFactor}

WindowColumns(d, n) == Window(d.screen.column, d.screen.columns, n)
WindowRows(d, n) == Window(d.screen.row, d.screen.rows, n)

\* A continuation of update() that waits for no message.
Quiet ==
    /\ ~(step = "state" /\ statePromise # "pending")
    /\ ~(step = "schema" /\ wanted.schema = {})
    /\ ~(step = "values" /\ wanted.columns = {})

\* Seeded fault: a flag that is set does not make update() load everything.
ToLoadUncached(d, flag, all, cached) == all \ cached

\* What has to be loaded: all of it when the cache is invalidated, otherwise
\* what is not cached.
ToLoad(d, flag, all, cached) == IF flag \in d.flags THEN all ELSE all \ cached

\* The size of the table is known: the schema to load is determined, and the
\* schema cache cleared if it is invalidated.
WithState(d) ==
    LET cached == {c \in ColumnIndex : schemaCache[c] # None}
        load == ToLoad(d, "Schema", WindowColumns(d, cachedState.columns), cached)
    IN /\ columns' = cachedState.columns
       /\ rows' = cachedState.rows
       /\ hasRowLabels' = cachedState.labels
       /\ schemaCache' = IF "Schema" \in d.flags
                         THEN [c \in ColumnIndex |-> None] ELSE schemaCache
       /\ wanted' = [Nothing EXCEPT !.schema = load]
       /\ asked' = asked \cup (IF load # {} THEN {"schema"} ELSE {})
       /\ step' = "schema"

\* Seeded fault: the trim timer of the last update goes on running.
BeginKeepingTimer(d) ==
    /\ task' = d
    /\ UNCHANGED trim
    /\ lost' = lost \ d.flags
    /\ statePromise = "none" /\ WithState(d)

\* The beginning of an update: the trim timer is cleared, the state awaited.
Begin(d) ==
    /\ task' = d
    /\ trim' = None
    /\ lost' = lost \ d.flags
    /\ CASE statePromise = "none" -> WithState(d)
         [] statePromise = "pending" ->
               /\ step' = "state"
               /\ UNCHANGED <<columns, rows, hasRowLabels, schemaCache, wanted, asked>>
         [] statePromise = "rejected" ->
               /\ step' = "failed"
               /\ UNCHANGED <<columns, rows, hasRowLabels, schemaCache, wanted, asked>>

\* During an update the new descriptor replaces the one that waits, whose
\* invalidation is lost unless the new one repeats it.
KeepDescriptor(d) ==
    /\ pending' = d
    /\ lost' = (lost \cup (IF pending # None THEN pending.flags ELSE {})) \ d.flags

Update(d) ==
    IF step # "idle"
    THEN /\ KeepDescriptor(d)
         /\ UNCHANGED <<step, task, wanted, trim, asked, columns, rows, hasRowLabels, schemaCache>>
    ELSE /\ Begin(d)
         /\ UNCHANGED pending

\* The state that the update awaited is there.
StateLoaded ==
    /\ step = "state"
    /\ \/ statePromise = "none" /\ WithState(task)
       \/ /\ statePromise = "rejected"
          /\ step' = "failed"
          /\ UNCHANGED <<columns, rows, hasRowLabels, schemaCache, wanted, asked>>
    /\ UNCHANGED <<backendVars, wire, clientVars, gridVars, labelCache, dataCache, task,
                   pending, held, trim, lost, calls>>

\* Seeded fault: the data cache is kept although it is invalidated.
ClearNothing(d) == UNCHANGED <<labelCache, dataCache>>

\* The data cache is cleared, if it is invalidated.
ClearData(d) ==
    IF "Data" \in d.flags
    THEN /\ labelCache' = [r \in RowIndex |-> None]
         /\ dataCache' = [x \in Cells |-> None]
    ELSE UNCHANGED <<labelCache, dataCache>>

\* Columns with a selection: all of them when the cache is invalidated,
\* otherwise those that are not cached or lack a row of the window.
Selected(d) ==
    {c \in WindowColumns(d, columns) :
        \/ "Data" \in d.flags
        \/ \A r \in RowIndex : dataCache[<<c, r>>] = None
        \/ \E r \in WindowRows(d, rows) : dataCache[<<c, r>>] = None}

\* No request is sent for an empty selection.
AskValues(selected) ==
    /\ step' = "values"
    /\ asked' = asked \cup (IF selected # {} THEN {"values"} ELSE {})

\* The schema is there: it is cached, and the cells and labels to load are
\* determined.
SchemaLoaded ==
    LET got == IF wanted.schema = {} THEN {}
               ELSE {c \in wanted.schema : c < Head(wire).shape.columns}
        cells == WindowColumns(task, columns) \X WindowRows(task, rows)
        loadCells == ToLoad(task, "Data", cells, {x \in Cells : dataCache[x] # None})
        loadLabels == ToLoad(task, "Data", WindowRows(task, rows),
                             {r \in RowIndex : labelCache[r] # None})
        selected == Selected(task)
    IN /\ step = "schema"
       /\ IF wanted.schema = {} THEN UNCHANGED wire
          ELSE Arrives("schema") /\ wire' = Tail(wire)
       /\ schemaCache' = [c \in ColumnIndex |->
                             IF c \in got THEN Head(wire).at ELSE schemaCache[c]]
       /\ wanted' = [schema |-> {}, columns |-> selected, cells |-> loadCells,
                     labels |-> loadLabels]
       /\ IF hasRowLabels /\ ("Data" \in task.flags \/ loadLabels # {})
          THEN /\ step' = "labels"
               /\ asked' = asked \cup {"labels"}
               /\ UNCHANGED <<labelCache, dataCache>>
          ELSE ClearData(task) /\ AskValues(selected)
       /\ UNCHANGED <<backendVars, clientVars, gridVars, columns, rows, hasRowLabels, task,
                      pending, held, trim, lost, calls>>

\* The row labels are there; they are kept until the values have come.
LabelsLoaded ==
    /\ step = "labels"
    /\ Arrives("labels")
    /\ wire' = Tail(wire)
    /\ held' = [rows |-> {r \in wanted.labels : r < Head(wire).shape.rows},
                at |-> Head(wire).at]
    /\ ClearData(task)
    /\ AskValues(wanted.columns)
    /\ UNCHANGED <<backendVars, clientVars, gridVars, columns, rows, hasRowLabels, schemaCache,
                   task, pending, wanted, trim, lost, calls>>

\* Seeded fault: the descriptor that waits is forgotten at the end.
FinishForgetting ==
    /\ step' = "idle"
    /\ trim' = IF task.flags # {"Schema", "Data"} THEN task ELSE None
    /\ wanted' = Nothing
    /\ pending' = None
    /\ UNCHANGED <<task, lost, asked, columns, rows, hasRowLabels, schemaCache>>

\* The end of an update: the descriptor that waits is taken up, or the trim
\* timer is set.
Finish ==
    IF pending # None THEN Begin(pending) /\ pending' = None
    ELSE /\ step' = "idle"
         /\ trim' = IF task.flags # {"Schema", "Data"} THEN task ELSE None
         /\ wanted' = Nothing
         /\ UNCHANGED <<task, pending, lost, asked, columns, rows, hasRowLabels, schemaCache>>

\* The values are there: cells and labels are cached, and the update ends.
ValuesLoaded ==
    LET got == IF wanted.columns = {} THEN {}
               ELSE {x \in wanted.cells : /\ x[1] < Head(wire).shape.columns
                                          /\ x[2] < Head(wire).shape.rows}
    IN /\ step = "values"
       /\ IF wanted.columns = {} THEN UNCHANGED wire
          ELSE Arrives("values") /\ wire' = Tail(wire)
       /\ dataCache' = [x \in Cells |-> IF x \in got THEN Head(wire).at ELSE dataCache[x]]
       /\ labelCache' = [r \in RowIndex |-> IF r \in held.rows THEN held.at ELSE labelCache[r]]
       /\ held' = [rows |-> {}, at |-> 0]
       /\ Finish
       /\ UNCHANGED <<backendVars, clientVars, gridVars, calls>>

\* An RPC of update() fails: update() throws, and _updating stays set.
UpdateFails ==
    /\ MayFail
    /\ step \in asked \ {"state"}
    /\ asked' = asked \ {step}
    /\ step' = "failed"
    /\ UNCHANGED <<backendVars, wire, clientVars, gridVars, cacheVars, task, pending, wanted,
                   held, trim, lost, calls>>

\* Columns and rows that the trim timer of an update keeps.
Kept(d) == [columns |-> WindowColumns(d, columns), rows |-> WindowRows(d, rows)]

\* The trim timer fires: what was not invalidated is trimmed to the window.
TrimCache ==
    LET kept == Kept(trim)
    IN /\ Quiet
       /\ trim # None
       /\ trim' = None
       /\ schemaCache' = [c \in ColumnIndex |->
              IF "Schema" \in trim.flags \/ c \in kept.columns THEN schemaCache[c] ELSE None]
       /\ labelCache' = [r \in RowIndex |->
              IF "Data" \in trim.flags \/ r \in kept.rows THEN labelCache[r] ELSE None]
       /\ dataCache' = [x \in Cells |->
              IF "Data" \in trim.flags \/ (x[1] \in kept.columns /\ x[2] \in kept.rows)
              THEN dataCache[x] ELSE None]
       /\ UNCHANGED <<backendVars, wire, asked, clientVars, gridVars, columns, rows,
                      hasRowLabels, step, task, pending, wanted, held, lost, calls>>

-----------------------------------------------------------------------------
(* Client and grid *)

\* updateBackendState: one request for the state at a time.
UpdateBackendState ==
    /\ statePromise' = IF statePromise = "none" THEN "pending" ELSE statePromise
    /\ asked' = asked \cup (IF statePromise = "none" THEN {"state"} ELSE {})

\* An event of the backend arrives; its handler refreshes the state first.
Notified ==
    /\ Quiet
    /\ \E k \in {"dataUpdate", "schemaUpdate"} :
          /\ Arrives(k)
          /\ waiting' = IF statePromise = "rejected" THEN waiting ELSE waiting \cup {k}
    /\ wire' = Tail(wire)
    /\ UpdateBackendState
    /\ UNCHANGED <<backendVars, cachedState, gridVars, cacheVars, updateVars, calls>>

\* The state arrives.  Its listener and the handlers that waited for it each
\* begin to compute the layout for it.
StateArrives ==
    LET more(h) == (IF h.flags = {"Data"} THEN 1 ELSE 0)
                   + (IF "dataUpdate" \in waiting /\ h.flags = {"Data"} THEN 1 ELSE 0)
                   + (IF "schemaUpdate" \in waiting /\ "Schema" \in h.flags THEN 1 ELSE 0)
    IN /\ Quiet
       /\ Arrives("state")
       /\ wire' = Tail(wire)
       /\ cachedState' = Head(wire).shape
       /\ statePromise' = "none"
       /\ waiting' = {}
       /\ due' = [h \in Handlers |->
                     due[h] + IF h.shape = Head(wire).shape THEN more(h) ELSE 0]
       /\ UNCHANGED <<backendVars, asked, layout, cacheVars, updateVars, calls>>

\* The request for the state fails: _backendPromise is never replaced.
StateFails ==
    /\ MayFail
    /\ Quiet
    /\ "state" \in asked
    /\ asked' = asked \ {"state"}
    /\ statePromise' = "rejected"
    /\ waiting' = {}
    /\ UNCHANGED <<backendVars, wire, cachedState, gridVars, cacheVars, updateVars, calls>>

\* The screen has a first column and a first row in a layout.
InLayout(s, l) == s.column < l.columns /\ s.row < l.rows

\* The layout once a handler has computed it.
LayoutOf(h) ==
    IF h.shape = None THEN layout
    ELSE [columns |-> h.shape.columns, rows |-> h.shape.rows]

\* A handler goes on after its last await.
HandlerEnds(h) ==
    /\ Quiet
    /\ due[h] > 0
    /\ due' = [due EXCEPT ![h] = @ - 1]
    /\ UNCHANGED <<backendVars, wire, clientVars, labelCache, dataCache, held, calls>>

\* The layout is set, and fetchData called with the screen shown by then; a
\* change of the schema has reset it to the origin.
FetchAfterEvent(h, s) ==
    /\ HandlerEnds(h)
    /\ layout' = LayoutOf(h)
    /\ InLayout(s, layout')
    /\ "Schema" \in h.flags => s.column = 0 /\ s.row = 0
    /\ Update([screen |-> s, flags |-> h.flags])

\* The layout has no first column or no first row: fetchData does nothing.
FetchNothing(h) ==
    /\ HandlerEnds(h)
    /\ layout' = LayoutOf(h)
    /\ layout'.columns = 0 \/ layout'.rows = 0
    /\ lost' = lost \cup h.flags
    /\ UNCHANGED <<asked, columns, rows, hasRowLabels, schemaCache, step, task,
                   pending, wanted, trim>>

\* An RPC for the layout fails, or the one that sorts: the handler throws
\* before it fetches anything.
HandlerFails(h) ==
    /\ MayFail
    /\ HandlerEnds(h)
    /\ h.shape # None => h.shape.columns > 0
    /\ lost' = lost \cup h.flags
    /\ UNCHANGED <<asked, layout, columns, rows, hasRowLabels, schemaCache, step,
                   task, pending, wanted, trim>>

\* fetchData because the user scrolls or resizes the grid.
Scroll(s) ==
    /\ Quiet
    /\ calls < MaxCalls
    /\ InLayout(s, layout)
    /\ calls' = calls + 1
    /\ Update([screen |-> s, flags |-> {}])
    /\ UNCHANGED <<backendVars, wire, clientVars, gridVars, labelCache, dataCache, held>>

\* sortData: the backend has sorted the rows, and an update is to follow.
Sort ==
    /\ Quiet
    /\ dataVersion < MaxChanges
    /\ dataVersion' = dataVersion + 1
    /\ due' = [due EXCEPT ![[flags |-> {"Data"}, shape |-> None]] = @ + 1]
    /\ UNCHANGED <<shape, schemaVersion, wire, asked, clientVars, layout,
                   cacheVars, updateVars, calls>>

-----------------------------------------------------------------------------
Continue == StateLoaded \/ SchemaLoaded \/ LabelsLoaded \/ ValuesLoaded

Next ==
    \/ \E sh \in Shapes : DataChange(sh) \/ SchemaChange(sh)
    \/ \E k \in Rpcs : Reply(k)
    \/ Continue
    \/ UpdateFails
    \/ TrimCache
    \/ Notified \/ StateArrives \/ StateFails
    \/ \E h \in Handlers : FetchNothing(h) \/ HandlerFails(h)
    \/ \E s \in Screens : Scroll(s) \/ \E h \in Handlers : FetchAfterEvent(h, s)
    \/ Sort

Spec == Init /\ [][Next]_vars

\* The backend answers, messages are handled and continuations run.  The user,
\* the table, the layouts and the trim timer owe nothing.
FairSpec ==
    /\ Spec
    /\ \A k \in Rpcs : WF_vars(Reply(k))
    /\ WF_vars(Continue)
    /\ WF_vars(Notified \/ StateArrives)

-----------------------------------------------------------------------------
(* Properties *)

\* Nothing is on its way that would still change the cache.
AtRest ==
    /\ step = "idle" /\ statePromise = "none"
    /\ wire = <<>> /\ asked = {}
    /\ \A h \in Handlers : due[h] = 0
    /\ task # None

VisibleColumns ==
    {c \in ColumnIndex : /\ task.screen.column <= c /\ c < columns
                         /\ c < task.screen.column + task.screen.columns}
VisibleRows ==
    {r \in RowIndex : /\ task.screen.row <= r /\ r < rows
                      /\ r < task.screen.row + task.screen.rows}

\* At rest the grid shows the table as it is: every visible cell, label and
\* column schema is cached with the current version, whatever changed while the
\* cache was being updated, unless an invalidation that was due did not take
\* place: overwritten by a scroll, dropped by fetchData because the layout was
\* empty, or by a handler whose RPCs for the layout failed.
ScreenIsCurrent ==
    AtRest /\ lost = {} =>
        /\ columns = shape.columns /\ rows = shape.rows
        /\ \A c \in VisibleColumns : schemaCache[c] = schemaVersion
        /\ \A x \in VisibleColumns \X VisibleRows : dataCache[x] = dataVersion
        /\ hasRowLabels => \A r \in VisibleRows : labelCache[r] = dataVersion

\* Between updates, once the trim timer has fired, the cache holds nothing
\* beyond the window of the last update.
CacheBounded ==
    step = "idle" /\ trim = None /\ task # None =>
        /\ \A c \in ColumnIndex : schemaCache[c] # None => c \in WindowColumns(task, columns)
        /\ \A r \in RowIndex : labelCache[r] # None => r \in WindowRows(task, rows)
        /\ \A x \in Cells : dataCache[x] # None =>
              x[1] \in WindowColumns(task, columns) /\ x[2] \in WindowRows(task, rows)

\* A trim timer belongs to the last update: it never runs during another one,
\* where it would remove what that one has just loaded.
TrimNotDuringUpdate == trim # None => step = "idle" /\ trim = task

\* Every screen scrolled to is loaded, or overwritten by a later request.
LastRequestServed ==
    \A d \in Descriptors : (pending = d) ~> (task = d \/ pending \notin {d, None} \/ step = "failed")
=============================================================================
