---------------------------- MODULE ModelReplica ----------------------------
(***************************************************************************)
(* A QAbstractItemModel behind its source adapter, and one item model      *)
(* replica of it: the replica's cache, the requests that fill it and the   *)
(* model's signals, on one ordered connection.                             *)
(*                                                                         *)
(* The model is a tree of two levels; its top level has columns, the       *)
(* children one.  A cell is the item, its column and whether it has been   *)
(* edited.  There is one role.  Rows and columns count from 1 and change   *)
(* one at a time.  A step that goes on from something undefined, or that   *)
(* ends a process, sets undefined, and nothing follows it.                 *)
(***************************************************************************)
EXTENDS NodesCache

CONSTANTS
  InitialRows,    \* the top level rows of the model at first
  Spare,          \* items that may be inserted
  WithChild,      \* an item that has a child at first
  Child,          \* that child
  InitialColumns, \* the columns of the top level at first
  SpareColumn,    \* a column that may be inserted
  CacheSize,      \* QTRO_NODES_CACHE_SIZE
  SmallCacheSize, \* a size the application may set
  MaxChanges,     \* bound: changes of the model and losses of the connection
  MaxReads,       \* bound: calls of the replica by the application
  MaxEvents       \* bound: both together

ASSUME ModelIsSmall ==
  /\ InitialRows \in Seq(ToSet(InitialRows)) /\ WithChild \in ToSet(InitialRows)
  /\ InitialColumns \in Seq(ToSet(InitialColumns)) /\ Len(InitialColumns) > 0
  /\ {CacheSize, SmallCacheSize, MaxChanges, MaxReads, MaxEvents}
       \subseteq Nat

Items == ToSet(InitialRows) \cup Spare \cup {Child}
Columns == ToSet(InitialColumns) \cup {SpareColumn}

VARIABLES
  \* The source's process
  rows, kids,       \* the model's items: the top level, the children of each
  columns,          \* columns of the top level
  edited,           \* cells that were edited
  toReplica, toSource, \* packets on the connection
  connected,        \* the replica is attached to its source
  \* The replica's process
  prefetch,         \* m_initialAction is PrefetchData
  root,             \* m_rootItem
  headerData,       \* m_headerData[1]: whether each row's header is cached
  initDone,         \* m_initDone
  cacheSize,        \* m_rootItem.children.cacheSize
  requestedData,    \* m_requestedData
  requestedHeaders, \* sections of m_requestedHeaderData
  headerEvents,     \* queued calls of fetchPendingHeaderData
  waiting,          \* a view was told nothing and not yet to ask again
  undefined,        \* what the last step ran into, if anything
  \* History
  happened,         \* events after which the replica may be wrong
  changes, reads    \* counters for the bounds

modelVars == <<rows, kids, columns, edited>>
wireVars == <<toReplica, toSource>>
requestVars == <<requestedData, requestedHeaders, headerEvents>>
cacheVars == <<root, headerData>>
settingVars == <<prefetch, initDone, cacheSize>>
counters == <<changes, reads>>
vars == <<modelVars, wireVars, connected, requestVars, cacheVars, settingVars, waiting,
          undefined, happened, counters>>

Nothing == "nothing"

-----------------------------------------------------------------------------
(* The model *)

InModel(parent) == \A i \in DOMAIN parent : parent[i] \in DOMAIN rows
RowsOf(parent) == IF parent = <<>> THEN rows ELSE kids[rows[parent[1]]]
ColumnsOf(parent) == IF parent = <<>> THEN columns ELSE <<InitialColumns[1]>>
Cell(item, column) == <<item, column, <<item, column>> \in edited>>

(* IndexValuePair of an index: only column 1 has children. *)
Pair(parent, row, column) ==
  LET item == RowsOf(parent)[row]
      below == IF column = 1 THEN Len(kids[item]) ELSE 0
  IN  [path |-> Append(parent, row), column |-> column,
       cell |-> Cell(item, ColumnsOf(parent)[column]),
       hasChildren |-> below > 0,
       rows |-> below, columns |-> IF below > 0 THEN 1 ELSE 0]

(* The pairs of a rectangle, row by row. *)
Rectangle(parent, r1, r2, c1, c2) ==
  LET width == c2 - c1 + 1
  IN  IF r2 < r1 \/ width < 1 THEN <<>>
      ELSE [i \in 1..((r2 - r1 + 1) * width) |->
              Pair(parent, r1 + ((i - 1) \div width), c1 + ((i - 1) % width))]

Min2(a, b) == IF a < b THEN a ELSE b

(* fetchTree: each item before its children, until size pairs are taken. *)
FetchTree(size) ==
  LET line(row) == Rectangle(<<>>, row, row, 1, 1)
                   \o Rectangle(<<row>>, 1, Len(kids[rows[row]]), 1, 1)
                   \o Rectangle(<<>>, row, row, 2, Len(columns))
      all == FlattenSeq([row \in DOMAIN rows |-> line(row)])
  IN  SubSeq(all, 1, Min2(size, Len(all)))

-----------------------------------------------------------------------------
(* Packets.  live: the watcher of the call is in m_pendingRequests, or is a *)
(* SizeWatcher, which nothing but its reply deletes.                        *)

SizeCall(parent, init) ==
  [type |-> "size", parent |-> parent, init |-> init, live |-> TRUE]
CacheCall(init, size) ==
  [type |-> "cache", init |-> init, size |-> size, live |-> TRUE]
RowCall(request) == [type |-> "rows", request |-> request, live |-> TRUE]
HeaderCall(sections) ==
  [type |-> "headers", sections |-> sections, live |-> TRUE]

(* What a call is for: the first size, a reset, a new layout or a parent.  *)
Rebuilds(call) ==
  call.type = "cache" \/ (call.type = "size" /\ call.init # "parent")

Kill(queue) ==
  [i \in DOMAIN queue |->
     IF queue[i].type \in {"rows", "headers"} \/ Rebuilds(queue[i])
     THEN [queue[i] EXCEPT !.live = FALSE] ELSE queue[i]]

(* doModelReset: the pending watchers are deleted, their replies will find *)
(* nobody.                                                                 *)
ModelReset(init) ==
  /\ toSource' = Append(Kill(toSource),
                   IF prefetch THEN CacheCall(init, cacheSize)
                               ELSE SizeCall(<<>>, init))
  /\ toReplica' = Kill(Tail(toReplica))

-----------------------------------------------------------------------------
Init ==
  /\ rows = InitialRows /\ columns = InitialColumns /\ edited = {}
  /\ kids = [i \in Items |-> IF i = WithChild THEN <<Child>> ELSE <<>>]
  /\ prefetch \in BOOLEAN
  /\ toReplica = <<>> /\ connected = TRUE
  \* The replica is valid and init has run.
  /\ toSource = <<IF prefetch THEN CacheCall("init", CacheSize)
                              ELSE SizeCall(<<>>, "init")>>
  /\ root = NewNode /\ headerData = <<>> /\ initDone = FALSE
  /\ cacheSize = CacheSize
  /\ requestedData = <<>> /\ requestedHeaders = <<>> /\ headerEvents = 0
  /\ waiting = TRUE /\ undefined = Nothing
  /\ happened = {} /\ changes = 0 /\ reads = 0

-----------------------------------------------------------------------------
(* The model changes; the adapter's slots and the model's own signals,     *)
(* which only a listener is sent.                                          *)

Happens ==
  /\ undefined = Nothing
  /\ changes < MaxChanges /\ changes + reads < MaxEvents
  /\ changes' = changes + 1
  /\ UNCHANGED <<requestVars, cacheVars, settingVars, waiting, undefined, reads>>
Changes == Happens /\ UNCHANGED connected

Emit(signal) ==
  /\ toReplica' = IF connected THEN Append(toReplica, signal) ELSE toReplica
  /\ UNCHANGED toSource

InsertBelow(parent, row, item) ==
  IF parent = <<>>
  THEN rows' = InsertAt(rows, row, item) /\ UNCHANGED kids
  ELSE kids' = [kids EXCEPT ![rows[parent[1]]] = InsertAt(@, row, item)]
       /\ UNCHANGED rows

Used == ToSet(rows) \cup UNION {ToSet(kids[i]) : i \in Items}

(* sourceRowsInserted.  A child inserted below a row whose children the    *)
(* replica has not counted is what the replica will take for all of them.  *)
SourceRowsInserted(parent, row, item) ==
  /\ Changes
  /\ InModel(parent) /\ row \in 1..(Len(RowsOf(parent)) + 1)
  /\ item \in Spare \ Used
  /\ InsertBelow(parent, row, item)
  /\ Emit([type |-> "rowsInserted", parent |-> parent, row |-> row])
  /\ happened' = happened \cup (IF parent # <<>> THEN {"children"}
                                ELSE IF row \in DOMAIN rows THEN {"shifted"} ELSE {})
  /\ UNCHANGED <<columns, edited>>

(* sourceRowsRemoved *)
SourceRowsRemoved(parent, row) ==
  /\ Changes
  /\ InModel(parent) /\ row \in DOMAIN RowsOf(parent)
  /\ IF parent = <<>>
     THEN rows' = RemoveAt(rows, row) /\ UNCHANGED kids
     ELSE kids' = [kids EXCEPT ![rows[parent[1]]] = RemoveAt(@, row)]
          /\ UNCHANGED rows
  /\ Emit([type |-> "rowsRemoved", parent |-> parent, row |-> row])
  /\ happened' = happened \cup {IF parent = <<>> THEN "removed" ELSE "children"}
  /\ UNCHANGED <<columns, edited>>

(* sourceRowsMoved: row becomes the one before dest. *)
SourceRowsMoved(row, dest) ==
  /\ Changes
  /\ row \in DOMAIN rows /\ dest \in (1..(Len(rows) + 1)) \ {row, row + 1}
  /\ rows' = LET without == RemoveAt(rows, row)
             IN  InsertAt(without, IF dest > row THEN dest - 1 ELSE dest, rows[row])
  /\ Emit([type |-> "rowsMoved", row |-> row, dest |-> dest])
  /\ happened' = happened \cup {"moved"}
  /\ UNCHANGED <<kids, columns, edited>>

(* sourceColumnsInserted *)
SourceColumnsInserted(column) ==
  /\ Changes
  /\ SpareColumn \notin ToSet(columns) /\ column \in 1..(Len(columns) + 1)
  /\ columns' = InsertAt(columns, column, SpareColumn)
  /\ Emit([type |-> "columnsInserted"])
  /\ happened' = IF column <= Len(columns) THEN happened \cup {"columns"}
                                           ELSE happened
  /\ UNCHANGED <<rows, kids, edited>>

(* sourceDataChanged, of one cell. *)
Edit(parent, row, column) ==
  LET cell == <<RowsOf(parent)[row], ColumnsOf(parent)[column]>>
  IN  /\ cell \notin edited
      /\ edited' = edited \cup {cell}
EditSignal(parent, row, column) ==
  [type |-> "dataChanged", parent |-> parent, row |-> row, column |-> column]
SourceDataChanged(parent, row, column) ==
  /\ Changes
  /\ InModel(parent) /\ row \in DOMAIN RowsOf(parent)
  /\ column \in DOMAIN ColumnsOf(parent)
  /\ Edit(parent, row, column)
  /\ Emit(EditSignal(parent, row, column))
  /\ UNCHANGED <<rows, kids, columns, happened>>

(* The model is reset, to no rows at all or to one new row. *)
SourceReset(new) ==
  /\ Changes
  /\ rows' = new
  /\ Emit([type |-> "modelReset"])
  /\ happened' = happened \cup {"reset"}
  /\ UNCHANGED <<kids, columns, edited>>

(* sourceLayoutChanged *)
SourceLayoutChanged ==
  /\ Changes /\ Len(rows) > 1
  /\ rows' = Reverse(rows)
  /\ Emit([type |-> "layoutChanged"])
  /\ happened' = happened \cup {"layout"}
  /\ UNCHANGED <<kids, columns, edited>>

SourceHeaderChanged(section) ==
  /\ Changes /\ section \in DOMAIN rows
  /\ Emit([type |-> "headerDataChanged", section |-> section])
  /\ UNCHANGED <<modelVars, happened>>

(* The connection is lost with all that is on it: setDisconnected leaves   *)
(* the tree, the watchers and what is put down to be requested alone.      *)
ConnectionLost ==
  /\ Happens /\ connected /\ connected' = FALSE
  /\ toReplica' = <<>> /\ toSource' = <<>>
  /\ happened' = happened \cup {"lost"}
  /\ UNCHANGED modelVars

(* It is made again and the replica's request has reached the source,      *)
(* which takes it for a listener and sends it the values.                  *)
ConnectionMade ==
  /\ undefined = Nothing /\ ~connected /\ connected' = TRUE
  /\ toReplica' = <<[type |-> "init"]>>
  /\ UNCHANGED <<modelVars, toSource, requestVars, cacheVars, settingVars,
                 waiting, undefined, happened, counters>>

-----------------------------------------------------------------------------
(* The adapter answers calls in the order they come.                       *)

Answers(answer) ==
  /\ toSource' = Tail(toSource)
  /\ toReplica' = Append(toReplica, answer)
  /\ UNCHANGED <<modelVars, undefined, happened>>

(* toQModelIndex without ok: an index that is no more ends the process.    *)
SourceFatal ==
  /\ toSource' = Tail(toSource)
  /\ undefined' = "the source's index"
  /\ UNCHANGED <<modelVars, toReplica, happened>>

Serves(type) ==
  /\ undefined = Nothing
  /\ toSource # <<>> /\ Head(toSource).type = type
  /\ UNCHANGED <<connected, requestVars, cacheVars, settingVars, waiting,
                 counters>>

(* replicaSizeRequest *)
ReplicaSizeRequest ==
  /\ Serves("size")
  /\ LET call == Head(toSource)
     IN  IF ~InModel(call.parent) THEN SourceFatal
         ELSE LET n == Len(RowsOf(call.parent))
              IN  Answers([type |-> "size", parent |-> call.parent,
                     init |-> call.init, live |-> call.live, rows |-> n,
                     columns |-> IF call.parent # <<>> /\ n = 0 THEN 0
                                 ELSE Len(ColumnsOf(call.parent)),
                     pairs |-> <<>>])

(* replicaRowRequest *)
ReplicaRowRequest ==
  /\ Serves("rows")
  /\ LET call == Head(toSource)
         q == call.request
     IN  IF ~InModel(q.parent) THEN SourceFatal
         ELSE Answers([type |-> "rows", request |-> q, live |-> call.live,
                pairs |-> Rectangle(q.parent,
                  q.r1, Min2(q.r2, Len(RowsOf(q.parent))),
                  q.c1, Min2(q.c2, Len(ColumnsOf(q.parent))))])

(* replicaCacheRequest *)
ReplicaCacheRequest ==
  /\ Serves("cache")
  /\ LET call == Head(toSource)
     IN  Answers([type |-> "cache", init |-> call.init, live |-> call.live,
           parent |-> <<>>, rows |-> Len(rows), columns |-> Len(columns),
           pairs |-> FetchTree(call.size)])

(* replicaHeaderRequest: a section that is no more has empty data.         *)
ReplicaHeaderRequest ==
  /\ Serves("headers")
  /\ Answers(Head(toSource))

(* replicaSetData *)
ReplicaSetData ==
  /\ Serves("setData")
  /\ LET call == Head(toSource)
         parent == Parent(call.path)
     IN  IF \/ ~InModel(parent) \/ Last(call.path) \notin DOMAIN RowsOf(parent)
            \/ call.column \notin DOMAIN ColumnsOf(parent)
         THEN SourceFatal
         ELSE /\ toSource' = Tail(toSource)
              /\ \/ /\ Edit(parent, Last(call.path), call.column)
                    /\ toReplica' = Append(toReplica,
                         EditSignal(parent, Last(call.path), call.column))
                 \/ /\ <<RowsOf(parent)[Last(call.path)],
                         ColumnsOf(parent)[call.column]>> \in edited
                    /\ UNCHANGED <<edited, toReplica>>
              /\ UNCHANGED <<rows, kids, columns, undefined, happened>>

-----------------------------------------------------------------------------
(* The replica receives the model's signals. *)

Receives(type) ==
  /\ undefined = Nothing
  /\ toReplica # <<>> /\ Head(toReplica).type = type
  /\ UNCHANGED <<modelVars, connected, prefetch, cacheSize, requestedHeaders,
                 headerEvents, counters>>
Received == toReplica' = Tail(toReplica) /\ UNCHANGED toSource

(* Making an item when the cache is over its size already makes cleanCache *)
(* take a second turn.                                                     *)
MakesItem ==
  undefined' \in {Nothing} \cup
                 (IF Len(root.kids) > cacheSize THEN {"erased item"} ELSE {})

(* onRowsInserted; the item of the parent is made when it is not cached.   *)
OnRowsInserted ==
  /\ Receives("rowsInserted") /\ Received
  /\ LET m == Head(toReplica)
         ensured == IF m.parent = <<>> THEN root
                    ELSE EnsureChild(root, m.parent[1], cacheSize)
         node == InsertChild(NodeAt(ensured, m.parent), m.row,
                             SizeAt(Len(m.parent) + 1, cacheSize))
     IN  IF ~ValidParent(ensured, m.parent)
         THEN root' = ensured /\ UNCHANGED headerData /\ MakesItem
         ELSE IF ~HasNode(ensured, m.parent)
         THEN undefined' = "no item" /\ UNCHANGED cacheVars
         ELSE /\ root' = PutNode(ensured, m.parent,
                   [node EXCEPT !.hasChildren = @ \/ node.columnCount > 0])
              /\ headerData' = Append(headerData, FALSE)
              /\ MakesItem
  /\ UNCHANGED <<initDone, requestedData, waiting, happened>>

(* onColumnsInserted, at the top level. *)
OnColumnsInserted ==
  /\ Receives("columnsInserted") /\ Received
  /\ root' = [root EXCEPT !.columnCount = @ + 1,
                          !.hasChildren = @ \/ root.kids # <<>>]
  /\ UNCHANGED <<headerData, initDone, requestedData, waiting, undefined, happened>>

(* onRowsRemoved erases the vertical headers whoever the parent is.        *)
OnRowsRemoved ==
  /\ Receives("rowsRemoved") /\ Received
  /\ LET m == Head(toReplica)
     IN  IF ~ValidParent(root, m.parent) THEN UNCHANGED <<cacheVars, undefined>>
         ELSE /\ root' = IF HasNode(root, m.parent)
                         THEN PutNode(root, m.parent,
                                RemoveChild(NodeAt(root, m.parent), m.row))
                         ELSE root
              /\ IF m.row \in DOMAIN headerData
                 THEN headerData' = RemoveAt(headerData, m.row)
                      /\ UNCHANGED undefined
                 ELSE undefined' = "no header" /\ UNCHANGED headerData
  /\ UNCHANGED <<initDone, requestedData, waiting, happened>>

(* clearCache of whole rows of the top level: of none, if one is not known.*)
ClearRows(node, first, last) ==
  IF node.columnCount > 0 /\ {first, last} \subseteq 1..node.rowCount
  THEN ForgetRows(node, <<>>, first, last, 1..node.columnCount) ELSE node

(* onRowsMoved takes the last row moved, counted from 0, for their number. *)
OnRowsMoved ==
  /\ Receives("rowsMoved") /\ Received
  /\ LET m == Head(toReplica)
         count == m.row - 1
     IN  root' = ClearRows(ClearRows(root, m.row, m.row + count),
                           m.dest, m.dest + count)
  /\ UNCHANGED <<headerData, initDone, requestedData, waiting, undefined, happened>>

(* onDataChanged: what is cached of the cell is forgotten, and asked for   *)
(* again if the row is cached.                                             *)
OnDataChanged ==
  /\ Receives("dataChanged") /\ Received
  /\ LET m == Head(toReplica)
         path == Append(m.parent, m.row)
         indexed == Indexed(root, path)
         again == [parent |-> m.parent, r1 |-> m.row, r2 |-> m.row,
                   c1 |-> m.column, c2 |-> m.column, asked |-> FALSE]
     IN  IF ~ValidIndex(root, path, m.column)
         THEN UNCHANGED <<root, requestedData>>
         ELSE /\ root' = ForgetRows(indexed, m.parent, m.row, m.row, {m.column})
              /\ requestedData' = IF HasNode(indexed, path)
                                  THEN Append(requestedData, again)
                                  ELSE requestedData
  /\ UNCHANGED <<headerData, initDone, waiting, undefined, happened>>

(* OnInitialized, were initialized to be emitted for the first values only. *)
OnInitializedOnce ==
  /\ Receives("init")
  /\ IF initDone THEN Received ELSE ModelReset("init")
  /\ UNCHANGED <<cacheVars, initDone, requestedData, waiting, undefined, happened>>

(* The values have come: setState emits initialized whether the replica is *)
(* Valid for the first time or was Suspect, and init asks for all anew.    *)
OnInitialized ==
  /\ Receives("init") /\ ModelReset("init")
  /\ UNCHANGED <<cacheVars, initDone, requestedData, waiting, undefined, happened>>

(* onModelReset, were it to ask only before init is done. *)
OnModelResetEarly ==
  /\ Receives("modelReset")
  /\ IF initDone THEN Received ELSE ModelReset("reset")
  /\ UNCHANGED <<cacheVars, initDone, requestedData, waiting, undefined, happened>>

(* onModelReset *)
OnModelReset ==
  /\ Receives("modelReset")
  /\ IF initDone THEN ModelReset("reset") ELSE Received
  /\ UNCHANGED <<cacheVars, initDone, requestedData, waiting, undefined, happened>>

(* onLayoutChanged, first part. *)
OnLayoutChanged ==
  /\ Receives("layoutChanged")
  /\ toReplica' = Tail(toReplica)
  /\ toSource' = Append(toSource, CacheCall("layout", cacheSize))
  /\ UNCHANGED <<cacheVars, initDone, requestedData, waiting, undefined, happened>>

(* onHeaderDataChanged *)
OnHeaderDataChanged ==
  /\ Receives("headerDataChanged") /\ Received
  /\ headerData' = [i \in DOMAIN headerData |->
                      headerData[i] /\ i # Head(toReplica).section]
  /\ UNCHANGED <<root, initDone, requestedData, waiting, undefined, happened>>

-----------------------------------------------------------------------------
(* The replica receives the answers to its calls. *)

Gets(type, init) ==
  Receives(type) /\ Received /\ Head(toReplica).init = init

Rebuilt(m) ==
  FillTree(Sized(m.rows, m.columns),
           IF prefetch THEN m.pairs ELSE <<>>, cacheSize)

(* handleModelResetDone *)
HandleModelResetDone(m) ==
  IF ~m.live THEN UNCHANGED <<cacheVars, waiting>>
  ELSE /\ root' = Rebuilt(m)
       /\ headerData' = [i \in 1..m.rows |-> FALSE]
       /\ waiting' = FALSE

ResetDone ==
  /\ Gets("size", "reset") \/ Gets("cache", "reset")
  /\ HandleModelResetDone(Head(toReplica))
  /\ UNCHANGED <<initDone, requestedData, undefined, happened>>

(* handleInitDone *)
HandleInitDone ==
  /\ Gets("size", "init") \/ Gets("cache", "init")
  /\ HandleModelResetDone(Head(toReplica))
  /\ initDone' = (initDone \/ Head(toReplica).live)
  /\ UNCHANGED <<requestedData, undefined, happened>>

(* onLayoutChanged, what is connected to the watcher. *)
LayoutDone ==
  /\ Gets("cache", "layout")
  /\ LET m == Head(toReplica)
     IN  IF ~m.live THEN UNCHANGED <<root, waiting>>
         ELSE root' = Rebuilt(m) /\ waiting' = FALSE
  /\ UNCHANGED <<headerData, initDone, requestedData, undefined, happened>>

(* What answers below a row rely on: its index and its item.  The first is *)
(* converted without ok, the second is not compared with null.             *)
Missing(parent) ==
  IF ~ValidParent(root, parent) THEN "the replica's index"
  ELSE IF ~HasNode(root, parent) THEN "no item" ELSE Nothing

(* handleSizeDone: rows that were counted are not counted again.           *)
HandleSizeDone ==
  /\ Gets("size", "parent")
  /\ LET m == Head(toReplica)
         node == NodeAt(root, m.parent)
     IN  IF Missing(m.parent) # Nothing
         THEN undefined' = Missing(m.parent) /\ UNCHANGED root
         ELSE /\ root' = PutNode(root, m.parent,
                   [node EXCEPT !.columnCount = m.columns,
                      !.rowCount = IF @ = 0 THEN m.rows ELSE @])
              /\ UNCHANGED undefined
  /\ UNCHANGED <<headerData, initDone, requestedData, waiting, happened>>

(* The column of a pair that FillRow puts elsewhere. *)
Misplaces(pairs) ==
  \E p \in ToSet(pairs) :
    /\ p.column > 1
    /\ ~\E before \in ToSet(pairs) :
          before.path = p.path /\ before.column = p.column - 1
    /\ HasNode(root, p.path) => Len(NodeAt(root, p.path).cells) < p.column - 1

(* requestedData *)
RequestedData ==
  /\ Receives("rows") /\ Received
  /\ LET m == Head(toReplica)
         q == m.request
         node == NodeAt(root, q.parent)
     IN  /\ IF ~m.live THEN UNCHANGED <<root, waiting, undefined>>
            ELSE IF Missing(q.parent) # Nothing
            THEN undefined' = Missing(q.parent) /\ UNCHANGED <<root, waiting>>
            ELSE IF node.rowCount < 1 \/ node.columnCount < 1
            THEN root' = Touch(root, q.parent) /\ UNCHANGED <<waiting, undefined>>
            ELSE /\ root' = FillEntries(Touch(root, q.parent), m.pairs, cacheSize)
                 /\ waiting' = (waiting /\ ~q.asked)
                 /\ MakesItem
         /\ happened' = IF m.live /\ Misplaces(m.pairs)
                        THEN happened \cup {"misplaced"} ELSE happened
  /\ UNCHANGED <<headerData, initDone, requestedData>>

(* requestedHeaderData *)
RequestedHeaderData ==
  /\ Receives("headers") /\ Received
  /\ LET m == Head(toReplica)
     IN  IF ~m.live THEN UNCHANGED <<headerData, undefined>>
         ELSE IF ToSet(m.sections) \subseteq DOMAIN headerData
         THEN /\ headerData' = [i \in DOMAIN headerData |->
                                  headerData[i] \/ i \in ToSet(m.sections)]
              /\ UNCHANGED undefined
         ELSE undefined' = "no header" /\ UNCHANGED headerData
  /\ UNCHANGED <<root, initDone, requestedData, waiting, happened>>

-----------------------------------------------------------------------------
(* The application and its views call the replica.  What it calls of the   *)
(* source while it is detached is not sent, and never finished.            *)

Sends(calls) == toSource' = IF connected THEN toSource \o calls ELSE toSource

Reads ==
  /\ undefined = Nothing
  /\ reads < MaxReads /\ changes + reads < MaxEvents
  /\ reads' = reads + 1
  /\ UNCHANGED <<modelVars, toReplica, connected, prefetch, initDone, headerData,
                 changes>>

(* data and multiData: what is not cached is put down to be requested.     *)
MultiData(path, column) ==
  /\ Reads /\ ValidIndex(root, path, column)
  /\ LET indexed == Touch(Indexed(root, path), path)
         width == NodeAt(root, Parent(path)).columnCount
     IN  /\ root' = indexed
         /\ IF HasNode(indexed, path) /\ Cached(NodeAt(indexed, path), column)
            THEN UNCHANGED <<requestedData, waiting>>
            ELSE /\ requestedData' = Append(requestedData,
                      [parent |-> Parent(path), r1 |-> Last(path), r2 |-> Last(path),
                       c1 |-> 1, c2 |-> width, asked |-> ~waiting])
                 /\ waiting' = TRUE
  /\ UNCHANGED <<toSource, requestedHeaders, headerEvents, cacheSize,
                 undefined, happened>>

(* rowCount of a row whose children are not counted. *)
RowCount(row) ==
  /\ Reads /\ ValidIndex(root, <<row>>, 1) /\ HasNode(root, <<row>>)
  /\ LET node == NodeAt(root, <<row>>)
     IN  node.hasChildren /\ node.rowCount = 0
  /\ root' = Touch(root, <<row>>)
  /\ Sends(<<SizeCall(<<row>>, "parent")>>)
  /\ UNCHANGED <<requestVars, cacheSize, waiting, undefined, happened>>

(* headerData of a section that is not cached. *)
HeaderData(section) ==
  /\ Reads /\ section \in DOMAIN headerData /\ ~headerData[section]
  /\ requestedHeaders' = Append(requestedHeaders, section)
  /\ headerEvents' = headerEvents + 1
  /\ UNCHANGED <<root, toSource, requestedData, cacheSize, waiting,
                 undefined, happened>>

(* setData *)
SetData(path, column) ==
  /\ Reads /\ ValidIndex(root, path, column)
  /\ Sends(<<[type |-> "setData", path |-> path, column |-> column]>>)
  /\ root' = Indexed(root, path)
  /\ UNCHANGED <<requestVars, cacheSize, waiting, undefined, happened>>

(* setRootCacheSize, to a smaller size. *)
SetRootCacheSize ==
  /\ Reads /\ cacheSize # SmallCacheSize
  /\ cacheSize' = SmallCacheSize
  /\ root' = [root EXCEPT !.kids = CleanCache(@, SmallCacheSize)]
  /\ undefined' \in {Nothing} \cup
       (IF WalksErased(root.kids, SmallCacheSize) THEN {"erased item"} ELSE {})
  /\ UNCHANGED <<toSource, requestVars, waiting, happened>>

-----------------------------------------------------------------------------
(* The queued calls. *)

Max2(a, b) == IF a > b THEN a ELSE b

Bounding(q, d) ==
  [q EXCEPT !.r1 = Min2(@, d.r1), !.r2 = Max2(@, d.r2),
            !.c1 = Min2(@, d.c1), !.c2 = Max2(@, d.c2), !.asked = @ \/ d.asked]

Close(q, d) ==
  \/ {q.r1 - d.r1, q.r2 - d.r2, q.c1 - d.c1, q.c2 - d.c2} \cap {1, -1} # {}
  \/ /\ q.r1 <= d.r2 /\ d.r1 <= q.r2
     /\ q.c1 <= d.c2 /\ d.c1 <= q.c2

(* Requests next to each other in the list and near in the model are one.  *)
FinalRequests ==
  LET merge(done, d) ==
        IF done # <<>> /\ Last(done).parent = d.parent
           /\ Bounding(Last(done), d).r2 - Bounding(Last(done), d).r1 < 100
           /\ Close(Last(done), d)
        THEN Append(Front(done), Bounding(Last(done), d))
        ELSE Append(done, d)
  IN  FoldLeft(merge, <<>>, requestedData)

(* The last ones first, as long as their rows are fewer than the cache's:  *)
(* the others are forgotten.                                               *)
RowsIn(q) == IF q.parent = <<>> THEN q.r2 - q.r1 + 1 ELSE 1
Sent(final) ==
  LET take(acc, q) == IF acc.rows >= cacheSize THEN acc
                      ELSE [rows |-> acc.rows + RowsIn(q),
                            calls |-> Append(acc.calls, RowCall(q))]
  IN  FoldLeft(take, [rows |-> 0, calls |-> <<>>], Reverse(final)).calls

Queued == undefined = Nothing
          /\ UNCHANGED <<modelVars, cacheVars, settingVars, toReplica, connected,
                         waiting, undefined, counters>>

(* fetchPendingData *)
FetchPendingData ==
  /\ Queued /\ requestedData # <<>>
  /\ LET calls == Sent(FinalRequests)
         kept == \E i \in DOMAIN calls : calls[i].request.asked
     IN  /\ Sends(calls)
         /\ happened' = IF (\E i \in DOMAIN requestedData : requestedData[i].asked)
                           /\ ~kept
                        THEN happened \cup {"forgotten"} ELSE happened
  /\ requestedData' = <<>>
  /\ UNCHANGED <<requestedHeaders, headerEvents>>

(* fetchPendingHeaderData, were it not only to run when it is called. *)
FetchHeadersAnyTime ==
  /\ Queued
  /\ Sends(<<HeaderCall(requestedHeaders)>>)
  /\ requestedHeaders' = <<>> /\ headerEvents' = headerEvents - 1
  /\ UNCHANGED <<requestedData, happened>>

(* fetchPendingHeaderData; it does not mind that there is nothing to ask.  *)
FetchPendingHeaderData ==
  /\ Queued /\ headerEvents > 0
  /\ Sends(<<HeaderCall(requestedHeaders)>>)
  /\ requestedHeaders' = <<>> /\ headerEvents' = headerEvents - 1
  /\ UNCHANGED <<requestedData, happened>>

-----------------------------------------------------------------------------
Parents == {<<>>} \cup {<<row>> : row \in DOMAIN rows}
Paths == {<<row>> : row \in 1..root.rowCount}
         \cup {<<row, 1>> : row \in 1..root.rowCount}

ModelChanges ==
  \/ \E parent \in Parents, item \in Spare :
       \E row \in 1..(Len(RowsOf(parent)) + 1) :
         SourceRowsInserted(parent, row, item)
  \/ \E parent \in Parents :
       \E row \in DOMAIN RowsOf(parent) :
         \/ SourceRowsRemoved(parent, row)
         \/ \E column \in DOMAIN ColumnsOf(parent) :
              SourceDataChanged(parent, row, column)
  \/ \E row, dest \in 1..(Len(rows) + 1) : SourceRowsMoved(row, dest)
  \/ \E column \in 1..(Len(columns) + 1) : SourceColumnsInserted(column)
  \/ \E new \in {<<>>} \cup {<<i>> : i \in Spare \ Used} : SourceReset(new)
  \/ SourceLayoutChanged
  \/ \E section \in DOMAIN rows : SourceHeaderChanged(section)

SourceAnswers ==
  ReplicaSizeRequest \/ ReplicaRowRequest \/ ReplicaCacheRequest
  \/ ReplicaHeaderRequest \/ ReplicaSetData

ReplicaReceives ==
  \/ OnRowsInserted \/ OnColumnsInserted \/ OnRowsRemoved \/ OnRowsMoved
  \/ OnDataChanged \/ OnInitialized \/ OnModelReset \/ OnLayoutChanged
  \/ OnHeaderDataChanged
  \/ ResetDone \/ HandleInitDone \/ LayoutDone \/ HandleSizeDone
  \/ RequestedData \/ RequestedHeaderData

ViewCalls ==
  \/ \E path \in Paths, column \in 1..root.columnCount : MultiData(path, column)
  \/ \E row \in 1..root.rowCount : RowCount(row)
  \/ \E section \in DOMAIN headerData : HeaderData(section)
  \/ \E row \in 1..root.rowCount : SetData(<<row>>, 1)
  \/ SetRootCacheSize

Next == ModelChanges \/ ConnectionLost \/ ConnectionMade
        \/ SourceAnswers \/ ReplicaReceives \/ ViewCalls \/ FetchPendingData \/ FetchPendingHeaderData

Spec == Init /\ [][Next]_vars

(* The event loops run: while there is work for one of them, some work is  *)
(* done.  As no work makes more than it ends, that is enough.              *)
Fairness == WF_vars(ReplicaReceives \/ SourceAnswers \/ FetchPendingData)
FairSpec == Spec /\ Fairness

-----------------------------------------------------------------------------
(* Properties *)

(* Types of the plain variables. *)
TypeOK ==
  /\ rows \in Seq(Items) /\ kids \in [Items -> Seq(Items)]
  /\ columns \in Seq(Columns) /\ edited \subseteq (Items \X Columns)
  /\ {connected, prefetch, initDone, waiting} \subseteq BOOLEAN
  /\ headerData \in Seq(BOOLEAN)
  /\ cacheSize \in {CacheSize, SmallCacheSize}
  /\ {headerEvents, changes, reads} \subseteq Nat

(* All that was signalled has arrived and no rebuild is on its way. *)
Synced ==
  /\ undefined = Nothing /\ connected /\ initDone
  /\ toReplica = <<>>
  /\ \A i \in DOMAIN toSource : ~Rebuilds(toSource[i])

(* Once everything signalled has arrived, the replica has as many top      *)
(* level rows and columns as the model, however insertions, removals,      *)
(* resets and new layouts cross the answers to its requests                *)
(* (handleSizeDone, onRowsInserted, onRowsRemoved,                         *)
(* handleModelResetDone).                                                  *)
RowsAgree ==
  Synced => root.rowCount = Len(rows) /\ root.columnCount = Len(columns)

FreshAt(path, item, names) ==
  HasNode(root, path) =>
    \A c \in DOMAIN names :
      Cached(NodeAt(root, path), c) =>
        NodeAt(root, path).cells[c] = Cell(item, names[c])

(* What is cached for a row and column is what the model has there once    *)
(* everything signalled has arrived: dataChanged, and the shifts of keys   *)
(* by inserted and removed rows, reach every cached cell, and late         *)
(* answers to row requests (abstractitemmodelreplica.cpp:508) come in      *)
(* the order of the signals. Not after moved rows (:296), columns          *)
(* inserted in the middle, or cells that fillRow has appended in the       *)
(* place of others (:472); and children are exempt where rows below the    *)
(* top level changed or fetchTree has sent them among several columns.     *)
CellsFresh ==
  Synced /\ happened \cap {"moved", "columns", "misplaced"} = {} =>
    \A row \in DOMAIN rows :
      /\ FreshAt(<<row>>, rows[row], columns)
      /\ "children" \notin happened /\ (~prefetch \/ Len(columns) = 1) =>
           \A k \in DOMAIN kids[rows[row]] :
             FreshAt(<<row, k>>, kids[rows[row]][k], ColumnsOf(<<row>>))

(* Nothing undefined happens and neither process ends but for a reason:    *)
(* an item erased under cleanCache's iterator needs a cache over its size  *)
(* (set to a smaller one); one that a reply or a signal counts on is       *)
(* missing only then, or when the tree was built anew under it (a reset,   *)
(* a new layout, a connection made again) or rows are gone; indexes and    *)
(* headers that are no more need rows that were removed or reset, or       *)
(* changed below the top level.                                            *)
Defined ==
  LET trashed == cacheSize = SmallCacheSize
      gone == happened \cap {"removed", "children", "reset"} # {}
  IN  /\ undefined = "erased item" => trashed
      /\ undefined = "no item" =>
           trashed \/ gone \/ happened \cap {"layout", "lost"} # {}
      /\ undefined \in {"no header", "the source's index", "the replica's index"}
           => gone

(* A view that was told nothing for a cell is told when the data comes.    *)
(* Not when its request was forgotten by fetchPendingData or asked for     *)
(* rows that are no longer where they were. What is lost with a connection *)
(* is made up for when the next one brings the values.                     *)
Repaints ==
  waiting ~> \/ ~waiting \/ undefined # Nothing \/ ~connected
             \/ happened \cap {"forgotten", "removed", "children",
                               "shifted", "moved", "layout"} # {}

=============================================================================
