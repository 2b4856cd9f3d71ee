----------------------------- MODULE NodesCache -----------------------------
(***************************************************************************)
(* What an item model replica remembers of its source: LRUCache and        *)
(* CacheData of qremoteobjectabstractitemmodelreplica_p.h, as operators.   *)
(*                                                                         *)
(* A node (CacheData) is a record; its cells are cachedRowEntry and its    *)
(* kids the LRUCache of its children, a sequence of entries [key, node]    *)
(* with the one used last in front.  Rows and columns count from 1.        *)
(***************************************************************************)
EXTENDS Integers, Sequences, SequencesExt

(* A cell whose data is not, or no longer, cached. *)
NoCell == <<>>

(* A child cache keeps the default size, which no instance reaches. *)
DefaultNodesCacheSize == 1000

(* Op(x), for TLC to evaluate x once. *)
At(x, Op(_)) == CHOOSE y \in {Op(v) : v \in {x}} : TRUE

-----------------------------------------------------------------------------
(* LRUCache *)

Exists(cache, key) == \E i \in DOMAIN cache : cache[i].key = key
Position(cache, key) == CHOOSE i \in DOMAIN cache : cache[i].key = key
Get(cache, key) == cache[Position(cache, key)].node

(* get moves what it finds to the front. *)
ToFront(cache, key) ==
  IF Exists(cache, key)
  THEN <<cache[Position(cache, key)]>> \o RemoveAt(cache, Position(cache, key))
  ELSE cache

(* cleanCache: elements with children are not trashed.  At the reverse end *)
(* the code reads the list's own node as if it were an element; whatever   *)
(* it finds there, the loop ends.                                          *)
Trash(cache) == {i \in DOMAIN cache : ~cache[i].node.hasChildren}
Surplus(cache, size) ==
  {i \in Trash(cache) :
     Cardinality({j \in Trash(cache) : j > i}) < Len(cache) - size}
CleanCache(cache, size) ==
  LET surplus == Surplus(cache, size)
      keep(kept, i) == IF i \in surplus THEN kept ELSE Append(kept, cache[i])
  IN  IF Len(cache) <= size THEN cache ELSE FoldLeftDomain(keep, <<>>, cache)

(* Its second turn goes on from an iterator to the element it erased.      *)
WalksErased(cache, size) == Len(cache) > size + 1 /\ Trash(cache) # {}

ChangeKeys(cache, key, delta) ==
  [i \in DOMAIN cache |->
     IF cache[i].key >= key THEN [cache[i] EXCEPT !.key = @ + delta]
                            ELSE cache[i]]

Ensure(cache, key, node, size) ==
  CleanCache(<<[key |-> key, node |-> node]>> \o cache, size)

(* Insert without moving what is behind. *)
InsertInPlace(cache, key, node, size) == Ensure(cache, key, node, size)

Insert(cache, key, node, size) ==
  Ensure(ChangeKeys(cache, key, 1), key, node, size)

RemoveKey(cache, key) ==
  ChangeKeys(IF Exists(cache, key) THEN RemoveAt(cache, Position(cache, key))
                                   ELSE cache, key, -1)

-----------------------------------------------------------------------------
(* CacheData *)

NewNode == [cells |-> <<>>, hasChildren |-> FALSE, rowCount |-> 0,
            columnCount |-> 0, kids |-> <<>>]

EnsureChild(node, row, size) ==
  IF Exists(node.kids, row) THEN node
  ELSE [node EXCEPT !.kids = Ensure(@, row, NewNode, size)]

InsertChild(node, row, size) ==
  LET new == [NewNode EXCEPT !.columnCount = node.columnCount]
  IN  [node EXCEPT !.kids = Insert(@, row, new, size),
                   !.rowCount = @ + 1,
                   !.hasChildren = @ \/ node.rowCount + 1 # 0]

RemoveChild(node, row) ==
  [node EXCEPT !.kids = RemoveKey(@, row), !.rowCount = @ - 1,
               !.hasChildren = node.rowCount - 1 # 0]

(* clear, and the size a model or a layout starts from. *)
Sized(rows, columns) ==
  [NewNode EXCEPT !.rowCount = rows, !.columnCount = columns,
                  !.hasChildren = rows > 0]

-----------------------------------------------------------------------------
(* The tree: a path is <<>>, <<row>> or <<row, row of the child>>. *)

SizeAt(depth, size) == IF depth = 1 THEN size ELSE DefaultNodesCacheSize
Parent(path) == Front(path)

(* cacheData of a valid index, when there is one. *)
HasNode(root, path) ==
  CASE path = <<>>    -> TRUE
    [] Len(path) = 1  -> Exists(root.kids, path[1])
    [] OTHER          -> /\ Exists(root.kids, path[1])
                         /\ Exists(Get(root.kids, path[1]).kids, path[2])
NodeAt(root, path) ==
  CASE path = <<>>    -> root
    [] Len(path) = 1  -> Get(root.kids, path[1])
    [] OTHER          -> Get(Get(root.kids, path[1]).kids, path[2])

(* The tree with another node at a path, used last. *)
PutKid(node, row, kid) ==
  [node EXCEPT !.kids =
     <<[key |-> row, node |-> kid]>> \o RemoveAt(@, Position(@, row))]
PutNode(root, path, node) ==
  CASE path = <<>>    -> node
    [] Len(path) = 1  -> PutKid(root, path[1], node)
    [] OTHER          -> PutKid(root, path[1],
                           PutKid(Get(root.kids, path[1]), path[2], node))
Touch(root, path) ==
  IF HasNode(root, path) THEN PutNode(root, path, NodeAt(root, path)) ELSE root

(* index, for the rows of a path and a column of the last: it is invalid   *)
(* outside the rows and columns known, or when the parent is not cached.   *)
ValidIndex(root, path, column) ==
  /\ path[1] \in 1..root.rowCount
  /\ (IF Len(path) = 1 THEN column ELSE 1) \in 1..root.columnCount
  /\ Len(path) = 2 =>
       /\ HasNode(root, Parent(path))
       /\ path[2] \in 1..NodeAt(root, Parent(path)).rowCount
       /\ column \in 1..NodeAt(root, Parent(path)).columnCount
ValidParent(root, path) == path = <<>> \/ ValidIndex(root, path, 1)

(* What asking for a valid index does: below the root it makes the child.  *)
Indexed(root, path) ==
  IF Len(path) < 2 THEN root
  ELSE PutNode(root, Parent(path), EnsureChild(NodeAt(root, Parent(path)),
                 path[2], DefaultNodesCacheSize))

(* createCacheData *)
CreateCacheData(root, path, column, size) ==
  IF ~ValidIndex(root, path, column) THEN root
  ELSE Touch(PutNode(root, Parent(path),
                 EnsureChild(NodeAt(root, Parent(path)), Last(path),
                             SizeAt(Len(path), size))), path)

(* fillRow: a cell of a column the row entry does not have is appended,    *)
(* wherever that is.                                                       *)
FillRow(node, pair) ==
  [node EXCEPT
     !.cells = IF pair.column \in DOMAIN @ THEN [@ EXCEPT ![pair.column] = pair.cell]
                                           ELSE Append(@, pair.cell),
     !.hasChildren = IF pair.column = 1 THEN pair.hasChildren ELSE @]

(* The turn of a reply for one pair; the item may have been trashed again. *)
FillEntry(root, pair, size) ==
  LET fill(made) ==
        IF ValidIndex(root, pair.path, pair.column) /\ HasNode(made, pair.path)
        THEN PutNode(made, pair.path, FillRow(NodeAt(made, pair.path), pair))
        ELSE made
  IN  At(CreateCacheData(root, pair.path, pair.column, size), fill)

(* fillCache: the same, and the size of the item; pairs come parent first. *)
FillCache(root, pair, size) ==
  LET count(filled) ==
        IF ValidIndex(root, pair.path, pair.column) /\ HasNode(filled, pair.path)
        THEN PutNode(filled, pair.path,
               [NodeAt(filled, pair.path) EXCEPT !.rowCount = pair.rows,
                                                 !.columnCount = pair.columns])
        ELSE filled
  IN  At(FillEntry(root, pair, size), count)

FillEntries(root, pairs, size) ==
  LET turn(tree, pair) == At(tree, LAMBDA t : FillEntry(t, pair, size))
  IN  FoldLeft(turn, root, pairs)
FillTree(root, pairs, size) ==
  LET turn(tree, pair) == At(tree, LAMBDA t : FillCache(t, pair, size))
  IN  FoldLeft(turn, root, pairs)

(* removeIndexFromRow *)
Forget(node, columns) ==
  [node EXCEPT !.cells =
     [c \in DOMAIN @ |-> IF c \in columns THEN NoCell ELSE @[c]]]

(* clearCache, were it to drop the items with their data. *)
DropRows(root, parent, first, last, columns) ==
  LET kept(entry) == entry.key \notin first..last
  IN  PutNode(root, parent, [NodeAt(root, parent) EXCEPT !.kids = SelectSeq(@, kept)])

(* clearCache over rows of one parent whose indexes are valid. *)
ForgetRow(node, row, columns) ==
  IF Exists(node.kids, row)
  THEN PutKid(node, row, Forget(Get(node.kids, row), columns)) ELSE node
ForgetRows(root, parent, first, last, columns) ==
  LET forget(node, i) == At(node, LAMBDA n : ForgetRow(n, first + i - 1, columns))
  IN  PutNode(root, parent, FoldLeft(forget, NodeAt(root, parent),
                                     [i \in 1..(last - first + 1) |-> i]))

(* findData *)
Cached(node, column) ==
  column \in DOMAIN node.cells /\ node.cells[column] # NoCell
=============================================================================
