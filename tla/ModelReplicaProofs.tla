------------------------- MODULE ModelReplicaProofs -------------------------
(***************************************************************************)
(* Theorems about ModelReplica, for models of any size and any number of   *)
(* changes, losses and calls: the replica ends with as many rows and       *)
(* columns as the model, whatever crosses what on the connection.          *)
(***************************************************************************)
EXTENDS ModelReplica, SequenceTheorems, FiniteSetTheorems,
        WellFoundedInduction, TLAPS

-----------------------------------------------------------------------------
(* Induction, and folds *)

(* A set of numbers has a smallest one, *)
LEMMA Smallest ==
  ASSUME NEW S \in SUBSET Nat, S # {}  PROVE \E k \in S : \A j \in S : k <= j
<1>. DEFINE R == OpToRel(<, Nat)
<1>1. IsWellFoundedOn(R, Nat)
  BY NatLessThanWellFounded
<1>2. \A x, y \in Nat : <<y, x>> \in R <=> y < x
  BY DEF OpToRel
<1>. HIDE DEF R
<1>3. PICK k \in S : \A j \in S : <<j, k>> \notin R
  BY <1>1, WFMin
<1>4. ASSUME NEW j \in S  PROVE k <= j
  <2>1. j \in Nat /\ k \in Nat /\ ~(j < k)
    BY <1>2, <1>3
  <2>. QED  BY <2>1
<1>. QED  BY <1>4

(* so that a set with 0 and each next number has them all. *)
LEMMA SetInduction ==
  ASSUME NEW T, 0 \in T, \A n \in Nat : n \in T => n + 1 \in T
  PROVE  \A n \in Nat : n \in T
<1>. SUFFICES ASSUME Nat \ T # {}  PROVE FALSE
  OBVIOUS
<1>1. PICK k \in Nat \ T : \A j \in Nat \ T : k <= j
  BY Smallest
<1>2. k # 0 /\ k \in Nat
  BY <1>1
<1>3. PICK j \in Nat : j = k - 1
  BY <1>2
<1>4. j + 1 = k /\ j < k
  BY <1>2, <1>3
<1>5. j \notin T
  BY <1>1, <1>4
<1>. QED  BY <1>1, <1>2, <1>4, <1>5

(* The last of the first numbers, *)
LEMMA MaxOf ==
  ASSUME NEW n \in Nat, NEW s \in SUBSET (1..n), s # {}
  PROVE  Max(s) \in s /\ \A y \in s : Max(s) >= y
<1>. DEFINE Bound == {k \in Nat : \A y \in s : k >= y}
<1>1. n \in Bound
  OBVIOUS
<1>2. PICK k \in Bound : \A j \in Bound : k <= j
  BY <1>1, Smallest
<1>3. k \in s
  <2>. SUFFICES ASSUME k \notin s  PROVE FALSE
    OBVIOUS
  <2>1. PICK y \in s : TRUE
    OBVIOUS
  <2>2. y \in Nat /\ y >= 1 /\ k >= y /\ k \in Nat
    BY <1>2
  <2>3. k - 1 \in Nat
    BY <2>2
  <2>4. \A z \in s : k - 1 >= z
    BY <1>2, <2>2
  <2>5. k <= k - 1
    BY <1>2, <2>3, <2>4
  <2>. QED  BY <2>2, <2>5
<1>4. \A y \in s : k >= y
  BY <1>2
<1>. QED  BY <1>3, <1>4 DEF Max

(* and what is left without it. *)
LEMMA WithoutMax ==
  ASSUME NEW n \in Nat, NEW s \in SUBSET (1..n + 1), s # {}
  PROVE  s \ {Max(s)} \in SUBSET (1..n)
<1>. n + 1 \in Nat
  OBVIOUS
<1>1. Max(s) \in s /\ \A y \in s : Max(s) >= y
  BY MaxOf
<1>2. ASSUME NEW y \in s, y # Max(s)  PROVE y \in 1..n
  <2>1. y \in 1..n + 1 /\ Max(s) \in 1..n + 1 /\ Max(s) >= y
    BY <1>1
  <2>. QED  BY <1>2, <2>1
<1>. QED  BY <1>2

LEMMA WithoutLast ==
  ASSUME NEW n \in Nat
  PROVE  (1..n + 1) \ {Max(1..n + 1)} = 1..n /\ Max(1..n + 1) = n + 1
<1>1. 1..n + 1 # {} /\ n + 1 \in Nat /\ n + 1 \in 1..n + 1
  OBVIOUS
<1>2. /\ Max(1..n + 1) \in 1..n + 1
      /\ \A y \in 1..n + 1 : Max(1..n + 1) >= y
  BY <1>1, MaxOf
<1>3. Max(1..n + 1) = n + 1
  BY <1>1, <1>2
<1>. QED  BY <1>3

-----------------------------------------------------------------------------
(* The model's folds: what each does with one element. *)

Merged(done, d) ==
  IF done # <<>> /\ Last(done).parent = d.parent
     /\ Bounding(Last(done), d).r2 - Bounding(Last(done), d).r1 < 100
     /\ Close(Last(done), d)
  THEN Append(Front(done), Bounding(Last(done), d))
  ELSE Append(done, d)

Taken(acc, q, size) ==
  IF acc.rows >= size THEN acc
  ELSE [rows |-> acc.rows + RowsIn(q), calls |-> Append(acc.calls, RowCall(q))]

Turn(kind, x, e, arg) ==
  CASE kind = "entries" -> FillEntry(x, e, arg)
    [] kind = "tree"    -> FillCache(x, e, arg)
    [] kind = "forget"  -> ForgetRow(x, arg.first + e - 1, arg.columns)
    [] kind = "clean"   -> IF e \in arg.surplus THEN x ELSE Append(x, arg.cache[e])
    [] kind = "merge"   -> Merged(x, e)
    [] kind = "take"    -> Taken(x, e, arg)

(* A fold over the elements at s, from the results without its last one.   *)
Turned(kind, g, base, seq, arg, s) ==
  IF s = {} THEN base ELSE Turn(kind, g[s \ {Max(s)}], seq[Max(s)], arg)

Folds(kind, g, base, seq, arg, n) ==
  g = [s \in SUBSET (1..n) |-> Turned(kind, g, base, seq, arg, s)]

(* The results of a fold exist, *)
LEMMA FoldExists ==
  ASSUME NEW kind, NEW base, NEW seq, NEW arg, NEW n \in Nat
  PROVE  \E g : Folds(kind, g, base, seq, arg, n)
<1>. DEFINE T == {k \in Nat : \E g : Folds(kind, g, base, seq, arg, k)}
<1>1. 0 \in T
  <2>. DEFINE g == [s \in SUBSET (1..0) |-> base]
  <2>1. \A s \in SUBSET (1..0) : s = {}
    OBVIOUS
  <2>2. \A s \in SUBSET (1..0) : Turned(kind, g, base, seq, arg, s) = base
    BY <2>1 DEF Turned
  <2>3. g = [s \in SUBSET (1..0) |-> Turned(kind, g, base, seq, arg, s)]
    BY <2>2
  <2>. HIDE DEF g
  <2>. QED  BY <2>3 DEF Folds
<1>2. ASSUME NEW k \in Nat, k \in T  PROVE k + 1 \in T
  <2>1. PICK g : Folds(kind, g, base, seq, arg, k)
    BY <1>2
  <2>2. g = [s \in SUBSET (1..k) |-> Turned(kind, g, base, seq, arg, s)]
    BY <2>1 DEF Folds
  <2>. DEFINE h == [s \in SUBSET (1..k + 1) |-> Turned(kind, g, base, seq, arg, s)]
  <2>3. ASSUME NEW s \in SUBSET (1..k)  PROVE h[s] = g[s]
    <3>1. s \in SUBSET (1..k + 1)
      OBVIOUS
    <3>2. g[s] = Turned(kind, g, base, seq, arg, s)
      BY <2>2
    <3>. QED  BY <3>1, <3>2
  <2>. HIDE DEF h
  <2>4. ASSUME NEW s \in SUBSET (1..k + 1)
        PROVE  Turned(kind, h, base, seq, arg, s) = Turned(kind, g, base, seq, arg, s)
    <3>1. CASE s = {}
      BY <3>1 DEF Turned
    <3>2. CASE s # {}
      <4>1. s \ {Max(s)} \in SUBSET (1..k)
        BY <3>2, WithoutMax
      <4>2. h[s \ {Max(s)}] = g[s \ {Max(s)}]
        BY <2>3, <4>1
      <4>. QED  BY <4>2 DEF Turned
    <3>. QED  BY <3>1, <3>2
  <2>5. h = [s \in SUBSET (1..k + 1) |-> Turned(kind, h, base, seq, arg, s)]
    BY <2>4 DEF h
  <2>. QED  BY <2>5 DEF Folds
<1>. HIDE DEF T
<1>3. n \in T
  BY <1>1, <1>2, SetInduction
<1>. QED  BY <1>3 DEF T

(* and the last one is a turn after those of the elements before. *)
LEMMA FoldStep ==
  ASSUME NEW kind, NEW g, NEW base, NEW seq, NEW arg, NEW n \in Nat,
         Folds(kind, g, base, seq, arg, n)
  PROVE  /\ g[1..0] = base
         /\ \A k \in 0..n - 1 :
              g[1..k + 1] = Turn(kind, g[1..k], seq[k + 1], arg)
<1>1. \A s \in SUBSET (1..n) : g[s] = Turned(kind, g, base, seq, arg, s)
  <2>1. g = [s \in SUBSET (1..n) |-> Turned(kind, g, base, seq, arg, s)]
    BY DEF Folds
  <2>. QED  BY <2>1
<1>2. 1..0 \in SUBSET (1..n) /\ 1..0 = {}
  OBVIOUS
<1>3. g[1..0] = base
  BY <1>1, <1>2 DEF Turned
<1>4. ASSUME NEW k \in 0..n - 1
      PROVE  g[1..k + 1] = Turn(kind, g[1..k], seq[k + 1], arg)
  <2>1. k \in Nat /\ 1..k + 1 \in SUBSET (1..n) /\ 1..k + 1 # {}
    <3>1. k \in Nat /\ k + 1 <= n
      OBVIOUS
    <3>2. k + 1 \in 1..k + 1
      BY <3>1
    <3>3. \A i \in 1..k + 1 : i \in 1..n
      BY <3>1
    <3>. QED  BY <3>1, <3>2, <3>3
  <2>2. g[1..k + 1] = Turned(kind, g, base, seq, arg, 1..k + 1)
    BY <1>1, <2>1
  <2>. QED  BY <2>1, <2>2, WithoutLast DEF Turned
<1>. QED  BY <1>3, <1>4

LEMMA FillTreeFolds ==
  ASSUME NEW tree, NEW pairs, NEW size, NEW n \in Nat, DOMAIN pairs = 1..n
  PROVE  \E g : /\ Folds("tree", g, tree, pairs, size, n)
                /\ FillTree(tree, pairs, size) = g[1..n]
<1>. DEFINE Of(g, s) ==
       IF s = {} THEN tree
       ELSE At(g[s \ {Max(s)}], LAMBDA t : FillCache(t, pairs[Max(s)], size))
<1>. DEFINE iter == CHOOSE g : g = [s \in SUBSET DOMAIN pairs |-> Of(g, s)]
<1>1. FillTree(tree, pairs, size) = iter[DOMAIN pairs]
  BY DEF FillTree, FoldLeft, MapThenFoldSet
<1>2. ASSUME NEW g, NEW s
      PROVE  Of(g, s) = Turned("tree", g, tree, pairs, size, s)
  BY DEF At, Turned, Turn
<1>. HIDE DEF Of
<1>3. PICK g : Folds("tree", g, tree, pairs, size, n)
  BY FoldExists
<1>4. g = [s \in SUBSET DOMAIN pairs |-> Of(g, s)]
  BY <1>2, <1>3 DEF Folds
<1>5. iter = [s \in SUBSET DOMAIN pairs |-> Of(iter, s)]
  BY <1>4
<1>. HIDE DEF iter
<1>6. Folds("tree", iter, tree, pairs, size, n)
  BY <1>2, <1>5 DEF Folds
<1>. QED  BY <1>1, <1>6

LEMMA FillEntriesFolds ==
  ASSUME NEW tree, NEW pairs, NEW size, NEW n \in Nat, DOMAIN pairs = 1..n
  PROVE  \E g : /\ Folds("entries", g, tree, pairs, size, n)
                /\ FillEntries(tree, pairs, size) = g[1..n]
<1>. DEFINE Of(g, s) ==
       IF s = {} THEN tree
       ELSE At(g[s \ {Max(s)}], LAMBDA t : FillEntry(t, pairs[Max(s)], size))
<1>. DEFINE iter == CHOOSE g : g = [s \in SUBSET DOMAIN pairs |-> Of(g, s)]
<1>1. FillEntries(tree, pairs, size) = iter[DOMAIN pairs]
  BY DEF FillEntries, FoldLeft, MapThenFoldSet
<1>2. ASSUME NEW g, NEW s
      PROVE  Of(g, s) = Turned("entries", g, tree, pairs, size, s)
  BY DEF At, Turned, Turn
<1>. HIDE DEF Of
<1>3. PICK g : Folds("entries", g, tree, pairs, size, n)
  BY FoldExists
<1>4. g = [s \in SUBSET DOMAIN pairs |-> Of(g, s)]
  BY <1>2, <1>3 DEF Folds
<1>5. iter = [s \in SUBSET DOMAIN pairs |-> Of(iter, s)]
  BY <1>4
<1>. HIDE DEF iter
<1>6. Folds("entries", iter, tree, pairs, size, n)
  BY <1>2, <1>5 DEF Folds
<1>. QED  BY <1>1, <1>6

Ordinals(n) == [i \in 1..n |-> i]

LEMMA ForgetFolds ==
  ASSUME NEW tree, NEW parent, NEW first \in Int, NEW last \in Int, NEW names
  PROVE  \E n \in Nat : \E g :
           /\ Folds("forget", g, NodeAt(tree, parent), Ordinals(n),
                    [first |-> first, columns |-> names], n)
           /\ ForgetRows(tree, parent, first, last, names)
                = PutNode(tree, parent, g[1..n])
<1>. DEFINE n == IF last < first THEN 0 ELSE last - first + 1
            order == [i \in 1..(last - first + 1) |-> i]
            node == NodeAt(tree, parent)
            Of(g, s) ==
       IF s = {} THEN node
       ELSE At(g[s \ {Max(s)}],
               LAMBDA v : ForgetRow(v, first + order[Max(s)] - 1, names))
<1>. DEFINE iter == CHOOSE g : g = [s \in SUBSET DOMAIN order |-> Of(g, s)]
            arg == [first |-> first, columns |-> names]
<1>1. ForgetRows(tree, parent, first, last, names)
        = PutNode(tree, parent, iter[DOMAIN order])
  BY DEF ForgetRows, FoldLeft, MapThenFoldSet
<1>2. ASSUME NEW g, NEW s
      PROVE  Of(g, s) = Turned("forget", g, node, order, arg, s)
  <2>1. \A x, a : At(x, LAMBDA v : ForgetRow(v, a, names)) = ForgetRow(x, a, names)
    BY DEF At
  <2>2. arg.first = first /\ arg.columns = names
    OBVIOUS
  <2>3. \A x, e : Turn("forget", x, e, arg) = ForgetRow(x, first + e - 1, names)
    BY <2>2 DEF Turn
  <2>. HIDE DEF order, node, arg
  <2>. QED  BY <2>1, <2>3 DEF Turned
<1>3. n \in Nat /\ order = [i \in 1..n |-> i]
  OBVIOUS
<1>. HIDE DEF Of, node, arg
<1>4. DOMAIN order = 1..n
  BY <1>3
<1>. HIDE DEF order
<1>5. PICK g : Folds("forget", g, node, order, arg, n)
  BY <1>3, FoldExists
<1>. HIDE DEF n
<1>6. g = [s \in SUBSET DOMAIN order |-> Of(g, s)]
  BY <1>2, <1>4, <1>5 DEF Folds
<1>7. iter = [s \in SUBSET DOMAIN order |-> Of(iter, s)]
  BY <1>6
<1>. HIDE DEF iter
<1>8. Folds("forget", iter, node, order, arg, n)
  BY <1>2, <1>4, <1>7 DEF Folds
<1>9. order = Ordinals(n)
  BY <1>3 DEF Ordinals, order
<1>. QED  BY <1>1, <1>3, <1>4, <1>8, <1>9 DEF node, arg

LEMMA CleanFolds ==
  ASSUME NEW cache, NEW size, NEW n \in Nat, DOMAIN cache = 1..n, ~(Len(cache) <= size)
  PROVE  \E g : /\ Folds("clean", g, <<>>, [i \in 1..n |-> i],
                         [surplus |-> Surplus(cache, size), cache |-> cache], n)
                /\ CleanCache(cache, size) = g[1..n]
<1>. DEFINE order == [i \in DOMAIN cache |-> i]
            surplus == Surplus(cache, size)
            Of(g, s) ==
       IF s = {} THEN <<>>
       ELSE IF order[Max(s)] \in surplus THEN g[s \ {Max(s)}]
            ELSE Append(g[s \ {Max(s)}], cache[order[Max(s)]])
<1>. DEFINE iter == CHOOSE g : g = [s \in SUBSET DOMAIN order |-> Of(g, s)]
            arg == [surplus |-> surplus, cache |-> cache]
<1>1. CleanCache(cache, size)
        = IF Len(cache) <= size THEN cache ELSE iter[DOMAIN order]
  BY DEF CleanCache, FoldLeftDomain, FoldLeft, MapThenFoldSet
<1>2. ASSUME NEW g, NEW s
      PROVE  Of(g, s) = Turned("clean", g, <<>>, order, arg, s)
  BY DEF Turned, Turn
<1>3. order = [i \in 1..n |-> i] /\ DOMAIN order = 1..n
  OBVIOUS
<1>. HIDE DEF Of, order, arg, surplus
<1>4. PICK g : Folds("clean", g, <<>>, order, arg, n)
  BY FoldExists
<1>5. g = [s \in SUBSET DOMAIN order |-> Of(g, s)]
  BY <1>2, <1>3, <1>4 DEF Folds
<1>6. iter = [s \in SUBSET DOMAIN order |-> Of(iter, s)]
  BY <1>5
<1>. HIDE DEF iter
<1>7. Folds("clean", iter, <<>>, order, arg, n)
  BY <1>2, <1>3, <1>6 DEF Folds
<1>. QED  BY <1>1, <1>3, <1>7 DEF arg, surplus

LEMMA MergeFolds ==
  ASSUME NEW n \in Nat, DOMAIN requestedData = 1..n
  PROVE  \E g : /\ Folds("merge", g, <<>>, requestedData, 0, n)
                /\ FinalRequests = g[1..n]
<1>. DEFINE Of(g, s) ==
       IF s = {} THEN <<>> ELSE Merged(g[s \ {Max(s)}], requestedData[Max(s)])
<1>. DEFINE iter == CHOOSE g : g = [s \in SUBSET DOMAIN requestedData |-> Of(g, s)]
<1>1. FinalRequests = iter[DOMAIN requestedData]
  BY DEF FinalRequests, FoldLeft, MapThenFoldSet, Merged
<1>2. ASSUME NEW g, NEW s
      PROVE  Of(g, s) = Turned("merge", g, <<>>, requestedData, 0, s)
  BY DEF Turned, Turn
<1>. HIDE DEF Of
<1>3. PICK g : Folds("merge", g, <<>>, requestedData, 0, n)
  BY FoldExists
<1>4. g = [s \in SUBSET DOMAIN requestedData |-> Of(g, s)]
  BY <1>2, <1>3 DEF Folds
<1>5. iter = [s \in SUBSET DOMAIN requestedData |-> Of(iter, s)]
  BY <1>4
<1>. HIDE DEF iter
<1>6. Folds("merge", iter, <<>>, requestedData, 0, n)
  BY <1>2, <1>5 DEF Folds
<1>. QED  BY <1>1, <1>6

LEMMA TakeFolds ==
  ASSUME NEW final, NEW n \in Nat, Len(final) = n
  PROVE  \E g : /\ Folds("take", g, [rows |-> 0, calls |-> <<>>], Reverse(final),
                         cacheSize, n)
                /\ Sent(final) = g[1..n].calls
<1>. DEFINE order == Reverse(final)
            base == [rows |-> 0, calls |-> <<>>]
            Of(g, s) ==
       IF s = {} THEN base
       ELSE IF g[s \ {Max(s)}].rows >= cacheSize THEN g[s \ {Max(s)}]
            ELSE [rows |-> g[s \ {Max(s)}].rows + RowsIn(order[Max(s)]),
                  calls |-> Append(g[s \ {Max(s)}].calls, RowCall(order[Max(s)]))]
<1>. DEFINE iter == CHOOSE g : g = [s \in SUBSET DOMAIN order |-> Of(g, s)]
<1>1. Sent(final) = iter[DOMAIN order].calls
  BY DEF Sent, FoldLeft, MapThenFoldSet
<1>2. ASSUME NEW g, NEW s
      PROVE  Of(g, s) = Turned("take", g, base, order, cacheSize, s)
  BY DEF Turned, Turn, Taken
<1>3. DOMAIN order = 1..n
  BY DEF Reverse
<1>. HIDE DEF Of, order, base
<1>4. PICK g : Folds("take", g, base, order, cacheSize, n)
  BY FoldExists
<1>5. g = [s \in SUBSET DOMAIN order |-> Of(g, s)]
  BY <1>2, <1>3, <1>4 DEF Folds
<1>6. iter = [s \in SUBSET DOMAIN order |-> Of(iter, s)]
  BY <1>5
<1>. HIDE DEF iter
<1>7. Folds("take", iter, base, order, cacheSize, n)
  BY <1>2, <1>3, <1>6 DEF Folds
<1>. QED  BY <1>1, <1>3, <1>7 DEF order, base

-----------------------------------------------------------------------------
(* Sequences, of whatever their elements are *)

IsSeq(s) == s \in Seq(ToSet(s))

LEMMA SeqIs ==
  ASSUME NEW S, NEW s \in Seq(S)  PROVE IsSeq(s) /\ ToSet(s) \subseteq S
<1>1. s = [i \in 1..Len(s) |-> s[i]] /\ Len(s) \in Nat
  BY LenProperties
<1>2. \A i \in 1..Len(s) : s[i] \in S
  OBVIOUS
<1>. QED  BY <1>1, <1>2 DEF IsSeq, ToSet

LEMMA IsSeqElements ==
  ASSUME NEW s, IsSeq(s)
  PROVE  Len(s) \in Nat /\ DOMAIN s = 1..Len(s) /\ \A i \in 1..Len(s) : s[i] \in ToSet(s)
BY LenProperties DEF IsSeq, ToSet

LEMMA WiderSeq ==
  ASSUME NEW S, NEW T, S \subseteq T, NEW s \in Seq(S)  PROVE s \in Seq(T)
OBVIOUS

LEMMA AppendSeq ==
  ASSUME NEW s, IsSeq(s), NEW e
  PROVE  /\ IsSeq(Append(s, e)) /\ Len(Append(s, e)) = Len(s) + 1
         /\ \A i \in 1..Len(s) : Append(s, e)[i] = s[i]
         /\ Append(s, e)[Len(s) + 1] = e
<1>. DEFINE S == ToSet(s) \cup {e}
<1>1. s \in Seq(S) /\ e \in S
  BY WiderSeq DEF IsSeq
<1>. HIDE DEF S
<1>2. /\ Append(s, e) \in Seq(S) /\ Len(Append(s, e)) = Len(s) + 1
      /\ \A i \in 1..Len(s) : Append(s, e)[i] = s[i]
      /\ Append(s, e)[Len(s) + 1] = e
  BY <1>1, AppendProperties
<1>. QED  BY <1>2, SeqIs

LEMMA TailSeq ==
  ASSUME NEW s, IsSeq(s), s # <<>>
  PROVE  /\ IsSeq(Tail(s)) /\ Len(s) \in Nat \ {0} /\ Len(Tail(s)) = Len(s) - 1
         /\ Head(s) = s[1] /\ \A i \in 1..Len(s) - 1 : Tail(s)[i] = s[i + 1]
<1>1. s \in Seq(ToSet(s))
  BY DEF IsSeq
<1>2. /\ Head(s) = s[1] /\ Tail(s) \in Seq(ToSet(s)) /\ Len(s) \in Nat \ {0}
      /\ Len(Tail(s)) = Len(s) - 1
      /\ \A i \in 1..Len(s) - 1 : Tail(s)[i] = s[i + 1]
  BY <1>1, HeadTailProperties, EmptySeq, LenProperties
<1>. QED  BY <1>2, SeqIs

LEMMA ConcatSeq ==
  ASSUME NEW s, IsSeq(s), NEW t, IsSeq(t)
  PROVE  /\ IsSeq(s \o t) /\ Len(s \o t) = Len(s) + Len(t)
         /\ \A i \in 1..Len(s) + Len(t) :
              (s \o t)[i] = IF i <= Len(s) THEN s[i] ELSE t[i - Len(s)]
<1>. DEFINE S == ToSet(s) \cup ToSet(t)
<1>1. s \in Seq(S) /\ t \in Seq(S)
  BY WiderSeq DEF IsSeq
<1>. HIDE DEF S
<1>2. s \o t \in Seq(S)
  BY <1>1
<1>. QED  BY <1>1, <1>2, SeqIs, ConcatProperties

LEMMA NoSeq == IsSeq(<<>>) /\ Len(<<>>) = 0
<1>1. <<>> \in Seq({}) /\ Len(<<>>) = 0
  OBVIOUS
<1>. QED  BY <1>1, SeqIs

(* What InsertAt, RemoveAt and Front are made of. *)
LEMMA RemoveAtSeq ==
  ASSUME NEW S, NEW s \in Seq(S), NEW p \in 1..Len(s)
  PROVE  RemoveAt(s, p) \in Seq(S) /\ Len(RemoveAt(s, p)) = Len(s) - 1
<1>1. Len(s) \in Nat /\ p \in Nat /\ p >= 1 /\ p <= Len(s)
  OBVIOUS
<1>2. SubSeq(s, 1, p - 1) \in Seq(S) /\ Len(SubSeq(s, 1, p - 1)) = p - 1
  <2>1. \A i \in 1..p - 1 : i \in 1..Len(s)
    BY <1>1
  <2>. QED  BY <1>1, <2>1, SubSeqProperties
<1>3. SubSeq(s, p + 1, Len(s)) \in Seq(S) /\ Len(SubSeq(s, p + 1, Len(s))) = Len(s) - p
  <2>1. \A i \in p + 1..Len(s) : i \in 1..Len(s)
    BY <1>1
  <2>. QED  BY <1>1, <2>1, SubSeqProperties
<1>. DEFINE u == SubSeq(s, 1, p - 1)
            v == SubSeq(s, p + 1, Len(s))
<1>4. RemoveAt(s, p) = u \o v
  BY DEF RemoveAt
<1>. HIDE DEF u, v
<1>5. u \o v \in Seq(S) /\ Len(u \o v) = Len(u) + Len(v)
  BY <1>2, <1>3, ConcatProperties DEF u, v
<1>6. Len(u) = p - 1 /\ Len(v) = Len(s) - p
  BY <1>2, <1>3 DEF u, v
<1>. QED  BY <1>1, <1>4, <1>5, <1>6

LEMMA InsertAtSeq ==
  ASSUME NEW S, NEW s \in Seq(S), NEW p \in 1..Len(s) + 1, NEW e \in S
  PROVE  InsertAt(s, p, e) \in Seq(S) /\ Len(InsertAt(s, p, e)) = Len(s) + 1
<1>1. Len(s) \in Nat /\ p \in Nat /\ p >= 1 /\ p <= Len(s) + 1
  OBVIOUS
<1>2. SubSeq(s, 1, p - 1) \in Seq(S) /\ Len(SubSeq(s, 1, p - 1)) = p - 1
  <2>1. \A i \in 1..p - 1 : i \in 1..Len(s)
    BY <1>1
  <2>. QED  BY <1>1, <2>1, SubSeqProperties
<1>3. SubSeq(s, p, Len(s)) \in Seq(S) /\ Len(SubSeq(s, p, Len(s))) = Len(s) - p + 1
  <2>1. \A i \in p..Len(s) : i \in 1..Len(s)
    BY <1>1
  <2>. QED  BY <1>1, <2>1, SubSeqProperties
<1>4. <<e>> \in Seq(S) /\ Len(<<e>>) = 1
  OBVIOUS
<1>5. /\ SubSeq(s, 1, p - 1) \o <<e>> \in Seq(S)
      /\ Len(SubSeq(s, 1, p - 1) \o <<e>>) = p
  BY <1>1, <1>2, <1>4, ConcatProperties
<1>. DEFINE u == SubSeq(s, 1, p - 1) \o <<e>>
            v == SubSeq(s, p, Len(s))
<1>6. InsertAt(s, p, e) = u \o v
  BY DEF InsertAt
<1>7. /\ u \in Seq(S) /\ v \in Seq(S) /\ Len(u) = p /\ Len(v) = Len(s) - p + 1
  BY <1>3, <1>5
<1>. HIDE DEF u, v
<1>8. u \o v \in Seq(S) /\ Len(u \o v) = Len(u) + Len(v)
  BY <1>7, ConcatProperties
<1>. QED  BY <1>1, <1>6, <1>7, <1>8

-----------------------------------------------------------------------------
(* The tree: its nodes have sizes, and what leaves that of the root. *)

NodeOK(node) ==
  /\ {"rowCount", "columnCount"} \subseteq DOMAIN node
  /\ node.rowCount \in Int /\ node.columnCount \in Int
EntryOK(entry) == {"key", "node"} \subseteq DOMAIN entry /\ NodeOK(entry.node)
CacheOK(cache) == IsSeq(cache) /\ \A i \in 1..Len(cache) : EntryOK(cache[i])
TreeOK(tree) == NodeOK(tree) /\ "kids" \in DOMAIN tree /\ CacheOK(tree.kids)

Keeps(tree, new) ==
  /\ TreeOK(new)
  /\ new.rowCount = tree.rowCount /\ new.columnCount = tree.columnCount

LEMMA KeepsTransitive ==
  ASSUME NEW x, NEW y, NEW z, Keeps(x, y), Keeps(y, z)  PROVE Keeps(x, z)
BY DEF Keeps

LEMMA KeepsItself == ASSUME NEW tree, TreeOK(tree)  PROVE Keeps(tree, tree)
BY DEF Keeps

LEMMA CacheFrom ==
  ASSUME NEW S, \A e \in S : EntryOK(e), NEW cache \in Seq(S)  PROVE CacheOK(cache)
BY SeqIs DEF CacheOK

LEMMA CacheElements ==
  ASSUME NEW cache, CacheOK(cache)
  PROVE  cache \in Seq(ToSet(cache)) /\ \A e \in ToSet(cache) : EntryOK(e)
BY IsSeqElements DEF CacheOK, IsSeq, ToSet

LEMMA AtPosition ==
  ASSUME NEW cache, CacheOK(cache), NEW key, Exists(cache, key)
  PROVE  /\ Position(cache, key) \in 1..Len(cache) /\ NodeOK(Get(cache, key))
         /\ cache[Position(cache, key)].key = key
<1>1. Position(cache, key) \in DOMAIN cache /\ cache[Position(cache, key)].key = key
  BY DEF Exists, Position
<1>2. Position(cache, key) \in 1..Len(cache)
  BY <1>1, IsSeqElements DEF CacheOK
<1>. QED  BY <1>1, <1>2 DEF Get, CacheOK, EntryOK

LEMMA CleanCacheOK ==
  ASSUME NEW cache, CacheOK(cache), NEW size
  PROVE  CacheOK(CleanCache(cache, size))
<1>1. CASE Len(cache) <= size
  BY <1>1 DEF CleanCache
<1>2. CASE ~(Len(cache) <= size)
  <2>. DEFINE n == Len(cache)
              S == ToSet(cache)
              arg == [surplus |-> Surplus(cache, size), cache |-> cache]
              order == [i \in 1..n |-> i]
  <2>1. n \in Nat /\ DOMAIN cache = 1..n /\ cache \in Seq(S) /\ \A e \in S : EntryOK(e)
    BY IsSeqElements, CacheElements DEF CacheOK
  <2>2. \A i \in 1..n : cache[i] \in S
    BY <2>1 DEF ToSet
  <2>. HIDE DEF S, n
  <2>3. PICK g : /\ Folds("clean", g, <<>>, order, arg, n)
                 /\ CleanCache(cache, size) = g[1..n]
    BY <1>2, <2>1, CleanFolds
  <2>. DEFINE T == {k \in Nat : k <= n => g[1..k] \in Seq(S)}
  <2>4. 0 \in T
    <3>1. g[1..0] = <<>>
      BY <2>1, <2>3, FoldStep
    <3>2. <<>> \in Seq(S)
      OBVIOUS
    <3>3. g[1..0] \in Seq(S)
      BY <3>1, <3>2
    <3>. QED  BY <3>3
  <2>5. ASSUME NEW k \in Nat, k \in T  PROVE k + 1 \in T
    <3>. SUFFICES ASSUME k + 1 <= n  PROVE g[1..k + 1] \in Seq(S)
      OBVIOUS
    <3>1. k \in 0..n - 1 /\ k + 1 \in 1..n /\ g[1..k] \in Seq(S)
      BY <2>1, <2>5
    <3>2. g[1..k + 1] = Turn("clean", g[1..k], order[k + 1], arg)
      BY <2>1, <2>3, <3>1, FoldStep
    <3>3. order[k + 1] = k + 1 /\ arg.cache = cache
      BY <3>1
    <3>. HIDE DEF order, arg
    <3>4. g[1..k + 1] \in {g[1..k], Append(g[1..k], cache[k + 1])}
      BY <3>2, <3>3 DEF Turn
    <3>5. cache[k + 1] \in S
      BY <2>2, <3>1
    <3>6. Append(g[1..k], cache[k + 1]) \in Seq(S)
      BY <3>1, <3>5, AppendProperties
    <3>. QED  BY <3>1, <3>4, <3>6
  <2>. HIDE DEF T
  <2>6. n \in T
    BY <2>1, <2>4, <2>5, SetInduction
  <2>7. g[1..n] \in Seq(S)
    BY <2>1, <2>6 DEF T
  <2>. QED  BY <2>1, <2>3, <2>7, CacheFrom
<1>. QED  BY <1>1, <1>2

LEMMA EnsureOK ==
  ASSUME NEW cache, CacheOK(cache), NEW key, NEW node, NodeOK(node), NEW size
  PROVE  CacheOK(Ensure(cache, key, node, size))
<1>. DEFINE entry == [key |-> key, node |-> node]
            S == ToSet(cache) \cup {entry}
<1>1. EntryOK(entry)
  BY DEF EntryOK
<1>2. cache \in Seq(ToSet(cache)) /\ \A e \in S : EntryOK(e)
  BY <1>1, CacheElements
<1>3. entry \in S /\ cache \in Seq(S)
  BY <1>2, WiderSeq
<1>. HIDE DEF entry, S
<1>4. <<entry>> \o cache \in Seq(S)
  BY <1>3
<1>5. CacheOK(<<entry>> \o cache)
  BY <1>2, <1>4, CacheFrom
<1>. QED  BY <1>5, CleanCacheOK DEF Ensure, entry

LEMMA ChangeKeysOK ==
  ASSUME NEW cache, CacheOK(cache), NEW key, NEW delta
  PROVE  CacheOK(ChangeKeys(cache, key, delta))
<1>. DEFINE new == ChangeKeys(cache, key, delta)
            n == Len(cache)
<1>1. n \in Nat /\ DOMAIN cache = 1..n
  BY IsSeqElements DEF CacheOK
<1>2. DOMAIN new = 1..n /\ new = [i \in 1..n |-> new[i]]
  BY <1>1 DEF ChangeKeys
<1>3. ASSUME NEW i \in 1..n  PROVE EntryOK(new[i])
  <2>1. new[i] = IF cache[i].key >= key
                 THEN [cache[i] EXCEPT !.key = @ + delta] ELSE cache[i]
    BY <1>1 DEF ChangeKeys
  <2>2. EntryOK(cache[i])
    BY DEF CacheOK
  <2>. HIDE DEF new
  <2>3. EntryOK([cache[i] EXCEPT !.key = @ + delta])
    BY <2>2 DEF EntryOK
  <2>. QED  BY <2>1, <2>2, <2>3
<1>. HIDE DEF new
<1>4. new \in Seq({new[i] : i \in 1..n}) /\ \A e \in {new[i] : i \in 1..n} : EntryOK(e)
  BY <1>1, <1>2, <1>3
<1>. QED  BY <1>4, CacheFrom DEF new

LEMMA NewNodeOK == NodeOK(NewNode)
BY DEF NodeOK, NewNode

LEMMA PutKidOK ==
  ASSUME NEW tree, TreeOK(tree), NEW row, Exists(tree.kids, row), NEW kid, NodeOK(kid)
  PROVE  Keeps(tree, PutKid(tree, row, kid))
<1>. DEFINE entry == [key |-> row, node |-> kid]
            p == Position(tree.kids, row)
            S == ToSet(tree.kids) \cup {entry}
<1>1. CacheOK(tree.kids) /\ p \in 1..Len(tree.kids)
  BY AtPosition DEF TreeOK
<1>2. /\ tree.kids \in Seq(ToSet(tree.kids))
      /\ \A e \in ToSet(tree.kids) : EntryOK(e)
  BY <1>1, CacheElements
<1>3. EntryOK(entry)
  BY DEF EntryOK
<1>4. entry \in S /\ tree.kids \in Seq(S) /\ \A e \in S : EntryOK(e)
  BY <1>2, <1>3, WiderSeq
<1>. HIDE DEF p, S, entry
<1>5. RemoveAt(tree.kids, p) \in Seq(S)
  BY <1>1, <1>4, RemoveAtSeq
<1>6. <<entry>> \o RemoveAt(tree.kids, p) \in Seq(S)
  BY <1>4, <1>5
<1>7. CacheOK(<<entry>> \o RemoveAt(tree.kids, p))
  BY <1>4, <1>6, CacheFrom
<1>8. PutKid(tree, row, kid)
        = [tree EXCEPT !.kids = <<entry>> \o RemoveAt(tree.kids, p)]
  BY DEF PutKid, p, entry
<1>. QED  BY <1>7, <1>8 DEF TreeOK, NodeOK, Keeps

PathOK(path) == \/ \E row \in Int : path = <<row>>
                \/ \E row, k \in Int : path = <<row, k>>
Tops == {<<>>} \cup {<<row>> : row \in Int}

LEMMA ParentOf ==
  ASSUME NEW path, PathOK(path)
  PROVE  /\ path # <<>> /\ Len(path) \in {1, 2} /\ Parent(path) \in Tops
         /\ Len(path) = 1 => Parent(path) = <<>>
         /\ Len(path) = 2 => Len(Parent(path)) = 1 /\ Parent(path)[1] = path[1]
         /\ Last(path) \in Int
<1>1. ASSUME NEW row \in Int, path = <<row>>
      PROVE  /\ path # <<>> /\ Len(path) = 1 /\ Parent(path) = <<>> /\ Last(path) \in Int
  <2>1. Parent(path) = SubSeq(<<row>>, 1, 0)
    BY <1>1 DEF Parent, Front
  <2>2. SubSeq(<<row>>, 1, 0) = <<>>
    BY SubSeqEmpty
  <2>. QED  BY <1>1, <2>1, <2>2 DEF Last
<1>2. ASSUME NEW row \in Int, NEW k \in Int, path = <<row, k>>
      PROVE  /\ path # <<>> /\ Len(path) = 2 /\ Parent(path) = <<row>> /\ path[1] = row
             /\ Last(path) \in Int
  <2>1. Parent(path) = SubSeq(<<row, k>>, 1, 1)
    BY <1>2 DEF Parent, Front
  <2>2. /\ SubSeq(<<row, k>>, 1, 1) \in Seq(Int) /\ Len(SubSeq(<<row, k>>, 1, 1)) = 1
        /\ SubSeq(<<row, k>>, 1, 1)[1] = row
    <3>1. \A i \in 1..1 : <<row, k>>[i] \in Int
      OBVIOUS
    <3>. HIDE <1>2
    <3>. QED  BY <3>1, SubSeqProperties
  <2>. QED  BY <1>2, <2>1, <2>2 DEF Last
<1>. QED  BY <1>1, <1>2 DEF PathOK, Tops

LEMMA AppendIsPath ==
  ASSUME NEW parent \in Tops, NEW row \in Int  PROVE PathOK(Append(parent, row))
<1>1. CASE parent = <<>>
  <2>1. Append(<<>>, row) = <<row>>
    OBVIOUS
  <2>. QED  BY <1>1, <2>1 DEF PathOK
<1>2. ASSUME NEW r \in Int, parent = <<r>>  PROVE PathOK(Append(parent, row))
  <2>1. Append(<<r>>, row) = <<r, row>>
    <3>. DEFINE s == Append(<<r>>, row)
                t == <<r, row>>
    <3>1. <<r>> \in Seq(Int) /\ Len(<<r>>) = 1 /\ <<r>>[1] = r
      OBVIOUS
    <3>2. s \in Seq(Int) /\ Len(s) = 2 /\ s[1] = r /\ s[2] = row
      BY <3>1, AppendProperties
    <3>3. t \in Seq(Int) /\ Len(t) = 2 /\ t[1] = r /\ t[2] = row
      OBVIOUS
    <3>. HIDE DEF s, t
    <3>4. \A i \in 1..2 : s[i] = t[i]
      BY <3>2, <3>3
    <3>5. s = t
      BY <3>2, <3>3, <3>4, SeqEqual
    <3>. QED  BY <3>5 DEF s, t
  <2>. QED  BY <1>2, <2>1 DEF PathOK
<1>. QED  BY <1>1, <1>2 DEF Tops

LEMMA FrontOfAppend ==
  ASSUME NEW s \in Seq(Int), NEW x \in Int  PROVE SubSeq(Append(s, x), 1, Len(s)) = s
<1>. DEFINE t == Append(s, x)
            u == SubSeq(t, 1, Len(s))
<1>1. /\ Len(s) \in Nat /\ t \in Seq(Int) /\ Len(t) = Len(s) + 1
      /\ \A i \in 1..Len(s) : t[i] = s[i]
  BY AppendProperties, LenProperties
<1>. HIDE DEF t
<1>2. \A i \in 1..Len(s) : t[i] \in Int
  BY <1>1
<1>3. u \in Seq(Int) /\ Len(u) = Len(s) /\ \A i \in 1..Len(s) : u[i] = t[i]
  <2>1. /\ u \in Seq(Int) /\ Len(u) = IF 1 <= Len(s) THEN Len(s) - 1 + 1 ELSE 0
        /\ \A i \in 1..Len(s) - 1 + 1 : u[i] = t[1 + i - 1]
    BY <1>1, <1>2, SubSeqProperties
  <2>. HIDE DEF u
  <2>. QED  BY <1>1, <2>1
<1>. HIDE DEF u
<1>4. \A i \in 1..Len(u) : u[i] = s[i]
  BY <1>1, <1>3
<1>5. u = s
  BY <1>3, <1>4, SeqEqual
<1>. QED  BY <1>5 DEF u, t

LEMMA PathOfChild ==
  ASSUME NEW parent \in Tops, NEW row \in Int
  PROVE  PathOK(Append(parent, row)) /\ Parent(Append(parent, row)) = parent
<1>1. parent \in Seq(Int)
  <2>1. <<>> \in Seq(Int) /\ \A r \in Int : <<r>> \in Seq(Int)
    OBVIOUS
  <2>. QED  BY <2>1 DEF Tops
<1>2. PathOK(Append(parent, row))
  BY AppendIsPath
<1>3. Parent(Append(parent, row)) = parent
  <2>1. Len(Append(parent, row)) = Len(parent) + 1 /\ Len(parent) \in Nat
    BY <1>1, AppendProperties, LenProperties
  <2>2. SubSeq(Append(parent, row), 1, Len(parent)) = parent
    BY <1>1, FrontOfAppend
  <2>. QED  BY <2>1, <2>2 DEF Parent, Front
<1>. QED  BY <1>2, <1>3

LEMMA NodeAtOK ==
  ASSUME NEW tree, TreeOK(tree), NEW path, HasNode(tree, path)
  PROVE  /\ path = <<>> => NodeAt(tree, path) = tree
         /\ Len(path) = 1 => NodeOK(NodeAt(tree, path))
<1>1. CASE Len(path) = 1 /\ path # <<>>
  <2>1. Exists(tree.kids, path[1]) /\ NodeAt(tree, path) = Get(tree.kids, path[1])
    BY <1>1 DEF HasNode, NodeAt
  <2>. QED  BY <1>1, <2>1, AtPosition DEF TreeOK
<1>. QED  BY <1>1, NoSeq DEF NodeAt

LEMMA PutNodeOK ==
  ASSUME NEW tree, TreeOK(tree), NEW path, HasNode(tree, path), NEW node,
         path = <<>> => Keeps(tree, node), Len(path) = 1 => NodeOK(node)
  PROVE  Keeps(tree, PutNode(tree, path, node))
<1>1. CASE path = <<>>
  BY <1>1 DEF PutNode
<1>2. CASE path # <<>> /\ Len(path) = 1
  BY <1>2, PutKidOK DEF PutNode, HasNode
<1>3. CASE path # <<>> /\ Len(path) # 1
  <2>. DEFINE kid == Get(tree.kids, path[1])
              new == PutKid(kid, path[2], node)
  <2>1. Exists(tree.kids, path[1])
    BY <1>3 DEF HasNode
  <2>2. NodeOK(kid)
    BY <2>1, AtPosition DEF TreeOK
  <2>. HIDE DEF kid
  <2>3. NodeOK(new)
    BY <2>2 DEF PutKid, NodeOK
  <2>. HIDE DEF new
  <2>4. PutNode(tree, path, node) = PutKid(tree, path[1], new)
    BY <1>3 DEF PutNode, new, kid
  <2>. QED  BY <2>1, <2>3, <2>4, PutKidOK
<1>. QED  BY <1>1, <1>2, <1>3

LEMMA TouchOK ==
  ASSUME NEW tree, TreeOK(tree), NEW path
  PROVE  Keeps(tree, Touch(tree, path))
BY NodeAtOK, PutNodeOK, KeepsItself DEF Touch

LEMMA EnsureChildOK ==
  ASSUME NEW tree, NodeOK(tree), NEW row, NEW size
  PROVE  /\ NodeOK(EnsureChild(tree, row, size))
         /\ TreeOK(tree) => Keeps(tree, EnsureChild(tree, row, size))
<1>1. CASE Exists(tree.kids, row)
  BY <1>1, KeepsItself DEF EnsureChild
<1>2. CASE ~Exists(tree.kids, row)
  <2>. DEFINE new == Ensure(tree.kids, row, NewNode, size)
  <2>1. TreeOK(tree) => CacheOK(new)
    BY EnsureOK, NewNodeOK DEF TreeOK
  <2>2. EnsureChild(tree, row, size) = [tree EXCEPT !.kids = new]
    BY <1>2 DEF EnsureChild
  <2>. HIDE DEF new
  <2>. QED  BY <2>1, <2>2 DEF TreeOK, NodeOK, Keeps
<1>. QED  BY <1>1, <1>2

(* Making the child at a path. *)
LEMMA MakeChildOK ==
  ASSUME NEW tree, TreeOK(tree), NEW parent, HasNode(tree, parent), NEW row, NEW size
  PROVE  Keeps(tree, PutNode(tree, parent, EnsureChild(NodeAt(tree, parent), row, size)))
<1>. DEFINE node == EnsureChild(NodeAt(tree, parent), row, size)
<1>1. parent = <<>> => Keeps(tree, node)
  BY NodeAtOK, EnsureChildOK DEF TreeOK
<1>2. Len(parent) = 1 => NodeOK(node)
  BY NodeAtOK, EnsureChildOK
<1>. QED  BY <1>1, <1>2, PutNodeOK

LEMMA IndexedOK ==
  ASSUME NEW tree, TreeOK(tree), NEW path,
         ~(Len(path) < 2) => HasNode(tree, Parent(path))
  PROVE  Keeps(tree, Indexed(tree, path))
BY MakeChildOK, KeepsItself DEF Indexed

LEMMA ParentOfValid ==
  ASSUME NEW tree, NEW path, PathOK(path), NEW column, ValidIndex(tree, path, column)
  PROVE  HasNode(tree, Parent(path))
BY ParentOf DEF ValidIndex, HasNode

(* index leaves the parent where it was, or makes it the first. *)
LEMMA IndexedHasParent ==
  ASSUME NEW tree, TreeOK(tree), NEW path, PathOK(path), HasNode(tree, Parent(path))
  PROVE  HasNode(Indexed(tree, path), Parent(path))
<1>1. CASE Len(path) < 2
  BY <1>1 DEF Indexed
<1>2. CASE ~(Len(path) < 2)
  <2>. DEFINE row == path[1]
              kid == EnsureChild(NodeAt(tree, Parent(path)), path[2], DefaultNodesCacheSize)
              left == RemoveAt(tree.kids, Position(tree.kids, row))
              entry == [key |-> row, node |-> kid]
  <2>1. Len(Parent(path)) = 1 /\ Parent(path)[1] = row /\ Parent(path) # <<>>
    <3>1. Len(path) = 2
      BY <1>2, ParentOf
    <3>2. Len(Parent(path)) = 1 /\ Parent(path)[1] = path[1]
      BY <3>1, ParentOf
    <3>. QED  BY <3>2, NoSeq
  <2>2. Indexed(tree, path) = PutKid(tree, row, kid) /\ Exists(tree.kids, row)
    BY <1>2, <2>1 DEF Indexed, PutNode, HasNode
  <2>3. PutKid(tree, row, kid) = [tree EXCEPT !.kids = <<entry>> \o left]
    BY DEF PutKid
  <2>4. left \in Seq(ToSet(tree.kids))
    BY <2>2, AtPosition, CacheElements, RemoveAtSeq DEF TreeOK
  <2>. HIDE DEF kid, left
  <2>5. 1 \in DOMAIN (<<entry>> \o left) /\ (<<entry>> \o left)[1].key = row
    <3>1. left \in Seq(ToSet(tree.kids) \cup {entry})
      BY <2>4, WiderSeq
    <3>2. <<entry>> \in Seq(ToSet(tree.kids) \cup {entry}) /\ Len(<<entry>>) = 1
      OBVIOUS
    <3>. HIDE DEF entry
    <3>3. /\ (<<entry>> \o left)[1] = <<entry>>[1]
          /\ 1 \in DOMAIN (<<entry>> \o left)
      BY <3>1, <3>2, ConcatProperties, LenProperties
    <3>4. <<entry>>[1] = entry
      OBVIOUS
    <3>. QED  BY <3>3, <3>4 DEF entry
  <2>. HIDE DEF entry
  <2>6. Exists(Indexed(tree, path).kids, row)
    <3>1. Indexed(tree, path).kids = <<entry>> \o left
      BY <2>2, <2>3 DEF TreeOK, NodeOK
    <3>. QED  BY <2>5, <3>1 DEF Exists
  <2>. QED  BY <2>1, <2>6 DEF HasNode
<1>. QED  BY <1>1, <1>2

LEMMA CreateCacheDataOK ==
  ASSUME NEW tree, TreeOK(tree), NEW path, PathOK(path), NEW column, NEW size
  PROVE  Keeps(tree, CreateCacheData(tree, path, column, size))
<1>. DEFINE put == PutNode(tree, Parent(path),
                     EnsureChild(NodeAt(tree, Parent(path)), Last(path),
                                 SizeAt(Len(path), size)))
<1>1. ASSUME ValidIndex(tree, path, column)  PROVE Keeps(tree, put)
  BY <1>1, ParentOfValid, MakeChildOK
<1>2. CreateCacheData(tree, path, column, size)
        = IF ~ValidIndex(tree, path, column) THEN tree ELSE Touch(put, path)
  BY DEF CreateCacheData
<1>. HIDE DEF put
<1>3. ASSUME ValidIndex(tree, path, column)  PROVE Keeps(tree, Touch(put, path))
  <2>1. Keeps(tree, put) /\ TreeOK(put)
    BY <1>1, <1>3 DEF Keeps
  <2>. QED  BY <2>1, TouchOK, KeepsTransitive
<1>. QED  BY <1>2, <1>3, KeepsItself

LEMMA FillEntryOK ==
  ASSUME NEW tree, TreeOK(tree), NEW pair, PathOK(pair.path), NEW size
  PROVE  Keeps(tree, FillEntry(tree, pair, size))
<1>. DEFINE made == CreateCacheData(tree, pair.path, pair.column, size)
            node == FillRow(NodeAt(made, pair.path), pair)
<1>1. FillEntry(tree, pair, size)
        = IF ValidIndex(tree, pair.path, pair.column) /\ HasNode(made, pair.path)
          THEN PutNode(made, pair.path, node) ELSE made
  BY DEF FillEntry, At
<1>2. Keeps(tree, made) /\ TreeOK(made)
  BY CreateCacheDataOK DEF Keeps
<1>. HIDE DEF made
<1>3. ASSUME HasNode(made, pair.path)  PROVE Len(pair.path) = 1 => NodeOK(node)
  BY <1>2, <1>3, NodeAtOK DEF FillRow, NodeOK
<1>. HIDE DEF node
<1>4. pair.path # <<>>
  BY ParentOf
<1>5. ASSUME HasNode(made, pair.path)
      PROVE  Keeps(tree, PutNode(made, pair.path, node))
  BY <1>2, <1>3, <1>4, <1>5, PutNodeOK, KeepsTransitive
<1>. QED  BY <1>1, <1>2, <1>5

LEMMA FillCacheOK ==
  ASSUME NEW tree, TreeOK(tree), NEW pair, PathOK(pair.path),
         pair.rows \in Int, pair.columns \in Int, NEW size
  PROVE  Keeps(tree, FillCache(tree, pair, size))
<1>. DEFINE filled == FillEntry(tree, pair, size)
            node == [NodeAt(filled, pair.path) EXCEPT !.rowCount = pair.rows,
                                                      !.columnCount = pair.columns]
<1>1. FillCache(tree, pair, size)
        = IF ValidIndex(tree, pair.path, pair.column) /\ HasNode(filled, pair.path)
          THEN PutNode(filled, pair.path, node) ELSE filled
  BY DEF FillCache, At
<1>2. Keeps(tree, filled) /\ TreeOK(filled)
  BY FillEntryOK DEF Keeps
<1>. HIDE DEF filled
<1>3. ASSUME HasNode(filled, pair.path)  PROVE Len(pair.path) = 1 => NodeOK(node)
  BY <1>2, <1>3, NodeAtOK DEF NodeOK
<1>. HIDE DEF node
<1>4. pair.path # <<>>
  BY ParentOf
<1>5. ASSUME HasNode(filled, pair.path)
      PROVE  Keeps(tree, PutNode(filled, pair.path, node))
  BY <1>2, <1>3, <1>4, <1>5, PutNodeOK, KeepsTransitive
<1>. QED  BY <1>1, <1>2, <1>5

LEMMA ForgetRowOK ==
  ASSUME NEW tree, NodeOK(tree), NEW row, NEW names
  PROVE  /\ NodeOK(ForgetRow(tree, row, names))
         /\ TreeOK(tree) => Keeps(tree, ForgetRow(tree, row, names))
<1>1. CASE ~Exists(tree.kids, row)
  BY <1>1, KeepsItself DEF ForgetRow
<1>2. CASE Exists(tree.kids, row)
  <2>. DEFINE kid == Forget(Get(tree.kids, row), names)
  <2>1. ForgetRow(tree, row, names) = PutKid(tree, row, kid)
    BY <1>2 DEF ForgetRow
  <2>2. TreeOK(tree) => NodeOK(kid)
    BY <1>2, AtPosition DEF TreeOK, Forget, NodeOK
  <2>. HIDE DEF kid
  <2>3. NodeOK(PutKid(tree, row, kid))
    BY DEF PutKid, NodeOK
  <2>. QED  BY <1>2, <2>1, <2>2, <2>3, PutKidOK
<1>. QED  BY <1>1, <1>2

(* What the pairs of answers are. *)
PairOK(pair, sized) ==
  PathOK(pair.path) /\ (sized => pair.rows \in Int /\ pair.columns \in Int)
PairsOK(pairs, sized) ==
  IsSeq(pairs) /\ \A i \in 1..Len(pairs) : PairOK(pairs[i], sized)

(* The folds over a tree, *)
LEMMA FoldKeeps ==
  ASSUME NEW kind \in {"entries", "tree", "forget"}, NEW base, TreeOK(base),
         NEW seq, NEW arg, NEW n \in Nat, NEW g, Folds(kind, g, base, seq, arg, n),
         kind # "forget" => \A i \in 1..n : PairOK(seq[i], kind = "tree")
  PROVE  Keeps(base, g[1..n])
<1>. DEFINE T == {k \in Nat : k <= n => Keeps(base, g[1..k])}
<1>1. 0 \in T
  BY FoldStep, KeepsItself
<1>2. ASSUME NEW k \in Nat, k \in T  PROVE k + 1 \in T
  <2>. SUFFICES ASSUME k + 1 <= n  PROVE Keeps(base, g[1..k + 1])
    OBVIOUS
  <2>1. Keeps(base, g[1..k])
    BY <1>2
  <2>2. k \in 0..n - 1 /\ k + 1 \in 1..n
    OBVIOUS
  <2>3. g[1..k + 1] = Turn(kind, g[1..k], seq[k + 1], arg)
    BY <2>2, FoldStep
  <2>4. TreeOK(g[1..k])
    BY <2>1 DEF Keeps
  <2>5. Keeps(g[1..k], Turn(kind, g[1..k], seq[k + 1], arg))
    <3>1. CASE kind = "entries"
      BY <2>2, <2>4, <3>1, FillEntryOK DEF Turn, PairOK
    <3>2. CASE kind = "tree"
      BY <2>2, <2>4, <3>2, FillCacheOK DEF Turn, PairOK
    <3>3. CASE kind = "forget"
      BY <2>4, <3>3, ForgetRowOK DEF Turn, TreeOK
    <3>. QED  BY <3>1, <3>2, <3>3
  <2>. QED  BY <2>1, <2>3, <2>5, KeepsTransitive
<1>. HIDE DEF T
<1>3. n \in T
  BY <1>1, <1>2, SetInduction
<1>. QED  BY <1>3 DEF T

LEMMA FoldNode ==
  ASSUME NEW base, NodeOK(base), NEW seq, NEW arg, NEW n \in Nat, NEW g,
         Folds("forget", g, base, seq, arg, n)
  PROVE  NodeOK(g[1..n])
<1>. DEFINE T == {k \in Nat : k <= n => NodeOK(g[1..k])}
<1>1. 0 \in T
  BY FoldStep
<1>2. ASSUME NEW k \in Nat, k \in T  PROVE k + 1 \in T
  <2>. SUFFICES ASSUME k + 1 <= n  PROVE NodeOK(g[1..k + 1])
    OBVIOUS
  <2>1. NodeOK(g[1..k]) /\ k \in 0..n - 1
    BY <1>2
  <2>2. g[1..k + 1] = Turn("forget", g[1..k], seq[k + 1], arg)
    BY <2>1, FoldStep
  <2>. QED  BY <2>1, <2>2, ForgetRowOK DEF Turn
<1>. HIDE DEF T
<1>3. n \in T
  BY <1>1, <1>2, SetInduction
<1>. QED  BY <1>3 DEF T

LEMMA FillEntriesOK ==
  ASSUME NEW tree, TreeOK(tree), NEW pairs, PairsOK(pairs, FALSE), NEW size
  PROVE  Keeps(tree, FillEntries(tree, pairs, size))
<1>1. Len(pairs) \in Nat /\ DOMAIN pairs = 1..Len(pairs)
  BY IsSeqElements DEF PairsOK
<1>2. PICK g : /\ Folds("entries", g, tree, pairs, size, Len(pairs))
               /\ FillEntries(tree, pairs, size) = g[1..Len(pairs)]
  BY <1>1, FillEntriesFolds
<1>3. \A i \in 1..Len(pairs) : PairOK(pairs[i], "entries" = "tree")
  BY DEF PairsOK, PairOK
<1>4. Keeps(tree, g[1..Len(pairs)])
  BY <1>1, <1>2, <1>3, FoldKeeps
<1>. QED  BY <1>2, <1>4

LEMMA FillTreeOK ==
  ASSUME NEW tree, TreeOK(tree), NEW pairs, PairsOK(pairs, TRUE), NEW size
  PROVE  Keeps(tree, FillTree(tree, pairs, size))
<1>1. Len(pairs) \in Nat /\ DOMAIN pairs = 1..Len(pairs)
  BY IsSeqElements DEF PairsOK
<1>2. PICK g : /\ Folds("tree", g, tree, pairs, size, Len(pairs))
               /\ FillTree(tree, pairs, size) = g[1..Len(pairs)]
  BY <1>1, FillTreeFolds
<1>3. \A i \in 1..Len(pairs) : PairOK(pairs[i], "tree" = "tree")
  BY DEF PairsOK, PairOK
<1>4. Keeps(tree, g[1..Len(pairs)])
  BY <1>1, <1>2, <1>3, FoldKeeps
<1>. QED  BY <1>2, <1>4

LEMMA ForgetRowsOK ==
  ASSUME NEW tree, TreeOK(tree), NEW parent, HasNode(tree, parent),
         NEW first \in Int, NEW last \in Int, NEW names
  PROVE  Keeps(tree, ForgetRows(tree, parent, first, last, names))
<1>. DEFINE arg == [first |-> first, columns |-> names]
            node == NodeAt(tree, parent)
<1>0. PICK n \in Nat :
        \E g : /\ Folds("forget", g, node, Ordinals(n), arg, n)
               /\ ForgetRows(tree, parent, first, last, names)
                    = PutNode(tree, parent, g[1..n])
  BY ForgetFolds
<1>1. PICK g : /\ Folds("forget", g, node, Ordinals(n), arg, n)
               /\ ForgetRows(tree, parent, first, last, names)
                    = PutNode(tree, parent, g[1..n])
  BY <1>0
<1>. HIDE DEF arg
<1>2. parent = <<>> => Keeps(tree, g[1..n])
  <2>. SUFFICES ASSUME parent = <<>>  PROVE Keeps(tree, g[1..n])
    OBVIOUS
  <2>1. node = tree
    BY NodeAtOK
  <2>. HIDE DEF node
  <2>. QED  BY <1>1, <2>1, FoldKeeps
<1>3. Len(parent) = 1 => NodeOK(g[1..n])
  BY <1>1, NodeAtOK, FoldNode
<1>. QED  BY <1>1, <1>2, <1>3, PutNodeOK

(* What changes the number of rows. *)
LEMMA InsertChildOK ==
  ASSUME NEW node, NodeOK(node), NEW row, NEW size
  PROVE  /\ NodeOK(InsertChild(node, row, size))
         /\ TreeOK(node) => TreeOK(InsertChild(node, row, size))
         /\ InsertChild(node, row, size).rowCount = node.rowCount + 1
         /\ InsertChild(node, row, size).columnCount = node.columnCount
<1>. DEFINE kid == [NewNode EXCEPT !.columnCount = node.columnCount]
            cache == Insert(node.kids, row, kid, size)
            new == InsertChild(node, row, size)
<1>1. NodeOK(kid)
  BY DEF NodeOK, NewNode
<1>. HIDE DEF kid
<1>2. TreeOK(node) => CacheOK(cache)
  BY <1>1, EnsureOK, ChangeKeysOK DEF TreeOK, Insert
<1>3. new = [node EXCEPT !.kids = cache, !.rowCount = @ + 1,
                         !.hasChildren = @ \/ node.rowCount + 1 # 0]
  BY DEF InsertChild, kid
<1>. HIDE DEF cache, new
<1>4. NodeOK(new) /\ new.rowCount = node.rowCount + 1 /\ new.columnCount = node.columnCount
  BY <1>3 DEF NodeOK
<1>5. TreeOK(node) => TreeOK(new)
  BY <1>2, <1>3, <1>4 DEF TreeOK, NodeOK
<1>. QED  BY <1>4, <1>5 DEF new

LEMMA RemoveKeyOK ==
  ASSUME NEW cache, CacheOK(cache), NEW key
  PROVE  CacheOK(RemoveKey(cache, key))
<1>. DEFINE left == IF Exists(cache, key) THEN RemoveAt(cache, Position(cache, key))
                                          ELSE cache
<1>1. CacheOK(left)
  <2>1. CASE ~Exists(cache, key)
    BY <2>1
  <2>2. CASE Exists(cache, key)
    <3>1. RemoveAt(cache, Position(cache, key)) \in Seq(ToSet(cache))
      BY <2>2, CacheElements, AtPosition, RemoveAtSeq
    <3>2. CacheOK(RemoveAt(cache, Position(cache, key)))
      BY <3>1, CacheElements, CacheFrom
    <3>. QED  BY <2>2, <3>2
  <2>. QED  BY <2>1, <2>2
<1>. HIDE DEF left
<1>. QED  BY <1>1, ChangeKeysOK DEF RemoveKey, left

LEMMA RemoveChildOK ==
  ASSUME NEW node, NodeOK(node), NEW row
  PROVE  /\ NodeOK(RemoveChild(node, row))
         /\ TreeOK(node) => TreeOK(RemoveChild(node, row))
         /\ RemoveChild(node, row).rowCount = node.rowCount - 1
         /\ RemoveChild(node, row).columnCount = node.columnCount
<1>. DEFINE cache == RemoveKey(node.kids, row)
            new == RemoveChild(node, row)
<1>1. TreeOK(node) => CacheOK(cache)
  BY RemoveKeyOK DEF TreeOK
<1>2. new = [node EXCEPT !.kids = cache, !.rowCount = @ - 1,
                         !.hasChildren = node.rowCount - 1 # 0]
  BY DEF RemoveChild
<1>. HIDE DEF cache, new
<1>3. NodeOK(new) /\ new.rowCount = node.rowCount - 1 /\ new.columnCount = node.columnCount
  BY <1>2 DEF NodeOK
<1>4. TreeOK(node) => TreeOK(new)
  BY <1>1, <1>2, <1>3 DEF TreeOK, NodeOK
<1>. QED  BY <1>3, <1>4 DEF new

LEMMA SizedOK ==
  ASSUME NEW r \in Int, NEW c \in Int
  PROVE  TreeOK(Sized(r, c)) /\ Sized(r, c).rowCount = r /\ Sized(r, c).columnCount = c
<1>1. Sized(r, c) = [NewNode EXCEPT !.rowCount = r, !.columnCount = c,
                                    !.hasChildren = r > 0]
  BY DEF Sized
<1>2. CacheOK(<<>>)
  BY NoSeq DEF CacheOK
<1>. QED  BY <1>1, <1>2 DEF TreeOK, NodeOK, NewNode

LEMMA ClearRowsOK ==
  ASSUME NEW tree, TreeOK(tree), NEW first, NEW last
  PROVE  Keeps(tree, ClearRows(tree, first, last))
<1>1. CASE tree.columnCount > 0 /\ {first, last} \subseteq 1..tree.rowCount
  <2>1. first \in Int /\ last \in Int /\ HasNode(tree, <<>>)
    BY <1>1 DEF HasNode
  <2>2. ClearRows(tree, first, last)
          = ForgetRows(tree, <<>>, first, last, 1..tree.columnCount)
    BY <1>1 DEF ClearRows
  <2>. QED  BY <2>1, <2>2, ForgetRowsOK
<1>2. CASE ~(tree.columnCount > 0 /\ {first, last} \subseteq 1..tree.rowCount)
  BY <1>2, KeepsItself DEF ClearRows
<1>. QED  BY <1>1, <1>2

-----------------------------------------------------------------------------
(* Types *)

Requests == [parent : Tops, r1 : Int, r2 : Int, c1 : Int, c2 : Int, asked : BOOLEAN]

Calls ==
  [type : {"size"}, parent : {<<>>}, init : {"init", "reset"}, live : BOOLEAN]
  \cup [type : {"size"}, parent : Tops \ {<<>>}, init : {"parent"}, live : BOOLEAN]
  \cup [type : {"cache"}, init : {"init", "reset", "layout"}, size : Nat, live : BOOLEAN]
  \cup [type : {"rows"}, request : Requests, live : BOOLEAN]
  \cup [type : {"headers"}, sections : Seq(Nat), live : BOOLEAN]
  \cup [type : {"setData"}, path : Tops \ {<<>>}, column : {1}]

SignalOK(m) ==
  \/ m.type \in {"rowsInserted", "rowsRemoved"} /\ m.parent \in Tops /\ m.row \in Int
  \/ m.type = "dataChanged" /\ m.parent \in Tops /\ m.row \in Int /\ m.column \in Int
  \/ m.type \in {"rowsMoved", "columnsInserted", "modelReset", "layoutChanged",
                 "headerDataChanged", "init"}
AnswerOK(m) ==
  \/ /\ m.type \in {"size", "cache"} /\ m.parent \in Tops
     /\ m.rows \in Nat /\ m.columns \in Nat /\ m.live \in BOOLEAN
     /\ PairsOK(m.pairs, TRUE)
     /\ m.init \in {"init", "reset", "layout", "parent"}
     /\ m.init = "parent" <=> m.parent # <<>>
     /\ m.init = "layout" => m.type = "cache"
     /\ m.init = "parent" => m.type = "size"
     /\ DOMAIN m = {"type", "parent", "rows", "columns", "live", "pairs", "init"}
  \/ /\ m.type = "rows" /\ m.request \in Requests /\ m.live \in BOOLEAN
     /\ PairsOK(m.pairs, FALSE)
     /\ DOMAIN m = {"type", "request", "live", "pairs"}
  \/ m \in [type : {"headers"}, sections : Seq(Nat), live : BOOLEAN]
PacketOK(m) == SignalOK(m) \/ AnswerOK(m)
PacketsOK(queue) == IsSeq(queue) /\ \A i \in 1..Len(queue) : PacketOK(queue[i])

ModelTypes ==
  /\ rows \in Seq(Items) /\ kids \in [Items -> Seq(Items)]
  /\ columns \in Seq(Columns) /\ edited \subseteq (Items \X Columns)
WireTypes == toSource \in Seq(Calls) /\ PacketsOK(toReplica)
RequestTypes ==
  requestedData \in Seq(Requests) /\ requestedHeaders \in Seq(Nat)
ReplicaTypes ==
  /\ prefetch \in BOOLEAN /\ initDone \in BOOLEAN /\ waiting \in BOOLEAN
  /\ connected \in BOOLEAN
  /\ headerData \in Seq(BOOLEAN) /\ cacheSize \in {CacheSize, SmallCacheSize}
  /\ headerEvents \in Nat /\ changes \in Nat /\ reads \in Nat
StateOK == ModelTypes /\ WireTypes /\ RequestTypes /\ ReplicaTypes /\ TreeOK(root)

-----------------------------------------------------------------------------
(* What the adapter answers *)

LEMMA RowsOfType ==
  ASSUME ModelTypes, NEW parent \in Tops, InModel(parent)
  PROVE  RowsOf(parent) \in Seq(Items) /\ (parent # <<>> => rows[parent[1]] \in Items)
<1>1. CASE parent = <<>>
  BY <1>1 DEF RowsOf, ModelTypes
<1>2. CASE parent # <<>>
  <2>1. PICK row \in Int : parent = <<row>>
    BY <1>2 DEF Tops
  <2>2. 1 \in DOMAIN parent
    BY <2>1
  <2>3. parent[1] \in DOMAIN rows
    BY <2>2 DEF InModel
  <2>4. rows[parent[1]] \in Items
    BY <2>3 DEF ModelTypes
  <2>. QED  BY <1>2, <2>4 DEF RowsOf, ModelTypes
<1>. QED  BY <1>1, <1>2

LEMMA ColumnsOfType ==
  ASSUME ModelTypes, NEW parent
  PROVE  ColumnsOf(parent) \in Seq(Columns)
<1>1. InitialColumns[1] \in Columns
  <2>1. Len(InitialColumns) \in Nat /\ Len(InitialColumns) > 0
        /\ DOMAIN InitialColumns = 1..Len(InitialColumns)
    BY ModelIsSmall, LenProperties
  <2>2. 1 \in DOMAIN InitialColumns
    BY <2>1
  <2>. QED  BY <2>2 DEF Columns, ToSet
<1>. QED  BY <1>1 DEF ColumnsOf, ModelTypes

LEMMA PairType ==
  ASSUME ModelTypes, NEW parent \in Tops, NEW row \in Int, NEW column
  PROVE  /\ PathOK(Pair(parent, row, column).path)
         /\ InModel(parent) /\ row \in DOMAIN RowsOf(parent) =>
              PairOK(Pair(parent, row, column), TRUE)
<1>1. Pair(parent, row, column).path = Append(parent, row)
  BY DEF Pair
<1>2. PathOK(Append(parent, row))
  BY AppendIsPath
<1>3. ASSUME InModel(parent), row \in DOMAIN RowsOf(parent)
      PROVE  /\ Pair(parent, row, column).rows \in Int
             /\ Pair(parent, row, column).columns \in Int
  <2>. DEFINE item == RowsOf(parent)[row]
  <2>1. item \in Items
    BY <1>3, RowsOfType
  <2>2. Len(kids[item]) \in Nat
    BY <2>1, LenProperties DEF ModelTypes
  <2>. HIDE DEF item
  <2>3. /\ Pair(parent, row, column).rows = IF column = 1 THEN Len(kids[item]) ELSE 0
        /\ Pair(parent, row, column).columns \in {0, 1}
    BY DEF Pair, item
  <2>. QED  BY <2>2, <2>3
<1>. QED  BY <1>1, <1>2, <1>3 DEF PairOK

(* The row of a pair of a rectangle. *)
LEMMA RowOfPair ==
  ASSUME NEW n \in Nat, NEW width \in Nat, width >= 1, NEW i \in 1..n * width
  PROVE  (i - 1) \div width \in 0..n - 1
<1>. DEFINE q == (i - 1) \div width
            r == (i - 1) % width
<1>0. i - 1 \in Nat /\ n * width \in Nat /\ i - 1 < n * width
  OBVIOUS
<1>1. q \in Nat /\ r \in Nat /\ r < width /\ i - 1 = width * q + r
  BY <1>0
<1>. HIDE DEF q, r
<1>2. ASSUME q >= n  PROVE FALSE
  <2>1. PICK d \in Nat : q = n + d
    <3>1. q - n \in Nat /\ q = n + (q - n)
      BY <1>1, <1>2
    <3>. QED  BY <3>1
  <2>2. width * q = n * width + width * d
    BY <2>1
  <2>3. width * d \in Nat
    BY <2>1
  <2>. QED  BY <1>0, <1>1, <2>2, <2>3
<1>3. q \in 0..n - 1
  BY <1>1, <1>2
<1>. QED  BY <1>3 DEF q

LEMMA RectangleType ==
  ASSUME ModelTypes, NEW parent \in Tops, NEW r1 \in Int, NEW r2 \in Int,
         NEW c1 \in Int, NEW c2 \in Int
  PROVE  /\ PairsOK(Rectangle(parent, r1, r2, c1, c2), FALSE)
         /\ InModel(parent) /\ 1 <= r1 /\ r2 <= Len(RowsOf(parent)) =>
              PairsOK(Rectangle(parent, r1, r2, c1, c2), TRUE)
<1>. DEFINE width == c2 - c1 + 1
            n == r2 - r1 + 1
            pairs == Rectangle(parent, r1, r2, c1, c2)
<1>1. CASE r2 < r1 \/ width < 1
  <2>1. pairs = <<>>
    BY <1>1 DEF Rectangle
  <2>. QED  BY <2>1, NoSeq DEF PairsOK
<1>2. CASE ~(r2 < r1 \/ width < 1)
  <2>1. width \in Nat /\ width >= 1 /\ n \in Nat
    BY <1>2
  <2>2. pairs = [i \in 1..n * width |->
                   Pair(parent, r1 + ((i - 1) \div width), c1 + ((i - 1) % width))]
    BY <1>2 DEF Rectangle
  <2>. HIDE DEF pairs, width
  <2>3. n * width \in Nat
    BY <2>1
  <2>4. DOMAIN pairs = 1..n * width /\ pairs \in Seq({pairs[i] : i \in 1..n * width})
    BY <2>2, <2>3
  <2>5. Len(pairs) = n * width /\ IsSeq(pairs)
    BY <2>3, <2>4, SeqIs
  <2>6. ASSUME NEW i \in 1..n * width
        PROVE  /\ PathOK(pairs[i].path)
               /\ InModel(parent) /\ 1 <= r1 /\ r2 <= Len(RowsOf(parent)) =>
                    PairOK(pairs[i], TRUE)
    <3>. DEFINE row == r1 + ((i - 1) \div width)
                column == c1 + ((i - 1) % width)
    <3>1. (i - 1) \div width \in 0..n - 1
      BY <2>1, RowOfPair
    <3>2. pairs[i] = Pair(parent, row, column)
      BY <2>2
    <3>3. row \in Int /\ r1 <= row /\ row <= r2
      BY <3>1
    <3>. HIDE DEF row, column
    <3>4. ASSUME InModel(parent), 1 <= r1, r2 <= Len(RowsOf(parent))
          PROVE  row \in DOMAIN RowsOf(parent)
      <4>1. DOMAIN RowsOf(parent) = 1..Len(RowsOf(parent)) /\ Len(RowsOf(parent)) \in Nat
        BY <3>4, RowsOfType, LenProperties
      <4>. QED  BY <3>3, <3>4, <4>1
    <3>. QED  BY <3>2, <3>3, <3>4, PairType
  <2>. HIDE DEF n
  <2>. QED  BY <2>5, <2>6 DEF PairsOK, PairOK, pairs
<1>. QED  BY <1>1, <1>2

LEMMA RectangleInside ==
  ASSUME ModelTypes, NEW parent \in Tops, NEW r1 \in Int, NEW r2 \in Int,
         NEW c1 \in Int, NEW c2 \in Int,
         InModel(parent), 1 <= r1, r2 <= Len(RowsOf(parent))
  PROVE  PairsOK(Rectangle(parent, r1, r2, c1, c2), TRUE)
BY RectangleType

LEMMA PairsConcat ==
  ASSUME NEW s, NEW t, NEW sized, PairsOK(s, sized), PairsOK(t, sized)
  PROVE  PairsOK(s \o t, sized)
<1>1. IsSeq(s) /\ IsSeq(t) /\ Len(s) \in Nat /\ Len(t) \in Nat
  BY IsSeqElements DEF PairsOK
<1>2. /\ IsSeq(s \o t) /\ Len(s \o t) = Len(s) + Len(t)
      /\ \A i \in 1..Len(s) + Len(t) :
           (s \o t)[i] = IF i <= Len(s) THEN s[i] ELSE t[i - Len(s)]
  BY <1>1, ConcatSeq
<1>3. ASSUME NEW i \in 1..Len(s \o t)  PROVE PairOK((s \o t)[i], sized)
  <2>1. CASE i <= Len(s)
    <3>1. i \in 1..Len(s) /\ (s \o t)[i] = s[i]
      BY <1>1, <1>2, <2>1
    <3>. QED  BY <3>1 DEF PairsOK
  <2>2. CASE ~(i <= Len(s))
    <3>1. i - Len(s) \in 1..Len(t) /\ (s \o t)[i] = t[i - Len(s)]
      BY <1>1, <1>2, <2>2
    <3>. QED  BY <3>1 DEF PairsOK
  <2>. QED  BY <2>1, <2>2
<1>. QED  BY <1>2, <1>3 DEF PairsOK

FlattenTurn(g, seqs, i) == IF i = 1 THEN seqs[i] ELSE g[i - 1] \o seqs[i]

LEMMA FlattenFolds ==
  ASSUME NEW seqs, NEW n \in Nat \ {0}, Len(seqs) = n
  PROVE  \E g : /\ g = [i \in 1..n |-> FlattenTurn(g, seqs, i)]
                /\ FlattenSeq(seqs) = g[n]
<1>. DEFINE T == {k \in Nat : \E g : g = [i \in 1..k |-> FlattenTurn(g, seqs, i)]}
<1>1. 0 \in T
  <2>. DEFINE g == [i \in 1..0 |-> seqs]
  <2>1. g = [i \in 1..0 |-> FlattenTurn(g, seqs, i)]
    OBVIOUS
  <2>. HIDE DEF g
  <2>. QED  BY <2>1
<1>2. ASSUME NEW k \in Nat, k \in T  PROVE k + 1 \in T
  <2>1. PICK g : g = [i \in 1..k |-> FlattenTurn(g, seqs, i)]
    BY <1>2
  <2>. DEFINE h == [i \in 1..k + 1 |-> FlattenTurn(g, seqs, i)]
  <2>2. \A i \in 1..k : h[i] = g[i]
    <3>1. \A i \in 1..k : i \in 1..k + 1 /\ g[i] = FlattenTurn(g, seqs, i)
      BY <2>1
    <3>. QED  BY <3>1
  <2>. HIDE DEF h
  <2>3. ASSUME NEW i \in 1..k + 1
        PROVE  FlattenTurn(h, seqs, i) = FlattenTurn(g, seqs, i)
    <3>1. i = 1 \/ i - 1 \in 1..k
      OBVIOUS
    <3>. QED  BY <2>2, <3>1 DEF FlattenTurn
  <2>4. h = [i \in 1..k + 1 |-> FlattenTurn(h, seqs, i)]
    BY <2>3 DEF h
  <2>. QED  BY <2>4
<1>. HIDE DEF T
<1>3. n \in T
  BY <1>1, <1>2, SetInduction
<1>4. PICK g : g = [i \in 1..n |-> FlattenTurn(g, seqs, i)]
  BY <1>3 DEF T
<1>. DEFINE iter == CHOOSE f : f = [i \in 1..Len(seqs) |-> FlattenTurn(f, seqs, i)]
<1>5. FlattenSeq(seqs) = iter[Len(seqs)]
  BY DEF FlattenSeq, FlattenTurn
<1>6. iter = [i \in 1..Len(seqs) |-> FlattenTurn(iter, seqs, i)]
  BY <1>4
<1>. HIDE DEF iter
<1>. QED  BY <1>5, <1>6

LEMMA FlattenType ==
  ASSUME NEW seqs, IsSeq(seqs), NEW sized,
         \A i \in 1..Len(seqs) : PairsOK(seqs[i], sized)
  PROVE  PairsOK(FlattenSeq(seqs), sized)
<1>. DEFINE n == Len(seqs)
<1>1. n \in Nat
  BY IsSeqElements
<1>2. CASE n = 0
  <2>1. FlattenSeq(seqs) = seqs
    BY <1>2 DEF FlattenSeq
  <2>. QED  BY <1>2, <2>1 DEF PairsOK
<1>3. CASE n # 0
  <2>1. PICK g : /\ g = [i \in 1..n |-> FlattenTurn(g, seqs, i)]
                 /\ FlattenSeq(seqs) = g[n]
    BY <1>1, <1>3, FlattenFolds
  <2>. DEFINE T == {k \in Nat : k + 1 <= n => PairsOK(g[k + 1], sized)}
  <2>2. 0 \in T
    <3>1. 1 \in 1..n
      BY <1>1, <1>3
    <3>2. g[1] = seqs[1]
      BY <2>1, <3>1 DEF FlattenTurn
    <3>. QED  BY <3>1, <3>2
  <2>3. ASSUME NEW k \in Nat, k \in T  PROVE k + 1 \in T
    <3>. SUFFICES ASSUME (k + 1) + 1 <= n  PROVE PairsOK(g[(k + 1) + 1], sized)
      OBVIOUS
    <3>1. PairsOK(g[k + 1], sized) /\ (k + 1) + 1 \in 1..n
      BY <1>1, <2>3
    <3>2. g[(k + 1) + 1] = g[k + 1] \o seqs[(k + 1) + 1]
      <4>1. (k + 1) + 1 # 1 /\ ((k + 1) + 1) - 1 = k + 1
        OBVIOUS
      <4>. QED  BY <2>1, <3>1, <4>1 DEF FlattenTurn
    <3>. QED  BY <3>1, <3>2, PairsConcat
  <2>. HIDE DEF T
  <2>4. PICK k \in Nat : k + 1 = n
    <3>1. n - 1 \in Nat /\ (n - 1) + 1 = n
      BY <1>1, <1>3
    <3>. QED  BY <3>1
  <2>5. k \in T
    BY <2>2, <2>3, SetInduction
  <2>6. PairsOK(g[k + 1], sized)
    BY <2>4, <2>5 DEF T
  <2>. QED  BY <2>1, <2>4, <2>6
<1>. QED  BY <1>2, <1>3

LEMMA MinOfTwo ==
  ASSUME NEW x \in Int, NEW y \in Int
  PROVE  Min2(x, y) \in {x, y} /\ Min2(x, y) <= x /\ Min2(x, y) <= y
BY DEF Min2

LEMMA FetchTreeType ==
  ASSUME ModelTypes, NEW size \in Nat
  PROVE  PairsOK(FetchTree(size), TRUE)
<1>. DEFINE line(row) == (Rectangle(<<>>, row, row, 1, 1)
                          \o Rectangle(<<row>>, 1, Len(kids[rows[row]]), 1, 1))
                         \o Rectangle(<<>>, row, row, 2, Len(columns))
            lines == [row \in DOMAIN rows |-> line(row)]
            all == FlattenSeq(lines)
<1>1. /\ Len(rows) \in Nat /\ DOMAIN rows = 1..Len(rows) /\ Len(columns) \in Nat
      /\ <<>> \in Tops /\ InModel(<<>>) /\ RowsOf(<<>>) = rows
  BY LenProperties DEF ModelTypes, Tops, InModel, RowsOf
<1>2. ASSUME NEW row \in 1..Len(rows)  PROVE PairsOK(line(row), TRUE)
  <2>1. /\ row \in Int /\ 1 <= row /\ row <= Len(rows)
        /\ <<row>> \in Tops /\ InModel(<<row>>)
    BY <1>1 DEF Tops, InModel
  <2>2. RowsOf(<<row>>) = kids[rows[row]] /\ Len(RowsOf(<<row>>)) \in Nat
    <3>1. RowsOf(<<row>>) = kids[rows[row]]
      BY DEF RowsOf
    <3>. QED  BY <2>1, <3>1, RowsOfType, LenProperties
  <2>. HIDE DEF line, lines, all
  <2>0. 1 \in Int /\ 2 \in Int /\ 1 <= 1 /\ Len(columns) \in Int
        /\ Len(kids[rows[row]]) \in Int
        /\ Len(kids[rows[row]]) <= Len(RowsOf(<<row>>))
        /\ row <= Len(RowsOf(<<>>))
    BY <1>1, <2>1, <2>2
  <2>3. PairsOK(Rectangle(<<>>, row, row, 1, 1), TRUE)
    BY <1>1, <2>0, <2>1, RectangleInside
  <2>4. PairsOK(Rectangle(<<row>>, 1, Len(kids[rows[row]]), 1, 1), TRUE)
    BY <2>0, <2>1, RectangleInside
  <2>5. PairsOK(Rectangle(<<>>, row, row, 2, Len(columns)), TRUE)
    BY <1>1, <2>0, <2>1, RectangleInside
  <2>6. PairsOK(Rectangle(<<>>, row, row, 1, 1)
                \o Rectangle(<<row>>, 1, Len(kids[rows[row]]), 1, 1), TRUE)
    BY <2>3, <2>4, PairsConcat
  <2>. QED  BY <2>5, <2>6, PairsConcat DEF line
<1>. HIDE DEF line
<1>3. IsSeq(lines) /\ Len(lines) = Len(rows)
  <2>1. lines \in Seq({line(row) : row \in 1..Len(rows)}) /\ Len(lines) = Len(rows)
    BY <1>1
  <2>. QED  BY <2>1, SeqIs
<1>4. \A i \in 1..Len(lines) : PairsOK(lines[i], TRUE)
  BY <1>1, <1>2, <1>3
<1>5. FetchTree(size) = SubSeq(all, 1, Min2(size, Len(all)))
  BY DEF FetchTree, line
<1>. HIDE DEF lines
<1>6. PairsOK(all, TRUE)
  BY <1>3, <1>4, FlattenType
<1>. HIDE DEF all
<1>. DEFINE n == Min2(size, Len(all))
            S == ToSet(all)
<1>7. all \in Seq(S) /\ Len(all) \in Nat /\ \A i \in 1..Len(all) : all[i] \in S
  BY <1>6, IsSeqElements DEF PairsOK, IsSeq
<1>8. n \in Nat /\ n <= Len(all)
  BY <1>7, MinOfTwo
<1>. HIDE DEF n, S
<1>9. \A i \in 1..n : all[i] \in S
  BY <1>7, <1>8
<1>10. /\ SubSeq(all, 1, n) \in Seq(S)
       /\ Len(SubSeq(all, 1, n)) = n
       /\ \A i \in 1..n : SubSeq(all, 1, n)[i] = all[i]
  BY <1>8, <1>9, SubSeqProperties
<1>11. IsSeq(SubSeq(all, 1, n))
  BY <1>10, SeqIs
<1>12. \A i \in 1..n : PairOK(all[i], TRUE)
  <2>1. \A i \in 1..n : i \in 1..Len(all)
    BY <1>7, <1>8
  <2>2. \A i \in 1..Len(all) : PairOK(all[i], TRUE)
    BY <1>6 DEF PairsOK
  <2>. QED  BY <2>1, <2>2
<1>. QED  BY <1>5, <1>10, <1>11, <1>12 DEF PairsOK, n

-----------------------------------------------------------------------------
(* What is requested *)

LEMMA MergedType ==
  ASSUME NEW done \in Seq(Requests), NEW d \in Requests
  PROVE  Merged(done, d) \in Seq(Requests)
<1>1. Append(done, d) \in Seq(Requests)
  OBVIOUS
<1>2. ASSUME done # <<>>
      PROVE  Append(Front(done), Bounding(Last(done), d)) \in Seq(Requests)
  <2>1. Len(done) \in Nat \ {0}
    BY <1>2, EmptySeq, LenProperties
  <2>2. Last(done) \in Requests
    BY <2>1 DEF Last
  <2>3. Front(done) \in Seq(Requests)
    <3>1. \A i \in 1..Len(done) - 1 : i \in 1..Len(done)
      BY <2>1
    <3>2. \A i \in 1..Len(done) - 1 : done[i] \in Requests
      BY <3>1
    <3>. QED  BY <2>1, <3>2, SubSeqProperties DEF Front
  <2>4. ASSUME NEW q \in Requests  PROVE Bounding(q, d) \in Requests
    <3>1. /\ \A x, y \in Int : Min2(x, y) \in Int /\ Max2(x, y) \in Int
          /\ (q.asked \/ d.asked) \in BOOLEAN
      BY DEF Min2, Max2
    <3>. QED  BY <3>1 DEF Bounding, Requests
  <2>. QED  BY <2>2, <2>3, <2>4
<1>. QED  BY <1>1, <1>2 DEF Merged

LEMMA FinalRequestsType ==
  ASSUME requestedData \in Seq(Requests)
  PROVE  FinalRequests \in Seq(Requests)
<1>. DEFINE n == Len(requestedData)
<1>1. n \in Nat /\ DOMAIN requestedData = 1..n
  BY LenProperties
<1>2. PICK g : /\ Folds("merge", g, <<>>, requestedData, 0, n)
               /\ FinalRequests = g[1..n]
  BY <1>1, MergeFolds
<1>. DEFINE T == {k \in Nat : k <= n => g[1..k] \in Seq(Requests)}
<1>. HIDE DEF n
<1>3. 0 \in T
  <2>1. g[1..0] = <<>>
    BY <1>1, <1>2, FoldStep
  <2>2. <<>> \in Seq(Requests)
    OBVIOUS
  <2>3. g[1..0] \in Seq(Requests)
    BY <2>1, <2>2
  <2>. QED  BY <2>3
<1>4. ASSUME NEW k \in Nat, k \in T  PROVE k + 1 \in T
  <2>. SUFFICES ASSUME k + 1 <= n  PROVE g[1..k + 1] \in Seq(Requests)
    OBVIOUS
  <2>1. k \in 0..n - 1 /\ k + 1 \in 1..n /\ g[1..k] \in Seq(Requests)
    BY <1>1, <1>4
  <2>2. g[1..k + 1] = Turn("merge", g[1..k], requestedData[k + 1], 0)
    BY <1>1, <1>2, <2>1, FoldStep
  <2>3. requestedData[k + 1] \in Requests
    BY <1>1, <2>1
  <2>4. Turn("merge", g[1..k], requestedData[k + 1], 0)
          = Merged(g[1..k], requestedData[k + 1])
    BY DEF Turn
  <2>. QED  BY <2>1, <2>2, <2>3, <2>4, MergedType
<1>. HIDE DEF T
<1>5. n \in T
  BY <1>1, <1>3, <1>4, SetInduction
<1>. QED  BY <1>1, <1>2, <1>5 DEF T

RowCalls == [type : {"rows"}, request : Requests, live : BOOLEAN]

LEMMA SentType ==
  ASSUME NEW final \in Seq(Requests)
  PROVE  Sent(final) \in Seq(RowCalls)
<1>. DEFINE n == Len(final)
            base == [rows |-> 0, calls |-> <<>>]
<1>1. n \in Nat
  BY LenProperties
<1>2. PICK g : /\ Folds("take", g, base, Reverse(final), cacheSize, n)
               /\ Sent(final) = g[1..n].calls
  BY <1>1, TakeFolds
<1>3. ASSUME NEW i \in 1..n  PROVE Reverse(final)[i] \in Requests
  <2>1. Reverse(final)[i] = final[(Len(final) - i) + 1]
    BY DEF Reverse
  <2>2. (Len(final) - i) + 1 \in 1..Len(final)
    BY <1>1
  <2>. QED  BY <2>1, <2>2
<1>. DEFINE T == {k \in Nat : k <= n => g[1..k].calls \in Seq(RowCalls)}
<1>. HIDE DEF n, base
<1>4. 0 \in T
  <2>1. g[1..0] = base
    BY <1>1, <1>2, FoldStep
  <2>2. base.calls \in Seq(RowCalls)
    BY DEF base
  <2>3. g[1..0].calls \in Seq(RowCalls)
    BY <2>1, <2>2
  <2>. QED  BY <2>3
<1>5. ASSUME NEW k \in Nat, k \in T  PROVE k + 1 \in T
  <2>. SUFFICES ASSUME k + 1 <= n  PROVE g[1..k + 1].calls \in Seq(RowCalls)
    OBVIOUS
  <2>. DEFINE q == Reverse(final)[k + 1]
              acc == g[1..k]
  <2>1. k \in 0..n - 1 /\ k + 1 \in 1..n /\ acc.calls \in Seq(RowCalls)
    BY <1>1, <1>5
  <2>2. g[1..k + 1] = Turn("take", acc, q, cacheSize)
    BY <1>1, <1>2, <2>1, FoldStep
  <2>3. q \in Requests
    BY <1>3, <2>1
  <2>. HIDE DEF q, acc
  <2>4. Turn("take", acc, q, cacheSize) = Taken(acc, q, cacheSize)
    BY DEF Turn
  <2>5. RowCall(q) \in RowCalls
    BY <2>3 DEF RowCall, RowCalls
  <2>6. Append(acc.calls, RowCall(q)) \in Seq(RowCalls)
    BY <2>1, <2>5
  <2>7. Taken(acc, q, cacheSize).calls \in {acc.calls, Append(acc.calls, RowCall(q))}
    BY DEF Taken
  <2>. QED  BY <2>1, <2>2, <2>4, <2>6, <2>7
<1>. HIDE DEF T
<1>6. n \in T
  BY <1>1, <1>4, <1>5, SetInduction
<1>. QED  BY <1>1, <1>2, <1>6 DEF T

-----------------------------------------------------------------------------
(* Packets *)

LEMMA PacketsAppend ==
  ASSUME NEW queue, PacketsOK(queue), NEW m, PacketOK(m)
  PROVE  PacketsOK(Append(queue, m))
<1>1. IsSeq(queue) /\ Len(queue) \in Nat
  BY IsSeqElements DEF PacketsOK
<1>2. /\ IsSeq(Append(queue, m)) /\ Len(Append(queue, m)) = Len(queue) + 1
      /\ \A i \in 1..Len(queue) : Append(queue, m)[i] = queue[i]
      /\ Append(queue, m)[Len(queue) + 1] = m
  BY <1>1, AppendSeq
<1>3. ASSUME NEW i \in 1..Len(Append(queue, m))  PROVE PacketOK(Append(queue, m)[i])
  <2>1. i \in 1..Len(queue) \/ i = Len(queue) + 1
    BY <1>1, <1>2
  <2>. QED  BY <1>2, <2>1 DEF PacketsOK
<1>. QED  BY <1>2, <1>3 DEF PacketsOK

LEMMA PacketsTail ==
  ASSUME NEW queue, PacketsOK(queue), queue # <<>>
  PROVE  PacketsOK(Tail(queue)) /\ PacketOK(Head(queue))
<1>1. /\ IsSeq(Tail(queue)) /\ Len(queue) \in Nat \ {0}
      /\ Len(Tail(queue)) = Len(queue) - 1
      /\ Head(queue) = queue[1] /\ \A i \in 1..Len(queue) - 1 : Tail(queue)[i] = queue[i + 1]
  BY TailSeq DEF PacketsOK
<1>2. ASSUME NEW i \in 1..Len(Tail(queue))  PROVE PacketOK(Tail(queue)[i])
  <2>1. i + 1 \in 1..Len(queue) /\ Tail(queue)[i] = queue[i + 1]
    BY <1>1
  <2>. QED  BY <2>1 DEF PacketsOK
<1>3. PacketOK(queue[1])
  <2>1. 1 \in 1..Len(queue)
    BY <1>1
  <2>. QED  BY <2>1 DEF PacketsOK
<1>. QED  BY <1>1, <1>2, <1>3 DEF PacketsOK

LEMMA KillIs ==
  ASSUME NEW queue, IsSeq(queue)
  PROVE  /\ IsSeq(Kill(queue)) /\ Len(Kill(queue)) = Len(queue)
         /\ \A i \in 1..Len(queue) :
              Kill(queue)[i] = IF queue[i].type \in {"rows", "headers"} \/ Rebuilds(queue[i])
                               THEN [queue[i] EXCEPT !.live = FALSE] ELSE queue[i]
<1>. DEFINE n == Len(queue)
            new(i) == IF queue[i].type \in {"rows", "headers"} \/ Rebuilds(queue[i])
                      THEN [queue[i] EXCEPT !.live = FALSE] ELSE queue[i]
<1>1. n \in Nat /\ DOMAIN queue = 1..n
  BY IsSeqElements
<1>2. Kill(queue) = [i \in 1..n |-> new(i)]
  BY <1>1 DEF Kill
<1>. HIDE DEF new
<1>3. [i \in 1..n |-> new(i)] \in Seq({new(i) : i \in 1..n}) /\ Len(Kill(queue)) = n
  BY <1>1, <1>2
<1>4. \A i \in 1..n : Kill(queue)[i] = new(i)
  BY <1>2
<1>5. IsSeq(Kill(queue))
  BY <1>2, <1>3, SeqIs
<1>. QED  BY <1>3, <1>4, <1>5 DEF new

LEMMA KillCalls ==
  ASSUME NEW queue \in Seq(Calls)  PROVE Kill(queue) \in Seq(Calls)
<1>1. IsSeq(queue) /\ Len(queue) \in Nat
  BY SeqIs, LenProperties
<1>2. ASSUME NEW c \in Calls, c.type \in {"rows", "headers"} \/ Rebuilds(c)
      PROVE  [c EXCEPT !.live = FALSE] \in Calls
  BY <1>2 DEF Calls, Rebuilds
<1>3. ASSUME NEW i \in 1..Len(queue)  PROVE Kill(queue)[i] \in Calls
  <2>1. queue[i] \in Calls
    OBVIOUS
  <2>. QED  BY <1>1, <1>2, <2>1, KillIs
<1>. DEFINE new == Kill(queue)
<1>4. /\ Len(new) = Len(queue) /\ Len(queue) \in Nat /\ new \in Seq(ToSet(new))
      /\ \A i \in 1..Len(new) : new[i] \in Calls
  BY <1>1, <1>3, KillIs DEF IsSeq
<1>. HIDE DEF new
<1>5. new = [i \in 1..Len(new) |-> new[i]]
  BY <1>4
<1>6. new \in Seq(Calls)
  BY <1>4, <1>5
<1>. QED  BY <1>6 DEF new

LEMMA KillPackets ==
  ASSUME NEW queue, PacketsOK(queue)  PROVE PacketsOK(Kill(queue))
<1>1. ASSUME NEW m, PacketOK(m), m.type \in {"rows", "headers"} \/ Rebuilds(m)
      PROVE  PacketOK([m EXCEPT !.live = FALSE])
  <2>. DEFINE k == [m EXCEPT !.live = FALSE]
  <2>1. AnswerOK(m)
    BY <1>1 DEF PacketOK, SignalOK, Rebuilds
  <2>2. CASE m \in [type : {"headers"}, sections : Seq(Nat), live : BOOLEAN]
    <3>1. k \in [type : {"headers"}, sections : Seq(Nat), live : BOOLEAN]
      BY <2>2
    <3>. QED  BY <3>1 DEF PacketOK, AnswerOK
  <2>3. CASE m.type = "rows" /\ DOMAIN m = {"type", "request", "live", "pairs"}
    <3>1. /\ k.type = "rows" /\ k.request = m.request /\ k.live = FALSE
          /\ k.pairs = m.pairs /\ DOMAIN k = DOMAIN m
      BY <2>3
    <3>2. m.request \in Requests /\ PairsOK(m.pairs, FALSE)
      BY <2>1, <2>3 DEF AnswerOK
    <3>. HIDE DEF k
    <3>. QED  BY <2>3, <3>1, <3>2 DEF PacketOK, AnswerOK
  <2>4. CASE /\ m.type \in {"size", "cache"}
             /\ DOMAIN m = {"type", "parent", "rows", "columns", "live", "pairs", "init"}
    <3>1. /\ k.type = m.type /\ k.parent = m.parent /\ k.rows = m.rows
          /\ k.columns = m.columns /\ k.live = FALSE /\ k.pairs = m.pairs
          /\ k.init = m.init /\ DOMAIN k = DOMAIN m
      BY <2>4
    <3>2. /\ m.parent \in Tops /\ m.rows \in Nat /\ m.columns \in Nat
          /\ PairsOK(m.pairs, TRUE)
          /\ m.init \in {"init", "reset", "layout", "parent"}
          /\ m.init = "parent" <=> m.parent # <<>>
          /\ m.init = "layout" => m.type = "cache"
          /\ m.init = "parent" => m.type = "size"
      BY <2>1, <2>4 DEF AnswerOK
    <3>. HIDE DEF k
    <3>. QED  BY <2>4, <3>1, <3>2 DEF PacketOK, AnswerOK
  <2>. QED  BY <2>1, <2>2, <2>3, <2>4 DEF AnswerOK
<1>2. ASSUME NEW i \in 1..Len(queue)  PROVE PacketOK(Kill(queue)[i])
  <2>1. PacketOK(queue[i])
    BY DEF PacketsOK
  <2>. QED  BY <1>1, <2>1, KillIs DEF PacketsOK
<1>. QED  BY <1>2, KillIs DEF PacketsOK

-----------------------------------------------------------------------------
(* Types: the model changes. *)

LEMMA EmitType ==
  ASSUME WireTypes, NEW m, SignalOK(m), Emit(m)  PROVE WireTypes'
BY PacketsAppend DEF WireTypes, Emit, PacketOK

LEMMA HappensType ==
  ASSUME StateOK, Happens, connected' \in BOOLEAN
  PROVE  ReplicaTypes' /\ RequestTypes' /\ TreeOK(root)'
BY DEF StateOK, Happens, ReplicaTypes, RequestTypes, requestVars, cacheVars, settingVars

LEMMA ChangesType ==
  ASSUME StateOK, Changes
  PROVE  ReplicaTypes' /\ RequestTypes' /\ TreeOK(root)'
<1>1. Happens /\ connected' \in BOOLEAN
  BY DEF Changes, StateOK, ReplicaTypes
<1>. QED  BY <1>1, HappensType

LEMMA ParentsType ==
  ASSUME ModelTypes, NEW parent \in Parents
  PROVE  parent \in Tops
BY LenProperties DEF Parents, Tops, ModelTypes

LEMMA RowsInsertedType ==
  ASSUME StateOK, NEW parent \in Parents, NEW row \in Nat, NEW item \in Spare,
         SourceRowsInserted(parent, row, item)
  PROVE  StateOK'
<1>. USE DEF StateOK
<1>1. parent \in Tops /\ item \in Items
  BY ParentsType DEF Items
<1>2. ReplicaTypes' /\ RequestTypes' /\ TreeOK(root)'
  BY ChangesType DEF SourceRowsInserted
<1>3. WireTypes'
  BY <1>1, EmitType DEF SourceRowsInserted, SignalOK
<1>4. ModelTypes'
  <2>1. UNCHANGED <<columns, edited>> /\ InsertBelow(parent, row, item)
        /\ InModel(parent) /\ row \in 1..(Len(RowsOf(parent)) + 1)
    BY DEF SourceRowsInserted
  <2>2. RowsOf(parent) \in Seq(Items)
    BY <1>1, <2>1, RowsOfType
  <2>3. InsertAt(RowsOf(parent), row, item) \in Seq(Items)
    BY <1>1, <2>1, <2>2, InsertAtSeq
  <2>4. CASE parent = <<>>
    BY <2>1, <2>3, <2>4 DEF InsertBelow, RowsOf, ModelTypes
  <2>5. CASE parent # <<>>
    <3>1. rows[parent[1]] \in Items
      BY <1>1, <2>1, <2>5, RowsOfType
    <3>. QED  BY <2>1, <2>3, <2>5, <3>1 DEF InsertBelow, RowsOf, ModelTypes
  <2>. QED  BY <2>4, <2>5
<1>. QED  BY <1>2, <1>3, <1>4

LEMMA RowsRemovedType ==
  ASSUME StateOK, NEW parent \in Parents, NEW row, SourceRowsRemoved(parent, row)
  PROVE  StateOK'
<1>. USE DEF StateOK
<1>1. parent \in Tops /\ InModel(parent) /\ row \in DOMAIN RowsOf(parent)
  BY ParentsType DEF SourceRowsRemoved
<1>2. ReplicaTypes' /\ RequestTypes' /\ TreeOK(root)'
  BY ChangesType DEF SourceRowsRemoved
<1>3. RowsOf(parent) \in Seq(Items) /\ row \in 1..Len(RowsOf(parent)) /\ row \in Int
  BY <1>1, RowsOfType, LenProperties
<1>4. WireTypes'
  BY <1>1, <1>3, EmitType DEF SourceRowsRemoved, SignalOK
<1>5. ModelTypes'
  <2>1. RemoveAt(RowsOf(parent), row) \in Seq(Items)
    BY <1>3, RemoveAtSeq
  <2>2. CASE parent = <<>>
    BY <2>1, <2>2 DEF SourceRowsRemoved, RowsOf, ModelTypes
  <2>3. CASE parent # <<>>
    <3>1. rows[parent[1]] \in Items
      BY <1>1, <2>3, RowsOfType
    <3>. QED  BY <2>1, <2>3, <3>1 DEF SourceRowsRemoved, RowsOf, ModelTypes
  <2>. QED  BY <2>2, <2>3
<1>. QED  BY <1>2, <1>4, <1>5

LEMMA RowsMovedType ==
  ASSUME StateOK, NEW row, NEW dest, SourceRowsMoved(row, dest)
  PROVE  StateOK' /\ Len(rows') = Len(rows)
<1>. USE DEF StateOK
<1>1. ReplicaTypes' /\ RequestTypes' /\ TreeOK(root)'
  BY ChangesType DEF SourceRowsMoved
<1>2. WireTypes'
  BY EmitType DEF SourceRowsMoved, SignalOK
<1>. DEFINE without == RemoveAt(rows, row)
            to == IF dest > row THEN dest - 1 ELSE dest
<1>3. rows \in Seq(Items) /\ row \in 1..Len(rows) /\ Len(rows) \in Nat
      /\ dest \in 1..Len(rows) + 1 /\ dest # row
  BY LenProperties DEF SourceRowsMoved, ModelTypes
<1>4. without \in Seq(Items) /\ Len(without) = Len(rows) - 1
  BY <1>3, RemoveAtSeq
<1>5. to \in 1..Len(without) + 1 /\ rows[row] \in Items
  <2>1. to \in 1..Len(rows)
    BY <1>3
  <2>. QED  BY <1>3, <1>4, <2>1
<1>6. rows' = InsertAt(without, to, rows[row])
  BY DEF SourceRowsMoved
<1>. HIDE DEF without, to
<1>7. rows' \in Seq(Items) /\ Len(rows') = Len(without) + 1
  BY <1>4, <1>5, <1>6, InsertAtSeq
<1>8. ModelTypes'
  BY <1>7 DEF SourceRowsMoved, ModelTypes
<1>. QED  BY <1>1, <1>2, <1>3, <1>4, <1>7, <1>8

LEMMA ColumnsInsertedType ==
  ASSUME StateOK, NEW column, SourceColumnsInserted(column)
  PROVE  StateOK' /\ Len(columns') = Len(columns) + 1
<1>. USE DEF StateOK
<1>1. ReplicaTypes' /\ RequestTypes' /\ TreeOK(root)'
  BY ChangesType DEF SourceColumnsInserted
<1>2. WireTypes'
  BY EmitType DEF SourceColumnsInserted, SignalOK
<1>3. columns \in Seq(Columns) /\ column \in 1..Len(columns) + 1 /\ SpareColumn \in Columns
  BY DEF SourceColumnsInserted, ModelTypes, Columns
<1>4. columns' \in Seq(Columns) /\ Len(columns') = Len(columns) + 1
  BY <1>3, InsertAtSeq DEF SourceColumnsInserted
<1>5. ModelTypes'
  BY <1>4 DEF SourceColumnsInserted, ModelTypes
<1>. QED  BY <1>1, <1>2, <1>4, <1>5

(* The cell of a row and a column of the model. *)
LEMMA EditType ==
  ASSUME ModelTypes, NEW parent \in Tops, InModel(parent),
         NEW row \in DOMAIN RowsOf(parent), NEW column \in DOMAIN ColumnsOf(parent),
         Edit(parent, row, column)
  PROVE  edited' \subseteq Items \X Columns
<1>1. RowsOf(parent)[row] \in Items
  BY RowsOfType
<1>2. ColumnsOf(parent)[column] \in Columns
  BY ColumnsOfType
<1>. QED  BY <1>1, <1>2 DEF Edit, ModelTypes

LEMMA DataChangedType ==
  ASSUME StateOK, NEW parent \in Parents, NEW row, NEW column,
         SourceDataChanged(parent, row, column)
  PROVE  StateOK'
<1>. USE DEF StateOK
<1>1. /\ parent \in Tops /\ InModel(parent) /\ row \in DOMAIN RowsOf(parent)
      /\ column \in DOMAIN ColumnsOf(parent)
  BY ParentsType DEF SourceDataChanged
<1>2. ReplicaTypes' /\ RequestTypes' /\ TreeOK(root)'
  BY ChangesType DEF SourceDataChanged
<1>3. row \in Int /\ column \in Int
  BY <1>1, RowsOfType, ColumnsOfType, LenProperties
<1>4. SignalOK(EditSignal(parent, row, column))
  BY <1>1, <1>3 DEF SignalOK, EditSignal
<1>5. WireTypes'
  BY <1>4, EmitType DEF SourceDataChanged
<1>6. ModelTypes'
  <2>1. edited' \subseteq Items \X Columns
    BY <1>1, EditType DEF SourceDataChanged
  <2>. QED  BY <2>1 DEF SourceDataChanged, ModelTypes
<1>. QED  BY <1>2, <1>5, <1>6

LEMMA SourceResetType ==
  ASSUME StateOK, NEW new \in {<<>>} \cup {<<i>> : i \in Spare}, SourceReset(new)
  PROVE  StateOK'
<1>. USE DEF StateOK
<1>1. ReplicaTypes' /\ RequestTypes' /\ TreeOK(root)'
  BY ChangesType DEF SourceReset
<1>2. WireTypes'
  BY EmitType DEF SourceReset, SignalOK
<1>3. new \in Seq(Items)
  <2>1. CASE new = <<>>
    BY <2>1
  <2>2. ASSUME NEW i \in Spare, new = <<i>>  PROVE new \in Seq(Items)
    <3>1. i \in Items
      BY DEF Items
    <3>. QED  BY <2>2, <3>1
  <2>. QED  BY <2>1, <2>2
<1>4. ModelTypes'
  BY <1>3 DEF SourceReset, ModelTypes
<1>. QED  BY <1>1, <1>2, <1>4

LEMMA ReverseSeq ==
  ASSUME NEW S, NEW s \in Seq(S)  PROVE Reverse(s) \in Seq(S) /\ Len(Reverse(s)) = Len(s)
<1>1. Len(s) \in Nat
  BY LenProperties
<1>2. ASSUME NEW i \in 1..Len(s)  PROVE s[(Len(s) - i) + 1] \in S
  <2>1. (Len(s) - i) + 1 \in 1..Len(s)
    BY <1>1
  <2>. QED  BY <2>1
<1>. QED  BY <1>1, <1>2 DEF Reverse

LEMMA SourceLayoutType ==
  ASSUME StateOK, SourceLayoutChanged  PROVE StateOK' /\ Len(rows') = Len(rows)
<1>. USE DEF StateOK
<1>1. ReplicaTypes' /\ RequestTypes' /\ TreeOK(root)'
  BY ChangesType DEF SourceLayoutChanged
<1>2. WireTypes'
  BY EmitType DEF SourceLayoutChanged, SignalOK
<1>3. rows' \in Seq(Items) /\ Len(rows') = Len(rows)
  BY ReverseSeq DEF SourceLayoutChanged, ModelTypes
<1>4. ModelTypes'
  BY <1>3 DEF SourceLayoutChanged, ModelTypes
<1>. QED  BY <1>1, <1>2, <1>3, <1>4

LEMMA SourceHeaderType ==
  ASSUME StateOK, NEW section, SourceHeaderChanged(section)  PROVE StateOK'
<1>. USE DEF StateOK
<1>1. ReplicaTypes' /\ RequestTypes' /\ TreeOK(root)'
  BY ChangesType DEF SourceHeaderChanged
<1>2. WireTypes'
  BY EmitType DEF SourceHeaderChanged, SignalOK
<1>3. ModelTypes'
  BY DEF SourceHeaderChanged, modelVars, ModelTypes
<1>. QED  BY <1>1, <1>2, <1>3

LEMMA LostType ==
  ASSUME StateOK, ConnectionLost  PROVE StateOK'
<1>. USE DEF StateOK
<1>1. ReplicaTypes' /\ RequestTypes' /\ TreeOK(root)'
  BY HappensType DEF ConnectionLost
<1>2. toReplica' = <<>> /\ toSource' = <<>>
  BY DEF ConnectionLost
<1>3. PacketsOK(<<>>) /\ <<>> \in Seq(Calls)
  BY NoSeq DEF PacketsOK
<1>4. WireTypes'
  BY <1>2, <1>3 DEF WireTypes
<1>5. ModelTypes'
  BY DEF ConnectionLost, modelVars, ModelTypes
<1>. QED  BY <1>1, <1>4, <1>5

LEMMA MadeType ==
  ASSUME StateOK, ConnectionMade  PROVE StateOK'
<1>. USE DEF StateOK
<1>1. ModelTypes' /\ ReplicaTypes' /\ RequestTypes' /\ TreeOK(root)'
  BY DEF ConnectionMade, modelVars, requestVars, cacheVars, settingVars, counters,
         ModelTypes, ReplicaTypes, RequestTypes
<1>2. PacketOK([type |-> "init"])
  BY DEF PacketOK, SignalOK
<1>3. toReplica' = Append(<<>>, [type |-> "init"]) /\ UNCHANGED toSource
  BY DEF ConnectionMade
<1>4. PacketsOK(<<>>)
  BY NoSeq DEF PacketsOK
<1>5. WireTypes'
  BY <1>2, <1>3, <1>4, PacketsAppend DEF WireTypes
<1>. QED  BY <1>1, <1>5

LEMMA ModelChangesType ==
  ASSUME StateOK, ModelChanges \/ ConnectionLost  PROVE StateOK'
<1>1. ASSUME NEW parent \in Parents, NEW item \in Spare,
             NEW row \in 1..(Len(RowsOf(parent)) + 1),
             SourceRowsInserted(parent, row, item)
      PROVE  StateOK'
  <2>1. row \in Nat
    OBVIOUS
  <2>. QED  BY <1>1, <2>1, RowsInsertedType
<1>2. ASSUME NEW new \in {<<>>} \cup {<<i>> : i \in Spare \ Used}, SourceReset(new)
      PROVE  StateOK'
  <2>1. new \in {<<>>} \cup {<<i>> : i \in Spare}
    OBVIOUS
  <2>. QED  BY <1>2, <2>1, SourceResetType
<1>. QED  BY <1>1, <1>2, RowsRemovedType, DataChangedType, RowsMovedType,
             ColumnsInsertedType, SourceLayoutType, SourceHeaderType, LostType
          DEF ModelChanges

-----------------------------------------------------------------------------
(* Types: the adapter answers. *)

LEMMA ServesType ==
  ASSUME StateOK, NEW type, Serves(type)
  PROVE  /\ ReplicaTypes' /\ RequestTypes' /\ TreeOK(root)'
         /\ Head(toSource) \in Calls /\ Head(toSource).type = type
         /\ Tail(toSource) \in Seq(Calls)
<1>1. ReplicaTypes' /\ RequestTypes' /\ TreeOK(root)'
  BY DEF StateOK, Serves, ReplicaTypes, RequestTypes, requestVars, cacheVars,
         settingVars, counters
<1>2. toSource \in Seq(Calls) /\ toSource # <<>> /\ Head(toSource).type = type
  BY DEF StateOK, WireTypes, Serves
<1>3. Head(toSource) \in Calls /\ Tail(toSource) \in Seq(Calls)
  BY <1>2, HeadTailProperties
<1>. QED  BY <1>1, <1>2, <1>3

LEMMA AnswersType ==
  ASSUME StateOK, NEW type, Serves(type), NEW m, PacketOK(m), Answers(m)
  PROVE  StateOK'
<1>1. ReplicaTypes' /\ RequestTypes' /\ TreeOK(root)'
  BY ServesType
<1>2. WireTypes'
  BY ServesType, PacketsAppend DEF StateOK, WireTypes, Answers
<1>3. ModelTypes'
  BY DEF StateOK, Answers, modelVars, ModelTypes
<1>. QED  BY <1>1, <1>2, <1>3 DEF StateOK

LEMMA FatalType ==
  ASSUME StateOK, NEW type, Serves(type), SourceFatal
  PROVE  StateOK'
<1>1. ReplicaTypes' /\ RequestTypes' /\ TreeOK(root)'
  BY ServesType
<1>2. WireTypes'
  BY ServesType DEF StateOK, WireTypes, SourceFatal
<1>3. ModelTypes'
  BY DEF StateOK, SourceFatal, modelVars, ModelTypes
<1>. QED  BY <1>1, <1>2, <1>3 DEF StateOK

LEMMA SizeCallType ==
  ASSUME NEW c \in Calls, c.type = "size"
  PROVE  /\ c.parent \in Tops /\ c.live \in BOOLEAN /\ c.init \in {"init", "reset", "parent"}
         /\ c.init = "parent" <=> c.parent # <<>>
BY DEF Calls, Tops

LEMMA SizeAnswerOK ==
  ASSUME NEW c \in Calls, c.type = "size", NEW r \in Nat, NEW w \in Nat,
         NEW m, m = [type |-> "size", parent |-> c.parent, init |-> c.init,
                     live |-> c.live, rows |-> r, columns |-> w, pairs |-> <<>>]
  PROVE  PacketOK(m)
<1>1. PairsOK(<<>>, TRUE)
  BY NoSeq DEF PairsOK
<1>2. /\ m.type = "size" /\ m.parent = c.parent /\ m.rows = r /\ m.columns = w
      /\ m.live = c.live /\ m.pairs = <<>> /\ m.init = c.init
      /\ DOMAIN m = {"type", "parent", "rows", "columns", "live", "pairs", "init"}
  OBVIOUS
<1>. QED  BY <1>1, <1>2, SizeCallType DEF PacketOK, AnswerOK

LEMMA SizeRequestType ==
  ASSUME StateOK, ReplicaSizeRequest  PROVE StateOK'
<1>. DEFINE call == Head(toSource)
<1>1. Serves("size") /\ call \in Calls /\ call.type = "size"
  BY ServesType DEF ReplicaSizeRequest
<1>2. CASE ~InModel(call.parent)
  <2>1. SourceFatal
    BY <1>2 DEF ReplicaSizeRequest
  <2>. QED  BY <1>1, <2>1, FatalType
<1>3. CASE InModel(call.parent)
  <2>. DEFINE n == Len(RowsOf(call.parent))
              w == IF call.parent # <<>> /\ n = 0 THEN 0
                   ELSE Len(ColumnsOf(call.parent))
              m == [type |-> "size", parent |-> call.parent, init |-> call.init,
                    live |-> call.live, rows |-> n, columns |-> w, pairs |-> <<>>]
  <2>1. Answers(m)
    BY <1>3 DEF ReplicaSizeRequest
  <2>2. n \in Nat
    BY <1>1, <1>3, SizeCallType, RowsOfType, LenProperties DEF StateOK
  <2>3. w \in Nat
    <3>1. Len(ColumnsOf(call.parent)) \in Nat
      BY ColumnsOfType, LenProperties DEF StateOK
    <3>. QED  BY <3>1
  <2>. HIDE DEF n, w
  <2>4. PacketOK(m)
    <3>. HIDE DEF call
    <3>. QED  BY <1>1, <2>2, <2>3, SizeAnswerOK
  <2>. HIDE DEF m
  <2>. QED  BY <1>1, <2>1, <2>4, AnswersType
<1>. QED  BY <1>2, <1>3

LEMMA RowRequestType ==
  ASSUME StateOK, ReplicaRowRequest  PROVE StateOK'
<1>. DEFINE call == Head(toSource)
            q == call.request
<1>1. Serves("rows") /\ call \in Calls /\ call.type = "rows"
  BY ServesType DEF ReplicaRowRequest
<1>2. call.live \in BOOLEAN /\ q \in Requests
  <2>. HIDE DEF call
  <2>. QED  BY <1>1 DEF Calls
<1>3. CASE ~InModel(q.parent)
  <2>1. SourceFatal
    BY <1>3 DEF ReplicaRowRequest
  <2>. QED  BY <1>1, <2>1, FatalType
<1>4. CASE InModel(q.parent)
  <2>. DEFINE r2 == Min2(q.r2, Len(RowsOf(q.parent)))
              c2 == Min2(q.c2, Len(ColumnsOf(q.parent)))
              pairs == Rectangle(q.parent, q.r1, r2, q.c1, c2)
              m == [type |-> "rows", request |-> q, live |-> call.live, pairs |-> pairs]
  <2>1. Answers(m)
    BY <1>4 DEF ReplicaRowRequest
  <2>2. /\ q.parent \in Tops /\ q.r1 \in Int /\ q.r2 \in Int /\ q.c1 \in Int /\ q.c2 \in Int
    BY <1>2 DEF Requests
  <2>3. Len(RowsOf(q.parent)) \in Nat /\ Len(ColumnsOf(q.parent)) \in Nat
    BY <1>4, <2>2, RowsOfType, ColumnsOfType, LenProperties DEF StateOK
  <2>4. r2 \in Int /\ c2 \in Int
    BY <2>2, <2>3, MinOfTwo
  <2>. HIDE DEF r2, c2
  <2>5. PairsOK(pairs, FALSE)
    BY <2>2, <2>4, RectangleType DEF StateOK
  <2>. HIDE DEF pairs
  <2>6. PacketOK(m)
    <3>1. /\ m.type = "rows" /\ m.request = q /\ m.live = call.live /\ m.pairs = pairs
          /\ DOMAIN m = {"type", "request", "live", "pairs"}
      OBVIOUS
    <3>. HIDE DEF m, q, call
    <3>. QED  BY <1>2, <2>5, <3>1 DEF PacketOK, AnswerOK, q
  <2>. HIDE DEF m
  <2>. QED  BY <1>1, <2>1, <2>6, AnswersType
<1>. QED  BY <1>3, <1>4

LEMMA CacheRequestType ==
  ASSUME StateOK, ReplicaCacheRequest  PROVE StateOK'
<1>. DEFINE call == Head(toSource)
            m == [type |-> "cache", init |-> call.init, live |-> call.live,
                  parent |-> <<>>, rows |-> Len(rows), columns |-> Len(columns),
                  pairs |-> FetchTree(call.size)]
<1>1. Serves("cache") /\ call \in Calls /\ call.type = "cache"
  BY ServesType DEF ReplicaCacheRequest
<1>2. /\ call.live \in BOOLEAN /\ call.size \in Nat
      /\ call.init \in {"init", "reset", "layout"}
  <2>. HIDE DEF call
  <2>. QED  BY <1>1 DEF Calls
<1>3. Answers(m)
  BY DEF ReplicaCacheRequest
<1>4. Len(rows) \in Nat /\ Len(columns) \in Nat
  BY LenProperties DEF StateOK, ModelTypes
<1>5. PairsOK(FetchTree(call.size), TRUE)
  BY <1>2, FetchTreeType DEF StateOK
<1>6. PacketOK(m)
  <2>1. /\ m.type = "cache" /\ m.parent = <<>> /\ m.rows = Len(rows)
        /\ m.columns = Len(columns) /\ m.live = call.live
        /\ m.pairs = FetchTree(call.size) /\ m.init = call.init
        /\ DOMAIN m = {"type", "parent", "rows", "columns", "live", "pairs", "init"}
    OBVIOUS
  <2>2. <<>> \in Tops
    BY DEF Tops
  <2>. HIDE DEF m, call
  <2>. QED  BY <1>2, <1>4, <1>5, <2>1, <2>2 DEF PacketOK, AnswerOK
<1>. HIDE DEF m
<1>. QED  BY <1>1, <1>3, <1>6, AnswersType

LEMMA HeaderRequestType ==
  ASSUME StateOK, ReplicaHeaderRequest  PROVE StateOK'
<1>. DEFINE call == Head(toSource)
<1>1. Serves("headers") /\ call \in Calls /\ call.type = "headers" /\ Answers(call)
  BY ServesType DEF ReplicaHeaderRequest
<1>. HIDE DEF call
<1>2. PacketOK(call)
  BY <1>1 DEF Calls, PacketOK, AnswerOK
<1>. QED  BY <1>1, <1>2, AnswersType

LEMMA SetDataType ==
  ASSUME StateOK, ReplicaSetData  PROVE StateOK'
<1>. DEFINE call == Head(toSource)
            parent == Parent(call.path)
            row == Last(call.path)
<1>1. Serves("setData") /\ call \in Calls /\ call.type = "setData"
  BY ServesType DEF ReplicaSetData
<1>2. call.path \in Tops \ {<<>>} /\ call.column = 1
  <2>. HIDE DEF call
  <2>. QED  BY <1>1 DEF Calls
<1>3. PathOK(call.path) /\ Len(call.path) = 1
  <2>. HIDE DEF call
  <2>. QED  BY <1>2 DEF PathOK, Tops
<1>4. parent = <<>> /\ parent \in Tops /\ row \in Int
  BY <1>3, ParentOf DEF Tops
<1>5. CASE SourceFatal
  BY <1>1, <1>5, FatalType
<1>6. CASE ~SourceFatal
  <2>1. /\ InModel(parent) /\ row \in DOMAIN RowsOf(parent)
        /\ call.column \in DOMAIN ColumnsOf(parent)
        /\ toSource' = Tail(toSource) /\ UNCHANGED <<rows, kids, columns>>
        /\ \/ /\ Edit(parent, row, call.column)
              /\ toReplica' = Append(toReplica, EditSignal(parent, row, call.column))
           \/ UNCHANGED <<edited, toReplica>>
    BY <1>6 DEF ReplicaSetData
  <2>2. SignalOK(EditSignal(parent, row, call.column))
    BY <1>2, <1>4 DEF SignalOK, EditSignal
  <2>3. PacketsOK(toReplica) /\ Tail(toSource) \in Seq(Calls)
    BY <1>1, ServesType DEF StateOK, WireTypes
  <2>4. WireTypes'
    <3>. HIDE DEF call, parent, row
    <3>. QED  BY <2>1, <2>2, <2>3, PacketsAppend DEF WireTypes, PacketOK
  <2>5. ModelTypes'
    <3>1. edited' \subseteq Items \X Columns
      <4>1. CASE Edit(parent, row, call.column)
        <5>. HIDE DEF call, parent, row
        <5>. QED  BY <1>4, <2>1, <4>1, EditType DEF StateOK
      <4>2. CASE UNCHANGED edited
        BY <4>2 DEF StateOK, ModelTypes
      <4>. QED  BY <2>1, <4>1, <4>2
    <3>. QED  BY <2>1, <3>1 DEF StateOK, ModelTypes
  <2>. QED  BY <1>1, <2>4, <2>5, ServesType DEF StateOK
<1>. QED  BY <1>5, <1>6

LEMMA SourceAnswersType ==
  ASSUME StateOK, SourceAnswers  PROVE StateOK'
BY SizeRequestType, RowRequestType, CacheRequestType, HeaderRequestType, SetDataType
   DEF SourceAnswers

-----------------------------------------------------------------------------
(* Types: the replica receives; and what that does to the number of rows   *)
(* and of columns.                                                         *)

RowDelta(m) ==
  IF m.type = "rowsInserted" /\ m.parent = <<>> THEN 1
  ELSE IF m.type = "rowsRemoved" /\ m.parent = <<>> THEN -1 ELSE 0
ColumnDelta(m) == IF m.type = "columnsInserted" THEN 1 ELSE 0

(* The tree of the next state, with as many rows and columns more. *)
Grows(r, c) ==
  /\ TreeOK(root')
  /\ root'.rowCount = root.rowCount + r /\ root'.columnCount = root.columnCount + c

LEMMA GrowsNot ==
  ASSUME TreeOK(root), Keeps(root, root')  PROVE Grows(0, 0)
BY DEF Keeps, Grows, TreeOK, NodeOK

LEMMA ReceivesType ==
  ASSUME StateOK, NEW type, Receives(type)
  PROVE  /\ PacketOK(Head(toReplica)) /\ Head(toReplica).type = type
         /\ PacketsOK(Tail(toReplica))
         /\ Received => WireTypes'
<1>1. toReplica # <<>> /\ Head(toReplica).type = type
  BY DEF Receives
<1>2. PacketOK(Head(toReplica)) /\ PacketsOK(Tail(toReplica))
  BY <1>1, PacketsTail DEF StateOK, WireTypes
<1>3. Received => WireTypes'
  BY <1>2 DEF StateOK, WireTypes, Received
<1>. QED  BY <1>1, <1>2, <1>3

LEMMA ReceiveState ==
  ASSUME StateOK, NEW type, Receives(type), WireTypes', TreeOK(root'),
         headerData' \in Seq(BOOLEAN), initDone' \in BOOLEAN, waiting' \in BOOLEAN,
         requestedData' \in Seq(Requests)
  PROVE  StateOK'
<1>1. ModelTypes'
  BY DEF StateOK, Receives, modelVars, ModelTypes
<1>2. ReplicaTypes' /\ RequestTypes' /\ TreeOK(root)'
  BY DEF StateOK, Receives, counters, ReplicaTypes, RequestTypes
<1>. QED  BY <1>1, <1>2 DEF StateOK

LEMMA RowsPacket ==
  ASSUME NEW m, PacketOK(m), m.type \in {"rowsInserted", "rowsRemoved", "dataChanged"}
  PROVE  /\ m.parent \in Tops /\ m.row \in Int
         /\ m.type = "dataChanged" => m.column \in Int
BY DEF PacketOK, SignalOK, AnswerOK

LEMMA LocalTypes ==
  ASSUME StateOK
  PROVE  /\ TreeOK(root) /\ headerData \in Seq(BOOLEAN) /\ initDone \in BOOLEAN
         /\ waiting \in BOOLEAN /\ requestedData \in Seq(Requests)
BY DEF StateOK, ReplicaTypes, RequestTypes

LEMMA OnRowsInsertedType ==
  ASSUME StateOK, OnRowsInserted
  PROVE  StateOK' /\ Grows(RowDelta(Head(toReplica)), ColumnDelta(Head(toReplica)))
<1>. DEFINE m == Head(toReplica)
            ensured == IF m.parent = <<>> THEN root
                       ELSE EnsureChild(root, m.parent[1], cacheSize)
            node == InsertChild(NodeAt(ensured, m.parent), m.row,
                                SizeAt(Len(m.parent) + 1, cacheSize))
            new == [node EXCEPT !.hasChildren = @ \/ node.columnCount > 0]
<1>1. /\ Receives("rowsInserted") /\ Received /\ PacketOK(m) /\ m.type = "rowsInserted"
      /\ WireTypes'
  BY ReceivesType DEF OnRowsInserted
<1>2. m.parent \in Tops
  <2>. HIDE DEF m
  <2>. QED  BY <1>1, RowsPacket
<1>3. Keeps(root, ensured) /\ TreeOK(root)
  <2>1. TreeOK(root) /\ NodeOK(root)
    BY LocalTypes DEF TreeOK
  <2>. QED  BY <2>1, EnsureChildOK, KeepsItself
<1>4. \/ root' = ensured /\ m.parent # <<>> /\ UNCHANGED headerData
      \/ root' = root /\ UNCHANGED headerData /\ ~HasNode(ensured, m.parent)
      \/ /\ HasNode(ensured, m.parent) /\ root' = PutNode(ensured, m.parent, new)
         /\ headerData' = Append(headerData, FALSE)
  BY DEF OnRowsInserted, ValidParent, cacheVars
<1>5. UNCHANGED <<initDone, requestedData, waiting>>
  BY DEF OnRowsInserted
<1>6. headerData' \in Seq(BOOLEAN)
  <2>1. headerData \in Seq(BOOLEAN)
    BY LocalTypes
  <2>2. Append(headerData, FALSE) \in Seq(BOOLEAN)
    BY <2>1
  <2>. HIDE DEF m, ensured, new
  <2>. QED  BY <1>4, <2>1, <2>2
<1>7. TreeOK(ensured)
  BY <1>3 DEF Keeps
<1>8. ColumnDelta(m) = 0 /\ RowDelta(m) = IF m.parent = <<>> THEN 1 ELSE 0
  BY <1>1 DEF RowDelta, ColumnDelta
<1>9. Grows(RowDelta(m), ColumnDelta(m))
  <2>1. CASE m.parent = <<>>
    <3>1. ensured = root /\ NodeAt(ensured, m.parent) = root /\ HasNode(ensured, m.parent)
      BY <2>1 DEF NodeAt, HasNode
    <3>2. PutNode(ensured, m.parent, new) = new
      BY <2>1 DEF PutNode
    <3>3. /\ TreeOK(node) /\ node.rowCount = root.rowCount + 1
          /\ node.columnCount = root.columnCount
      <4>. HIDE DEF ensured, m
      <4>1. NodeOK(root)
        BY <1>3 DEF TreeOK
      <4>2. node = InsertChild(root, m.row, SizeAt(Len(m.parent) + 1, cacheSize))
        BY <3>1
      <4>. HIDE DEF node
      <4>. QED  BY <1>3, <4>1, <4>2, InsertChildOK
    <3>4. root' = new
      BY <1>4, <2>1, <3>1, <3>2
    <3>. HIDE DEF node, m
    <3>5. TreeOK(new) /\ new.rowCount = node.rowCount /\ new.columnCount = node.columnCount
      BY <3>3 DEF TreeOK, NodeOK
    <3>6. root.columnCount \in Int
      BY <1>3 DEF TreeOK, NodeOK
    <3>. HIDE DEF new
    <3>. QED  BY <1>8, <2>1, <3>3, <3>4, <3>5, <3>6 DEF Grows
  <2>2. CASE m.parent # <<>>
    <3>1. ASSUME HasNode(ensured, m.parent)
          PROVE  Keeps(ensured, PutNode(ensured, m.parent, new))
      <4>1. Len(m.parent) = 1
        <5>. HIDE DEF m
        <5>. QED  BY <1>2, <2>2 DEF Tops
      <4>2. NodeOK(NodeAt(ensured, m.parent))
        BY <1>7, <3>1, <4>1, NodeAtOK
      <4>3. NodeOK(node)
        <5>. HIDE DEF ensured, m
        <5>. QED  BY <4>2, InsertChildOK
      <4>. HIDE DEF node
      <4>4. NodeOK(new)
        BY <4>3 DEF NodeOK
      <4>. HIDE DEF new, ensured, m
      <4>. QED  BY <1>7, <2>2, <3>1, <4>4, PutNodeOK
    <3>. HIDE DEF ensured, new, m
    <3>2. Keeps(root, root')
      <4>1. CASE root' = ensured
        BY <1>3, <4>1
      <4>2. CASE root' = root
        BY <1>3, <4>2, KeepsItself
      <4>3. CASE HasNode(ensured, m.parent) /\ root' = PutNode(ensured, m.parent, new)
        <5>1. Keeps(ensured, root')
          BY <3>1, <4>3
        <5>. QED  BY <1>3, <5>1, KeepsTransitive
      <4>. QED  BY <1>4, <4>1, <4>2, <4>3
    <3>. QED  BY <1>3, <1>8, <2>2, <3>2, GrowsNot
  <2>. QED  BY <2>1, <2>2
<1>10. TreeOK(root')
  BY <1>9 DEF Grows
<1>. HIDE DEF m, ensured, node, new
<1>11. StateOK'
  BY <1>1, <1>5, <1>6, <1>10, LocalTypes, ReceiveState
<1>. QED  BY <1>9, <1>11 DEF m

LEMMA OnColumnsInsertedType ==
  ASSUME StateOK, OnColumnsInserted
  PROVE  StateOK' /\ Grows(RowDelta(Head(toReplica)), ColumnDelta(Head(toReplica)))
<1>. DEFINE m == Head(toReplica)
<1>1. /\ Receives("columnsInserted") /\ m.type = "columnsInserted" /\ WireTypes'
      /\ UNCHANGED <<headerData, initDone, requestedData, waiting>>
      /\ root' = [root EXCEPT !.columnCount = @ + 1,
                              !.hasChildren = @ \/ root.kids # <<>>]
  BY ReceivesType DEF OnColumnsInserted
<1>2. RowDelta(m) = 0 /\ ColumnDelta(m) = 1
  BY <1>1 DEF RowDelta, ColumnDelta
<1>3. TreeOK(root)
  BY LocalTypes
<1>. HIDE DEF m
<1>4. /\ DOMAIN root' = DOMAIN root /\ root'.rowCount = root.rowCount
      /\ root'.columnCount = root.columnCount + 1
      /\ root'.kids = root.kids
  BY <1>1, <1>3 DEF TreeOK, NodeOK
<1>5. TreeOK(root') /\ Grows(0, 1)
  BY <1>3, <1>4 DEF TreeOK, NodeOK, Grows
<1>6. StateOK'
  BY <1>1, <1>5, LocalTypes, ReceiveState
<1>. QED  BY <1>2, <1>5, <1>6 DEF m

LEMMA KeptState ==
  ASSUME StateOK, NEW type, type \notin {"rowsInserted", "rowsRemoved", "columnsInserted"},
         Receives(type), WireTypes', Keeps(root, root'), headerData' \in Seq(BOOLEAN),
         initDone' \in BOOLEAN, waiting' \in BOOLEAN, requestedData' \in Seq(Requests)
  PROVE  StateOK' /\ Grows(RowDelta(Head(toReplica)), ColumnDelta(Head(toReplica)))
<1>1. Head(toReplica).type = type
  BY ReceivesType
<1>2. RowDelta(Head(toReplica)) = 0 /\ ColumnDelta(Head(toReplica)) = 0
  BY <1>1 DEF RowDelta, ColumnDelta
<1>3. Grows(0, 0)
  BY LocalTypes, GrowsNot
<1>4. TreeOK(root')
  BY <1>3 DEF Grows
<1>. QED  BY <1>2, <1>3, <1>4, ReceiveState

LEMMA OnRowsRemovedType ==
  ASSUME StateOK, OnRowsRemoved
  PROVE  StateOK' /\ Grows(RowDelta(Head(toReplica)), ColumnDelta(Head(toReplica)))
<1>. DEFINE m == Head(toReplica)
            node == RemoveChild(NodeAt(root, m.parent), m.row)
<1>1. /\ Receives("rowsRemoved") /\ Received /\ PacketOK(m) /\ m.type = "rowsRemoved"
      /\ WireTypes' /\ UNCHANGED <<initDone, requestedData, waiting>>
      /\ TreeOK(root) /\ headerData \in Seq(BOOLEAN)
  BY ReceivesType, LocalTypes DEF OnRowsRemoved
<1>2. m.parent \in Tops
  <2>. HIDE DEF m
  <2>. QED  BY <1>1, RowsPacket
<1>3. \/ ~ValidParent(root, m.parent) /\ UNCHANGED <<root, headerData>>
      \/ /\ root' = IF HasNode(root, m.parent) THEN PutNode(root, m.parent, node) ELSE root
         /\ \/ m.row \in DOMAIN headerData /\ headerData' = RemoveAt(headerData, m.row)
            \/ UNCHANGED headerData
  BY DEF OnRowsRemoved, cacheVars
<1>4. headerData' \in Seq(BOOLEAN)
  <2>. HIDE DEF m, node
  <2>1. ASSUME m.row \in DOMAIN headerData
        PROVE  RemoveAt(headerData, m.row) \in Seq(BOOLEAN)
    <3>1. m.row \in 1..Len(headerData)
      BY <1>1, <2>1, LenProperties
    <3>. QED  BY <1>1, <3>1, RemoveAtSeq
  <2>. QED  BY <1>1, <1>3, <2>1
<1>5. ColumnDelta(m) = 0 /\ RowDelta(m) = IF m.parent = <<>> THEN -1 ELSE 0
  BY <1>1 DEF RowDelta, ColumnDelta
<1>6. Grows(RowDelta(m), ColumnDelta(m))
  <2>1. CASE m.parent = <<>>
    <3>1. NodeAt(root, m.parent) = root /\ HasNode(root, m.parent)
          /\ ValidParent(root, m.parent)
      BY <2>1 DEF NodeAt, HasNode, ValidParent
    <3>2. root' = node /\ node = RemoveChild(root, m.row)
      BY <1>3, <2>1, <3>1 DEF PutNode
    <3>3. NodeOK(root)
      BY <1>1 DEF TreeOK
    <3>. HIDE DEF m, node
    <3>. QED  BY <1>1, <1>5, <2>1, <3>2, <3>3, RemoveChildOK DEF Grows, NodeOK
  <2>2. CASE m.parent # <<>>
    <3>1. ASSUME HasNode(root, m.parent)
          PROVE  Keeps(root, PutNode(root, m.parent, node))
      <4>. HIDE DEF m
      <4>1. NodeOK(NodeAt(root, m.parent))
        BY <1>1, <1>2, <2>2, <3>1, NodeAtOK DEF Tops
      <4>2. NodeOK(node)
        BY <4>1, RemoveChildOK
      <4>. HIDE DEF node
      <4>. QED  BY <1>1, <2>2, <3>1, <4>2, PutNodeOK
    <3>. HIDE DEF m, node
    <3>2. Keeps(root, root')
      BY <1>1, <1>3, <3>1, KeepsItself
    <3>. QED  BY <1>1, <1>5, <2>2, <3>2, GrowsNot
  <2>. QED  BY <2>1, <2>2
<1>7. TreeOK(root')
  BY <1>6 DEF Grows
<1>. HIDE DEF m, node
<1>8. StateOK'
  BY <1>1, <1>4, <1>7, LocalTypes, ReceiveState
<1>. QED  BY <1>6, <1>8 DEF m

LEMMA OnRowsMovedType ==
  ASSUME StateOK, OnRowsMoved
  PROVE  StateOK' /\ Grows(RowDelta(Head(toReplica)), ColumnDelta(Head(toReplica)))
<1>. DEFINE m == Head(toReplica)
            once == ClearRows(root, m.row, m.row + (m.row - 1))
<1>1. /\ Receives("rowsMoved") /\ WireTypes'
      /\ UNCHANGED <<headerData, initDone, requestedData, waiting>>
      /\ root' = ClearRows(once, m.dest, m.dest + (m.row - 1))
  BY ReceivesType DEF OnRowsMoved
<1>2. Keeps(root, once) /\ TreeOK(once)
  BY LocalTypes, ClearRowsOK DEF Keeps
<1>. HIDE DEF once, m
<1>3. Keeps(root, root')
  BY <1>1, <1>2, ClearRowsOK, KeepsTransitive
<1>. QED  BY <1>1, <1>3, LocalTypes, KeptState

LEMMA OnDataChangedType ==
  ASSUME StateOK, OnDataChanged
  PROVE  StateOK' /\ Grows(RowDelta(Head(toReplica)), ColumnDelta(Head(toReplica)))
<1>. DEFINE m == Head(toReplica)
            path == Append(m.parent, m.row)
            indexed == Indexed(root, path)
            again == [parent |-> m.parent, r1 |-> m.row, r2 |-> m.row,
                      c1 |-> m.column, c2 |-> m.column, asked |-> FALSE]
<1>1. /\ Receives("dataChanged") /\ Received /\ PacketOK(m) /\ m.type = "dataChanged"
      /\ WireTypes' /\ UNCHANGED <<headerData, initDone, waiting>>
  BY ReceivesType DEF OnDataChanged
<1>2. m.parent \in Tops /\ m.row \in Int /\ m.column \in Int
  <2>. HIDE DEF m
  <2>. QED  BY <1>1, RowsPacket
<1>3. \/ UNCHANGED <<root, requestedData>>
      \/ /\ ValidIndex(root, path, m.column)
         /\ root' = ForgetRows(indexed, m.parent, m.row, m.row, {m.column})
         /\ requestedData' \in {requestedData, Append(requestedData, again)}
  BY DEF OnDataChanged
<1>4. again \in Requests
  <2>. HIDE DEF m
  <2>. QED  BY <1>2 DEF Requests
<1>5. requestedData' \in Seq(Requests)
  <2>1. requestedData \in Seq(Requests)
    BY LocalTypes
  <2>. HIDE DEF again, m, path, indexed
  <2>. QED  BY <1>3, <1>4, <2>1, AppendProperties
<1>6. ASSUME ValidIndex(root, path, m.column)
      PROVE  Keeps(root, ForgetRows(indexed, m.parent, m.row, m.row, {m.column}))
  <2>1. PathOK(path) /\ Parent(path) = m.parent
    <3>. HIDE DEF m
    <3>. QED  BY <1>2, PathOfChild
  <2>2. HasNode(root, m.parent) /\ TreeOK(root)
    <3>. HIDE DEF m, path
    <3>. QED  BY <1>6, <2>1, ParentOfValid, LocalTypes
  <2>3. Keeps(root, indexed) /\ TreeOK(indexed)
    <3>. HIDE DEF m, path
    <3>. QED  BY <2>1, <2>2, IndexedOK DEF Keeps
  <2>4. HasNode(indexed, m.parent)
    <3>. HIDE DEF m, path
    <3>1. Len(path) = 1 => indexed = root
      BY DEF Indexed
    <3>. QED  BY <2>1, <2>2, <3>1, IndexedHasParent
  <2>. HIDE DEF indexed, path, m
  <2>. QED  BY <1>2, <2>3, <2>4, ForgetRowsOK, KeepsTransitive
<1>7. Keeps(root, root')
  <2>. HIDE DEF indexed, path, m, again
  <2>. QED  BY <1>3, <1>6, LocalTypes, KeepsItself
<1>. HIDE DEF m, path, indexed, again
<1>. QED  BY <1>1, <1>5, <1>7, LocalTypes, KeptState

(* init, onModelReset and onLayoutChanged ask anew, and change nothing     *)
(* else.                                                                   *)
LEMMA AskedAnew ==
  ASSUME StateOK, NEW init \in {"init", "reset"}, ModelReset(init), toReplica # <<>>
  PROVE  WireTypes'
<1>. DEFINE call == IF prefetch THEN CacheCall(init, cacheSize) ELSE SizeCall(<<>>, init)
<1>1. call \in Calls
  <2>1. cacheSize \in Nat
    BY ModelIsSmall DEF StateOK, ReplicaTypes
  <2>. QED  BY <2>1 DEF Calls, CacheCall, SizeCall
<1>2. Kill(toSource) \in Seq(Calls) /\ toSource' = Append(Kill(toSource), call)
  BY KillCalls DEF ModelReset, StateOK, WireTypes
<1>. HIDE DEF call
<1>3. toSource' \in Seq(Calls)
  BY <1>1, <1>2, AppendProperties
<1>4. PacketsOK(toReplica')
  BY PacketsTail, KillPackets DEF ModelReset, StateOK, WireTypes
<1>. QED  BY <1>3, <1>4 DEF WireTypes

LEMMA OnInitializedType ==
  ASSUME StateOK, OnInitialized
  PROVE  StateOK' /\ Grows(RowDelta(Head(toReplica)), ColumnDelta(Head(toReplica)))
<1>1. Receives("init") /\ toReplica # <<>> /\ ModelReset("init")
      /\ UNCHANGED <<root, headerData, initDone, requestedData, waiting>>
  BY DEF OnInitialized, Receives, cacheVars
<1>2. WireTypes'
  BY <1>1, AskedAnew
<1>. QED  BY <1>1, <1>2, LocalTypes, KeepsItself, KeptState

LEMMA OnModelResetType ==
  ASSUME StateOK, OnModelReset
  PROVE  StateOK' /\ Grows(RowDelta(Head(toReplica)), ColumnDelta(Head(toReplica)))
<1>1. Receives("modelReset") /\ toReplica # <<>>
      /\ UNCHANGED <<root, headerData, initDone, requestedData, waiting>>
  BY DEF OnModelReset, Receives, cacheVars
<1>2. WireTypes'
  <2>1. CASE initDone
    BY <1>1, <2>1, AskedAnew DEF OnModelReset
  <2>2. CASE ~initDone
    BY <1>1, <2>2, ReceivesType DEF OnModelReset
  <2>. QED  BY <2>1, <2>2
<1>. QED  BY <1>1, <1>2, LocalTypes, KeepsItself, KeptState

LEMMA OnLayoutChangedType ==
  ASSUME StateOK, OnLayoutChanged
  PROVE  StateOK' /\ Grows(RowDelta(Head(toReplica)), ColumnDelta(Head(toReplica)))
<1>1. /\ Receives("layoutChanged") /\ PacketsOK(Tail(toReplica))
      /\ UNCHANGED <<root, headerData, initDone, requestedData, waiting>>
  BY ReceivesType DEF OnLayoutChanged, cacheVars
<1>2. CacheCall("layout", cacheSize) \in Calls
  <2>1. cacheSize \in Nat
    BY ModelIsSmall DEF StateOK, ReplicaTypes
  <2>. QED  BY <2>1 DEF Calls, CacheCall
<1>3. toSource' \in Seq(Calls)
  BY <1>2, AppendProperties DEF OnLayoutChanged, StateOK, WireTypes
<1>4. WireTypes'
  BY <1>1, <1>3 DEF OnLayoutChanged, WireTypes
<1>. QED  BY <1>1, <1>4, LocalTypes, KeepsItself, KeptState

LEMMA FlagsType ==
  ASSUME NEW n \in Nat, NEW f, DOMAIN f = 1..n, \A i \in 1..n : f[i] \in BOOLEAN,
         f = [i \in 1..n |-> f[i]]
  PROVE  f \in Seq(BOOLEAN)
OBVIOUS

LEMMA OnHeaderDataChangedType ==
  ASSUME StateOK, OnHeaderDataChanged
  PROVE  StateOK' /\ Grows(RowDelta(Head(toReplica)), ColumnDelta(Head(toReplica)))
<1>1. /\ Receives("headerDataChanged") /\ WireTypes'
      /\ UNCHANGED <<root, initDone, requestedData, waiting>>
  BY ReceivesType DEF OnHeaderDataChanged
<1>2. headerData' \in Seq(BOOLEAN)
  <2>1. headerData \in Seq(BOOLEAN) /\ Len(headerData) \in Nat
        /\ DOMAIN headerData = 1..Len(headerData)
    BY LocalTypes, LenProperties
  <2>2. headerData' = [i \in 1..Len(headerData) |->
                         headerData[i] /\ i # Head(toReplica).section]
    BY <2>1 DEF OnHeaderDataChanged
  <2>. QED  BY <2>1, <2>2, FlagsType
<1>. QED  BY <1>1, <1>2, LocalTypes, KeepsItself, KeptState

(* The answers to the replica's calls.  A live one that rebuilds the tree  *)
(* has its sizes; any other packet adds what it says.                      *)
Lives(m) == Rebuilds(m) /\ m.live
Takes(m) ==
  IF Lives(m)
  THEN TreeOK(root') /\ root'.rowCount = m.rows /\ root'.columnCount = m.columns
  ELSE Grows(RowDelta(m), ColumnDelta(m))

LEMMA RebuiltType ==
  ASSUME NEW m, m.rows \in Nat, m.columns \in Nat, PairsOK(m.pairs, TRUE)
  PROVE  /\ TreeOK(Rebuilt(m))
         /\ Rebuilt(m).rowCount = m.rows /\ Rebuilt(m).columnCount = m.columns
<1>1. TreeOK(Sized(m.rows, m.columns)) /\ PairsOK(<<>>, TRUE)
  BY SizedOK, NoSeq DEF PairsOK
<1>2. Keeps(Sized(m.rows, m.columns), Rebuilt(m))
  BY <1>1, FillTreeOK DEF Rebuilt
<1>. QED  BY <1>2, SizedOK DEF Keeps

LEMMA GetsType ==
  ASSUME StateOK, NEW type \in {"size", "cache"}, NEW init, Gets(type, init)
  PROVE  LET m == Head(toReplica)
         IN  /\ Receives(type) /\ WireTypes' /\ m.type = type /\ m.init = init
             /\ m.parent \in Tops /\ m.rows \in Nat /\ m.columns \in Nat
             /\ m.live \in BOOLEAN /\ PairsOK(m.pairs, TRUE)
             /\ init = "parent" <=> m.parent # <<>>
<1>. DEFINE m == Head(toReplica)
<1>1. /\ Receives(type) /\ Received /\ PacketOK(m) /\ m.type = type /\ WireTypes'
      /\ m.init = init
  BY ReceivesType DEF Gets
<1>. HIDE DEF m
<1>2. AnswerOK(m)
  BY <1>1 DEF PacketOK, SignalOK
<1>3. /\ m.parent \in Tops /\ m.rows \in Nat /\ m.columns \in Nat
      /\ m.live \in BOOLEAN /\ PairsOK(m.pairs, TRUE)
      /\ m.init = "parent" <=> m.parent # <<>>
  BY <1>1, <1>2 DEF AnswerOK
<1>. QED  BY <1>1, <1>3 DEF m

LEMMA DoneType ==
  ASSUME StateOK, NEW type \in {"size", "cache"}, NEW init \in {"init", "reset", "layout"},
         Gets(type, init), init = "layout" => type = "cache",
         initDone' \in BOOLEAN, headerData' \in Seq(BOOLEAN), UNCHANGED requestedData,
         \/ ~Head(toReplica).live /\ UNCHANGED <<root, waiting>>
         \/ Head(toReplica).live /\ root' = Rebuilt(Head(toReplica)) /\ waiting' = FALSE
  PROVE  StateOK' /\ Takes(Head(toReplica))
<1>. DEFINE m == Head(toReplica)
<1>1. /\ Receives(type) /\ WireTypes' /\ m.type = type /\ m.init = init
      /\ m.rows \in Nat /\ m.columns \in Nat /\ PairsOK(m.pairs, TRUE)
  BY GetsType
<1>2. \/ ~m.live /\ UNCHANGED <<root, waiting>>
      \/ m.live /\ root' = Rebuilt(m) /\ waiting' = FALSE
  OBVIOUS
<1>. HIDE DEF m
<1>3. Rebuilds(m) /\ RowDelta(m) = 0 /\ ColumnDelta(m) = 0
  BY <1>1 DEF Rebuilds, RowDelta, ColumnDelta
<1>4. Takes(m) /\ TreeOK(root')
  <2>1. CASE m.live /\ root' = Rebuilt(m)
    BY <1>1, <1>3, <2>1, RebuiltType DEF Takes, Lives
  <2>2. CASE ~m.live /\ UNCHANGED root
    <3>1. Keeps(root, root') /\ TreeOK(root)
      BY <2>2, LocalTypes, KeepsItself
    <3>. QED  BY <1>3, <2>2, <3>1, GrowsNot DEF Takes, Lives, Keeps
  <2>. QED  BY <1>2, <2>1, <2>2
<1>5. waiting' \in BOOLEAN
  BY <1>2, LocalTypes
<1>6. StateOK'
  BY <1>1, <1>4, <1>5, LocalTypes, ReceiveState
<1>. QED  BY <1>4, <1>6 DEF m

LEMMA ModelResetDoneType ==
  ASSUME StateOK, NEW type \in {"size", "cache"}, NEW init, Gets(type, init),
         HandleModelResetDone(Head(toReplica))
  PROVE  /\ headerData' \in Seq(BOOLEAN)
         /\ \/ ~Head(toReplica).live /\ UNCHANGED <<root, waiting>>
            \/ Head(toReplica).live /\ root' = Rebuilt(Head(toReplica)) /\ waiting' = FALSE
<1>. DEFINE m == Head(toReplica)
<1>1. m.rows \in Nat /\ m.live \in BOOLEAN
  BY GetsType
<1>2. headerData' = headerData \/ headerData' = [i \in 1..m.rows |-> FALSE]
  BY DEF HandleModelResetDone, cacheVars
<1>. HIDE DEF m
<1>3. headerData' \in Seq(BOOLEAN)
  <2>1. [i \in 1..m.rows |-> FALSE] \in Seq(BOOLEAN)
    <3>. DEFINE f == [i \in 1..m.rows |-> FALSE]
    <3>1. DOMAIN f = 1..m.rows /\ \A i \in 1..m.rows : f[i] = FALSE
      OBVIOUS
    <3>2. f = [i \in 1..m.rows |-> f[i]]
      OBVIOUS
    <3>. HIDE DEF f
    <3>3. f \in Seq(BOOLEAN)
      BY <1>1, <3>1, <3>2, FlagsType
    <3>. QED  BY <3>3 DEF f
  <2>. QED  BY <1>2, <2>1, LocalTypes
<1>. QED  BY <1>1, <1>3 DEF HandleModelResetDone, cacheVars, m

LEMMA ResetDoneType ==
  ASSUME StateOK, ResetDone  PROVE StateOK' /\ Takes(Head(toReplica))
<1>1. initDone' \in BOOLEAN /\ UNCHANGED requestedData
      /\ HandleModelResetDone(Head(toReplica))
  BY LocalTypes DEF ResetDone
<1>2. CASE Gets("size", "reset")
  BY <1>1, <1>2, ModelResetDoneType, DoneType
<1>3. CASE Gets("cache", "reset")
  BY <1>1, <1>3, ModelResetDoneType, DoneType
<1>. QED  BY <1>2, <1>3 DEF ResetDone

LEMMA HandleInitDoneType ==
  ASSUME StateOK, HandleInitDone  PROVE StateOK' /\ Takes(Head(toReplica))
<1>1. initDone' \in BOOLEAN /\ UNCHANGED requestedData
      /\ HandleModelResetDone(Head(toReplica))
  <2>1. initDone' = (initDone \/ Head(toReplica).live)
    BY DEF HandleInitDone
  <2>2. initDone' \in BOOLEAN
    BY <2>1
  <2>. QED  BY <2>2 DEF HandleInitDone
<1>2. CASE Gets("size", "init")
  BY <1>1, <1>2, ModelResetDoneType, DoneType
<1>3. CASE Gets("cache", "init")
  BY <1>1, <1>3, ModelResetDoneType, DoneType
<1>. QED  BY <1>2, <1>3 DEF HandleInitDone

LEMMA LayoutDoneType ==
  ASSUME StateOK, LayoutDone  PROVE StateOK' /\ Takes(Head(toReplica))
<1>1. /\ initDone' \in BOOLEAN /\ UNCHANGED requestedData
      /\ headerData' \in Seq(BOOLEAN) /\ Gets("cache", "layout")
  BY LocalTypes DEF LayoutDone
<1>2. Head(toReplica).live \in BOOLEAN
  BY <1>1, GetsType
<1>3. \/ ~Head(toReplica).live /\ UNCHANGED <<root, waiting>>
      \/ Head(toReplica).live /\ root' = Rebuilt(Head(toReplica)) /\ waiting' = FALSE
  BY <1>2 DEF LayoutDone
<1>. QED  BY <1>1, <1>3, DoneType

LEMMA KeptTakes ==
  ASSUME StateOK, NEW type, type \notin {"rowsInserted", "rowsRemoved", "columnsInserted"},
         Receives(type), ~Lives(Head(toReplica)), WireTypes', Keeps(root, root'),
         headerData' \in Seq(BOOLEAN), initDone' \in BOOLEAN, waiting' \in BOOLEAN,
         requestedData' \in Seq(Requests)
  PROVE  StateOK' /\ Takes(Head(toReplica))
BY KeptState DEF Takes

LEMMA HandleSizeDoneType ==
  ASSUME StateOK, HandleSizeDone  PROVE StateOK' /\ Takes(Head(toReplica))
<1>. DEFINE m == Head(toReplica)
            node == NodeAt(root, m.parent)
            new == [node EXCEPT !.columnCount = m.columns,
                      !.rowCount = IF @ = 0 THEN m.rows ELSE @]
<1>1. /\ Gets("size", "parent") /\ UNCHANGED <<headerData, initDone, requestedData, waiting>>
      /\ \/ UNCHANGED root
         \/ Missing(m.parent) = Nothing /\ root' = PutNode(root, m.parent, new)
  BY DEF HandleSizeDone
<1>2. /\ Receives("size") /\ WireTypes' /\ m.type = "size" /\ m.init = "parent"
      /\ m.parent \in Tops /\ m.parent # <<>> /\ m.rows \in Nat /\ m.columns \in Nat
  BY <1>1, GetsType
<1>3. ~Lives(m)
  BY <1>2 DEF Lives, Rebuilds
<1>4. ASSUME Missing(m.parent) = Nothing
      PROVE  Keeps(root, PutNode(root, m.parent, new))
  <2>. HIDE DEF m
  <2>1. HasNode(root, m.parent) /\ TreeOK(root)
    BY <1>4, LocalTypes DEF Missing, Nothing
  <2>2. Len(m.parent) = 1
    BY <1>2 DEF Tops
  <2>3. NodeOK(node)
    BY <2>1, <2>2, NodeAtOK
  <2>. HIDE DEF node
  <2>4. NodeOK(new)
    BY <1>2, <2>3 DEF NodeOK
  <2>. HIDE DEF new
  <2>. QED  BY <1>2, <2>1, <2>4, PutNodeOK
<1>. HIDE DEF m, new
<1>5. Keeps(root, root')
  BY <1>1, <1>4, LocalTypes, KeepsItself
<1>. QED  BY <1>1, <1>2, <1>3, <1>5, LocalTypes, KeptTakes DEF m

LEMMA RequestedDataType ==
  ASSUME StateOK, RequestedData  PROVE StateOK' /\ Takes(Head(toReplica))
<1>. DEFINE m == Head(toReplica)
            touched == Touch(root, m.request.parent)
<1>1. /\ Receives("rows") /\ PacketOK(m) /\ m.type = "rows" /\ WireTypes'
      /\ UNCHANGED <<headerData, initDone, requestedData>>
  BY ReceivesType DEF RequestedData
<1>2. /\ root' \in {root, touched, FillEntries(touched, m.pairs, cacheSize)}
      /\ waiting' = waiting \/ waiting' = (waiting /\ ~m.request.asked)
  <2>1. CASE ~m.live
    BY <2>1 DEF RequestedData
  <2>2. CASE m.live
    BY <2>2 DEF RequestedData
  <2>. QED  BY <2>1, <2>2
<1>3. PairsOK(m.pairs, FALSE) /\ m.request \in Requests /\ ~Lives(m)
  <2>. HIDE DEF m
  <2>. QED  BY <1>1 DEF PacketOK, SignalOK, AnswerOK, Lives, Rebuilds
<1>4. Keeps(root, touched) /\ TreeOK(touched) /\ TreeOK(root)
  BY LocalTypes, TouchOK DEF Keeps
<1>5. Keeps(root, FillEntries(touched, m.pairs, cacheSize))
  <2>. HIDE DEF m, touched
  <2>. QED  BY <1>3, <1>4, FillEntriesOK, KeepsTransitive
<1>6. waiting' \in BOOLEAN
  BY <1>2, LocalTypes
<1>7. Keeps(root, root')
  <2>. HIDE DEF touched, m
  <2>. QED  BY <1>2, <1>4, <1>5, KeepsItself
<1>. HIDE DEF touched
<1>. QED  BY <1>1, <1>3, <1>6, <1>7, LocalTypes, KeptTakes

LEMMA RequestedHeaderDataType ==
  ASSUME StateOK, RequestedHeaderData  PROVE StateOK' /\ Takes(Head(toReplica))
<1>. DEFINE m == Head(toReplica)
<1>1. /\ Receives("headers") /\ m.type = "headers" /\ WireTypes'
      /\ UNCHANGED <<root, initDone, requestedData, waiting>>
  BY ReceivesType DEF RequestedHeaderData
<1>2. headerData' \in Seq(BOOLEAN)
  <2>1. headerData \in Seq(BOOLEAN) /\ Len(headerData) \in Nat
        /\ DOMAIN headerData = 1..Len(headerData)
    BY LocalTypes, LenProperties
  <2>2. \/ headerData' = headerData
        \/ headerData' = [i \in 1..Len(headerData) |->
                            headerData[i] \/ i \in ToSet(m.sections)]
    BY <2>1 DEF RequestedHeaderData
  <2>. QED  BY <2>1, <2>2, FlagsType
<1>3. ~Lives(m) /\ Keeps(root, root')
  BY <1>1, LocalTypes, KeepsItself DEF Lives, Rebuilds
<1>. QED  BY <1>1, <1>2, <1>3, LocalTypes, KeptTakes

LEMMA ReplicaReceivesType ==
  ASSUME StateOK, ReplicaReceives  PROVE StateOK' /\ Takes(Head(toReplica))
<1>1. ASSUME NEW type, type \notin {"size", "cache"}, Receives(type),
             Grows(RowDelta(Head(toReplica)), ColumnDelta(Head(toReplica)))
      PROVE  Takes(Head(toReplica))
  <2>1. Head(toReplica).type = type
    BY <1>1, ReceivesType
  <2>. QED  BY <1>1, <2>1 DEF Takes, Lives, Rebuilds
<1>2. CASE OnRowsInserted
  <2>1. Receives("rowsInserted")
    BY <1>2 DEF OnRowsInserted
  <2>. QED  BY <1>1, <1>2, <2>1, OnRowsInsertedType
<1>3. CASE OnColumnsInserted
  <2>1. Receives("columnsInserted")
    BY <1>3 DEF OnColumnsInserted
  <2>. QED  BY <1>1, <1>3, <2>1, OnColumnsInsertedType
<1>4. CASE OnRowsRemoved
  <2>1. Receives("rowsRemoved")
    BY <1>4 DEF OnRowsRemoved
  <2>. QED  BY <1>1, <1>4, <2>1, OnRowsRemovedType
<1>5. CASE OnRowsMoved
  <2>1. Receives("rowsMoved")
    BY <1>5 DEF OnRowsMoved
  <2>. QED  BY <1>1, <1>5, <2>1, OnRowsMovedType
<1>6. CASE OnDataChanged
  <2>1. Receives("dataChanged")
    BY <1>6 DEF OnDataChanged
  <2>. QED  BY <1>1, <1>6, <2>1, OnDataChangedType
<1>7. CASE OnModelReset
  <2>1. Receives("modelReset")
    BY <1>7 DEF OnModelReset
  <2>. QED  BY <1>1, <1>7, <2>1, OnModelResetType
<1>8. CASE OnLayoutChanged
  <2>1. Receives("layoutChanged")
    BY <1>8 DEF OnLayoutChanged
  <2>. QED  BY <1>1, <1>8, <2>1, OnLayoutChangedType
<1>9. CASE OnHeaderDataChanged
  <2>1. Receives("headerDataChanged")
    BY <1>9 DEF OnHeaderDataChanged
  <2>. QED  BY <1>1, <1>9, <2>1, OnHeaderDataChangedType
<1>10. CASE OnInitialized
  <2>1. Receives("init")
    BY <1>10 DEF OnInitialized
  <2>. QED  BY <1>1, <1>10, <2>1, OnInitializedType
<1>. QED  BY <1>2, <1>3, <1>4, <1>5, <1>6, <1>7, <1>8, <1>9, <1>10, ResetDoneType,
             HandleInitDoneType, LayoutDoneType, HandleSizeDoneType,
             RequestedDataType, RequestedHeaderDataType DEF ReplicaReceives

-----------------------------------------------------------------------------
(* Types: the application calls, and the queued calls. *)

Sending == \E calls \in Seq(Calls) : Sends(calls)

LEMMA SendingType ==
  ASSUME StateOK, Sending  PROVE toSource' \in Seq(Calls)
BY ConcatProperties DEF Sending, Sends, StateOK, WireTypes

LEMMA SendingOne ==
  ASSUME NEW call \in Calls, Sends(<<call>>)  PROVE Sending
<1>1. <<call>> \in Seq(Calls)
  OBVIOUS
<1>. QED  BY <1>1 DEF Sending

LEMMA CallsState ==
  ASSUME StateOK, UNCHANGED <<modelVars, toReplica, connected, prefetch, initDone>>,
         UNCHANGED <<headerData, changes>>,
         toSource' \in Seq(Calls), Keeps(root, root'),
         requestedData' \in Seq(Requests), requestedHeaders' \in Seq(Nat),
         headerEvents' \in Nat, waiting' \in BOOLEAN, reads' \in Nat,
         cacheSize' \in {CacheSize, SmallCacheSize}
  PROVE  StateOK'
<1>1. ModelTypes' /\ WireTypes' /\ RequestTypes' /\ ReplicaTypes'
  BY DEF StateOK, modelVars, ModelTypes, WireTypes, RequestTypes, ReplicaTypes
<1>2. TreeOK(root)'
  BY DEF Keeps
<1>. QED  BY <1>1, <1>2 DEF StateOK

LEMMA CallerTypes ==
  ASSUME StateOK
  PROVE  /\ toSource \in Seq(Calls) /\ requestedHeaders \in Seq(Nat)
         /\ headerEvents \in Nat /\ reads \in Nat /\ changes \in Nat
         /\ cacheSize \in {CacheSize, SmallCacheSize}
BY DEF StateOK, WireTypes, RequestTypes, ReplicaTypes

LEMMA PathsType ==
  ASSUME StateOK, NEW path \in Paths
  PROVE  PathOK(path)
BY DEF Paths, PathOK

LEMMA MultiDataType ==
  ASSUME StateOK, NEW path \in Paths, NEW column, MultiData(path, column)
  PROVE  StateOK' /\ Keeps(root, root')
<1>. DEFINE indexed == Touch(Indexed(root, path), path)
            width == NodeAt(root, Parent(path)).columnCount
            request == [parent |-> Parent(path), r1 |-> Last(path), r2 |-> Last(path),
                        c1 |-> 1, c2 |-> width, asked |-> ~waiting]
<1>1. /\ PathOK(path) /\ Reads /\ ValidIndex(root, path, column) /\ TreeOK(root)
      /\ waiting \in BOOLEAN /\ requestedData \in Seq(Requests)
  BY PathsType, LocalTypes DEF MultiData
<1>2. HasNode(root, Parent(path)) /\ Parent(path) \in Tops /\ Last(path) \in Int
  BY <1>1, ParentOfValid, ParentOf
<1>3. Keeps(root, indexed)
  <2>1. Keeps(root, Indexed(root, path)) /\ TreeOK(Indexed(root, path))
    BY <1>1, <1>2, IndexedOK DEF Keeps
  <2>. QED  BY <2>1, TouchOK, KeepsTransitive
<1>4. width \in Int
  <2>1. Parent(path) = <<>> \/ Len(Parent(path)) = 1
    BY <1>2 DEF Tops
  <2>2. NodeOK(NodeAt(root, Parent(path)))
    BY <1>1, <1>2, <2>1, NodeAtOK DEF TreeOK
  <2>. QED  BY <2>2 DEF NodeOK
<1>5. request \in Requests
  <2>. HIDE DEF width
  <2>. QED  BY <1>1, <1>2, <1>4 DEF Requests
<1>6. /\ root' = indexed
      /\ requestedData' \in {requestedData, Append(requestedData, request)}
      /\ waiting' \in {waiting, TRUE}
      /\ UNCHANGED <<toSource, requestedHeaders, headerEvents, cacheSize>>
  BY DEF MultiData
<1>. HIDE DEF indexed, request
<1>7. requestedData' \in Seq(Requests) /\ waiting' \in BOOLEAN
  <2>1. requestedData' \in Seq(Requests)
    BY <1>1, <1>5, <1>6, AppendProperties
  <2>2. waiting' = TRUE => waiting' \in BOOLEAN
    OBVIOUS
  <2>3. waiting' = waiting => waiting' \in BOOLEAN
    BY <1>1
  <2>. QED  BY <1>6, <2>1, <2>2, <2>3
<1>8. /\ reads' \in Nat
      /\ UNCHANGED <<modelVars, toReplica, connected, prefetch, initDone>>
      /\ UNCHANGED <<headerData, changes>>
  BY <1>1, CallerTypes DEF Reads
<1>. QED  BY <1>3, <1>6, <1>7, <1>8, CallerTypes, CallsState

LEMMA ReadsType ==
  ASSUME StateOK, Reads, Keeps(root, root'), UNCHANGED <<requestVars, waiting>>,
         toSource' \in Seq(Calls), cacheSize' \in {CacheSize, SmallCacheSize}
  PROVE  StateOK'
<1>1. /\ reads' \in Nat
      /\ UNCHANGED <<modelVars, toReplica, connected, prefetch, initDone>>
      /\ UNCHANGED <<headerData, changes>>
  BY CallerTypes DEF Reads
<1>. QED  BY <1>1, CallerTypes, LocalTypes, CallsState DEF requestVars

LEMMA ViewCallsType ==
  ASSUME StateOK, ViewCalls
  PROVE  StateOK' /\ Keeps(root, root') /\ (UNCHANGED toSource \/ Sending)
<1>. USE DEF ViewCalls
<1>1. TreeOK(root)
  BY LocalTypes
<1>2. ASSUME NEW path \in Paths, NEW column, MultiData(path, column)
      PROVE  StateOK' /\ Keeps(root, root') /\ UNCHANGED toSource
  BY <1>2, MultiDataType DEF MultiData
<1>3. ASSUME NEW row \in 1..root.rowCount, RowCount(row)
      PROVE  StateOK' /\ Keeps(root, root') /\ Sending
  <2>1. Keeps(root, root')
    BY <1>1, <1>3, TouchOK DEF RowCount
  <2>2. SizeCall(<<row>>, "parent") \in Calls
    <3>1. <<row>> \in Tops \ {<<>>}
      BY DEF Tops
    <3>. QED  BY <3>1 DEF SizeCall, Calls
  <2>3. Sending
    BY <1>3, <2>2, SendingOne DEF RowCount
  <2>. QED  BY <1>3, <2>1, <2>3, SendingType, CallerTypes, ReadsType DEF RowCount
<1>4. ASSUME NEW section \in DOMAIN headerData, HeaderData(section)
      PROVE  StateOK' /\ Keeps(root, root') /\ UNCHANGED toSource
  <2>1. section \in Nat
    <3>1. headerData \in Seq(BOOLEAN)
      BY LocalTypes
    <3>. QED  BY <3>1, LenProperties
  <2>2. requestedHeaders' \in Seq(Nat) /\ headerEvents' \in Nat
    BY <1>4, <2>1, CallerTypes, AppendProperties DEF HeaderData
  <2>3. /\ reads' \in Nat
        /\ UNCHANGED <<modelVars, toReplica, connected, prefetch, initDone>>
        /\ UNCHANGED <<headerData, changes>>
    BY <1>4, CallerTypes DEF HeaderData, Reads
  <2>4. Keeps(root, root')
    BY <1>1, <1>4, KeepsItself DEF HeaderData
  <2>5. UNCHANGED <<toSource, requestedData, cacheSize, waiting>>
    BY <1>4 DEF HeaderData
  <2>. QED  BY <2>2, <2>3, <2>4, <2>5, CallerTypes, LocalTypes, CallsState
<1>5. ASSUME NEW row \in 1..root.rowCount, SetData(<<row>>, 1)
      PROVE  StateOK' /\ Keeps(root, root') /\ Sending
  <2>1. Len(<<row>>) < 2
    OBVIOUS
  <2>2. Keeps(root, root')
    BY <1>1, <1>5, <2>1, KeepsItself DEF SetData, Indexed
  <2>3. [type |-> "setData", path |-> <<row>>, column |-> 1] \in Calls
    <3>1. <<row>> \in Tops \ {<<>>}
      BY DEF Tops
    <3>. QED  BY <3>1 DEF Calls
  <2>4. Sending
    BY <1>5, <2>3, SendingOne DEF SetData
  <2>. QED  BY <1>5, <2>2, <2>4, SendingType, CallerTypes, ReadsType DEF SetData
<1>6. CASE SetRootCacheSize
  <2>. DEFINE kids_ == CleanCache(root.kids, SmallCacheSize)
  <2>1. CacheOK(kids_)
    BY <1>1, CleanCacheOK DEF TreeOK
  <2>2. root' = [root EXCEPT !.kids = kids_]
    BY <1>6 DEF SetRootCacheSize
  <2>. HIDE DEF kids_
  <2>3. Keeps(root, root')
    BY <1>1, <2>1, <2>2 DEF Keeps, TreeOK, NodeOK
  <2>. QED  BY <1>6, <2>3, CallerTypes, ReadsType DEF SetRootCacheSize
<1>. QED  BY <1>2, <1>3, <1>4, <1>5, <1>6

LEMMA QueuedType ==
  ASSUME StateOK, Queued, toSource' \in Seq(Calls), requestedData' \in Seq(Requests),
         requestedHeaders' \in Seq(Nat), headerEvents' \in Nat
  PROVE  StateOK' /\ UNCHANGED root
<1>1. /\ UNCHANGED <<modelVars, toReplica, connected, prefetch, initDone>>
      /\ UNCHANGED <<headerData, changes>>
      /\ UNCHANGED <<root, reads, waiting, cacheSize>>
  BY DEF Queued, cacheVars, settingVars, counters
<1>. QED  BY <1>1, CallerTypes, LocalTypes, KeepsItself, CallsState

LEMMA FetchPendingDataType ==
  ASSUME StateOK, FetchPendingData
  PROVE  StateOK' /\ UNCHANGED root /\ Sending
<1>. DEFINE calls == Sent(FinalRequests)
<1>1. calls \in Seq(RowCalls)
  BY LocalTypes, FinalRequestsType, SentType
<1>2. Queued /\ Sends(calls) /\ requestedData' = <<>>
      /\ UNCHANGED <<requestedHeaders, headerEvents>>
  BY DEF FetchPendingData
<1>. HIDE DEF calls
<1>3. calls \in Seq(Calls)
  <2>1. RowCalls \subseteq Calls
    BY DEF RowCalls, Calls
  <2>. QED  BY <1>1, <2>1
<1>4. Sending
  BY <1>2, <1>3 DEF Sending
<1>5. requestedData' \in Seq(Requests)
  BY <1>2
<1>. QED  BY <1>2, <1>4, <1>5, SendingType, CallerTypes, QueuedType

LEMMA FetchPendingHeaderDataType ==
  ASSUME StateOK, FetchPendingHeaderData
  PROVE  StateOK' /\ UNCHANGED root /\ Sending
<1>1. HeaderCall(requestedHeaders) \in Calls
  BY CallerTypes DEF HeaderCall, Calls
<1>2. Sending /\ requestedHeaders' \in Seq(Nat) /\ headerEvents' \in Nat
  BY <1>1, CallerTypes, SendingOne DEF FetchPendingHeaderData
<1>. QED  BY <1>2, SendingType, LocalTypes, QueuedType DEF FetchPendingHeaderData

-----------------------------------------------------------------------------
(* Type correctness *)

LEMMA InitType ==
  ASSUME Init  PROVE StateOK
<1>1. ModelTypes
  <2>1. Child \in Items /\ InitialRows \in Seq(Items) /\ InitialColumns \in Seq(Columns)
    <3>1. IsSeq(InitialRows) /\ IsSeq(InitialColumns)
      BY ModelIsSmall DEF IsSeq
    <3>2. ToSet(InitialRows) \subseteq Items /\ ToSet(InitialColumns) \subseteq Columns
          /\ Child \in Items
      BY DEF Items, Columns
    <3>. QED  BY <3>1, <3>2, WiderSeq DEF IsSeq
  <2>2. <<Child>> \in Seq(Items) /\ <<>> \in Seq(Items)
    BY <2>1
  <2>3. kids \in [Items -> Seq(Items)]
    BY <2>2 DEF Init
  <2>. QED  BY <2>1, <2>3 DEF Init, ModelTypes
<1>2. prefetch \in BOOLEAN /\ CacheSize \in Nat
  BY ModelIsSmall DEF Init
<1>3. WireTypes
  <2>. DEFINE call == IF prefetch THEN CacheCall("init", CacheSize) ELSE SizeCall(<<>>, "init")
  <2>1. call \in Calls
    BY <1>2 DEF Calls, CacheCall, SizeCall
  <2>2. toSource = <<call>> /\ toReplica = <<>>
    BY DEF Init
  <2>. HIDE DEF call
  <2>3. toSource \in Seq(Calls) /\ PacketsOK(toReplica)
    BY <2>1, <2>2, NoSeq DEF PacketsOK
  <2>. QED  BY <2>3 DEF WireTypes
<1>4. RequestTypes
  <2>1. <<>> \in Seq(Requests) /\ <<>> \in Seq(Nat)
    OBVIOUS
  <2>. QED  BY <2>1 DEF RequestTypes, Init
<1>5. ReplicaTypes
  <2>1. <<>> \in Seq(BOOLEAN)
    OBVIOUS
  <2>. QED  BY <1>2, <2>1 DEF ReplicaTypes, Init
<1>6. TreeOK(root)
  BY NewNodeOK, NoSeq DEF Init, TreeOK, NewNode, CacheOK
<1>. QED  BY <1>1, <1>3, <1>4, <1>5, <1>6 DEF StateOK

LEMMA TypeStep ==
  ASSUME StateOK, [Next]_vars  PROVE StateOK'
<1>1. CASE UNCHANGED vars
  BY <1>1 DEF vars, modelVars, wireVars, requestVars, cacheVars, settingVars, counters,
     StateOK, ModelTypes, WireTypes, RequestTypes, ReplicaTypes
<1>2. CASE Next
  BY <1>2, ModelChangesType, LostType, MadeType, SourceAnswersType,
     ReplicaReceivesType, ViewCallsType, FetchPendingDataType, FetchPendingHeaderDataType DEF Next
<1>. QED  BY <1>1, <1>2

LEMMA StateImpliesType == ASSUME StateOK  PROVE TypeOK
BY DEF StateOK, TypeOK, ModelTypes, ReplicaTypes

(* The plain variables keep their types, whatever the rows, columns and    *)
(* cache sizes: no signal or answer that the replica takes and no edit,    *)
(* read or size of the application leaves something else in them           *)
(* (QAbstractItemModelReplicaImplementation, QAbstractItemModelSourceAdapter). *)
THEOREM TypeCorrect == Spec => []TypeOK
<1>1. Init => StateOK
  BY InitType
<1>2. StateOK /\ [Next]_vars => StateOK'
  BY TypeStep
<1>3. StateOK => TypeOK
  BY StateImpliesType
<1>. QED  BY <1>1, <1>2, <1>3, PTL DEF Spec

-----------------------------------------------------------------------------
(* The rows and the columns agree                                          *)
(*                                                                         *)
(* While the replica is attached and nothing is undefined, either a        *)
(* rebuild is asked for, or will be when the values come, or the counts    *)
(* can be told along the packets under way: they start from the tree's,    *)
(* from a live answer's, or at the signal of a reset that will make the    *)
(* replica ask, and end with the model's.                                  *)

IsInit(m) == Lives(m) /\ m.init = "init"

Starts(queue, done, tree, p, r, c) ==
  IF p = 0 THEN r[0] = tree.rowCount /\ c[0] = tree.columnCount
  ELSE IF Lives(queue[p]) THEN r[p] = queue[p].rows /\ c[p] = queue[p].columns
  ELSE /\ queue[p].type = "modelReset"
       /\ done \/ \E k \in 1..p - 1 : IsInit(queue[k])
GoesOn(m, r, c, k) ==
  /\ ~Lives(m) /\ m.type # "modelReset"
  /\ r[k] = r[k - 1] + RowDelta(m) /\ c[k] = c[k - 1] + ColumnDelta(m)
Counts(queue, done, tree, height, width) ==
  \E p \in 0..Len(queue), r, c \in [0..Len(queue) -> Int] :
    /\ Starts(queue, done, tree, p, r, c)
    /\ \A k \in p + 1..Len(queue) : GoesOn(queue[k], r, c, k)
    /\ r[Len(queue)] = height /\ c[Len(queue)] = width

Safe == undefined = Nothing /\ connected
Coming(queue) == \E i \in 1..Len(queue) : Lives(queue[i])
Starting(queue) == \E i \in 1..Len(queue) : queue[i].type = "init"
InitDue ==
  \/ initDone \/ Starting(toReplica)
  \/ \E i \in 1..Len(toSource) : IsInit(toSource[i])
  \/ \E i \in 1..Len(toReplica) : IsInit(toReplica[i])
Agree ==
  \/ Coming(toSource) \/ Starting(toReplica)
  \/ Counts(toReplica, initDone, root, Len(rows), Len(columns))
CountsOK == StateOK /\ (Safe => InitDue /\ Agree)

LEMMA CountsAppend ==
  ASSUME NEW queue, IsSeq(queue), NEW done, NEW tree, NEW height \in Int, NEW width \in Int,
         Counts(queue, done, tree, height, width),
         NEW m, ~Lives(m), m.type # "modelReset"
  PROVE  Counts(Append(queue, m), done, tree, height + RowDelta(m), width + ColumnDelta(m))
<1>. DEFINE n == Len(queue)
            new == Append(queue, m)
            h == height + RowDelta(m)
            w == width + ColumnDelta(m)
<1>1. /\ n \in Nat /\ Len(new) = n + 1 /\ new[n + 1] = m
      /\ \A i \in 1..n : new[i] = queue[i]
  BY IsSeqElements, AppendSeq
<1>2. PICK p \in 0..n, r \in [0..n -> Int], c \in [0..n -> Int] :
        /\ Starts(queue, done, tree, p, r, c)
        /\ \A k \in p + 1..n : GoesOn(queue[k], r, c, k)
        /\ r[n] = height /\ c[n] = width
  BY DEF Counts
<1>3. h \in Int /\ w \in Int
  BY DEF RowDelta, ColumnDelta
<1>. DEFINE r2 == [k \in 0..n + 1 |-> IF k <= n THEN r[k] ELSE h]
            c2 == [k \in 0..n + 1 |-> IF k <= n THEN c[k] ELSE w]
<1>. HIDE DEF n, new
<1>4. /\ \A k \in 0..n : r2[k] = r[k] /\ c2[k] = c[k]
      /\ r2[n + 1] = h /\ c2[n + 1] = w
  BY <1>1
<1>5. r2 \in [0..n + 1 -> Int] /\ c2 \in [0..n + 1 -> Int]
  BY <1>1, <1>3
<1>. HIDE DEF r2, c2
<1>6. Starts(new, done, tree, p, r2, c2)
  <2>1. r2[p] = r[p] /\ c2[p] = c[p]
    BY <1>4
  <2>2. CASE p = 0
    BY <1>2, <2>1, <2>2 DEF Starts
  <2>3. CASE p # 0
    <3>1. p \in 1..n /\ new[p] = queue[p] /\ \A k \in 1..p - 1 : new[k] = queue[k]
      BY <1>1, <2>3
    <3>. QED  BY <1>2, <2>1, <2>3, <3>1 DEF Starts
  <2>. QED  BY <2>2, <2>3
<1>7. ASSUME NEW k \in p + 1..n + 1  PROVE GoesOn(new[k], r2, c2, k)
  <2>1. CASE k = n + 1
    <3>1. r2[k] = h /\ c2[k] = w /\ r2[k - 1] = height /\ c2[k - 1] = width /\ new[k] = m
      BY <1>1, <1>2, <1>4, <2>1
    <3>. QED  BY <3>1 DEF GoesOn
  <2>2. CASE k # n + 1
    <3>1. k \in p + 1..n /\ k \in 1..n /\ k - 1 \in 0..n /\ k \in 0..n
      BY <1>1, <2>2
    <3>2. r2[k] = r[k] /\ c2[k] = c[k] /\ r2[k - 1] = r[k - 1] /\ c2[k - 1] = c[k - 1]
          /\ new[k] = queue[k]
      BY <1>1, <1>4, <3>1
    <3>3. GoesOn(queue[k], r, c, k)
      BY <1>2, <3>1
    <3>. QED  BY <3>2, <3>3 DEF GoesOn
  <2>. QED  BY <2>1, <2>2
<1>8. p \in 0..n + 1
  BY <1>1
<1>. HIDE DEF h, w
<1>9. Counts(new, done, tree, h, w)
  BY <1>1, <1>4, <1>5, <1>6, <1>7, <1>8 DEF Counts
<1>. QED  BY <1>9 DEF new, h, w

LEMMA CountsAnew ==
  ASSUME NEW queue, IsSeq(queue), NEW done, NEW tree, NEW height \in Int, NEW width \in Int,
         NEW m,
         \/ Lives(m) /\ m.rows = height /\ m.columns = width
         \/ /\ ~Lives(m) /\ m.type = "modelReset"
            /\ done \/ \E k \in 1..Len(queue) : IsInit(queue[k])
  PROVE  Counts(Append(queue, m), done, tree, height, width)
<1>. DEFINE n == Len(queue)
            new == Append(queue, m)
            r == [k \in 0..n + 1 |-> height]
            c == [k \in 0..n + 1 |-> width]
<1>1. /\ n \in Nat /\ Len(new) = n + 1 /\ new[n + 1] = m
      /\ \A i \in 1..n : new[i] = queue[i]
  BY IsSeqElements, AppendSeq
<1>2. r \in [0..n + 1 -> Int] /\ c \in [0..n + 1 -> Int]
  OBVIOUS
<1>3. r[n + 1] = height /\ c[n + 1] = width /\ n + 1 \in 0..n + 1 /\ n + 1 # 0
      /\ (n + 1) - 1 = n /\ (n + 1) + 1 > n + 1
  BY <1>1
<1>. HIDE DEF new, r, c, n
<1>4. Starts(new, done, tree, n + 1, r, c)
  <2>1. CASE Lives(m) /\ m.rows = height /\ m.columns = width
    BY <1>1, <1>3, <2>1 DEF Starts
  <2>2. CASE /\ ~Lives(m) /\ m.type = "modelReset"
             /\ done \/ \E k \in 1..n : IsInit(queue[k])
    <3>1. done \/ \E k \in 1..n : IsInit(new[k])
      BY <1>1, <2>2
    <3>. QED  BY <1>1, <1>3, <2>2, <3>1 DEF Starts
  <2>. QED  BY <2>1, <2>2 DEF n
<1>5. \A k \in (n + 1) + 1..n + 1 : GoesOn(new[k], r, c, k)
  BY <1>1
<1>. QED  BY <1>1, <1>2, <1>3, <1>4, <1>5 DEF Counts, new

LEMMA CountsTail ==
  ASSUME NEW queue, IsSeq(queue), queue # <<>>, NEW done, NEW tree, NEW height, NEW width,
         Counts(queue, done, tree, height, width), NEW done2, NEW tree2,
         done => done2, IsInit(Head(queue)) => done2,
         Head(queue).type = "modelReset" => ~done,
         IF Lives(Head(queue))
         THEN tree2.rowCount = Head(queue).rows /\ tree2.columnCount = Head(queue).columns
         ELSE /\ tree2.rowCount = tree.rowCount + RowDelta(Head(queue))
              /\ tree2.columnCount = tree.columnCount + ColumnDelta(Head(queue))
  PROVE  Counts(Tail(queue), done2, tree2, height, width)
<1>. DEFINE n == Len(queue)
            new == Tail(queue)
<1>1. /\ n \in Nat \ {0} /\ Len(new) = n - 1 /\ Head(queue) = queue[1]
      /\ \A i \in 1..n - 1 : new[i] = queue[i + 1]
  BY TailSeq
<1>2. PICK p \in 0..n, r \in [0..n -> Int], c \in [0..n -> Int] :
        /\ Starts(queue, done, tree, p, r, c)
        /\ \A k \in p + 1..n : GoesOn(queue[k], r, c, k)
        /\ r[n] = height /\ c[n] = width
  BY DEF Counts
<1>. DEFINE r2 == [k \in 0..n - 1 |-> r[k + 1]]
            c2 == [k \in 0..n - 1 |-> c[k + 1]]
            p2 == IF p = 0 THEN 0 ELSE p - 1
<1>. HIDE DEF n, new
<1>3. \A k \in 0..n - 1 : r2[k] = r[k + 1] /\ c2[k] = c[k + 1]
  OBVIOUS
<1>4. r2 \in [0..n - 1 -> Int] /\ c2 \in [0..n - 1 -> Int]
  BY <1>1
<1>5. r2[n - 1] = height /\ c2[n - 1] = width
  <2>1. n - 1 \in 0..n - 1 /\ (n - 1) + 1 = n
    BY <1>1
  <2>. QED  BY <1>2, <1>3, <2>1
<1>. HIDE DEF r2, c2
<1>6. p2 \in 0..n - 1
  BY <1>1
<1>7. Starts(new, done2, tree2, p2, r2, c2)
  <2>0. r2[0] = r[1] /\ c2[0] = c[1]
    BY <1>1, <1>3
  <2>1. CASE p = 0
    <3>1. GoesOn(queue[1], r, c, 1)
      BY <1>1, <1>2, <2>1
    <3>2. r[0] = tree.rowCount /\ c[0] = tree.columnCount
      BY <1>2, <2>1 DEF Starts
    <3>. QED  BY <1>1, <2>0, <2>1, <3>1, <3>2 DEF GoesOn, Starts
  <2>2. CASE p = 1
    <3>1. Lives(queue[1])
      <4>1. ASSUME ~Lives(queue[1])  PROVE FALSE
        <5>1. queue[1].type = "modelReset" /\ (done \/ \E k \in 1..0 : IsInit(queue[k]))
          BY <1>2, <2>2, <4>1 DEF Starts
        <5>. QED  BY <1>1, <5>1
      <4>. QED  BY <4>1
    <3>2. r[1] = queue[1].rows /\ c[1] = queue[1].columns
      BY <1>2, <2>2, <3>1 DEF Starts
    <3>. QED  BY <1>1, <2>0, <2>2, <3>1, <3>2 DEF Starts
  <2>3. CASE p > 1
    <3>1. /\ p2 = p - 1 /\ p2 # 0 /\ p2 \in 1..n - 1 /\ p2 \in 0..n - 1 /\ p2 + 1 = p
          /\ p2 - 1 \in 0..n - 2
      BY <1>1, <2>3
    <3>2. new[p2] = queue[p] /\ r2[p2] = r[p] /\ c2[p2] = c[p]
      BY <1>1, <1>3, <3>1
    <3>3. CASE Lives(queue[p])
      BY <1>2, <2>3, <3>1, <3>2, <3>3 DEF Starts
    <3>4. CASE ~Lives(queue[p])
      <4>1. queue[p].type = "modelReset" /\ (done \/ \E k \in 1..p - 1 : IsInit(queue[k]))
        BY <1>2, <2>3, <3>4 DEF Starts
      <4>2. done2 \/ \E k \in 1..p2 - 1 : IsInit(new[k])
        <5>1. ASSUME NEW k \in 1..p - 1, IsInit(queue[k])
              PROVE  done2 \/ \E j \in 1..p2 - 1 : IsInit(new[j])
          <6>1. CASE k = 1
            BY <1>1, <5>1, <6>1
          <6>2. CASE k # 1
            <7>1. k - 1 \in 1..p2 - 1 /\ k - 1 \in 1..n - 1 /\ (k - 1) + 1 = k
              BY <1>1, <3>1, <6>2
            <7>2. new[k - 1] = queue[k]
              BY <1>1, <7>1
            <7>. QED  BY <5>1, <7>1, <7>2
          <6>. QED  BY <6>1, <6>2
        <5>. QED  BY <4>1, <5>1
      <4>. HIDE DEF p2
      <4>. QED  BY <3>1, <3>2, <3>4, <4>1, <4>2 DEF Starts
    <3>. QED  BY <3>3, <3>4
  <2>. QED  BY <1>1, <2>1, <2>2, <2>3
<1>8. ASSUME NEW k \in p2 + 1..n - 1  PROVE GoesOn(new[k], r2, c2, k)
  <2>1. k + 1 \in p + 1..n /\ k \in 1..n - 1 /\ k \in 0..n - 1 /\ k - 1 \in 0..n - 1
        /\ (k - 1) + 1 = k /\ (k + 1) - 1 = k
    BY <1>1
  <2>2. new[k] = queue[k + 1] /\ r2[k] = r[k + 1] /\ c2[k] = c[k + 1]
        /\ r2[k - 1] = r[k] /\ c2[k - 1] = c[k]
    BY <1>1, <1>3, <2>1
  <2>3. GoesOn(queue[k + 1], r, c, k + 1)
    BY <1>2, <2>1
  <2>. QED  BY <2>1, <2>2, <2>3 DEF GoesOn
<1>. HIDE DEF p2
<1>9. Counts(new, done2, tree2, height, width)
  BY <1>1, <1>4, <1>5, <1>6, <1>7, <1>8 DEF Counts
<1>. QED  BY <1>9 DEF new

LEMMA CountsTree ==
  ASSUME NEW queue, NEW done, NEW tree, NEW tree2, NEW height, NEW width,
         Counts(queue, done, tree, height, width),
         tree2.rowCount = tree.rowCount, tree2.columnCount = tree.columnCount
  PROVE  Counts(queue, done, tree2, height, width)
BY DEF Counts, Starts

(* What the steps do to it. *)
Extends(queue, more) ==
  /\ Len(queue) \in Nat /\ Len(more) \in Nat /\ Len(queue) <= Len(more)
  /\ \A i \in 1..Len(queue) : more[i] = queue[i]

LEMMA ComingExtends ==
  ASSUME NEW queue, NEW more, Extends(queue, more), Coming(queue)  PROVE Coming(more)
<1>1. PICK i \in 1..Len(queue) : Lives(queue[i])
  BY DEF Coming
<1>2. i \in 1..Len(more) /\ more[i] = queue[i]
  BY DEF Extends
<1>. QED  BY <1>1, <1>2 DEF Coming

LEMMA StartingExtends ==
  ASSUME NEW queue, NEW more, Extends(queue, more), Starting(queue)  PROVE Starting(more)
<1>1. PICK i \in 1..Len(queue) : queue[i].type = "init"
  BY DEF Starting
<1>2. i \in 1..Len(more) /\ more[i] = queue[i]
  BY DEF Extends
<1>. QED  BY <1>1, <1>2 DEF Starting

LEMMA StartingTail ==
  ASSUME NEW queue, IsSeq(queue), queue # <<>>, Starting(queue), Head(queue).type # "init"
  PROVE  Starting(Tail(queue))
<1>. DEFINE n == Len(queue)
            new == Tail(queue)
<1>1. /\ n \in Nat \ {0} /\ Head(queue) = queue[1] /\ Len(new) = n - 1
      /\ \A i \in 1..n - 1 : new[i] = queue[i + 1]
  BY TailSeq
<1>2. PICK i \in 1..n : queue[i].type = "init"
  BY DEF Starting
<1>. HIDE DEF n, new
<1>3. i # 1
  BY <1>1, <1>2
<1>4. i - 1 \in 1..n - 1 /\ (i - 1) + 1 = i
  BY <1>1, <1>3
<1>5. new[i - 1].type = "init"
  BY <1>1, <1>2, <1>4
<1>. QED  BY <1>1, <1>4, <1>5 DEF Starting, new

LEMMA InitDueExtends ==
  ASSUME InitDue, Extends(toSource, toSource'), Extends(toReplica, toReplica'),
         initDone => initDone'
  PROVE  InitDue'
<1>1. CASE initDone
  BY <1>1 DEF InitDue
<1>2. ASSUME NEW i \in 1..Len(toSource), IsInit(toSource[i])
      PROVE  InitDue'
  <2>1. i \in 1..Len(toSource') /\ toSource'[i] = toSource[i]
    BY DEF Extends
  <2>2. IsInit(toSource'[i])
    BY <1>2, <2>1
  <2>. QED  BY <2>1, <2>2 DEF InitDue
<1>3. ASSUME NEW i \in 1..Len(toReplica), IsInit(toReplica[i])
      PROVE  InitDue'
  <2>1. i \in 1..Len(toReplica') /\ toReplica'[i] = toReplica[i]
    BY DEF Extends
  <2>2. IsInit(toReplica'[i])
    BY <1>3, <2>1
  <2>. QED  BY <2>1, <2>2 DEF InitDue
<1>4. CASE Starting(toReplica)
  BY <1>4, StartingExtends DEF InitDue
<1>. QED  BY <1>1, <1>2, <1>3, <1>4 DEF InitDue

LEMMA AppendExtends ==
  ASSUME NEW queue, IsSeq(queue), NEW m  PROVE Extends(queue, Append(queue, m))
BY AppendSeq, IsSeqElements DEF Extends

LEMMA ItselfExtends ==
  ASSUME NEW queue, IsSeq(queue)  PROVE Extends(queue, queue)
BY IsSeqElements DEF Extends

LEMMA QueuesAre ==
  ASSUME StateOK
  PROVE  /\ IsSeq(toSource) /\ IsSeq(toReplica)
         /\ Len(rows) \in Nat /\ Len(columns) \in Nat
BY SeqIs, LenProperties DEF StateOK, WireTypes, PacketsOK, ModelTypes

LEMMA SendingExtends ==
  ASSUME StateOK, UNCHANGED toSource \/ Sending  PROVE Extends(toSource, toSource')
<1>1. toSource \in Seq(Calls) /\ IsSeq(toSource)
  BY CallerTypes, QueuesAre
<1>2. ASSUME NEW calls \in Seq(Calls), toSource' = toSource \o calls
      PROVE  Extends(toSource, toSource')
  <2>1. /\ Len(toSource') = Len(toSource) + Len(calls)
        /\ Len(toSource) \in Nat /\ Len(calls) \in Nat
        /\ \A i \in 1..Len(toSource) : toSource'[i] = toSource[i]
    BY <1>1, <1>2, ConcatProperties, LenProperties
  <2>. QED  BY <2>1 DEF Extends
<1>3. toSource' = toSource => Extends(toSource, toSource')
  BY <1>1, ItselfExtends
<1>. QED  BY <1>2, <1>3 DEF Sending, Sends

(* Signals. *)
LEMMA EmitAgrees ==
  ASSUME CountsOK, Safe, StateOK', UNCHANGED <<root, initDone>>, NEW m, Emit(m),
         m.type \notin {"size", "cache"},
         m.type # "modelReset" => /\ Len(rows') = Len(rows) + RowDelta(m)
                                  /\ Len(columns') = Len(columns) + ColumnDelta(m)
  PROVE  InitDue' /\ Agree'
<1>1. InitDue /\ Agree /\ IsSeq(toSource) /\ IsSeq(toReplica)
      /\ Len(rows) \in Int /\ Len(columns) \in Int
  BY QueuesAre DEF CountsOK
<1>2. Len(rows') \in Int /\ Len(columns') \in Int
  BY LenProperties DEF StateOK, ModelTypes
<1>3. toReplica' = Append(toReplica, m) /\ toSource' = toSource
  BY DEF Emit, Safe
<1>4. Extends(toSource, toSource') /\ Extends(toReplica, toReplica')
  BY <1>1, <1>3, AppendExtends, ItselfExtends
<1>5. InitDue'
  BY <1>1, <1>4, InitDueExtends
<1>6. ~Lives(m)
  BY DEF Lives, Rebuilds
<1>7. Agree'
  <2>0. CASE Starting(toReplica)
    BY <1>4, <2>0, StartingExtends DEF Agree
  <2>1. CASE Coming(toSource)
    BY <1>3, <2>1 DEF Agree
  <2>2. CASE ~Coming(toSource) /\ ~Starting(toReplica) /\ m.type # "modelReset"
    <3>1. Counts(toReplica, initDone, root, Len(rows), Len(columns))
      BY <1>1, <2>2 DEF Agree
    <3>2. Counts(toReplica', initDone, root, Len(rows) + RowDelta(m),
                 Len(columns) + ColumnDelta(m))
      BY <1>1, <1>3, <1>6, <2>2, <3>1, CountsAppend
    <3>. QED  BY <2>2, <3>2 DEF Agree
  <2>3. CASE ~Coming(toSource) /\ ~Starting(toReplica) /\ m.type = "modelReset"
    <3>1. initDone \/ \E i \in 1..Len(toReplica) : IsInit(toReplica[i])
      BY <1>1, <2>3 DEF InitDue, Coming, IsInit, Lives
    <3>2. Counts(toReplica', initDone, root, Len(rows'), Len(columns'))
      BY <1>1, <1>2, <1>3, <1>6, <2>3, <3>1, CountsAnew
    <3>. QED  BY <3>2 DEF Agree
  <2>. QED  BY <2>0, <2>1, <2>2, <2>3
<1>. QED  BY <1>5, <1>7

LEMMA ChangesAgree ==
  ASSUME CountsOK, Changes, StateOK', happened \subseteq happened', NEW m, Emit(m),
         m.type \notin {"size", "cache"},
         m.type # "modelReset" => /\ Len(rows') = Len(rows) + RowDelta(m)
                                  /\ Len(columns') = Len(columns) + ColumnDelta(m)
  PROVE  CountsOK'
<1>1. UNCHANGED <<root, initDone, connected>> /\ undefined = Nothing
  BY DEF Changes, Happens, cacheVars, settingVars
<1>2. ASSUME Safe'  PROVE InitDue' /\ Agree'
  <2>1. Safe
    BY <1>1, <1>2 DEF Safe
  <2>. QED  BY <1>1, <2>1, EmitAgrees
<1>. QED  BY <1>2 DEF CountsOK

LEMMA NoDelta ==
  ASSUME NEW m, m.type \notin {"rowsInserted", "rowsRemoved", "columnsInserted"},
         Len(rows') = Len(rows), Len(columns') = Len(columns), StateOK
  PROVE  /\ Len(rows') = Len(rows) + RowDelta(m)
         /\ Len(columns') = Len(columns) + ColumnDelta(m)
BY QueuesAre DEF RowDelta, ColumnDelta

LEMMA ModelChangesAgree ==
  ASSUME CountsOK, ModelChanges  PROVE CountsOK'
<1>1. StateOK /\ StateOK' /\ Len(rows) \in Nat /\ Len(columns) \in Nat
      /\ rows \in Seq(Items)
  BY ModelChangesType, QueuesAre DEF CountsOK, StateOK, ModelTypes
<1>2. ASSUME NEW parent \in Parents, NEW item \in Spare,
             NEW row \in 1..(Len(RowsOf(parent)) + 1),
             SourceRowsInserted(parent, row, item)
      PROVE  CountsOK'
  <2>. DEFINE m == [type |-> "rowsInserted", parent |-> parent, row |-> row]
  <2>1. Changes /\ Emit(m) /\ columns' = columns /\ happened \subseteq happened'
    BY <1>2 DEF SourceRowsInserted
  <2>2. /\ m.type = "rowsInserted" /\ ColumnDelta(m) = 0
        /\ RowDelta(m) = IF parent = <<>> THEN 1 ELSE 0
    BY DEF ColumnDelta, RowDelta
  <2>3. Len(rows') = Len(rows) + RowDelta(m)
    <3>1. CASE parent = <<>>
      <4>1. rows' = InsertAt(rows, row, item) /\ row \in 1..Len(rows) + 1 /\ item \in Items
        BY <1>2, <3>1 DEF SourceRowsInserted, InsertBelow, RowsOf, Items
      <4>2. Len(rows') = Len(rows) + 1
        BY <1>1, <4>1, InsertAtSeq
      <4>. QED  BY <2>2, <3>1, <4>2
    <3>2. CASE parent # <<>>
      <4>1. rows' = rows
        BY <1>2, <3>2 DEF SourceRowsInserted, InsertBelow
      <4>. QED  BY <1>1, <2>2, <3>2, <4>1
    <3>. QED  BY <3>1, <3>2
  <2>. HIDE DEF m
  <2>4. Len(columns') = Len(columns) + ColumnDelta(m)
    BY <1>1, <2>1, <2>2
  <2>. QED  BY <1>1, <2>1, <2>2, <2>3, <2>4, ChangesAgree
<1>3. ASSUME NEW parent \in Parents, NEW row, SourceRowsRemoved(parent, row)
      PROVE  CountsOK'
  <2>. DEFINE m == [type |-> "rowsRemoved", parent |-> parent, row |-> row]
  <2>1. Changes /\ Emit(m) /\ columns' = columns /\ happened \subseteq happened'
    BY <1>3 DEF SourceRowsRemoved
  <2>2. /\ m.type = "rowsRemoved" /\ ColumnDelta(m) = 0
        /\ RowDelta(m) = IF parent = <<>> THEN -1 ELSE 0
    BY DEF ColumnDelta, RowDelta
  <2>3. Len(rows') = Len(rows) + RowDelta(m)
    <3>1. CASE parent = <<>>
      <4>1. rows' = RemoveAt(rows, row) /\ row \in 1..Len(rows)
        BY <1>1, <1>3, <3>1, LenProperties DEF SourceRowsRemoved, RowsOf
      <4>2. Len(rows') = Len(rows) - 1
        BY <1>1, <4>1, RemoveAtSeq
      <4>. QED  BY <1>1, <2>2, <3>1, <4>2
    <3>2. CASE parent # <<>>
      <4>1. rows' = rows
        BY <1>3, <3>2 DEF SourceRowsRemoved
      <4>. QED  BY <1>1, <2>2, <3>2, <4>1
    <3>. QED  BY <3>1, <3>2
  <2>. HIDE DEF m
  <2>4. Len(columns') = Len(columns) + ColumnDelta(m)
    BY <1>1, <2>1, <2>2
  <2>. QED  BY <1>1, <2>1, <2>2, <2>3, <2>4, ChangesAgree
<1>4. ASSUME NEW parent, NEW row, NEW column, SourceDataChanged(parent, row, column)
      PROVE  CountsOK'
  <2>. DEFINE m == EditSignal(parent, row, column)
  <2>1. Changes /\ Emit(m) /\ UNCHANGED <<rows, columns, happened>>
        /\ m.type = "dataChanged"
    BY <1>4 DEF SourceDataChanged, EditSignal
  <2>. HIDE DEF m
  <2>. QED  BY <1>1, <2>1, NoDelta, ChangesAgree
<1>5. ASSUME NEW row, NEW dest, SourceRowsMoved(row, dest)  PROVE CountsOK'
  <2>. DEFINE m == [type |-> "rowsMoved", row |-> row, dest |-> dest]
  <2>1. Changes /\ Emit(m) /\ columns' = columns /\ happened \subseteq happened'
        /\ m.type = "rowsMoved" /\ Len(rows') = Len(rows)
    BY <1>1, <1>5, RowsMovedType DEF SourceRowsMoved
  <2>. HIDE DEF m
  <2>. QED  BY <1>1, <2>1, NoDelta, ChangesAgree
<1>6. ASSUME NEW column, SourceColumnsInserted(column)  PROVE CountsOK'
  <2>. DEFINE m == [type |-> "columnsInserted"]
  <2>1. /\ Changes /\ Emit(m) /\ rows' = rows /\ happened \subseteq happened'
        /\ m.type = "columnsInserted" /\ Len(columns') = Len(columns) + 1
    BY <1>1, <1>6, ColumnsInsertedType DEF SourceColumnsInserted
  <2>2. RowDelta(m) = 0 /\ ColumnDelta(m) = 1
    BY DEF RowDelta, ColumnDelta
  <2>. HIDE DEF m
  <2>3. Len(rows') = Len(rows) + RowDelta(m) /\ Len(columns') = Len(columns) + ColumnDelta(m)
    BY <1>1, <2>1, <2>2
  <2>. QED  BY <1>1, <2>1, <2>3, ChangesAgree
<1>7. ASSUME NEW new, SourceReset(new)  PROVE CountsOK'
  <2>. DEFINE m == [type |-> "modelReset"]
  <2>1. Changes /\ Emit(m) /\ happened \subseteq happened' /\ m.type = "modelReset"
    BY <1>7 DEF SourceReset
  <2>. HIDE DEF m
  <2>. QED  BY <1>1, <2>1, ChangesAgree
<1>8. CASE SourceLayoutChanged
  <2>. DEFINE m == [type |-> "layoutChanged"]
  <2>1. Changes /\ Emit(m) /\ columns' = columns /\ happened \subseteq happened'
        /\ m.type = "layoutChanged" /\ Len(rows') = Len(rows)
    BY <1>1, <1>8, SourceLayoutType DEF SourceLayoutChanged
  <2>. HIDE DEF m
  <2>. QED  BY <1>1, <2>1, NoDelta, ChangesAgree
<1>9. ASSUME NEW section, SourceHeaderChanged(section)  PROVE CountsOK'
  <2>. DEFINE m == [type |-> "headerDataChanged", section |-> section]
  <2>1. Changes /\ Emit(m) /\ UNCHANGED <<rows, columns, happened>>
        /\ m.type = "headerDataChanged"
    BY <1>9 DEF SourceHeaderChanged, modelVars
  <2>. HIDE DEF m
  <2>. QED  BY <1>1, <2>1, NoDelta, ChangesAgree
<1>. QED  BY <1>2, <1>3, <1>4, <1>5, <1>6, <1>7, <1>8, <1>9 DEF ModelChanges

(* Answers. *)
LEMMA PoppedCall ==
  ASSUME StateOK, toSource # <<>>, toSource' = Tail(toSource), ~Lives(Head(toSource))
  PROVE  /\ Coming(toSource) => Coming(toSource')
         /\ \A i \in 1..Len(toSource) :
              IsInit(toSource[i]) =>
                \E k \in 1..Len(toSource') : IsInit(toSource'[k])
<1>. DEFINE n == Len(toSource)
<1>1. /\ n \in Nat /\ Len(toSource') = n - 1 /\ Head(toSource) = toSource[1]
      /\ \A i \in 1..n - 1 : toSource'[i] = toSource[i + 1]
  BY QueuesAre, TailSeq
<1>. HIDE DEF n
<1>2. ASSUME NEW i \in 1..n, Lives(toSource[i])
      PROVE  \E k \in 1..n - 1 : toSource'[k] = toSource[i]
  <2>1. i # 1
    BY <1>1, <1>2
  <2>2. i - 1 \in 1..n - 1 /\ (i - 1) + 1 = i
    BY <1>1, <2>1
  <2>3. toSource'[i - 1] = toSource[i]
    BY <1>1, <2>2
  <2>. QED  BY <2>2, <2>3
<1>3. Coming(toSource) => Coming(toSource')
  BY <1>1, <1>2 DEF Coming, n
<1>4. \A i \in 1..n : IsInit(toSource[i]) => Lives(toSource[i])
  BY DEF IsInit, Lives
<1>. QED  BY <1>1, <1>2, <1>3, <1>4 DEF n

LEMMA AnswersAgree ==
  ASSUME CountsOK, StateOK', NEW type, Serves(type), NEW m, Answers(m),
         m.type \in {"size", "cache", "rows", "headers"},
         Lives(m) <=> Lives(Head(toSource)),
         IsInit(Head(toSource)) => IsInit(m),
         Lives(m) => m.rows = Len(rows) /\ m.columns = Len(columns)
  PROVE  CountsOK'
<1>1. /\ StateOK /\ toSource # <<>> /\ toSource' = Tail(toSource)
      /\ toReplica' = Append(toReplica, m) /\ UNCHANGED <<root, initDone, rows, columns>>
      /\ UNCHANGED <<undefined, happened, connected>>
  BY DEF CountsOK, Serves, Answers, modelVars, cacheVars, settingVars
<1>2. /\ IsSeq(toReplica) /\ Len(rows) \in Int /\ Len(columns) \in Int
      /\ Len(toReplica) \in Nat
  BY <1>1, QueuesAre, IsSeqElements
<1>3. /\ Len(toReplica') = Len(toReplica) + 1 /\ toReplica'[Len(toReplica) + 1] = m
      /\ \A i \in 1..Len(toReplica) : toReplica'[i] = toReplica[i]
  BY <1>1, <1>2, AppendSeq
<1>. SUFFICES ASSUME Safe'  PROVE InitDue' /\ Agree'
  BY DEF CountsOK
<1>4. InitDue /\ Agree
  BY <1>1 DEF CountsOK, Safe
<1>5. InitDue'
  <2>1. CASE initDone
    BY <1>1, <2>1 DEF InitDue
  <2>2. ASSUME NEW i \in 1..Len(toReplica), IsInit(toReplica[i])  PROVE InitDue'
    <3>1. i \in 1..Len(toReplica') /\ IsInit(toReplica'[i])
      BY <1>2, <1>3, <2>2
    <3>. QED  BY <3>1 DEF InitDue
  <2>3. CASE IsInit(m)
    <3>1. Len(toReplica) + 1 \in 1..Len(toReplica')
      BY <1>2, <1>3
    <3>2. IsInit(toReplica'[Len(toReplica) + 1])
      BY <1>3, <2>3
    <3>. QED  BY <3>1, <3>2 DEF InitDue
  <2>4. ASSUME NEW i \in 1..Len(toSource), IsInit(toSource[i]), ~IsInit(m)
        PROVE  InitDue'
    <3>. DEFINE n == Len(toSource)
    <3>1. /\ n \in Nat /\ Len(toSource') = n - 1 /\ Head(toSource) = toSource[1]
          /\ \A k \in 1..n - 1 : toSource'[k] = toSource[k + 1]
      BY <1>1, QueuesAre, TailSeq
    <3>2. i # 1
      BY <2>4, <3>1
    <3>. HIDE DEF n
    <3>3. i - 1 \in 1..n - 1 /\ (i - 1) + 1 = i
      BY <3>1, <3>2 DEF n
    <3>4. toSource'[i - 1] = toSource[i]
      BY <3>1, <3>3
    <3>5. i - 1 \in 1..Len(toSource') /\ IsInit(toSource'[i - 1])
      BY <2>4, <3>1, <3>3, <3>4
    <3>. QED  BY <3>5 DEF InitDue
  <2>5. CASE Starting(toReplica)
    BY <1>1, <1>2, <2>5, AppendExtends, StartingExtends DEF InitDue
  <2>. QED  BY <1>4, <2>1, <2>2, <2>3, <2>4, <2>5 DEF InitDue
<1>6. Agree'
  <2>0. CASE Starting(toReplica)
    BY <1>1, <1>2, <2>0, AppendExtends, StartingExtends DEF Agree
  <2>1. CASE Lives(m)
    <3>1. Counts(toReplica', initDone, root, Len(rows), Len(columns))
      BY <1>1, <1>2, <2>1, CountsAnew
    <3>. QED  BY <1>1, <3>1 DEF Agree
  <2>2. CASE ~Lives(m) /\ Coming(toSource)
    BY <1>1, <2>2, PoppedCall DEF Agree
  <2>3. CASE ~Lives(m) /\ ~Coming(toSource) /\ ~Starting(toReplica)
    <3>1. Counts(toReplica, initDone, root, Len(rows), Len(columns))
      BY <1>4, <2>3 DEF Agree
    <3>2. RowDelta(m) = 0 /\ ColumnDelta(m) = 0 /\ m.type # "modelReset"
      BY DEF RowDelta, ColumnDelta
    <3>3. Counts(toReplica', initDone, root, Len(rows) + 0, Len(columns) + 0)
      BY <1>1, <1>2, <2>3, <3>1, <3>2, CountsAppend
    <3>. QED  BY <1>1, <1>2, <3>3 DEF Agree
  <2>. QED  BY <2>0, <2>1, <2>2, <2>3
<1>. QED  BY <1>5, <1>6

LEMMA FatalAgrees ==
  ASSUME CountsOK, StateOK', SourceFatal  PROVE CountsOK'
BY DEF CountsOK, Safe, SourceFatal, Nothing

LEMMA SetDataAgrees ==
  ASSUME CountsOK, StateOK', ReplicaSetData  PROVE CountsOK'
<1>. DEFINE call == Head(toSource)
            parent == Parent(call.path)
            m == EditSignal(parent, Last(call.path), call.column)
<1>1. Serves("setData") /\ call.type = "setData" /\ toSource # <<>>
      /\ UNCHANGED <<root, initDone, connected>> /\ undefined = Nothing
  BY DEF ReplicaSetData, Serves, cacheVars, settingVars
<1>2. CASE SourceFatal
  BY <1>2, FatalAgrees
<1>3. CASE ~SourceFatal
  <2>1. /\ toSource' = Tail(toSource) /\ UNCHANGED <<rows, columns, undefined, happened>>
        /\ toReplica' = Append(toReplica, m) \/ toReplica' = toReplica
    BY <1>3 DEF ReplicaSetData
  <2>2. ~Lives(call) /\ ~IsInit(call) /\ m.type = "dataChanged"
    BY <1>1 DEF Lives, IsInit, Rebuilds, EditSignal
  <2>. HIDE DEF m, call
  <2>3. /\ IsSeq(toReplica) /\ Len(rows) \in Int /\ Len(columns) \in Int /\ StateOK
    BY QueuesAre DEF CountsOK
  <2>. SUFFICES ASSUME Safe'  PROVE InitDue' /\ Agree'
    BY DEF CountsOK
  <2>4. InitDue /\ Agree
    BY <1>1, <2>1 DEF CountsOK, Safe
  <2>5. Extends(toReplica, toReplica')
    BY <2>1, <2>3, AppendExtends, ItselfExtends
  <2>6. InitDue'
    <3>1. CASE initDone
      BY <1>1, <3>1 DEF InitDue
    <3>2. ASSUME NEW i \in 1..Len(toReplica), IsInit(toReplica[i])  PROVE InitDue'
      <4>1. i \in 1..Len(toReplica') /\ IsInit(toReplica'[i])
        BY <2>5, <3>2 DEF Extends
      <4>. QED  BY <4>1 DEF InitDue
    <3>3. ASSUME NEW i \in 1..Len(toSource), IsInit(toSource[i])
          PROVE  InitDue'
      BY <1>1, <2>1, <2>2, <2>3, <3>3, PoppedCall DEF InitDue, call
    <3>4. CASE Starting(toReplica)
      BY <2>5, <3>4, StartingExtends DEF InitDue
    <3>. QED  BY <2>4, <3>1, <3>2, <3>3, <3>4 DEF InitDue
  <2>7. Agree'
    <3>0. CASE Starting(toReplica)
      BY <2>5, <3>0, StartingExtends DEF Agree
    <3>1. CASE Coming(toSource)
      BY <1>1, <2>1, <2>2, <2>3, <3>1, PoppedCall DEF Agree, call
    <3>2. CASE ~Coming(toSource) /\ ~Starting(toReplica)
      <4>1. Counts(toReplica, initDone, root, Len(rows), Len(columns))
        BY <2>4, <3>2 DEF Agree
      <4>2. RowDelta(m) = 0 /\ ColumnDelta(m) = 0 /\ ~Lives(m) /\ m.type # "modelReset"
        BY <2>2 DEF RowDelta, ColumnDelta, Lives, Rebuilds
      <4>3. Counts(Append(toReplica, m), initDone, root, Len(rows) + 0, Len(columns) + 0)
        BY <2>3, <4>1, <4>2, CountsAppend
      <4>4. Counts(toReplica', initDone, root, Len(rows), Len(columns))
        <5>1. Len(rows) + 0 = Len(rows) /\ Len(columns) + 0 = Len(columns)
          BY <2>3
        <5>2. Counts(Append(toReplica, m), initDone, root, Len(rows), Len(columns))
          BY <4>3, <5>1
        <5>. QED  BY <2>1, <4>1, <5>2
      <4>. QED  BY <1>1, <2>1, <4>4 DEF Agree
    <3>. QED  BY <3>0, <3>1, <3>2
  <2>. QED  BY <2>6, <2>7
<1>. QED  BY <1>2, <1>3

LEMMA SourceAnswersAgree ==
  ASSUME CountsOK, SourceAnswers  PROVE CountsOK'
<1>. DEFINE call == Head(toSource)
<1>1. StateOK /\ StateOK'
  BY SourceAnswersType DEF CountsOK
<1>2. CASE ReplicaSizeRequest
  <2>1. Serves("size") /\ call \in Calls /\ call.type = "size"
    BY <1>1, <1>2, ServesType DEF ReplicaSizeRequest
  <2>2. CASE SourceFatal
    BY <1>1, <2>2, FatalAgrees
  <2>3. CASE ~SourceFatal
    <3>. DEFINE n == Len(RowsOf(call.parent))
                w == IF call.parent # <<>> /\ n = 0 THEN 0
                     ELSE Len(ColumnsOf(call.parent))
                m == [type |-> "size", parent |-> call.parent, init |-> call.init,
                      live |-> call.live, rows |-> n, columns |-> w, pairs |-> <<>>]
    <3>1. Answers(m)
      BY <1>2, <2>3 DEF ReplicaSizeRequest
    <3>2. /\ m.type = "size" /\ m.init = call.init /\ m.live = call.live
          /\ m.rows = n /\ m.columns = w
      OBVIOUS
    <3>3. call.init # "parent" => n = Len(rows) /\ w = Len(columns)
      <4>1. call.init # "parent" => call.parent = <<>>
        <5>. HIDE DEF call
        <5>. QED  BY <2>1, SizeCallType
      <4>. QED  BY <4>1 DEF RowsOf, ColumnsOf
    <3>. HIDE DEF m, n, w
    <3>4. Lives(m) <=> Lives(call)
      BY <2>1, <3>2 DEF Lives, Rebuilds
    <3>5. IsInit(call) => IsInit(m)
      BY <3>2, <3>4 DEF IsInit
    <3>6. Lives(m) => m.rows = Len(rows) /\ m.columns = Len(columns)
      BY <3>2, <3>3 DEF Lives, Rebuilds
    <3>. QED  BY <1>1, <2>1, <3>1, <3>2, <3>4, <3>5, <3>6, AnswersAgree
  <2>. QED  BY <2>2, <2>3
<1>3. CASE ReplicaRowRequest
  <2>1. Serves("rows") /\ call.type = "rows"
    BY <1>1, <1>3, ServesType DEF ReplicaRowRequest
  <2>2. CASE SourceFatal
    BY <1>1, <2>2, FatalAgrees
  <2>3. CASE ~SourceFatal
    <3>. DEFINE q == call.request
                m == [type |-> "rows", request |-> q, live |-> call.live,
                      pairs |-> Rectangle(q.parent,
                        q.r1, Min2(q.r2, Len(RowsOf(q.parent))),
                        q.c1, Min2(q.c2, Len(ColumnsOf(q.parent))))]
    <3>1. Answers(m) /\ m.type = "rows"
      BY <1>3, <2>3 DEF ReplicaRowRequest
    <3>. HIDE DEF m
    <3>2. ~Lives(m) /\ ~Lives(call) /\ ~IsInit(call)
      BY <2>1, <3>1 DEF Lives, IsInit, Rebuilds
    <3>. QED  BY <1>1, <2>1, <3>1, <3>2, AnswersAgree
  <2>. QED  BY <2>2, <2>3
<1>4. CASE ReplicaCacheRequest
  <2>. DEFINE m == [type |-> "cache", init |-> call.init, live |-> call.live,
                    parent |-> <<>>, rows |-> Len(rows), columns |-> Len(columns),
                    pairs |-> FetchTree(call.size)]
  <2>1. Serves("cache") /\ call.type = "cache"
    BY <1>1, <1>4, ServesType DEF ReplicaCacheRequest
  <2>2. Answers(m)
    BY <1>4 DEF ReplicaCacheRequest
  <2>3. /\ m.type = "cache" /\ m.init = call.init /\ m.live = call.live
        /\ m.rows = Len(rows) /\ m.columns = Len(columns)
    OBVIOUS
  <2>. HIDE DEF m
  <2>4. (Lives(m) <=> Lives(call)) /\ (IsInit(call) => IsInit(m))
    BY <2>1, <2>3 DEF Lives, IsInit, Rebuilds
  <2>. QED  BY <1>1, <2>1, <2>2, <2>3, <2>4, AnswersAgree
<1>5. CASE ReplicaHeaderRequest
  <2>1. Serves("headers") /\ call.type = "headers" /\ Answers(call)
    BY <1>1, <1>5, ServesType DEF ReplicaHeaderRequest
  <2>2. ~Lives(call) /\ ~IsInit(call)
    BY <2>1 DEF Lives, IsInit, Rebuilds
  <2>. QED  BY <1>1, <2>1, <2>2, AnswersAgree
<1>6. CASE ReplicaSetData
  BY <1>1, <1>6, SetDataAgrees
<1>. QED  BY <1>2, <1>3, <1>4, <1>5, <1>6 DEF SourceAnswers

(* What is received: only resets after initDone and the values kill        *)
(* anything, and they ask anew.                                            *)
LEMMA AsksAnew ==
  ASSUME NEW queue, IsSeq(queue), NEW call, Lives(call)
  PROVE  Coming(Append(queue, call))
<1>1. /\ Len(queue) \in Nat /\ Len(Append(queue, call)) = Len(queue) + 1
      /\ Append(queue, call)[Len(queue) + 1] = call
  BY AppendSeq, IsSeqElements
<1>2. Len(queue) + 1 \in 1..Len(Append(queue, call))
  BY <1>1
<1>. QED  BY <1>1, <1>2 DEF Coming

LEMMA ReceivesFrame ==
  ASSUME StateOK, ReplicaReceives
  PROVE  /\ undefined = Nothing /\ toReplica # <<>> /\ UNCHANGED <<rows, columns, connected>>
         /\ (initDone => initDone') /\ (IsInit(Head(toReplica)) => initDone')
         /\ \/ /\ Received /\ Head(toReplica).type # "init"
               /\ Head(toReplica).type = "modelReset" => ~initDone
            \/ InitDue' /\ Coming(toSource')
            \/ /\ toReplica' = Tail(toReplica) /\ Head(toReplica).type # "init"
               /\ Coming(toSource') /\ Extends(toSource, toSource')
<1>1. ASSUME NEW type, Receives(type), initDone => initDone',
             (type \in {"size", "cache"} /\ IsInit(Head(toReplica))) => initDone',
             \/ Received /\ type # "init" /\ (type = "modelReset" => ~initDone)
             \/ InitDue' /\ Coming(toSource')
             \/ /\ toReplica' = Tail(toReplica) /\ type # "init"
                /\ Coming(toSource') /\ Extends(toSource, toSource')
      PROVE  /\ undefined = Nothing /\ toReplica # <<>>
             /\ UNCHANGED <<rows, columns, connected>>
             /\ (initDone => initDone') /\ (IsInit(Head(toReplica)) => initDone')
             /\ \/ /\ Received /\ Head(toReplica).type # "init"
                   /\ Head(toReplica).type = "modelReset" => ~initDone
                \/ InitDue' /\ Coming(toSource')
                \/ /\ toReplica' = Tail(toReplica) /\ Head(toReplica).type # "init"
                   /\ Coming(toSource') /\ Extends(toSource, toSource')
  <2>1. /\ undefined = Nothing /\ toReplica # <<>> /\ Head(toReplica).type = type
        /\ UNCHANGED <<rows, columns, connected>>
    BY <1>1 DEF Receives, modelVars
  <2>2. IsInit(Head(toReplica)) => type \in {"size", "cache"}
    BY <2>1 DEF IsInit, Lives, Rebuilds
  <2>. QED  BY <1>1, <2>1, <2>2
<1>0. ASSUME NEW init \in {"init", "reset"}, ModelReset(init)
      PROVE  /\ Coming(toSource')
             /\ init = "init" => \E i \in 1..Len(toSource') : IsInit(toSource'[i])
  <2>. DEFINE call == IF prefetch THEN CacheCall(init, cacheSize)
                                  ELSE SizeCall(<<>>, init)
  <2>1. Lives(call) /\ call.init = init
    BY DEF Lives, Rebuilds, CacheCall, SizeCall
  <2>2. IsSeq(Kill(toSource)) /\ toSource' = Append(Kill(toSource), call)
    BY <1>0, KillIs, QueuesAre DEF ModelReset
  <2>. HIDE DEF call
  <2>3. /\ Len(Kill(toSource)) \in Nat /\ Len(toSource') = Len(Kill(toSource)) + 1
        /\ toSource'[Len(Kill(toSource)) + 1] = call
    BY <2>2, AppendSeq, IsSeqElements
  <2>4. Len(Kill(toSource)) + 1 \in 1..Len(toSource')
    BY <2>3
  <2>. QED  BY <2>1, <2>2, <2>3, <2>4, AsksAnew DEF IsInit
<1>2. CASE OnRowsInserted
  BY <1>1, <1>2 DEF OnRowsInserted
<1>3. CASE OnColumnsInserted
  BY <1>1, <1>3 DEF OnColumnsInserted
<1>4. CASE OnRowsRemoved
  BY <1>1, <1>4 DEF OnRowsRemoved
<1>5. CASE OnRowsMoved
  BY <1>1, <1>5 DEF OnRowsMoved
<1>6. CASE OnDataChanged
  BY <1>1, <1>6 DEF OnDataChanged
<1>7. CASE OnModelReset
  <2>1. Receives("modelReset") /\ UNCHANGED initDone
    BY <1>7 DEF OnModelReset
  <2>2. CASE ~initDone
    BY <1>1, <1>7, <2>1, <2>2 DEF OnModelReset
  <2>3. CASE initDone
    <3>1. Coming(toSource')
      BY <1>0, <1>7, <2>3 DEF OnModelReset
    <3>2. InitDue'
      BY <2>1, <2>3 DEF InitDue
    <3>. QED  BY <1>1, <2>1, <3>1, <3>2
  <2>. QED  BY <2>2, <2>3
<1>16. CASE OnInitialized
  <2>1. Receives("init") /\ UNCHANGED initDone /\ ModelReset("init")
    BY <1>16 DEF OnInitialized
  <2>2. Coming(toSource') /\ InitDue'
    BY <1>0, <2>1 DEF InitDue
  <2>. QED  BY <1>1, <2>1, <2>2
<1>8. CASE OnLayoutChanged
  <2>1. /\ Receives("layoutChanged") /\ UNCHANGED initDone
        /\ toReplica' = Tail(toReplica)
        /\ toSource' = Append(toSource, CacheCall("layout", cacheSize))
    BY <1>8 DEF OnLayoutChanged
  <2>2. Lives(CacheCall("layout", cacheSize))
    BY DEF Lives, Rebuilds, CacheCall
  <2>3. Coming(toSource') /\ Extends(toSource, toSource')
    BY <2>1, <2>2, QueuesAre, AsksAnew, AppendExtends
  <2>. QED  BY <1>1, <2>1, <2>3
<1>9. CASE OnHeaderDataChanged
  BY <1>1, <1>9 DEF OnHeaderDataChanged
<1>10. CASE ResetDone
  <2>1. UNCHANGED initDone
    BY <1>10 DEF ResetDone
  <2>2. CASE Gets("size", "reset")
    BY <1>1, <2>1, <2>2 DEF Gets, IsInit
  <2>3. CASE Gets("cache", "reset")
    BY <1>1, <2>1, <2>3 DEF Gets, IsInit
  <2>. QED  BY <1>10, <2>2, <2>3 DEF ResetDone
<1>11. CASE HandleInitDone
  <2>1. (initDone => initDone') /\ (IsInit(Head(toReplica)) => initDone')
    BY <1>11 DEF HandleInitDone, IsInit, Lives
  <2>2. CASE Gets("size", "init")
    BY <1>1, <2>1, <2>2 DEF Gets
  <2>3. CASE Gets("cache", "init")
    BY <1>1, <2>1, <2>3 DEF Gets
  <2>. QED  BY <1>11, <2>2, <2>3 DEF HandleInitDone
<1>12. CASE LayoutDone
  BY <1>1, <1>12 DEF LayoutDone, Gets, IsInit
<1>13. CASE HandleSizeDone
  BY <1>1, <1>13 DEF HandleSizeDone, Gets, IsInit
<1>14. CASE RequestedData
  BY <1>1, <1>14 DEF RequestedData
<1>15. CASE RequestedHeaderData
  BY <1>1, <1>15 DEF RequestedHeaderData
<1>. QED  BY <1>2, <1>3, <1>4, <1>5, <1>6, <1>7, <1>8, <1>9, <1>10, <1>11, <1>12,
             <1>13, <1>14, <1>15, <1>16 DEF ReplicaReceives

LEMMA ReplicaReceivesAgrees ==
  ASSUME CountsOK, ReplicaReceives  PROVE CountsOK'
<1>. DEFINE m == Head(toReplica)
            n == Len(toReplica)
<1>1. StateOK /\ StateOK' /\ Takes(m)
  BY ReplicaReceivesType DEF CountsOK
<1>2. /\ undefined = Nothing /\ toReplica # <<>> /\ UNCHANGED <<rows, columns, connected>>
      /\ (initDone => initDone') /\ (IsInit(m) => initDone')
      /\ \/ Received /\ m.type # "init" /\ (m.type = "modelReset" => ~initDone)
         \/ InitDue' /\ Coming(toSource')
         \/ /\ toReplica' = Tail(toReplica) /\ m.type # "init"
            /\ Coming(toSource') /\ Extends(toSource, toSource')
  BY <1>1, ReceivesFrame
<1>3. /\ n \in Nat \ {0} /\ m = toReplica[1] /\ Len(Tail(toReplica)) = n - 1
      /\ \A i \in 1..n - 1 : Tail(toReplica)[i] = toReplica[i + 1]
      /\ IsSeq(toReplica) /\ IsSeq(toSource)
  BY <1>1, <1>2, QueuesAre, TailSeq
<1>. HIDE DEF m, n
<1>. SUFFICES ASSUME Safe'  PROVE InitDue' /\ Agree'
  BY <1>1 DEF CountsOK
<1>4. InitDue /\ Agree
  BY <1>2 DEF CountsOK, Safe
<1>5. ASSUME toReplica' = Tail(toReplica), m.type # "init", Extends(toSource, toSource')
      PROVE  InitDue' /\ (Starting(toReplica) => Starting(toReplica'))
  <2>0. Starting(toReplica) => Starting(toReplica')
    <3>1. ASSUME Starting(toReplica)  PROVE Starting(Tail(toReplica))
      <4>1. Head(toReplica).type # "init"
        BY <1>5 DEF m
      <4>. QED  BY ONLY <1>2, <1>3, <3>1, <4>1, StartingTail
    <3>. QED  BY <1>5, <3>1
  <2>1. CASE initDone
    BY <1>2, <2>0, <2>1 DEF InitDue
  <2>2. ASSUME NEW i \in 1..Len(toSource), IsInit(toSource[i])
        PROVE  InitDue'
    <3>1. i \in 1..Len(toSource') /\ toSource'[i] = toSource[i]
      BY <1>5 DEF Extends
    <3>2. IsInit(toSource'[i])
      BY <2>2, <3>1
    <3>. QED  BY <3>1, <3>2 DEF InitDue
  <2>3. ASSUME NEW i \in 1..n, IsInit(toReplica[i])  PROVE InitDue'
    <3>1. CASE i = 1
      BY <1>2, <1>3, <2>3, <3>1 DEF InitDue
    <3>2. CASE i # 1
      <4>1. i - 1 \in 1..n - 1 /\ (i - 1) + 1 = i
        BY <1>3, <3>2
      <4>2. i - 1 \in 1..Len(toReplica') /\ toReplica'[i - 1] = toReplica[i]
        BY <1>3, <1>5, <4>1
      <4>3. i - 1 \in 1..Len(toReplica') /\ IsInit(toReplica'[i - 1])
        BY <2>3, <4>2
      <4>. QED  BY <4>3 DEF InitDue
    <3>. QED  BY <3>1, <3>2
  <2>4. Starting(toReplica) => InitDue'
    BY <2>0 DEF InitDue
  <2>. QED  BY <1>4, <2>0, <2>1, <2>2, <2>3, <2>4 DEF InitDue, n
<1>6. CASE InitDue' /\ Coming(toSource')
  BY <1>6 DEF Agree
<1>7. CASE /\ toReplica' = Tail(toReplica) /\ m.type # "init"
           /\ Coming(toSource') /\ Extends(toSource, toSource')
  BY <1>5, <1>7 DEF Agree
<1>8. CASE Received /\ m.type # "init" /\ (m.type = "modelReset" => ~initDone)
  <2>1. toReplica' = Tail(toReplica) /\ toSource' = toSource
    BY <1>8 DEF Received
  <2>2. Extends(toSource, toSource')
    BY <1>3, <2>1, ItselfExtends
  <2>3. CASE Coming(toSource) \/ Starting(toReplica)
    BY <1>5, <1>8, <2>1, <2>2, <2>3 DEF Agree
  <2>4. CASE ~Coming(toSource) /\ ~Starting(toReplica)
    <3>1. Counts(toReplica, initDone, root, Len(rows), Len(columns))
      BY <1>4, <2>4 DEF Agree
    <3>2. IF Lives(m) THEN root'.rowCount = m.rows /\ root'.columnCount = m.columns
          ELSE /\ root'.rowCount = root.rowCount + RowDelta(m)
               /\ root'.columnCount = root.columnCount + ColumnDelta(m)
      BY <1>1 DEF Takes, Grows
    <3>3. Counts(Tail(toReplica), initDone', root', Len(rows), Len(columns))
      BY <1>2, <1>3, <1>8, <3>1, <3>2, CountsTail DEF m
    <3>4. Agree'
      BY <1>2, <2>1, <3>3 DEF Agree
    <3>. QED  BY <1>5, <1>8, <2>1, <2>2, <3>4
  <2>. QED  BY <2>3, <2>4
<1>. QED  BY <1>2, <1>6, <1>7, <1>8

(* Whoever only puts calls on the connection leaves the counts alone.      *)
LEMMA CallsAgree ==
  ASSUME CountsOK, StateOK', undefined = Nothing,
         UNCHANGED <<rows, columns, toReplica, initDone, connected>>,
         Extends(toSource, toSource'),
         root'.rowCount = root.rowCount, root'.columnCount = root.columnCount
  PROVE  CountsOK'
<1>. SUFFICES ASSUME Safe'  PROVE InitDue' /\ Agree'
  BY DEF CountsOK
<1>1. InitDue /\ Agree /\ StateOK
  BY DEF CountsOK, Safe
<1>2. Extends(toReplica, toReplica')
  BY <1>1, QueuesAre, ItselfExtends
<1>3. InitDue'
  BY <1>1, <1>2, InitDueExtends
<1>4. CASE Coming(toSource) \/ Starting(toReplica)
  BY <1>3, <1>4, ComingExtends DEF Agree
<1>5. CASE Counts(toReplica, initDone, root, Len(rows), Len(columns))
  <2>1. Counts(toReplica, initDone, root', Len(rows), Len(columns))
    BY <1>5, CountsTree
  <2>. QED  BY <1>3, <2>1 DEF Agree
<1>. QED  BY <1>1, <1>4, <1>5 DEF Agree

LEMMA ViewCallsAgree ==
  ASSUME CountsOK, ViewCalls  PROVE CountsOK'
<1>1. /\ StateOK /\ StateOK' /\ Keeps(root, root')
      /\ Extends(toSource, toSource')
  BY ViewCallsType, SendingExtends DEF CountsOK
<1>2. Reads
  BY DEF ViewCalls, MultiData, RowCount, HeaderData, SetData, SetRootCacheSize
<1>3. undefined = Nothing /\ UNCHANGED <<rows, columns, toReplica, initDone, connected>>
  BY <1>2 DEF Reads, modelVars
<1>. QED  BY <1>1, <1>3, CallsAgree DEF Keeps

LEMMA FetchesAgree ==
  ASSUME CountsOK, FetchPendingData \/ FetchPendingHeaderData  PROVE CountsOK'
<1>1. /\ StateOK /\ StateOK' /\ UNCHANGED root
      /\ Extends(toSource, toSource')
  BY FetchPendingDataType, FetchPendingHeaderDataType, SendingExtends DEF CountsOK
<1>2. Queued
  BY DEF FetchPendingData, FetchPendingHeaderData
<1>3. undefined = Nothing /\ UNCHANGED <<rows, columns, toReplica, initDone, connected>>
  BY <1>2 DEF Queued, modelVars, settingVars
<1>. QED  BY <1>1, <1>3, CallsAgree

LEMMA InitAgrees ==
  ASSUME Init  PROVE CountsOK
<1>. DEFINE call == IF prefetch THEN CacheCall("init", CacheSize) ELSE SizeCall(<<>>, "init")
<1>1. toSource = <<call>>
  BY DEF Init
<1>2. IsInit(call)
  BY DEF IsInit, Lives, Rebuilds, CacheCall, SizeCall
<1>. HIDE DEF call
<1>3. Len(toSource) = 1 /\ toSource[1] = call
  BY <1>1
<1>4. InitDue /\ Coming(toSource)
  BY <1>2, <1>3 DEF InitDue, Coming, IsInit
<1>. QED  BY <1>4, InitType DEF CountsOK, Agree

LEMMA CountsStep ==
  ASSUME CountsOK, [Next]_vars  PROVE CountsOK'
<1>1. StateOK'
  BY TypeStep DEF CountsOK
<1>2. CASE UNCHANGED vars
  <2>1. UNCHANGED <<undefined, connected, initDone, toSource, toReplica, root, rows, columns>>
    BY <1>2 DEF vars, modelVars, wireVars, cacheVars, settingVars
  <2>. QED  BY <1>1, <2>1 DEF CountsOK, Safe, InitDue, Agree
<1>3. CASE ConnectionLost
  BY <1>1, <1>3 DEF ConnectionLost, CountsOK, Safe
<1>5. CASE ConnectionMade
  <2>. DEFINE m == [type |-> "init"]
  <2>1. toReplica' = <<m>>
    BY <1>5 DEF ConnectionMade
  <2>2. m.type = "init" /\ Len(<<m>>) = 1 /\ <<m>>[1] = m
    OBVIOUS
  <2>. HIDE DEF m
  <2>3. Starting(toReplica')
    BY <2>1, <2>2 DEF Starting
  <2>. QED  BY <1>1, <2>3 DEF CountsOK, InitDue, Agree
<1>4. CASE Next
  BY <1>3, <1>4, <1>5, ModelChangesAgree, SourceAnswersAgree, ReplicaReceivesAgrees,
     ViewCallsAgree, FetchesAgree DEF Next
<1>. QED  BY <1>2, <1>4

LEMMA CountsImplyAgree == ASSUME CountsOK  PROVE RowsAgree
<1>. SUFFICES ASSUME Synced
              PROVE  root.rowCount = Len(rows) /\ root.columnCount = Len(columns)
  BY DEF RowsAgree
<1>1. toReplica = <<>> /\ Safe /\ Len(toReplica) = 0 /\ ~Starting(toReplica)
  BY NoSeq DEF Synced, Safe, Starting
<1>2. ~Coming(toSource)
  <2>1. DOMAIN toSource = 1..Len(toSource)
    BY QueuesAre, IsSeqElements DEF CountsOK
  <2>. QED  BY <2>1 DEF Synced, Coming, Lives
<1>3. Counts(toReplica, initDone, root, Len(rows), Len(columns))
  BY <1>1, <1>2 DEF CountsOK, Agree
<1>4. PICK p \in 0..0, r \in [0..0 -> Int], c \in [0..0 -> Int] :
        /\ Starts(toReplica, initDone, root, p, r, c)
        /\ r[0] = Len(rows) /\ c[0] = Len(columns)
  BY <1>1, <1>3 DEF Counts
<1>5. p = 0
  OBVIOUS
<1>. QED  BY <1>4, <1>5 DEF Starts

(* Once everything signalled has arrived, the replica has as many top      *)
(* level rows and columns as the model: for every model, every number of   *)
(* changes and any cache, whatever crosses on the connection and however   *)
(* often it is lost and made again (handleSizeDone, onRowsInserted,        *)
(* onRowsRemoved, handleModelResetDone, handleInitDone).                   *)
THEOREM RowsAlwaysAgree == Spec => []RowsAgree
<1>1. Init => CountsOK
  BY InitAgrees
<1>2. CountsOK /\ [Next]_vars => CountsOK'
  BY CountsStep
<1>3. CountsOK => RowsAgree
  BY CountsImplyAgree
<1>. QED  BY <1>1, <1>2, <1>3, PTL DEF Spec

=============================================================================
